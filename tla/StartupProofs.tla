--------------------------- MODULE StartupProofs ---------------------------
(***************************************************************************)
(* Proofs about Startup, for any finite set of processes, any time limits  *)
(* and any number of crashes and changes.                                  *)
(*                                                                         *)
(* LeaseInv makes the exclusion inductive: who migrates either owns the    *)
(* lease, and the lease is as old as the migration, or has been at it for  *)
(* longer than LEASE_STALE_S.  SchemaInv says what a version of the        *)
(* database implies, and what a process half way through _migrate may rely *)
(* on although others migrate at the same time.  BootInv says what a       *)
(* bootstrap that nothing disturbed knows at each of its steps.            *)
(***************************************************************************)
EXTENDS Startup, FiniteSetTheorems, SequenceTheorems, TLAPS

Versions == {"none", "0001", "0002", "0003"}
Creds == [admin : Nat, key : Nat]
PCs == Starting \cup {"down", "serving"}
Shape == [pc : PCs, waited : Nat, held : Nat,
          ok : BOOLEAN, seen : Versions, creds : Creds, admin : Nat, key : Nat,
          target : Nat]

SchemaShape == [version : Versions,
                parts : SUBSET {"tables", "columns", "uniqueSeq", "defaults"},
                old : BOOLEAN]

LeaseType == lease \in [owner : Procs \cup {Nobody}, age : Nat]
SchemaType == schema \in SchemaShape
TenantsType == tenants \in Seq([key : Nat, enabled : BOOLEAN])
FileType == file \in Creds
ProcType == proc \in [Procs -> Shape]
TypeInv == LeaseType /\ SchemaType /\ TenantsType /\ FileType /\ ProcType

LeaseInv ==
    \A p \in Procs :
        /\ proc[p].pc \in Polling => proc[p].held = 0
        /\ proc[p].pc \in Migrating =>
             \/ proc[p].held > LeaseStale
             \/ lease.owner = p /\ lease.age = proc[p].held

Complete ==
    /\ schema.version = HeadRevision
    /\ {"tables", "columns", "uniqueSeq"} \subseteq schema.parts
    /\ "defaults" \in schema.parts \/ schema.old

SchemaInv ==
    /\ schema.version = "none" /\ "tables" \in schema.parts => schema.old
    /\ schema.version # "none" => {"tables", "columns"} \subseteq schema.parts
    /\ schema.version \in {"0002", "0003"} => "uniqueSeq" \in schema.parts
    /\ schema.version = "0003" => Complete
    /\ \A p \in Procs :
         /\ proc[p].pc = "fix" => "tables" \in schema.parts /\ schema.old
         /\ proc[p].pc = "stamp" =>
              {"tables", "columns", "uniqueSeq"} \subseteq schema.parts /\ schema.old
         /\ proc[p].pc = "release" /\ proc[p].ok => Complete
         /\ proc[p].pc \in Booting \cup {"serving"} => Complete

GoodKey(key) == \E i \in DOMAIN tenants : KeyIsGood(tenants[i], key)

\* What a bootstrap that nothing disturbed knows: it is the only one, the file is
\* as it was read, and from the step that leaves a good key on it has that key.
Undisturbed(p) ==
    /\ \A q \in Procs \ {p} : proc[q].pc \notin Booting
    /\ proc[p].pc \in {"lookup", "store", "save"} => proc[p].creds = file
    /\ proc[p].pc = "store" =>
         proc[p].key # NoKey /\ (proc[p].target = 0 \/ proc[p].target \in DOMAIN tenants)
    /\ proc[p].pc \in {"save", "write"} => GoodKey(proc[p].key)

BootInv ==
    \A p \in Procs : proc[p].pc \in Booting /\ p \notin disturbed => Undisturbed(p)

-----------------------------------------------------------------------------
(* New keys.                                                               *)

\* Among the first Cardinality(used) + 1 numbers one is not in use.
LEMMA NewKeyIsNat ==
    ASSUME NEW used, IsFiniteSet(used)
    PROVE  NewKey(used) \in Nat \ {0}
<1> DEFINE n == Cardinality(used)
<1>1. n \in Nat
  BY FS_CardinalityType
<1>2. IsFiniteSet(1..n + 1) /\ Cardinality(1..n + 1) = n + 1
  <2>1. 1 \in Int /\ n + 1 \in Int /\ ~(1 > n + 1) /\ (n + 1) - 1 + 1 = n + 1
    BY <1>1
  <2> HIDE DEF n
  <2> QED
    BY <2>1, FS_Interval
<1>3. ~(1..n + 1 \subseteq used)
  <2>1. SUFFICES ASSUME 1..n + 1 \in SUBSET used PROVE FALSE
    OBVIOUS
  <2>2. Cardinality(1..n + 1) <= Cardinality(used)
    BY <2>1, FS_Subset
  <2> QED
    BY <2>2, <1>1, <1>2
<1>4. \E k \in 1..n + 1 : k \notin used
  BY <1>3
<1>5. NewKey(used) \in 1..n + 1
  BY <1>4 DEF NewKey
<1> QED
  BY <1>1, <1>5

\* A set of two is finite.
LEMMA PairIsFinite ==
    ASSUME NEW x, NEW y PROVE IsFiniteSet({x, y})
<1>1. {x, y} = {x} \cup {y}
  OBVIOUS
<1>2. IsFiniteSet({x})
  BY FS_Singleton
<1> QED
  BY <1>1, <1>2, FS_AddElement

\* The keys that processes and database hold are finitely many.
LEMMA NewAdminKeyIsNat ==
    ASSUME TypeInv PROVE NewAdminKey \in Nat \ {0}
<1> DEFINE f == [p \in Procs |-> {proc[p].admin, proc[p].creds.admin}]
           T == {{proc[p].admin, proc[p].creds.admin} : p \in Procs}
<1>1. IsFiniteSet(Procs)
  BY StartupAssumption DEF StartupAssumption
<1>2. f \in Surjection(Procs, T)
  BY DEF Surjection
<1>3. IsFiniteSet(T)
  BY <1>1, <1>2, FS_Surjection
<1>4. \A t \in T : IsFiniteSet(t)
  BY PairIsFinite
<1>5. IsFiniteSet(UNION T)
  BY <1>3, <1>4, FS_UNION
<1>6. IsFiniteSet({file.admin} \cup UNION T)
  BY <1>5, FS_Singleton, FS_Union
<1> QED
  BY <1>6, NewKeyIsNat DEF NewAdminKey

\* The same for the keys of tenants.
LEMMA NewTenantKeyIsNat ==
    ASSUME TypeInv PROVE NewTenantKey \in Nat \ {0}
<1> DEFINE f == [p \in Procs |-> {proc[p].key, proc[p].creds.key}]
           T == {{proc[p].key, proc[p].creds.key} : p \in Procs}
           g == [i \in DOMAIN tenants |-> tenants[i].key]
           U == {tenants[i].key : i \in DOMAIN tenants}
<1>1. IsFiniteSet(Procs)
  BY StartupAssumption DEF StartupAssumption
<1>2. f \in Surjection(Procs, T)
  BY DEF Surjection
<1>3. IsFiniteSet(T)
  BY <1>1, <1>2, FS_Surjection
<1>4. \A t \in T : IsFiniteSet(t)
  BY PairIsFinite
<1>5. IsFiniteSet(UNION T)
  BY <1>3, <1>4, FS_UNION
<1>6. IsFiniteSet(DOMAIN tenants)
  <2>1. DOMAIN tenants = 1..Len(tenants) /\ Len(tenants) \in Int
    BY DEF TypeInv, TenantsType
  <2> QED
    BY <2>1, FS_Interval
<1>7. g \in Surjection(DOMAIN tenants, U)
  BY DEF Surjection
<1>8. IsFiniteSet(U)
  BY <1>6, <1>7, FS_Surjection
<1>9. IsFiniteSet({file.key} \cup U)
  BY <1>8, FS_Singleton, FS_Union
<1>10. IsFiniteSet(({file.key} \cup U) \cup UNION T)
  BY <1>5, <1>9, FS_Union
<1> QED
  BY <1>10, NewKeyIsNat DEF NewTenantKey
-----------------------------------------------------------------------------
(* Types.                                                                  *)

\* A step is one of the actions of a process, a change by the admin API, a tick
\* or a stutter; each theorem below goes through them.
LEMMA StepCases ==
    ASSUME NEW p \in Procs, Step(p)
    PROVE  \/ TryInsert(p) \/ TryExpire(p) \/ PollFails(p) \/ WaitOrGiveUp(p)
           \/ Detect(p) \/ Fix(p) \/ Stamp(p) \/ Upgrade(p) \/ Apply(p)
           \/ MigrateRaises(p) \/ Release(p) \/ LoadCredentials(p)
           \/ LookupTenant(p) \/ StoreTenant(p) \/ SaveCredentials(p)
           \/ WriteCredentials(p)
  BY DEF Step

\* A process that is down has the shape of a process.
LEMMA DownHasShape == Down \in Shape
  BY DEF Down, Shape, NoCreds, NoKey, Creds, Versions, PCs

\* A process that moves on keeps its shape.
LEMMA MoveKeepsShape ==
    ASSUME NEW r \in Shape, NEW x \in PCs
    PROVE  [r EXCEPT !.pc = x] \in Shape
  BY DEF Shape

\* Goto keeps the type of proc.
LEMMA GotoKeepsType ==
    ASSUME ProcType, NEW p \in Procs, NEW x \in PCs, Goto(p, x)
    PROVE  ProcType'
  BY DEF ProcType, Shape, Goto

\* So does any assignment of a process of the right shape.
LEMMA SetKeepsType ==
    ASSUME ProcType, NEW p \in Procs, NEW r \in Shape, proc' = [proc EXCEPT ![p] = r]
    PROVE  ProcType'
  BY DEF ProcType

\* The positions the next proofs assign are positions.
LEMMA NamesOfSteps ==
    {"apply", "release", "lookup", "store", "save", "load", "serving"} \subseteq PCs
  BY DEF PCs, Starting, Polling, Migrating, Booting

\* Ages are numbers.
LEMMA OlderIsNat ==
    ASSUME NEW n \in Nat, NEW limit \in Nat PROVE Older(n, limit) \in Nat
  BY DEF Older

\* An assignment to one place of a sequence, also to a place it does not have
LEMMA AssignKeepsSeq ==
    ASSUME NEW S, NEW s \in Seq(S), NEW e \in S, NEW k
    PROVE  [s EXCEPT ![k] = e] \in Seq(S)
<1>1. CASE k \in 1..Len(s)
  BY <1>1, ExceptSeq
<1>2. CASE k \notin 1..Len(s)
  <2>1. DOMAIN s = 1..Len(s)
    OBVIOUS
  <2>2. [s EXCEPT ![k] = e] = s
    BY <1>2, <2>1
  <2> QED
    BY <2>2
<1> QED
  BY <1>1, <1>2

\* The initial state is well typed.
LEMMA TypeInit == Init => TypeInv
<1> SUFFICES ASSUME Init PROVE TypeInv
  OBVIOUS
<1>1. LeaseType /\ TenantsType /\ FileType
  BY DEF Init, LeaseType, TenantsType, FileType, NoLease, NoCreds, NoKey, Creds
<1>2. SchemaType
  <2> DEFINE Old(v, ps, o) == [version |-> v, parts |-> ps, old |-> o]
  <2>1. /\ Old("none", {}, FALSE) \in SchemaShape
        /\ Old("none", {"tables"}, TRUE) \in SchemaShape
        /\ Old("0001", {"tables", "columns"}, FALSE) \in SchemaShape
        /\ Old("0002", {"tables", "columns", "uniqueSeq"}, FALSE) \in SchemaShape
        /\ Old("0003", {"tables", "columns", "uniqueSeq", "defaults"}, FALSE) \in SchemaShape
    BY DEF SchemaShape, Versions
  <2> QED
    BY <2>1 DEF Init, SchemaType, HeadRevision
<1>3. ProcType
  BY DownHasShape DEF Init, ProcType
<1> QED
  BY <1>1, <1>2, <1>3 DEF TypeInv

\* Every step keeps the types.
LEMMA TypeStep == TypeInv /\ [Next]_vars => TypeInv'
<1> SUFFICES ASSUME TypeInv, [Next]_vars PROVE TypeInv'
  OBVIOUS
<1> USE DEF TypeInv
<1>1. ASSUME NEW p \in Procs, Start(p) PROVE TypeInv'
  <2>1. [Down EXCEPT !.pc = "insert"] \in Shape
    BY DownHasShape, MoveKeepsShape DEF PCs, Starting, Polling
  <2> QED
    BY <1>1, <2>1, SetKeepsType DEF Start, LeaseType, SchemaType, TenantsType, FileType
<1>2. ASSUME NEW p \in Procs, TryInsert(p) PROVE TypeInv'
  BY <1>2, GotoKeepsType DEF TryInsert, LeaseType, SchemaType, TenantsType, FileType,
     PCs, Starting, Polling, Migrating, Booting
<1>3. ASSUME NEW p \in Procs, TryExpire(p) PROVE TypeInv'
  BY <1>3, GotoKeepsType DEF TryExpire, NoLease, LeaseType, SchemaType, TenantsType,
     FileType, PCs, Starting, Polling, Migrating, Booting
<1>4. ASSUME NEW p \in Procs, PollFails(p) PROVE TypeInv'
  BY <1>4, GotoKeepsType DEF PollFails, LeaseType, SchemaType, TenantsType, FileType,
     PCs, Starting, Polling, Migrating, Booting
<1>5. ASSUME NEW p \in Procs, WaitOrGiveUp(p) PROVE TypeInv'
  BY <1>5, GotoKeepsType, SetKeepsType, DownHasShape DEF WaitOrGiveUp, LeaseType,
     SchemaType, TenantsType, FileType, PCs, Starting, Polling, Migrating, Booting
<1>6. ASSUME NEW p \in Procs, Detect(p) PROVE TypeInv'
  BY <1>6, GotoKeepsType DEF Detect, LeaseType, SchemaType, TenantsType, FileType, PCs,
     Starting, Polling, Migrating, Booting
<1>7. ASSUME NEW p \in Procs, Fix(p) PROVE TypeInv'
  <2>1. SchemaType'
    BY <1>7 DEF Fix, SchemaType, SchemaShape
  <2> QED
    BY <1>7, <2>1, GotoKeepsType DEF Fix, LeaseType, TenantsType, FileType, PCs,
       Starting, Polling, Migrating, Booting
<1>8. ASSUME NEW p \in Procs, Stamp(p) PROVE TypeInv'
  <2>1. SchemaType'
    BY <1>8 DEF Stamp, SchemaType, SchemaShape, HeadRevision, Versions
  <2> QED
    BY <1>8, <2>1, GotoKeepsType DEF Stamp, LeaseType, TenantsType, FileType, PCs,
       Starting, Polling, Migrating, Booting
<1>9. ASSUME NEW p \in Procs, Upgrade(p) PROVE TypeInv'
  <2>1. ProcType'
    <3> DEFINE r == [proc[p] EXCEPT !.pc = "apply", !.seen = schema.version]
    <3>1. r \in Shape
      BY NamesOfSteps DEF ProcType, Shape, SchemaType, SchemaShape
    <3> QED
      BY <1>9, <3>1, SetKeepsType DEF Upgrade
  <2> QED
    BY <1>9, <2>1 DEF Upgrade, LeaseType, SchemaType, TenantsType, FileType
<1>10. ASSUME NEW p \in Procs, Apply(p) PROVE TypeInv'
  <2> DEFINE Parts == SUBSET {"tables", "columns", "uniqueSeq", "defaults"}
  <2>1. \A ps \in Parts : /\ Baseline(ps) \in Parts
                          /\ EventsSeqUnique(ps) \in Parts
                          /\ ServerDefaults(ps) \in Parts
    BY DEF Baseline, EventsSeqUnique, ServerDefaults
  <2>2. \A v \in Versions, ps \in Parts : RevisionsFrom(v, ps) \in Parts
    <3> HIDE DEF Parts
    <3> QED
      BY <2>1 DEF RevisionsFrom, Versions, HeadRevision
  <2>3. schema.parts \in Parts /\ proc[p].seen \in Versions
    BY DEF SchemaType, SchemaShape, ProcType, Shape
  <2>4. RevisionsFrom(proc[p].seen, schema.parts) \in Parts
    BY <2>2, <2>3
  <2>5. SchemaType'
    BY <1>10, <2>4 DEF Apply, SchemaType, SchemaShape, HeadRevision, Versions
  <2>6. ProcType'
    BY <1>10, GotoKeepsType DEF Apply, ProcType, Shape, PCs, Starting, Polling,
       Migrating, Booting
  <2> QED
    BY <1>10, <2>5, <2>6 DEF Apply, LeaseType, TenantsType, FileType
<1>11. ASSUME NEW p \in Procs, MigrateRaises(p) PROVE TypeInv'
  <2>1. ProcType'
    <3> DEFINE r == [proc[p] EXCEPT !.pc = "release", !.ok = FALSE]
    <3>1. r \in Shape
      BY NamesOfSteps DEF ProcType, Shape
    <3> QED
      BY <1>11, <3>1, SetKeepsType DEF MigrateRaises
  <2> QED
    BY <1>11, <2>1 DEF MigrateRaises, LeaseType, SchemaType, TenantsType, FileType
<1>12. ASSUME NEW p \in Procs, Release(p) PROVE TypeInv'
  <2>1. [Down EXCEPT !.pc = "load"] \in Shape
    BY DownHasShape, MoveKeepsShape DEF PCs, Starting, Booting
  <2>2. ProcType'
    BY <1>12, <2>1, DownHasShape, SetKeepsType DEF Release
  <2> QED
    BY <1>12, <2>2 DEF Release, DropOwnLease, NoLease, LeaseType, SchemaType,
       TenantsType, FileType
<1>13. ASSUME NEW p \in Procs, LoadCredentials(p) PROVE TypeInv'
  <2>1. ProcType'
    <3> DEFINE key == IF file.admin # NoKey THEN file.admin ELSE NewAdminKey
               r == [proc[p] EXCEPT !.pc = "lookup", !.creds = file, !.admin = key]
    <3>1. key \in Nat
      BY NewAdminKeyIsNat DEF FileType, Creds
    <3>2. r \in Shape
      <4> HIDE DEF key
      <4> QED
        BY <3>1, NamesOfSteps DEF ProcType, Shape, FileType
    <3> QED
      BY <1>13, <3>2, SetKeepsType DEF LoadCredentials
  <2> QED
    BY <1>13, <2>1 DEF LoadCredentials, LeaseType, SchemaType, TenantsType, FileType
<1>14. ASSUME NEW p \in Procs, LookupTenant(p) PROVE TypeInv'
  <2>1. ProcType'
    <3> DEFINE toStore(i) == [proc[p] EXCEPT !.pc = "store", !.target = i,
                                             !.key = NewTenantKey]
               toSave == [proc[p] EXCEPT !.pc = "save", !.key = proc[p].creds.key]
    <3>1. toSave \in Shape
      BY NamesOfSteps DEF ProcType, Shape, Creds
    <3>2. \A i \in Nat : toStore(i) \in Shape
      BY NewTenantKeyIsNat, NamesOfSteps DEF ProcType, Shape
    <3>3. DOMAIN tenants \subseteq Nat
      BY DEF TenantsType
    <3>4. PICK r \in Shape : proc' = [proc EXCEPT ![p] = r]
      <4> HIDE DEF toStore, toSave
      <4>1. \/ proc' = [proc EXCEPT ![p] = toStore(0)]
            \/ \E i \in DOMAIN tenants :
                 proc' = [proc EXCEPT ![p] = IF KeyIsGood(tenants[i], proc[p].creds.key)
                                             THEN toSave ELSE toStore(i)]
        BY <1>14 DEF LookupTenant, toStore, toSave
      <4> QED
        BY <3>1, <3>2, <3>3, <4>1
    <3> QED
      BY <3>4, SetKeepsType
  <2> QED
    BY <1>14, <2>1 DEF LookupTenant, LeaseType, SchemaType, TenantsType, FileType
<1>15. ASSUME NEW p \in Procs, StoreTenant(p) PROVE TypeInv'
  <2> DEFINE Row == [key : Nat, enabled : BOOLEAN]
             row == [key |-> proc[p].key, enabled |-> TRUE]
  <2>1. row \in Row
    BY DEF ProcType, Shape
  <2>2. TenantsType'
    <3> HIDE DEF Row, row
    <3>1. Append(tenants, row) \in Seq(Row)
      BY <2>1 DEF TenantsType, Row
    <3>2. [tenants EXCEPT ![proc[p].target] = row] \in Seq(Row)
      BY <2>1, AssignKeepsSeq DEF TenantsType, Row
    <3> QED
      BY <1>15, <3>1, <3>2 DEF StoreTenant, TenantsType, Row, row
  <2> QED
    BY <1>15, <2>2, GotoKeepsType DEF StoreTenant, LeaseType, SchemaType, FileType, PCs,
       Starting, Polling, Migrating, Booting
<1>16. ASSUME NEW p \in Procs, SaveCredentials(p) PROVE TypeInv'
  <2>1. [Down EXCEPT !.pc = "serving", !.admin = proc[p].admin] \in Shape
    BY DownHasShape DEF ProcType, Shape, PCs
  <2>2. ProcType'
    BY <1>16, <2>1, SetKeepsType, GotoKeepsType DEF SaveCredentials, Serve, PCs,
       Starting, Polling, Migrating, Booting
  <2> QED
    BY <1>16, <2>2 DEF SaveCredentials, NoCreds, NoKey, Creds, LeaseType, SchemaType,
       TenantsType, FileType
<1>17. ASSUME NEW p \in Procs, WriteCredentials(p) PROVE TypeInv'
  <2>1. [Down EXCEPT !.pc = "serving", !.admin = proc[p].admin] \in Shape
    BY DownHasShape DEF ProcType, Shape, PCs
  <2>2. ProcType'
    BY <1>17, <2>1, SetKeepsType DEF WriteCredentials, Serve
  <2>3. FileType'
    BY <1>17 DEF WriteCredentials, FileType, Creds, ProcType, Shape
  <2> QED
    BY <1>17, <2>2, <2>3 DEF WriteCredentials, LeaseType, SchemaType, TenantsType
<1>18. ASSUME NEW p \in Procs, Crash(p) PROVE TypeInv'
  BY <1>18, DownHasShape, SetKeepsType DEF Crash, LeaseType, SchemaType, TenantsType,
     FileType
<1>19. ASSUME NEW i \in DOMAIN tenants, ChangeTenant(i) PROVE TypeInv'
  <2> DEFINE Row == [key : Nat, enabled : BOOLEAN]
  <2>1. tenants[i] \in Row
    <3>1. DOMAIN tenants = 1..Len(tenants)
      BY DEF TenantsType
    <3> QED
      BY <3>1, ElementOfSeq DEF TenantsType
  <2>2. /\ [tenants[i] EXCEPT !.key = NewTenantKey] \in Row
        /\ [tenants[i] EXCEPT !.enabled = FALSE] \in Row
    BY <2>1, NewTenantKeyIsNat
  <2>3. TenantsType'
    <3> HIDE DEF Row
    <3>1. \A r \in Row : [tenants EXCEPT ![i] = r] \in Seq(Row)
      BY DEF TenantsType, Row
    <3> QED
      BY <1>19, <2>2, <3>1 DEF ChangeTenant, TenantsType, Row
  <2> QED
    BY <1>19, <2>3 DEF ChangeTenant, LeaseType, SchemaType, FileType, ProcType
<1>20. CASE Tick
  <2>1. ProcType'
    <3>1. LeaseStale \in Nat /\ LeaseWait \in Nat
      BY StartupAssumption DEF StartupAssumption
    <3>2. ASSUME NEW p \in Procs PROVE proc'[p] \in Shape
      BY <1>20, <3>1, OlderIsNat DEF Tick, ProcType, Shape
    <3> QED
      BY <1>20, <3>2 DEF Tick, ProcType
  <2>2. LeaseType'
    <3>1. LeaseStale \in Nat
      BY StartupAssumption DEF StartupAssumption
    <3>2. [lease EXCEPT !.age = Older(lease.age, LeaseStale)]
            \in [owner : Procs \cup {Nobody}, age : Nat]
      BY <3>1, OlderIsNat DEF LeaseType
    <3> QED
      BY <1>20, <3>2 DEF Tick, LeaseType
  <2> QED
    BY <1>20, <2>1, <2>2 DEF Tick, SchemaType, TenantsType, FileType
<1>21. CASE UNCHANGED vars
  BY <1>21 DEF vars, LeaseType, SchemaType, TenantsType, FileType, ProcType
<1> QED
  BY <1>1, <1>2, <1>3, <1>4, <1>5, <1>6, <1>7, <1>8, <1>9, <1>10, <1>11, <1>12, <1>13,
     <1>14, <1>15, <1>16, <1>17, <1>18, <1>19, <1>20, <1>21, StepCases DEF Next

-----------------------------------------------------------------------------
(* What two steps of bootstrap_auth leave alone.                           *)

\* LookupTenant changes one process, within the bootstrap.
LEMMA LookupEffect ==
    ASSUME TypeInv, NEW p \in Procs, LookupTenant(p)
    PROVE  /\ proc[p].pc = "lookup"
           /\ proc'[p].pc \in {"store", "save"}
           /\ \A q \in Procs \ {p} : proc'[q] = proc[q]
           /\ UNCHANGED <<lease, schema>>
<1> DEFINE toStore(i) == [proc[p] EXCEPT !.pc = "store", !.target = i,
                                         !.key = NewTenantKey]
           toSave == [proc[p] EXCEPT !.pc = "save", !.key = proc[p].creds.key]
<1>1. toSave.pc = "save"
  BY DEF TypeInv, ProcType, Shape
<1>2. \A i : toStore(i).pc = "store"
  BY DEF TypeInv, ProcType, Shape
<1>3. PICK r : proc' = [proc EXCEPT ![p] = r] /\ r.pc \in {"store", "save"}
  <2> HIDE DEF toStore, toSave
  <2>1. \/ proc' = [proc EXCEPT ![p] = toStore(0)]
        \/ \E i \in DOMAIN tenants :
             proc' = [proc EXCEPT ![p] = IF KeyIsGood(tenants[i], proc[p].creds.key)
                                         THEN toSave ELSE toStore(i)]
    BY DEF LookupTenant, toStore, toSave
  <2> QED
    BY <1>1, <1>2, <2>1
<1> QED
  BY <1>3 DEF LookupTenant, At, TypeInv, ProcType

\* SaveCredentials changes one process, within the bootstrap or into service.
LEMMA SaveEffect ==
    ASSUME TypeInv, NEW p \in Procs, SaveCredentials(p)
    PROVE  /\ proc[p].pc = "save"
           /\ proc'[p].pc \in {"serving", "write"}
           /\ \A q \in Procs \ {p} : proc'[q] = proc[q]
           /\ UNCHANGED <<lease, schema>>
<1>1. CASE Serve(p)
  <2>1. [Down EXCEPT !.pc = "serving", !.admin = proc[p].admin].pc = "serving"
    BY DEF Down
  <2> QED
    BY <1>1, <2>1 DEF Serve, SaveCredentials, At, TypeInv, ProcType
<1>2. CASE Goto(p, "write")
  BY <1>2 DEF Goto, SaveCredentials, At, TypeInv, ProcType, Shape
<1> QED
  BY <1>1, <1>2 DEF SaveCredentials

-----------------------------------------------------------------------------
(* The lease.                                                              *)

\* Nobody polls or migrates at the beginning.
LEMMA LeaseInit == Init => LeaseInv
  BY DEF Init, LeaseInv, Down, Polling, Migrating

\* Every step keeps LeaseInv.
LEMMA LeaseStep == TypeInv /\ LeaseInv /\ [Next]_vars => LeaseInv'
<1> SUFFICES ASSUME TypeInv, LeaseInv, [Next]_vars PROVE LeaseInv'
  OBVIOUS
<1>0. LeaseStale \in Nat /\ Nobody \notin Procs
  BY StartupAssumption DEF StartupAssumption
<1>1. ASSUME NEW p \in Procs, Start(p) PROVE LeaseInv'
  BY <1>0, <1>1 DEF Start, At, Down, LeaseInv, TypeInv, LeaseType, ProcType, Shape,
     Polling, Migrating, Booting
<1>2. ASSUME NEW p \in Procs, TryInsert(p) PROVE LeaseInv'
  BY <1>0, <1>2 DEF TryInsert, At, Goto, NoLease, LeaseInv, TypeInv, LeaseType,
     ProcType, Shape, Polling, Migrating, Booting
<1>3. ASSUME NEW p \in Procs, TryExpire(p) PROVE LeaseInv'
  BY <1>0, <1>3 DEF TryExpire, At, Goto, NoLease, LeaseInv, TypeInv, LeaseType,
     ProcType, Shape, Polling, Migrating, Booting
<1>4. ASSUME NEW p \in Procs, PollFails(p) PROVE LeaseInv'
  BY <1>0, <1>4 DEF PollFails, At, Goto, LeaseInv, TypeInv, LeaseType, ProcType, Shape,
     Polling, Migrating, Booting
<1>5. ASSUME NEW p \in Procs, WaitOrGiveUp(p) PROVE LeaseInv'
  BY <1>0, <1>5 DEF WaitOrGiveUp, At, Goto, Down, LeaseInv, TypeInv, LeaseType,
     ProcType, Shape, Polling, Migrating, Booting
<1>6. ASSUME NEW p \in Procs, Detect(p) PROVE LeaseInv'
  BY <1>0, <1>6 DEF Detect, At, Goto, LeaseInv, TypeInv, LeaseType, ProcType, Shape,
     Polling, Migrating, Booting
<1>7. ASSUME NEW p \in Procs, Fix(p) PROVE LeaseInv'
  BY <1>0, <1>7 DEF Fix, At, Goto, LeaseInv, TypeInv, LeaseType, ProcType, Shape,
     Polling, Migrating, Booting
<1>8. ASSUME NEW p \in Procs, Stamp(p) PROVE LeaseInv'
  BY <1>0, <1>8 DEF Stamp, At, Goto, LeaseInv, TypeInv, LeaseType, ProcType, Shape,
     Polling, Migrating, Booting
<1>9. ASSUME NEW p \in Procs, Upgrade(p) PROVE LeaseInv'
  BY <1>0, <1>9 DEF Upgrade, At, LeaseInv, TypeInv, LeaseType, ProcType, Shape, Polling,
     Migrating, Booting
<1>10. ASSUME NEW p \in Procs, Apply(p) PROVE LeaseInv'
  BY <1>0, <1>10 DEF Apply, Goto, LeaseInv,
     TypeInv, LeaseType, ProcType, Shape, Polling, Migrating, Booting
<1>11. ASSUME NEW p \in Procs, MigrateRaises(p) PROVE LeaseInv'
  BY <1>0, <1>11 DEF MigrateRaises, At, LeaseInv, TypeInv, LeaseType, ProcType, Shape,
     Polling, Migrating, Booting
<1>12. ASSUME NEW p \in Procs, Release(p) PROVE LeaseInv'
  BY <1>0, <1>12 DEF Release, At, DropOwnLease, NoLease, Down, LeaseInv, TypeInv,
     LeaseType, ProcType, Shape, Polling, Migrating, Booting
<1>13. ASSUME NEW p \in Procs, LoadCredentials(p) PROVE LeaseInv'
  BY <1>0, <1>13 DEF LoadCredentials, At, LeaseInv, TypeInv, LeaseType, ProcType, Shape,
     Polling, Migrating, Booting
<1>14. ASSUME NEW p \in Procs, LookupTenant(p) PROVE LeaseInv'
  BY <1>14, LookupEffect DEF LeaseInv, Polling, Migrating
<1>15. ASSUME NEW p \in Procs, StoreTenant(p) PROVE LeaseInv'
  BY <1>0, <1>15 DEF StoreTenant, At, Goto, LeaseInv, TypeInv, LeaseType, ProcType,
     Shape, Polling, Migrating, Booting
<1>16. ASSUME NEW p \in Procs, SaveCredentials(p) PROVE LeaseInv'
  BY <1>16, SaveEffect DEF LeaseInv, Polling, Migrating
<1>17. ASSUME NEW p \in Procs, WriteCredentials(p) PROVE LeaseInv'
  BY <1>0, <1>17 DEF WriteCredentials, At, Serve, Down, LeaseInv, TypeInv, LeaseType,
     ProcType, Shape, Polling, Migrating, Booting
<1>18. ASSUME NEW p \in Procs, Crash(p) PROVE LeaseInv'
  BY <1>0, <1>18 DEF Crash, At, Down, LeaseInv, TypeInv, LeaseType, ProcType, Shape,
     Polling, Migrating, Booting
<1>19. ASSUME NEW i \in DOMAIN tenants, ChangeTenant(i) PROVE LeaseInv'
  BY <1>19 DEF ChangeTenant, LeaseInv
<1>20. CASE Tick
  <2> SUFFICES ASSUME NEW p \in Procs
               PROVE  /\ proc'[p].pc \in Polling => proc'[p].held = 0
                      /\ proc'[p].pc \in Migrating =>
                           \/ proc'[p].held > LeaseStale
                           \/ lease'.owner = p /\ lease'.age = proc'[p].held
    BY DEF LeaseInv
  <2>1. /\ proc'[p].pc = proc[p].pc
        /\ proc'[p].held = IF proc[p].pc \in Migrating
                            THEN Older(proc[p].held, LeaseStale) ELSE 0
    BY <1>20 DEF Tick, TypeInv, ProcType, Shape
  <2>2. lease.owner = p =>
          lease'.owner = p /\ lease'.age = Older(lease.age, LeaseStale)
    <3>1. lease.owner = p => lease # NoLease
      BY <1>0 DEF NoLease
    <3> QED
      BY <1>20, <3>1 DEF Tick, TypeInv, LeaseType
  <2>3. proc[p].held > LeaseStale => Older(proc[p].held, LeaseStale) > LeaseStale
    BY DEF Older
  <2> QED
    BY <2>1, <2>2, <2>3 DEF LeaseInv, Polling, Migrating
<1>21. CASE UNCHANGED vars
  BY <1>21 DEF vars, LeaseInv
<1> QED
  BY <1>1, <1>2, <1>3, <1>4, <1>5, <1>6, <1>7, <1>8, <1>9, <1>10, <1>11, <1>12, <1>13,
     <1>14, <1>15, <1>16, <1>17, <1>18, <1>19, <1>20, <1>21, StepCases DEF Next

-----------------------------------------------------------------------------
(* The schema.                                                             *)

\* Each initial shape of the database is as its version says.
LEMMA SchemaInit == Init => SchemaInv
  BY DEF Init, SchemaInv, Complete, Down, Booting, HeadRevision

\* Every step keeps SchemaInv.
LEMMA SchemaStep == TypeInv /\ SchemaInv /\ [Next]_vars => SchemaInv'
<1> SUFFICES ASSUME TypeInv, SchemaInv, [Next]_vars PROVE SchemaInv'
  OBVIOUS
<1>1. ASSUME NEW p \in Procs, Start(p) PROVE SchemaInv'
  BY <1>1 DEF Start, At, Down, SchemaInv, Complete, HeadRevision, TypeInv, SchemaType,
     SchemaShape, Versions, ProcType, Shape, Polling, Migrating, Booting
<1>2. ASSUME NEW p \in Procs, TryInsert(p) PROVE SchemaInv'
  BY <1>2 DEF TryInsert, At, Goto, SchemaInv, Complete, HeadRevision, TypeInv,
     SchemaType, SchemaShape, Versions, ProcType, Shape, Polling, Migrating, Booting
<1>3. ASSUME NEW p \in Procs, TryExpire(p) PROVE SchemaInv'
  BY <1>3 DEF TryExpire, At, Goto, SchemaInv, Complete, HeadRevision, TypeInv,
     SchemaType, SchemaShape, Versions, ProcType, Shape, Polling, Migrating, Booting
<1>4. ASSUME NEW p \in Procs, PollFails(p) PROVE SchemaInv'
  BY <1>4 DEF PollFails, At, Goto, SchemaInv, Complete, HeadRevision, TypeInv,
     SchemaType, SchemaShape, Versions, ProcType, Shape, Polling, Migrating, Booting
<1>5. ASSUME NEW p \in Procs, WaitOrGiveUp(p) PROVE SchemaInv'
  BY <1>5 DEF WaitOrGiveUp, At, Goto, Down, SchemaInv, Complete, HeadRevision, TypeInv,
     SchemaType, SchemaShape, Versions, ProcType, Shape, Polling, Migrating, Booting
<1>6. ASSUME NEW p \in Procs, Detect(p) PROVE SchemaInv'
  BY <1>6 DEF Detect, At, Goto, SchemaInv, Complete, HeadRevision, TypeInv, SchemaType,
     SchemaShape, Versions, ProcType, Shape, Polling, Migrating, Booting
<1>7. ASSUME NEW p \in Procs, Fix(p) PROVE SchemaInv'
  BY <1>7 DEF Fix, At, Goto, SchemaInv, Complete, HeadRevision, TypeInv, SchemaType,
     SchemaShape, Versions, ProcType, Shape, Polling, Migrating, Booting
<1>8. ASSUME NEW p \in Procs, Stamp(p) PROVE SchemaInv'
  BY <1>8 DEF Stamp, At, Goto, SchemaInv, Complete, HeadRevision, TypeInv, SchemaType,
     SchemaShape, Versions, ProcType, Shape, Polling, Migrating, Booting
<1>9. ASSUME NEW p \in Procs, Upgrade(p) PROVE SchemaInv'
  BY <1>9 DEF Upgrade, At, SchemaInv, Complete, HeadRevision, TypeInv, SchemaType,
     SchemaShape, Versions, ProcType, Shape, Polling, Migrating, Booting
<1>10. ASSUME NEW p \in Procs, Apply(p) PROVE SchemaInv'
  <2>1. CASE schema.version = proc[p].seen
    <3>1. schema' = [schema EXCEPT !.version = HeadRevision,
                                   !.parts = RevisionsFrom(schema.version, schema.parts)]
      BY <1>10, <2>1 DEF Apply
    <3>2. /\ schema'.version = "0003" /\ schema'.old = schema.old
          /\ schema'.parts = RevisionsFrom(schema.version, schema.parts)
      BY <3>1 DEF TypeInv, SchemaType, SchemaShape, HeadRevision
    <3>3. ASSUME schema.version = "none" PROVE Complete'
      BY <3>2, <3>3 DEF Complete, HeadRevision, RevisionsFrom, Baseline, EventsSeqUnique,
                        ServerDefaults
    <3>4. ASSUME schema.version = "0001" PROVE Complete'
      BY <3>2, <3>4 DEF SchemaInv, Complete, HeadRevision, RevisionsFrom, EventsSeqUnique,
                        ServerDefaults
    <3>5. ASSUME schema.version = "0002" PROVE Complete'
      BY <3>2, <3>5 DEF SchemaInv, Complete, HeadRevision, RevisionsFrom, ServerDefaults
    <3>6. ASSUME schema.version = "0003" PROVE Complete'
      BY <3>2, <3>6 DEF SchemaInv, Complete, HeadRevision, RevisionsFrom
    <3>7. Complete' /\ schema.parts \subseteq schema'.parts
      <4>1. Complete'
        BY <3>3, <3>4, <3>5, <3>6 DEF TypeInv, SchemaType, SchemaShape, Versions
      <4>2. schema.parts \subseteq RevisionsFrom(schema.version, schema.parts)
        BY DEF TypeInv, SchemaType, SchemaShape, Versions, RevisionsFrom, HeadRevision,
               Baseline, EventsSeqUnique, ServerDefaults
      <4> QED
        BY <3>2, <4>1, <4>2
    <3>8. \A q \in Procs : proc'[q].pc = IF q = p THEN "release" ELSE proc[q].pc
      BY <1>10, <2>1 DEF Apply, Goto, TypeInv, ProcType, Shape
    <3> QED
      BY <3>2, <3>7, <3>8 DEF SchemaInv, Complete
  <2>2. CASE schema.version # proc[p].seen
    BY <1>10, <2>2 DEF Apply, SchemaInv, Complete, TypeInv, ProcType, Shape, Booting
  <2> QED
    BY <2>1, <2>2
<1>11. ASSUME NEW p \in Procs, MigrateRaises(p) PROVE SchemaInv'
  BY <1>11 DEF MigrateRaises, At, SchemaInv, Complete, HeadRevision, TypeInv,
     SchemaType, SchemaShape, Versions, ProcType, Shape, Polling, Migrating, Booting
<1>12. ASSUME NEW p \in Procs, Release(p) PROVE SchemaInv'
  BY <1>12 DEF Release, At, Down, SchemaInv, Complete, HeadRevision, TypeInv,
     SchemaType, SchemaShape, Versions, ProcType, Shape, Polling, Migrating, Booting
<1>13. ASSUME NEW p \in Procs, LoadCredentials(p) PROVE SchemaInv'
  BY <1>13 DEF LoadCredentials, At, SchemaInv, Complete, HeadRevision, TypeInv,
     SchemaType, SchemaShape, Versions, ProcType, Shape, Polling, Migrating, Booting
<1>14. ASSUME NEW p \in Procs, LookupTenant(p) PROVE SchemaInv'
  BY <1>14, LookupEffect DEF SchemaInv, Complete, Booting
<1>15. ASSUME NEW p \in Procs, StoreTenant(p) PROVE SchemaInv'
  BY <1>15 DEF StoreTenant, At, Goto, SchemaInv, Complete, HeadRevision, TypeInv,
     SchemaType, SchemaShape, Versions, ProcType, Shape, Polling, Migrating, Booting
<1>16. ASSUME NEW p \in Procs, SaveCredentials(p) PROVE SchemaInv'
  BY <1>16, SaveEffect DEF SchemaInv, Complete, Booting
<1>17. ASSUME NEW p \in Procs, WriteCredentials(p) PROVE SchemaInv'
  BY <1>17 DEF WriteCredentials, At, Serve, Down, SchemaInv, Complete, HeadRevision,
     TypeInv, SchemaType, SchemaShape, Versions, ProcType, Shape, Polling, Migrating,
     Booting
<1>18. ASSUME NEW p \in Procs, Crash(p) PROVE SchemaInv'
  BY <1>18 DEF Crash, At, Down, SchemaInv, Complete, HeadRevision, TypeInv, SchemaType,
     SchemaShape, Versions, ProcType, Shape, Polling, Migrating, Booting
<1>19. ASSUME NEW i \in DOMAIN tenants, ChangeTenant(i) PROVE SchemaInv'
  BY <1>19 DEF ChangeTenant, SchemaInv, Complete
<1>20. CASE Tick
  BY <1>20 DEF Tick, SchemaInv, Complete, TypeInv, ProcType, Shape
<1>21. CASE UNCHANGED vars
  BY <1>21 DEF vars, SchemaInv, Complete
<1> QED
  BY <1>1, <1>2, <1>3, <1>4, <1>5, <1>6, <1>7, <1>8, <1>9, <1>10, <1>11, <1>12, <1>13,
     <1>14, <1>15, <1>16, <1>17, <1>18, <1>19, <1>20, <1>21, StepCases DEF Next

-----------------------------------------------------------------------------
(* The bootstrap.                                                          *)

\* A step outside the bootstrap: it leaves file and tenants alone, whoever is in its
\* bootstrap afterwards was at the same place of it before, and whoever was
\* undisturbed is as undisturbed as before.
LEMMA ElsewhereKeepsBoot ==
    ASSUME BootInv, UNCHANGED <<tenants, file, disturbed>>,
           \A q \in Procs : proc'[q].pc \in Booting =>
               /\ proc'[q].pc = proc[q].pc /\ proc'[q].creds = proc[q].creds
               /\ proc'[q].key = proc[q].key /\ proc'[q].target = proc[q].target
    PROVE  BootInv'
<1> SUFFICES ASSUME NEW p \in Procs, proc'[p].pc \in Booting, p \notin disturbed'
             PROVE  Undisturbed(p)'
  BY DEF BootInv
<1>1. Undisturbed(p)
  BY DEF BootInv
<1>2. \A q \in Procs \ {p} : proc'[q].pc \notin Booting
  BY <1>1 DEF Undisturbed
<1>3. \A k : GoodKey(k) => GoodKey(k)'
  BY DEF GoodKey, KeyIsGood, NoKey
<1> QED
  BY <1>1, <1>2, <1>3 DEF Undisturbed

\* A step of p's bootstrap: nobody else is undisturbed, so only p has to be looked at.
LEMMA OwnBootStep ==
    ASSUME BootInv, NEW p \in Procs, proc[p].pc \in Booting, UNCHANGED disturbed,
           \A q \in Procs \ {p} : proc'[q] = proc[q],
           Undisturbed(p) /\ proc'[p].pc \in Booting => Undisturbed(p)'
    PROVE  BootInv'
<1> SUFFICES ASSUME NEW q \in Procs, proc'[q].pc \in Booting, q \notin disturbed
             PROVE  Undisturbed(q)'
  BY DEF BootInv
<1>1. CASE q = p
  BY <1>1 DEF BootInv
<1>2. CASE q # p
  <2>1. Undisturbed(q)
    BY <1>2 DEF BootInv
  <2> QED
    BY <1>2, <2>1 DEF Undisturbed
<1> QED
  BY <1>1, <1>2

\* Nobody is in its bootstrap at the beginning.
LEMMA BootInit == Init => BootInv
  BY DEF Init, BootInv, Down, Booting

\* What the lookup leaves to be done: a new key for a row that is there or is to be
\* inserted, or nothing, because the key of the file is that of an enabled tenant.
LEMMA LookupFinds ==
    ASSUME TypeInv, NEW p \in Procs, LookupTenant(p)
    PROVE  /\ proc'[p].creds = proc[p].creds
           /\ \/ /\ proc'[p].pc = "store" /\ proc'[p].key # NoKey
                 /\ proc'[p].target = 0 \/ proc'[p].target \in DOMAIN tenants
              \/ proc'[p].pc = "save" /\ GoodKey(proc'[p].key)
<1> DEFINE toStore(i) == [proc[p] EXCEPT !.pc = "store", !.target = i,
                                         !.key = NewTenantKey]
           toSave == [proc[p] EXCEPT !.pc = "save", !.key = proc[p].creds.key]
<1>1. /\ toSave.pc = "save" /\ toSave.key = proc[p].creds.key
      /\ toSave.creds = proc[p].creds
  BY DEF TypeInv, ProcType, Shape
<1>2. \A i : /\ toStore(i).pc = "store" /\ toStore(i).key = NewTenantKey
             /\ toStore(i).target = i /\ toStore(i).creds = proc[p].creds
  BY DEF TypeInv, ProcType, Shape
<1>3. NewTenantKey # NoKey
  BY NewTenantKeyIsNat DEF NoKey
<1> HIDE DEF toStore, toSave
<1>4. \/ proc' = [proc EXCEPT ![p] = toStore(0)]
      \/ \E i \in DOMAIN tenants :
           proc' = [proc EXCEPT ![p] = IF KeyIsGood(tenants[i], proc[p].creds.key)
                                       THEN toSave ELSE toStore(i)]
  BY DEF LookupTenant, toStore, toSave
<1>5. p \in DOMAIN proc
  BY DEF TypeInv, ProcType
<1>6. CASE proc' = [proc EXCEPT ![p] = toStore(0)]
  <2>1. proc'[p] = toStore(0)
    BY <1>5, <1>6
  <2> QED
    BY <1>2, <1>3, <2>1
<1>7. ASSUME NEW i \in DOMAIN tenants,
             proc' = [proc EXCEPT ![p] = IF KeyIsGood(tenants[i], proc[p].creds.key)
                                         THEN toSave ELSE toStore(i)]
      PROVE  \/ /\ proc'[p] = toSave
                /\ KeyIsGood(tenants[i], proc[p].creds.key)
             \/ proc'[p] = toStore(i)
  BY <1>5, <1>7
<1>8. CASE ~(proc' = [proc EXCEPT ![p] = toStore(0)])
  <2>1. PICK i \in DOMAIN tenants :
             \/ proc'[p] = toSave /\ KeyIsGood(tenants[i], proc[p].creds.key)
             \/ proc'[p] = toStore(i)
    BY <1>4, <1>7, <1>8
  <2>2. CASE proc'[p] = toSave /\ KeyIsGood(tenants[i], proc[p].creds.key)
    BY <1>1, <2>2 DEF GoodKey
  <2>3. CASE proc'[p] = toStore(i)
    BY <1>2, <1>3, <2>3
  <2> QED
    BY <2>1, <2>2, <2>3
<1> QED
  BY <1>6, <1>8

\* What the tenant's row says after it was stored.
LEMMA StoreMakesGood ==
    ASSUME TypeInv, NEW p \in Procs, StoreTenant(p), proc[p].key # NoKey,
           proc[p].target = 0 \/ proc[p].target \in DOMAIN tenants
    PROVE  GoodKey(proc[p].key)'
<1> DEFINE row == [key |-> proc[p].key, enabled |-> TRUE]
<1>1. row.key = proc[p].key /\ row.enabled
  OBVIOUS
<1>2. proc'[p].key = proc[p].key
  BY DEF StoreTenant, Goto, TypeInv, ProcType, Shape
<1> HIDE DEF row
<1>3. tenants' = IF proc[p].target = 0 THEN Append(tenants, row)
                 ELSE [tenants EXCEPT ![proc[p].target] = row]
  BY DEF StoreTenant, row
<1>4. \E i \in DOMAIN tenants' : tenants'[i] = row
  <2>1. CASE proc[p].target = 0
    <3>1. /\ DOMAIN Append(tenants, row) = 1..Len(tenants) + 1 /\ Len(tenants) \in Nat
          /\ Append(tenants, row)[Len(tenants) + 1] = row
      BY DEF TypeInv, TenantsType
    <3>2. Len(tenants) + 1 \in 1..Len(tenants) + 1
      BY <3>1
    <3> QED
      BY <1>3, <2>1, <3>1, <3>2
  <2>2. CASE proc[p].target # 0
    <3>1. tenants' = [tenants EXCEPT ![proc[p].target] = row]
      BY <1>3, <2>2
    <3> QED
      BY <2>2, <3>1
  <2> QED
    BY <2>1, <2>2
<1> QED
  BY <1>1, <1>2, <1>4 DEF GoodKey, KeyIsGood, NoKey

\* Every step keeps BootInv.
LEMMA BootStep == TypeInv /\ BootInv /\ [Next]_vars => BootInv'
<1> SUFFICES ASSUME TypeInv, BootInv, [Next]_vars PROVE BootInv'
  OBVIOUS
<1>0. ASSUME UNCHANGED <<tenants, file, disturbed>>,
             \A q \in Procs : proc'[q].pc \in Booting => proc'[q] = proc[q]
      PROVE  BootInv'
  BY <1>0, ElsewhereKeepsBoot
<1>1. ASSUME NEW p \in Procs, Start(p) PROVE BootInv'
  BY <1>1, <1>0 DEF Start, At, Down, TypeInv, ProcType, Shape, Booting
<1>2. ASSUME NEW p \in Procs, TryInsert(p) PROVE BootInv'
  BY <1>2, <1>0 DEF TryInsert, At, Goto, TypeInv, ProcType, Shape, Booting
<1>3. ASSUME NEW p \in Procs, TryExpire(p) PROVE BootInv'
  BY <1>3, <1>0 DEF TryExpire, At, Goto, TypeInv, ProcType, Shape, Booting
<1>4. ASSUME NEW p \in Procs, PollFails(p) PROVE BootInv'
  BY <1>4, <1>0 DEF PollFails, At, Goto, TypeInv, ProcType, Shape, Booting
<1>5. ASSUME NEW p \in Procs, WaitOrGiveUp(p) PROVE BootInv'
  BY <1>5, <1>0 DEF WaitOrGiveUp, At, Goto, Down, TypeInv, ProcType, Shape, Booting
<1>6. ASSUME NEW p \in Procs, Detect(p) PROVE BootInv'
  BY <1>6, <1>0 DEF Detect, At, Goto, TypeInv, ProcType, Shape, Booting
<1>7. ASSUME NEW p \in Procs, Fix(p) PROVE BootInv'
  BY <1>7, <1>0 DEF Fix, At, Goto, TypeInv, ProcType, Shape, Booting
<1>8. ASSUME NEW p \in Procs, Stamp(p) PROVE BootInv'
  BY <1>8, <1>0 DEF Stamp, At, Goto, TypeInv, ProcType, Shape, Booting
<1>9. ASSUME NEW p \in Procs, Upgrade(p) PROVE BootInv'
  BY <1>9, <1>0 DEF Upgrade, At, TypeInv, ProcType, Shape, Booting
<1>10. ASSUME NEW p \in Procs, Apply(p) PROVE BootInv'
  BY <1>10, <1>0 DEF Apply, At, Goto, TypeInv, ProcType, Shape, Booting
<1>11. ASSUME NEW p \in Procs, MigrateRaises(p) PROVE BootInv'
  BY <1>11, <1>0 DEF MigrateRaises, At, TypeInv, ProcType, Shape, Booting
<1>12. ASSUME NEW p \in Procs, Release(p) PROVE BootInv'
  <2>1. CASE ~proc[p].ok
    BY <1>12, <1>0, <2>1 DEF Release, At, Down, TypeInv, ProcType, Booting
  <2>2. CASE proc[p].ok
    <3> DEFINE others == {q \in Procs \ {p} : proc[q].pc \in Booting}
    <3>1. /\ \A q \in Procs \ {p} : proc'[q] = proc[q]
          /\ proc'[p].pc = "load"
      BY <1>12, <2>2 DEF Release, Down, TypeInv, ProcType
    <3>2. disturbed' = (disturbed \ {p}) \cup others
                          \cup (IF others = {} THEN {} ELSE {p})
      BY <1>12, <2>2 DEF Release
    <3> QED
      BY <3>1, <3>2 DEF BootInv, Undisturbed
  <2> QED
    BY <2>1, <2>2
<1>13. ASSUME NEW p \in Procs, LoadCredentials(p) PROVE BootInv'
  <2>1. /\ proc[p].pc \in Booting /\ UNCHANGED <<tenants, file, disturbed>>
        /\ \A q \in Procs \ {p} : proc'[q] = proc[q]
        /\ proc'[p].pc = "lookup" /\ proc'[p].creds = file
    BY <1>13 DEF LoadCredentials, At, TypeInv, ProcType, Shape, Booting
  <2>2. Undisturbed(p) => Undisturbed(p)'
    BY <2>1 DEF Undisturbed
  <2> QED
    BY <2>1, <2>2, OwnBootStep
<1>14. ASSUME NEW p \in Procs, LookupTenant(p) PROVE BootInv'
  <2>1. /\ proc[p].pc = "lookup" /\ proc[p].pc \in Booting
        /\ UNCHANGED <<tenants, file, disturbed>>
    BY <1>14 DEF LookupTenant, At, Booting
  <2>2. \A q \in Procs \ {p} : proc'[q] = proc[q]
    BY <1>14, LookupEffect
  <2>3. /\ proc'[p].creds = proc[p].creds
        /\ \/ /\ proc'[p].pc = "store" /\ proc'[p].key # NoKey
              /\ proc'[p].target = 0 \/ proc'[p].target \in DOMAIN tenants
           \/ proc'[p].pc = "save" /\ GoodKey(proc'[p].key)
    BY <1>14, LookupFinds
  <2>4. \A k : GoodKey(k) => \E i \in DOMAIN tenants' : KeyIsGood(tenants'[i], k)
    BY <2>1 DEF GoodKey
  <2>5. Undisturbed(p) => Undisturbed(p)'
    BY <2>1, <2>2, <2>3, <2>4 DEF Undisturbed, GoodKey, NoKey
  <2> QED
    BY <2>1, <2>2, <2>5, OwnBootStep
<1>15. ASSUME NEW p \in Procs, StoreTenant(p) PROVE BootInv'
  <2>1. /\ proc[p].pc = "store" /\ proc[p].pc \in Booting
        /\ UNCHANGED <<file, disturbed>>
    BY <1>15 DEF StoreTenant, At, Booting
  <2>2. /\ \A q \in Procs \ {p} : proc'[q] = proc[q]
        /\ proc'[p].pc = "save" /\ proc'[p].creds = proc[p].creds
    BY <1>15 DEF StoreTenant, Goto, TypeInv, ProcType, Shape
  <2>3. Undisturbed(p) => GoodKey(proc[p].key)'
    BY <1>15, <2>1, StoreMakesGood DEF Undisturbed
  <2>4. Undisturbed(p) => Undisturbed(p)'
    BY <2>1, <2>2, <2>3 DEF Undisturbed
  <2> QED
    BY <2>1, <2>2, <2>4, OwnBootStep
<1>16. ASSUME NEW p \in Procs, SaveCredentials(p) PROVE BootInv'
  <2>1. /\ proc[p].pc = "save" /\ proc[p].pc \in Booting
        /\ UNCHANGED <<tenants, disturbed>>
    BY <1>16 DEF SaveCredentials, At, Booting
  <2>2. \A q \in Procs \ {p} : proc'[q] = proc[q]
    BY <1>16, SaveEffect
  <2>3. CASE Serve(p)
    <3>1. proc'[p].pc \notin Booting
      BY <2>3 DEF Serve, Down, TypeInv, ProcType, Booting
    <3> QED
      BY <2>1, <2>2, <3>1, OwnBootStep
  <2>4. CASE Goto(p, "write")
    <3>1. proc'[p].pc = "write" /\ proc'[p].key = proc[p].key
      BY <2>4 DEF Goto, TypeInv, ProcType, Shape
    <3>2. GoodKey(proc[p].key) => GoodKey(proc[p].key)'
      BY <2>1, <3>1 DEF GoodKey, KeyIsGood, NoKey
    <3>3. Undisturbed(p) => Undisturbed(p)'
      BY <2>1, <2>2, <3>1, <3>2 DEF Undisturbed
    <3> QED
      BY <2>1, <2>2, <3>3, OwnBootStep
  <2> QED
    BY <1>16, <2>3, <2>4 DEF SaveCredentials
<1>17. ASSUME NEW p \in Procs, WriteCredentials(p) PROVE BootInv'
  <2>1. /\ proc[p].pc \in Booting /\ UNCHANGED disturbed
        /\ \A q \in Procs \ {p} : proc'[q] = proc[q]
        /\ proc'[p].pc \notin Booting
    BY <1>17 DEF WriteCredentials, Serve, At, Down, TypeInv, ProcType, Booting
  <2> QED
    BY <2>1, OwnBootStep
<1>18. ASSUME NEW p \in Procs, Crash(p) PROVE BootInv'
  BY <1>18, <1>0 DEF Crash, Down, TypeInv, ProcType, Booting
<1>19. ASSUME NEW i \in DOMAIN tenants, ChangeTenant(i) PROVE BootInv'
  BY <1>19 DEF ChangeTenant, BootInv
<1>20. CASE Tick
  BY <1>20, ElsewhereKeepsBoot DEF Tick, TypeInv, ProcType, Shape
<1>21. CASE UNCHANGED vars
  BY <1>21, <1>0 DEF vars
<1> QED
  BY <1>1, <1>2, <1>3, <1>4, <1>5, <1>6, <1>7, <1>8, <1>9, <1>10, <1>11, <1>12, <1>13,
     <1>14, <1>15, <1>16, <1>17, <1>18, <1>19, <1>20, <1>21, StepCases DEF Next

-----------------------------------------------------------------------------
(* The theorems.                                                           *)

IInv == TypeInv /\ LeaseInv /\ SchemaInv /\ BootInv

\* The conjunction is an invariant.
LEMMA InvariantHolds == Spec => []IInv
<1>1. Init => IInv
  BY TypeInit, LeaseInit, SchemaInit, BootInit DEF IInv
<1>2. IInv /\ [Next]_vars => IInv'
  BY TypeStep, LeaseStep, SchemaStep, BootStep DEF IInv
<1> QED
  BY <1>1, <1>2, PTL DEF Spec

\* _acquire_migration_lease: two processes are inside _migrate at once only after
\* one of them has been there for longer than LEASE_STALE_S.
THEOREM LeaseExcludes == Spec => []FreshLeaseExcludes
<1>1. IInv => FreshLeaseExcludes
  BY DEF IInv, LeaseInv, FreshLeaseExcludes
<1> QED
  BY <1>1, InvariantHolds, PTL

\* create_tables: whatever shape the database had and however migrations overlapped
\* or broke off, a process that is past it finds the schema of the head revision.
THEOREM SchemaIsHead == Spec => []PastMigrationSchemaIsHead
<1>1. IInv => PastMigrationSchemaIsHead
  BY DEF IInv, SchemaInv, Complete, PastMigrationSchemaIsHead
<1> QED
  BY <1>1, InvariantHolds, PTL

\* Only two steps of a process lead from the bootstrap into service.
LEMMA ServiceBegins ==
    ASSUME TypeInv, [Next]_vars, NEW p \in Procs,
           proc[p].pc \in Booting, proc'[p].pc = "serving"
    PROVE  SaveCredentials(p) \/ WriteCredentials(p)
<1>1. ~UNCHANGED vars /\ ~Tick /\ ~(\E i \in DOMAIN tenants : ChangeTenant(i))
  BY DEF vars, Tick, ChangeTenant, TypeInv, ProcType, Shape, Booting
<1>2. PICK q \in Procs : Start(q) \/ Step(q) \/ Crash(q)
  BY <1>1 DEF Next
<1>3. q = p
  <2> SUFFICES ASSUME q # p PROVE proc'[p] = proc[p]
    BY DEF Booting
  <2>1. CASE LookupTenant(q)
    BY <2>1, LookupEffect
  <2>2. CASE SaveCredentials(q)
    BY <2>2, SaveEffect
  <2>3. CASE ~LookupTenant(q) /\ ~SaveCredentials(q)
    <3>1. CASE Start(q) \/ Crash(q)
      BY <3>1 DEF Start, Crash, TypeInv, ProcType
    <3>2. CASE TryInsert(q) \/ TryExpire(q) \/ PollFails(q) \/ WaitOrGiveUp(q) \/ Detect(q)
      BY <3>2 DEF TryInsert, TryExpire, PollFails, WaitOrGiveUp, Detect, Goto, TypeInv,
                  ProcType
    <3>3. CASE Fix(q) \/ Stamp(q) \/ Upgrade(q) \/ Apply(q) \/ MigrateRaises(q)
      BY <3>3 DEF Fix, Stamp, Upgrade, Apply, MigrateRaises, Goto, TypeInv, ProcType
    <3>4. CASE Release(q) \/ LoadCredentials(q) \/ StoreTenant(q) \/ WriteCredentials(q)
      BY <3>4 DEF Release, LoadCredentials, StoreTenant, WriteCredentials, Goto, Serve,
                  TypeInv, ProcType
    <3> QED
      BY <1>2, <2>3, <3>1, <3>2, <3>3, <3>4, StepCases
  <2> QED
    BY <2>1, <2>2, <2>3
<1>4. ~Start(p) /\ ~Crash(p)
  BY DEF Start, Crash, At, Down, TypeInv, ProcType, Booting
<1>5. ~TryInsert(p) /\ ~TryExpire(p) /\ ~PollFails(p) /\ ~WaitOrGiveUp(p) /\ ~Detect(p)
  BY DEF TryInsert, TryExpire, PollFails, WaitOrGiveUp, Detect, At, Booting
<1>6. ~Fix(p) /\ ~Stamp(p) /\ ~Upgrade(p) /\ ~Apply(p) /\ ~MigrateRaises(p) /\ ~Release(p)
  BY DEF Fix, Stamp, Upgrade, Apply, MigrateRaises, Release, At, Migrating, Booting
<1>7. ~LookupTenant(p)
  BY LookupEffect
<1>8. ~LoadCredentials(p)
  BY DEF LoadCredentials, TypeInv, ProcType, Shape
<1>9. ~StoreTenant(p)
  BY DEF StoreTenant, Goto, TypeInv, ProcType, Shape
<1> QED
  BY <1>2, <1>3, <1>4, <1>5, <1>6, <1>7, <1>8, <1>9, StepCases

\* bootstrap_auth: a bootstrap that nothing disturbed ends with a file whose tenant
\* key is that of an enabled default tenant and whose administrator key is the one
\* of the process, whatever crash, cut-off file or change came before it.
THEOREM BootstrapHeals == Spec => UndisturbedBootstrapHeals
<1> DEFINE Heals == \A p \in Procs :
                      proc[p].pc \in Booting /\ proc'[p].pc = "serving" /\ p \notin disturbed
                        => FileUsable(p)'
<1>1. ASSUME IInv, [Next]_vars, NEW p \in Procs, proc[p].pc \in Booting,
             proc'[p].pc = "serving", p \notin disturbed
      PROVE  FileUsable(p)'
  <2>1. TypeInv /\ Undisturbed(p)
    BY <1>1 DEF IInv, BootInv
  <2>2. SaveCredentials(p) \/ WriteCredentials(p)
    BY <1>1, <2>1, ServiceBegins
  <2>3. SUFFICES /\ file'.admin = proc[p].admin /\ file'.key = proc[p].key
                 /\ Serve(p) /\ UNCHANGED tenants /\ GoodKey(proc[p].key)
    <3>1. proc'[p].admin = proc[p].admin
      BY <2>1, <2>3 DEF Serve, Down, TypeInv, ProcType
    <3> QED
      BY <2>3, <3>1 DEF FileUsable, GoodKey, KeyIsGood, NoKey
  <2>4. CASE SaveCredentials(p)
    <3>1. Serve(p) \/ Goto(p, "write")
      BY <2>4 DEF SaveCredentials
    <3>2. ~Goto(p, "write")
      BY <1>1, <2>1 DEF Goto, TypeInv, ProcType, Shape
    <3>3. /\ proc[p].creds = [admin |-> proc[p].admin, key |-> proc[p].key]
          /\ UNCHANGED <<file, tenants>> /\ proc[p].pc = "save"
      BY <2>4, <3>2 DEF SaveCredentials, At
    <3> QED
      BY <2>1, <3>1, <3>2, <3>3 DEF Undisturbed
  <2>5. CASE WriteCredentials(p)
    BY <2>1, <2>5 DEF WriteCredentials, At, Undisturbed
  <2> QED
    BY <2>2, <2>4, <2>5
<1>2. IInv /\ [Next]_vars => [Heals]_vars
  BY <1>1
<1> QED
  BY <1>2, InvariantHolds, PTL DEF Spec, UndisturbedBootstrapHeals
=============================================================================
