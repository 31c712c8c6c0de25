------------------------------ MODULE Startup ------------------------------
(***************************************************************************)
(* What the API processes do before they serve (lifespan of app/main.py):  *)
(*  - create_tables of app/storage/repository.py: the migration lease, a   *)
(*    row of the business database, around _migrate;                       *)
(*  - bootstrap_auth of app/api/security.py: administrator key and default *)
(*    tenant, kept in the database and in the credentials file.            *)
(* Several processes (uvicorn --workers, containers) start, crash and      *)
(* start again at any time.  They share the database and the file, and     *)
(* their clocks agree.                                                     *)
(*                                                                         *)
(* External: an alembic upgrade is one transaction that fails when another *)
(* one changed the version it started from (PostgreSQL).                   *)
(***************************************************************************)
EXTENDS Naturals, Sequences, FiniteSetsExt

CONSTANTS
    Procs,
    Nobody,        \* no owner
    LeaseStale,    \* LEASE_STALE_S
    LeaseWait,     \* LEASE_WAIT_S
    MaxCrashes,    \* bound: crashes of processes
    MaxChanges     \* bound: changes of the default tenant by the admin API

ASSUME StartupAssumption ==
    /\ IsFiniteSet(Procs)
    /\ Nobody \notin Procs
    /\ LeaseStale \in Nat
    /\ LeaseWait \in Nat

VARIABLES
    lease,      \* row 1 of schema_migration_lease: owner and age
    schema,     \* alembic_version, what the tables have, and whether they are
                \* older than Alembic
    tenants,    \* rows of tenants named "default", names are not unique
    file,       \* the credentials file: admin_api_key and default_tenant_key
    proc,       \* each process
    disturbed,  \* history: bootstraps that others ran or changed the tenant during
    crashes, changes

vars == <<lease, schema, tenants, file, proc, disturbed, crashes, changes>>

NoKey == 0
NoLease == [owner |-> Nobody, age |-> 0]
NoCreds == [admin |-> NoKey, key |-> NoKey]   \* also what a missing or cut-off file reads as

\* waited: since the deadline was set; held: since acquired_at was taken;
\* ok: _migrate has not raised; seen: the version an upgrade starts from.
Down == [pc |-> "down", waited |-> 0, held |-> 0, ok |-> TRUE, seen |-> "none",
         creds |-> NoCreds, admin |-> NoKey, key |-> NoKey, target |-> 0]

Polling == {"insert", "expire", "wait"}
Migrating == {"detect", "fix", "upgrade", "apply", "stamp"}
Booting == {"load", "lookup", "store", "save", "write"}
Starting == Polling \cup Migrating \cup {"release"} \cup Booting

HeadRevision == "0003"

\* A new database, one from before Alembic, or one at an older revision.
Init ==
    /\ lease = NoLease
    /\ schema \in {[version |-> "none", parts |-> {}, old |-> FALSE],
                   [version |-> "none", parts |-> {"tables"}, old |-> TRUE],
                   [version |-> "0001", parts |-> {"tables", "columns"}, old |-> FALSE],
                   [version |-> "0002", parts |-> {"tables", "columns", "uniqueSeq"},
                    old |-> FALSE],
                   [version |-> HeadRevision,
                    parts |-> {"tables", "columns", "uniqueSeq", "defaults"}, old |-> FALSE]}
    /\ tenants = <<>>
    /\ file = NoCreds
    /\ proc = [p \in Procs |-> Down]
    /\ disturbed = {}
    /\ crashes = 0 /\ changes = 0

Goto(p, pc) == proc' = [proc EXCEPT ![p].pc = pc]
At(p, pc) == proc[p].pc = pc

\* app.state keeps the administrator key.
Serve(p) ==
    proc' = [proc EXCEPT ![p] = [Down EXCEPT !.pc = "serving", !.admin = proc[p].admin]]

-----------------------------------------------------------------------------
(* _acquire_migration_lease                                                *)

Start(p) ==
    /\ At(p, "down")
    /\ proc' = [proc EXCEPT ![p] = [Down EXCEPT !.pc = "insert"]]
    /\ UNCHANGED <<lease, schema, tenants, file, disturbed, crashes, changes>>

\* INSERT ... ON CONFLICT DO NOTHING
TryInsert(p) ==
    /\ At(p, "insert")
    /\ IF lease = NoLease
       THEN /\ lease' = [owner |-> p, age |-> 0]
            /\ Goto(p, "detect")
       ELSE /\ Goto(p, "expire")
            /\ UNCHANGED lease
    /\ UNCHANGED <<schema, tenants, file, disturbed, crashes, changes>>

\* Mutant: a lease in the way is deleted whatever its age.
TryExpireAny(p) ==
    /\ At(p, "expire")
    /\ lease' = NoLease
    /\ Goto(p, "wait")
    /\ UNCHANGED <<schema, tenants, file, disturbed, crashes, changes>>

\* DELETE ... WHERE acquired_at < cutoff
TryExpire(p) ==
    /\ At(p, "expire")
    /\ lease' = IF lease.age > LeaseStale THEN NoLease ELSE lease
    /\ Goto(p, "wait")
    /\ UNCHANGED <<schema, tenants, file, disturbed, crashes, changes>>

\* Any exception of a round is swallowed.
PollFails(p) ==
    /\ At(p, "insert") \/ At(p, "expire")
    /\ Goto(p, "wait")
    /\ UNCHANGED <<lease, schema, tenants, file, disturbed, crashes, changes>>

\* Mutant: no deadline.
WaitOnly(p) ==
    /\ At(p, "wait")
    /\ Goto(p, "insert")
    /\ UNCHANGED <<lease, schema, tenants, file, disturbed, crashes, changes>>

\* The deadline, or sleep and another round.
WaitOrGiveUp(p) ==
    /\ At(p, "wait")
    /\ IF proc[p].waited > LeaseWait THEN proc' = [proc EXCEPT ![p] = Down]
                                     ELSE Goto(p, "insert")
    /\ UNCHANGED <<lease, schema, tenants, file, disturbed, crashes, changes>>

-----------------------------------------------------------------------------
(* _migrate, and the release in the finally of create_tables               *)

Detect(p) ==
    /\ At(p, "detect")
    /\ Goto(p, IF schema.version = "none" /\ "tables" \in schema.parts THEN "fix" ELSE "upgrade")
    /\ UNCHANGED <<lease, schema, tenants, file, disturbed, crashes, changes>>

\* Mutant: the tables get their columns and the index on events stays as it was.
FixColumnsOnly(p) ==
    /\ At(p, "fix")
    /\ schema' = [schema EXCEPT !.parts = @ \cup {"columns"}]
    /\ Goto(p, "stamp")
    /\ UNCHANGED <<lease, tenants, file, disturbed, crashes, changes>>

\* create_all and migrate_schema, idempotent, and their commit; the columns that
\* were there keep having no default in the database
Fix(p) ==
    /\ At(p, "fix")
    /\ schema' = [schema EXCEPT !.parts = @ \cup {"columns", "uniqueSeq"}]
    /\ Goto(p, "stamp")
    /\ UNCHANGED <<lease, tenants, file, disturbed, crashes, changes>>

Stamp(p) ==
    /\ At(p, "stamp")
    /\ schema' = [schema EXCEPT !.version = HeadRevision]
    /\ Goto(p, "release")
    /\ UNCHANGED <<lease, tenants, file, disturbed, crashes, changes>>

Upgrade(p) ==
    /\ At(p, "upgrade")
    /\ proc' = [proc EXCEPT ![p].pc = "apply", ![p].seen = schema.version]
    /\ UNCHANGED <<lease, schema, tenants, file, disturbed, crashes, changes>>

\* The revisions; the later two leave a missing table alone.
Baseline(parts) == parts \cup {"tables", "columns"}
EventsSeqUnique(parts) == IF "tables" \in parts THEN parts \cup {"uniqueSeq"} ELSE parts
ServerDefaults(parts) == IF "tables" \in parts THEN parts \cup {"defaults"} ELSE parts

RevisionsFrom(version, parts) ==
    CASE version = "none" -> ServerDefaults(EventsSeqUnique(Baseline(parts)))
      [] version = "0001" -> ServerDefaults(EventsSeqUnique(parts))
      [] version = "0002" -> ServerDefaults(parts)
      [] version = HeadRevision -> parts

\* All revisions take effect together, or the version is not the one they follow.
Apply(p) ==
    /\ At(p, "apply")
    /\ IF schema.version = proc[p].seen
       THEN /\ schema' = [schema EXCEPT !.version = HeadRevision,
                                        !.parts = RevisionsFrom(proc[p].seen, @)]
            /\ Goto(p, "release")
       ELSE /\ proc' = [proc EXCEPT ![p].pc = "release", ![p].ok = FALSE]
            /\ UNCHANGED schema
    /\ UNCHANGED <<lease, tenants, file, disturbed, crashes, changes>>

MigrateRaises(p) ==
    /\ proc[p].pc \in Migrating
    /\ proc' = [proc EXCEPT ![p].pc = "release", ![p].ok = FALSE]
    /\ UNCHANGED <<lease, schema, tenants, file, disturbed, crashes, changes>>

DropOwnLease(p) == IF lease.owner = p THEN NoLease ELSE lease

\* The DELETE may fail, which is only logged; an exception of _migrate goes on.
\* A process that starts its bootstrap next to another one disturbs both.
Release(p) ==
    /\ At(p, "release")
    /\ lease' \in {DropOwnLease(p), lease}
    /\ proc' = [proc EXCEPT ![p] = IF @.ok THEN [Down EXCEPT !.pc = "load"] ELSE Down]
    /\ LET others == {q \in Procs \ {p} : proc[q].pc \in Booting}
       IN  disturbed' = IF proc[p].ok
                        THEN (disturbed \ {p}) \cup others
                               \cup (IF others = {} THEN {} ELSE {p})
                        ELSE disturbed
    /\ UNCHANGED <<schema, tenants, file, crashes, changes>>

-----------------------------------------------------------------------------
(* bootstrap_auth, AUTH_ENABLED and no ADMIN_API_KEY in the environment    *)

\* token_hex: a key that is in use nowhere
NewKey(used) == CHOOSE k \in 1..Cardinality(used) + 1 : k \notin used
NewAdminKey == NewKey({file.admin} \cup UNION {{proc[p].admin, proc[p].creds.admin} : p \in Procs})
NewTenantKey ==
    NewKey({file.key} \cup {tenants[i].key : i \in DOMAIN tenants}
             \cup UNION {{proc[p].key, proc[p].creds.key} : p \in Procs})

\* _load_credentials and the administrator key
LoadCredentials(p) ==
    /\ At(p, "load")
    /\ LET key == IF file.admin # NoKey THEN file.admin ELSE NewAdminKey
       IN  proc' = [proc EXCEPT ![p] = [@ EXCEPT !.pc = "lookup", !.creds = file, !.admin = key]]
    /\ UNCHANGED <<lease, schema, tenants, file, disturbed, crashes, changes>>

\* get_tenant_by_name takes the first of the rows with the name, in any order.
KeyIsGood(row, key) == key # NoKey /\ row.enabled /\ row.key = key

LookupTenant(p) ==
    LET toStore(i) == [proc[p] EXCEPT !.pc = "store", !.target = i, !.key = NewTenantKey]
        toSave == [proc[p] EXCEPT !.pc = "save", !.key = proc[p].creds.key]
    IN
    /\ At(p, "lookup")
    /\ \/ tenants = <<>> /\ proc' = [proc EXCEPT ![p] = toStore(0)]
       \/ \E i \in DOMAIN tenants :
            proc' = [proc EXCEPT ![p] = IF KeyIsGood(tenants[i], proc[p].creds.key)
                                        THEN toSave ELSE toStore(i)]
    /\ UNCHANGED <<lease, schema, tenants, file, disturbed, crashes, changes>>

\* create_tenant, or update_tenant with the new key
StoreTenant(p) ==
    /\ At(p, "store")
    /\ LET row == [key |-> proc[p].key, enabled |-> TRUE]
       IN  tenants' = IF proc[p].target = 0 THEN Append(tenants, row)
                      ELSE [tenants EXCEPT ![proc[p].target] = row]
    /\ Goto(p, "save")
    /\ UNCHANGED <<lease, schema, file, disturbed, crashes, changes>>

\* Mutant: only a new administrator key is worth a new file.
SaveAdminKeyOnly(p) ==
    /\ At(p, "save")
    /\ IF proc[p].creds.admin = proc[p].admin
       THEN Serve(p) /\ UNCHANGED file
       ELSE Goto(p, "write") /\ file' = NoCreds
    /\ UNCHANGED <<lease, schema, tenants, disturbed, crashes, changes>>

\* _save_credentials when something is new: write_text truncates the file ...
SaveCredentials(p) ==
    /\ At(p, "save")
    /\ IF proc[p].creds = [admin |-> proc[p].admin, key |-> proc[p].key]
       THEN Serve(p) /\ UNCHANGED file
       ELSE Goto(p, "write") /\ file' = NoCreds
    /\ UNCHANGED <<lease, schema, tenants, disturbed, crashes, changes>>

\* ... and then fills it.
WriteCredentials(p) ==
    /\ At(p, "write")
    /\ file' = [admin |-> proc[p].admin, key |-> proc[p].key]
    /\ Serve(p)
    /\ UNCHANGED <<lease, schema, tenants, disturbed, crashes, changes>>

-----------------------------------------------------------------------------
(* The world.                                                              *)

\* rotate_key or patch_tenant(enabled=False) of the admin API of a serving process
ChangeTenant(i) ==
    /\ \E p \in Procs : At(p, "serving")
    /\ changes < MaxChanges
    /\ tenants' \in {[tenants EXCEPT ![i].key = NewTenantKey],
                     [tenants EXCEPT ![i].enabled = FALSE]}
    /\ disturbed' = disturbed \cup {p \in Procs : proc[p].pc \in Booting}
    /\ changes' = changes + 1
    /\ UNCHANGED <<lease, schema, file, proc, crashes>>

\* The process dies, or an exception that nothing catches ends its start.
Crash(p) ==
    /\ ~At(p, "down")
    /\ crashes < MaxCrashes
    /\ crashes' = crashes + 1
    /\ proc' = [proc EXCEPT ![p] = Down]
    /\ UNCHANGED <<lease, schema, tenants, file, disturbed, changes>>

\* Ages are counted as far as they are compared.
Older(n, limit) == IF n > limit THEN n ELSE n + 1
Tick ==
    /\ lease' = IF lease = NoLease THEN lease
                ELSE [lease EXCEPT !.age = Older(@, LeaseStale)]
    /\ proc' = [p \in Procs |->
                  [proc[p] EXCEPT
                     !.waited = IF proc[p].pc \in Polling THEN Older(@, LeaseWait) ELSE 0,
                     !.held = IF proc[p].pc \in Migrating THEN Older(@, LeaseStale) ELSE 0]]
    /\ UNCHANGED <<schema, tenants, file, disturbed, crashes, changes>>

Step(p) ==
    \/ TryInsert(p) \/ TryExpire(p) \/ PollFails(p) \/ WaitOrGiveUp(p)
    \/ Detect(p) \/ Fix(p) \/ Stamp(p) \/ Upgrade(p) \/ Apply(p) \/ MigrateRaises(p)
    \/ Release(p)
    \/ LoadCredentials(p) \/ LookupTenant(p) \/ StoreTenant(p)
    \/ SaveCredentials(p) \/ WriteCredentials(p)

Next ==
    \/ \E p \in Procs : Start(p) \/ Step(p) \/ Crash(p)
    \/ \E i \in DOMAIN tenants : ChangeTenant(i)
    \/ Tick

Spec == Init /\ [][Next]_vars

\* A process that runs goes on (every statement returns or raises), and time passes.
FairSpec == Spec /\ WF_vars(Tick) /\ \A p \in Procs : WF_vars(Step(p))

-----------------------------------------------------------------------------
(* Properties.                                                             *)

\* Two processes migrate at once only after one of them has held the lease for
\* longer than LEASE_STALE_S: whoever crashed, gave up, released late or was
\* taken over, and whichever rounds failed.
FreshLeaseExcludes ==
    \A p, q \in Procs :
        p # q /\ proc[p].pc \in Migrating /\ proc[q].pc \in Migrating
          => proc[p].held > LeaseStale \/ proc[q].held > LeaseStale

\* Once a process is past create_tables, the database is at head and has every
\* table, column and index, and the defaults unless it is older than Alembic; from
\* each of the five shapes it may have had, and also when the migration before
\* crashed half way or two of them overlapped.
PastMigrationSchemaIsHead ==
    \A p \in Procs :
        proc[p].pc \in Booting \cup {"serving"}
          => /\ schema.version = HeadRevision
             /\ {"tables", "columns", "uniqueSeq"} \subseteq schema.parts
             /\ "defaults" \in schema.parts \/ schema.old

\* A bootstrap that nothing disturbed leaves a file whose keys work: the tenant
\* key is that of an enabled default tenant and the administrator key is the one
\* of the process; after a crash between database and file, a cut-off file, a
\* rotation or a disabled tenant.
FileUsable(p) ==
    /\ file.admin = proc[p].admin
    /\ \E i \in DOMAIN tenants : KeyIsGood(tenants[i], file.key)
UndisturbedBootstrapHeals ==
    [][\A p \in Procs :
         proc[p].pc \in Booting /\ proc'[p].pc = "serving" /\ p \notin disturbed
           => FileUsable(p)']_vars

\* Every start ends, in service or with an error, whatever the holder of the
\* lease does and however many rounds fail.
StartEnds ==
    \A p \in Procs : proc[p].pc \in Starting ~> proc[p].pc \notin Starting
=============================================================================
