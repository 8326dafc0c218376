------------------------ MODULE TenantAdministration ------------------------
(***************************************************************************)
(* The settings of a tenant and the audit trail of their changes (the      *)
(* routes create_tenant and patch_tenant, utils.audit).                    *)
(*                                                                         *)
(* patch_tenant reads the row, assigns the columns named in the request    *)
(* and commits.  The flush of the commit first inserts the audit row, whose*)
(* created_at is read from the clock then, and afterwards updates the      *)
(* tenant, which may wait for the row lock.  Only the columns whose new    *)
(* value differs from the one that was read are written, while the audit   *)
(* row describes the whole row as the session has it.  From the lock to    *)
(* the commit nothing is read, so the UPDATE and the commit are one step.  *)
(***************************************************************************)
EXTENDS Naturals

CONSTANTS Tenants,
          Requests,   \* calls of patch_tenant; each is sent at most once
          Values,     \* of the columns; kill_switch 0 is off
          Stored,     \* what a column returns for an assigned value: 1.0 for 1
          Patches,    \* the request bodies that clients send
          Names       \* the names of tenants

\* The columns a request may set.
Columns == {"name", "risk_tier", "hard_budget_usd", "kill_switch"}
Row     == [Columns -> Values]

ASSUME TenantsAssumption == Tenants # {}
ASSUME StoredAssumption == /\ Stored \in [Values -> Values]
                           /\ \A v \in Values : Stored[Stored[v]] = Stored[v]
                           /\ 0 \in Values /\ Stored[0] = 0
\* A body is a JSON object: any keys, among them ones that are no column.
ASSUME PatchesAssumption == \A body \in Patches : body \in [DOMAIN body -> Values]
ASSUME NamesAssumption == Names \subseteq Values

VARIABLES
  exists,      \* the tenants that have a row
  row,         \* the committed row of each of them
  audit,       \* the committed audit_events about tenants
  clock,       \* what now() returns
  pc,          \* where each patch_tenant call is
  tenant,      \* the tenant it is for
  patch,       \* the body it was sent
  mem,         \* the row as its session read it
  created_at   \* of the audit row it has inserted

table   == <<exists, row, audit>>
session == <<pc, tenant, patch, mem, created_at>>
vars    == <<exists, row, audit, clock, pc, tenant, patch, mem, created_at>>

\* hard_budget_usd comes from the settings, the rest from the table's defaults.
Defaults == [c \in Columns |-> 0]

Named(n) == [Defaults EXCEPT !["name"] = Stored[n]]

\* A hash is represented by what is hashed and only ever compared.
NoHash == <<>>

AuditEvent(at, t, action, before, after) ==
  [created_at |-> at, tenant |-> t, action |-> action,
   before_hash |-> before, after_hash |-> after]

\* What tenant says of a call that has no open session.
Nowhere == CHOOSE t \in Tenants : TRUE

Init ==
  /\ exists = {}
  /\ row = [t \in Tenants |-> Defaults]
  /\ audit = {}
  /\ clock = 0
  /\ pc = [r \in Requests |-> "idle"]
  /\ tenant = [r \in Requests |-> Nowhere]
  /\ patch = [r \in Requests |-> <<>>]
  /\ mem = [r \in Requests |-> Defaults]
  /\ created_at = [r \in Requests |-> 0]

-----------------------------------------------------------------------------
\* A second row with the same primary key is refused, and changes nothing.  Of
\* a new tenant only the name is hashed.
CreateTenant(t, n) ==
  /\ t \notin exists
  /\ exists' = exists \cup {t}
  /\ row' = [row EXCEPT ![t] = Named(n)]
  /\ audit' = audit \cup {AuditEvent(clock, t, "tenant.created", NoHash, [name |-> n])}
  /\ clock' = clock + 1
  /\ UNCHANGED session

\* A principal patches its own tenant only.
LoadTenant(r, t, body) ==
  /\ pc[r] = "idle"
  /\ t \in exists
  /\ pc' = [pc EXCEPT ![r] = "insert"]
  /\ tenant' = [tenant EXCEPT ![r] = t]
  /\ patch' = [patch EXCEPT ![r] = body]
  /\ mem' = [mem EXCEPT ![r] = row[t]]
  /\ UNCHANGED <<exists, row, audit, clock, created_at>>

\* The row as the session has it after the assignments.
Patched(r) == [c \in Columns |-> IF c \in DOMAIN patch[r] THEN patch[r][c]
                                 ELSE mem[r][c]]

\* The audit row is inserted; nobody sees it before the commit.
InsertAudit(r) ==
  /\ pc[r] = "insert"
  /\ pc' = [pc EXCEPT ![r] = "update"]
  /\ created_at' = [created_at EXCEPT ![r] = clock]
  /\ clock' = clock + 1
  /\ UNCHANGED <<exists, row, audit, tenant, patch, mem>>

\* A mutant of Flushed: an UPDATE of every column the session loaded.
FlushedWhole(current, read, value) == [c \in Columns |-> Stored[value[c]]]

\* The committed row after the flush: only changed columns are written.
Flushed(current, read, value) ==
  [c \in Columns |-> IF Stored[value[c]] = read[c] THEN current[c]
                     ELSE Stored[value[c]]]

Trail(r) == AuditEvent(created_at[r], tenant[r], "tenant.updated", mem[r], Patched(r))

Close(r, outcome) == /\ pc' = [pc EXCEPT ![r] = outcome]
                     /\ patch' = [patch EXCEPT ![r] = <<>>]
                     /\ mem' = [mem EXCEPT ![r] = Defaults]
                     /\ tenant' = [tenant EXCEPT ![r] = Nowhere]
                     /\ created_at' = [created_at EXCEPT ![r] = 0]

\* A mutant of CommitPatch: the audit row has a transaction of its own, after
\* the first, and the process may be lost in between.
CommitThenAudit(r) ==
  /\ pc[r] = "update"
  /\ row' = [row EXCEPT ![tenant[r]] = Flushed(@, mem[r], Patched(r))]
  /\ audit' \in {audit, audit \cup {Trail(r)}}
  /\ Close(r, "ok")
  /\ UNCHANGED <<exists, clock>>

CommitPatch(r) ==
  /\ pc[r] = "update"
  /\ row' = [row EXCEPT ![tenant[r]] = Flushed(@, mem[r], Patched(r))]
  /\ audit' = audit \cup {Trail(r)}
  /\ Close(r, "ok")
  /\ UNCHANGED <<exists, clock>>

\* The process or the connection is lost, or a value is refused: nothing was
\* written.
CrashPatch(r) == /\ pc[r] \in {"insert", "update"}
                 /\ Close(r, "failed")
                 /\ UNCHANGED <<exists, row, audit, clock>>

Next ==
  \/ \E t \in Tenants, n \in Names : CreateTenant(t, n)
  \/ \E r \in Requests : \/ \E t \in Tenants, body \in Patches : LoadTenant(r, t, body)
                         \/ InsertAudit(r)
                         \/ CommitPatch(r)
                         \/ CrashPatch(r)

Spec == Init /\ [][Next]_vars

-----------------------------------------------------------------------------
CreatedRow == [created_at : Nat, tenant : Tenants, action : {"tenant.created"},
               before_hash : {NoHash}, after_hash : [name : Names]]
UpdatedRow == [created_at : Nat, tenant : Tenants, action : {"tenant.updated"},
               before_hash : Row, after_hash : Row]

\* Every variable keeps to the values the code can give it.
TypeOK ==
  /\ exists \subseteq Tenants
  /\ row \in [Tenants -> Row]
  /\ audit \subseteq CreatedRow \cup UpdatedRow
  /\ clock \in Nat
  /\ pc \in [Requests -> {"idle", "insert", "update", "ok", "failed"}]
  /\ tenant \in [Requests -> Tenants]
  /\ patch \in [Requests -> Patches \cup {<<>>}]
  /\ mem \in [Requests -> Row]
  /\ created_at \in [Requests -> Nat]

\* The audit rows that tell a change of the settings of t.
Changes(t) == {e \in audit : /\ e.tenant = t /\ e.action = "tenant.updated"
                             /\ e.before_hash # e.after_hash}

Newest(t, e) == e \in Changes(t) /\ \A d \in Changes(t) : d.created_at <= e.created_at

\* A trail of hashes shows whether it can be relied on.  Patches that overlap
\* hash rows that never were, and created_at, taken before the row lock, need
\* not follow the order of the commits, so the newest audit row may describe
\* settings that are not in force; but then two rows of the trail began with
\* the same hash.  Otherwise the newest is about the row in force, with the
\* client's spelling of the values (patch_tenant, audit, the route audits).
TrailEndsAtRow ==
  \A t \in Tenants :
    (\A d, e \in Changes(t) : d.before_hash = e.before_hash => d = e) =>
      \A e \in Changes(t) :
        Newest(t, e) => row[t] = [c \in Columns |-> Stored[e.after_hash[c]]]

\* Whoever turns the kill switch of a tenant off has read that it was on: a
\* patch that was prepared before the switch was set does not lift it, whether
\* it names the switch or not (patch_tenant).
KillLiftedKnowingly ==
  [][\A t \in Tenants :
       row[t]["kill_switch"] # 0 /\ row'[t]["kill_switch"] = 0 =>
         \E r \in Requests : /\ pc[r] = "update" /\ pc'[r] = "ok"
                             /\ tenant[r] = t
                             /\ "kill_switch" \in DOMAIN patch[r]
                             /\ mem[r]["kill_switch"] # 0]_vars
=============================================================================
