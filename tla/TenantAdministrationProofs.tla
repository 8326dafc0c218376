---------------------- MODULE TenantAdministrationProofs ----------------------
(***************************************************************************)
(* TenantAdministration for any number of tenants, requests and bodies.    *)
(* TrailEndsAtRow is made inductive by saying of every open patch which of *)
(* the two it is: one that read what an audit row began with, and will     *)
(* fork the trail, or one that read the row in force, and will end it.     *)
(***************************************************************************)
EXTENDS TenantAdministration, TLAPS

USE StoredAssumption, PatchesAssumption, NamesAssumption

Live(r) == pc[r] \in {"insert", "update"}

\* What comes out of the table is spelled as the table spells it.
IsStored(settings) == \A c \in Columns : Stored[settings[c]] = settings[c]

StoredRow(settings) == [c \in Columns |-> Stored[settings[c]]]

\* A patch is for a tenant that is there.
Addressed(r) ==
  Live(r) => tenant[r] \in exists /\ patch[r] \in Patches /\ IsStored(mem[r])

\* No two audit rows have the same created_at.
Stamped(r) ==
  pc[r] = "update" =>
    /\ created_at[r] < clock
    /\ \A e \in audit : e.created_at # created_at[r]
    /\ \A q \in Requests : q # r /\ pc[q] = "update" => created_at[q] # created_at[r]

\* Nothing is told of a tenant that is not there.
Untold(t) == row[t] = Defaults /\ Changes(t) = {}

Forked(t) ==
  \E d, e \in Changes(t) : d # e /\ d.before_hash = e.before_hash

\* The request read what a change began with, or what is in force, which the
\* trail told before the request inserted its audit row.
HasRead(r, t) ==
  \/ \E e \in Changes(t) : mem[r] = e.before_hash
  \/ /\ mem[r] = row[t]
     /\ pc[r] = "update" => \A e \in Changes(t) : e.created_at < created_at[r]

Clean(t) ==
  /\ \A e \in Changes(t) : Newest(t, e) => row[t] = StoredRow(e.after_hash)
  /\ \A r \in Requests : Live(r) /\ tenant[r] = t => HasRead(r, t)

IInv ==
  /\ TypeOK
  /\ \A e \in audit : e.created_at < clock
  /\ \A t \in Tenants : IsStored(row[t]) /\ (t \notin exists => Untold(t))
  /\ \A r \in Requests : Addressed(r) /\ Stamped(r)
  /\ \A t \in Tenants : Forked(t) \/ Clean(t)

-----------------------------------------------------------------------------
\* The rows that are written.

LEMMA DefaultsAreRow == Defaults \in Row /\ IsStored(Defaults)
  BY DEF Defaults, Row, IsStored

LEMMA NamedIsRow == \A n \in Names : Named(n) \in Row /\ IsStored(Named(n))
  BY DEF Defaults, Row, Named, IsStored, Columns

LEMMA PatchedIsRow ==
  ASSUME TypeOK, NEW r \in Requests, patch[r] \in Patches
  PROVE  Patched(r) \in Row
<1>1. mem[r] \in Row /\ patch[r] \in [DOMAIN patch[r] -> Values]
  BY DEF TypeOK
<1>2. \A c \in Columns : IF c \in DOMAIN patch[r] THEN patch[r][c] \in Values
                         ELSE mem[r][c] \in Values
  BY <1>1 DEF Row
<1>3. QED
  BY <1>2 DEF Patched, Row

LEMMA FlushedIsRow ==
  ASSUME NEW current \in Row, IsStored(current), NEW read \in Row, NEW value \in Row
  PROVE  Flushed(current, read, value) \in Row /\ IsStored(Flushed(current, read, value))
  BY DEF Flushed, Row, IsStored

\* Flushed to the row that was read, a patch is what it says.
LEMMA FlushedWhereRead ==
  ASSUME NEW read \in Row, NEW value \in Row
  PROVE  Flushed(read, read, value) = StoredRow(value)
<1>1. \A c \in Columns :
        (IF Stored[value[c]] = read[c] THEN read[c] ELSE Stored[value[c]]) = Stored[value[c]]
  OBVIOUS
<1>2. QED
  BY <1>1 DEF Flushed, StoredRow

\* A patch that changes nothing writes nothing, whatever is in force.
LEMMA FlushedUnchanged ==
  ASSUME NEW current \in Row, NEW read \in Row, IsStored(read)
  PROVE  Flushed(current, read, read) = current
<1>1. \A c \in Columns :
        (IF Stored[read[c]] = read[c] THEN current[c] ELSE Stored[read[c]]) = current[c]
  BY DEF IsStored
<1>2. [c \in Columns |-> current[c]] = current
  BY DEF Row
<1>3. QED
  BY <1>1, <1>2 DEF Flushed

LEMMA AuditTypes ==
  ASSUME TypeOK, NEW t
  PROVE  \A e \in Changes(t) : /\ e \in UpdatedRow /\ e.created_at \in Nat
                               /\ e.before_hash \in Row /\ e.after_hash \in Row
  BY DEF TypeOK, Changes, CreatedRow, UpdatedRow

-----------------------------------------------------------------------------
LEMMA InitIInv == Init => IInv
<1>1. SUFFICES ASSUME Init PROVE IInv
  OBVIOUS
<1>2. Nowhere \in Tenants
  BY TenantsAssumption DEF Nowhere
<1>3. TypeOK
  BY <1>1, <1>2, DefaultsAreRow DEF Init, TypeOK
<1>4. \A t \in Tenants : Changes(t) = {} /\ row[t] = Defaults
  BY <1>1 DEF Init, Changes
<1>5. \A r \in Requests : ~Live(r) /\ pc[r] # "update"
  BY <1>1 DEF Init, Live
<1>6. \A t \in Tenants : Clean(t) /\ Untold(t)
  BY <1>4, <1>5 DEF Clean, Untold
<1>7. \A r \in Requests : Addressed(r) /\ Stamped(r)
  BY <1>5 DEF Addressed, Stamped
<1>8. QED
  BY <1>1, <1>3, <1>4, <1>6, <1>7, DefaultsAreRow DEF Init, IInv

\* What an audit row of an open patch is.
LEMMA TrailIs ==
  ASSUME IInv, NEW r \in Requests, Live(r)
  PROVE  /\ tenant[r] \in Tenants /\ mem[r] \in Row /\ IsStored(mem[r]) /\ Patched(r) \in Row
         /\ Trail(r) \in UpdatedRow
         /\ Trail(r).tenant = tenant[r] /\ Trail(r).action = "tenant.updated"
         /\ Trail(r).before_hash = mem[r] /\ Trail(r).after_hash = Patched(r)
         /\ Trail(r).created_at = created_at[r] /\ created_at[r] \in Nat
<1>1. /\ tenant[r] \in Tenants /\ mem[r] \in Row /\ patch[r] \in Patches
      /\ created_at[r] \in Nat /\ IsStored(mem[r])
  BY DEF IInv, TypeOK, Addressed
<1>2. Patched(r) \in Row
  BY <1>1, PatchedIsRow DEF IInv
<1>3. QED
  BY <1>1, <1>2 DEF Trail, AuditEvent, UpdatedRow

LEMMA CommittedRow ==
  ASSUME IInv, NEW r \in Requests, CommitPatch(r)
  PROVE  LET t == tenant[r] IN
         /\ Flushed(row[t], mem[r], Patched(r)) \in Row
         /\ IsStored(Flushed(row[t], mem[r], Patched(r)))
<1>1. Live(r)
  BY DEF CommitPatch, Live
<1>2. QED
  BY <1>1, TrailIs, FlushedIsRow DEF IInv, TypeOK

-----------------------------------------------------------------------------
LEMMA StepTypeOK == ASSUME IInv, Next PROVE TypeOK'
<1> USE DEF TypeOK
<1>1. TypeOK /\ Nowhere \in Tenants
  BY TenantsAssumption DEF IInv, Nowhere
<1>2. ASSUME NEW t \in Tenants, NEW n \in Names, CreateTenant(t, n)
      PROVE  TypeOK'
  <2>1. AuditEvent(clock, t, "tenant.created", NoHash, [name |-> n]) \in CreatedRow
    BY <1>1 DEF AuditEvent, CreatedRow
  <2>2. QED
    BY <1>1, <1>2, <2>1, NamedIsRow DEF CreateTenant, session
<1>3. ASSUME NEW r \in Requests, NEW t \in Tenants, NEW doc \in Patches, LoadTenant(r, t, doc)
      PROVE  TypeOK'
  BY <1>1, <1>3 DEF LoadTenant
<1>4. ASSUME NEW r \in Requests, InsertAudit(r)
      PROVE  TypeOK'
  BY <1>1, <1>4 DEF InsertAudit
<1>5. ASSUME NEW r \in Requests, CommitPatch(r)
      PROVE  TypeOK'
  <2>1. Live(r)
    BY <1>5 DEF CommitPatch, Live
  <2>2. Trail(r) \in UpdatedRow /\ Flushed(row[tenant[r]], mem[r], Patched(r)) \in Row
    BY <1>5, <2>1, TrailIs, CommittedRow
  <2>3. QED
    BY <1>1, <1>5, <2>2, DefaultsAreRow DEF CommitPatch, Close
<1>6. ASSUME NEW r \in Requests, CrashPatch(r)
      PROVE  TypeOK'
  BY <1>1, <1>6, DefaultsAreRow DEF CrashPatch, Close
<1>7. QED
  BY <1>2, <1>3, <1>4, <1>5, <1>6 DEF Next

LEMMA StepStamped ==
  ASSUME IInv, Next
  PROVE  /\ \A e \in audit' : e.created_at < clock'
         /\ \A q \in Requests : Stamped(q)'
<1> USE DEF IInv, TypeOK, Stamped
<1>1. \A e \in audit : e.created_at \in Nat
  BY DEF CreatedRow, UpdatedRow
<1>2. ASSUME NEW t \in Tenants, NEW n \in Names, CreateTenant(t, n)
      PROVE  /\ \A e \in audit' : e.created_at < clock'
             /\ \A q \in Requests : Stamped(q)'
  BY <1>1, <1>2 DEF CreateTenant, session, AuditEvent
<1>3. ASSUME NEW r \in Requests, NEW t \in Tenants, NEW doc \in Patches, LoadTenant(r, t, doc)
      PROVE  /\ \A e \in audit' : e.created_at < clock'
             /\ \A q \in Requests : Stamped(q)'
  BY <1>3 DEF LoadTenant
<1>4. ASSUME NEW r \in Requests, InsertAudit(r)
      PROVE  /\ \A e \in audit' : e.created_at < clock'
             /\ \A q \in Requests : Stamped(q)'
  BY <1>1, <1>4 DEF InsertAudit
<1>5. ASSUME NEW r \in Requests, CommitPatch(r)
      PROVE  /\ \A e \in audit' : e.created_at < clock'
             /\ \A q \in Requests : Stamped(q)'
  <2>1. Trail(r).created_at = created_at[r]
    BY DEF Trail, AuditEvent
  <2>2. QED
    BY <1>5, <2>1 DEF CommitPatch, Close
<1>6. ASSUME NEW r \in Requests, CrashPatch(r)
      PROVE  /\ \A e \in audit' : e.created_at < clock'
             /\ \A q \in Requests : Stamped(q)'
  BY <1>6 DEF CrashPatch, Close
<1>7. QED
  BY <1>2, <1>3, <1>4, <1>5, <1>6 DEF Next

LEMMA StepAddressed ==
  ASSUME IInv, Next, NEW s \in Requests
  PROVE  Addressed(s)'
<1> USE DEF IInv, TypeOK, Addressed, Live
<1>1. ASSUME NEW t \in Tenants, NEW n \in Names, CreateTenant(t, n)
      PROVE  Addressed(s)'
  BY <1>1 DEF CreateTenant, session, IsStored
<1>2. ASSUME NEW r \in Requests, NEW t \in Tenants, NEW doc \in Patches, LoadTenant(r, t, doc)
      PROVE  Addressed(s)'
  BY <1>2 DEF LoadTenant, IsStored
<1>3. ASSUME NEW r \in Requests, InsertAudit(r)
      PROVE  Addressed(s)'
  BY <1>3 DEF InsertAudit, IsStored
<1>4. ASSUME NEW r \in Requests, CommitPatch(r)
      PROVE  Addressed(s)'
  BY <1>4 DEF CommitPatch, Close, IsStored
<1>5. ASSUME NEW r \in Requests, CrashPatch(r)
      PROVE  Addressed(s)'
  BY <1>5 DEF CrashPatch, Close, IsStored
<1>6. QED
  BY <1>1, <1>2, <1>3, <1>4, <1>5 DEF Next

\* A commit adds one change to the trail of its tenant, unless it changes
\* nothing; no other step does.
LEMMA CommitAddsChange ==
  ASSUME IInv, NEW r \in Requests, CommitPatch(r), NEW u \in Tenants
  PROVE  Changes(u)' = IF u = tenant[r] /\ mem[r] # Patched(r)
                       THEN Changes(u) \cup {Trail(r)} ELSE Changes(u)
<1>1. Live(r)
  BY DEF CommitPatch, Live
<1>2. QED
  BY <1>1, TrailIs DEF CommitPatch, Changes

LEMMA OthersKeepChanges ==
  ASSUME NEW u \in Tenants,
         \/ \E t \in Tenants, n \in Names : CreateTenant(t, n)
         \/ UNCHANGED audit
  PROVE  Changes(u)' = Changes(u)
  BY DEF CreateTenant, Changes, AuditEvent

LEMMA StepUntold ==
  ASSUME IInv, Next, NEW t \in Tenants
  PROVE  IsStored(row'[t]) /\ (t \notin exists' => Untold(t)')
<1> USE DEF IInv, TypeOK, Untold
<1>1. ASSUME NEW u \in Tenants, NEW n \in Names, CreateTenant(u, n)
      PROVE  IsStored(row'[t]) /\ (t \notin exists' => Untold(t)')
  <2>1. Changes(t)' = Changes(t)
    BY <1>1, OthersKeepChanges
  <2>2. QED
    BY <1>1, <2>1, NamedIsRow DEF CreateTenant
<1>2. ASSUME NEW r \in Requests, CommitPatch(r)
      PROVE  IsStored(row'[t]) /\ (t \notin exists' => Untold(t)')
  <2>1. tenant[r] \in exists /\ tenant[r] \in Tenants
    BY <1>2 DEF CommitPatch, Addressed, Live
  <2>2. t # tenant[r] => Changes(t)' = Changes(t) /\ row'[t] = row[t]
    BY <1>2, CommitAddsChange DEF CommitPatch
  <2>3. t = tenant[r] => row'[t] = Flushed(row[t], mem[r], Patched(r))
    BY <1>2 DEF CommitPatch
  <2>4. QED
    BY <1>2, <2>1, <2>2, <2>3, CommittedRow DEF CommitPatch
<1>3. CASE UNCHANGED table
  BY <1>3, OthersKeepChanges DEF table
<1>4. QED
  BY <1>1, <1>2, <1>3 DEF Next, LoadTenant, InsertAudit, CrashPatch, table

-----------------------------------------------------------------------------
\* A patch that read the row in force ends the trail; one that read what an
\* earlier change began with forks it.
LEMMA CommitKeepsClean ==
  ASSUME IInv, NEW r \in Requests, CommitPatch(r), NEW t \in Tenants, t = tenant[r], Clean(t)
  PROVE  Forked(t)' \/ Clean(t)'
<1> DEFINE d == Trail(r)
<1>1. Live(r) /\ pc[r] = "update"
  BY DEF CommitPatch, Live
<1>2. /\ mem[r] \in Row /\ IsStored(mem[r]) /\ Patched(r) \in Row /\ row[t] \in Row
      /\ d.before_hash = mem[r] /\ d.after_hash = Patched(r) /\ d.created_at = created_at[r]
      /\ created_at[r] \in Nat
  BY <1>1, TrailIs DEF IInv, TypeOK
<1>3. /\ row'[t] = Flushed(row[t], mem[r], Patched(r))
      /\ ~Live(r)'
      /\ \A q \in Requests : q # r => /\ pc'[q] = pc[q] /\ mem'[q] = mem[q]
                                      /\ tenant'[q] = tenant[q] /\ created_at'[q] = created_at[q]
  BY DEF CommitPatch, Close, IInv, TypeOK, Live
<1>4. \A q \in Requests : Live(q)' /\ tenant'[q] = t => q # r /\ Live(q) /\ HasRead(q, t)
  BY <1>1, <1>3 DEF Live, Clean
<1>5. d \notin Changes(t)
  BY <1>1, <1>2 DEF IInv, Stamped, Changes
<1>6. HasRead(r, t)
  BY <1>1 DEF Clean
<1> HIDE DEF d
<1>7. CASE mem[r] = Patched(r)
  <2>1. Changes(t)' = Changes(t)
    BY <1>7, CommitAddsChange
  <2>2. row'[t] = row[t]
    BY <1>2, <1>3, <1>7, FlushedUnchanged
  <2>3. Clean(t)'
    BY <1>3, <1>4, <2>1, <2>2 DEF Clean, HasRead, Newest
  <2>4. QED
    BY <2>3
<1>8. CASE mem[r] # Patched(r) /\ \E e \in Changes(t) : mem[r] = e.before_hash
  <2>1. Changes(t)' = Changes(t) \cup {d}
    BY <1>8, CommitAddsChange DEF d
  <2>2. PICK e \in Changes(t) : mem[r] = e.before_hash
    BY <1>8
  <2>3. d # e /\ d.before_hash = e.before_hash
    BY <1>2, <1>5, <2>2
  <2>4. QED
    BY <2>1, <2>3 DEF Forked
<1>9. CASE mem[r] # Patched(r) /\ ~\E e \in Changes(t) : mem[r] = e.before_hash
  <2>1. Changes(t)' = Changes(t) \cup {d}
    BY <1>9, CommitAddsChange DEF d
  <2>2. mem[r] = row[t] /\ \A e \in Changes(t) : e.created_at < d.created_at
    BY <1>1, <1>2, <1>6, <1>9 DEF HasRead
  <2>3. row'[t] = StoredRow(d.after_hash)
    BY <1>2, <1>3, <2>2, FlushedWhereRead
  <2>4. \A e \in Changes(t)' : Newest(t, e)' => e = d
    <3>1. \A e \in Changes(t) : e.created_at \in Nat
      BY AuditTypes DEF IInv
    <3>2. QED
      BY <1>2, <2>1, <2>2, <3>1 DEF Newest
  <2>5. \A q \in Requests : Live(q)' /\ tenant'[q] = t => HasRead(q, t)'
    <3>1. SUFFICES ASSUME NEW q \in Requests, Live(q)', tenant'[q] = t
                   PROVE  \E e \in Changes(t)' : mem'[q] = e.before_hash
      BY DEF HasRead
    <3>2. \/ \E e \in Changes(t) : mem[q] = e.before_hash
          \/ mem[q] = row[t]
      BY <1>4, <3>1 DEF HasRead
    <3>3. mem'[q] = mem[q]
      BY <1>3, <1>4, <3>1
    <3>4. QED
      BY <1>2, <2>1, <2>2, <3>2, <3>3
  <2>6. QED
    BY <2>3, <2>4, <2>5 DEF Clean
<1>10. QED
  BY <1>7, <1>8, <1>9

LEMMA ForksStay ==
  ASSUME NEW t \in Tenants, Forked(t), Changes(t) \subseteq Changes(t)'
  PROVE  Forked(t)'
  BY DEF Forked

\* The settings and the trail of a tenant stay, and so does what is known of
\* the open patches.
LEMMA CleanFrame ==
  ASSUME NEW t \in Tenants, Clean(t), row'[t] = row[t], Changes(t)' = Changes(t),
         \A q \in Requests : Live(q)' /\ tenant'[q] = t =>
           \/ /\ Live(q) /\ tenant[q] = t /\ pc'[q] = pc[q]
              /\ mem'[q] = mem[q] /\ created_at'[q] = created_at[q]
           \/ HasRead(q, t)'
  PROVE  Clean(t)'
<1>1. \A q \in Requests : Live(q)' /\ tenant'[q] = t => HasRead(q, t)'
  BY DEF Clean, HasRead
<1>2. QED
  BY <1>1 DEF Clean, Newest

LEMMA StepForks ==
  ASSUME IInv, Next, NEW t \in Tenants
  PROVE  Forked(t)' \/ Clean(t)'
<1>1. Forked(t) \/ Clean(t)
  BY DEF IInv
<1>2. ASSUME NEW u \in Tenants, NEW n \in Names, CreateTenant(u, n)
      PROVE  Forked(t)' \/ Clean(t)'
  <2>1. Changes(t)' = Changes(t)
    BY <1>2, OthersKeepChanges
  <2>2. CASE t = u
    <3>1. Changes(t)' = {}
      BY <1>2, <2>1, <2>2 DEF CreateTenant, IInv, Untold
    <3>2. \A q \in Requests : ~(Live(q)' /\ tenant'[q] = t)
      BY <1>2, <2>2 DEF CreateTenant, session, IInv, Addressed, Live
    <3>3. QED
      BY <3>1, <3>2 DEF Clean
  <2>3. CASE t # u
    <3>1. row'[t] = row[t]
      BY <1>2, <2>3 DEF CreateTenant, IInv, TypeOK
    <3>2. \A q \in Requests : /\ pc'[q] = pc[q] /\ mem'[q] = mem[q]
                              /\ tenant'[q] = tenant[q] /\ created_at'[q] = created_at[q]
      BY <1>2 DEF CreateTenant, session
    <3>3. QED
      BY <1>1, <2>1, <3>1, <3>2, CleanFrame, ForksStay DEF Live
  <2>4. QED
    BY <2>2, <2>3
<1>3. ASSUME NEW r \in Requests, NEW u \in Tenants, NEW doc \in Patches, LoadTenant(r, u, doc)
      PROVE  Forked(t)' \/ Clean(t)'
  <2>1. Changes(t)' = Changes(t) /\ row' = row
    BY <1>3, OthersKeepChanges DEF LoadTenant
  <2>2. u = t => HasRead(r, t)'
    BY <1>3, <2>1 DEF LoadTenant, HasRead, IInv, TypeOK
  <2>3. tenant'[r] = u
    BY <1>3 DEF LoadTenant, IInv, TypeOK
  <2>4. \A q \in Requests : q # r => /\ pc'[q] = pc[q] /\ mem'[q] = mem[q]
                                     /\ tenant'[q] = tenant[q] /\ created_at'[q] = created_at[q]
    BY <1>3 DEF LoadTenant, IInv, TypeOK
  <2>5. QED
    BY <1>1, <2>1, <2>2, <2>3, <2>4, CleanFrame, ForksStay DEF Live
<1>4. ASSUME NEW r \in Requests, InsertAudit(r)
      PROVE  Forked(t)' \/ Clean(t)'
  <2>1. Changes(t)' = Changes(t) /\ row' = row
    BY <1>4, OthersKeepChanges DEF InsertAudit
  <2>2. /\ Live(r) /\ created_at'[r] = clock /\ mem'[r] = mem[r] /\ tenant'[r] = tenant[r]
        /\ pc[r] = "insert"
    BY <1>4 DEF InsertAudit, Live, IInv, TypeOK
  <2>3. \A e \in Changes(t) : e.created_at < clock
    BY DEF IInv, Changes
  <2>4. HasRead(r, t) => HasRead(r, t)'
    BY <2>1, <2>2, <2>3 DEF HasRead
  <2>5. \A q \in Requests : q # r => /\ pc'[q] = pc[q] /\ mem'[q] = mem[q]
                                     /\ tenant'[q] = tenant[q] /\ created_at'[q] = created_at[q]
    BY <1>4 DEF InsertAudit, IInv, TypeOK
  <2>6. Clean(t) /\ tenant'[r] = t => HasRead(r, t)'
    BY <2>2, <2>4 DEF Clean
  <2>7. QED
    BY <1>1, <2>1, <2>5, <2>6, CleanFrame, ForksStay DEF Live
<1>5. ASSUME NEW r \in Requests, CommitPatch(r)
      PROVE  Forked(t)' \/ Clean(t)'
  <2>1. CASE t = tenant[r]
    <3>1. Changes(t) \subseteq Changes(t)'
      BY <1>5, CommitAddsChange
    <3>2. QED
      BY <1>1, <1>5, <2>1, <3>1, CommitKeepsClean, ForksStay
  <2>2. CASE t # tenant[r]
    <3>1. Changes(t)' = Changes(t)
      BY <1>5, <2>2, CommitAddsChange
    <3>2. row'[t] = row[t] /\ ~Live(r)'
      BY <1>5, <2>2 DEF CommitPatch, Close, IInv, TypeOK, Live
    <3>3. \A q \in Requests : q # r => /\ pc'[q] = pc[q] /\ mem'[q] = mem[q]
                                       /\ tenant'[q] = tenant[q] /\ created_at'[q] = created_at[q]
      BY <1>5 DEF CommitPatch, Close, IInv, TypeOK
    <3>4. QED
      BY <1>1, <3>1, <3>2, <3>3, CleanFrame, ForksStay DEF Live
  <2>3. QED
    BY <2>1, <2>2
<1>6. ASSUME NEW r \in Requests, CrashPatch(r)
      PROVE  Forked(t)' \/ Clean(t)'
  <2>1. Changes(t)' = Changes(t) /\ row' = row
    BY <1>6, OthersKeepChanges DEF CrashPatch
  <2>2. ~Live(r)'
    BY <1>6 DEF CrashPatch, Close, IInv, TypeOK, Live
  <2>3. \A q \in Requests : q # r => /\ pc'[q] = pc[q] /\ mem'[q] = mem[q]
                                     /\ tenant'[q] = tenant[q] /\ created_at'[q] = created_at[q]
    BY <1>6 DEF CrashPatch, Close, IInv, TypeOK
  <2>4. QED
    BY <1>1, <2>1, <2>2, <2>3, CleanFrame, ForksStay DEF Live
<1>7. QED
  BY <1>2, <1>3, <1>4, <1>5, <1>6 DEF Next

LEMMA StepIInv == IInv /\ [Next]_vars => IInv'
<1>1. ASSUME IInv, Next
      PROVE  IInv'
  BY <1>1, StepTypeOK, StepStamped, StepAddressed, StepUntold, StepForks DEF IInv
<1>2. ASSUME IInv, UNCHANGED vars
      PROVE  IInv'
  BY <1>2 DEF vars, IInv, TypeOK, Addressed, Stamped, IsStored, Live, Untold, Forked, Clean,
              HasRead, Newest, Changes
<1>3. QED
  BY <1>1, <1>2

LEMMA InvariantHolds == Spec => []IInv
  BY InitIInv, StepIInv, PTL DEF Spec

-----------------------------------------------------------------------------
\* Every variable keeps its type, for any tenants, values and bodies.
THEOREM TypeCorrectness == Spec => []TypeOK
<1>1. IInv => TypeOK
  BY DEF IInv
<1>2. QED
  BY <1>1, InvariantHolds, PTL

\* A trail of which no two rows begin with the same hash ends with the settings
\* in force, however patches overlap and in whatever order they commit.
THEOREM OverlapShows == Spec => []TrailEndsAtRow
<1>1. IInv => TrailEndsAtRow
  <2>1. SUFFICES ASSUME IInv, NEW t \in Tenants,
                        \A d, e \in Changes(t) : d.before_hash = e.before_hash => d = e,
                        NEW e \in Changes(t), Newest(t, e)
                 PROVE  row[t] = [c \in Columns |-> Stored[e.after_hash[c]]]
    BY DEF TrailEndsAtRow
  <2>2. Clean(t)
    BY <2>1 DEF IInv, Forked
  <2>3. QED
    BY <2>1, <2>2 DEF Clean, StoredRow
<1>2. QED
  BY <1>1, InvariantHolds, PTL

\* A patch that did not read that the kill switch was on never turns it off.
THEOREM NoStaleLift == Spec => KillLiftedKnowingly
<1> DEFINE Knowingly ==
      \A t \in Tenants :
        row[t]["kill_switch"] # 0 /\ row'[t]["kill_switch"] = 0 =>
          \E r \in Requests : /\ pc[r] = "update" /\ pc'[r] = "ok"
                              /\ tenant[r] = t
                              /\ "kill_switch" \in DOMAIN patch[r]
                              /\ mem[r]["kill_switch"] # 0
<1>1. IInv /\ [Next]_vars => [Knowingly]_vars
  <2>1. SUFFICES ASSUME IInv, Next, NEW t \in Tenants,
                        row[t]["kill_switch"] # 0, row'[t]["kill_switch"] = 0
                 PROVE  \E r \in Requests : /\ pc[r] = "update" /\ pc'[r] = "ok"
                                            /\ tenant[r] = t
                                            /\ "kill_switch" \in DOMAIN patch[r]
                                            /\ mem[r]["kill_switch"] # 0
    OBVIOUS
  <2>2. /\ row \in [Tenants -> Row] /\ "kill_switch" \in Columns
        /\ pc \in [Requests -> {"idle", "insert", "update", "ok", "failed"}]
    BY <2>1 DEF IInv, TypeOK, Columns
  <2>3. ASSUME NEW u \in Tenants, NEW n \in Names, CreateTenant(u, n)
        PROVE  FALSE
    <3>1. u = t
      BY <2>1, <2>2, <2>3 DEF CreateTenant
    <3>2. row[t] = Defaults
      BY <2>1, <2>3, <3>1 DEF CreateTenant, IInv, Untold
    <3>3. QED
      BY <2>1, <2>2, <3>2 DEF Defaults
  <2>4. PICK r \in Requests : CommitPatch(r)
    BY <2>1, <2>3 DEF Next, LoadTenant, InsertAudit, CrashPatch
  <2>5. tenant[r] = t
    BY <2>1, <2>2, <2>4 DEF CommitPatch
  <2>6. row'[t]["kill_switch"] = Flushed(row[t], mem[r], Patched(r))["kill_switch"]
    BY <2>2, <2>4, <2>5 DEF CommitPatch
  <2>7. /\ Stored[Patched(r)["kill_switch"]] # mem[r]["kill_switch"]
        /\ Stored[Patched(r)["kill_switch"]] = 0
    BY <2>1, <2>2, <2>6 DEF Flushed
  <2>8. IsStored(mem[r])
    BY <2>1, <2>4 DEF IInv, Addressed, Live, CommitPatch
  <2>9. "kill_switch" \in DOMAIN patch[r]
    BY <2>2, <2>7, <2>8 DEF Patched, IsStored
  <2>10. pc[r] = "update" /\ pc'[r] = "ok"
    BY <2>2, <2>4 DEF CommitPatch, Close
  <2>11. QED
    BY <2>5, <2>7, <2>9, <2>10
<1>2. QED
  BY <1>1, InvariantHolds, PTL DEF Spec, KillLiftedKnowingly
=============================================================================
