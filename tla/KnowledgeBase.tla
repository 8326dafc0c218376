----------------------------- MODULE KnowledgeBase -----------------------------
(***************************************************************************)
(* Sources, snapshots and retrieval.  Every request is a coroutine with a  *)
(* transaction of its own; a step is one statement, the last one with the  *)
(* commit.  No table here has a UNIQUE constraint and no row is updated or *)
(* deleted, so nothing waits: what a request reads may only be out of      *)
(* date.  Rows are numbered in the order of their commits.                 *)
(***************************************************************************)
EXTENDS Integers, Sequences, FiniteSets, FiniteSetsExt

CONSTANTS Requests, Tenants, Projects,
          Contents,      \* what a source may say
          Words,
          Queries,       \* what may be asked, sets of words
          Text,          \* [Contents -> Seq(SUBSET Words)]: the words of its chunks
          ReadLimit,     \* stmt.limit(1000)
          ContextK,      \* RetrievalPlan.context_k
          MaxSources, MaxSnapshots

ASSUME KnowledgeAssumption ==
  /\ Queries \subseteq SUBSET Words /\ \A q \in Queries : IsFiniteSet(q)
  /\ Text \in [Contents -> Seq(SUBSET Words)]
  /\ ReadLimit \in Nat /\ ContextK \in Nat \ {0}
  /\ MaxSources \in Nat /\ MaxSnapshots \in Nat

VARIABLES sources,    \* the rows of knowledge_sources
          chunks,     \* the rows of knowledge_chunks
          snapshots,  \* the rows of knowledge_snapshots
          job         \* where each request stands, and its answer
vars == <<sources, chunks, snapshots, job>>

\* No code reads the project of a source.
Source == [tenant : Tenants, content : Contents]
Chunk == [tenant : Tenants, source : 1 .. MaxSources, text : SUBSET Words, locator : Nat \ {0}]
Snapshot == [tenant : Tenants, project : Projects, version : Nat \ {0},
             source_ids : SUBSET (1 .. MaxSources)]

Idle == [op |-> "idle"]

Job ==
  {Idle}
    \cup [op : {"register"}, row : Source]
    \cup [op : {"registered"}, row : Source, source : 1 .. MaxSources]
    \cup [op : {"number"}, tenant : Tenants, project : Projects, source_ids : SUBSET (1 .. MaxSources)]
    \cup [op : {"publish"}, row : Snapshot]
    \cup [op : {"search"}, tenant : Tenants, snapshot : 1 .. MaxSnapshots, query : Queries]
    \cup [op : {"found"}, tenant : Tenants, snapshot : 1 .. MaxSnapshots, query : Queries,
          citations : SUBSET Chunk]

Init == /\ sources = <<>> /\ chunks = {} /\ snapshots = <<>>
        /\ job = [r \in Requests |-> Idle]

Becomes(r, j) == job' = [job EXCEPT ![r] = j]

-----------------------------------------------------------------------------
\* A mutant of Same: nothing is looked up.
Unchecked(row) == {}

\* The tenant's sources with the same checksum.
Same(row) ==
  {s \in DOMAIN sources : sources[s].tenant = row.tenant /\ sources[s].content = row.content}

\* add_source up to its first SELECT: a known content is answered with the
\* source that has it, whatever its project.
LookUp(r) ==
  /\ job[r] = Idle
  /\ \E row \in Source :
       \/ Same(row) = {} /\ Becomes(r, [op |-> "register", row |-> row])
       \/ \E s \in Same(row) : Becomes(r, [op |-> "registered", row |-> row, source |-> s])
  /\ UNCHANGED <<sources, chunks, snapshots>>

\* The chunks of a source, with the locators chunk:1, chunk:2 and so on.
ChunksOf(s, row) ==
  {[tenant |-> row.tenant, source |-> s, text |-> Text[row.content][i], locator |-> i] :
   i \in DOMAIN Text[row.content]}

\* The rest of add_source: the row and its chunks, committed together.
AddSource(r) ==
  /\ job[r].op = "register"
  /\ Len(sources) < MaxSources
  /\ LET s == Len(sources) + 1  row == job[r].row IN
       /\ sources' = Append(sources, row)
       /\ chunks' = chunks \cup ChunksOf(s, row)
       /\ Becomes(r, [op |-> "registered", row |-> row, source |-> s])
  /\ UNCHANGED snapshots

-----------------------------------------------------------------------------
Owned(tenant) == {s \in DOMAIN sources : sources[s].tenant = tenant}

\* snapshot up to the check of its sources; an unknown one is refused.
CheckSources(r) ==
  /\ job[r] = Idle
  /\ \E t \in Tenants, p \in Projects, ids \in SUBSET (1 .. MaxSources) :
       IF ids \subseteq Owned(t)
         THEN Becomes(r, [op |-> "number", tenant |-> t, project |-> p, source_ids |-> ids])
         ELSE Becomes(r, Idle)
  /\ UNCHANGED <<sources, chunks, snapshots>>

\* A mutant of Versions: those of all projects of the tenant.
VersionsOfTenant(tenant, project) ==
  {snapshots[s].version : s \in {s \in DOMAIN snapshots : snapshots[s].tenant = tenant}}

Versions(tenant, project) ==
  {snapshots[s].version :
   s \in {s \in DOMAIN snapshots : snapshots[s].tenant = tenant /\ snapshots[s].project = project}}

\* v is max(version) + 1, and 1 for the first snapshot of a project.
IsNext(v, S) == v - 1 \in S \cup {0} /\ \A x \in S : x < v

\* The number of a new snapshot.
ReadVersion(r) ==
  /\ job[r].op = "number"
  /\ LET j == job[r] IN
       \E v \in 1 .. Len(snapshots) + 1 :
         /\ IsNext(v, Versions(j.tenant, j.project))
         /\ Becomes(r, [op |-> "publish",
                        row |-> [tenant |-> j.tenant, project |-> j.project, version |-> v,
                                 source_ids |-> j.source_ids]])
  /\ UNCHANGED <<sources, chunks, snapshots>>

\* The row of the snapshot and the commit.
Publish(r) ==
  /\ job[r].op = "publish"
  /\ Len(snapshots) < MaxSnapshots
  /\ snapshots' = Append(snapshots, job[r].row)
  /\ Becomes(r, Idle)
  /\ UNCHANGED <<sources, chunks>>

-----------------------------------------------------------------------------
\* retrieve_for_conversation up to its first SELECT; a snapshot that is not
\* there, or not the tenant's, has no citations.
FindSnapshot(r) ==
  /\ job[r] = Idle
  /\ \E t \in Tenants, s \in 1 .. MaxSnapshots, q \in Queries :
       IF s \in DOMAIN snapshots /\ snapshots[s].tenant = t
         THEN Becomes(r, [op |-> "search", tenant |-> t, snapshot |-> s, query |-> q])
         ELSE Becomes(r, Idle)
  /\ UNCHANGED <<sources, chunks, snapshots>>

\* A mutant of Matching: the tenant is left to the sources of the snapshot.
MatchingSources(tenant, ids) == {c \in chunks : ids # {} => c.source \in ids}

\* A mutant of Matching: the snapshot is left out.
MatchingTenant(tenant, ids) == {c \in chunks : c.tenant = tenant}

\* The WHERE clause: an empty list of sources is no filter.
Matching(tenant, ids) ==
  {c \in chunks : c.tenant = tenant /\ (ids # {} => c.source \in ids)}

\* lexical_score, times the number of words of the query.
Score(query, c) == Cardinality(query \cap c.text)

LesserOf(a, b) == IF a < b THEN a ELSE b

\* A mutant of IsAnswer: the chunks are cut at context_k before they are ranked.
CutFirst(all, read, top, query) ==
  /\ read \in kSubset(LesserOf(ContextK, Cardinality(all)), all)
  /\ top = read

\* read is cut at ReadLimit in no order, top is what sorting by score leaves
\* of it, in any order of equals, and chunks without a common word are dropped.
IsAnswer(all, read, top, query) ==
  /\ read \in kSubset(LesserOf(ReadLimit, Cardinality(all)), all)
  /\ top \in kSubset(LesserOf(ContextK, Cardinality(read)), read)
  /\ \A c \in top, d \in read \ top : Score(query, c) >= Score(query, d)

\* The chunks, their ranking and the citations.
Search(r) ==
  /\ job[r].op = "search"
  /\ LET j == job[r]
         all == Matching(j.tenant, snapshots[j.snapshot].source_ids) IN
       \E read \in SUBSET all : \E top \in SUBSET read :
         /\ IsAnswer(all, read, top, j.query)
         /\ Becomes(r, [op |-> "found", tenant |-> j.tenant, snapshot |-> j.snapshot,
                        query |-> j.query, citations |-> {c \in top : Score(j.query, c) > 0}])
  /\ UNCHANGED <<sources, chunks, snapshots>>

Open(r) == job[r].op \in {"register", "number", "publish", "search"}

\* The process dies, or the client goes away: nothing was committed.
Crash(r) == Open(r) /\ Becomes(r, Idle) /\ UNCHANGED <<sources, chunks, snapshots>>

\* The client of an answered request sends the next one.
Proceed(r) == ~Open(r) /\ job[r] # Idle /\ Becomes(r, Idle) /\ UNCHANGED <<sources, chunks, snapshots>>

Next ==
  \E r \in Requests :
    \/ LookUp(r) \/ AddSource(r)
    \/ CheckSources(r) \/ ReadVersion(r) \/ Publish(r)
    \/ FindSnapshot(r) \/ Search(r)
    \/ Crash(r) \/ Proceed(r)

Spec == Init /\ [][Next]_vars
-----------------------------------------------------------------------------
\* Type invariant.
TypeOK == /\ sources \in Seq(Source) /\ Len(sources) <= MaxSources
          /\ chunks \subseteq Chunk
          /\ snapshots \in Seq(Snapshot) /\ Len(snapshots) <= MaxSnapshots
          /\ job \in [Requests -> Job]

Answered(r, op) == job[r].op = op

\* Registrations of a content of a tenant that are under way.
Pending(t, c) ==
  {r \in Requests : Answered(r, "register") /\ job[r].row.tenant = t /\ job[r].row.content = c}

Copies(t, c) == {s \in DOMAIN sources : sources[s].tenant = t /\ sources[s].content = c}

\* Two registrations that overlap may both insert their content, since nothing
\* but the SELECT at their head looks for it; once a copy is committed no
\* later one can, and the copies are bounded by those already under way
\* (routes.py:148, models.py:115 has no UNIQUE).
DuplicatesStop ==
  [][\A t \in Tenants, c \in Contents :
       Copies(t, c) # {} =>
         Cardinality(Copies(t, c)') + Cardinality(Pending(t, c)')
           <= Cardinality(Copies(t, c)) + Cardinality(Pending(t, c))]_vars

\* The sources of a snapshot exist and are its tenant's, although they were
\* looked for in an earlier statement than the one that inserts it.
ManifestsAreOwn ==
  \A s \in DOMAIN snapshots : \A i \in snapshots[s].source_ids :
    i \in DOMAIN sources /\ sources[i].tenant = snapshots[s].tenant

\* Racing snapshots may get the same version, but none is ever left out.
VersionsGapless ==
  \A s \in DOMAIN snapshots :
    snapshots[s].version > 1 =>
      \E q \in DOMAIN snapshots :
        /\ snapshots[q].tenant = snapshots[s].tenant
        /\ snapshots[q].project = snapshots[s].project
        /\ snapshots[q].version = snapshots[s].version - 1

\* What is cited belongs to the tenant that asked, in the row of the chunk and in
\* that of its source, and to the snapshot if that names its sources
\* (service.py:28-32).
RetrievalIsConfined ==
  \A r \in Requests : Answered(r, "found") =>
    LET j == job[r]  ids == snapshots[j.snapshot].source_ids IN
      /\ snapshots[j.snapshot].tenant = j.tenant
      /\ \A c \in j.citations :
           /\ c.tenant = j.tenant /\ sources[c.source].tenant = j.tenant
           /\ ids # {} => c.source \in ids

\* The chunks a snapshot that names its sources stands for.
Content(s) == {c \in chunks : c.source \in snapshots[s].source_ids}

\* The scores of the citations, with how often each occurs.
Profile(r) ==
  [n \in 1 .. Cardinality(Words) |->
     Cardinality({c \in job[r].citations : Score(job[r].query, c) = n})]

SameQuestion(r, q) ==
  /\ Answered(r, "found") /\ Answered(q, "found")
  /\ job[r].snapshot = job[q].snapshot /\ job[r].query = job[q].query

\* A snapshot that names its sources and whose chunks fit the LIMIT is what it
\* claims to be: the same question gets citations of the same scores whenever
\* it is asked, whatever was registered in between (routes.py:168,
\* service.py:30-35).
RetrievalIsRepeatable ==
  \A r, q \in Requests :
    /\ SameQuestion(r, q)
    /\ snapshots[job[r].snapshot].source_ids # {}
    /\ Cardinality(Content(job[r].snapshot)) <= ReadLimit
    => Profile(r) = Profile(q)

\* In such a snapshot nothing that was left out is a better match than what was
\* cited, and something is left out only when there are ContextK citations
\* (service.py:33-36).
BestAreCited ==
  \A r \in Requests :
    LET j == job[r] IN
    /\ Answered(r, "found")
    /\ snapshots[j.snapshot].source_ids # {}
    /\ Cardinality(Content(j.snapshot)) <= ReadLimit
    => \A d \in Content(j.snapshot) \ j.citations : Score(j.query, d) > 0 =>
         /\ Cardinality(j.citations) = ContextK
         /\ \A c \in j.citations : Score(j.query, c) >= Score(j.query, d)

=============================================================================
