-------------------------- MODULE KnowledgeBaseProofs --------------------------
(***************************************************************************)
(* KnowledgeBase for any clients, tenants, contents and queries; after it,  *)
(* ChunkText for texts of any length and any sizes of chunk and overlap    *)
(* that satisfy SizeAssumption.                                            *)
(*                                                                         *)
(* IInv says that what a request has read stays true, since rows are only  *)
(* added.  AInv adds what an answer is: the chunks of a snapshot never     *)
(* change (ContentStays), so an answer found once stays a top of the same  *)
(* set, and how many chunks of a top reach a score follows from the set    *)
(* alone (TopCounts), however equals were ordered.                         *)
(***************************************************************************)
EXTENDS KnowledgeBase, ChunkText, FiniteSetTheorems, TLAPS

-----------------------------------------------------------------------------
\* A chunk is its source's tenant's.
ChunksAreOwn ==
  \A c \in chunks : c.source \in DOMAIN sources /\ sources[c.source].tenant = c.tenant

OwnSources(srcs, ids, tenant) == \A s \in ids : s \in DOMAIN srcs /\ srcs[s].tenant = tenant

\* A version is the first one of its project, or another one's successor.
Follows(snaps, v, tenant, project) ==
  v > 1 => \E q \in DOMAIN snaps : /\ snaps[q].tenant = tenant /\ snaps[q].project = project
                                   /\ snaps[q].version = v - 1

\* What a request has read or cited, in tables srcs and snaps.
StillTrue(srcs, snaps, j) ==
  /\ j.op = "number" => OwnSources(srcs, j.source_ids, j.tenant)
  /\ j.op = "publish" => /\ OwnSources(srcs, j.row.source_ids, j.row.tenant)
                         /\ Follows(snaps, j.row.version, j.row.tenant, j.row.project)
  /\ j.op \in {"search", "found"} =>
       j.snapshot \in DOMAIN snaps /\ snaps[j.snapshot].tenant = j.tenant
  /\ j.op = "found" =>
       \A c \in j.citations :
         /\ c.tenant = j.tenant
         /\ c.source \in DOMAIN srcs /\ srcs[c.source].tenant = j.tenant
         /\ snaps[j.snapshot].source_ids # {} => c.source \in snaps[j.snapshot].source_ids

\* It stays true, since no row is changed.
ReadsStayTrue == \A r \in Requests : StillTrue(sources, snapshots, job[r])

IInv == TypeOK /\ ChunksAreOwn /\ ReadsStayTrue /\ ManifestsAreOwn /\ VersionsGapless

-----------------------------------------------------------------------------
\* The kinds of jobs.
LEMMA JobKinds ==
  ASSUME NEW j \in Job
  PROVE  /\ j.op \in {"idle", "register", "registered", "number", "publish", "search", "found"}
         /\ j.op = "idle" => j = Idle
         /\ j.op = "register" => j.row \in Source
         /\ j.op = "number" => /\ j.tenant \in Tenants /\ j.project \in Projects
                               /\ j.source_ids \in SUBSET (1 .. MaxSources)
         /\ j.op = "publish" => j.row \in Snapshot
         /\ j.op \in {"search", "found"} => /\ j.tenant \in Tenants /\ j.query \in Queries
                                            /\ j.snapshot \in 1 .. MaxSnapshots
         /\ j.op = "found" => j.citations \in SUBSET Chunk
  BY DEF Job, Idle

LEMMA InitIInv == Init => IInv
<1> SUFFICES ASSUME Init PROVE IInv
  OBVIOUS
<1>1. \A r \in Requests : job[r] = Idle /\ job[r].op = "idle"
  BY DEF Init, Idle
<1>2. TypeOK
  BY KnowledgeAssumption DEF Init, TypeOK, Job
<1>3. ChunksAreOwn /\ ManifestsAreOwn /\ VersionsGapless
  BY DEF Init, ChunksAreOwn, ManifestsAreOwn, VersionsGapless
<1>4. ReadsStayTrue
  BY <1>1 DEF ReadsStayTrue, StillTrue
<1>5. QED
  BY <1>2, <1>3, <1>4 DEF IInv

-----------------------------------------------------------------------------
\* Rows are kept.
Keeps(old, new) == \A s \in DOMAIN old : s \in DOMAIN new /\ new[s] = old[s]

LEMMA GrowthKeepsTruth ==
  ASSUME NEW srcs, NEW snaps, NEW srcs2, NEW snaps2, Keeps(srcs, srcs2), Keeps(snaps, snaps2),
         NEW j, StillTrue(srcs, snaps, j)
  PROVE  StillTrue(srcs2, snaps2, j)
<1>1. \A ids, t : OwnSources(srcs, ids, t) => OwnSources(srcs2, ids, t)
  BY DEF Keeps, OwnSources
<1>2. \A v, t, p : Follows(snaps, v, t, p) => Follows(snaps2, v, t, p)
  BY DEF Keeps, Follows
<1>3. j.op \in {"search", "found"} =>
        j.snapshot \in DOMAIN snaps2 /\ snaps2[j.snapshot] = snaps[j.snapshot]
  BY DEF StillTrue, Keeps
<1>4. j.op = "found" => \A c \in j.citations :
        c.source \in DOMAIN srcs2 /\ srcs2[c.source] = srcs[c.source]
  BY DEF StillTrue, Keeps
<1>5. QED
  BY <1>1, <1>2, <1>3, <1>4 DEF StillTrue

\* What a step of one request has to establish.
LEMMA OneJobChanges ==
  ASSUME IInv, Keeps(sources, sources'), Keeps(snapshots, snapshots'),
         NEW r \in Requests, NEW j \in Job, Becomes(r, j), StillTrue(sources', snapshots', j)
  PROVE  job' \in [Requests -> Job] /\ ReadsStayTrue'
<1>1. job \in [Requests -> Job] /\ job' = [job EXCEPT ![r] = j]
  BY DEF IInv, TypeOK, Becomes
<1>2. job' \in [Requests -> Job]
  BY <1>1
<1>3. ASSUME NEW q \in Requests PROVE StillTrue(sources', snapshots', job'[q])
  <2>1. CASE q = r
    BY <1>1, <2>1
  <2>2. CASE q # r
    <3>1. job'[q] = job[q] /\ StillTrue(sources, snapshots, job[q])
      BY <1>1, <2>2 DEF IInv, ReadsStayTrue
    <3>2. QED
      BY <3>1, GrowthKeepsTruth
  <2>3. QED
    BY <2>1, <2>2
<1>4. QED
  BY <1>2, <1>3 DEF ReadsStayTrue

\* A step that only reads.
LEMMA ReadIInv ==
  ASSUME IInv, UNCHANGED <<sources, chunks, snapshots>>,
         NEW r \in Requests, NEW j \in Job, Becomes(r, j), StillTrue(sources, snapshots, j)
  PROVE  IInv'
<1>1. Keeps(sources, sources') /\ Keeps(snapshots, snapshots')
  BY DEF Keeps
<1>2. job' \in [Requests -> Job] /\ ReadsStayTrue'
  BY <1>1, OneJobChanges
<1>3. TypeOK' /\ ChunksAreOwn' /\ ManifestsAreOwn' /\ VersionsGapless'
  BY <1>2 DEF IInv, TypeOK, ChunksAreOwn, ManifestsAreOwn, VersionsGapless
<1>4. QED
  BY <1>2, <1>3 DEF IInv

LEMMA LookUpIInv == ASSUME IInv, NEW r \in Requests, LookUp(r) PROVE IInv'
<1>1. PICK row \in Source :
        \/ Same(row) = {} /\ Becomes(r, [op |-> "register", row |-> row])
        \/ \E s \in Same(row) : Becomes(r, [op |-> "registered", row |-> row, source |-> s])
  BY DEF LookUp
<1>2. UNCHANGED <<sources, chunks, snapshots>>
  BY DEF LookUp
<1>3. CASE Becomes(r, [op |-> "register", row |-> row])
  <2> DEFINE j == [op |-> "register", row |-> row]
  <2>1. j \in Job /\ StillTrue(sources, snapshots, j)
    BY DEF Job, StillTrue
  <2>2. QED
    BY <1>2, <1>3, <2>1, ReadIInv
<1>4. ASSUME NEW s \in Same(row), Becomes(r, [op |-> "registered", row |-> row, source |-> s])
      PROVE  IInv'
  <2> DEFINE j == [op |-> "registered", row |-> row, source |-> s]
  <2>1. s \in 1 .. MaxSources
    BY KnowledgeAssumption DEF IInv, TypeOK, Same
  <2>2. j \in Job /\ StillTrue(sources, snapshots, j)
    BY <2>1 DEF Job, StillTrue
  <2>3. QED
    BY <1>2, <1>4, <2>2, ReadIInv
<1>5. QED
  BY <1>1, <1>3, <1>4

LEMMA AddSourceIInv == ASSUME IInv, NEW r \in Requests, AddSource(r) PROVE IInv'
<1> DEFINE s == Len(sources) + 1
           row == job[r].row
           j == [op |-> "registered", row |-> row, source |-> s]
<1>1. /\ job[r] \in Job /\ job[r].op = "register"
      /\ sources \in Seq(Source) /\ chunks \subseteq Chunk
      /\ Len(sources) < MaxSources /\ sources' = Append(sources, row)
      /\ chunks' = chunks \cup ChunksOf(s, row)
      /\ Becomes(r, j) /\ snapshots' = snapshots
  BY DEF AddSource, IInv, TypeOK
<1>2. row \in Source /\ row.tenant \in Tenants /\ row.content \in Contents
  BY <1>1, JobKinds DEF Source
<1>3. s \in 1 .. MaxSources
  BY <1>1, KnowledgeAssumption
<1> HIDE DEF row
<1>4. /\ sources' \in Seq(Source) /\ Len(sources') = s
      /\ DOMAIN sources = 1 .. Len(sources) /\ DOMAIN sources' = 1 .. s
      /\ sources'[s] = row
      /\ \A q \in 1 .. Len(sources) : sources'[q] = sources[q]
  BY <1>1, <1>2
<1>5. Keeps(sources, sources') /\ Keeps(snapshots, snapshots')
  BY <1>1, <1>4 DEF Keeps
<1>6. j \in Job /\ StillTrue(sources', snapshots', j)
  BY <1>2, <1>3 DEF Job, StillTrue
<1>7. job' \in [Requests -> Job] /\ ReadsStayTrue'
  BY <1>1, <1>5, <1>6, OneJobChanges
<1>8. \A c \in ChunksOf(s, row) : c \in Chunk /\ c.tenant = row.tenant /\ c.source = s
  <2>1. Text[row.content] \in Seq(SUBSET Words)
    BY <1>2, KnowledgeAssumption
  <2>2. \A i \in DOMAIN Text[row.content] : i \in Nat \ {0} /\ Text[row.content][i] \in SUBSET Words
    BY <2>1
  <2>3. QED
    BY <1>2, <1>3, <2>2 DEF ChunksOf, Chunk
<1>9. TypeOK'
  BY <1>1, <1>3, <1>4, <1>7, <1>8 DEF IInv, TypeOK
<1>10. ChunksAreOwn'
  <2>1. \A c \in chunks : c.source \in DOMAIN sources' /\ sources'[c.source].tenant = c.tenant
    BY <1>5 DEF IInv, ChunksAreOwn, Keeps
  <2>2. s \in DOMAIN sources'
    BY <1>3, <1>4
  <2>3. QED
    BY <1>1, <1>4, <1>8, <2>1, <2>2 DEF ChunksAreOwn
<1>11. ManifestsAreOwn'
  BY <1>1, <1>5 DEF IInv, ManifestsAreOwn, Keeps
<1>12. VersionsGapless'
  BY <1>1 DEF IInv, VersionsGapless
<1>13. QED
  BY <1>7, <1>9, <1>10, <1>11, <1>12 DEF IInv

LEMMA CheckSourcesIInv == ASSUME IInv, NEW r \in Requests, CheckSources(r) PROVE IInv'
<1>1. PICK t \in Tenants, p \in Projects, ids \in SUBSET (1 .. MaxSources) :
        IF ids \subseteq Owned(t)
          THEN Becomes(r, [op |-> "number", tenant |-> t, project |-> p, source_ids |-> ids])
          ELSE Becomes(r, Idle)
  BY DEF CheckSources
<1>2. UNCHANGED <<sources, chunks, snapshots>>
  BY DEF CheckSources
<1>3. CASE ids \subseteq Owned(t)
  <2> DEFINE j == [op |-> "number", tenant |-> t, project |-> p, source_ids |-> ids]
  <2>1. OwnSources(sources, ids, t)
    BY <1>3 DEF Owned, OwnSources
  <2>2. j \in Job /\ StillTrue(sources, snapshots, j)
    BY <2>1 DEF Job, StillTrue
  <2>3. QED
    BY <1>1, <1>2, <1>3, <2>2, ReadIInv
<1>4. Idle \in Job /\ StillTrue(sources, snapshots, Idle)
  BY DEF Job, Idle, StillTrue
<1>5. QED
  BY <1>1, <1>2, <1>3, <1>4, ReadIInv

LEMMA ReadVersionIInv == ASSUME IInv, NEW r \in Requests, ReadVersion(r) PROVE IInv'
<1> DEFINE t == job[r].tenant
           p == job[r].project
           ids == job[r].source_ids
<1>1. /\ job[r] \in Job /\ job[r].op = "number" /\ StillTrue(sources, snapshots, job[r])
      /\ UNCHANGED <<sources, chunks, snapshots>>
  BY DEF ReadVersion, IInv, TypeOK, ReadsStayTrue
<1>2. t \in Tenants /\ p \in Projects /\ ids \in SUBSET (1 .. MaxSources)
  BY <1>1, JobKinds
<1>3. OwnSources(sources, ids, t)
  BY <1>1 DEF StillTrue
<1>4. PICK v \in 1 .. Len(snapshots) + 1 :
        /\ IsNext(v, Versions(t, p))
        /\ Becomes(r, [op |-> "publish",
                       row |-> [tenant |-> t, project |-> p, version |-> v, source_ids |-> ids]])
  BY DEF ReadVersion
<1> HIDE DEF t, p, ids
<1>5. v \in Nat \ {0}
  BY DEF IInv, TypeOK
<1>6. Follows(snapshots, v, t, p)
  BY <1>4, <1>5 DEF IsNext, Versions, Follows
<1> DEFINE row == [tenant |-> t, project |-> p, version |-> v, source_ids |-> ids]
           j == [op |-> "publish", row |-> row]
<1>7. row \in Snapshot
  BY <1>2, <1>5 DEF Snapshot
<1>8. j \in Job
  BY <1>7 DEF Job
<1>9. StillTrue(sources, snapshots, j)
  BY <1>3, <1>6 DEF StillTrue
<1>10. QED
  BY <1>1, <1>4, <1>8, <1>9, ReadIInv

LEMMA PublishIInv == ASSUME IInv, NEW r \in Requests, Publish(r) PROVE IInv'
<1> DEFINE row == job[r].row
           n == Len(snapshots)
<1>1. /\ job[r] \in Job /\ job[r].op = "publish" /\ StillTrue(sources, snapshots, job[r])
      /\ snapshots \in Seq(Snapshot) /\ n < MaxSnapshots /\ snapshots' = Append(snapshots, row)
      /\ Becomes(r, Idle) /\ sources' = sources /\ chunks' = chunks
  BY DEF Publish, IInv, TypeOK, ReadsStayTrue
<1>2. row \in Snapshot
  BY <1>1, JobKinds
<1>3. OwnSources(sources, row.source_ids, row.tenant)
      /\ Follows(snapshots, row.version, row.tenant, row.project)
  BY <1>1 DEF StillTrue
<1> HIDE DEF row
<1>4. /\ snapshots' \in Seq(Snapshot) /\ Len(snapshots') = n + 1 /\ n \in Nat
      /\ DOMAIN snapshots = 1 .. n /\ DOMAIN snapshots' = 1 .. n + 1
      /\ snapshots'[n + 1] = row
      /\ \A q \in 1 .. n : snapshots'[q] = snapshots[q]
  BY <1>1, <1>2
<1> HIDE DEF n
<1>5. Keeps(sources, sources') /\ Keeps(snapshots, snapshots')
  BY <1>1, <1>4 DEF Keeps
<1>6. Idle \in Job /\ StillTrue(sources', snapshots', Idle)
  BY DEF Job, Idle, StillTrue
<1>7. job' \in [Requests -> Job] /\ ReadsStayTrue'
  BY <1>1, <1>5, <1>6, OneJobChanges
<1>8. Len(snapshots') <= MaxSnapshots
  BY <1>1, <1>4, KnowledgeAssumption
<1>9. TypeOK'
  BY <1>1, <1>4, <1>7, <1>8 DEF IInv, TypeOK
<1>10. \A q \in DOMAIN snapshots' : (q \in DOMAIN snapshots /\ snapshots'[q] = snapshots[q]) \/ q = n + 1
  BY <1>4
<1>11. ChunksAreOwn' /\ ManifestsAreOwn'
  BY <1>1, <1>3, <1>4, <1>10 DEF IInv, ChunksAreOwn, ManifestsAreOwn, OwnSources
<1>12. VersionsGapless'
  <2>1. SUFFICES ASSUME NEW q \in DOMAIN snapshots', snapshots'[q].version > 1
                 PROVE  \E o \in DOMAIN snapshots' :
                          /\ snapshots'[o].tenant = snapshots'[q].tenant
                          /\ snapshots'[o].project = snapshots'[q].project
                          /\ snapshots'[o].version = snapshots'[q].version - 1
    BY DEF VersionsGapless
  <2>2. \E o \in DOMAIN snapshots :
          /\ snapshots[o].tenant = snapshots'[q].tenant
          /\ snapshots[o].project = snapshots'[q].project
          /\ snapshots[o].version = snapshots'[q].version - 1
    BY <1>3, <1>4, <1>10, <2>1 DEF IInv, VersionsGapless, Follows
  <2>3. QED
    BY <1>5, <2>2 DEF Keeps
<1>13. QED
  BY <1>7, <1>9, <1>11, <1>12 DEF IInv

LEMMA FindSnapshotIInv == ASSUME IInv, NEW r \in Requests, FindSnapshot(r) PROVE IInv'
<1>1. PICK t \in Tenants, s \in 1 .. MaxSnapshots, q \in Queries :
        IF s \in DOMAIN snapshots /\ snapshots[s].tenant = t
          THEN Becomes(r, [op |-> "search", tenant |-> t, snapshot |-> s, query |-> q])
          ELSE Becomes(r, Idle)
  BY DEF FindSnapshot
<1>2. UNCHANGED <<sources, chunks, snapshots>>
  BY DEF FindSnapshot
<1>3. CASE s \in DOMAIN snapshots /\ snapshots[s].tenant = t
  <2> DEFINE j == [op |-> "search", tenant |-> t, snapshot |-> s, query |-> q]
  <2>1. j \in Job /\ StillTrue(sources, snapshots, j)
    BY <1>3 DEF Job, StillTrue
  <2>2. QED
    BY <1>1, <1>2, <1>3, <2>1, ReadIInv
<1>4. Idle \in Job /\ StillTrue(sources, snapshots, Idle)
  BY DEF Job, Idle, StillTrue
<1>5. QED
  BY <1>1, <1>2, <1>3, <1>4, ReadIInv

\* What is cited was read with the tenant's and the snapshot's filter.
LEMMA SearchIInv == ASSUME IInv, NEW r \in Requests, Search(r) PROVE IInv'
<1> DEFINE t == job[r].tenant
           s == job[r].snapshot
           q == job[r].query
           all == Matching(t, snapshots[s].source_ids)
<1>1. /\ job[r] \in Job /\ job[r].op = "search" /\ StillTrue(sources, snapshots, job[r])
      /\ UNCHANGED <<sources, chunks, snapshots>> /\ chunks \subseteq Chunk
  BY DEF Search, IInv, TypeOK, ReadsStayTrue
<1>2. t \in Tenants /\ s \in 1 .. MaxSnapshots /\ q \in Queries
  BY <1>1, JobKinds
<1>3. s \in DOMAIN snapshots /\ snapshots[s].tenant = t
  BY <1>1 DEF StillTrue
<1>4. PICK top \in SUBSET all :
        Becomes(r, [op |-> "found", tenant |-> t, snapshot |-> s, query |-> q,
                    citations |-> {c \in top : Score(q, c) > 0}])
  BY DEF Search
<1> DEFINE cited == {c \in top : Score(q, c) > 0}
           j == [op |-> "found", tenant |-> t, snapshot |-> s, query |-> q, citations |-> cited]
<1>5. \A c \in cited : /\ c \in Chunk /\ c.tenant = t
                       /\ c.source \in DOMAIN sources /\ sources[c.source].tenant = t
                       /\ snapshots[s].source_ids # {} => c.source \in snapshots[s].source_ids
  BY <1>1 DEF Matching, IInv, ChunksAreOwn
<1> HIDE DEF t, s, q, cited
<1>6. j \in Job
  BY <1>2, <1>5 DEF Job
<1>7. StillTrue(sources, snapshots, j)
  BY <1>3, <1>5 DEF StillTrue
<1>8. Becomes(r, j)
  BY <1>4 DEF cited
<1>9. QED
  BY <1>1, <1>6, <1>7, <1>8, ReadIInv

LEMMA Invariance == Spec => []IInv
<1>1. Init => IInv
  BY InitIInv
<1>2. ASSUME IInv, NEW r \in Requests, Crash(r) \/ Proceed(r) PROVE IInv'
  <2>1. UNCHANGED <<sources, chunks, snapshots>> /\ Becomes(r, Idle)
    BY <1>2 DEF Crash, Proceed
  <2>2. Idle \in Job /\ StillTrue(sources, snapshots, Idle)
    BY DEF Job, Idle, StillTrue
  <2>3. QED
    BY <1>2, <2>1, <2>2, ReadIInv
<1>3. ASSUME IInv, Next PROVE IInv'
  BY <1>2, <1>3, LookUpIInv, AddSourceIInv, CheckSourcesIInv, ReadVersionIInv, PublishIInv,
     FindSnapshotIInv, SearchIInv DEF Next
<1>4. ASSUME IInv, UNCHANGED vars PROVE IInv'
  BY <1>4 DEF vars, IInv, TypeOK, ChunksAreOwn, ReadsStayTrue, ManifestsAreOwn, VersionsGapless
<1>5. QED
  BY <1>1, <1>3, <1>4, PTL DEF Spec

-----------------------------------------------------------------------------
\* The state keeps its types.
THEOREM TypeCorrectness == Spec => []TypeOK
<1>1. IInv => TypeOK
  BY DEF IInv
<1>2. QED
  BY <1>1, Invariance, PTL

\* A snapshot names existing sources of its own tenant only.
THEOREM ManifestsStayOwn == Spec => []ManifestsAreOwn
<1>1. IInv => ManifestsAreOwn
  BY DEF IInv
<1>2. QED
  BY <1>1, Invariance, PTL

\* Snapshots may share a version, but leave none out.
THEOREM SnapshotVersionsAreGapless == Spec => []VersionsGapless
<1>1. IInv => VersionsGapless
  BY DEF IInv
<1>2. QED
  BY <1>1, Invariance, PTL

\* What is cited is the tenant's that asked, and the snapshot's if it names its
\* sources.
THEOREM CitationsAreConfined == Spec => []RetrievalIsConfined
<1>1. IInv => RetrievalIsConfined
  BY DEF IInv, ReadsStayTrue, StillTrue, RetrievalIsConfined, Answered
<1>2. QED
  BY <1>1, Invariance, PTL
-----------------------------------------------------------------------------
\* What sorting by score and cutting at ContextK may leave of a set of chunks.
IsTop(q, all, top) ==
  /\ top \subseteq all /\ Cardinality(top) = LesserOf(ContextK, Cardinality(all))
  /\ \A c \in top, d \in all \ top : Score(q, c) >= Score(q, d)

\* The chunks that score at least n.
Scoring(q, S, n) == {c \in S : Score(q, c) >= n}

LEMMA ScoreIsNat == ASSUME NEW q \in Queries, NEW c PROVE Score(q, c) \in Nat
<1>1. IsFiniteSet(q)
  BY KnowledgeAssumption
<1>2. IsFiniteSet(q \cap c.text)
  BY <1>1, FS_Intersection
<1>3. QED
  BY <1>2, FS_CardinalityType DEF Score

\* How many citations reach a score does not depend on the order of equals:
\* all that do, up to ContextK.
LEMMA TopCounts ==
  ASSUME NEW q \in Queries, NEW all, IsFiniteSet(all), NEW top, IsTop(q, all, top), NEW n \in Nat
  PROVE  /\ IsFiniteSet(Scoring(q, top, n))
         /\ Cardinality(Scoring(q, top, n)) = LesserOf(ContextK, Cardinality(Scoring(q, all, n)))
<1> DEFINE A == Scoring(q, all, n)
           T == Scoring(q, top, n)
<1>1. /\ top \in SUBSET all /\ A \in SUBSET all /\ T \in SUBSET A /\ T \in SUBSET top
      /\ ContextK \in Nat
  BY KnowledgeAssumption DEF IsTop, Scoring
<1>2. /\ IsFiniteSet(top) /\ IsFiniteSet(A) /\ IsFiniteSet(T)
  BY <1>1, FS_Subset
<1>3. /\ Cardinality(all) \in Nat /\ Cardinality(top) \in Nat
      /\ Cardinality(A) \in Nat /\ Cardinality(T) \in Nat
  BY <1>2, FS_CardinalityType
<1>4. Cardinality(top) = LesserOf(ContextK, Cardinality(all))
  BY DEF IsTop
<1>5. Cardinality(T) <= Cardinality(top)
  BY <1>1, <1>2, FS_Subset
<1>6. CASE T = A
  <2>1. Cardinality(A) <= ContextK
    BY <1>1, <1>3, <1>4, <1>5, <1>6 DEF LesserOf
  <2>2. QED
    BY <1>1, <1>2, <1>3, <1>6, <2>1 DEF LesserOf
<1>7. CASE T # A
  <2>1. PICK d \in A : d \notin T
    BY <1>1, <1>7
  <2>2. d \in all \ top /\ Score(q, d) >= n
    BY <2>1 DEF Scoring
  <2>3. \A c \in top : Score(q, c) >= n
    BY <2>2, ScoreIsNat DEF IsTop
  <2>4. T = top
    BY <2>3 DEF Scoring
  <2>5. top # all
    BY <2>2
  <2>6. Cardinality(top) # Cardinality(all)
    BY <1>1, <2>5, FS_Subset
  <2>7. Cardinality(top) = ContextK
    BY <1>4, <2>6 DEF LesserOf
  <2>8. Cardinality(T) <= Cardinality(A)
    BY <1>1, <1>2, FS_Subset
  <2>9. QED
    BY <1>1, <1>2, <1>3, <2>4, <2>7, <2>8 DEF LesserOf
<1>8. QED
  BY <1>6, <1>7

\* How many have a score, from how many reach it.
LEMMA ScoreCounts ==
  ASSUME NEW q \in Queries, NEW S, NEW n \in Nat,
         IsFiniteSet(Scoring(q, S, n))
  PROVE  Cardinality({c \in S : Score(q, c) = n})
           = Cardinality(Scoring(q, S, n)) - Cardinality(Scoring(q, S, n + 1))
<1> DEFINE A == Scoring(q, S, n)
           B == Scoring(q, S, n + 1)
<1>1. \A c \in S : Score(q, c) \in Nat
  BY ScoreIsNat
<1>2. {c \in S : Score(q, c) = n} = A \ B /\ A \cap B = B
  BY <1>1 DEF Scoring
<1>3. Cardinality(A \ B) = Cardinality(A) - Cardinality(A \cap B)
  BY FS_Difference
<1>4. QED
  BY <1>2, <1>3

\* Two tops of one set have equally many chunks of every score.
LEMMA TopsAgree ==
  ASSUME NEW q \in Queries, NEW all, IsFiniteSet(all), NEW n \in Nat,
         NEW top1, NEW top2, IsTop(q, all, top1), IsTop(q, all, top2)
  PROVE  Cardinality({c \in top1 : Score(q, c) = n}) = Cardinality({c \in top2 : Score(q, c) = n})
<1>1. n + 1 \in Nat
  OBVIOUS
<1>2. ASSUME NEW top, IsTop(q, all, top)
      PROVE  Cardinality({c \in top : Score(q, c) = n})
               = LesserOf(ContextK, Cardinality(Scoring(q, all, n)))
                 - LesserOf(ContextK, Cardinality(Scoring(q, all, n + 1)))
  <2>1. /\ IsFiniteSet(Scoring(q, top, n))
        /\ Cardinality(Scoring(q, top, n)) = LesserOf(ContextK, Cardinality(Scoring(q, all, n)))
    BY <1>2, TopCounts
  <2>2. Cardinality(Scoring(q, top, n + 1))
          = LesserOf(ContextK, Cardinality(Scoring(q, all, n + 1)))
    BY <1>1, <1>2, TopCounts
  <2>3. QED
    BY <2>1, <2>2, ScoreCounts
<1>3. QED
  BY <1>2

\* The chunks of these sources.
Of(cs, ids) == {c \in cs : c.source \in ids}

Cites(q, all, cited) ==
  \E top \in SUBSET all : IsTop(q, all, top) /\ cited = {c \in top : Score(q, c) > 0}

\* An answer from a snapshot that names its sources and fits the LIMIT is a top
\* of all it has.
Ranked(cs, snaps, j) ==
  j.op = "found" =>
    LET ids == snaps[j.snapshot].source_ids IN
    ids # {} /\ Cardinality(Of(cs, ids)) <= ReadLimit => Cites(j.query, Of(cs, ids), j.citations)

\* The requests that are not idle, of which there are finitely many although
\* any number of clients may come.
Busy == {r \in Requests : job[r] # Idle}

\* The invariant of answers, and what counting needs.
AInv == /\ IInv /\ IsFiniteSet(chunks) /\ IsFiniteSet(Busy)
        /\ \A r \in Requests : Ranked(chunks, snapshots, job[r])

LEMMA RegistersAdd ==
  ASSUME IInv, NEW r \in Requests, AddSource(r)
  PROVE  /\ \E row \in Source : /\ job[r].row = row /\ sources' = Append(sources, row)
                                /\ chunks' = chunks \cup ChunksOf(Len(sources) + 1, row)
                                /\ Becomes(r, [op |-> "registered", row |-> row,
                                               source |-> Len(sources) + 1])
         /\ sources \in Seq(Source) /\ snapshots' = snapshots
<1>1. job[r] \in Job /\ job[r].op = "register" /\ sources \in Seq(Source)
  BY DEF AddSource, IInv, TypeOK
<1>2. job[r].row \in Source
  BY <1>1, JobKinds
<1>3. QED
  BY <1>1, <1>2 DEF AddSource

\* What a snapshot stands for never changes: only new sources get chunks.
LEMMA ContentStays ==
  ASSUME IInv, IsFiniteSet(chunks), [Next]_vars
  PROVE  /\ IsFiniteSet(chunks')
         /\ \A s \in DOMAIN snapshots :
              /\ s \in DOMAIN snapshots' /\ snapshots'[s] = snapshots[s]
              /\ Of(chunks', snapshots[s].source_ids) = Of(chunks, snapshots[s].source_ids)
<1>1. ASSUME NEW r \in Requests, AddSource(r)
      PROVE  /\ IsFiniteSet(chunks')
             /\ \A s \in DOMAIN snapshots :
                  Of(chunks', snapshots[s].source_ids) = Of(chunks, snapshots[s].source_ids)
  <2>1. sources \in Seq(Source)
    BY <1>1, RegistersAdd
  <2>2. PICK row \in Source : chunks' = chunks \cup ChunksOf(Len(sources) + 1, row)
    BY <1>1, RegistersAdd
  <2> DEFINE n == Len(sources) + 1
             new == ChunksOf(n, row)
  <2>3. Text[row.content] \in Seq(SUBSET Words)
    BY KnowledgeAssumption DEF Source
  <2>4. IsFiniteSet(DOMAIN Text[row.content])
    BY <2>3, FS_Interval
  <2>5. IsFiniteSet(new)
    <3> DEFINE D == DOMAIN Text[row.content]
               f == [i \in D |-> [tenant |-> row.tenant, source |-> n,
                                  text |-> Text[row.content][i], locator |-> i]]
    <3>1. f \in Surjection(D, new)
      BY DEF Surjection, ChunksOf
    <3>2. QED
      BY <2>4, <3>1, FS_Surjection
  <2>6. IsFiniteSet(chunks')
    BY <2>2, <2>5, FS_Union
  <2>7. \A c \in new : c.source = n
    BY DEF ChunksOf
  <2>8. n \notin DOMAIN sources
    BY <2>1
  <2>9. \A s \in DOMAIN snapshots : n \notin snapshots[s].source_ids
    BY <2>8 DEF IInv, ManifestsAreOwn
  <2> HIDE DEF new, n
  <2>10. QED
    BY <2>2, <2>6, <2>7, <2>9 DEF Of, new, n
<1>2. ASSUME NEW r \in Requests, Publish(r)
      PROVE  \A s \in DOMAIN snapshots : s \in DOMAIN snapshots' /\ snapshots'[s] = snapshots[s]
  <2>1. snapshots \in Seq(Snapshot) /\ snapshots' = Append(snapshots, job[r].row)
    BY <1>2 DEF Publish, IInv, TypeOK
  <2>2. job[r] \in Job /\ job[r].op = "publish"
    BY <1>2 DEF Publish, IInv, TypeOK
  <2>3. job[r].row \in Snapshot
    BY <2>2, JobKinds
  <2>4. QED
    BY <2>1, <2>3
<1>3. \/ chunks' = chunks
      \/ \E r \in Requests : AddSource(r)
  BY DEF Next, vars, LookUp, CheckSources, ReadVersion, Publish, FindSnapshot, Search, Crash, Proceed
<1>4. \/ snapshots' = snapshots
      \/ \E r \in Requests : Publish(r)
  BY DEF Next, vars, LookUp, CheckSources, ReadVersion, AddSource, FindSnapshot, Search, Crash, Proceed
<1>5. IsFiniteSet(chunks') /\ \A s \in DOMAIN snapshots :
        Of(chunks', snapshots[s].source_ids) = Of(chunks, snapshots[s].source_ids)
  BY <1>1, <1>3
<1>6. \A s \in DOMAIN snapshots : s \in DOMAIN snapshots' /\ snapshots'[s] = snapshots[s]
  BY <1>2, <1>4
<1>7. QED
  BY <1>5, <1>6

\* What a search answers.
LEMMA SearchRanks ==
  ASSUME IInv, IsFiniteSet(chunks), NEW r \in Requests, Search(r)
  PROVE  Ranked(chunks, snapshots, job'[r])
<1> DEFINE t == job[r].tenant
           s == job[r].snapshot
           q == job[r].query
           ids == snapshots[s].source_ids
           all == Matching(t, ids)
<1>1. /\ job[r] \in Job /\ job[r].op = "search" /\ StillTrue(sources, snapshots, job[r])
      /\ job \in [Requests -> Job]
  BY DEF Search, IInv, TypeOK, ReadsStayTrue
<1>2. s \in DOMAIN snapshots /\ snapshots[s].tenant = t
  BY <1>1 DEF StillTrue
<1>3. PICK read \in SUBSET all : \E top \in SUBSET read :
        /\ IsAnswer(all, read, top, q)
        /\ Becomes(r, [op |-> "found", tenant |-> t, snapshot |-> s, query |-> q,
                       citations |-> {c \in top : Score(q, c) > 0}])
  BY DEF Search
<1>4. PICK top \in SUBSET read :
        /\ IsAnswer(all, read, top, q)
        /\ Becomes(r, [op |-> "found", tenant |-> t, snapshot |-> s, query |-> q,
                       citations |-> {c \in top : Score(q, c) > 0}])
  BY <1>3
<1> DEFINE j == [op |-> "found", tenant |-> t, snapshot |-> s, query |-> q,
                 citations |-> {c \in top : Score(q, c) > 0}]
<1>5. job'[r] = j
  BY <1>1, <1>4 DEF Becomes
<1>6. ASSUME ids # {}, Cardinality(Of(chunks, ids)) <= ReadLimit
      PROVE  Cites(q, Of(chunks, ids), j.citations)
  <2>1. all = Of(chunks, ids)
    BY <1>2, <1>6 DEF Matching, Of, IInv, ChunksAreOwn, ManifestsAreOwn
  <2>2. IsFiniteSet(all)
    <3>1. all \in SUBSET chunks
      BY DEF Matching
    <3>2. QED
      BY <3>1, FS_Subset
  <2> HIDE DEF all, q
  <2>3. Cardinality(read) = LesserOf(ReadLimit, Cardinality(all))
    BY <1>4 DEF IsAnswer, kSubset
  <2>4. Cardinality(all) \in Nat /\ ReadLimit \in Nat
    BY <2>2, FS_CardinalityType, KnowledgeAssumption
  <2>5. Cardinality(read) = Cardinality(all)
    BY <1>6, <2>1, <2>3, <2>4 DEF LesserOf
  <2>6. read = all
    BY <1>3, <2>2, <2>5, FS_Subset
  <2>7. IsTop(q, all, top)
    BY <1>4, <2>6 DEF IsAnswer, kSubset, IsTop
  <2>8. QED
    BY <2>1, <2>6, <2>7 DEF Cites
<1>7. QED
  BY <1>5, <1>6 DEF Ranked

\* One request moves, and it has an answer only from its search.
LEMMA OneMoves ==
  ASSUME IInv, Next
  PROVE  \E r \in Requests :
           /\ \A q \in Requests \ {r} : job'[q] = job[q]
           /\ job'[r].op = "found" => Search(r)
           /\ \/ AddSource(r)
              \/ LookUp(r)
              \/ sources' = sources /\ job'[r].op # "register"
<1>1. job \in [Requests -> Job]
  BY DEF IInv, TypeOK
<1>2. PICK r \in Requests :
        \/ LookUp(r) \/ AddSource(r) \/ CheckSources(r) \/ ReadVersion(r) \/ Publish(r)
        \/ FindSnapshot(r) \/ Search(r) \/ Crash(r) \/ Proceed(r)
  BY DEF Next
<1>3. \E j : Becomes(r, j)
  BY <1>2 DEF LookUp, AddSource, CheckSources, ReadVersion, Publish, FindSnapshot, Search, Crash, Proceed
<1>4. \A q \in Requests \ {r} : job'[q] = job[q]
  BY <1>1, <1>3 DEF Becomes
<1>5. \A j : Becomes(r, j) => job'[r] = j
  BY <1>1 DEF Becomes
<1>6. ASSUME LookUp(r) PROVE job'[r].op # "found"
  <2>1. PICK row \in Source :
          \/ Becomes(r, [op |-> "register", row |-> row])
          \/ \E s \in Same(row) : Becomes(r, [op |-> "registered", row |-> row, source |-> s])
    BY <1>6 DEF LookUp
  <2>2. CASE Becomes(r, [op |-> "register", row |-> row])
    BY <1>5, <2>2
  <2>3. ASSUME NEW s, Becomes(r, [op |-> "registered", row |-> row, source |-> s])
        PROVE  job'[r].op # "found"
    BY <1>5, <2>3
  <2>4. QED
    BY <2>1, <2>2, <2>3
<1>7. AddSource(r) => job'[r].op = "registered"
  BY <1>5 DEF AddSource
<1>8. CheckSources(r) => sources' = sources /\ job'[r].op \in {"number", "idle"}
  BY <1>5 DEF CheckSources, Idle
<1>9. ReadVersion(r) => sources' = sources /\ job'[r].op = "publish"
  BY <1>5 DEF ReadVersion
<1>10. FindSnapshot(r) => sources' = sources /\ job'[r].op \in {"search", "idle"}
  BY <1>5 DEF FindSnapshot, Idle
<1>11. Search(r) => sources' = sources /\ job'[r].op = "found"
  BY <1>5 DEF Search
<1>12. Publish(r) \/ Crash(r) \/ Proceed(r) => sources' = sources /\ job'[r].op = "idle"
  BY <1>5 DEF Publish, Crash, Proceed, Idle
<1>13. QED
  BY <1>2, <1>4, <1>6, <1>7, <1>8, <1>9, <1>10, <1>11, <1>12

LEMMA AnswersInvariance == Spec => []AInv
<1>1. Init => AInv
  <2> SUFFICES ASSUME Init PROVE AInv
    OBVIOUS
  <2>1. IInv
    BY InitIInv
  <2>2. Busy = {} /\ chunks = {}
    BY DEF Init, Busy
  <2>3. \A r \in Requests : job[r].op # "found"
    BY DEF Init, Idle
  <2>4. QED
    BY <2>1, <2>2, <2>3, FS_EmptySet DEF AInv, Ranked
<1>2. ASSUME AInv, IInv', Next PROVE AInv'
  <2>1. PICK r \in Requests :
          /\ \A q \in Requests \ {r} : job'[q] = job[q]
          /\ job'[r].op = "found" => Search(r)
    BY <1>2, OneMoves DEF AInv
  <2>2. /\ IsFiniteSet(chunks')
        /\ \A s \in DOMAIN snapshots :
             /\ s \in DOMAIN snapshots' /\ snapshots'[s] = snapshots[s]
             /\ Of(chunks', snapshots[s].source_ids) = Of(chunks, snapshots[s].source_ids)
    BY <1>2, ContentStays DEF AInv
  <2>3. IsFiniteSet(Busy')
    <3>1. Busy' \in SUBSET (Busy \cup {r})
      BY <2>1 DEF Busy
    <3>2. QED
      BY <1>2, <3>1, FS_AddElement, FS_Subset DEF AInv
  <2>4. ASSUME NEW q \in Requests PROVE Ranked(chunks', snapshots', job'[q])
    <3>1. CASE q = r /\ job'[r].op = "found"
      <4>1. Search(r)
        BY <2>1, <3>1
      <4>2. Ranked(chunks, snapshots, job'[r])
        BY <1>2, <4>1, SearchRanks DEF AInv
      <4>3. chunks' = chunks /\ snapshots' = snapshots
        BY <4>1 DEF Search
      <4>4. QED
        BY <3>1, <4>2, <4>3
    <3>2. CASE q = r /\ job'[r].op # "found"
      BY <3>2 DEF Ranked
    <3>3. CASE q # r
      <4>1. job'[q] = job[q] /\ Ranked(chunks, snapshots, job[q])
        BY <1>2, <2>1, <3>3 DEF AInv
      <4>2. job[q].op = "found" => job[q].snapshot \in DOMAIN snapshots
        BY <1>2 DEF AInv, IInv, ReadsStayTrue, StillTrue
      <4>3. QED
        BY <2>2, <4>1, <4>2 DEF Ranked
    <3>4. QED
      BY <3>1, <3>2, <3>3
  <2>5. QED
    BY <1>2, <2>2, <2>3, <2>4 DEF AInv
<1>3. ASSUME AInv, IInv', UNCHANGED vars PROVE AInv'
  BY <1>3 DEF vars, AInv, Busy, Ranked
<1>4. QED
  BY <1>1, <1>2, <1>3, Invariance, PTL DEF Spec

-----------------------------------------------------------------------------
\* A snapshot that names its sources and fits the LIMIT answers the same
\* question with the same scores, whenever it is asked.
THEOREM AnswersAreRepeatable == Spec => []RetrievalIsRepeatable
<1>1. ASSUME AInv PROVE RetrievalIsRepeatable
  <2> SUFFICES ASSUME NEW r \in Requests, NEW q \in Requests, SameQuestion(r, q),
                      snapshots[job[r].snapshot].source_ids # {},
                      Cardinality(Content(job[r].snapshot)) <= ReadLimit
               PROVE  Profile(r) = Profile(q)
    BY DEF RetrievalIsRepeatable
  <2> DEFINE s == job[r].snapshot
             Q == job[r].query
             all == Content(s)
  <2>1. Content(s) = Of(chunks, snapshots[s].source_ids)
    BY DEF Content, Of
  <2>2. /\ job[r] \in Job /\ job[r].op = "found" /\ job[q].op = "found"
        /\ job[q].snapshot = s /\ job[q].query = Q
    BY <1>1 DEF AInv, IInv, TypeOK, SameQuestion, Answered
  <2>3. Q \in Queries
    BY <2>2, JobKinds
  <2>4. Cites(Q, all, job[r].citations) /\ Cites(Q, all, job[q].citations)
    BY <1>1, <2>1, <2>2 DEF AInv, Ranked
  <2>5. IsFiniteSet(all)
    <3>1. all \in SUBSET chunks
      BY DEF Content
    <3>2. QED
      BY <1>1, <3>1, FS_Subset DEF AInv
  <2> HIDE DEF s, Q, all
  <2>6. PICK top1 \in SUBSET all :
          IsTop(Q, all, top1) /\ job[r].citations = {c \in top1 : Score(Q, c) > 0}
    BY <2>4 DEF Cites
  <2>7. PICK top2 \in SUBSET all :
          IsTop(Q, all, top2) /\ job[q].citations = {c \in top2 : Score(Q, c) > 0}
    BY <2>4 DEF Cites
  <2>8. ASSUME NEW n \in 1 .. Cardinality(Words)
        PROVE  Cardinality({c \in job[r].citations : Score(Q, c) = n})
                 = Cardinality({c \in job[q].citations : Score(Q, c) = n})
    <3>1. n \in Nat /\ n > 0
      OBVIOUS
    <3>2. /\ {c \in job[r].citations : Score(Q, c) = n} = {c \in top1 : Score(Q, c) = n}
          /\ {c \in job[q].citations : Score(Q, c) = n} = {c \in top2 : Score(Q, c) = n}
      BY <2>6, <2>7, <3>1
    <3>3. QED
      BY <2>3, <2>5, <2>6, <2>7, <3>1, <3>2, TopsAgree
  <2>9. QED
    BY <2>2, <2>8 DEF Profile, Q
<1>2. QED
  BY <1>1, AnswersInvariance, PTL

\* In such a snapshot nothing that is left out is a better match.
THEOREM CitationsAreBest == Spec => []BestAreCited
<1>1. ASSUME AInv PROVE BestAreCited
  <2> SUFFICES ASSUME NEW r \in Requests, job[r].op = "found",
                      snapshots[job[r].snapshot].source_ids # {},
                      Cardinality(Content(job[r].snapshot)) <= ReadLimit,
                      NEW d \in Content(job[r].snapshot) \ job[r].citations,
                      Score(job[r].query, d) > 0
               PROVE  /\ Cardinality(job[r].citations) = ContextK
                      /\ \A c \in job[r].citations :
                           Score(job[r].query, c) >= Score(job[r].query, d)
    BY DEF BestAreCited, Answered
  <2> DEFINE s == job[r].snapshot
             Q == job[r].query
             all == Content(s)
             cited == job[r].citations
  <2>1. Content(s) = Of(chunks, snapshots[s].source_ids)
    BY DEF Content, Of
  <2>2. Q \in Queries
    BY <1>1, JobKinds DEF AInv, IInv, TypeOK
  <2>3. Cites(Q, all, cited)
    BY <1>1, <2>1 DEF AInv, Ranked
  <2>4. IsFiniteSet(all)
    <3>1. all \in SUBSET chunks
      BY DEF Content
    <3>2. QED
      BY <1>1, <3>1, FS_Subset DEF AInv
  <2>5. d \in all \ cited /\ Score(Q, d) > 0
    OBVIOUS
  <2> HIDE DEF s, Q, all, cited
  <2>6. PICK top \in SUBSET all : IsTop(Q, all, top) /\ cited = {c \in top : Score(Q, c) > 0}
    BY <2>3 DEF Cites
  <2>7. d \in all \ top
    BY <2>5, <2>6
  <2>8. \A c \in top : Score(Q, c) >= Score(Q, d) /\ Score(Q, c) > 0
    BY <2>2, <2>5, <2>6, <2>7, ScoreIsNat DEF IsTop
  <2>9. cited = top
    BY <2>6, <2>8
  <2>10. Cardinality(top) # Cardinality(all)
    BY <2>4, <2>6, <2>7, FS_Subset
  <2>11. Cardinality(top) = ContextK
    BY <2>6, <2>10 DEF IsTop, LesserOf
  <2>12. QED
    BY <2>8, <2>9, <2>11 DEF Q, cited
<1>2. QED
  BY <1>1, AnswersInvariance, PTL

-----------------------------------------------------------------------------
\* What the registrations that are under way may still add.
LEMMA LookUpWaitsForCopies ==
  ASSUME IInv, NEW r \in Requests, LookUp(r), job'[r].op = "register"
  PROVE  Copies(job'[r].row.tenant, job'[r].row.content) = {}
<1>1. job \in [Requests -> Job]
  BY DEF IInv, TypeOK
<1>2. PICK row \in Source :
        \/ Same(row) = {} /\ Becomes(r, [op |-> "register", row |-> row])
        \/ \E s \in Same(row) : Becomes(r, [op |-> "registered", row |-> row, source |-> s])
  BY DEF LookUp
<1>3. CASE Same(row) = {} /\ Becomes(r, [op |-> "register", row |-> row])
  <2>1. job'[r] = [op |-> "register", row |-> row]
    BY <1>1, <1>3 DEF Becomes
  <2>2. QED
    BY <1>3, <2>1 DEF Same, Copies
<1>4. ASSUME NEW s, Becomes(r, [op |-> "registered", row |-> row, source |-> s])
      PROVE  FALSE
  <2>1. job'[r] = [op |-> "registered", row |-> row, source |-> s]
    BY <1>1, <1>4 DEF Becomes
  <2>2. QED
    BY <2>1
<1>5. QED
  BY <1>2, <1>3, <1>4

LEMMA CopiesAreFinite ==
  ASSUME AInv, NEW t, NEW c
  PROVE  /\ IsFiniteSet(Copies(t, c)) /\ Cardinality(Copies(t, c)) \in Nat
         /\ IsFiniteSet(Pending(t, c)) /\ Cardinality(Pending(t, c)) \in Nat
<1>1. IsFiniteSet(1 .. Len(sources)) /\ DOMAIN sources = 1 .. Len(sources)
  BY FS_Interval DEF AInv, IInv, TypeOK
<1>2. Copies(t, c) \in SUBSET (1 .. Len(sources))
  BY <1>1 DEF Copies
<1>3. Pending(t, c) \in SUBSET Busy
  BY DEF Pending, Busy, Answered, Idle
<1>4. IsFiniteSet(Copies(t, c)) /\ IsFiniteSet(Pending(t, c))
  BY <1>1, <1>2, <1>3, FS_Subset DEF AInv
<1>5. QED
  BY <1>4, FS_CardinalityType

\* Once a copy of a content is committed, the copies are bounded by those that
\* were under way.
THEOREM DuplicatesAreBounded == Spec => DuplicatesStop
<1> DEFINE Bounded(t, c) ==
             Copies(t, c) # {} =>
               Cardinality(Copies(t, c)') + Cardinality(Pending(t, c)')
                 <= Cardinality(Copies(t, c)) + Cardinality(Pending(t, c))
<1>1. ASSUME AInv, Next, NEW t \in Tenants, NEW c \in Contents PROVE Bounded(t, c)
  <2> SUFFICES ASSUME Copies(t, c) # {}
               PROVE  Cardinality(Copies(t, c)') + Cardinality(Pending(t, c)')
                        <= Cardinality(Copies(t, c)) + Cardinality(Pending(t, c))
    OBVIOUS
  <2>1. PICK r \in Requests :
          /\ \A q \in Requests \ {r} : job'[q] = job[q]
          /\ \/ AddSource(r)
             \/ LookUp(r)
             \/ sources' = sources /\ job'[r].op # "register"
    BY <1>1, OneMoves DEF AInv
  <2>2. /\ IsFiniteSet(Copies(t, c)) /\ Cardinality(Copies(t, c)) \in Nat
        /\ IsFiniteSet(Pending(t, c)) /\ Cardinality(Pending(t, c)) \in Nat
    BY <1>1, CopiesAreFinite
  <2>3. CASE AddSource(r) /\ r \in Pending(t, c)
    <3>1. PICK row \in Source :
            /\ job[r].row = row /\ sources' = Append(sources, row)
            /\ Becomes(r, [op |-> "registered", row |-> row, source |-> Len(sources) + 1])
      BY <1>1, <2>3, RegistersAdd DEF AInv
    <3>2. sources \in Seq(Source) /\ job \in [Requests -> Job]
      BY <1>1 DEF AInv, IInv, TypeOK
    <3>3. job'[r].op = "registered"
      BY <3>1, <3>2 DEF Becomes
    <3>4. Pending(t, c)' = Pending(t, c) \ {r}
      BY <2>1, <3>3 DEF Pending, Answered
    <3>5. Cardinality(Pending(t, c)') = Cardinality(Pending(t, c)) - 1
      BY <2>2, <2>3, <3>4, FS_RemoveElement
    <3>6. Copies(t, c)' = Copies(t, c) \cup {Len(sources) + 1} /\ Len(sources) + 1 \notin Copies(t, c)
      BY <2>3, <3>1, <3>2 DEF Copies, Pending
    <3>7. Cardinality(Copies(t, c)') = Cardinality(Copies(t, c)) + 1
      BY <2>2, <3>6, FS_AddElement
    <3>8. QED
      BY <2>2, <3>5, <3>7
  <2>4. CASE ~(AddSource(r) /\ r \in Pending(t, c))
    <3>1. Copies(t, c)' = Copies(t, c)
      <4>1. CASE AddSource(r)
        <5>1. PICK row \in Source : job[r].row = row /\ sources' = Append(sources, row)
          BY <1>1, <4>1, RegistersAdd DEF AInv
        <5>2. sources \in Seq(Source)
          BY <1>1 DEF AInv, IInv, TypeOK
        <5>3. ~(row.tenant = t /\ row.content = c)
          BY <2>4, <4>1, <5>1 DEF AddSource, Pending, Answered
        <5>4. QED
          BY <5>1, <5>2, <5>3 DEF Copies
      <4>2. CASE sources' = sources
        BY <4>2 DEF Copies
      <4>3. QED
        BY <2>1, <4>1, <4>2 DEF LookUp
    <3>2. job'[r].op = "register" => LookUp(r)
      <4>1. CASE AddSource(r)
        <5>1. PICK row \in Source :
                Becomes(r, [op |-> "registered", row |-> row, source |-> Len(sources) + 1])
          BY <1>1, <4>1, RegistersAdd DEF AInv
        <5>2. job'[r].op = "registered"
          BY <1>1, <5>1 DEF Becomes, AInv, IInv, TypeOK
        <5>3. QED
          BY <5>2
      <4>2. QED
        BY <2>1, <4>1
    <3>3. r \notin Pending(t, c)'
      BY <1>1, <3>2, LookUpWaitsForCopies DEF AInv, Pending, Answered
    <3>4. Pending(t, c)' \in SUBSET Pending(t, c)
      BY <2>1, <3>3 DEF Pending, Answered
    <3>5. Cardinality(Pending(t, c)') <= Cardinality(Pending(t, c)) /\ IsFiniteSet(Pending(t, c)')
      BY <2>2, <3>4, FS_Subset
    <3>6. Cardinality(Pending(t, c)') \in Nat
      BY <3>5, FS_CardinalityType
    <3>7. QED
      BY <2>2, <3>1, <3>5, <3>6
  <2>5. QED
    BY <2>3, <2>4
<1>2. AInv /\ [Next]_vars => [\A t \in Tenants, c \in Contents : Bounded(t, c)]_vars
  BY <1>1
<1>3. QED
  BY <1>2, AnswersInvariance, PTL DEF Spec, DuplicatesStop

-----------------------------------------------------------------------------
(***************************************************************************)
(* The loop of chunk_text.                                                 *)
(***************************************************************************)
Half == Target \div 2

LEMMA Sizes == Half \in Nat /\ Target \in Nat /\ Overlap \in Nat /\ Overlap < Half /\ Half < Target
  BY SizeAssumption DEF Half

-----------------------------------------------------------------------------
Last == out[Len(out)]

\* No blank at an end of the text, no two in a row.
Normal ==
  /\ text.blanks \subseteq 1 .. text.len - 2
  /\ \A b \in text.blanks : b + 1 \notin text.blanks

\* The next chunk starts inside the last one, Overlap before its end.
Cursor ==
  ~done => /\ start < text.len
           /\ out = <<>> => start = 0
           /\ out # <<>> => /\ Last.lo < start /\ start + Overlap < text.len
                            /\ Last.hi \in {start + Overlap, start + Overlap - 1}

\* If there are short words only, a chunk other than the last one ends at a
\* blank, and the words that begin before it are whole in some chunk.
EndsAtBlank == ShortWords /\ ~done /\ out # <<>> => start + Overlap \in text.blanks

Whole(w) == \E i \in DOMAIN out : out[i].lo <= w.lo /\ w.hi <= out[i].hi

WordsSoFar ==
  ShortWords => \A w \in TextWords : done \/ (out # <<>> /\ w.lo < start + Overlap) => Whole(w)

ChunkIInv == /\ ChunkTypeOK /\ Normal /\ Cursor
        /\ Lossless /\ ChunksAdvance /\ EndsAtBlank /\ WordsSoFar

-----------------------------------------------------------------------------
\* A chunk ends behind the overlap's reach and no further than Target.
LEMMA EndIsBounded ==
  ASSUME ChunkIInv, ~done, NEW end \in 1 .. text.len, IsEnd(end)
  PROVE  /\ end <= start + Target
         /\ end # text.len => start + Half < end
         /\ start < end
  BY Sizes DEF ChunkIInv, ChunkTypeOK, Cursor, IsEnd, Limit, Late, Half

\* Of a chunk, strip takes at most one blank from either end.
LEMMA StripTakesBlanks ==
  ASSUME NEW lo \in Nat, NEW hi \in Nat
  PROVE  /\ Strip(lo, hi).lo = lo \/ (lo \in text.blanks /\ Strip(lo, hi).lo = lo + 1)
         /\ Strip(lo, hi).hi = hi \/ (hi - 1 \in text.blanks /\ Strip(lo, hi).hi = hi - 1)
  BY DEF Strip

\* Among short words the end of a chunk is a blank or the end of the text.
LEMMA ShortWordsEndAtBlank ==
  ASSUME ChunkIInv, ~done, ShortWords, NEW end \in 1 .. text.len, IsEnd(end), end # text.len
  PROVE  end \in text.blanks
<1>1. CASE end \in Late
  BY <1>1 DEF Late
<1>2. CASE Late = {} /\ end = Limit
  <2>1. text.len \in Nat /\ start \in Nat
    BY DEF ChunkIInv, ChunkTypeOK
  <2>2. end = start + Target /\ end < text.len
    BY <1>2, <2>1, Sizes DEF Limit
  <2>3. \A b \in text.blanks : ~(start + Half < b /\ b < end)
    BY <1>2, <2>2 DEF Late, Half
  <2> DEFINE w == [lo |-> start + Half + 1, hi |-> end + 1]
  <2>4. SUFFICES ASSUME end \notin text.blanks PROVE FALSE
    OBVIOUS
  <2>5. \A p \in w.lo .. w.hi - 1 : p \notin text.blanks
    BY <2>1, <2>2, <2>3, <2>4, Sizes
  <2>6. w \in TextWords
    BY <2>1, <2>2, <2>5, Sizes DEF TextWords
  <2>7. w.hi - w.lo < Target - Half
    BY <2>6 DEF ShortWords, Half
  <2>8. QED
    BY <2>1, <2>2, <2>7, Sizes
<1>3. QED
  BY <1>1, <1>2 DEF IsEnd
-----------------------------------------------------------------------------
LEMMA ChunkInitIInv == ChunkInit => ChunkIInv
<1> SUFFICES ASSUME ChunkInit PROVE ChunkIInv
  OBVIOUS
<1>1. text \in [len : Nat, blanks : SUBSET Nat] /\ Normal
  <2>1. PICK n \in Lengths :
          \E B \in SUBSET (1 .. n - 2) :
            (\A b \in B : b + 1 \notin B) /\ text = [len |-> n, blanks |-> B]
    BY DEF ChunkInit, Texts
  <2>2. PICK B \in SUBSET (1 .. n - 2) :
          (\A b \in B : b + 1 \notin B) /\ text = [len |-> n, blanks |-> B]
    BY <2>1
  <2>3. n \in Nat /\ B \in SUBSET Nat
    BY SizeAssumption
  <2>4. QED
    BY <2>2, <2>3 DEF Normal
<1>2. ChunkTypeOK
  BY <1>1 DEF ChunkInit, ChunkTypeOK
<1>3. Cursor
  <2>1. start = 0 /\ out = <<>> /\ (~done => text.len # 0) /\ text.len \in Nat
    BY <1>1 DEF ChunkInit
  <2>2. QED
    BY <2>1 DEF Cursor
<1>4. Lossless
  <2>1. start = 0 /\ (done => text.len = 0) /\ text.len \in Nat
    BY <1>1 DEF ChunkInit
  <2>2. \A p \in 0 .. text.len - 1 : ~Passed(p)
    BY <2>1 DEF Passed
  <2>3. QED
    BY <2>2 DEF Lossless
<1>5. ChunksAdvance
  BY DEF ChunkInit, ChunksAdvance
<1>6. EndsAtBlank
  <2>1. ~(out # <<>>)
    BY DEF ChunkInit
  <2>2. QED
    BY <2>1 DEF EndsAtBlank, ShortWords
<1>7. WordsSoFar
  <2>1. SUFFICES ASSUME NEW w \in TextWords, done \/ (out # <<>> /\ w.lo < start + Overlap)
                 PROVE  FALSE
    BY DEF WordsSoFar, ShortWords
  <2>2. text.len = 0
    BY <2>1 DEF ChunkInit
  <2>3. w.lo \in 0 .. 0 /\ w.hi \in 0 .. 0 /\ w.lo < w.hi
    BY <2>2 DEF TextWords
  <2>4. QED
    BY <2>3
<1>8. QED
  BY <1>1, <1>2, <1>3, <1>4, <1>5, <1>6, <1>7 DEF ChunkIInv

\* What a turn of the loop adds, in numbers.
LEMMA CutAdds ==
  ASSUME ChunkIInv, Cut
  PROVE  \E end \in 1 .. text.len :
           LET n == Len(out)  c == Strip(start, end) IN
           /\ IsEnd(end) /\ start < end /\ end <= start + Target
           /\ end # text.len => start + Half < end /\ start' = end - Overlap /\ start' > start
           /\ end = text.len => start' = start
           /\ done' = (end = text.len)
           /\ text' = text
           /\ Len(out') = n + 1 /\ out'[n + 1] = c /\ \A i \in 1 .. n : out'[i] = out[i]
           /\ out' \in Seq([lo : 0 .. text.len, hi : 0 .. text.len])
           /\ start <= c.lo /\ c.lo <= start + 1 /\ end - 1 <= c.hi /\ c.hi <= end /\ c.lo < c.hi
           /\ c.lo # start => start \in text.blanks
           /\ c.hi # end => end - 1 \in text.blanks
<1>1. PICK end \in 1 .. text.len :
        /\ IsEnd(end)
        /\ out' = Append(out, Strip(start, end))
        /\ done' = (end = text.len)
        /\ start' = IF end = text.len THEN start ELSE Restart(end)
  BY DEF Cut
<1> DEFINE c == Strip(start, end)
<1>2. /\ ~done /\ text' = text
      /\ text.len \in Nat /\ start \in Nat /\ text.blanks \subseteq Nat /\ start < text.len
      /\ out \in Seq([lo : 0 .. text.len, hi : 0 .. text.len])
  BY DEF Cut, ChunkIInv, ChunkTypeOK, Cursor
<1>3. start < end /\ end <= start + Target /\ (end # text.len => start + Half < end)
  BY <1>1, <1>2, EndIsBounded
<1>4. end # text.len => start' = end - Overlap /\ start' > start
  BY <1>1, <1>2, <1>3, Sizes DEF Restart
<1>5. /\ start <= c.lo /\ c.lo <= start + 1 /\ end - 1 <= c.hi /\ c.hi <= end
      /\ c.lo # start => start \in text.blanks
      /\ c.hi # end => end - 1 \in text.blanks
      /\ c.lo = start \/ c.lo = start + 1
      /\ c.hi = end \/ c.hi = end - 1
  BY <1>1, <1>2 DEF Strip
<1>6. c.lo < c.hi
  <2>1. Normal
    BY DEF ChunkIInv
  <2>2. CASE end = text.len
    <3>1. end - 1 \notin text.blanks /\ (start \in text.blanks => start <= end - 2)
      BY <1>2, <2>1, <2>2 DEF Normal
    <3>2. QED
      BY <1>2, <1>3, <1>5, <3>1
  <2>3. CASE end # text.len
    <3>1. start + 2 <= end
      BY <1>2, <1>3, <2>3, Sizes
    <3>2. start \in text.blanks => start + 1 \notin text.blanks
      BY <2>1 DEF Normal
    <3>3. QED
      BY <1>2, <1>5, <3>1, <3>2
  <2>4. QED
    BY <2>2, <2>3
<1>7. c \in [lo : 0 .. text.len, hi : 0 .. text.len]
  <2>1. c.lo \in 0 .. text.len /\ c.hi \in 0 .. text.len
    BY <1>2, <1>3, <1>5, <1>6
  <2>2. QED
    BY <2>1 DEF Strip
<1> HIDE DEF c
<1>8. /\ Len(out') = Len(out) + 1 /\ out'[Len(out) + 1] = c
      /\ \A i \in 1 .. Len(out) : out'[i] = out[i]
      /\ out' \in Seq([lo : 0 .. text.len, hi : 0 .. text.len])
  BY <1>1, <1>2, <1>7 DEF c
<1>9. QED
  BY <1>1, <1>2, <1>3, <1>4, <1>5, <1>6, <1>8 DEF c

\* A turn of the loop keeps every part of the invariant.
LEMMA CutIInv == ASSUME ChunkIInv, Cut PROVE ChunkIInv'
<1>1. PICK end \in 1 .. text.len :
        LET n == Len(out)  c == Strip(start, end) IN
        /\ IsEnd(end) /\ start < end /\ end <= start + Target
        /\ end # text.len => start + Half < end /\ start' = end - Overlap /\ start' > start
        /\ end = text.len => start' = start
        /\ done' = (end = text.len)
        /\ text' = text
        /\ Len(out') = n + 1 /\ out'[n + 1] = c /\ \A i \in 1 .. n : out'[i] = out[i]
        /\ out' \in Seq([lo : 0 .. text.len, hi : 0 .. text.len])
        /\ start <= c.lo /\ c.lo <= start + 1 /\ end - 1 <= c.hi /\ c.hi <= end /\ c.lo < c.hi
        /\ c.lo # start => start \in text.blanks
        /\ c.hi # end => end - 1 \in text.blanks
  BY CutAdds
<1> DEFINE n == Len(out)
           lo == Strip(start, end).lo
           hi == Strip(start, end).hi
<1>2. /\ ~done /\ text' = text /\ text \in [len : Nat, blanks : SUBSET Nat]
      /\ text.len \in Nat /\ start \in Nat /\ start < text.len
      /\ out \in Seq([lo : 0 .. text.len, hi : 0 .. text.len]) /\ n \in Nat
      /\ DOMAIN out = 1 .. n /\ DOMAIN out' = 1 .. n + 1
      /\ \A i \in 1 .. n : /\ out[i].lo \in Nat /\ out[i].hi \in Nat
                           /\ out'[i] = out[i]
  <2>1. /\ ~done /\ text' = text /\ text \in [len : Nat, blanks : SUBSET Nat]
        /\ start \in 0 .. text.len /\ start < text.len
        /\ out \in Seq([lo : 0 .. text.len, hi : 0 .. text.len])
    BY DEF Cut, ChunkIInv, ChunkTypeOK, Cursor
  <2>2. text.len \in Nat /\ n \in Nat /\ DOMAIN out = 1 .. n
    BY <2>1
  <2>3. out' \in Seq([lo : 0 .. text.len, hi : 0 .. text.len]) /\ Len(out') = n + 1
    BY <1>1
  <2>4. DOMAIN out' = 1 .. n + 1
    BY <2>3
  <2>5. \A i \in 1 .. n : out[i].lo \in Nat /\ out[i].hi \in Nat
    <3> DEFINE Interval == [lo : 0 .. text.len, hi : 0 .. text.len]
    <3>1. out \in Seq(Interval)
      BY <2>1
    <3>2. \A x \in Interval : x.lo \in Nat /\ x.hi \in Nat
      BY <2>2
    <3> HIDE DEF Interval
    <3>3. \A i \in 1 .. n : out[i] \in Interval
      BY <3>1 DEF n
    <3>4. QED
      BY <3>2, <3>3
  <2>6. QED
    BY <1>1, <2>1, <2>2, <2>4, <2>5
<1>3. /\ out'[n + 1].lo = lo /\ out'[n + 1].hi = hi
      /\ lo \in Int /\ hi \in Int
      /\ start <= lo /\ lo <= start + 1 /\ end - 1 <= hi /\ hi <= end /\ lo < hi
      /\ lo # start => start \in text.blanks
      /\ hi # end => end - 1 \in text.blanks
  BY <1>1, <1>2 DEF Strip
<1>4. /\ start < end /\ end <= start + Target /\ end <= text.len /\ end \in Nat
      /\ end # text.len => start + Half < end /\ start' = end - Overlap /\ start' > start
      /\ end = text.len => start' = start
      /\ done' = (end = text.len)
  BY <1>1
<1>5. n # 0 => /\ out # <<>>
               /\ out[n].lo < start /\ start + Overlap < text.len
               /\ out[n].hi \in {start + Overlap, start + Overlap - 1}
  BY <1>2 DEF ChunkIInv, Cursor, Last
<1> HIDE DEF n, lo, hi
<1>6. ChunkTypeOK'
  <2>1. start' \in 0 .. text.len
    BY <1>2, <1>4, Sizes
  <2>2. QED
    BY <1>1, <1>2, <1>4, <2>1 DEF ChunkTypeOK
<1>7. Normal'
  BY <1>2 DEF ChunkIInv, Normal
<1>8. out' # <<>> /\ Len(out') = n + 1
  BY <1>1, <1>2 DEF n
<1>9. Cursor'
  <2>1. SUFFICES ASSUME end # text.len
                 PROVE  /\ start' < text.len
                        /\ out'[n + 1].lo < start' /\ start' + Overlap < text.len
                        /\ out'[n + 1].hi \in {start' + Overlap, start' + Overlap - 1}
    BY <1>2, <1>4, <1>8 DEF Cursor, Last
  <2>2. start' = end - Overlap /\ start + Half < end /\ end < text.len
    BY <1>2, <1>4, <2>1
  <2>3. QED
    BY <1>2, <1>3, <1>4, <2>2, Sizes
<1>10. Lossless'
  <2>1. SUFFICES ASSUME NEW p \in 0 .. text.len - 1, p < start' \/ done', p \notin text.blanks
                 PROVE  \E i \in DOMAIN out' : out'[i].lo <= p /\ p < out'[i].hi
    BY <1>2 DEF Lossless, Passed, Holds
  <2>2. CASE p < start
    <3>1. PICK i \in DOMAIN out : Holds(i, p)
      BY <2>1, <2>2 DEF ChunkIInv, Lossless, Passed
    <3>2. i \in 1 .. n + 1 /\ out'[i] = out[i]
      BY <1>2, <3>1
    <3>3. QED
      BY <1>2, <3>1, <3>2 DEF Holds
  <2>3. CASE ~(p < start)
    <3>1. p < end
      <4>1. p \in Int /\ p < text.len
        BY <1>2
      <4>2. end # text.len => p < end - Overlap
        BY <1>4, <2>1
      <4>3. QED
        BY <1>4, <4>1, <4>2, Sizes
    <3>2. p # start \/ lo = start
      BY <1>3, <2>1
    <3>3. p # end - 1 \/ hi = end
      BY <1>3, <2>1
    <3>4. lo <= p /\ p < hi
      BY <1>2, <1>3, <1>4, <2>1, <2>3, <3>1, <3>2, <3>3
    <3>5. n + 1 \in DOMAIN out' /\ out'[n + 1].lo <= p /\ p < out'[n + 1].hi
      BY <1>2, <1>3, <3>4
    <3>6. QED
      BY <3>5
  <2>4. QED
    BY <2>2, <2>3
<1>11. ChunksAdvance'
  <2>1. \A i \in 1 .. n : out[i].lo < out[i].hi /\ out[i].hi - out[i].lo <= Target
    BY <1>2 DEF ChunkIInv, ChunksAdvance
  <2>2. \A i \in 1 .. n - 1 :
          /\ out[i].lo < out[i + 1].lo /\ out[i].hi < out[i + 1].hi
          /\ out[i].hi - out[i + 1].lo <= Overlap
    BY <1>2 DEF ChunkIInv, ChunksAdvance, n
  <2>3. lo < hi /\ hi - lo <= Target
    BY <1>2, <1>3, <1>4, Sizes
  <2>4. n # 0 => out[n].lo < lo /\ out[n].hi < hi /\ out[n].hi - lo <= Overlap
    <3>1. SUFFICES ASSUME n # 0
                   PROVE  out[n].lo < lo /\ out[n].hi < hi /\ out[n].hi - lo <= Overlap
      OBVIOUS
    <3>2. out[n].lo \in Nat /\ out[n].hi \in Nat
      BY <1>2, <3>1
    <3>3. start + Overlap < hi
      <4>1. CASE end = text.len
        <5>1. end - 1 \notin text.blanks
          BY <1>2, <4>1 DEF ChunkIInv, Normal
        <5>2. QED
          BY <1>2, <1>3, <1>5, <3>1, <4>1, <5>1, Sizes
      <4>2. CASE end # text.len
        BY <1>2, <1>3, <1>4, <4>2, Sizes
      <4>3. QED
        BY <4>1, <4>2
    <3> DEFINE a == out[n].lo  b == out[n].hi
    <3>4. a < start /\ (b = start + Overlap \/ b = start + Overlap - 1)
      BY <1>5, <3>1
    <3> HIDE DEF a, b
    <3>5. a \in Nat /\ b \in Nat
      BY <3>2 DEF a, b
    <3>6. a < lo /\ b < hi /\ b - lo <= Overlap
      BY <1>2, <1>3, <3>3, <3>4, <3>5, Sizes
    <3>7. QED
      BY <3>6 DEF a, b
  <2>5. \A i \in 1 .. n + 1 : i \in 1 .. n \/ i = n + 1
    BY <1>2
  <2>6. \A i \in 1 .. n + 1 : out'[i].lo < out'[i].hi /\ out'[i].hi - out'[i].lo <= Target
    BY <1>2, <1>3, <2>1, <2>3, <2>5
  <2>7. \A i \in 1 .. n : (i \in 1 .. n - 1 /\ i + 1 \in 1 .. n) \/ (i = n /\ n # 0)
    BY <1>2
  <2>8. \A i \in 1 .. n :
          /\ out'[i].lo < out'[i + 1].lo /\ out'[i].hi < out'[i + 1].hi
          /\ out'[i].hi - out'[i + 1].lo <= Overlap
    BY <1>2, <1>3, <2>2, <2>4, <2>7
  <2>9. Len(out') - 1 = n
    BY <1>2, <1>8
  <2>10. QED
    BY <1>2, <2>6, <2>8, <2>9 DEF ChunksAdvance
<1>12. ShortWords' <=> ShortWords
  BY <1>2 DEF ShortWords, TextWords
<1>13. EndsAtBlank'
  <2>1. SUFFICES ASSUME ShortWords, end # text.len
                 PROVE  start' + Overlap \in text.blanks
    BY <1>2, <1>4, <1>12 DEF EndsAtBlank
  <2>2. end \in text.blanks
    BY <1>1, <1>2, <2>1, ShortWordsEndAtBlank
  <2>3. start' + Overlap = end
    BY <1>2, <1>4, <2>1, Sizes
  <2>4. QED
    BY <2>2, <2>3
<1>14. WordsSoFar'
  <2>1. TextWords' = TextWords
    BY <1>2 DEF TextWords
  <2>2. SUFFICES ASSUME ShortWords, NEW w \in TextWords,
                        end = text.len \/ w.lo < start' + Overlap
                 PROVE  \E i \in DOMAIN out' : out'[i].lo <= w.lo /\ w.hi <= out'[i].hi
    BY <1>2, <1>4, <1>8, <1>12, <2>1 DEF WordsSoFar, Whole
  <2>3. /\ w.lo \in Nat /\ w.hi \in Nat /\ w.lo < w.hi /\ w.hi <= text.len
        /\ \A p \in w.lo .. w.hi - 1 : p \notin text.blanks
    BY <1>2 DEF TextWords
  <2>4. CASE out # <<>> /\ w.lo < start + Overlap
    <3>1. PICK i \in DOMAIN out : out[i].lo <= w.lo /\ w.hi <= out[i].hi
      BY <2>2, <2>4 DEF ChunkIInv, WordsSoFar, Whole
    <3>2. i \in DOMAIN out' /\ out'[i] = out[i]
      BY <1>2, <3>1
    <3>3. QED
      BY <3>1, <3>2
  <2>5. CASE ~(out # <<>> /\ w.lo < start + Overlap)
    <3>1. start <= w.lo
      BY <1>2, <2>3, <2>5, Sizes DEF ChunkIInv, Cursor
    <3>2. w.lo < end
      BY <1>2, <1>4, <2>2, <2>3, Sizes
    <3>3. end = text.len \/ end \in text.blanks
      BY <1>1, <1>2, <2>2, ShortWordsEndAtBlank
    <3>4. end - 1 \notin text.blanks
      BY <1>2, <1>4, <3>3 DEF ChunkIInv, Normal
    <3>5. w.hi <= end
      BY <1>2, <1>4, <2>3, <3>2, <3>3
    <3>6. start \in text.blanks => w.lo # start
      BY <2>3
    <3>7. lo <= w.lo /\ w.hi <= hi
      <4>1. lo <= w.lo
        BY <1>2, <1>3, <2>3, <3>1, <3>6
      <4>2. hi = end
        BY <1>3, <3>4
      <4>3. QED
        BY <3>5, <4>1, <4>2
    <3>8. n + 1 \in DOMAIN out' /\ out'[n + 1].lo <= w.lo /\ w.hi <= out'[n + 1].hi
      BY <1>2, <1>3, <3>7
    <3>9. QED
      BY <3>8
  <2>6. QED
    BY <2>4, <2>5
<1>15. QED
  BY <1>6, <1>7, <1>9, <1>10, <1>11, <1>13, <1>14 DEF ChunkIInv

LEMMA ChunkStutterIInv == ASSUME ChunkIInv, UNCHANGED chunkVars PROVE ChunkIInv'
<1>1. text' = text /\ start' = start /\ out' = out /\ done' = done
  BY DEF chunkVars
<1>2. ChunkTypeOK' /\ Normal' /\ Cursor' /\ Lossless' /\ ChunksAdvance'
  BY <1>1 DEF ChunkIInv, ChunkTypeOK, Normal, Cursor, Last, Lossless, Passed, Holds, ChunksAdvance
<1>3. EndsAtBlank' /\ WordsSoFar'
  BY <1>1 DEF ChunkIInv, EndsAtBlank, WordsSoFar, ShortWords, TextWords, Whole
<1>4. QED
  BY <1>2, <1>3 DEF ChunkIInv

LEMMA ChunkInvariance == ChunkSpec => []ChunkIInv
<1>1. ChunkInit => ChunkIInv
  BY ChunkInitIInv
<1>2. ChunkIInv /\ [ChunkNext]_chunkVars => ChunkIInv'
  BY CutIInv, ChunkStutterIInv DEF ChunkNext, Finished
<1>3. QED
  BY <1>1, <1>2, PTL DEF ChunkSpec

-----------------------------------------------------------------------------
\* Every variable keeps its type in the loop, for any text and any limits.
THEOREM ChunkTypeCorrectness == ChunkSpec => []ChunkTypeOK
<1>1. ChunkIInv => ChunkTypeOK
  BY DEF ChunkIInv
<1>2. QED
  BY <1>1, ChunkInvariance, PTL

\* Whatever the text and the sizes, no character but a blank is left out of
\* the chunks.
THEOREM NothingIsLost == ChunkSpec => []Lossless
<1>1. ChunkIInv => Lossless
  BY DEF ChunkIInv
<1>2. QED
  BY <1>1, ChunkInvariance, PTL

\* No chunk is empty or too long, each reaches beyond the one before it, and
\* neighbours share no more than Overlap.
THEOREM ChunksDoWork == ChunkSpec => []ChunksAdvance
<1>1. ChunkIInv => ChunksAdvance
  BY DEF ChunkIInv
<1>2. QED
  BY <1>1, ChunkInvariance, PTL

\* If no word is as long as the part of a chunk in which it may end, every word
\* is whole in some chunk.
THEOREM WordsAreKeptWhole == ChunkSpec => []WordsKeptWhole
<1>1. ChunkIInv => WordsKeptWhole
  BY DEF ChunkIInv, WordsSoFar, WordsKeptWhole, Whole
<1>2. QED
  BY <1>1, ChunkInvariance, PTL

\* Every turn of the loop but the last one moves on: it ends for every text.
THEOREM LoopAdvances == ChunkSpec => Advances
<1>1. ChunkIInv /\ [ChunkNext]_chunkVars => [done' \/ start' > start]_chunkVars
  <2>1. ASSUME ChunkIInv, Cut PROVE done' \/ start' > start
    BY <2>1, CutAdds
  <2>2. QED
    BY <2>1 DEF ChunkNext, Finished
<1>2. QED
  BY <1>1, ChunkInvariance, PTL DEF ChunkSpec, Advances
=============================================================================
