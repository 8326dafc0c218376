# Formal models of conversational-agent-rsi

TLA+ modules, TLC runs and TLAPS proofs about the Python services of this repository: the control API
(`apps/control_api`), the conversation runtime (`apps/conversation_runtime`), the policy DSL (`packages/policy_dsl`),
the knowledge base (`services/rag_service`), the evaluator (`services/evaluation_service`) and the improvement loop
(`services/rsi_orchestrator`). Paths below are relative to the repository root. Every
definition of a model names, in `PROJECT.json` under `map`, the lines it stands for.

## 1. The system

All state that lasts is in PostgreSQL (`apps/control_api/models.py`). One process of FastAPI handlers
(`apps/control_api/routes.py`, `openai_compat.py`) runs on one event loop; a handler opens one session
(`db.py:10`), every `await` in it is one statement or one HTTP call, and it commits at most once, at its end. Nothing
is locked explicitly: isolation is PostgreSQL's default, READ COMMITTED. So the concurrency of the system is the
interleaving of the statements of open transactions, in one process or in many replicas.

| Component | State | Operations | What is hard | What makes it correct |
|---|---|---|---|---|
| conversation runtime and event log | conversations, conversation_events, usage_ledger, tenants.kill_switch | create, message, chat completion, stop, branch, patch tenant | numbering by `max + 1`, a row read before and written after a 90 s model call, failures half way, waits for unique keys and row locks | the log is gapless and append-only, one whole batch per answered request; the row agrees with the log; no request hangs |
| policy DSL | none | diff, validate, apply mutation, choose action, sign | absent fields, repeated application | a mutation changes its component only |
| policy registry and improvement loop | policy_versions, agent_versions, experiments, candidates, promotion_decisions | register version, create experiment, propose candidates, promote | numbering by `max + 1`, generations of candidates, promote after reject | gapless versions, no orphan policy, protected fields kept, no signature without a passed gate |
| deployments and rollback | deployments, conversations.deployment_id | deploy, roll back, policy lookup of a turn | rollbacks that race on a chain, stale reads, lost updates | only signed policies serve, something always serves, one policy per conversation |
| knowledge base and retrieval | knowledge_sources, knowledge_chunks, knowledge_snapshots | register source, snapshot, retrieve | deduplication by read-then-insert, version numbering without a constraint, the empty filter, the chunking loop | a snapshot's retrieval is confined to its sources; chunks cover the text |
| evaluation, promotion gate, Pareto, exact replay | none (replay reads events and the ledger) | evaluate, gate, dominate, replay | defaults that pass, division by a baseline of 0, counting the ledger around a replay | a gate never passes a regression; the usage a replay reports is never that of the turns it replays |
| tenants and their audit trail | tenants, audit_events | create tenant, patch tenant | a patch prepared on a stale row, an audit row hashed from the session's copy and dated before the row lock | a trail without a fork ends at the settings in force; no stale patch lifts the kill switch |
| authentication and permissions | none (a role table) | `require` on each route | which roles together can take every step | nobody but the owner proposes and approves what answers |
| audit and usage | audit_events, usage_ledger | append, list the newest | a row without what it describes | the ledger counts the answers of the log |
| provider adapters | none | HTTP calls to the gateway | timeout, error | (inside the runtime's model) |
| simulation, durable worker, artifact registry | none | answer, retry, package | bounded depth, retries | |
| projects, agents, scenarios, suites, evaluations, reviews | rows that are inserted and listed | create, list | | |
| API shell, settings, schemas, migrations, scripts, web console, domain packs, infrastructure | | one middleware turns every exception into an answer 500 | a client cannot tell what became of its call | an answer means a committed turn |

Interaction is through rows only. A turn reads its conversation, its tenant's kill switch, its deployment and the
deployment's policy, then appends events and updates its conversation. `promote` signs a policy, `create_deployment`
requires a signed policy, `rollback` moves two deployments. Nothing calls back and there is no queue: NATS, Redis,
Qdrant, MinIO and the Temporal worker are configured, and no route uses them.

`PROJECT.json` lists every component with its status and every hazard with its line; a hazard that no property covers
carries a note that says why.

## 2. Modules

| Module | Models | Rests on |
|---|---|---|
| `ConversationLog` | what readers of the event table may rely on: whole batches, appended | |
| `ConversationRuntime` | `runtime.py`, the conversation routes, `openai_compat.chat`, the kill switch, PostgreSQL's waits | `ConversationLog` as its abstract specification |
| `ClientSessions` | clients that try again, lost answers and acknowledgements, the connection pool, `trace_middleware` | extends `ConversationRuntime` |
| `ConversationRuntimeProofs` | inductive invariant, `TypeOK`, `LogGapless`, `StopSticks`, `ImplementsConversationLog` | `ConversationRuntime` |
| `ConversationStateProofs` | what the row says of the log, deadlocks, what clients are told: six theorems | `ConversationRuntimeProofs`, `ClientSessions` |
| `ExactReplay` | the route `replay` and `exact_replay` while requests write | the batches of `ConversationLog` |
| `PolicyDSL` | `policy_dsl/core.py`, `propose_candidates` | |
| `PolicyRegistry` | agent versions, experiments, candidates, promotion | `PolicyDSL` |
| `PolicyRegistryProofs` | lemmas about the DSL, inductive invariant, eight theorems | `PolicyRegistry` |
| `DeploymentControl` | deployments, rollback, which policy answers | |
| `DeploymentControlProofs` | inductive invariant, five theorems | `DeploymentControl` |
| `ReleasePipeline` | the two side by side on one table of policies, with the roles of `auth.py` | INSTANCEs of `PolicyRegistry` and `DeploymentControl` |
| `ReleasePipelineProofs` | the composition, four theorems | INSTANCEs of the two proof modules |
| `TenantAdministration` | `create_tenant`, `patch_tenant`, their audit rows | |
| `TenantAdministrationProofs` | inductive invariant, three theorems | `TenantAdministration` |
| `KnowledgeBase` | source registration, snapshots, retrieval | |
| `ChunkText` | the loop of `chunk_text` | |
| `KnowledgeBaseProofs` | inductive invariants of both, twelve theorems | `KnowledgeBase`, `ChunkText` |
| `PromotionGate` | `evaluate_deterministic`, `weighted_score`, `promotion_gate`, a loop of promotions | |
| `GateAndReplayProofs` | sums and recursive functions by induction, inductive invariants, seven theorems | `PromotionGate`, `ExactReplay` |

The module `MCX` holds the values of the constants for the runs of module `X`.

A definition preceded by a comment "A mutant of ..." is not part of the model: it is a plausible bug in the definition
it names, kept to show that the property it breaks depends on that line of code.

### ConversationRuntime

Each request has a program counter. Its values are the awaits of the code:

| `pc` | next action | code |
|---|---|---|
| `idle` | `LoadTurn`, `OpenChat`, `LoadStop`, `LoadBranch` | the SELECT at the head of the route, or the new row of a chat or a branch |
| `kill` | `CheckKill`, `Killed` | `runtime.py:29-36`, then `inspect_text` |
| `max` | `ReadMax` | `append_event`, `runtime.py:18` |
| `insert` | `Insert`, `Duplicate` | the flush of the event row; the UNIQUE constraint `models.py:105` |
| `generate`, `await` | `CallModel`, `Answered`, `GatewayError` | `runtime.py:64-81`, `provider_adapters/models.py:28` |
| `update` | `Update` | the UPDATE of the row that the next SELECT flushes |
| `commit` | `Commit` | `session.commit()` in the route |

`mem` is the row as the session loaded it, `pend` and `upd` are what its open transaction has inserted and whether it
holds the row lock. A commit writes only the columns the session changed. `Waits` says when a statement waits: an
insert of a number that another open transaction inserted, an update of a row that another one updated. `Crash` and
`DeadlockVictim` may end any open request; with them nothing of its transaction survives. The text of the user
(blocked or not), the policy's choice (evidence or not) and the gateway's answer are open choices. Tokens, texts and
history are left out; `state_hash` is the `turn_index` that was hashed.

Not in this model: the policy lookup (`DeploymentControl` has it), reads that change nothing (events, lists), the
connection pool (`ClientSessions`) and several tenants (no step of one tenant reads a row of another).

### ClientSessions

A request of the runtime is one attempt of a client. `Send` queues it; `Serve` gives it a connection and runs its first
statement, `PoolTimeout` is SQLAlchemy's refusal after 30 s with all connections taken, `NotFound` the 404. A connection
is held from then until the transaction ends (`Sessions`), the model call included. `Deliver` and `DeliverError` are the
two answers: `trace_middleware` (`main.py:19-26`) makes an answer 500 of every exception, so `AcknowledgementLost`, a
commit that raises although the database committed, looks like any other failure. `GiveUp` is the client's own timeout
or a lost answer; the handler goes on. After an error or silence the client may send another attempt, which is a new
request, since no route reads an idempotency key. Clients speak or stop; `create_conversation` and `patch_tenant` are
one step and need a free connection.

### ExactReplay

The writers append the batches of `ConversationLog` with the provenance of their rows. That the runtime's transactions
commit such batches is not a question of this module: `ImplementsConversationLog` of `ConversationRuntime` answers it,
and this module takes it from there. `replay` is its three statements: the rows (`ReadRows`), the count of the ledger (`CountBefore`),
the second count with the answer (`CountAfter`). `exact_replay` is the comprehension that selects the rows labelled observed, as a
recursive function over the rows; `ReplayIsHistory` says what it returns without it (`IsObservedPart`). The names of this
module and of `ChunkText` carry a prefix, so that one proof module can extend them beside another module.

### PolicyRegistry and PolicyDSL

A document gives each field a dictionary or `Missing`, a dictionary three keys: `context_k` and `max_turns`, which the
generator computes with, and `other` for what it only sets. The two are natural numbers: `int()` of any other JSON value
(`rsi_orchestrator/core.py:13` and 18), a negative number, a fraction that it truncates or a value that it refuses, is
not modelled. Names and free text are dictionaries too: no property
looks into them. `create_agent_version` is three steps (the read of the highest number, the insert that may
wait or fail, the commit) because builders race for the number; its policy row goes with its transaction. The other
routes read rows that never change again and insert rows of their own or raise a status, so each is one step. Scores
are hundredths. `experiments` keeps the baselines only, since nothing else of an experiment is read. A promotion of a
candidate that does not exist only adds a decision row and is left out.

### DeploymentControl

`rollback` is three steps: the two SELECTs, and the flush with its commit. `Flushed` is the unit of work's rule that a
column is written only when its new value differs from the one that was *read*; that rule is what makes a rollback that
lost a race skip the column it means to set. The two UPDATEs are issued in the order of the primary keys, so two
rollbacks cannot wait for each other and the pair is one step with the commit. Rollback targets are earlier rows (a
client can only name an id it has seen); a target that names no row ends in 404, like the missing one in 422.
`signed` stands for the registry, which `ReleasePipeline` puts in its place. `OpenChat` is `openai_compat.chat`: it
opens a conversation on a deployment or goes on with one that may be on another.

### ReleasePipeline

`PolicyRegistry` and `DeploymentControl` are instantiated on one set of variables; the `signed` of the second is the
set of policies whose status is signed in the first. Each step is a step of one half, and the other half's variables
stay. The first step of every route is taken by a role that has the route's permission (`require`); `duties` notes
which role proposed and approved which policy, a history variable that no action reads. `ROLE_PERMISSIONS` names only
the permissions of these routes.

### TenantAdministration

`patch_tenant` is three steps. `LoadTenant` is the SELECT with the assignments. The flush of the commit issues two
statements, INSERT of the audit row first, since SQLAlchemy flushes mappers that do not depend on each other in the
order of their names: `InsertAudit`, which takes `created_at` from the clock (`models.py:236`). The UPDATE of the tenant
may then wait for the row lock; from the lock to the commit nothing is read, so both are `CommitPatch`. `Flushed` is
the same rule of the unit of work as in `DeploymentControl`. The audit row, which readers see from the commit on and
sort by `created_at` (`routes.py:266`), says no more than the code stores: `before_hash` and `after_hash` stand for one hash each of the
whole row as the session has it, of a new tenant only of its name (`routes.py:34`). In the model a hash is what is
hashed, and it is only compared, never read by column: collisions are left out. `Stored` is what a column
returns for a value that was assigned, as 1.0 for 1: the `after_hash` has the client's spelling, the next `before_hash`
the table's. A body is any set of keys, among them ones that are no column; a value that a column refuses ends in
`CrashPatch`. `clock` gives no time twice and never steps back, which is assumed of the host's clock and its
microseconds; replicas whose clocks differ are left out, and so is that the list shows the newest 200 rows. A second `POST` of a
tenant fails on its primary key and changes nothing.

### KnowledgeBase and ChunkText

The tables of the knowledge base have no UNIQUE constraint and no row of them is changed, so nothing waits and an insert
is one step with its commit. `job[r]` says where a client's request stands: `register` after the SELECT for the checksum
(`routes.py:147`), `number` after the check of the sources (165), `publish` after the SELECT of the highest version
(167), `search` after the SELECT of the snapshot (`service.py:28`); `registered` and `found` hold the answer, `Proceed`
is the client's next request. A chunk is the set of its words, and a score the number of the query's words in it:
`lexical_score` divides it by the same number for every chunk. What the LIMIT leaves and how equals are ordered are open
choices, since the statement has no ORDER BY. Left out: the project of a source, which no code reads, quotes, and the
confidence of an answer.

`ChunkText` is the loop alone, over a text given by its length and the positions of its blanks after `re.sub` and
`strip`. A step is one turn of the loop. `rfind` from the end followed by a comparison is `Late` and its maximum.
`KnowledgeBase` takes its result as the constant `Text`.

### PromotionGate

Scores are integers of a `Scale` in which the evaluator's fractions are whole; weights, the gain and the coverage are
compared by cross multiplication, so what rounding does to a gain of exactly 5% is not modelled, nor what `max(abs(b), 1e-9)` does to a baseline
smaller than that. A score sheet is a
function on the criteria that were submitted; a request may contain any numbers, so the sheets that no evaluation made
hold any integers, also negative ones, whose gain is measured against the size of the baseline. `promote` is the whole loop: the client takes the sheet of what is in
production as its baseline, which no code checks; the signature that an approval writes is in `PolicyRegistry`.

## 3. Runs

| Run | Question | Instance | Result |
|---|---|---|---|
| `runtime_safety` | do the log, the row and the ledger survive every interleaving and failure? | 3 requests, 2 conversations, symmetric, about 500,000 states | holds |
| `runtime_liveness` | is what clients are told true, and does every call end? | 3 attempts of 2 clients, 1 conversation, 2 connections, about 160,000 states | holds |
| `exact_replay` | what is a replay worth while the conversation goes on? | 2 replays, 1 conversation of up to 8 rows, about 400,000 states | holds |
| `policy_registry` | do racing builders and the improvement loop keep the registry sound? | 2 builders, 2 agents, 4 policies, 2 decisions, 2 documents, 3 scores, about 200,000 states | holds |
| `deployments` | do racing rollbacks keep a signed, serving deployment? | 2 rollbacks, 3 deployments, 2 policies, 2 conversations, about 640,000 states | holds |
| `release_pipeline` | can a policy answer that no gate let through, or that one role pushed through? | 2 builders, 1 rollback, 2 policies, 2 decisions, 2 deployments, 6 roles, about 200,000 states | holds |
| `tenant_administration` | what is the audit trail worth when patches overlap? | 3 patches, 2 tenants, 6 bodies, about 560,000 states | holds |
| `knowledge_base` | do racing registrations and snapshots keep retrieval confined and repeatable? | 2 clients, 2 tenants, 2 projects, 2 sources, 2 snapshots, LIMIT 2, about 390,000 states | holds |
| `chunk_text` | does chunking lose text or words? | every text of up to 19 characters, chunks of 10, overlap 2, about 40,000 states | holds |
| `promotion_gate` | are promotions earned? | 19 evaluations, 15 other sheets (some below 0), about 5,500 states | holds |
| `runtime_projection` | is `turn_index` a projection of the events? | 2 turns | violated: two turns load the same row and one increment is lost |
| `rollback_race` | is the target active when a rollback says so? | 2 rollbacks, 3 deployments | violated: lost update |

The violated runs check what a document of the repository says; `findings` in `PROJECT.json` quotes it.

Other statements of the documents can be compared with the code by reading a few lines of it, and no run is spent on
them:

- `append_event` labels every row `observed` but the first of a branch or a simulation (`runtime.py:17`), and
  `docs/IMPLEMENTATION_COVERAGE.md:7` promises explicit provenance; `exact_replay` therefore leaves out that one row.
- A rolled-back deployment goes on answering the conversations that are on it: `run_turn` reads its policy, not its
  status (`runtime.py:38-48`).
- The gate passes a candidate without a grounding score (`rsi_orchestrator/core.py:38` counts it as 1), and
  `SECURITY.md:5` calls the gates fail-closed.
- No route reads an idempotency key, which `README.md:18` and `docs/api/README.md:2` list. `AnsweredIsRecorded` says
  what holds without one.
- The `usage_ledger_delta` of a replay counts turns that commit between its two counts (`routes.py:241-243`), and
  `README.md:80` has it at 0 for a replay. `CostIsNotOfReplayed` says that those turns are never the replayed ones.
- `run_turn` reads `kill_switch` once, before the events and the model call (`docs/operations/runbook.md:10`: it stops
  new generations). The request that sets it waits for the pool like any other.
- No code reads `default_max_turns` (`docs/operations/configuration-guide.md:238`: conversations terminate at it) or the
  budgets.
- `create_deployment` takes any stage first (`docs/architecture/overview.md:5`: promotion only through shadow and
  canary).
- The header `x-rsi-policy-version` of a chat names the policy of the deployment that was asked for
  (`openai_compat.py:20` and 37), while a conversation that began on another is answered with that one's policy.
- A snapshot of no sources searches every chunk of the tenant, also those registered later (`README.md:12`: snapshots
  are immutable).
- A `project_admin` registers a version, whose policy is signed at once, and deploys it, alone: the two roles of
  `ReleaseTakesTwo` stand between proposal and approval of *candidates* only.

What the properties of the passing runs say:

- `LogGapless`, `MessageIsNewest`, `StateMatchesNewestAnswer`, `NeverOvercounts`: the UNIQUE constraint on
  `(conversation_id, sequence_no)` does more than number rows. A transaction that inserted a number keeps every other
  writer of the conversation waiting until it ends, so a turn that got its first row in is the only writer for as long
  as the model takes, and the projected state follows the order of the log. What it does not prevent is that two turns
  *loaded* the same row before: `turn_index` may fall behind (`runtime_projection`) and never runs ahead.
- `OnlyTurnAndStopDeadlock`: of all kinds of requests only a turn and a stop take the two locks in opposite orders.
- `ImplementsConversationLog`: a reader never sees a part of a turn, and the ledger has one row per answer.
- `AnsweredIsRecorded`: at least as many messages are in the log as answers were heard, and at most as many as attempts
  got a connection: an answer is never given for a transaction that did not commit, whatever is lost on the way.
- `EveryCallEnds`: waiters on a unique key, a lock cycle, a pool full of turns that wait for a silent gateway, and the
  client that queues behind them: all of it dissolves.
- `CostIsNotOfReplayed`, `ReplayIsHistory`: the order of the three statements makes the counts err on one side only, and
  what was replayed is and stays the history up to the end of a batch; that batches are committed whole is what
  `ImplementsConversationLog` says.
- `StopSticks`: a turn in flight does not undo a stop, since it writes only `state_json`.
- `VersionsGapless`, `NoOrphanPolicy`: the loser of a race for a version number leaves nothing behind.
- `ProtectedFieldsKept`, `CandidatesAreValid`, `TuningIsBounded`: what the improvement loop may and may not do over
  generations. `promote` never looks at `validation_status`; `CandidatesAreValid` is why it need not.
- `ServingImplemented`, `AnswersAreEarned`, `ReleaseTakesTwo`: each route looks at one row, and the chain holds all the
  same: signatures are never taken back, so what `create_deployment` checked is true when a rollback reactivates it.
- `TrailEndsAtRow`: the newest audit row need not be about the settings in force. Patch B inserts its audit row, A
  inserts its own, updates and commits, then B updates and commits: the trail ends with A, the row has B's value. And a
  hash of two overlapping patches can be of a row that never was. But B and A then read the same row, and the trail
  has two rows with one `before_hash`: a fork. The property says that this is the only way: a trail of hashes tells by
  itself when it must not be relied on, and ends at the row in force otherwise. A setting that was changed back
  (off, on, off, on) forks a trail as well, so a fork is a doubt and not a proof.
- `KillLiftedKnowingly`: a stale patch does not lift the kill switch, even one that names it, because an UPDATE writes
  only the columns that differ from what was read.
- `DeployedIsSigned`, `RolledBackHasTarget`, `RollbackPromotesTarget`, `OnePolicyPerConversation`: stage and traffic
  of a target only ever move towards production and therefore survive the lost update that the status does not.
- `DuplicatesStop`: the checksum is looked up before the insert and not unique, so registrations that overlap may both
  insert; what is left of the promise is that no registration that starts later does.
- `RetrievalIsRepeatable`, `BestAreCited`, `RetrievalIsConfined`: what an immutable snapshot is worth, as long as it
  names its sources and its chunks fit the LIMIT. `RetrievalIsConfined` rests on `ManifestsAreOwn` and on the tenant in
  the chunk's own row: either alone is not enough for a snapshot of no sources.
- `WordsKeptWhole`: chunks begin in the middle of words, and `lexical_score` compares whole words; still every word is
  whole in some chunk, because chunks end at blanks. The bound on the words is the sharp one: with words of
  `Target - Target \div 2` characters TLC finds a text that loses one.
- `NoReturn`, `DominatedIsRejected`, `PromotionIsEarned`: the gate compares one weighted number, and these say what
  that number is worth: over any series of promotions, against the Pareto order, and back to what was counted in the
  conversations. Sheets with different criteria are means over different weights; a gain raises the mean all the same,
  so `NoReturn` does not ask that a series keeps its criteria.

### Bounds

Three requests are the smallest number with a chain of waiters, a cycle with a bystander, and a third writer that finds
a number committed while two others wait. Two conversations let a branch read one and write the other. Four policies
hold two versions with two candidates, or one version with two generations, or the three candidates of one proposal.
Three deployments are the shortest chain in which the target of one rollback is the deployment of another.
Two sources have three chunks or more, one more than the LIMIT of the run; two clients are enough for every race of two
statements, and answers stay while the other client goes on. Nineteen characters are three to four chunks with every
place of a blank. Two and five answers give qualities and groundings on both sides of 0.9, which two of five ungrounded
answers meet exactly.
Two attempts of one client and one of another are a retry that overlaps its own first attempt and a lock cycle; with
two connections these fill the pool while a third request waits. Eight rows are a start, a turn that a replay may catch before,
and another after it or between its counts. The pipeline has two policies, so a candidate of the first generation, and one conversation, so no branch (`deployments` has two); longer
chains are left to `policy_registry` and to the proofs. Three patches are a stale one, the one that overtook it, and
one prepared on what neither has seen; each takes the clock once. `ClientSessions` creates its conversations with one label, as none of its properties
reads it.
`MaxPolicies`, `MaxSources`, `MaxSnapshots`, `MaxDecisions`, `MaxDeployments` and `MaxRows` bound tables; each request is sent once. There is no bound on the
turns of a conversation other than the number of requests. The theorems need none of these bounds.

### Fairness

`ClientsFairness` has weak fairness on `Progress(r)`, everything a request does on its own: the event loop runs every ready
coroutine, PostgreSQL answers a statement that does not wait, its deadlock detector aborts one member of a cycle, and
the HTTP client raises after 90 s (`provider_adapters/models.py:28`), which is `GatewayError`. It has weak fairness on
`Serve(r) \/ NotFound(r) \/ PoolTimeout(r)` as well: the pool hands out a free connection or gives up after its timeout.
`Answered` is in neither: the gateway may never answer. Nothing is assumed of clients, of the network, of `PatchKill` and of
`Crash`. The mutant without the gateway's timeout shows that `EveryCallEnds` needs it: one call that never returns
holds its event number, and so every later writer of the conversation, for ever. The other specifications have safety
properties only and state no fairness.

## 4. Proofs

All theorems hold for any constants that satisfy the named assumptions: `Conversations` is not empty, the labels
`observed` and `counterfactual` exist, a client says one kind of thing, the pool has a connection, `Missing` is no number
and no dictionary, `Bodies` are documents, `Default` and `Absent` are not policies and numbers, `Tenants` is not empty,
request bodies have values of the columns, a stored value is returned unchanged when it is stored again, the words of a query are a finite set, the overlap of chunks is less than half of their
size, score sheets hold integers for criteria that have a weight, and the scores of an evaluation come out whole at the
`Scale`. The number of requests, clients, builders, rollbacks, rows and conversations is arbitrary.

- **Runtime** (`TypeCorrectness`, `EventsAreGapless`, `StoppedIsForever`). `LogGapless` is not inductive: it needs that
  the rows a transaction holds continue the committed log (`PendContinuesLog`), which needs that no two transactions
  hold rows of one conversation (`OneWriter`), which follows at `Insert` from `~Waits` and from the computed number being
  at most one beyond the log (`SeqIsBounded`). `FreshIsPrivate` keeps everybody else away from a conversation that is
  being made. `VisibleIsInterval` is the lemma about `Top(Visible(r))`: what a session sees is an interval from 1.
- **Refinement** (`RuntimeImplementsLog`, in the same module): `BatchOf` says at each program counter which rows are in `pend`; at `commit`
  they have one of the shapes of `ConversationLog`, so `Commit` and `Create` are steps of it and all others stutter.
- **Row and log** (`QuestionIsNewest`, `RowHasNewestState`, `CountIsBacked`). `MessageIsNewest` follows from
  `IInv` and `Batches`: the rows in hand begin with the question and continue the committed log.
  `StateMatchesNewestAnswer` compares committed rows, so it needs an invariant about the turns that will commit next:
  `Handlers` says that a turn changes the row only once it has answered and holds what its last event row hashes.
  `Rows` is the strengthened property: the row is that of the newest row that has a state. `NeverOvercounts` does not
  follow from it, since a state may be computed from a stale row; `Counts` adds what each open turn
  holds: at most what the committed log accounts for (`Known`) and its own answer, and the log never accounts for less.
- **Deadlocks** (`DeadlockIsTurnAndStop`). If what holds an event row waits in turn, it is a turn that waits for the row
  lock (`RowHolderIsTurn`); if what holds the row lock waits, it is a stop that waits for an event row
  (`LockHolderIsStop`). So a chain of waits alternates between the two kinds, and as `OneWriter` lets only one transaction
  hold event rows of the conversation, it closes over one turn and one stop.
- **Clients** (`SessionsAreRequests`, `AnswersAreRecorded`). A step of the clients is a step of the runtime or a stutter
  (`SessionStep`), so all invariants above hold of `ClientSessions` too. `OneRowEach` counts over all
  conversations: as many rows take a message (answered or refused as an injection) as attempts to speak have committed, and
  `Calls` says that an answer is heard of committed attempts only.
- **Registry** (`TypeCorrectness`, `VersionsAreGapless`, `PoliciesHaveVersions`, `ProtectedFieldsAreKept`, `ProposalsAreValid`,
  `TuningStaysBounded`, `CandidatesAreSignedThroughGate`, `RegistryIsAppendOnly`). First the DSL: a mutation is local
  (`MutationIsLocal`), every proposal is one of four suggestions applied to its baseline (`ProposalsAreMutations`), and
  each of those is valid and bounded. `Grows` then says once what any step does to the policies, and the invariants about
  policies follow from it. Validity needs that every registered document is well formed (`DocumentsAreWellFormed`, from
  the defaults that `create_agent_version` fills in) and that parents come first (`ParentsAreEarlier`). The numbering
  argument is the runtime's, with one row per transaction.
- **Deployments** (`TypeCorrectness`, `OnlySignedIsDeployed`, `RollbackHasRefuge`, `ConversationKeepsPolicy`, `RollbackPromotes`). What a
  session read and nobody writes is current (`DepIsCurrent`); what others write has only moved towards production
  (`TargetOnlyPromoted`), so not writing an unchanged column loses nothing for stage and traffic.
- **Pipeline** (`TypeCorrectness`, `PipelineServes`, `AnswersWereEarned`, `ReleaseTookTwo`). The registry's half of a step is
  a step of `PolicyRegistry`, so its theorems hold of the composition, `RegistryIsAppendOnly` among them; with that the other half is a step of
  `DeploymentControl`, whose assumption that signatures only grow is thereby discharged, and its theorems hold too.
  What remains is to carry both along a chain: what answers was deployed, what is deployed is signed, and what is signed
  has a version or an approved decision; and `duties` records who took each of those steps.
- **Tenants** (`TypeCorrectness`, `OverlapShows`, `NoStaleLift`). A trail stays forked once it is (`ForksStay`). Until then
  (`Clean`) its newest row is about the row in force, and each open patch is of one of two kinds (`HasRead`): it has read what
  some change of the trail began with, so that its commit forks the trail, or it has read the row in force and
  its audit row is newer than the trail, so that its commit ends it. Another commit turns the second kind into the first
  (`CommitKeepsClean`). `Stamped` keeps the times of audit rows apart, `Untold` says that a tenant without a row has no trail.
- **Chunking** (`ChunkTypeCorrectness`, `NothingIsLost`, `ChunksDoWork`, `WordsAreKeptWhole`, `LoopAdvances`), for every text, target and
  overlap with the overlap below half of the target. `Cursor` says where the loop stands relative to its last chunk,
  `EndsAtBlank` and `WordsSoFar` are `WordsKeptWhole` for the part that is done; `ShortWordsEndAtBlank` is the reason.
- **Knowledge base** (`TypeCorrectness`, `ManifestsStayOwn`, `SnapshotVersionsAreGapless`, `CitationsAreConfined`).
  No row is changed, so what a request has read stays true: `StillTrue` says so of each kind of request, and one lemma
  (`GrowthKeepsTruth`) keeps it over every step of the others.
- **Repeatable answers** (`AnswersAreRepeatable`, `CitationsAreBest`, `DuplicatesAreBounded`). `Ranked` says of every
  answer that it is a top of the matches its snapshot has *now*, which stays true because the content of a named source
  never changes (`ContentStays`). Two tops of one set may differ where scores are equal; `TopCounts` says how many citations
  reach a score, whatever the order of equals, and two sets that agree on that for every score agree on how many have it
  (`TopsAgree`, `ScoreCounts`). `DuplicatesStop` counts the registrations under way that have looked and not yet inserted.
- **Gate** (`GateTypeCorrectness`, `NoDominatedIsApproved`, `PromotionsGain`, `PromotionsAreEarned`). `weighted_score` sums
  over a set of criteria with the recursive `MapThenSumSet`; `EverySumIs` shows by well-founded induction over the subsets of
  the criteria that it is the sum of eight terms, and `WeightedScoreIs` that both scores of a comparison have it. From
  there the score is monotone (`ScoreIsMonotone`), which rejects what is dominated, and comparing quotients is transitive
  for any denominators (`BetterIsTransitive`), so that `ProductionGained`, production is the first baseline or above it, is inductive.
  `RatesDecide` leads a gain back to the counts of two evaluations.
- **Replay** (`ReplayTypeCorrectness`, `RepliesAreNotCharged`, `ReplaysAreHistory`). `ReplayKeeps`
  unfolds the recursive function, and an induction over the rows (`AllNumbers`) gives what it selects (`ReplayIsObserved`).
  In `ReplayIInv` the rows a replay has read are a beginning of the log (`Begins`) that ends with a batch (`Finished`), and the
  ledger counts at least their answers at each of the two counts, so the difference charges none of them.

Induction over data is done where these two need it without the library's rules, which take an operator as parameter: the
set of counterexamples is a subset of the numbers (or of the subsets of the criteria), and a least member of it is
refuted.

Proved and not run, because a run checks something that implies them or a type only: `LogGapless` (from
`ImplementsConversationLog`), `SignedThroughGate` and `RegistryOnlyGrows` (what `AnswersAreEarned` and
`ServingImplemented` rest on), `ManifestsAreOwn` (what `RetrievalIsConfined` rests on), `Advances`, and the type
invariants of `DeploymentControl`, `ReleasePipeline`, `TenantAdministration`, `KnowledgeBase` and `ChunkText`.

Model-checked only: `EveryCallEnds`, which is liveness under fairness and beyond the prover, and the two violated
properties. Every other property of a passing run is stated by a theorem.

## 5. Plan

What is left: `PolicyRegistry` with the verdict of `PromotionGate` in place of an open choice, so that `AnswersAreEarned` reaches
back to what was counted in conversations. It needs the score sheets in the decisions of the registry.

Not modelled: the simulation service (a table of answers), the durable worker (one activity that returns its input;
nothing starts it), the artifact registry (nothing calls it), projects, agents, scenarios, suites, evaluations and
reviews (one INSERT each, which no later step changes), the web console (static pages), migrations, seed and scripts,
domain packs and infrastructure. Tokens, hashing, signing, wording, logging, metrics and headers are left out of every
model.
