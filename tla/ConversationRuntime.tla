------------------------- MODULE ConversationRuntime -------------------------
(***************************************************************************)
(* The requests of the control API that write a conversation: a turn on an *)
(* existing conversation (routes.message, openai_compat.chat), a turn that *)
(* opens a conversation (openai_compat.chat without a known id), stop and  *)
(* branch (routes.py), each running on its own database session.           *)
(*                                                                         *)
(* A handler gives up control at every await, so each step below is one    *)
(* database statement or one gateway call of one request.  The database    *)
(* is PostgreSQL at its default isolation, READ COMMITTED: a statement     *)
(* sees what is committed when it runs and what its own transaction wrote; *)
(* an INSERT of a unique key that another open transaction inserted waits  *)
(* for that transaction; an UPDATE waits for the row lock; a cycle of      *)
(* waiters loses one member.  SQLAlchemy writes only the columns that      *)
(* changed, and flushes a pending UPDATE before the next SELECT.           *)
(***************************************************************************)
EXTENDS Naturals, Sequences, FiniteSets

CONSTANTS Conversations,   \* conversation ids
          Requests,        \* HTTP requests; each is sent at most once
          SourceKinds      \* provenance labels a client may create with

ASSUME ConversationsAssumption == Conversations # {}

ASSUME SourceKindsAssumption ==
  {"observed", "counterfactual"} \subseteq SourceKinds

VARIABLES
  conv,    \* committed conversations rows
  log,     \* committed conversation_events rows, by conversation
  usage,   \* committed usage_ledger rows of each conversation, counted
  kill,    \* committed tenants.kill_switch
  pc,      \* where each request is
  kind,    \* what each request does
  tgt,     \* the conversation it writes
  mem,     \* the conversation row as its session holds it
  ev,      \* the event append_event is adding, or "none"
  seq,     \* the number append_event computed for it
  pend,    \* event rows its open transaction inserted
  upd      \* its open transaction updated the row, and so locks it

db   == <<conv, log, usage, kill>>
vars == <<conv, log, usage, kill, pc, kind, tgt, mem, ev, seq, pend, upd>>

Kinds  == {"turn", "open", "stop", "branch"}
Events == {"conversation.started", "security.injection_detected",
           "message.received", "action.selected", "retrieval.completed",
           "message.sent", "conversation.finished"}
Closed == {"idle", "ok", "failed"}
PCs    == Closed \cup {"kill", "max", "insert", "generate", "await",
                       "update", "commit"}

Row   == [status : {"absent", "active", "stopped"}, turn_index : Nat,
          source_kind : SourceKinds]
Event == [sequence_no : Nat, event_type : Events, source_kind : SourceKinds,
          state_hash : Nat]

Absent == [status |-> "absent", turn_index |-> 0, source_kind |-> "observed"]
Active(turns, sk) ==
  [status |-> "active", turn_index |-> turns, source_kind |-> sk]

\* What tgt says of a request that has no open session.
Nowhere == CHOOSE c \in Conversations : TRUE

-----------------------------------------------------------------------------
\* Reading and writing under READ COMMITTED.

Open(r) == pc[r] \notin Closed

\* This request inserts its conversation row; no other session sees it yet.
Fresh(r) == kind[r] \in {"open", "branch"}

\* uuid4 gives an id that no row has, committed or not.
Free(c) == /\ conv[c].status = "absent"
           /\ \A r \in Requests : Open(r) => tgt[r] # c

Visible(r) == {log[tgt[r]][i].sequence_no : i \in DOMAIN log[tgt[r]]}
                \cup {pend[r][i].sequence_no : i \in DOMAIN pend[r]}

Top(S) == CHOOSE n \in S \cup {0} : \A m \in S : m <= n

Committed(c, n) == \E i \in DOMAIN log[c] : log[c][i].sequence_no = n

\* s has inserted, and not yet committed, event number n of conversation c.
Holds(s, c, n) == /\ Open(s)
                  /\ tgt[s] = c
                  /\ \E i \in DOMAIN pend[s] : pend[s][i].sequence_no = n

WaitsFor(r, s) ==
  /\ r # s
  /\ \/ pc[r] = "insert" /\ Holds(s, tgt[r], seq[r])
     \/ pc[r] = "update" /\ Open(s) /\ tgt[s] = tgt[r] /\ upd[s]

Waits(r) == \E s \in Requests : WaitsFor(r, s)

Deadlocked(S) == S # {} /\ \A r \in S : \E s \in S : WaitsFor(r, s)

\* A cycle of waiters, as PostgreSQL's deadlock detector looks for one.
Cycle(S) == Deadlocked(S) /\ \A T \in SUBSET S : Deadlocked(T) => T = S

-----------------------------------------------------------------------------
Init ==
  /\ conv = [c \in Conversations |-> Absent]
  /\ log = [c \in Conversations |-> <<>>]
  /\ usage = [c \in Conversations |-> 0]
  /\ kill = FALSE
  /\ pc = [r \in Requests |-> "idle"]
  /\ kind = [r \in Requests |-> "turn"]
  /\ tgt = [r \in Requests |-> Nowhere]
  /\ mem = [r \in Requests |-> Absent]
  /\ ev = [r \in Requests |-> "none"]
  /\ seq = [r \in Requests |-> 0]
  /\ pend = [r \in Requests |-> <<>>]
  /\ upd = [r \in Requests |-> FALSE]

Goto(r, label, event) == /\ pc' = [pc EXCEPT ![r] = label]
                         /\ ev' = [ev EXCEPT ![r] = event]

\* The session is closed: its transaction ends and its memory is dropped.
Close(r, outcome) == /\ Goto(r, outcome, "none")
                     /\ kind' = [kind EXCEPT ![r] = "turn"]
                     /\ tgt' = [tgt EXCEPT ![r] = Nowhere]
                     /\ mem' = [mem EXCEPT ![r] = Absent]
                     /\ seq' = [seq EXCEPT ![r] = 0]
                     /\ pend' = [pend EXCEPT ![r] = <<>>]
                     /\ upd' = [upd EXCEPT ![r] = FALSE]

\* An exception leaves the handler: nothing of the transaction survives.
Abort(r) == Open(r) /\ Close(r, "failed") /\ UNCHANGED db

-----------------------------------------------------------------------------
\* Requests that finish in one step nobody can observe a part of.

\* POST /conversations: every row it writes is its own until it commits.
Create(c, sk) ==
  /\ Free(c)
  /\ conv' = [conv EXCEPT ![c] = Active(0, sk)]
  /\ log' = [log EXCEPT ![c] = <<[sequence_no |-> 1,
                                   event_type |-> "conversation.started",
                                   source_kind |-> sk, state_hash |-> 0]>>]
  /\ UNCHANGED <<usage, kill, pc, kind, tgt, mem, ev, seq, pend, upd>>

\* PATCH /tenants/{id} with kill_switch.
PatchKill == /\ kill' = ~kill
             /\ UNCHANGED <<conv, log, usage, pc, kind, tgt, mem, ev, seq,
                            pend, upd>>

-----------------------------------------------------------------------------
\* A request arrives: its handler loads the conversation row, or makes one.

Arrive(r, k, c, row, label, event) ==
  /\ pc[r] = "idle"
  /\ Goto(r, label, event)
  /\ kind' = [kind EXCEPT ![r] = k]
  /\ tgt' = [tgt EXCEPT ![r] = c]
  /\ mem' = [mem EXCEPT ![r] = row]
  /\ UNCHANGED <<db, seq, pend, upd>>

LoadTurn(r, c) == /\ conv[c].status # "absent"
                  /\ Arrive(r, "turn", c, conv[c], "kill", "none")

OpenChat(r, c) == /\ Free(c)
                  /\ Arrive(r, "open", c, Active(0, "observed"), "kill", "none")

\* Assigning "stopped" to a row that says "stopped" already is no change, so
\* the session has no UPDATE to flush.
LoadStop(r, c) ==
  /\ conv[c].status # "absent"
  /\ Arrive(r, "stop", c, [conv[c] EXCEPT !.status = "stopped"],
            IF conv[c].status = "stopped" THEN "max" ELSE "update",
            "conversation.finished")

LoadBranch(r, src, c) ==
  /\ conv[src].status # "absent"
  /\ Free(c)
  /\ Arrive(r, "branch", c, Active(conv[src].turn_index, "counterfactual"),
            "max", "conversation.started")

-----------------------------------------------------------------------------
\* run_turn and append_event.

\* A mutant of CheckKill: a refused turn notes the refusal in the conversation
\* row before it writes its event.
CheckKillNotingRefusal(r) ==
  /\ pc[r] = "kill"
  /\ ~kill
  /\ \/ Goto(r, "update", "security.injection_detected")
     \/ Goto(r, "max", "message.received")
  /\ UNCHANGED <<db, kind, tgt, mem, seq, pend, upd>>

\* run_turn reads the kill switch once, then inspects the text: \E blocked
\* stands for what the user wrote.
CheckKill(r) ==
  /\ pc[r] = "kill"
  /\ ~kill
  /\ \E event \in {"security.injection_detected", "message.received"} :
        Goto(r, "max", event)
  /\ UNCHANGED <<db, kind, tgt, mem, seq, pend, upd>>

Killed(r) == pc[r] = "kill" /\ kill /\ Abort(r)

ReadMax(r) ==
  /\ pc[r] = "max"
  /\ seq' = [seq EXCEPT ![r] = Top(Visible(r)) + 1]
  /\ pc' = [pc EXCEPT ![r] = "insert"]
  /\ UNCHANGED <<db, kind, tgt, mem, ev, pend, upd>>

NewEvent(r) ==
  [sequence_no |-> seq[r], event_type |-> ev[r], state_hash |-> mem[r].turn_index,
   source_kind |-> IF ev[r] = "conversation.started" THEN mem[r].source_kind
                   ELSE "observed"]

\* Where run_turn or the route goes on after append_event returns: whether
\* evidence is retrieved is the policy's choice.
AfterInsert(event) ==
  CASE event = "message.received"    -> {<<"max", "action.selected">>}
    [] event = "action.selected"     -> {<<"max", "retrieval.completed">>,
                                         <<"generate", "none">>}
    [] event = "retrieval.completed" -> {<<"generate", "none">>}
    [] OTHER                         -> {<<"commit", "none">>}

\* A mutant of Insert: conversation_events without its UNIQUE constraint.
InsertUnconstrained(r) ==
  /\ pc[r] = "insert"
  /\ pend' = [pend EXCEPT ![r] = Append(@, NewEvent(r))]
  /\ \E next \in AfterInsert(ev[r]) : Goto(r, next[1], next[2])
  /\ UNCHANGED <<db, kind, tgt, mem, seq, upd>>

Insert(r) ==
  /\ pc[r] = "insert"
  /\ ~Waits(r)
  /\ ~Committed(tgt[r], seq[r])
  /\ pend' = [pend EXCEPT ![r] = Append(@, NewEvent(r))]
  /\ \E next \in AfterInsert(ev[r]) : Goto(r, next[1], next[2])
  /\ UNCHANGED <<db, kind, tgt, mem, seq, upd>>

\* UNIQUE (conversation_id, sequence_no): flush raises IntegrityError.
Duplicate(r) == /\ pc[r] = "insert"
                /\ ~Waits(r)
                /\ Committed(tgt[r], seq[r])
                /\ Abort(r)

\* The history is read and the request goes out to the model gateway.
CallModel(r) == /\ pc[r] = "generate"
                /\ Goto(r, "await", "none")
                /\ UNCHANGED <<db, kind, tgt, mem, seq, pend, upd>>

\* A mutant of Answered: the question and the answer are counted as two turns.
AnsweredCountedTwice(r) ==
  /\ pc[r] = "await"
  /\ mem' = [mem EXCEPT ![r].turn_index = @ + 2]
  /\ Goto(r, "update", "message.sent")
  /\ UNCHANGED <<db, kind, tgt, seq, pend, upd>>

\* The answer arrives.  A row that was not committed yet takes the new state
\* with no UPDATE that another session could hold up.
Answered(r) ==
  /\ pc[r] = "await"
  /\ mem' = [mem EXCEPT ![r].turn_index = @ + 1]
  /\ Goto(r, "update", "message.sent")
  /\ UNCHANGED <<db, kind, tgt, seq, pend, upd>>

\* A mutant of GatewayError: the HTTP client has no timeout.
GatewayNeverTimesOut(r) == pc[r] = "none" /\ Abort(r)

\* A mutant of GatewayError: the handler catches the error and commits.
GatewayErrorCommitted(r) == /\ pc[r] = "await"
                            /\ Goto(r, "commit", "none")
                            /\ UNCHANGED <<db, kind, tgt, mem, seq, pend, upd>>

\* The gateway answers an error status or does not answer within 90 s.
GatewayError(r) == pc[r] = "await" /\ Abort(r)

\* The UPDATE of the conversations row that append_event's SELECT flushes.
Update(r) == /\ pc[r] = "update"
             /\ ~Waits(r)
             /\ upd' = [upd EXCEPT ![r] = TRUE]
             /\ pc' = [pc EXCEPT ![r] = "max"]
             /\ UNCHANGED <<db, kind, tgt, mem, ev, seq, pend>>

\* A mutant of Written: the session writes every column it loaded.
WrittenWholeRow(r) == mem[r]

\* A mutant of Written: stop sets a status nobody else knows.
WrittenFinished(r) == CASE Fresh(r)         -> mem[r]
                        [] kind[r] = "turn" -> [conv[tgt[r]] EXCEPT
                                                  !.turn_index = mem[r].turn_index]
                        [] kind[r] = "stop" -> [conv[tgt[r]] EXCEPT
                                                  !.status = "finished"]

\* The row of c after r commits: a turn changed state_json, stop the status.
Written(r) == CASE Fresh(r)         -> mem[r]
                [] kind[r] = "turn" -> [conv[tgt[r]] EXCEPT
                                          !.turn_index = mem[r].turn_index]
                [] kind[r] = "stop" -> [conv[tgt[r]] EXCEPT
                                          !.status = mem[r].status]

Answers(rows) == \E i \in DOMAIN rows : rows[i].event_type = "message.sent"

Commit(r) ==
  /\ pc[r] = "commit"
  /\ conv' = IF Fresh(r) \/ upd[r] THEN [conv EXCEPT ![tgt[r]] = Written(r)]
             ELSE conv
  /\ log' = [log EXCEPT ![tgt[r]] = @ \o pend[r]]
  /\ usage' = IF Answers(pend[r]) THEN [usage EXCEPT ![tgt[r]] = @ + 1]
              ELSE usage
  /\ Close(r, "ok")
  /\ UNCHANGED kill

-----------------------------------------------------------------------------
\* What can end a request anywhere.

\* The client is gone, the process dies or the database connection is lost.
Crash(r) == Abort(r)

\* PostgreSQL aborts one transaction of a cycle.
DeadlockVictim(r) == /\ \E S \in SUBSET Requests : r \in S /\ Cycle(S)
                     /\ Abort(r)

-----------------------------------------------------------------------------
\* What a request does by itself once it has arrived: the steps of the code
\* and of the database.  The gateway's answer is not one of them: the gateway
\* may never answer, and then the client's timeout ends the call.
Progress(r) ==
  \/ CheckKill(r) \/ Killed(r) \/ ReadMax(r) \/ Insert(r) \/ Duplicate(r)
  \/ CallModel(r) \/ GatewayError(r) \/ Update(r) \/ Commit(r)
  \/ DeadlockVictim(r)

Arrival(r) == \E c \in Conversations :
                \/ LoadTurn(r, c) \/ OpenChat(r, c) \/ LoadStop(r, c)
                \/ \E src \in Conversations : LoadBranch(r, src, c)

Next == \/ \E c \in Conversations, sk \in SourceKinds : Create(c, sk)
        \/ PatchKill
        \/ \E r \in Requests :
              Arrival(r) \/ Progress(r) \/ Answered(r) \/ Crash(r)

Spec == Init /\ [][Next]_vars

-----------------------------------------------------------------------------
\* Every variable keeps to the values the code can give it.
TypeOK ==
  /\ conv \in [Conversations -> Row]
  /\ log \in [Conversations -> Seq(Event)]
  /\ usage \in [Conversations -> Nat]
  /\ kill \in BOOLEAN
  /\ pc \in [Requests -> PCs]
  /\ kind \in [Requests -> Kinds]
  /\ tgt \in [Requests -> Conversations]
  /\ mem \in [Requests -> Row]
  /\ ev \in [Requests -> Events \cup {"none"}]
  /\ seq \in [Requests -> Nat]
  /\ pend \in [Requests -> Seq(Event)]
  /\ upd \in [Requests -> BOOLEAN]

\* The event rows of a conversation are numbered 1, 2, 3, ... however the
\* requests that number them with SELECT max(sequence_no) interleave, fail and
\* roll back (append_event; the UNIQUE constraint of conversation_events).
LogGapless ==
  \A c \in Conversations : \A i \in DOMAIN log[c] : log[c][i].sequence_no = i

\* While a turn waits for the model, no row of its conversation is newer than
\* the message it asks about, so the history sent to the gateway ends with
\* that message and stays the whole history until the turn ends (run_turn
\* takes the newest twelve message rows and does not look again).
MessageIsNewest ==
  \A r \in Requests : pc[r] \in {"generate", "await", "update"} /\ pend[r] # <<>> =>
    /\ pend[r][1].event_type = "message.received"
    /\ \A n \in 1..Len(log[tgt[r]]) :
          log[tgt[r]][n].sequence_no < pend[r][1].sequence_no

\* Rows whose state_hash is the state that was written with them.
StateRows(c) == {i \in DOMAIN log[c] :
                   log[c][i].event_type \in {"conversation.started", "message.sent"}}

\* The state of a conversations row is the one hashed into its newest
\* "conversation.started" or "message.sent" event: the row and the log are
\* written by the same transactions in the same order, although a stop may
\* commit its status in between from a row it read earlier.
StateMatchesNewestAnswer ==
  \A c \in Conversations :
    conv[c].turn_index = IF StateRows(c) = {} THEN 0
                         ELSE log[c][Top(StateRows(c))].state_hash

Sent(c) == {i \in DOMAIN log[c] : log[c][i].event_type = "message.sent"}

\* What the conversation counted when it started: a branch starts with the
\* count of its source.
Base(c) == IF log[c] # <<>> /\ log[c][1].event_type = "conversation.started"
           THEN log[c][1].state_hash ELSE 0

\* turn_index never counts an answer that is not in the log, whichever
\* transactions fail between the answer and the commit (run_turn, lines 83-87).
NeverOvercounts ==
  \A c \in Conversations : conv[c].turn_index <= Base(c) + Cardinality(Sent(c))

\* A conversation that was stopped stays stopped, also when a turn that loaded
\* the row before the stop commits after it (routes.stop_conversation).
StopSticks ==
  [][\A c \in Conversations :
       conv[c].status = "stopped" => conv'[c].status = "stopped"]_vars

\* A turn takes the event number first and the row lock last, a stop the other
\* way round: the only requests that can wait for each other for ever are one
\* turn and one stop of the same conversation (run_turn against
\* routes.stop_conversation).
OnlyTurnAndStopDeadlock ==
  \A S \in SUBSET Requests : Cycle(S) =>
    \E r, s \in S : /\ S = {r, s}
                    /\ kind[r] = "turn" /\ kind[s] = "stop"
                    /\ tgt[r] = tgt[s]

\* The rows a reader of the event table sees, and the ledger, change as
\* ConversationLog says: batch by batch, whatever the requests do in between.
Abstract == INSTANCE ConversationLog
ImplementsConversationLog == Abstract!Spec

-----------------------------------------------------------------------------
\* What a document of the repository says and the code does not do.

\* README.md line 10 and docs/architecture/overview.md line 3: the state of a
\* conversation is a projection of its events.
TurnIndexIsProjection ==
  \A c \in Conversations : conv[c].turn_index = Base(c) + Cardinality(Sent(c))
=============================================================================
