------------------------ MODULE ConversationStateProofs ------------------------
(***************************************************************************)
(* What a conversations row says of its events, which transactions can     *)
(* wait for each other for ever, and what a client is told, for any number *)
(* of conversations and requests.                                          *)
(*                                                                         *)
(* A handler carries the state it loaded through several statements, so    *)
(* the properties of the committed tables need an invariant of what the    *)
(* handlers hold: HandlerOf says when a transaction has the row lock and   *)
(* that the state it is going to write is the one hashed into its last     *)
(* event row, CountOf that this state is at most one answer ahead.         *)
(*                                                                         *)
(* Clients that retry, answers that get lost and a limited pool only       *)
(* restrict what the requests of ConversationRuntime do, so its invariants *)
(* hold under ClientsSpec; what a client is told is compared with the rows *)
(* by counting.                                                            *)
(***************************************************************************)
EXTENDS ConversationRuntimeProofs, ClientSessions, FiniteSetTheorems

Last(r) == pend[r][Len(pend[r])]

\* The model answered and run_turn counted the answer in the state it holds.
HasAnswer(r) ==
  \/ pc[r] = "update"
  \/ pc[r] \in {"max", "insert"} /\ ev[r] = "message.sent"
  \/ pc[r] = "commit" /\ Last(r).event_type = "message.sent"

\* A turn locks the row between its answer and its end, never before.
LockOf(r) ==
  /\ ~Open(r) => ~upd[r]
  /\ pc[r] = "update" => ~upd[r] /\ (IsTurn(r) => ev[r] = "message.sent")
  /\ Open(r) /\ IsTurn(r) /\ HasAnswer(r) /\ pc[r] # "update" => upd[r]
  /\ Open(r) /\ IsTurn(r) /\ ~HasAnswer(r) => ~upd[r]

\* The state a transaction writes is the one its last event row carries.
StateOf(r) ==
  /\ Open(r) /\ kind[r] = "open" /\ ~HasAnswer(r) => mem[r].turn_index = 0
  /\ pc[r] = "commit"
     /\ Last(r).event_type \in {"conversation.started", "message.sent"} =>
       Last(r).state_hash = mem[r].turn_index

HandlerOf(r) == LockOf(r) /\ StateOf(r)

Handlers == \A r \in Requests : HandlerOf(r)

-----------------------------------------------------------------------------
\* While a turn waits for the model its question is the newest row of the
\* conversation, so the history that was sent to the gateway stays the whole
\* history until the turn ends (run_turn).
THEOREM QuestionIsNewest == Spec => []MessageIsNewest
<1>1. IInv /\ Batches => MessageIsNewest
  <2> SUFFICES ASSUME IInv, Batches, NEW r \in Requests,
                      pc[r] \in {"generate", "await", "update"}, pend[r] # <<>>
               PROVE  /\ pend[r][1].event_type = "message.received"
                      /\ \A n \in 1..Len(log[tgt[r]]) :
                           log[tgt[r]][n].sequence_no < pend[r][1].sequence_no
    BY DEF MessageIsNewest
  <2> USE DEF IInv
  <2>1. /\ tgt[r] \in Conversations /\ log[tgt[r]] \in Seq(Event)
        /\ pend[r] \in Seq(Event) /\ Len(log[tgt[r]]) \in Nat
        /\ ev[r] \in Events \cup {"none"}
    BY DEF TypeOK
  <2>2. BatchOf(r)
    BY DEF Batches
  <2>3. 1 \in DOMAIN pend[r]
    BY <2>1
  <2>4. \/ HasTypes(r, <<"message.received">>)
        \/ Question(r)
    <3>1. CASE pc[r] \in {"generate", "await"}
      BY <3>1, <2>2 DEF BatchOf
    <3>2. CASE pc[r] = "update"
      <4>1. Before(r, ev[r]) /\ ev[r] \in Events
        BY <3>2, <2>1, <2>2 DEF BatchOf, EventIsNamed
      <4> QED
        BY <4>1 DEF Before, Events, Question
    <3> QED
      BY <3>1, <3>2
  <2>5. pend[r][1].event_type = "message.received"
    BY <2>3, <2>4 DEF Question, HasTypes
  <2>6. pend[r][1].sequence_no = Len(log[tgt[r]]) + 1
    BY <2>3 DEF PendContinuesLog
  <2>7. \A n \in 1..Len(log[tgt[r]]) : log[tgt[r]][n].sequence_no = n
    BY <2>1 DEF LogGapless
  <2> QED
    BY <2>1, <2>5, <2>6, <2>7
<1> QED
  BY <1>1, Invariance, BatchesInvariant, PTL

-----------------------------------------------------------------------------
\* A request changes only what it holds itself.
LEMMA OthersKeep ==
  ASSUME TypeOK, NEW r \in Requests, NEW s \in Requests, s # r,
         Arrival(s) \/ Progress(s) \/ Answered(s) \/ Crash(s)
  PROVE  /\ pc'[r] = pc[r] /\ ev'[r] = ev[r] /\ kind'[r] = kind[r]
         /\ tgt'[r] = tgt[r] /\ mem'[r] = mem[r] /\ seq'[r] = seq[r]
         /\ pend'[r] = pend[r] /\ upd'[r] = upd[r]
<1> USE DEF TypeOK
<1>1. CASE Arrival(s)
  BY <1>1 DEF Arrival, LoadTurn, OpenChat, LoadStop, LoadBranch, Arrive, Goto
<1>2. CASE Abort(s)
  BY <1>2 DEF Abort, Close, Goto
<1>3. CASE CheckKill(s) \/ CallModel(s) \/ Answered(s) \/ Update(s) \/ ReadMax(s)
  BY <1>3 DEF CheckKill, CallModel, Answered, Update, ReadMax, Goto
<1>4. CASE Insert(s)
  BY <1>4 DEF Insert, Goto
<1>5. CASE Commit(s)
  BY <1>5 DEF Commit, Close, Goto
<1> QED
  BY <1>1, <1>2, <1>3, <1>4, <1>5
  DEF Progress, Killed, Duplicate, GatewayError, DeadlockVictim, Crash

LEMMA HandlerFrame ==
  ASSUME NEW r \in Requests, HandlerOf(r),
         pc'[r] = pc[r], ev'[r] = ev[r], kind'[r] = kind[r], mem'[r] = mem[r],
         pend'[r] = pend[r], upd'[r] = upd[r]
  PROVE  HandlerOf(r)'
BY DEF HandlerOf, LockOf, StateOf, HasAnswer, IsTurn, Last, Open

\* The row that an INSERT adds is the last one, and carries the state that the
\* handler holds.
LEMMA InsertedRow ==
  ASSUME IInv, NEW r \in Requests, Insert(r)
  PROVE  /\ pc[r] = "insert" /\ pc'[r] \in {"max", "generate", "commit"}
         /\ kind'[r] = kind[r] /\ mem'[r] = mem[r] /\ upd'[r] = upd[r]
         /\ tgt'[r] = tgt[r] /\ Open(r) /\ Open(r)'
         /\ Last(r)'.event_type = ev[r]
         /\ Last(r)'.state_hash = mem[r].turn_index
         /\ HasAnswer(r)' <=> HasAnswer(r)
<1> USE DEF IInv
<1>1. /\ pc[r] = "insert" /\ ev[r] \in Events /\ kind'[r] = kind[r]
      /\ mem'[r] = mem[r] /\ upd'[r] = upd[r] /\ pend[r] \in Seq(Event)
      /\ tgt'[r] = tgt[r] /\ Open(r)
  BY DEF Insert, TypeOK, EventIsNamed, Open, Closed
<1>2. PICK next \in AfterInsert(ev[r]) : Goto(r, next[1], next[2])
  BY DEF Insert
<1>3. pc'[r] = next[1] /\ ev'[r] = next[2]
  BY <1>2 DEF Goto, TypeOK
<1>4. pend'[r] = Append(pend[r], NewEvent(r))
  BY DEF Insert, TypeOK
<1>5. Last(r)' = NewEvent(r)
  BY <1>1, <1>4 DEF Last
<1>6. Last(r)'.event_type = ev[r] /\ Last(r)'.state_hash = mem[r].turn_index
  BY <1>5 DEF NewEvent
<1>7. /\ next[1] \in {"max", "generate", "commit"}
      /\ next[1] = "max" => next[2] # "message.sent" /\ ev[r] # "message.sent"
      /\ next[1] = "generate" => ev[r] # "message.sent"
  BY <1>1 DEF AfterInsert, Events
<1>8. HasAnswer(r)' <=> HasAnswer(r)
  BY <1>1, <1>3, <1>6, <1>7 DEF HasAnswer
<1> QED
  BY <1>1, <1>3, <1>6, <1>7, <1>8 DEF Open, Closed

LEMMA InsertHandler ==
  ASSUME IInv, NEW r \in Requests, HandlerOf(r), Insert(r)
  PROVE  HandlerOf(r)'
<1>1. /\ pc[r] = "insert" /\ pc'[r] \in {"max", "generate", "commit"}
      /\ kind'[r] = kind[r] /\ mem'[r] = mem[r] /\ upd'[r] = upd[r]
      /\ Last(r)'.state_hash = mem[r].turn_index /\ Open(r) /\ Open(r)'
      /\ HasAnswer(r)' <=> HasAnswer(r)
  BY InsertedRow
<1> QED
  BY <1>1 DEF HandlerOf, LockOf, StateOf, IsTurn

LEMMA NextHandlers == IInv /\ Batches /\ Handlers /\ [Next]_vars => Handlers'
<1> SUFFICES ASSUME IInv, Batches, Handlers, [Next]_vars, NEW r \in Requests
             PROVE  HandlerOf(r)'
  BY DEF Handlers
<1>1. HandlerOf(r) /\ BatchOf(r) /\ TypeOK
  BY DEF Handlers, Batches, IInv
<1> USE DEF TypeOK
<1>2. CASE UNCHANGED <<pc, kind, ev, mem, pend, upd>>
  BY <1>1, <1>2, HandlerFrame
<1>3. ASSUME NEW s \in Requests, s # r,
             Arrival(s) \/ Progress(s) \/ Answered(s) \/ Crash(s)
      PROVE  HandlerOf(r)'
  BY <1>1, <1>3, OthersKeep, HandlerFrame
<1>4. CASE Arrival(r)
  <2>1. upd'[r] = upd[r] /\ ~Open(r)
    BY <1>4 DEF Open, Closed, Arrival, LoadTurn, OpenChat, LoadStop, LoadBranch,
       Arrive
  <2>2. \/ pc'[r] = "kill" /\ (kind'[r] = "open" => mem'[r].turn_index = 0)
        \/ pc'[r] \in {"max", "update"} /\ kind'[r] \in {"stop", "branch"}
    BY <1>1, <1>4 DEF Arrival, LoadTurn, OpenChat, LoadStop, LoadBranch, Arrive,
       Goto, Active
  <2> QED
    BY <2>1, <2>2, <1>1 DEF HandlerOf, LockOf, StateOf, HasAnswer, IsTurn, Open,
       Closed
<1>5. CASE Abort(r) \/ Commit(r)
  <2>1. pc'[r] \in {"failed", "ok"} /\ upd'[r] = FALSE
    BY <1>1, <1>5 DEF Abort, Commit, Close, Goto
  <2> QED
    BY <2>1 DEF HandlerOf, LockOf, StateOf, HasAnswer, Open, Closed
<1>6. CASE Insert(r)
  BY <1>1, <1>6, InsertHandler
<1>7. CASE ReadMax(r) \/ CheckKill(r) \/ CallModel(r)
  <2>1. /\ kind'[r] = kind[r] /\ mem'[r] = mem[r] /\ upd'[r] = upd[r]
        /\ \/ pc[r] = "max" /\ pc'[r] = "insert" /\ ev'[r] = ev[r]
           \/ pc[r] = "kill" /\ pc'[r] = "max" /\ ev'[r] # "message.sent"
           \/ pc[r] = "generate" /\ pc'[r] = "await"
    BY <1>1, <1>7 DEF ReadMax, CheckKill, CallModel, Goto
  <2> QED
    BY <2>1, <1>1 DEF HandlerOf, LockOf, StateOf, HasAnswer, IsTurn, Open, Closed
<1>8. CASE Answered(r)
  <2>1. /\ kind'[r] = kind[r] /\ upd'[r] = upd[r] /\ pc[r] = "await"
        /\ pc'[r] = "update" /\ ev'[r] = "message.sent"
    BY <1>1, <1>8 DEF Answered, Goto
  <2>2. IsTurn(r) /\ ~HasAnswer(r)
    BY <2>1, <1>1 DEF BatchOf, HasAnswer
  <2> QED
    BY <2>1, <2>2, <1>1 DEF HandlerOf, LockOf, StateOf, HasAnswer, IsTurn, Open,
       Closed
<1>9. CASE Update(r)
  <2>1. /\ kind'[r] = kind[r] /\ mem'[r] = mem[r] /\ ev'[r] = ev[r]
        /\ upd'[r] = TRUE /\ pc[r] = "update" /\ pc'[r] = "max"
    BY <1>1, <1>9 DEF Update
  <2> QED
    BY <2>1, <1>1 DEF HandlerOf, LockOf, StateOf, HasAnswer, IsTurn, Open, Closed
<1> QED
  BY <1>2, <1>3, <1>4, <1>5, <1>6, <1>7, <1>8, <1>9
  DEF Next, Progress, Killed, Duplicate, GatewayError, DeadlockVictim, Crash,
      Create, PatchKill, vars

LEMMA HandlersInvariant == Spec => []Handlers
<1>1. Init => Handlers
  BY DEF Init, Handlers, HandlerOf, LockOf, StateOf, HasAnswer, Open, Closed
<1>2. IInv /\ Batches /\ Handlers /\ [Next]_vars => Handlers'
  BY NextHandlers
<1> QED
  BY <1>1, <1>2, Invariance, BatchesInvariant, PTL DEF Spec

-----------------------------------------------------------------------------
\* The rows of a transaction follow the committed ones, in order.
LEMMA CommittedRows ==
  ASSUME IInv, NEW r \in Requests, Commit(r)
  PROVE  LET c == tgt[r]
             L == Len(log[c])
             P == Len(pend[r])
         IN  /\ c \in Conversations /\ pend[r] \in Seq(Event) /\ Open(r)
             /\ L \in Nat /\ P \in Nat /\ P > 0
             /\ DOMAIN log[c] = 1..L /\ DOMAIN log'[c] = 1..L + P
             /\ \A i \in 1..L : log'[c][i] = log[c][i]
             /\ \A i \in 1..P : log'[c][L + i] = pend[r][i]
             /\ \A d \in Conversations : d # c => log'[d] = log[d]
<1> USE DEF IInv
<1> DEFINE c == tgt[r]
           L == Len(log[c])
           P == Len(pend[r])
<1>1. /\ c \in Conversations /\ log[c] \in Seq(Event) /\ pend[r] \in Seq(Event)
      /\ pend[r] # <<>> /\ Open(r) /\ log \in [Conversations -> Seq(Event)]
  BY DEF Commit, HasRowsAtCommit, TypeOK, Open, Closed
<1>2. L \in Nat /\ P \in Nat /\ P > 0 /\ DOMAIN log[c] = 1..L
  BY <1>1, EmptySeq
<1>3. log' = [log EXCEPT ![c] = log[c] \o pend[r]]
  BY DEF Commit
<1>4. log'[c] = log[c] \o pend[r] /\ \A d \in Conversations : d # c => log'[d] = log[d]
  BY <1>1, <1>3
<1>5. /\ log[c] \o pend[r] \in Seq(Event)
      /\ Len(log[c] \o pend[r]) = L + P
      /\ \A i \in 1..L + P : (log[c] \o pend[r])[i] =
           IF i <= L THEN log[c][i] ELSE pend[r][i - L]
  BY <1>1, ConcatProperties
<1> HIDE DEF L, P, c
<1>6. DOMAIN log'[c] = 1..L + P
  BY <1>4, <1>5, LenProperties
<1>7. ASSUME NEW i \in 1..P PROVE log'[c][L + i] = pend[r][i]
  <2>1. L + i \in 1..L + P /\ (L + i) - L = i /\ ~(L + i <= L)
    BY <1>2
  <2> QED
    BY <2>1, <1>4, <1>5
<1>8. ASSUME NEW i \in 1..L PROVE log'[c][i] = log[c][i]
  <2>1. i \in 1..L + P /\ i <= L
    BY <1>2
  <2> QED
    BY <2>1, <1>4, <1>5
<1> QED
  BY <1>1, <1>2, <1>4, <1>6, <1>7, <1>8 DEF c, L, P

StateEvents == {"conversation.started", "message.sent"}
TakenEvents == {"message.sent", "security.injection_detected"}

\* How a whole batch ends, and that only its end carries a state or an answer.
LEMMA BatchEnds ==
  ASSUME NEW r \in Requests, Complete(r), pend[r] \in Seq(Event)
  PROVE  /\ \A i \in 1..Len(pend[r]) :
              i # Len(pend[r]) =>
                pend[r][i].event_type \notin StateEvents \cup TakenEvents
         /\ kind[r] = "branch" => /\ Last(r).event_type = "conversation.started"
                                  /\ Len(pend[r]) = 1
         /\ kind[r] = "stop" => Last(r).event_type = "conversation.finished"
         /\ IsTurn(r) => \/ Last(r).event_type = "security.injection_detected"
                         \/ Last(r).event_type = "message.sent"
         /\ IsTurn(r) => pend[r][1].event_type # "conversation.started"
<1>1. Len(pend[r]) \in Nat
  OBVIOUS
<1>2. CASE kind[r] = "branch" /\ HasTypes(r, Abstract!Started)
  BY <1>1, <1>2 DEF HasTypes, Abstract!Started, Last, IsTurn, StateEvents,
     TakenEvents
<1>3. CASE kind[r] = "stop" /\ HasTypes(r, Abstract!Finished)
  BY <1>1, <1>3 DEF HasTypes, Abstract!Finished, Last, IsTurn, StateEvents,
     TakenEvents
<1>4. CASE IsTurn(r) /\ HasTypes(r, Abstract!Blocked)
  BY <1>1, <1>4 DEF HasTypes, Abstract!Blocked, Last, IsTurn, StateEvents,
     TakenEvents
<1>5. CASE IsTurn(r) /\ HasTypes(r, Abstract!Plain)
  BY <1>1, <1>5 DEF HasTypes, Abstract!Plain, Last, IsTurn, StateEvents,
     TakenEvents
<1>6. CASE IsTurn(r) /\ HasTypes(r, Abstract!Grounded)
  BY <1>1, <1>6 DEF HasTypes, Abstract!Grounded, Last, IsTurn, StateEvents,
     TakenEvents
<1> QED
  BY <1>2, <1>3, <1>4, <1>5, <1>6 DEF Complete

\* A commit adds a state row just if its batch ends in one, and then it is the
\* newest row.
LEMMA CommitAddsState ==
  ASSUME IInv, Batches, NEW r \in Requests, Commit(r), NEW c, c = tgt[r]
  PROVE  LET top == Len(log[c]) + Len(pend[r])
         IN  /\ log'[c][top] = Last(r)
             /\ StateRows(c)' = IF Last(r).event_type \in StateEvents
                                THEN StateRows(c) \cup {top} ELSE StateRows(c)
             /\ Sent(c)' = IF Last(r).event_type = "message.sent"
                           THEN Sent(c) \cup {top} ELSE Sent(c)
             /\ top \notin DOMAIN log[c]
<1> DEFINE L == Len(log[c])
           P == Len(pend[r])
<1>1. /\ c \in Conversations /\ pend[r] \in Seq(Event) /\ Open(r)
      /\ L \in Nat /\ P \in Nat /\ P > 0
      /\ DOMAIN log[c] = 1..L /\ DOMAIN log'[c] = 1..L + P
      /\ \A i \in 1..L : log'[c][i] = log[c][i]
      /\ \A i \in 1..P : log'[c][L + i] = pend[r][i]
  BY CommittedRows
<1>2. Complete(r)
  BY DEF Commit, Batches, BatchOf
<1>3. \A i \in 1..P : i # P => pend[r][i].event_type \notin StateEvents
  BY <1>1, <1>2, BatchEnds
<1>4. Last(r) = pend[r][P]
  BY DEF Last
<1>5. /\ StateRows(c) = {i \in DOMAIN log[c] : log[c][i].event_type \in StateEvents}
      /\ StateRows(c)' = {i \in DOMAIN log'[c] : log'[c][i].event_type \in StateEvents}
      /\ Sent(c) = {i \in DOMAIN log[c] : log[c][i].event_type = "message.sent"}
      /\ Sent(c)' = {i \in DOMAIN log'[c] : log'[c][i].event_type = "message.sent"}
  BY DEF StateRows, StateEvents, Sent
<1> HIDE DEF L, P
<1>6. \A i \in 1..L + P : i \in 1..L \/ (i - L \in 1..P /\ L + (i - L) = i)
  BY <1>1
<1>7. log'[c][L + P] = Last(r)
  <2>1. P \in 1..P
    BY <1>1
  <2> QED
    BY <2>1, <1>1, <1>4
<1>8. L + P \in 1..L + P /\ L + P \notin 1..L /\ 1..L \subseteq 1..L + P
  BY <1>1
<1>9. \A i \in 1..L + P : \/ i \in 1..L /\ log'[c][i] = log[c][i]
                          \/ i = L + P /\ log'[c][i] = Last(r)
                          \/ i \notin 1..L /\ i # L + P
                             /\ log'[c][i].event_type \notin StateEvents
  <2> SUFFICES ASSUME NEW i \in 1..L + P, i \notin 1..L, i # L + P
               PROVE  log'[c][i].event_type \notin StateEvents
    BY <1>1, <1>7
  <2>1. i - L \in 1..P /\ L + (i - L) = i /\ i - L # P
    BY <1>1, <1>6
  <2> QED
    BY <2>1, <1>1, <1>3
<1>10. StateRows(c)' = IF Last(r).event_type \in StateEvents
                       THEN StateRows(c) \cup {L + P} ELSE StateRows(c)
  BY <1>1, <1>5, <1>7, <1>8, <1>9
<1>11. Sent(c)' = IF Last(r).event_type = "message.sent"
                  THEN Sent(c) \cup {L + P} ELSE Sent(c)
  BY <1>1, <1>5, <1>7, <1>8, <1>9 DEF StateEvents
<1> QED
  BY <1>1, <1>7, <1>8, <1>10, <1>11 DEF L, P

-----------------------------------------------------------------------------
\* A conversations row holds the state of its newest state row.
RowIsCurrent(c) ==
  \/ StateRows(c) = {} /\ conv[c].turn_index = 0
  \/ \E n \in StateRows(c) :
       /\ \A m \in StateRows(c) : m <= n
       /\ conv[c].turn_index = log[c][n].state_hash

Rows == \A c \in Conversations : RowIsCurrent(c)

LEMMA OnlyCommitsWrite ==
  ASSUME [Next]_vars
  PROVE  \/ \E c \in Conversations, sk \in SourceKinds : Create(c, sk)
         \/ \E r \in Requests : Commit(r)
         \/ UNCHANGED <<conv, log>>
BY DEF Next, Arrival, Arrive, LoadTurn, OpenChat, LoadStop, LoadBranch, Progress,
   PatchKill, CheckKill, Killed, ReadMax, Insert, Duplicate, CallModel, Answered,
   GatewayError, Update, DeadlockVictim, Crash, Abort, db, vars

\* The state that a commit leaves in the row.
LEMMA CommittedState ==
  ASSUME IInv, Batches, Handlers, NEW r \in Requests, Commit(r),
         NEW c, c = tgt[r]
  PROVE  /\ Last(r).event_type \in StateEvents =>
              /\ conv'[c].turn_index = Last(r).state_hash
              /\ conv'[c].turn_index = mem[r].turn_index
         /\ Last(r).event_type \notin StateEvents =>
              /\ ~Fresh(r) => conv'[c].turn_index = conv[c].turn_index
              /\ Fresh(r) => conv'[c].turn_index = 0
<1> USE DEF IInv
<1>1. /\ pc[r] = "commit" /\ Open(r) /\ c \in Conversations
      /\ kind[r] \in Kinds /\ mem[r] \in Row /\ pend[r] \in Seq(Event)
      /\ conv \in [Conversations -> Row]
  BY DEF Commit, Open, Closed, TypeOK
<1>2. HandlerOf(r) /\ Complete(r)
  BY <1>1 DEF Handlers, Batches, BatchOf
<1>3. conv'[c] = IF Fresh(r) \/ upd[r] THEN Written(r) ELSE conv[c]
  BY <1>1 DEF Commit
<1>4. HasAnswer(r) <=> Last(r).event_type = "message.sent"
  BY <1>1 DEF HasAnswer
<1>5. CASE kind[r] = "turn"
  <2>1. ~Fresh(r) /\ IsTurn(r)
    BY <1>5 DEF Fresh, IsTurn
  <2>2. Written(r).turn_index = mem[r].turn_index
    BY <1>1, <1>5, <2>1 DEF Written, Row
  <2>3. upd[r] <=> Last(r).event_type = "message.sent"
    BY <1>1, <1>2, <1>4, <2>1 DEF HandlerOf, LockOf, TypeOK
  <2>4. Last(r).event_type # "conversation.started"
    BY <1>1, <1>2, <2>1, BatchEnds
  <2> QED
    BY <1>1, <1>2, <1>3, <2>1, <2>2, <2>3, <2>4
    DEF HandlerOf, StateOf, StateEvents
<1>6. CASE kind[r] = "stop"
  <2>1. ~Fresh(r)
    BY <1>6 DEF Fresh
  <2>2. Written(r).turn_index = conv[c].turn_index
    BY <1>1, <1>6, <2>1 DEF Written, Row
  <2>3. Last(r).event_type = "conversation.finished"
    BY <1>1, <1>2, <1>6, BatchEnds
  <2> QED
    BY <1>3, <2>1, <2>2, <2>3 DEF StateEvents
<1>7. CASE kind[r] \in {"open", "branch"}
  <2>1. Fresh(r) /\ Written(r) = mem[r]
    BY <1>7 DEF Fresh, Written
  <2>2. conv'[c] = mem[r]
    BY <1>3, <2>1
  <2>3. Last(r).event_type \notin StateEvents => kind[r] = "open" /\ ~HasAnswer(r)
    BY <1>1, <1>2, <1>4, <1>7, BatchEnds DEF StateEvents
  <2> QED
    BY <1>1, <1>2, <2>1, <2>2, <2>3 DEF HandlerOf, StateOf, StateEvents
<1> QED
  BY <1>1, <1>5, <1>6, <1>7 DEF Kinds

LEMMA NextRows == IInv /\ Batches /\ Handlers /\ Rows /\ [Next]_vars => Rows'
<1> SUFFICES ASSUME IInv, Batches, Handlers, Rows, [Next]_vars,
                    NEW d \in Conversations
             PROVE  RowIsCurrent(d)'
  BY DEF Rows
<1> USE DEF IInv
<1>1. RowIsCurrent(d)
  BY DEF Rows
<1>2. CASE UNCHANGED <<conv, log>>
  BY <1>1, <1>2 DEF RowIsCurrent, StateRows
<1>3. ASSUME NEW c \in Conversations, NEW sk \in SourceKinds, Create(c, sk)
      PROVE  RowIsCurrent(d)'
  <2>1. /\ conv \in [Conversations -> Row]
        /\ log \in [Conversations -> Seq(Event)]
    BY DEF TypeOK
  <2>2. CASE d # c
    <3>1. conv'[d] = conv[d] /\ log'[d] = log[d]
      BY <1>3, <2>1, <2>2 DEF Create
    <3> QED
      BY <3>1, <1>1 DEF RowIsCurrent, StateRows
  <2>3. CASE d = c
    <3> DEFINE first == [sequence_no |-> 1, event_type |-> "conversation.started",
                         source_kind |-> sk, state_hash |-> 0]
    <3>1. conv'[d].turn_index = 0 /\ log'[d] = <<first>>
      BY <1>3, <2>1, <2>3 DEF Create, Active
    <3>2. /\ DOMAIN log'[d] = {1} /\ log'[d][1] = first
          /\ first.event_type = "conversation.started" /\ first.state_hash = 0
      BY <3>1
    <3> HIDE DEF first
    <3>3. StateRows(d)' = {1}
      BY <3>2 DEF StateRows
    <3> QED
      BY <3>1, <3>2, <3>3 DEF RowIsCurrent
  <2> QED
    BY <2>2, <2>3
<1>4. ASSUME NEW r \in Requests, Commit(r)
      PROVE  RowIsCurrent(d)'
  <2>1. CASE d # tgt[r]
    <3>1. log'[d] = log[d]
      BY <1>4, <2>1, CommittedRows
    <3>2. conv'[d] = conv[d]
      BY <1>4, <2>1 DEF Commit, TypeOK
    <3> QED
      BY <3>1, <3>2, <1>1 DEF RowIsCurrent, StateRows
  <2>2. CASE d = tgt[r]
    <3> DEFINE L == Len(log[d])
               P == Len(pend[r])
    <3>1. /\ L \in Nat /\ P \in Nat /\ P > 0 /\ Open(r)
          /\ DOMAIN log[d] = 1..L
          /\ \A i \in 1..L : log'[d][i] = log[d][i]
      BY <1>4, <2>2, CommittedRows
    <3>2. StateRows(d) \subseteq 1..L
      BY <3>1 DEF StateRows
    <3>3. /\ log'[d][L + P] = Last(r)
          /\ StateRows(d)' = IF Last(r).event_type \in StateEvents
                             THEN StateRows(d) \cup {L + P} ELSE StateRows(d)
      BY <1>4, <2>2, CommitAddsState
    <3>4. Fresh(r) => L = 0
      BY <3>1, <2>2 DEF FreshIsPrivate, RowIffEvents
    <3> HIDE DEF L, P
    <3>5. CASE Last(r).event_type \in StateEvents
      <4>1. conv'[d].turn_index = log'[d][L + P].state_hash
        BY <1>4, <2>2, <3>3, <3>5, CommittedState
      <4>2. L + P \in StateRows(d)' /\ \A m \in StateRows(d)' : m <= L + P
        BY <3>1, <3>2, <3>3, <3>5
      <4> QED
        BY <4>1, <4>2 DEF RowIsCurrent
    <3>6. CASE Last(r).event_type \notin StateEvents /\ ~Fresh(r)
      <4>1. conv'[d].turn_index = conv[d].turn_index
        BY <1>4, <2>2, <3>6, CommittedState
      <4>2. StateRows(d)' = StateRows(d)
            /\ \A n \in StateRows(d) : log'[d][n] = log[d][n]
        BY <3>1, <3>2, <3>3, <3>6
      <4> QED
        BY <4>1, <4>2, <1>1 DEF RowIsCurrent
    <3>7. CASE Last(r).event_type \notin StateEvents /\ Fresh(r)
      <4>1. conv'[d].turn_index = 0
        BY <1>4, <2>2, <3>7, CommittedState
      <4>2. StateRows(d)' = {}
        BY <3>2, <3>3, <3>4, <3>7
      <4> QED
        BY <4>1, <4>2 DEF RowIsCurrent
    <3> QED
      BY <3>5, <3>6, <3>7
  <2> QED
    BY <2>1, <2>2
<1> QED
  BY <1>2, <1>3, <1>4, OnlyCommitsWrite

LEMMA RowsInvariant == Spec => []Rows
<1>1. Init => Rows
  BY DEF Init, Rows, RowIsCurrent, StateRows, Absent
<1>2. IInv /\ Batches /\ Handlers /\ Rows /\ [Next]_vars => Rows'
  BY NextRows
<1> QED
  BY <1>1, <1>2, Invariance, BatchesInvariant, HandlersInvariant, PTL DEF Spec

\* The state of a conversations row is the one hashed into its newest
\* conversation.started or message.sent event: row and events are written by
\* the same transactions in the same order (run_turn, append_event).
THEOREM RowHasNewestState == Spec => []StateMatchesNewestAnswer
<1>1. IInv /\ Rows => StateMatchesNewestAnswer
  <2> SUFFICES ASSUME IInv, Rows, NEW c \in Conversations
               PROVE  conv[c].turn_index =
                        IF StateRows(c) = {} THEN 0
                        ELSE log[c][Top(StateRows(c))].state_hash
    BY DEF StateMatchesNewestAnswer
  <2>1. RowIsCurrent(c)
    BY DEF Rows
  <2>2. StateRows(c) \subseteq Nat
    <3>1. log[c] \in Seq(Event)
      BY DEF IInv, TypeOK
    <3> QED
      BY <3>1 DEF StateRows
  <2>3. ASSUME NEW n \in StateRows(c), \A m \in StateRows(c) : m <= n
        PROVE  Top(StateRows(c)) = n
    <3>1. \A k \in StateRows(c) \cup {0} :
            (\A m \in StateRows(c) : m <= k) => k = n
      BY <2>2, <2>3
    <3> QED
      BY <2>3, <3>1 DEF Top
  <2> QED
    BY <2>1, <2>3 DEF RowIsCurrent
<1> QED
  BY <1>1, Invariance, RowsInvariant, PTL

-----------------------------------------------------------------------------
\* Who waits for an event row waits for a turn that waits, if at all, for the
\* row lock.
LEMMA RowHolderIsTurn ==
  ASSUME IInv, Batches, NEW r \in Requests, NEW s \in Requests, WaitsFor(r, s),
         pc[r] = "insert", Waits(s)
  PROVE  /\ pc[s] = "update" /\ kind[s] = "turn" /\ pend[s] # <<>>
         /\ tgt[s] = tgt[r]
<1> USE DEF IInv
<1>1. r # s /\ Open(s) /\ Open(r) /\ tgt[s] = tgt[r] /\ pend[s] # <<>>
  BY DEF WaitsFor, Holds, Open, Closed
<1>2. PICK t \in Requests : WaitsFor(s, t)
  BY DEF Waits
<1>3. pc[s] # "insert"
  <2> SUFFICES ASSUME pc[s] = "insert" PROVE FALSE
    OBVIOUS
  <2>1. s # t /\ tgt[t] = tgt[s] /\ pend[t] # <<>>
    BY <1>2 DEF WaitsFor, Holds
  <2> QED
    BY <1>1, <2>1 DEF OneWriter
<1>4. pc[s] = "update" /\ BatchOf(s)
  BY <1>2, <1>3 DEF WaitsFor, Batches
<1>5. ev[s] \in Events /\ Before(s, ev[s])
  BY <1>4 DEF BatchOf, EventIsNamed, TypeOK
<1>6. IsTurn(s)
  BY <1>1, <1>5 DEF Before, Events
<1>7. ~Fresh(s)
  BY <1>1 DEF FreshIsPrivate
<1> QED
  BY <1>1, <1>4, <1>6, <1>7 DEF IsTurn, Fresh

\* Who waits for the row lock waits for a stop that waits, if at all, for an
\* event row.
LEMMA LockHolderIsStop ==
  ASSUME IInv, Batches, Handlers, NEW r \in Requests, NEW s \in Requests,
         WaitsFor(r, s), pc[r] = "update", Waits(s)
  PROVE  pc[s] = "insert" /\ kind[s] = "stop" /\ tgt[s] = tgt[r]
<1> USE DEF IInv
<1>1. r # s /\ Open(s) /\ Open(r) /\ tgt[s] = tgt[r] /\ upd[s]
  BY DEF WaitsFor, Open, Closed
<1>2. PICK t \in Requests : WaitsFor(s, t)
  BY DEF Waits
<1>3. HandlerOf(s) /\ BatchOf(s)
  BY DEF Handlers, Batches
<1>4. pc[s] = "insert"
  BY <1>1, <1>2, <1>3 DEF WaitsFor, HandlerOf, LockOf
<1>5. s # t /\ tgt[t] = tgt[s] /\ pend[t] # <<>>
  BY <1>2, <1>4 DEF WaitsFor, Holds
<1>6. pend[s] = <<>>
  BY <1>5 DEF OneWriter
<1>7. ~IsTurn(s)
  <2> SUFFICES ASSUME IsTurn(s) PROVE FALSE
    OBVIOUS
  <2>1. HasAnswer(s)
    BY <1>1, <1>3 DEF HandlerOf, LockOf
  <2>2. ev[s] = "message.sent"
    BY <1>4, <2>1 DEF HasAnswer
  <2>3. Question(s)
    BY <1>3, <1>4, <2>2 DEF BatchOf, Before
  <2>4. Len(pend[s]) = 0
    BY <1>6
  <2> QED
    BY <2>3, <2>4 DEF Question, HasTypes
<1>8. ~Fresh(s)
  BY <1>1 DEF FreshIsPrivate
<1> QED
  BY <1>1, <1>4, <1>7, <1>8 DEF IsTurn, Fresh, Kinds, TypeOK

\* The only requests that wait for each other for ever are a turn, which has
\* the event number and wants the row, and a stop of the same conversation,
\* which has the row and wants the event number (run_turn, stop_conversation).
THEOREM DeadlockIsTurnAndStop == Spec => []OnlyTurnAndStopDeadlock
<1>1. IInv /\ Batches /\ Handlers => OnlyTurnAndStopDeadlock
  <2> SUFFICES ASSUME IInv, Batches, Handlers, NEW S \in SUBSET Requests, Cycle(S)
               PROVE  \E r, s \in S : /\ S = {r, s}
                                      /\ kind[r] = "turn" /\ kind[s] = "stop"
                                      /\ tgt[r] = tgt[s]
    BY DEF OnlyTurnAndStopDeadlock
  <2>1. /\ S # {} /\ \A r \in S : \E s \in S : WaitsFor(r, s)
        /\ \A r \in S : Waits(r) /\ pc[r] \in {"insert", "update"}
    BY DEF Cycle, Deadlocked, Waits, WaitsFor
  <2>2. PICK q \in S : pc[q] = "insert"
    <3>1. PICK r \in S, s \in S : WaitsFor(r, s)
      BY <2>1
    <3>2. pc[r] = "update" => pc[s] = "insert"
      BY <2>1, <3>1, LockHolderIsStop
    <3> QED
      BY <2>1, <3>2
  <2>3. PICK r \in S : WaitsFor(q, r)
    BY <2>1
  <2>4. pc[r] = "update" /\ kind[r] = "turn" /\ pend[r] # <<>>
    BY <2>1, <2>2, <2>3, RowHolderIsTurn
  <2>5. PICK s \in S : WaitsFor(r, s)
    BY <2>1
  <2>6. pc[s] = "insert" /\ kind[s] = "stop" /\ tgt[s] = tgt[r]
    BY <2>1, <2>4, <2>5, LockHolderIsStop
  <2>7. PICK t \in S : WaitsFor(s, t)
    BY <2>1
  <2>8. pend[t] # <<>> /\ tgt[t] = tgt[s]
    BY <2>1, <2>6, <2>7, RowHolderIsTurn
  <2>9. t = r
    BY <2>4, <2>6, <2>8 DEF IInv, OneWriter
  <2>10. Deadlocked({r, s})
    BY <2>5, <2>7, <2>9 DEF Deadlocked
  <2>11. S = {r, s}
    BY <2>10 DEF Cycle
  <2> QED
    BY <2>4, <2>6, <2>11
<1> QED
  BY <1>1, Invariance, BatchesInvariant, HandlersInvariant, PTL

-----------------------------------------------------------------------------
\* What the log accounts for of the count of a conversation.
Known(c) == Base(c) + Cardinality(Sent(c))

\* The state a turn holds is at most its own answer ahead of the log.
CountOf(r) ==
  Open(r) /\ IsTurn(r) =>
    mem[r].turn_index <= Known(tgt[r]) + (IF HasAnswer(r) THEN 1 ELSE 0)

Counts == NeverOvercounts /\ \A r \in Requests : CountOf(r)

LEMMA KnownIsCount ==
  ASSUME NEW rows \in Seq(Event)
  PROVE  LET sent == {i \in DOMAIN rows : rows[i].event_type = "message.sent"}
             base == IF rows # <<>> /\ rows[1].event_type = "conversation.started"
                     THEN rows[1].state_hash ELSE 0
         IN  IsFiniteSet(sent) /\ Cardinality(sent) \in Nat /\ base \in Nat
<1> DEFINE sent == {i \in DOMAIN rows : rows[i].event_type = "message.sent"}
           base == IF rows # <<>> /\ rows[1].event_type = "conversation.started"
                   THEN rows[1].state_hash ELSE 0
<1>1. Len(rows) \in Nat /\ DOMAIN rows = 1..Len(rows)
  OBVIOUS
<1>2. IsFiniteSet(1..Len(rows))
  BY <1>1, FS_Interval
<1>3. sent \in SUBSET (1..Len(rows))
  BY <1>1
<1> HIDE DEF sent
<1>4. IsFiniteSet(sent)
  BY <1>2, <1>3, FS_Subset
<1>5. Cardinality(sent) \in Nat
  BY <1>4, FS_CardinalityType
<1>6. base \in Nat
  <2>1. CASE rows = <<>>
    BY <2>1
  <2>2. CASE rows # <<>>
    <3>1. rows[1] \in Event
      BY <1>1, <2>2
    <3> QED
      BY <3>1 DEF Event
  <2> QED
    BY <2>1, <2>2
<1> QED
  BY <1>4, <1>5, <1>6 DEF sent

LEMMA KnownIsNat ==
  ASSUME TypeOK, NEW c \in Conversations
  PROVE  Known(c) \in Nat
<1>1. log[c] \in Seq(Event)
  BY DEF TypeOK
<1>2. Cardinality(Sent(c)) \in Nat /\ Base(c) \in Nat
  BY <1>1, KnownIsCount DEF Sent, Base
<1> QED
  BY <1>2 DEF Known

\* A commit accounts for its answer, and a branch for what it starts with.
LEMMA CommitAccounts ==
  ASSUME IInv, Batches, NEW r \in Requests, Commit(r), NEW c, c = tgt[r]
  PROVE  /\ kind[r] # "branch" =>
              Known(c)' = Known(c) + IF Last(r).event_type = "message.sent"
                                     THEN 1 ELSE 0
         /\ kind[r] = "branch" => Known(c)' >= Last(r).state_hash
<1> USE DEF IInv
<1> DEFINE L == Len(log[c])
           P == Len(pend[r])
<1>1. /\ c \in Conversations /\ Open(r) /\ log[c] \in Seq(Event)
      /\ L \in Nat /\ P \in Nat /\ P > 0
      /\ DOMAIN log[c] = 1..L /\ DOMAIN log'[c] = 1..L + P
      /\ \A i \in 1..L : log'[c][i] = log[c][i]
      /\ \A i \in 1..P : log'[c][L + i] = pend[r][i]
  BY CommittedRows DEF TypeOK
<1>2. /\ log'[c][L + P] = Last(r)
      /\ Sent(c)' = IF Last(r).event_type = "message.sent"
                    THEN Sent(c) \cup {L + P} ELSE Sent(c)
      /\ L + P \notin DOMAIN log[c]
  BY CommitAddsState
<1> HIDE DEF L, P
<1>3. TypeOK'
  BY CommitStep
<1>4. /\ IsFiniteSet(Sent(c)) /\ Cardinality(Sent(c)) \in Nat /\ Base(c) \in Nat
      /\ Cardinality(Sent(c))' \in Nat /\ Base(c)' \in Nat
  <2>1. log'[c] \in Seq(Event)
    BY <1>1, <1>3 DEF TypeOK
  <2> QED
    BY <1>1, <2>1, KnownIsCount DEF Sent, Base
<1>5. L + P \notin Sent(c)
  BY <1>2 DEF Sent
<1>6. Cardinality(Sent(c))' = Cardinality(Sent(c)) +
        IF Last(r).event_type = "message.sent" THEN 1 ELSE 0
  <2>1. Cardinality(Sent(c) \cup {L + P}) = Cardinality(Sent(c)) + 1
    BY <1>4, <1>5, FS_AddElement
  <2>2. CASE Last(r).event_type = "message.sent"
    BY <1>2, <2>1, <2>2
  <2>3. CASE Last(r).event_type # "message.sent"
    BY <1>2, <1>4, <2>3
  <2> QED
    BY <2>2, <2>3
<1>7. Complete(r) /\ kind[r] \in Kinds /\ pend[r] \in Seq(Event)
  BY DEF Commit, Batches, BatchOf, TypeOK
<1>8. log'[c] # <<>>
  <2>1. 1 \in 1..L + P
    BY <1>1
  <2>2. DOMAIN <<>> = {}
    OBVIOUS
  <2> QED
    BY <1>1, <2>1, <2>2
<1>9. L = 0 => log'[c][1] = pend[r][1]
  <2>1. 1 \in 1..P
    BY <1>1
  <2>2. log'[c][L + 1] = pend[r][1]
    BY <1>1, <2>1
  <2> QED
    BY <2>2
<1>10. L = 0 <=> log[c] = <<>>
  BY <1>1 DEF L
<1>11. Fresh(r) <=> L = 0
  BY <1>1, <1>10 DEF FreshIsPrivate, RowIffEvents
<1>12. CASE kind[r] = "branch"
  <2>1. Last(r).event_type = "conversation.started" /\ P = 1 /\ L = 0
    BY <1>7, <1>11, <1>12, BatchEnds DEF Fresh, P
  <2>2. log'[c][1] = Last(r)
    BY <1>9, <2>1 DEF Last, P
  <2>3. Base(c)' = Last(r).state_hash
    BY <1>8, <2>1, <2>2 DEF Base
  <2> QED
    BY <1>4, <1>12, <2>3 DEF Known
<1>13. CASE kind[r] # "branch"
  <2>1. Base(c)' = Base(c)
    <3>1. CASE L # 0
      <4>1. 1 \in 1..L /\ log[c] # <<>>
        BY <1>1, <3>1
      <4>2. log'[c][1] = log[c][1]
        BY <1>1, <4>1
      <4> QED
        BY <1>8, <4>1, <4>2 DEF Base
    <3>2. CASE L = 0
      <4>1. IsTurn(r)
        BY <1>7, <1>11, <1>13, <3>2 DEF IsTurn, Fresh
      <4>2. log'[c][1].event_type # "conversation.started"
        BY <1>7, <1>9, <3>2, <4>1, BatchEnds
      <4> QED
        BY <1>10, <3>2, <4>2 DEF Base
    <3> QED
      BY <3>1, <3>2
  <2> QED
    BY <1>4, <1>6, <1>13, <2>1 DEF Known
<1> QED
  BY <1>12, <1>13

\* A row that nobody commits to keeps what it is known by.
LEMMA KnownFrame ==
  ASSUME NEW c, log'[c] = log[c]
  PROVE  Known(c)' = Known(c)
BY DEF Known, Base, Sent

\* What another request commits only adds to what is known of a conversation.
LEMMA KnownNeverFalls ==
  ASSUME IInv, Batches, [Next]_vars, NEW r \in Requests, Open(r), NEW c, c = tgt[r],
         ~Commit(r)
  PROVE  Known(c) \in Nat /\ Known(c)' \in Nat /\ Known(c)' >= Known(c)
<1> USE DEF IInv
<1>1. c \in Conversations /\ log \in [Conversations -> Seq(Event)]
  BY DEF TypeOK
<1>2. Known(c) \in Nat
  BY <1>1, KnownIsNat
<1>3. CASE log'[c] = log[c]
  BY <1>2, <1>3, KnownFrame
<1>4. ASSUME NEW d \in Conversations, NEW sk \in SourceKinds, Create(d, sk)
      PROVE  log'[c] = log[c]
  BY <1>1, <1>4 DEF Create, Free
<1>5. ASSUME NEW s \in Requests, Commit(s), tgt[s] = c
      PROVE  Known(c)' \in Nat /\ Known(c)' >= Known(c)
  <2>1. s # r /\ Open(s) /\ ~Fresh(s)
    BY <1>5 DEF Commit, Open, Closed, FreshIsPrivate
  <2>2. Known(c)' = Known(c) + IF Last(s).event_type = "message.sent" THEN 1 ELSE 0
    BY <1>5, <2>1, CommitAccounts DEF Fresh
  <2> QED
    BY <1>2, <2>2
<1>6. ASSUME NEW s \in Requests, Commit(s), tgt[s] # c
      PROVE  log'[c] = log[c]
  BY <1>1, <1>6 DEF Commit
<1> QED
  BY <1>2, <1>3, <1>4, <1>5, <1>6, OnlyCommitsWrite

\* While its handler runs, the state a request holds changes only when the
\* answer arrives.
LEMMA NextKeepsState ==
  ASSUME IInv, Batches, Handlers, [Next]_vars, NEW r \in Requests,
         Open(r), Open(r)', ~Commit(r)
  PROVE  /\ tgt'[r] = tgt[r] /\ kind'[r] = kind[r]
         /\ \/ mem'[r] = mem[r] /\ (IsTurn(r) /\ HasAnswer(r) => HasAnswer(r)')
            \/ /\ mem'[r].turn_index = mem[r].turn_index + 1
               /\ ~HasAnswer(r) /\ HasAnswer(r)'
<1> USE DEF IInv
<1>1. HandlerOf(r) /\ TypeOK
  BY DEF Handlers
<1>2. CASE UNCHANGED <<pc, kind, ev, tgt, mem, pend>>
  BY <1>2 DEF HasAnswer, Last
<1>3. ASSUME NEW s \in Requests, s # r,
             Arrival(s) \/ Progress(s) \/ Answered(s) \/ Crash(s)
      PROVE  /\ tgt'[r] = tgt[r] /\ kind'[r] = kind[r] /\ mem'[r] = mem[r]
             /\ HasAnswer(r)' <=> HasAnswer(r)
  BY <1>1, <1>3, OthersKeep DEF HasAnswer, Last
<1>4. ~Arrival(r) /\ ~Abort(r)
  BY <1>1 DEF Arrival, LoadTurn, OpenChat, LoadStop, LoadBranch, Arrive, Abort,
     Close, Goto, Open, Closed, TypeOK
<1>5. CASE Insert(r)
  BY <1>5, InsertedRow
<1>6. CASE ReadMax(r) \/ CheckKill(r) \/ CallModel(r) \/ Update(r)
  <2>1. /\ tgt'[r] = tgt[r] /\ kind'[r] = kind[r] /\ mem'[r] = mem[r]
        /\ \/ pc[r] = "max" /\ pc'[r] = "insert" /\ ev'[r] = ev[r]
           \/ pc[r] \in {"kill", "generate"}
           \/ pc[r] = "update" /\ pc'[r] = "max" /\ ev'[r] = ev[r]
    BY <1>1, <1>6 DEF ReadMax, CheckKill, CallModel, Update, Goto, TypeOK
  <2> QED
    BY <1>1, <2>1 DEF HasAnswer, HandlerOf, LockOf
<1>7. CASE Answered(r)
  BY <1>1, <1>7 DEF Answered, Goto, HasAnswer, TypeOK, Row
<1> QED
  BY <1>2, <1>3, <1>4, <1>5, <1>6, <1>7
  DEF Next, Progress, Killed, Duplicate, GatewayError, DeadlockVictim, Crash,
      Create, PatchKill, vars

LEMMA NextCountOf ==
  ASSUME IInv, Batches, Handlers, Counts, [Next]_vars, NEW r \in Requests
  PROVE  CountOf(r)'
<1> USE DEF IInv
<1>1. /\ CountOf(r) /\ HandlerOf(r) /\ BatchOf(r) /\ TypeOK
      /\ tgt[r] \in Conversations /\ mem[r] \in Row /\ mem[r].turn_index \in Nat
  BY DEF Counts, Handlers, Batches, TypeOK, Row
<1>2. CASE ~Open(r)'
  BY <1>2 DEF CountOf
<1>3. CASE Open(r)' /\ ~Open(r)
  <2>1. Arrival(r)
    BY <1>1, <1>3, OthersKeep
    DEF Next, Progress, Create, PatchKill, vars, CheckKill, Killed, ReadMax,
        Insert, Duplicate, CallModel, Answered, GatewayError, Update, Commit,
        DeadlockVictim, Crash, Abort, Open, Closed
  <2>2. PICK c \in Conversations :
          \/ LoadTurn(r, c) \/ OpenChat(r, c) \/ LoadStop(r, c)
          \/ \E src \in Conversations : LoadBranch(r, src, c)
    BY <2>1 DEF Arrival
  <2>3. log' = log
    BY <2>2 DEF LoadTurn, OpenChat, LoadStop, LoadBranch, Arrive, db
  <2>5. Known(c) \in Nat
    BY KnownIsNat
  <2>6. Known(c)' = Known(c)
    BY <2>3, KnownFrame
  <2>7. CASE LoadTurn(r, c)
    <3>1. mem'[r] = conv[c] /\ tgt'[r] = c /\ conv[c].turn_index \in Nat
      BY <1>1, <2>7 DEF LoadTurn, Arrive, TypeOK, Row
    <3>2. conv[c].turn_index <= Known(c)
      BY DEF Counts, NeverOvercounts, Known
    <3> QED
      BY <2>5, <2>6, <3>1, <3>2 DEF CountOf
  <2>8. CASE OpenChat(r, c)
    <3>1. mem'[r].turn_index = 0 /\ tgt'[r] = c
      BY <1>1, <2>8 DEF OpenChat, Arrive, TypeOK, Active
    <3> QED
      BY <2>5, <2>6, <3>1 DEF CountOf
  <2>9. CASE LoadStop(r, c) \/ \E src \in Conversations : LoadBranch(r, src, c)
    BY <1>1, <2>9 DEF LoadStop, LoadBranch, Arrive, TypeOK, CountOf, IsTurn
  <2> QED
    BY <2>2, <2>7, <2>8, <2>9
<1>4. ASSUME Open(r), Open(r)', NEW c, c = tgt[r]
      PROVE  CountOf(r)'
  <2>1. ~Commit(r)
    <3>1. Commit(r) => pc'[r] = "ok"
      BY <1>1 DEF Commit, Close, Goto, TypeOK
    <3> QED
      BY <3>1, <1>4 DEF Open, Closed
  <2>2. Known(c) \in Nat /\ Known(c)' \in Nat /\ Known(c)' >= Known(c)
    BY <1>4, <2>1, KnownNeverFalls
  <2>3. /\ tgt'[r] = c /\ kind'[r] = kind[r]
        /\ \/ mem'[r] = mem[r] /\ (IsTurn(r) /\ HasAnswer(r) => HasAnswer(r)')
           \/ mem'[r].turn_index = mem[r].turn_index + 1 /\ ~HasAnswer(r) /\ HasAnswer(r)'
    BY <1>1, <1>4, <2>1, NextKeepsState
  <2>4. IsTurn(r)' <=> IsTurn(r)
    BY <2>3 DEF IsTurn
  <2>5. CASE IsTurn(r)
    <3>1. mem[r].turn_index <= Known(c) + (IF HasAnswer(r) THEN 1 ELSE 0)
      BY <1>1, <1>4, <2>5 DEF CountOf
    <3>2. mem'[r].turn_index <= Known(c)' + (IF HasAnswer(r)' THEN 1 ELSE 0)
      BY <1>1, <2>2, <2>3, <2>5, <3>1
    <3> QED
      BY <2>3, <3>2 DEF CountOf
  <2>6. CASE ~IsTurn(r)
    BY <2>4, <2>6 DEF CountOf
  <2> QED
    BY <2>5, <2>6
<1> QED
  BY <1>2, <1>3, <1>4

LEMMA NextNeverOvercounts ==
  ASSUME IInv, Batches, Handlers, Counts, [Next]_vars
  PROVE  NeverOvercounts'
<1> SUFFICES ASSUME NEW d \in Conversations
             PROVE  conv'[d].turn_index <= Known(d)'
  BY DEF NeverOvercounts, Known
<1> USE DEF IInv
<1>1. /\ conv[d].turn_index <= Known(d)
      /\ conv \in [Conversations -> Row] /\ conv[d].turn_index \in Nat
      /\ log \in [Conversations -> Seq(Event)]
  BY DEF Counts, NeverOvercounts, Known, TypeOK, Row
<1>2. Known(d) \in Nat
  BY KnownIsNat
<1>3. CASE conv'[d] = conv[d] /\ log'[d] = log[d]
  BY <1>1, <1>3, KnownFrame
<1>4. ASSUME NEW c \in Conversations, NEW sk \in SourceKinds, Create(c, sk)
      PROVE  conv'[d].turn_index <= Known(d)'
  <2>1. CASE c # d
    BY <1>1, <1>3, <1>4, <2>1 DEF Create
  <2>2. CASE c = d
    <3>1. conv'[d].turn_index = 0
      BY <1>1, <1>4, <2>2 DEF Create, Active
    <3>2. log'[d] \in Seq(Event)
      BY <1>4, CreateStep DEF TypeOK
    <3>3. Known(d)' \in Nat
      <4>1. Cardinality(Sent(d)') \in Nat /\ Base(d)' \in Nat
        BY <3>2, KnownIsCount DEF Base, Sent
      <4> QED
        BY <4>1 DEF Known
    <3> QED
      BY <3>1, <3>3
  <2> QED
    BY <2>1, <2>2
<1>5. ASSUME NEW r \in Requests, Commit(r)
      PROVE  conv'[d].turn_index <= Known(d)'
  <2>1. CASE d # tgt[r]
    BY <1>1, <1>3, <1>5, <2>1 DEF Commit
  <2>2. CASE d = tgt[r]
    <3>1. /\ kind[r] # "branch" =>
               Known(d)' = Known(d) + IF Last(r).event_type = "message.sent"
                                      THEN 1 ELSE 0
          /\ kind[r] = "branch" => Known(d)' >= Last(r).state_hash
      BY <1>5, <2>2, CommitAccounts
    <3>2. /\ Last(r).event_type \in StateEvents =>
               /\ conv'[d].turn_index = Last(r).state_hash
               /\ conv'[d].turn_index = mem[r].turn_index
          /\ Last(r).event_type \notin StateEvents =>
               /\ ~Fresh(r) => conv'[d].turn_index = conv[d].turn_index
               /\ Fresh(r) => conv'[d].turn_index = 0
      BY <1>5, <2>2, CommittedState
    <3>3. /\ Complete(r) /\ pend[r] \in Seq(Event) /\ kind[r] \in Kinds
          /\ pc[r] = "commit" /\ Open(r) /\ mem[r].turn_index \in Nat
      BY <1>5 DEF Commit, Batches, BatchOf, TypeOK, Open, Closed, Row
    <3>4. CASE kind[r] = "branch"
      BY <3>1, <3>2, <3>3, <3>4, BatchEnds DEF StateEvents
    <3>5. CASE Last(r).event_type \notin StateEvents
      BY <1>1, <1>2, <3>1, <3>2, <3>3, <3>5, BatchEnds DEF StateEvents
    <3>6. CASE Last(r).event_type \in StateEvents /\ kind[r] # "branch"
      <4>1. IsTurn(r) /\ Last(r).event_type = "message.sent"
        BY <3>3, <3>6, BatchEnds DEF StateEvents, IsTurn, Kinds
      <4>2. mem[r].turn_index <= Known(d) + (IF HasAnswer(r) THEN 1 ELSE 0)
        BY <2>2, <3>3, <4>1 DEF Counts, CountOf
      <4>3. HasAnswer(r)
        BY <3>3, <4>1 DEF HasAnswer
      <4> QED
        BY <3>1, <3>2, <3>6, <4>1, <4>2, <4>3
    <3> QED
      BY <3>4, <3>5, <3>6
  <2> QED
    BY <2>1, <2>2
<1>6. CASE UNCHANGED <<conv, log>>
  BY <1>3, <1>6
<1> QED
  BY <1>4, <1>5, <1>6, OnlyCommitsWrite

\* turn_index never counts an answer that is not in the log, whichever
\* transactions fail between the answer and the commit (run_turn).
THEOREM CountIsBacked == Spec => []NeverOvercounts
<1>1. Init => Counts
  <2> SUFFICES ASSUME Init, NEW c \in Conversations
               PROVE  conv[c].turn_index <= Known(c)
    BY DEF Init, Counts, NeverOvercounts, CountOf, Known, Open, Closed
  <2>1. conv[c].turn_index = 0
    BY DEF Init, Absent
  <2>2. Known(c) \in Nat
    BY InitIInv, KnownIsNat DEF IInv
  <2> QED
    BY <2>1, <2>2
<1>2. IInv /\ Batches /\ Handlers /\ Counts /\ [Next]_vars => Counts'
  BY NextNeverOvercounts, NextCountOf DEF Counts
<1>3. Counts => NeverOvercounts
  BY DEF Counts
<1> QED
  BY <1>1, <1>2, <1>3, Invariance, BatchesInvariant, HandlersInvariant, PTL
  DEF Spec

-----------------------------------------------------------------------------
CallsTypeOK == /\ call \in [Requests -> {"unsent", "queued", "served", "refused"}]
               /\ heard \in [Requests -> {"nothing", "answer", "error", "silence"}]

\* The attempts to say something that were committed.
Recorded == {r \in Requests : Speaks(r) /\ pc[r] = "ok"}

Served == {r \in Requests : Speaks(r) /\ call[r] = "served"}

\* A handler runs only for a call that got a connection, does what its client
\* asked for, and its answer is heard only after its commit.
CallOf(r) ==
  /\ pc[r] # "idle" => call[r] = "served"
  /\ Open(r) => kind[r] = IF Speaks(r) THEN "turn" ELSE "stop"
  /\ heard[r] = "answer" => pc[r] = "ok"

Calls == CallsTypeOK /\ \A r \in Requests : CallOf(r)

\* Each committed attempt left exactly one row that tells what became of it.
OneRowEach == /\ IsFiniteSet(Served) /\ IsFiniteSet(Taken)
              /\ Cardinality(Taken) = Cardinality(Recorded)

-----------------------------------------------------------------------------
\* Every step of the sessions is a step of the requests or leaves them alone.
LEMMA SessionStep == [ClientsNext]_sessionVars => [Next]_vars
<1> SUFFICES ASSUME ClientsNext PROVE Next \/ UNCHANGED vars
  BY DEF sessionVars
<1>1. CASE Short
  <2>1. "observed" \in SourceKinds
    BY SourceKindsAssumption
  <2> QED
    BY <1>1, <2>1 DEF Short, Next
<1>2. ASSUME NEW r \in Requests, Serve(r) PROVE Next
  BY <1>2 DEF Serve, Handle, Next, Arrival
<1>3. ASSUME NEW r \in Requests, Steps(r) PROVE Next
  BY <1>3 DEF Steps, Next
<1>4. ASSUME NEW r \in Requests,
             \/ Send(r) \/ Deliver(r) \/ DeliverError(r) \/ AcknowledgementLost(r)
             \/ GiveUp(r) \/ NotFound(r) \/ PoolTimeout(r)
      PROVE  UNCHANGED vars
  BY <1>4 DEF Send, Deliver, DeliverError, AcknowledgementLost, GiveUp, NotFound,
     PoolTimeout, Hear, Refuse
<1> QED
  BY <1>1, <1>2, <1>3, <1>4 DEF ClientsNext

\* Whatever is proved of the requests holds with clients and a pool around them.
THEOREM SessionsAreRequests == ClientsSpec => Spec
<1>1. ClientsInit => Init
  BY DEF ClientsInit
<1> QED
  BY <1>1, SessionStep, PTL DEF ClientsSpec, Spec

\* Only a commit ends well, and a request that ended has ended.
LEMMA OnlyCommitIsOk ==
  ASSUME IInv, [Next]_vars, NEW r \in Requests
  PROVE  /\ pc[r] = "ok" => pc'[r] = "ok"
         /\ pc'[r] = "ok" /\ pc[r] # "ok" => Commit(r)
<1> USE DEF IInv
<1>1. TypeOK
  OBVIOUS
<1>2. CASE UNCHANGED pc
  BY <1>2
<1>3. ASSUME NEW s \in Requests, s # r,
             Arrival(s) \/ Progress(s) \/ Answered(s) \/ Crash(s)
      PROVE  pc'[r] = pc[r]
  BY <1>1, <1>3, OthersKeep
<1>4. CASE Arrival(r)
  BY <1>1, <1>4 DEF Arrival, LoadTurn, OpenChat, LoadStop, LoadBranch, Arrive,
     Goto, TypeOK
<1>5. CASE Abort(r)
  BY <1>1, <1>5 DEF Abort, Close, Goto, Open, Closed, TypeOK
<1>6. CASE CheckKill(r) \/ CallModel(r) \/ Answered(r) \/ Update(r) \/ ReadMax(r)
  BY <1>1, <1>6 DEF CheckKill, CallModel, Answered, Update, ReadMax, Goto, TypeOK
<1>7. CASE Insert(r)
  BY <1>7, InsertedRow
<1>8. CASE Commit(r)
  BY <1>8 DEF Commit
<1> QED
  BY <1>2, <1>3, <1>4, <1>5, <1>6, <1>7, <1>8
  DEF Next, Progress, Killed, Duplicate, GatewayError, DeadlockVictim, Crash,
      Create, PatchKill, vars

LEMMA NextCalls ==
  ASSUME IInv, Calls, [ClientsNext]_sessionVars
  PROVE  Calls'
<1> USE DEF IInv
<1>1. TypeOK /\ CallsTypeOK /\ [Next]_vars
  BY SessionStep DEF Calls
<1>2. CallsTypeOK'
  BY <1>1 DEF CallsTypeOK, ClientsNext, Short, Send, Deliver, DeliverError,
     AcknowledgementLost, GiveUp, Serve, NotFound, PoolTimeout, Steps, Hear, Refuse,
     clientVars, sessionVars
<1>3. ASSUME NEW r \in Requests PROVE CallOf(r)'
  <2>1. CallOf(r)
    BY DEF Calls
  <2>2. pc[r] = "ok" => pc'[r] = "ok"
    BY <1>1, OnlyCommitIsOk
  <2>3. CASE UNCHANGED vars
    <3>1. pc'[r] = pc[r] /\ kind'[r] = kind[r]
      BY <2>3 DEF vars
    <3>2. call[r] = "served" => call'[r] = "served"
      BY <1>1, <2>3 DEF CallsTypeOK, ClientsNext, Short, Send, Deliver, DeliverError,
         AcknowledgementLost, GiveUp, Serve, NotFound, PoolTimeout, Steps, Hear,
         Refuse, clientVars, sessionVars
    <3>3. heard'[r] = "answer" => heard[r] = "answer" \/ pc[r] = "ok"
      BY <1>1, <2>3 DEF CallsTypeOK, ClientsNext, Short, Send, Deliver, DeliverError,
         AcknowledgementLost, GiveUp, Serve, NotFound, PoolTimeout, Steps, Hear,
         Refuse, clientVars, sessionVars
    <3> QED
      BY <2>1, <3>1, <3>2, <3>3 DEF CallOf, Open
  <2>4. CASE Short /\ UNCHANGED clientVars
    <3>1. pc' = pc /\ kind' = kind /\ call' = call /\ heard' = heard
      BY <2>4 DEF Short, Create, PatchKill, clientVars
    <3> QED
      BY <2>1, <3>1 DEF CallOf, Open
  <2>5. ASSUME NEW s \in Requests, Serve(s) PROVE CallOf(r)'
    <3>1. PICK c \in Conversations : Handle(s, c)
      BY <2>5 DEF Serve
    <3>2. Arrival(s) /\ heard' = heard /\ call' = [call EXCEPT ![s] = "served"]
      BY <2>5, <3>1 DEF Serve, Handle, Arrival
    <3>3. CASE r # s
      <4>1. pc'[r] = pc[r] /\ kind'[r] = kind[r]
        BY <1>1, <3>2, <3>3, OthersKeep
      <4> QED
        BY <1>1, <2>1, <3>2, <3>3, <4>1 DEF CallOf, Open, CallsTypeOK
    <3>4. CASE r = s
      <4>1. call'[r] = "served"
        BY <1>1, <3>2, <3>4 DEF CallsTypeOK
      <4>2. kind'[r] = IF Speaks(r) THEN "turn" ELSE "stop"
        BY <1>1, <3>1, <3>4 DEF Handle, Speaks, LoadTurn, LoadStop, Arrive, TypeOK
      <4> QED
        BY <2>1, <2>2, <3>2, <4>1, <4>2 DEF CallOf
    <3> QED
      BY <3>3, <3>4
  <2>6. ASSUME NEW s \in Requests, Steps(s) PROVE CallOf(r)'
    <3>1. call' = call /\ heard' = heard
      BY <2>6 DEF Steps, clientVars
    <3>2. CASE r # s
      <4>1. pc'[r] = pc[r] /\ kind'[r] = kind[r]
        BY <1>1, <2>6, <3>2, OthersKeep DEF Steps
      <4> QED
        BY <2>1, <3>1, <4>1 DEF CallOf, Open
    <3>3. CASE r = s
      <4>1. pc[r] # "idle"
        BY <2>6, <3>3 DEF Steps, Progress, CheckKill, Killed, ReadMax, Insert,
           Duplicate, CallModel, Answered, GatewayError, Update, Commit,
           DeadlockVictim, Crash, Abort, Open, Closed
      <4>2. Open(r)' => Open(r) /\ kind'[r] = kind[r]
        BY <1>1, <2>6, <3>3 DEF Steps, Progress, CheckKill, Killed, ReadMax, Insert,
           Duplicate, CallModel, Answered, GatewayError, Update, Commit,
           DeadlockVictim, Crash, Abort, Close, Goto, Open, Closed, TypeOK
      <4> QED
        BY <2>1, <2>2, <3>1, <4>1, <4>2 DEF CallOf
    <3> QED
      BY <3>2, <3>3
  <2>7. ASSUME NEW s \in Requests,
               \/ Send(s) \/ Deliver(s) \/ DeliverError(s) \/ AcknowledgementLost(s)
               \/ GiveUp(s) \/ NotFound(s) \/ PoolTimeout(s)
        PROVE  CallOf(r)'
    BY <2>3, <2>7 DEF Send, Deliver, DeliverError, AcknowledgementLost, GiveUp,
       NotFound, PoolTimeout, Hear, Refuse
  <2> QED
    BY <2>3, <2>4, <2>5, <2>6, <2>7 DEF ClientsNext, sessionVars
<1> QED
  BY <1>2, <1>3 DEF Calls

-----------------------------------------------------------------------------
\* A taken message is a row of some conversation.
LEMMA TakenRows ==
  ASSUME NEW rows
  PROVE  LET taken == {e \in UNION {{c} \X DOMAIN rows[c] : c \in Conversations} :
                         rows[e[1]][e[2]].event_type \in TakenEvents}
         IN  \A e : e \in taken <=>
               \E c \in Conversations : \E i \in DOMAIN rows[c] :
                 e = <<c, i>> /\ rows[c][i].event_type \in TakenEvents
<1> DEFINE all == UNION {{c} \X DOMAIN rows[c] : c \in Conversations}
<1>1. ASSUME NEW e
      PROVE  e \in all <=> \E c \in Conversations : \E i \in DOMAIN rows[c] : e = <<c, i>>
  <2>1. e \in all <=> \E c \in Conversations : e \in {c} \X DOMAIN rows[c]
    OBVIOUS
  <2>2. \A c : e \in {c} \X DOMAIN rows[c] <=> \E i \in DOMAIN rows[c] : e = <<c, i>>
    OBVIOUS
  <2> QED
    BY <2>1, <2>2
<1>2. \A c, i : <<c, i>>[1] = c /\ <<c, i>>[2] = i
  OBVIOUS
<1> HIDE DEF all
<1>3. \A e : e \in {x \in all : rows[x[1]][x[2]].event_type \in TakenEvents} <=>
               \E c \in Conversations : \E i \in DOMAIN rows[c] :
                 e = <<c, i>> /\ rows[c][i].event_type \in TakenEvents
  BY <1>1, <1>2
<1> QED
  BY <1>3 DEF all

\* A commit takes a message just if its batch ends in an answer or a refusal.
LEMMA CommitTakes ==
  ASSUME IInv, Batches, NEW r \in Requests, Commit(r), NEW c, c = tgt[r],
         NEW top, top = Len(log[c]) + Len(pend[r])
  PROVE  /\ Taken' = IF Last(r).event_type \in TakenEvents
                     THEN Taken \cup {<<c, top>>} ELSE Taken
         /\ <<c, top>> \notin Taken
<1> DEFINE L == Len(log[c])
           P == Len(pend[r])
<1>1. /\ c \in Conversations /\ pend[r] \in Seq(Event) /\ Open(r)
      /\ L \in Nat /\ P \in Nat /\ P > 0
      /\ DOMAIN log[c] = 1..L /\ DOMAIN log'[c] = 1..L + P
      /\ \A i \in 1..L : log'[c][i] = log[c][i]
      /\ \A i \in 1..P : log'[c][L + i] = pend[r][i]
      /\ \A d \in Conversations : d # c => log'[d] = log[d]
  BY CommittedRows
<1>2. Complete(r)
  BY DEF Commit, Batches, BatchOf
<1>3. \A i \in 1..P : i # P => pend[r][i].event_type \notin TakenEvents
  BY <1>1, <1>2, BatchEnds
<1>4. log'[c][top] = Last(r) /\ top = L + P
  BY CommitAddsState
<1> HIDE DEF L, P
<1>5. \A i \in 1..L + P : i \in 1..L \/ (i - L \in 1..P /\ L + (i - L) = i)
  BY <1>1
<1>6. top \in 1..L + P /\ top \notin 1..L /\ 1..L \subseteq 1..L + P
  <2>1. L + P \in 1..L + P /\ L + P \notin 1..L /\ 1..L \subseteq 1..L + P
    BY <1>1
  <2> QED
    BY <2>1, <1>4, Zenon
<1>7. ASSUME NEW d \in Conversations, NEW i \in DOMAIN log'[d], ~(d = c /\ i = top)
      PROVE  log'[d][i].event_type \in TakenEvents =>
               i \in DOMAIN log[d] /\ log'[d][i] = log[d][i]
  <2>1. CASE d # c
    BY <1>1, <2>1
  <2>2. CASE d = c /\ i \in 1..L
    BY <1>1, <2>2
  <2>3. CASE d = c /\ i \notin 1..L
    <3>1. i - L \in 1..P /\ L + (i - L) = i /\ i - L # P
      BY <1>1, <1>4, <1>5, <1>7, <2>3
    <3> QED
      BY <3>1, <1>1, <1>3, <2>3
  <2> QED
    BY <2>1, <2>2, <2>3
<1>8. ASSUME NEW d \in Conversations, NEW i \in DOMAIN log[d]
      PROVE  i \in DOMAIN log'[d] /\ log'[d][i] = log[d][i]
  BY <1>1, <1>6
<1>9. /\ \A e : e \in Taken <=>
            \E d \in Conversations : \E i \in DOMAIN log[d] :
              e = <<d, i>> /\ log[d][i].event_type \in TakenEvents
      /\ \A e : e \in Taken' <=>
            \E d \in Conversations : \E i \in DOMAIN log'[d] :
              e = <<d, i>> /\ log'[d][i].event_type \in TakenEvents
  BY TakenRows DEF Taken, TakenEvents
<1>10. <<c, top>> \notin Taken
  <2>1. top \notin DOMAIN log[c]
    BY <1>1, <1>6, Zenon
  <2>2. \A d, i : <<c, top>> = <<d, i>> => d = c /\ i = top
    OBVIOUS
  <2> QED
    BY <2>1, <2>2, <1>9, Zenon
<1>11. ASSUME NEW e
       PROVE  e \in Taken' <=> \/ e \in Taken
                               \/ e = <<c, top>> /\ Last(r).event_type \in TakenEvents
  <2>1. ASSUME e \in Taken PROVE e \in Taken'
    BY <2>1, <1>8, <1>9
  <2>2. ASSUME e = <<c, top>>, Last(r).event_type \in TakenEvents PROVE e \in Taken'
    <3>1. c \in Conversations /\ top \in DOMAIN log'[c]
      BY <1>1, <1>6, Zenon
    <3>2. log'[c][top].event_type \in TakenEvents
      BY <2>2, <1>4
    <3> QED
      BY <2>2, <3>1, <3>2, <1>9, Zenon
  <2>3. ASSUME e \in Taken', e \notin Taken
        PROVE  e = <<c, top>> /\ Last(r).event_type \in TakenEvents
    <3>0. PICK d \in Conversations : \E i \in DOMAIN log'[d] :
            e = <<d, i>> /\ log'[d][i].event_type \in TakenEvents
      BY <2>3, <1>9
    <3>1. PICK i \in DOMAIN log'[d] :
            e = <<d, i>> /\ log'[d][i].event_type \in TakenEvents
      BY <3>0
    <3>2. d = c /\ i = top
      BY <2>3, <3>1, <1>7, <1>9
    <3> QED
      BY <3>1, <3>2, <1>4
  <2> QED
    BY <2>1, <2>2, <2>3
<1> QED
  BY <1>10, <1>11

\* Creating a conversation takes no message.
LEMMA CreateTakesNone ==
  ASSUME IInv, NEW c \in Conversations, NEW sk \in SourceKinds, Create(c, sk)
  PROVE  Taken' = Taken
<1> DEFINE first == [sequence_no |-> 1, event_type |-> "conversation.started",
                     source_kind |-> sk, state_hash |-> 0]
<1>1. log[c] = <<>> /\ log \in [Conversations -> Seq(Event)]
  BY DEF IInv, Create, Free, RowIffEvents, TypeOK
<1>2. log' = [log EXCEPT ![c] = <<first>>]
  BY DEF Create
<1>3. /\ DOMAIN log[c] = {} /\ DOMAIN log'[c] = {1}
      /\ log'[c][1].event_type \notin TakenEvents
      /\ \A d \in Conversations : d # c => log'[d] = log[d]
  BY <1>1, <1>2 DEF TakenEvents
<1>4. /\ \A e : e \in Taken <=>
            \E d \in Conversations : \E i \in DOMAIN log[d] :
              e = <<d, i>> /\ log[d][i].event_type \in TakenEvents
      /\ \A e : e \in Taken' <=>
            \E d \in Conversations : \E i \in DOMAIN log'[d] :
              e = <<d, i>> /\ log'[d][i].event_type \in TakenEvents
  BY TakenRows DEF Taken, TakenEvents
<1>5. \A e : e \in Taken' <=> e \in Taken
  BY <1>3, <1>4
<1> QED
  BY <1>5

LEMMA NextOneRowEach ==
  ASSUME IInv, Batches, Calls, OneRowEach, [ClientsNext]_sessionVars
  PROVE  OneRowEach'
<1> USE DEF IInv
<1>1. TypeOK /\ CallsTypeOK /\ [Next]_vars
  BY SessionStep DEF Calls
<1>2. IsFiniteSet(Served) /\ IsFiniteSet(Taken)
      /\ Cardinality(Taken) = Cardinality(Recorded)
  BY DEF OneRowEach
<1>3. IsFiniteSet(Served')
  <2>1. \/ \E r \in Requests : Serve(r)
        \/ \A r \in Requests : call'[r] = "served" => call[r] = "served"
    BY <1>1 DEF CallsTypeOK, ClientsNext, Short, Send, Deliver, DeliverError,
       AcknowledgementLost, GiveUp, NotFound, PoolTimeout, Steps, Hear, Refuse,
       clientVars, sessionVars
  <2>2. PICK r : Served' \subseteq Served \cup {r}
    <3>1. CASE \A r \in Requests : call'[r] = "served" => call[r] = "served"
      BY <3>1 DEF Served, Speaks
    <3>2. ASSUME NEW r \in Requests, Serve(r)
          PROVE  Served' \subseteq Served \cup {r}
      BY <1>1, <3>2 DEF Served, Speaks, Serve, CallsTypeOK
    <3> QED
      BY <2>1, <3>1, <3>2
  <2>3. IsFiniteSet(Served \cup {r})
    BY <1>2, FS_AddElement
  <2> QED
    BY <2>2, <2>3, FS_Subset
<1>4. Recorded \subseteq Served
  BY DEF Recorded, Served, Calls, CallOf
<1>5. IsFiniteSet(Recorded)
  BY <1>2, <1>4, FS_Subset
<1>6. CASE \E r \in Requests : Commit(r)
  <2> PICK r \in Requests : Commit(r)
    BY <1>6
  <2>1. PICK x : /\ Taken' = IF Last(r).event_type \in TakenEvents
                             THEN Taken \cup {x} ELSE Taken
                 /\ x \notin Taken
    BY CommitTakes
  <2>2. /\ pc[r] = "commit" /\ Open(r) /\ Complete(r) /\ pend[r] \in Seq(Event)
        /\ kind[r] = IF Speaks(r) THEN "turn" ELSE "stop"
        /\ pc' = [pc EXCEPT ![r] = "ok"]
    BY DEF Commit, Close, Goto, Batches, BatchOf, TypeOK, Open, Closed, Calls, CallOf
  <2>3. Speaks(r) <=> Last(r).event_type \in TakenEvents
    BY <2>2, BatchEnds DEF IsTurn, TakenEvents
  <2>4. r \notin Recorded
    BY <2>2 DEF Recorded
  <2>5. Recorded' = IF Speaks(r) THEN Recorded \cup {r} ELSE Recorded
    BY <1>1, <2>2 DEF Recorded, Speaks, TypeOK
  <2>6. CASE Speaks(r)
    <3>1. Taken' = Taken \cup {x} /\ Recorded' = Recorded \cup {r}
      BY <2>1, <2>3, <2>5, <2>6
    <3>2. IsFiniteSet(Taken \cup {x})
          /\ Cardinality(Taken \cup {x}) = Cardinality(Taken) + 1
      BY <1>2, <2>1, FS_AddElement
    <3>3. Cardinality(Recorded \cup {r}) = Cardinality(Recorded) + 1
      BY <1>5, <2>4, FS_AddElement
    <3> QED
      BY <1>2, <1>3, <3>1, <3>2, <3>3 DEF OneRowEach
  <2>7. CASE ~Speaks(r)
    BY <1>2, <1>3, <2>1, <2>3, <2>5, <2>7 DEF OneRowEach
  <2> QED
    BY <2>6, <2>7
<1>7. CASE ~\E r \in Requests : Commit(r)
  <2>1. Taken' = Taken
    <3>1. CASE UNCHANGED <<conv, log>>
      BY <3>1 DEF Taken
    <3>2. CASE \E c \in Conversations, sk \in SourceKinds : Create(c, sk)
      BY <3>2, CreateTakesNone
    <3> QED
      BY <1>1, <1>7, <3>1, <3>2, OnlyCommitsWrite
  <2>2. Recorded' = Recorded
    BY <1>1, <1>7, OnlyCommitIsOk DEF Recorded, Speaks
  <2> QED
    BY <1>2, <1>3, <2>1, <2>2 DEF OneRowEach
<1> QED
  BY <1>6, <1>7

LEMMA SessionsInvariance == ClientsSpec => [](Calls /\ OneRowEach)
<1>1. ClientsInit => Calls /\ OneRowEach
  <2> SUFFICES ASSUME ClientsInit PROVE Calls /\ OneRowEach
    OBVIOUS
  <2>1. Calls
    BY DEF ClientsInit, Init, Calls, CallsTypeOK, CallOf, Open, Closed
  <2>2. Served = {} /\ Recorded = {}
    BY DEF ClientsInit, Init, Served, Recorded
  <2>3. Taken = {}
    <3>1. \A c \in Conversations : DOMAIN log[c] = {}
      BY DEF ClientsInit, Init
    <3>2. \A e : e \in Taken <=>
            \E c \in Conversations : \E i \in DOMAIN log[c] :
              e = <<c, i>> /\ log[c][i].event_type \in TakenEvents
      BY TakenRows DEF Taken, TakenEvents
    <3> QED
      BY <3>1, <3>2
  <2> QED
    BY <2>1, <2>2, <2>3, FS_EmptySet DEF OneRowEach
<1>2. IInv /\ Batches /\ Calls /\ OneRowEach /\ [ClientsNext]_sessionVars
        => (Calls /\ OneRowEach)'
  BY NextCalls, NextOneRowEach
<1> QED
  BY <1>1, <1>2, SessionsAreRequests, Invariance, BatchesInvariant, PTL
  DEF ClientsSpec

\* As many messages are taken as answers were heard, at least, and at most as
\* many as attempts got a connection, whatever is lost and tried again
\* (routes.message commits before it returns).
THEOREM AnswersAreRecorded == ClientsSpec => []AnsweredIsRecorded
<1>1. Calls /\ OneRowEach => AnsweredIsRecorded
  <2> SUFFICES ASSUME Calls, OneRowEach PROVE AnsweredIsRecorded
    OBVIOUS
  <2> DEFINE answered == {r \in Requests : Speaks(r) /\ heard[r] = "answer"}
  <2>1. answered \subseteq Recorded /\ Recorded \subseteq Served
    BY DEF Recorded, Served, Calls, CallOf
  <2>2. IsFiniteSet(Served) /\ Cardinality(Taken) = Cardinality(Recorded)
    BY DEF OneRowEach
  <2>3. IsFiniteSet(Recorded) /\ Cardinality(Recorded) <= Cardinality(Served)
    BY <2>1, <2>2, FS_Subset
  <2>4. Cardinality(answered) <= Cardinality(Recorded)
    BY <2>1, <2>3, FS_Subset
  <2> QED
    BY <2>2, <2>3, <2>4 DEF AnsweredIsRecorded, Served
<1> QED
  BY <1>1, SessionsInvariance, PTL

=============================================================================
