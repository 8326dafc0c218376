----------------------------- MODULE ExactReplay -----------------------------
(***************************************************************************)
(* The route replay: it reads the event rows of a conversation, counts its *)
(* usage_ledger rows, runs exact_replay over the rows and counts again, to *)
(* report what the replay cost.  Under READ COMMITTED each of the three    *)
(* statements sees what is committed when it runs, so turns of the same    *)
(* conversation may commit between any two of them.                        *)
(*                                                                         *)
(* The writers are taken at the level of ConversationLog.tla, which the    *)
(* runtime implements: a request adds one whole batch, of the shapes that  *)
(* are named there.  Here its rows carry their provenance as well.         *)
(***************************************************************************)
EXTENDS Integers, Sequences, FiniteSets

CONSTANTS Conversations,
          Requests,       \* calls of replay; each is sent at most once
          SourceKinds,    \* provenance labels a conversation is created with
          MaxRows         \* bound on the rows of a conversation

ASSUME SourceKindsAssumption == "observed" \in SourceKinds
ASSUME MaxRowsAssumption == MaxRows \in Nat

VARIABLES
  log,     \* conversation_events rows of each conversation
  usage,   \* usage_ledger rows of each conversation, counted
  pc,      \* where each replay is
  tgt,     \* the conversation it replays, or <<>>
  rows,    \* the rows it read
  before,  \* the count of the ledger before exact_replay
  result   \* what it answered

written    == <<log, usage>>
replayVars == <<log, usage, pc, tgt, rows, before, result>>

Log == INSTANCE ConversationLog

Types  == {"conversation.started", "security.injection_detected",
           "message.received", "action.selected", "retrieval.completed",
           "message.sent", "conversation.finished"}
Event  == [sequence_no : Nat, event_type : Types, source_kind : SourceKinds]
Result == [events : Seq(Event), coverage : {0, 1}, usage_ledger_delta : Int]

NoResult == [events |-> <<>>, coverage |-> 0, usage_ledger_delta |-> 0]

ReplayInit ==
  /\ Log!Init
  /\ pc = [r \in Requests |-> "idle"]
  /\ tgt = [r \in Requests |-> <<>>]
  /\ rows = [r \in Requests |-> <<>>]
  /\ before = [r \in Requests |-> 0]
  /\ result = [r \in Requests |-> NoResult]

-----------------------------------------------------------------------------
\* Requests that write.

\* Only the first row of a conversation carries its label: append_event's
\* default is "observed".
Batch(c, shape, label) ==
  [i \in DOMAIN shape |-> [sequence_no |-> Len(log[c]) + i,
                           event_type |-> shape[i], source_kind |-> label]]

Write(c, shape, label) ==
  /\ Len(log[c]) + Len(shape) <= MaxRows
  /\ log' = [log EXCEPT ![c] = @ \o Batch(c, shape, label)]
  /\ UNCHANGED <<pc, tgt, rows, before, result>>

Start(c, label) == /\ log[c] = <<>>
                   /\ Write(c, Log!Started, label)
                   /\ UNCHANGED usage

Refuse(c) == Write(c, Log!Blocked, "observed") /\ UNCHANGED usage

Answer(c, shape) == /\ Write(c, shape, "observed")
                    /\ usage' = [usage EXCEPT ![c] = @ + 1]

Finish(c) == /\ log[c] # <<>>
             /\ Write(c, Log!Finished, "observed")
             /\ UNCHANGED usage

-----------------------------------------------------------------------------
\* replay.

Observed(event) == event.source_kind = "observed"

\* The observed events, in their order.
exact_replay(events) ==
  LET kept[i \in 0 .. Len(events)] ==
        IF i = 0 THEN <<>>
        ELSE IF Observed(events[i]) THEN Append(kept[i - 1], events[i]) ELSE kept[i - 1]
  IN  kept[Len(events)]

\* A mutant of Selected: the rows come by pages, and the first is taken.
SelectedPage(c) == SubSeq(log[c], 1, IF Len(log[c]) < 3 THEN Len(log[c]) ELSE 3)

\* The rows of one SELECT, in the order of their numbers.
Selected(c) == log[c]

ReadRows(r, c) ==
  /\ pc[r] = "idle"
  /\ log[c] # <<>>
  /\ pc' = [pc EXCEPT ![r] = "before"]
  /\ tgt' = [tgt EXCEPT ![r] = c]
  /\ rows' = [rows EXCEPT ![r] = Selected(c)]
  /\ UNCHANGED <<written, before, result>>

CountBefore(r) ==
  /\ pc[r] = "before"
  /\ pc' = [pc EXCEPT ![r] = "after"]
  /\ before' = [before EXCEPT ![r] = usage[tgt[r]]]
  /\ UNCHANGED <<written, tgt, rows, result>>

\* A mutant of Answered: coverage is not normalised.
AnsweredRows(observed, delta) ==
  [events |-> observed, coverage |-> Len(observed), usage_ledger_delta |-> delta]

Answered(observed, delta) ==
  [events |-> observed, coverage |-> IF observed = <<>> THEN 0 ELSE 1,
   usage_ledger_delta |-> delta]

\* A mutant of CountAfter: the rows are read again for the answer.
CountAfterRereading(r) ==
  /\ pc[r] = "after"
  /\ pc' = [pc EXCEPT ![r] = "ok"]
  /\ result' = [result EXCEPT ![r] =
                  Answered(exact_replay(log[tgt[r]]), usage[tgt[r]] - before[r])]
  /\ UNCHANGED <<written, tgt, rows, before>>

CountAfter(r) ==
  /\ pc[r] = "after"
  /\ pc' = [pc EXCEPT ![r] = "ok"]
  /\ result' = [result EXCEPT ![r] =
                  Answered(exact_replay(rows[r]), usage[tgt[r]] - before[r])]
  /\ UNCHANGED <<written, tgt, rows, before>>

ReplayNext ==
  \/ \E c \in Conversations :
       \/ \E label \in SourceKinds : Start(c, label)
       \/ Refuse(c)
       \/ \E shape \in {Log!Plain, Log!Grounded} : Answer(c, shape)
       \/ Finish(c)
  \/ \E r \in Requests : \/ \E c \in Conversations : ReadRows(r, c)
                         \/ CountBefore(r)
                         \/ CountAfter(r)

ReplaySpec == ReplayInit /\ [][ReplayNext]_replayVars

-----------------------------------------------------------------------------
\* Every variable keeps to the values the code can give it.
ReplayTypeOK ==
  /\ log \in [Conversations -> Seq(Event)]
  /\ usage \in [Conversations -> Nat]
  /\ pc \in [Requests -> {"idle", "before", "after", "ok"}]
  /\ tgt \in [Requests -> Conversations \cup {<<>>}]
  /\ rows \in [Requests -> Seq(Event)]
  /\ before \in [Requests -> Nat]
  /\ result \in [Requests -> Result]

Answers(events) ==
  Cardinality({i \in DOMAIN events : events[i].event_type = "message.sent"})

\* The ledger rows that a replay reports as its cost are none of the turns it
\* replays: every answer in its rows was counted before it began, so what is
\* counted afterwards in addition belongs to turns that committed meanwhile
\* (replay, lines 240-243; one transaction writes an answer and its ledger
\* row, runtime.py lines 87-92).
CostIsNotOfReplayed ==
  \A r \in Requests : pc[r] = "ok" =>
    /\ result[r].usage_ledger_delta >= 0
    /\ Answers(result[r].events) + result[r].usage_ledger_delta <= usage[tgt[r]]

\* The rows with which a request ends what it writes.
Last == {"conversation.started", "security.injection_detected", "message.sent",
         "conversation.finished"}

\* events are the observed ones of history, each once and in their order.
IsObservedPart(events, history) ==
  /\ {events[i] : i \in DOMAIN events} =
       {history[i] : i \in {i \in DOMAIN history : Observed(history[i])}}
  /\ \A i, j \in DOMAIN events : i < j => events[i].sequence_no < events[j].sequence_no

\* What was replayed stays true: it is the observed part of the history up to
\* some moment, and no turn is replayed by half, whatever is committed between
\* the statements and afterwards (replay line 240, exact_replay).
ReplayIsHistory ==
  \A r \in Requests : pc[r] = "ok" =>
    \E n \in DOMAIN log[tgt[r]] :
      /\ log[tgt[r]][n].event_type \in Last
      /\ IsObservedPart(result[r].events, SubSeq(log[tgt[r]], 1, n))
=============================================================================
