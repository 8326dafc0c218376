--------------------------- MODULE ConversationLog ---------------------------
(***************************************************************************)
(* What the conversation event table promises to its readers (the events   *)
(* route, evaluation, replay): every request that is answered adds one     *)
(* whole batch of rows to the end of one conversation, numbered without a  *)
(* gap, and a row once written never changes.  A batch has one of the few  *)
(* shapes below, and the usage ledger gains exactly one row with each      *)
(* batch that contains a model answer.                                     *)
(*                                                                         *)
(* ConversationRuntime.tla, where a batch is built row by row by requests  *)
(* that interleave, is shown to implement this specification.              *)
(***************************************************************************)
EXTENDS Naturals, Sequences

CONSTANT Conversations

VARIABLES log,    \* rows of conversation_events, in sequence order
          usage   \* number of usage_ledger rows of each conversation

vars == <<log, usage>>

Started  == <<"conversation.started">>
Blocked  == <<"security.injection_detected">>
Plain    == <<"message.received", "action.selected", "message.sent">>
Grounded == <<"message.received", "action.selected", "retrieval.completed",
              "message.sent">>
Finished == <<"conversation.finished">>

Init == /\ log = [c \in Conversations |-> <<>>]
        /\ usage = [c \in Conversations |-> 0]

\* The rows of c are the old ones followed by one batch of the given shape.
Extends(c, shape) ==
  /\ Len(log'[c]) = Len(log[c]) + Len(shape)
  /\ \A i \in 1..Len(log[c]) : log'[c][i] = log[c][i]
  /\ \A i \in 1..Len(shape) :
        /\ log'[c][Len(log[c]) + i].sequence_no = Len(log[c]) + i
        /\ log'[c][Len(log[c]) + i].event_type = shape[i]
  /\ log' = [log EXCEPT ![c] = log'[c]]

Start(c) == log[c] = <<>> /\ Extends(c, Started) /\ UNCHANGED usage

Refuse(c) == Extends(c, Blocked) /\ UNCHANGED usage

Answer(c) == /\ Extends(c, Plain) \/ Extends(c, Grounded)
             /\ usage' = [usage EXCEPT ![c] = @ + 1]

Finish(c) == log[c] # <<>> /\ Extends(c, Finished) /\ UNCHANGED usage

Next == \E c \in Conversations : Start(c) \/ Refuse(c) \/ Answer(c) \/ Finish(c)

Spec == Init /\ [][Next]_vars
=============================================================================
