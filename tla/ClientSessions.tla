---------------------------- MODULE ClientSessions ----------------------------
(***************************************************************************)
(* ConversationRuntime with what is around a request: the client that      *)
(* sends it and may send it again, the connection pool that its session    *)
(* takes a connection from, and the answer on its way back.                *)
(*                                                                         *)
(* A request of the runtime is one attempt.  It waits for a connection     *)
(* (SQLAlchemy's pool: 5 and 10 more, 30 s, in no order) before its first  *)
(* statement and keeps it until its transaction ends, the model call       *)
(* included.  trace_middleware turns every exception into an answer 500    *)
(* that does not say what became of the transaction.  A client that hears  *)
(* an error or nothing may try again; no route looks at an idempotency     *)
(* key, so a further attempt is a request like any other.                  *)
(***************************************************************************)
EXTENDS ConversationRuntime

CONSTANTS Clients,
          Client,      \* whose attempt a request is
          Asks,        \* what a client asks for: "turn" or "stop"
          PoolLimit    \* pool_size and max_overflow of the engine

ASSUME ClientAssumption == Client \in [Requests -> Clients]
ASSUME AsksAssumption == Asks \in [Clients -> {"turn", "stop"}]
ASSUME PoolLimitAssumption == PoolLimit \in Nat \ {0}

VARIABLES
  call,    \* each attempt is "unsent", "queued", "served" or "refused"
  heard    \* what its client has heard: "nothing", "answer", "error", "silence"

clientVars == <<call, heard>>
sessionVars == <<vars, clientVars>>

ClientsInit == /\ Init
               /\ call = [r \in Requests |-> "unsent"]
               /\ heard = [r \in Requests |-> "nothing"]

-----------------------------------------------------------------------------
\* The client.

Attempts(k) == {r \in Requests : Client[r] = k}

\* A client has one attempt on its way, and stops when it has an answer.
Send(r) ==
  /\ call[r] = "unsent"
  /\ \A s \in Attempts(Client[r]) \ {r} :
        call[s] = "unsent" \/ heard[s] \in {"error", "silence"}
  /\ call' = [call EXCEPT ![r] = "queued"]
  /\ UNCHANGED <<vars, heard>>

Hear(r, what) == /\ heard[r] = "nothing"
                 /\ heard' = [heard EXCEPT ![r] = what]
                 /\ UNCHANGED <<vars, call>>

\* A mutant of Deliver: the answer does not depend on the transaction.
DeliverBeforeCommit(r) == pc[r] = "commit" /\ Hear(r, "answer")

Deliver(r) == pc[r] = "ok" /\ Hear(r, "answer")

\* trace_middleware answers 500: the handler raised, or found no connection.
DeliverError(r) == /\ pc[r] = "failed" \/ call[r] = "refused"
                   /\ Hear(r, "error")

\* The database has committed, its acknowledgement is lost, and commit raises.
AcknowledgementLost(r) == pc[r] = "ok" /\ Hear(r, "error")

\* The client's own timeout, or an answer that is lost: the handler goes on.
GiveUp(r) == call[r] # "unsent" /\ Hear(r, "silence")

-----------------------------------------------------------------------------
\* The connection pool.

Sessions == {r \in Requests : Open(r)}

PoolFull == Cardinality(Sessions) >= PoolLimit

Handle(r, c) == \/ Asks[Client[r]] = "turn" /\ LoadTurn(r, c)
                \/ Asks[Client[r]] = "stop" /\ LoadStop(r, c)

\* A connection is free: the handler's first statement runs.
Serve(r) == /\ call[r] = "queued"
            /\ ~PoolFull
            /\ call' = [call EXCEPT ![r] = "served"]
            /\ \E c \in Conversations : Handle(r, c)
            /\ UNCHANGED heard

Refuse(r) == /\ call[r] = "queued"
             /\ call' = [call EXCEPT ![r] = "refused"]
             /\ UNCHANGED <<vars, heard>>

\* The conversation is not there: 404.
NotFound(r) == /\ ~PoolFull
               /\ \E c \in Conversations : conv[c].status = "absent"
               /\ Refuse(r)

\* No connection within the pool's timeout.
PoolTimeout(r) == PoolFull /\ Refuse(r)

-----------------------------------------------------------------------------
\* What goes on as before.  The short requests need a connection as well; the
\* label that a conversation is created with plays no part here.
Short == /\ ~PoolFull
         /\ PatchKill \/ \E c \in Conversations : Create(c, "observed")

Steps(r) == (Progress(r) \/ Answered(r) \/ Crash(r)) /\ UNCHANGED clientVars

ClientsNext ==
  \/ Short /\ UNCHANGED clientVars
  \/ \E r \in Requests :
       \/ Send(r) \/ Deliver(r) \/ DeliverError(r) \/ AcknowledgementLost(r)
       \/ GiveUp(r) \/ Serve(r) \/ NotFound(r) \/ PoolTimeout(r) \/ Steps(r)

ClientsSpec == ClientsInit /\ [][ClientsNext]_sessionVars

\* The scheduler of the API process runs every handler, the pool hands out a
\* free connection or gives up after its timeout.  Nothing is assumed of the
\* clients and of the network.
ClientsFairness ==
  \A r \in Requests : /\ WF_sessionVars(Progress(r) /\ UNCHANGED clientVars)
                      /\ WF_sessionVars(Serve(r) \/ NotFound(r) \/ PoolTimeout(r))

ClientsFairSpec == ClientsSpec /\ ClientsFairness

-----------------------------------------------------------------------------
Speaks(r) == Asks[Client[r]] = "turn"

\* The messages that were taken: answered, or refused for what they said.
Taken == {e \in UNION {{c} \X DOMAIN log[c] : c \in Conversations} :
            log[e[1]][e[2]].event_type \in {"message.sent", "security.injection_detected"}}

\* What clients are told is in the log: there are at least as many messages
\* taken as answers that were heard, and at most as many as attempts that got
\* a connection, whichever answers and acknowledgements are lost and whatever
\* is tried again (routes.message commits before it returns;
\* trace_middleware; openai_compat.chat).
AnsweredIsRecorded ==
  /\ Cardinality({r \in Requests : Speaks(r) /\ heard[r] = "answer"})
       <= Cardinality(Taken)
  /\ Cardinality(Taken)
       <= Cardinality({r \in Requests : Speaks(r) /\ call[r] = "served"})

\* Every call ends in an answer or an error of the API, although calls wait
\* for a connection, connections for row locks of each other and all of them
\* for a gateway that may not answer (db.py line 7, provider_adapters/models.py
\* line 28).
EveryCallEnds ==
  \A r \in Requests :
    call[r] = "queued" ~>
      call[r] = "refused" \/ (call[r] = "served" /\ pc[r] \in {"ok", "failed"})
=============================================================================
