---------------------- MODULE ConversationRuntimeProofs ----------------------
(***************************************************************************)
(* Theorems about ConversationRuntime, for any number of conversations and *)
(* requests, and that it implements ConversationLog.                       *)
(*                                                                         *)
(* LogGapless is not inductive: what a request is about to commit must     *)
(* continue the committed rows, and only one open transaction may hold     *)
(* rows of a conversation.  PendContinuesLog and OneWriter say that, and   *)
(* SeqIsBounded says what keeps them true: the number that append_event    *)
(* read from SELECT max may be stale, but then it is a number that is      *)
(* committed or held, and the INSERT of it fails or waits.                 *)
(*                                                                         *)
(* The second half is the refinement: what the requests write row by row,  *)
(* in transactions that interleave, fail and roll back, reads as whole     *)
(* batches of the few shapes the log promises.  The invariant says where   *)
(* the rows of a transaction go; Batches says what they are at every point *)
(* of a handler.                                                           *)
(***************************************************************************)
EXTENDS ConversationRuntime, Integers, SequenceTheorems, TLAPS

\* The rows an open transaction inserted continue the committed ones.
PendContinuesLog ==
  \A r \in Requests : \A i \in DOMAIN pend[r] :
    pend[r][i].sequence_no = Len(log[tgt[r]]) + i

\* At most one open transaction has rows in a conversation.
OneWriter ==
  \A r, s \in Requests :
    r # s /\ pend[r] # <<>> /\ pend[s] # <<>> => tgt[r] # tgt[s]

\* The number to insert is the next one, or one that is taken.
SeqIsBounded ==
  \A r \in Requests : pc[r] = "insert" =>
    /\ seq[r] \in 1..Len(log[tgt[r]]) + Len(pend[r]) + 1
    /\ pend[r] # <<>> => seq[r] = Len(log[tgt[r]]) + Len(pend[r]) + 1

ClosedHasNoRows == \A r \in Requests : ~Open(r) => pend[r] = <<>>

\* A conversations row and its first event appear together.
RowIffEvents ==
  \A c \in Conversations : conv[c].status = "absent" <=> log[c] = <<>>

\* Only the request that makes a conversation writes it before it commits.
FreshIsPrivate ==
  \A r \in Requests : Open(r) =>
    /\ mem[r].status # "absent"
    /\ Fresh(r) <=> conv[tgt[r]].status = "absent"
    /\ Fresh(r) => \A s \in Requests : Open(s) /\ s # r => tgt[s] # tgt[r]

HasRowsAtCommit == \A r \in Requests : pc[r] = "commit" => pend[r] # <<>>

\* append_event is only on its way with an event to add.
EventIsNamed ==
  \A r \in Requests : pc[r] \in {"max", "insert", "update"} => ev[r] # "none"

\* A stop holds the row as it is going to leave it.
StopHoldsStopped ==
  \A r \in Requests : Open(r) /\ kind[r] = "stop" => mem[r].status = "stopped"

IInv == /\ TypeOK
        /\ LogGapless
        /\ PendContinuesLog
        /\ OneWriter
        /\ SeqIsBounded
        /\ ClosedHasNoRows
        /\ RowIffEvents
        /\ FreshIsPrivate
        /\ HasRowsAtCommit
        /\ EventIsNamed
        /\ StopHoldsStopped

-----------------------------------------------------------------------------
\* The largest of the numbers 1 to n is n, and 0 when there is none: what
\* SELECT max(sequence_no), or 0, gives on rows without a gap.
LEMMA TopOfInterval ==
  ASSUME NEW n \in Nat
  PROVE  Top(1..n) = n
<1>1. n \in (1..n) \cup {0}
  OBVIOUS
<1>2. \A m \in 1..n : m <= n
  OBVIOUS
<1>3. \A k \in (1..n) \cup {0} : (\A m \in 1..n : m <= k) => k = n
  OBVIOUS
<1> QED
  BY <1>1, <1>2, <1>3 DEF Top

\* A transaction sees the numbers 1 to n, its own rows included.
LEMMA VisibleIsInterval ==
  ASSUME TypeOK, LogGapless, PendContinuesLog, NEW r \in Requests
  PROVE  Visible(r) = 1..(Len(log[tgt[r]]) + Len(pend[r]))
<1> DEFINE L == Len(log[tgt[r]])
           P == Len(pend[r])
<1>1. tgt[r] \in Conversations /\ log[tgt[r]] \in Seq(Event) /\ pend[r] \in Seq(Event)
  BY DEF TypeOK
<1>2. DOMAIN log[tgt[r]] = 1..L /\ DOMAIN pend[r] = 1..P
  BY <1>1
<1>3. L \in Nat /\ P \in Nat
  BY <1>1
<1>4. \A i \in 1..L : log[tgt[r]][i].sequence_no = i
  BY <1>1, <1>2 DEF LogGapless
<1>5. \A i \in 1..P : pend[r][i].sequence_no = L + i
  BY <1>2 DEF PendContinuesLog
<1> HIDE DEF L, P
<1>6. \A n \in 1..(L + P) : n \in 1..L \/ (n - L) \in 1..P
  BY <1>3
<1>7. ASSUME NEW n \in 1..(L + P) PROVE n \in Visible(r)
  <2>1. CASE n \in 1..L
    <3>1. log[tgt[r]][n].sequence_no = n
      BY <2>1, <1>4
    <3> QED
      BY <3>1, <2>1, <1>2 DEF Visible
  <2>2. CASE (n - L) \in 1..P
    <3>1. pend[r][n - L].sequence_no = n
      BY <2>2, <1>3, <1>5
    <3> QED
      BY <3>1, <2>2, <1>2 DEF Visible
  <2> QED
    BY <1>6, <2>1, <2>2
<1>8. ASSUME NEW n \in Visible(r) PROVE n \in 1..(L + P)
  <2>1. CASE \E i \in 1..L : n = log[tgt[r]][i].sequence_no
    BY <2>1, <1>4, <1>3
  <2>2. CASE \E i \in 1..P : n = pend[r][i].sequence_no
    BY <2>2, <1>5, <1>3
  <2> QED
    BY <2>1, <2>2, <1>2 DEF Visible
<1> QED
  BY <1>7, <1>8 DEF L, P

\* The initial state has no rows and no open request.
LEMMA InitIInv == Init => IInv
<1> SUFFICES ASSUME Init PROVE IInv
  OBVIOUS
<1> USE DEF Init
<1>1. Nowhere \in Conversations
  BY ConversationsAssumption DEF Nowhere
<1>2. Absent \in Row /\ Absent.status = "absent"
  BY SourceKindsAssumption DEF Absent, Row
<1>3. <<>> \in Seq(Event)
  OBVIOUS
<1>4. TypeOK
  BY <1>1, <1>2, <1>3 DEF TypeOK, PCs, Closed, Kinds
<1>5. LogGapless /\ PendContinuesLog /\ OneWriter
  BY DEF LogGapless, PendContinuesLog, OneWriter
<1>6. RowIffEvents
  BY <1>2 DEF RowIffEvents
<1> QED
  BY <1>4, <1>5, <1>6 DEF IInv, SeqIsBounded, ClosedHasNoRows, FreshIsPrivate,
     HasRowsAtCommit, EventIsNamed, StopHoldsStopped, Open, Closed

-----------------------------------------------------------------------------
\* A step of run_turn that neither numbers, inserts nor commits a row.
LEMMA QuietStep ==
  ASSUME IInv, NEW r \in Requests, Open(r),
         NEW label \in {"max", "generate", "await", "update"},
         NEW event \in Events \cup {"none"},
         label \in {"max", "update"} => event # "none",
         Goto(r, label, event),
         mem' \in [Requests -> Row], upd' \in [Requests -> BOOLEAN],
         \A s \in Requests : mem'[s].status = mem[s].status,
         UNCHANGED <<db, kind, tgt, seq, pend>>
  PROVE  IInv'
<1> USE DEF IInv
<1>1. label \in PCs /\ label \notin Closed
  BY DEF PCs, Closed
<1>2. TypeOK'
  BY <1>1 DEF TypeOK, Goto, db
<1>3. /\ pc' = [pc EXCEPT ![r] = label]
      /\ ev' = [ev EXCEPT ![r] = event]
      /\ pc \in [Requests -> PCs] /\ ev \in [Requests -> Events \cup {"none"}]
  BY DEF Goto, TypeOK
<1>4. \A s \in Requests : Open(s)' = Open(s)
  BY <1>1, <1>3 DEF Open
<1>5. \A s \in Requests : Fresh(s)' = Fresh(s)
  BY DEF Fresh
<1>6. UNCHANGED <<conv, log, tgt, seq, pend>>
  BY DEF db
<1>7. LogGapless' /\ PendContinuesLog' /\ OneWriter' /\ RowIffEvents'
  BY <1>6 DEF LogGapless, PendContinuesLog, OneWriter, RowIffEvents
<1>8. SeqIsBounded' /\ HasRowsAtCommit' /\ EventIsNamed'
  BY <1>3, <1>6 DEF SeqIsBounded, HasRowsAtCommit, EventIsNamed
<1>9. ClosedHasNoRows' /\ FreshIsPrivate' /\ StopHoldsStopped'
  BY <1>4, <1>5, <1>6 DEF ClosedHasNoRows, FreshIsPrivate, StopHoldsStopped
<1> QED
  BY <1>2, <1>7, <1>8, <1>9

\* A request that fails leaves the committed rows as they are and gives up its
\* own, so nobody else's invariant is touched.
LEMMA AbortStep ==
  ASSUME IInv, NEW r \in Requests, Abort(r)
  PROVE  IInv'
<1> USE DEF IInv
<1>1. Nowhere \in Conversations
  BY ConversationsAssumption DEF Nowhere
<1>2. Absent \in Row
  BY SourceKindsAssumption DEF Absent, Row
<1>3. <<>> \in Seq(Event)
  OBVIOUS
<1>4. TypeOK'
  BY <1>1, <1>2, <1>3 DEF TypeOK, Abort, Close, Goto, db, PCs, Closed, Kinds
<1>5. /\ Open(r) /\ ~Open(r)' /\ pend'[r] = <<>> /\ pc'[r] = "failed"
      /\ ev'[r] = "none"
  BY DEF Abort, Close, Goto, Open, Closed, TypeOK
<1>6. \A s \in Requests : s # r =>
        /\ pc'[s] = pc[s] /\ kind'[s] = kind[s] /\ tgt'[s] = tgt[s]
        /\ mem'[s] = mem[s] /\ seq'[s] = seq[s] /\ pend'[s] = pend[s]
        /\ ev'[s] = ev[s]
  BY DEF Abort, Close, Goto, TypeOK
<1>7. \A s \in Requests : s # r => Open(s)' = Open(s) /\ Fresh(s)' = Fresh(s)
  BY <1>6 DEF Open, Fresh
<1>8. conv' = conv /\ log' = log
  BY DEF Abort, db
<1>9. LogGapless' /\ RowIffEvents'
  BY <1>8 DEF LogGapless, RowIffEvents
<1>10. PendContinuesLog' /\ OneWriter'
  BY <1>5, <1>6, <1>8 DEF PendContinuesLog, OneWriter
<1>11. SeqIsBounded' /\ HasRowsAtCommit' /\ EventIsNamed'
  BY <1>5, <1>6, <1>8 DEF SeqIsBounded, HasRowsAtCommit, EventIsNamed
<1>12. ClosedHasNoRows' /\ FreshIsPrivate' /\ StopHoldsStopped'
  BY <1>5, <1>6, <1>7, <1>8 DEF ClosedHasNoRows, FreshIsPrivate,
     StopHoldsStopped
<1> QED
  BY <1>4, <1>9, <1>10, <1>11, <1>12

\* The number read is the next one as this transaction sees it.
LEMMA ReadMaxStep ==
  ASSUME IInv, NEW r \in Requests, ReadMax(r)
  PROVE  IInv'
<1> USE DEF IInv
<1> DEFINE n == Len(log[tgt[r]]) + Len(pend[r])
<1>1. n \in Nat
  BY DEF TypeOK
<1>2. Top(Visible(r)) = n
  BY <1>1, VisibleIsInterval, TopOfInterval
<1>3. seq' = [seq EXCEPT ![r] = n + 1]
  BY <1>2 DEF ReadMax
<1> HIDE DEF n
<1>4. TypeOK'
  BY <1>1, <1>3 DEF ReadMax, TypeOK, db, PCs, Closed
<1>5. /\ pc[r] = "max" /\ pc' = [pc EXCEPT ![r] = "insert"]
      /\ pc \in [Requests -> PCs] /\ seq \in [Requests -> Nat]
      /\ UNCHANGED <<conv, log, kind, tgt, mem, ev, pend>>
  BY DEF ReadMax, TypeOK, db
<1>6. \A s \in Requests : Open(s)' = Open(s) /\ Fresh(s)' = Fresh(s)
  BY <1>5 DEF Open, Fresh, Closed
<1>7. LogGapless' /\ PendContinuesLog' /\ OneWriter' /\ RowIffEvents'
  BY <1>5 DEF LogGapless, PendContinuesLog, OneWriter, RowIffEvents
<1>8. SeqIsBounded'
  <2> SUFFICES ASSUME NEW s \in Requests, pc'[s] = "insert"
               PROVE  /\ seq'[s] \in 1..Len(log[tgt[s]]) + Len(pend[s]) + 1
                      /\ pend[s] # <<>> =>
                           seq'[s] = Len(log[tgt[s]]) + Len(pend[s]) + 1
    BY <1>5 DEF SeqIsBounded
  <2>1. CASE s = r
    <3>1. seq'[s] = n + 1
      BY <2>1, <1>3, <1>5
    <3>2. n + 1 \in 1..n + 1
      BY <1>1
    <3> QED
      BY <3>1, <3>2, <2>1 DEF n
  <2>2. CASE s # r
    BY <2>2, <1>3, <1>5 DEF SeqIsBounded
  <2> QED
    BY <2>1, <2>2
<1>9. HasRowsAtCommit' /\ EventIsNamed'
  BY <1>5 DEF HasRowsAtCommit, EventIsNamed
<1>10. ClosedHasNoRows' /\ FreshIsPrivate' /\ StopHoldsStopped'
  BY <1>5, <1>6 DEF ClosedHasNoRows, FreshIsPrivate, StopHoldsStopped
<1> QED
  BY <1>4, <1>7, <1>8, <1>9, <1>10

\* Where the handler goes on after an INSERT.
LEMMA AfterInsertRange ==
  ASSUME NEW event \in Events, NEW next \in AfterInsert(event)
  PROVE  /\ next[1] \in {"max", "generate", "commit"}
         /\ next[2] \in Events \cup {"none"}
         /\ next[1] = "max" => next[2] # "none"
BY DEF AfterInsert, Events

\* A row that the UNIQUE constraint lets in is the next of its conversation,
\* and no other open transaction has rows there.
LEMMA InsertIsNext ==
  ASSUME IInv, NEW r \in Requests, Insert(r)
  PROVE  /\ seq[r] = Len(log[tgt[r]]) + Len(pend[r]) + 1
         /\ \A s \in Requests : s # r /\ pend[s] # <<>> => tgt[s] # tgt[r]
<1> USE DEF IInv
<1> DEFINE L == Len(log[tgt[r]])
<1>1. /\ pc[r] = "insert" /\ ~Waits(r) /\ ~Committed(tgt[r], seq[r])
  BY DEF Insert
<1>2. tgt[r] \in Conversations /\ log[tgt[r]] \in Seq(Event) /\ seq[r] \in Nat
  BY DEF TypeOK
<1>3. L \in Nat /\ DOMAIN log[tgt[r]] = 1..L
  BY <1>2
<1>4. seq[r] \notin 1..L
  BY <1>1, <1>2, <1>3 DEF Committed, LogGapless
<1>5. seq[r] = L + Len(pend[r]) + 1
  <2>1. CASE pend[r] = <<>>
    <3>1. seq[r] \in 1..L + 0 + 1
      BY <2>1, <1>1 DEF SeqIsBounded
    <3> HIDE DEF L
    <3>2. seq[r] = L + 0 + 1
      BY <3>1, <1>3, <1>4
    <3> QED
      BY <3>2, <2>1
  <2>2. CASE pend[r] # <<>>
    BY <2>2, <1>1 DEF SeqIsBounded
  <2> QED
    BY <2>1, <2>2
<1>6. ASSUME NEW s \in Requests, s # r, pend[s] # <<>>, tgt[s] = tgt[r]
      PROVE  FALSE
  <2>1. Open(s)
    BY <1>6 DEF ClosedHasNoRows
  <2>2. pend[r] = <<>>
    BY <1>6 DEF OneWriter
  <2>3. seq[r] = L + 1
    BY <1>5, <1>3, <2>2
  <2>4. pend[s] \in Seq(Event)
    BY DEF TypeOK
  <2>5. 1 \in DOMAIN pend[s]
    BY <2>4, <1>6
  <2>6. pend[s][1].sequence_no = L + 1
    BY <2>5, <1>6 DEF PendContinuesLog
  <2>7. Holds(s, tgt[r], seq[r])
    BY <2>1, <2>3, <2>5, <2>6, <1>6 DEF Holds
  <2> QED
    BY <2>7, <1>1, <1>6 DEF Waits, WaitsFor
<1> QED
  BY <1>5, <1>6

LEMMA InsertStep ==
  ASSUME IInv, NEW r \in Requests, Insert(r)
  PROVE  IInv'
<1> USE DEF IInv
<1>1. pc[r] = "insert" /\ ev[r] \in Events /\ seq[r] \in Nat /\ mem[r] \in Row
  BY DEF Insert, TypeOK, EventIsNamed
<1>2. PICK next \in AfterInsert(ev[r]) : Goto(r, next[1], next[2])
  BY DEF Insert
<1>3. /\ next[1] \in {"max", "generate", "commit"}
      /\ next[2] \in Events \cup {"none"}
      /\ next[1] = "max" => next[2] # "none"
  BY <1>1, AfterInsertRange
<1>4. NewEvent(r) \in Event /\ NewEvent(r).sequence_no = seq[r]
  BY <1>1, SourceKindsAssumption DEF NewEvent, Event, Row
<1>5. pend' = [pend EXCEPT ![r] = Append(@, NewEvent(r))]
  BY DEF Insert
<1>6. /\ pc' = [pc EXCEPT ![r] = next[1]] /\ pc \in [Requests -> PCs]
      /\ ev' = [ev EXCEPT ![r] = next[2]]
      /\ ev \in [Requests -> Events \cup {"none"}]
      /\ pend \in [Requests -> Seq(Event)]
      /\ UNCHANGED <<conv, log, kind, tgt, mem, seq>>
  BY <1>2 DEF Goto, TypeOK, Insert, db
<1>7. TypeOK'
  <2>1. pend' \in [Requests -> Seq(Event)]
    BY <1>4, <1>5, <1>6
  <2>2. next[1] \in PCs
    BY <1>3 DEF PCs
  <2> QED
    BY <1>3, <1>6, <2>1, <2>2 DEF TypeOK, Insert, db
<1>8. \A s \in Requests : Open(s)' = Open(s) /\ Fresh(s)' = Fresh(s)
  BY <1>1, <1>3, <1>6 DEF Open, Fresh, Closed
<1>9. LogGapless' /\ RowIffEvents'
  BY <1>6 DEF LogGapless, RowIffEvents
<1>10. /\ Len(pend'[r]) = Len(pend[r]) + 1 /\ pend'[r] # <<>>
       /\ pend'[r][Len(pend[r]) + 1].sequence_no = seq[r]
       /\ \A i \in 1..Len(pend[r]) : pend'[r][i] = pend[r][i]
       /\ \A s \in Requests : s # r => pend'[s] = pend[s]
  BY <1>4, <1>5, <1>6
<1>11. PendContinuesLog'
  <2> SUFFICES ASSUME NEW s \in Requests, NEW i \in DOMAIN pend'[s]
               PROVE  pend'[s][i].sequence_no = Len(log[tgt[s]]) + i
    BY <1>6 DEF PendContinuesLog
  <2>1. CASE s # r
    BY <2>1, <1>10 DEF PendContinuesLog
  <2>2. CASE s = r /\ i = Len(pend[r]) + 1
    <3>1. seq[r] = Len(log[tgt[r]]) + Len(pend[r]) + 1
      BY InsertIsNext
    <3>2. Len(log[tgt[r]]) \in Nat /\ Len(pend[r]) \in Nat
      BY DEF TypeOK
    <3>3. pend'[s][i].sequence_no = seq[r]
      BY <2>2, <1>10
    <3>4. \A L, P \in Nat : L + P + 1 = L + (P + 1)
      OBVIOUS
    <3>5. seq[r] = Len(log[tgt[r]]) + (Len(pend[r]) + 1)
      BY <3>1, <3>2, <3>4, Zenon
    <3> QED
      BY <3>3, <3>5, <2>2
  <2>3. CASE s = r /\ i \in 1..Len(pend[r])
    <3>1. DOMAIN pend[r] = 1..Len(pend[r])
      BY <1>6
    <3> QED
      BY <3>1, <2>3, <1>10 DEF PendContinuesLog
  <2>4. pend'[s] \in Seq(Event)
    BY <1>7 DEF TypeOK
  <2>5. s = r => i \in 1..Len(pend[r]) + 1
    BY <2>4, <1>10
  <2>6. Len(pend[r]) \in Nat
    BY <1>6
  <2> QED
    BY <2>1, <2>2, <2>3, <2>5, <2>6
<1>12. OneWriter'
  BY InsertIsNext, <1>6, <1>10 DEF OneWriter
<1>13. SeqIsBounded'
  BY <1>3, <1>6, <1>10 DEF SeqIsBounded
<1>14. HasRowsAtCommit' /\ EventIsNamed'
  BY <1>3, <1>6, <1>10 DEF HasRowsAtCommit, EventIsNamed
<1>15. ClosedHasNoRows'
  BY <1>1, <1>8, <1>10 DEF ClosedHasNoRows, Open, Closed
<1>16. FreshIsPrivate' /\ StopHoldsStopped'
  BY <1>6, <1>8 DEF FreshIsPrivate, StopHoldsStopped
<1> QED
  BY <1>7, <1>9, <1>11, <1>12, <1>13, <1>14, <1>15, <1>16

\* A request arrives with no rows; if it makes a conversation, the id is free.
LEMMA ArriveStep ==
  ASSUME IInv, NEW r \in Requests, NEW k \in Kinds, NEW c \in Conversations,
         NEW row \in Row, NEW label \in {"kill", "max", "update"},
         NEW event \in Events \cup {"none"}, label # "kill" => event # "none",
         Arrive(r, k, c, row, label, event), row.status # "absent",
         k = "stop" => row.status = "stopped",
         k \in {"open", "branch"} => Free(c),
         k \notin {"open", "branch"} => conv[c].status # "absent"
  PROVE  IInv'
<1> USE DEF IInv
<1>1. label \in PCs /\ label \notin Closed /\ pc[r] = "idle" /\ "idle" \in Closed
  BY DEF PCs, Closed, Arrive
<1>2. TypeOK'
  BY <1>1 DEF TypeOK, Arrive, Goto, db
<1>3. /\ Open(r)' /\ ~Open(r) /\ (Fresh(r)' <=> k \in {"open", "branch"})
      /\ tgt'[r] = c /\ mem'[r] = row /\ pc'[r] = label /\ ev'[r] = event
  BY <1>1 DEF Open, Fresh, Arrive, Goto, TypeOK
<1>4. \A s \in Requests : s # r =>
        /\ tgt'[s] = tgt[s] /\ mem'[s] = mem[s] /\ pc'[s] = pc[s]
        /\ kind'[s] = kind[s] /\ ev'[s] = ev[s]
  BY DEF Arrive, Goto, TypeOK
<1>5. conv' = conv /\ log' = log /\ seq' = seq /\ pend' = pend
  BY DEF Arrive, db
<1>6. \A s \in Requests : s # r => Open(s)' = Open(s) /\ Fresh(s)' = Fresh(s)
  BY <1>4 DEF Open, Fresh
<1>7. pend[r] = <<>>
  BY <1>3 DEF ClosedHasNoRows
<1>8. LogGapless' /\ RowIffEvents'
  BY <1>5 DEF LogGapless, RowIffEvents
<1>9. PendContinuesLog' /\ OneWriter'
  BY <1>4, <1>5, <1>7 DEF PendContinuesLog, OneWriter
<1>10. SeqIsBounded' /\ HasRowsAtCommit' /\ EventIsNamed'
  BY <1>3, <1>4, <1>5 DEF SeqIsBounded, HasRowsAtCommit, EventIsNamed
<1>11. ClosedHasNoRows'
  BY <1>3, <1>5, <1>6 DEF ClosedHasNoRows
<1>12. FreshIsPrivate'
  <2>1. \A s \in Requests : Open(s) /\ tgt[s] = c /\ s # r =>
           ~Fresh(s) /\ k \notin {"open", "branch"}
    BY DEF FreshIsPrivate, Free
  <2>2. k \in {"open", "branch"} <=> conv[c].status = "absent"
    BY DEF Free
  <2> QED
    BY <2>1, <2>2, <1>3, <1>4, <1>5, <1>6 DEF FreshIsPrivate
<1>13. StopHoldsStopped'
  <2>1. kind'[r] = k
    BY DEF Arrive, TypeOK
  <2> QED
    BY <2>1, <1>3, <1>4, <1>6 DEF StopHoldsStopped
<1> QED
  BY <1>2, <1>8, <1>9, <1>10, <1>11, <1>12, <1>13

LEMMA CreateStep ==
  ASSUME IInv, NEW c \in Conversations, NEW sk \in SourceKinds, Create(c, sk)
  PROVE  IInv'
<1> USE DEF IInv
<1> DEFINE first == [sequence_no |-> 1, event_type |-> "conversation.started",
                     source_kind |-> sk, state_hash |-> 0]
<1>1. first \in Event /\ first.sequence_no = 1 /\ <<first>> # <<>>
  BY DEF Event, Events
<1>2. Active(0, sk) \in Row /\ Active(0, sk).status # "absent"
  BY DEF Active, Row
<1>3. /\ conv' = [conv EXCEPT ![c] = Active(0, sk)]
      /\ log' = [log EXCEPT ![c] = <<first>>]
      /\ conv \in [Conversations -> Row] /\ log \in [Conversations -> Seq(Event)]
      /\ UNCHANGED <<usage, kill, pc, kind, tgt, mem, ev, seq, pend, upd>>
  BY DEF Create, TypeOK
<1>4. <<first>> \in Seq(Event) /\ Len(<<first>>) = 1 /\ <<first>>[1] = first
  BY <1>1
<1> HIDE DEF first
<1>5. TypeOK'
  BY <1>2, <1>3, <1>4 DEF TypeOK
<1>6. \A s \in Requests : Open(s) => tgt[s] # c
  BY DEF Create, Free
<1>7. \A s \in Requests : Open(s)' = Open(s) /\ Fresh(s)' = Fresh(s)
  BY <1>3 DEF Open, Fresh
<1>8. \A s \in Requests : Open(s) => /\ log'[tgt[s]] = log[tgt[s]]
                                      /\ conv'[tgt[s]] = conv[tgt[s]]
  BY <1>3, <1>6 DEF TypeOK
<1>9. LogGapless'
  <2>1. \A i \in DOMAIN <<first>> : <<first>>[i].sequence_no = i
    BY <1>1, <1>4
  <2> QED
    BY <2>1, <1>3 DEF LogGapless
<1>10. PendContinuesLog'
  <2> SUFFICES ASSUME NEW s \in Requests, NEW i \in DOMAIN pend[s]
               PROVE  pend[s][i].sequence_no = Len(log'[tgt[s]]) + i
    BY <1>3 DEF PendContinuesLog
  <2>1. pend[s] # <<>>
    OBVIOUS
  <2>2. Open(s)
    BY <2>1 DEF ClosedHasNoRows
  <2> QED
    BY <2>2, <1>8 DEF PendContinuesLog
<1>11. OneWriter'
  BY <1>3 DEF OneWriter
<1>12. SeqIsBounded'
  <2>1. \A s \in Requests : pc[s] = "insert" => Open(s)
    BY DEF Open, Closed
  <2> QED
    BY <2>1, <1>3, <1>8 DEF SeqIsBounded
<1>13. ClosedHasNoRows' /\ HasRowsAtCommit' /\ EventIsNamed'
  BY <1>3, <1>7 DEF ClosedHasNoRows, HasRowsAtCommit, EventIsNamed
<1>14. RowIffEvents'
  BY <1>1, <1>2, <1>3 DEF RowIffEvents
<1>15. FreshIsPrivate' /\ StopHoldsStopped'
  BY <1>3, <1>7, <1>8 DEF FreshIsPrivate, StopHoldsStopped
<1> QED
  BY <1>5, <1>9, <1>10, <1>11, <1>12, <1>13, <1>14, <1>15

LEMMA PatchKillStep == IInv /\ PatchKill => IInv'
<1> SUFFICES ASSUME IInv, PatchKill PROVE IInv'
  OBVIOUS
<1> USE DEF IInv
<1>1. /\ kill' \in BOOLEAN
      /\ UNCHANGED <<conv, log, usage, pc, kind, tgt, mem, ev, seq, pend, upd>>
  BY DEF PatchKill, TypeOK
<1>2. TypeOK'
  BY <1>1 DEF TypeOK
<1>3. \A s \in Requests : Open(s)' = Open(s) /\ Fresh(s)' = Fresh(s)
  BY <1>1 DEF Open, Fresh
<1>4. /\ LogGapless' /\ PendContinuesLog' /\ OneWriter' /\ SeqIsBounded'
      /\ RowIffEvents' /\ HasRowsAtCommit' /\ EventIsNamed'
  BY <1>1 DEF LogGapless, PendContinuesLog, OneWriter, SeqIsBounded,
     RowIffEvents, HasRowsAtCommit, EventIsNamed
<1>5. ClosedHasNoRows' /\ FreshIsPrivate' /\ StopHoldsStopped'
  BY <1>1, <1>3 DEF ClosedHasNoRows, FreshIsPrivate, StopHoldsStopped
<1> QED
  BY <1>2, <1>4, <1>5

\* The row that a commit writes is a conversation that exists, and a row that
\* existed keeps existing.
LEMMA WrittenIsRow ==
  ASSUME IInv, NEW r \in Requests, Open(r)
  PROVE  /\ Written(r) \in Row
         /\ Written(r).status # "absent"
<1> USE DEF IInv
<1>1. kind[r] \in Kinds /\ mem[r] \in Row /\ conv[tgt[r]] \in Row
  BY DEF TypeOK
<1>2. mem[r].status # "absent" /\ (Fresh(r) <=> conv[tgt[r]].status = "absent")
  BY DEF FreshIsPrivate
<1>3. CASE Fresh(r)
  <2>1. Written(r) = mem[r]
    BY <1>3 DEF Written, Fresh
  <2> QED
    BY <2>1, <1>1, <1>2
<1>4. CASE ~Fresh(r) /\ kind[r] = "turn"
  BY <1>1, <1>2, <1>4 DEF Written, Row
<1>5. CASE ~Fresh(r) /\ kind[r] = "stop"
  BY <1>1, <1>2, <1>5 DEF Written, Row
<1> QED
  BY <1>1, <1>3, <1>4, <1>5 DEF Kinds, Fresh

\* A commit appends the rows of the transaction to the committed ones.
LEMMA CommitStep ==
  ASSUME IInv, NEW r \in Requests, Commit(r)
  PROVE  IInv'
<1> USE DEF IInv
<1> DEFINE c == tgt[r]
           L == Len(log[c])
           P == Len(pend[r])
<1>1. /\ pc[r] = "commit" /\ pend[r] # <<>> /\ Open(r)
      /\ c \in Conversations /\ log[c] \in Seq(Event) /\ pend[r] \in Seq(Event)
  BY DEF Commit, HasRowsAtCommit, TypeOK, Open, Closed
<1>2. L \in Nat /\ P \in Nat /\ DOMAIN log[c] = 1..L /\ DOMAIN pend[r] = 1..P
  BY <1>1
<1>3. /\ log' = [log EXCEPT ![c] = log[c] \o pend[r]]
      /\ log \in [Conversations -> Seq(Event)]
      /\ log[c] \o pend[r] \in Seq(Event) /\ log[c] \o pend[r] # <<>>
      /\ DOMAIN (log[c] \o pend[r]) = 1..L + P
      /\ Len(log[c] \o pend[r]) = L + P
      /\ \A i \in 1..L : (log[c] \o pend[r])[i] = log[c][i]
      /\ \A i \in L + 1 .. L + P : (log[c] \o pend[r])[i] = pend[r][i - L]
  BY <1>1 DEF Commit, TypeOK
<1>4. /\ conv' = IF Fresh(r) \/ upd[r] THEN [conv EXCEPT ![c] = Written(r)]
                 ELSE conv
      /\ conv \in [Conversations -> Row]
      /\ Written(r) \in Row /\ Written(r).status # "absent"
  BY <1>1, WrittenIsRow DEF Commit, TypeOK
<1>5. /\ pc' = [pc EXCEPT ![r] = "ok"] /\ ev' = [ev EXCEPT ![r] = "none"]
      /\ kind' = [kind EXCEPT ![r] = "turn"] /\ tgt' = [tgt EXCEPT ![r] = Nowhere]
      /\ mem' = [mem EXCEPT ![r] = Absent] /\ seq' = [seq EXCEPT ![r] = 0]
      /\ pend' = [pend EXCEPT ![r] = <<>>] /\ upd' = [upd EXCEPT ![r] = FALSE]
      /\ kill' = kill
      /\ usage' = IF Answers(pend[r]) THEN [usage EXCEPT ![c] = @ + 1] ELSE usage
  BY DEF Commit, Close, Goto
<1> HIDE DEF c, L, P
<1>6. TypeOK'
  <2>1. Nowhere \in Conversations
    BY ConversationsAssumption DEF Nowhere
  <2>2. Absent \in Row /\ <<>> \in Seq(Event)
    BY SourceKindsAssumption DEF Absent, Row
  <2>3. conv' \in [Conversations -> Row] /\ log' \in [Conversations -> Seq(Event)]
    BY <1>1, <1>3, <1>4
  <2>4. usage' \in [Conversations -> Nat]
    BY <1>1, <1>5 DEF TypeOK
  <2> QED
    BY <1>5, <2>1, <2>2, <2>3, <2>4 DEF TypeOK, PCs, Closed, Kinds
<1>7. ~Open(r)' /\ pend'[r] = <<>> /\ pc'[r] = "ok"
  BY <1>5 DEF Open, Closed, TypeOK
<1>8. \A s \in Requests : s # r =>
        /\ pc'[s] = pc[s] /\ kind'[s] = kind[s] /\ tgt'[s] = tgt[s]
        /\ mem'[s] = mem[s] /\ seq'[s] = seq[s] /\ pend'[s] = pend[s]
        /\ ev'[s] = ev[s]
  BY <1>5 DEF TypeOK
<1>9. \A s \in Requests : s # r => Open(s)' = Open(s) /\ Fresh(s)' = Fresh(s)
  BY <1>8 DEF Open, Fresh
<1>10. \A s \in Requests : s # r /\ pend[s] # <<>> =>
         tgt[s] # c /\ log'[tgt[s]] = log[tgt[s]]
  BY <1>1, <1>3 DEF OneWriter, c, TypeOK
<1>11. LogGapless'
  <2> SUFFICES ASSUME NEW d \in Conversations, NEW i \in DOMAIN log'[d]
               PROVE  log'[d][i].sequence_no = i
    BY DEF LogGapless
  <2>1. CASE d # c
    BY <2>1, <1>3 DEF LogGapless
  <2>2. CASE d = c
    <3>1. log'[d] = log[c] \o pend[r]
      BY <2>2, <1>1, <1>3
    <3>2. i \in 1..L \/ (i \in L + 1 .. L + P /\ i - L \in 1..P)
      BY <3>1, <1>2, <1>3
    <3>3. CASE i \in 1..L
      BY <3>1, <3>3, <1>1, <1>2, <1>3 DEF LogGapless
    <3>4. CASE i \in L + 1 .. L + P /\ i - L \in 1..P
      <4>1. pend[r][i - L].sequence_no = L + (i - L)
        BY <3>4, <1>2 DEF PendContinuesLog, L, c
      <4>2. L + (i - L) = i
        BY <3>4, <1>2
      <4> QED
        BY <4>1, <4>2, <3>1, <3>4, <1>3
    <3> QED
      BY <3>2, <3>3, <3>4
  <2> QED
    BY <2>1, <2>2
<1>12. PendContinuesLog'
  BY <1>7, <1>8, <1>10 DEF PendContinuesLog
<1>13. OneWriter'
  BY <1>7, <1>8 DEF OneWriter
<1>14. SeqIsBounded'
  <2> SUFFICES ASSUME NEW s \in Requests, s # r, pc[s] = "insert"
               PROVE  /\ seq[s] \in 1..Len(log'[tgt[s]]) + Len(pend[s]) + 1
                      /\ pend[s] # <<>> =>
                           seq[s] = Len(log'[tgt[s]]) + Len(pend[s]) + 1
    BY <1>7, <1>8 DEF SeqIsBounded
  <2>1. CASE pend[s] # <<>> \/ tgt[s] # c
    BY <2>1, <1>3, <1>10 DEF SeqIsBounded, TypeOK
  <2>2. CASE pend[s] = <<>> /\ tgt[s] = c
    <3>1. seq[s] \in 1..L + 0 + 1
      BY <2>2 DEF SeqIsBounded, L
    <3>2. Len(log'[tgt[s]]) = L + P
      BY <2>2, <1>1, <1>3
    <3>3. seq[s] \in 1..(L + P) + 0 + 1
      BY <3>1, <1>2
    <3>4. Len(pend[s]) = 0
      BY <2>2
    <3> QED
      BY <3>2, <3>3, <3>4, <2>2, Zenon
  <2> QED
    BY <2>1, <2>2
<1>15. ClosedHasNoRows' /\ HasRowsAtCommit' /\ EventIsNamed'
  BY <1>7, <1>8, <1>9 DEF ClosedHasNoRows, HasRowsAtCommit, EventIsNamed
<1>16. conv'[c].status # "absent"
  BY <1>1, <1>4 DEF FreshIsPrivate, c
<1>17. \A d \in Conversations : d # c => conv'[d] = conv[d] /\ log'[d] = log[d]
  BY <1>3, <1>4
<1>18. RowIffEvents'
  BY <1>1, <1>3, <1>16, <1>17 DEF RowIffEvents
<1>19. FreshIsPrivate'
  <2>1. \A s \in Requests : s # r /\ Open(s) /\ tgt[s] = c => ~Fresh(s)
    BY <1>1 DEF FreshIsPrivate, c
  <2>2. \A s \in Requests : tgt[s] \in Conversations
    BY DEF TypeOK
  <2>3. \A s \in Requests : s # r /\ Open(s) =>
          (Fresh(s) <=> conv'[tgt[s]].status = "absent")
    BY <2>1, <2>2, <1>16, <1>17 DEF FreshIsPrivate
  <2> QED
    BY <2>3, <1>7, <1>8, <1>9 DEF FreshIsPrivate
<1>20. StopHoldsStopped'
  BY <1>7, <1>8, <1>9 DEF StopHoldsStopped
<1> QED
  BY <1>6, <1>11, <1>12, <1>13, <1>14, <1>15, <1>18, <1>19, <1>20

\* Every step keeps the invariant.
LEMMA NextIInv == IInv /\ [Next]_vars => IInv'
<1> SUFFICES ASSUME IInv, [Next]_vars PROVE IInv'
  OBVIOUS
<1>1. ASSUME NEW c \in Conversations, NEW sk \in SourceKinds, Create(c, sk)
      PROVE  IInv'
  BY <1>1, CreateStep
<1>2. CASE PatchKill
  BY <1>2, PatchKillStep
<1>3. ASSUME NEW r \in Requests, Arrival(r) PROVE IInv'
  <2> PICK c \in Conversations :
        \/ LoadTurn(r, c) \/ OpenChat(r, c) \/ LoadStop(r, c)
        \/ \E src \in Conversations : LoadBranch(r, src, c)
    BY <1>3 DEF Arrival
  <2>1. \A d \in Conversations : conv[d] \in Row
    BY DEF IInv, TypeOK
  <2>2. Kinds = {"turn", "open", "stop", "branch"}
    BY DEF Kinds
  <2>3. CASE LoadTurn(r, c)
    BY <2>1, <2>2, <2>3, ArriveStep DEF LoadTurn
  <2>4. CASE OpenChat(r, c)
    <3>1. Active(0, "observed") \in Row /\ Active(0, "observed").status # "absent"
      BY SourceKindsAssumption DEF Active, Row
    <3> QED
      BY <3>1, <2>2, <2>4, ArriveStep DEF OpenChat
  <2>5. CASE LoadStop(r, c)
    <3> DEFINE row   == [conv[c] EXCEPT !.status = "stopped"]
               label == IF conv[c].status = "stopped" THEN "max" ELSE "update"
    <3>1. row \in Row /\ row.status = "stopped"
      BY <2>1 DEF Row
    <3>2. label \in {"kill", "max", "update"}
          /\ "conversation.finished" \in Events \cup {"none"}
      BY DEF Events
    <3>3. conv[c].status # "absent"
          /\ Arrive(r, "stop", c, row, label, "conversation.finished")
      BY <2>5 DEF LoadStop
    <3> HIDE DEF row, label
    <3> QED
      BY <3>1, <3>2, <3>3, <2>2, ArriveStep
  <2>6. ASSUME NEW src \in Conversations, LoadBranch(r, src, c) PROVE IInv'
    <3> DEFINE row == Active(conv[src].turn_index, "counterfactual")
    <3>1. row \in Row /\ row.status # "absent"
      BY <2>1, SourceKindsAssumption DEF Active, Row
    <3>2. "conversation.started" \in Events \cup {"none"}
      BY DEF Events
    <3>3. Free(c) /\ Arrive(r, "branch", c, row, "max", "conversation.started")
      BY <2>6 DEF LoadBranch
    <3> HIDE DEF row
    <3> QED
      BY <3>1, <3>2, <3>3, <2>2, ArriveStep
  <2> QED
    BY <2>3, <2>4, <2>5, <2>6
<1>4. ASSUME NEW r \in Requests, Progress(r) \/ Answered(r) \/ Crash(r)
      PROVE  IInv'
  <2> USE DEF IInv
  <2>1. mem \in [Requests -> Row] /\ upd \in [Requests -> BOOLEAN]
    BY DEF TypeOK
  <2>2. CASE CheckKill(r)
    <3>1. PICK event \in {"security.injection_detected", "message.received"} :
            Goto(r, "max", event)
      BY <2>2 DEF CheckKill
    <3>2. event \in Events \cup {"none"} /\ event # "none" /\ Open(r)
      BY <2>2 DEF Events, CheckKill, Open, Closed
    <3>3. UNCHANGED <<db, kind, tgt, mem, seq, pend, upd>>
      BY <2>2 DEF CheckKill
    <3> QED
      BY <2>1, <3>1, <3>2, <3>3, QuietStep
  <2>3. CASE CallModel(r)
    <3>1. Open(r)
      BY <2>3 DEF CallModel, Open, Closed
    <3> QED
      BY <2>1, <2>3, <3>1, QuietStep DEF CallModel
  <2>4. CASE Answered(r)
    <3>1. Open(r) /\ "message.sent" \in Events \cup {"none"}
      BY <2>4 DEF Answered, Open, Closed, Events
    <3>2. mem' \in [Requests -> Row]
          /\ \A s \in Requests : mem'[s].status = mem[s].status
      BY <2>1, <2>4 DEF Answered, Row
    <3> QED
      BY <2>1, <2>4, <3>1, <3>2, QuietStep DEF Answered
  <2>5. CASE Update(r)
    <3>1. Open(r) /\ ev[r] # "none" /\ ev[r] \in Events \cup {"none"}
      BY <2>5 DEF Update, Open, Closed, EventIsNamed, TypeOK
    <3>2. Goto(r, "max", ev[r])
      BY <2>5 DEF Update, Goto, TypeOK
    <3>3. upd' \in [Requests -> BOOLEAN] /\ mem' = mem
          /\ UNCHANGED <<db, kind, tgt, seq, pend>>
      BY <2>1, <2>5 DEF Update
    <3> QED
      BY <2>1, <3>1, <3>2, <3>3, QuietStep
  <2>6. CASE ReadMax(r)
    BY <2>6, ReadMaxStep
  <2>7. CASE Insert(r)
    BY <2>7, InsertStep
  <2>8. CASE Commit(r)
    BY <2>8, CommitStep
  <2>9. CASE Abort(r)
    BY <2>9, AbortStep
  <2> QED
    BY <1>4, <2>2, <2>3, <2>4, <2>5, <2>6, <2>7, <2>8, <2>9
    DEF Progress, Killed, Duplicate, GatewayError, DeadlockVictim, Crash
<1>5. CASE UNCHANGED vars
  BY <1>5 DEF vars, IInv, TypeOK, LogGapless, PendContinuesLog, OneWriter,
     SeqIsBounded, ClosedHasNoRows, RowIffEvents, FreshIsPrivate,
     HasRowsAtCommit, EventIsNamed, StopHoldsStopped, Open, Fresh
<1> QED
  BY <1>1, <1>2, <1>3, <1>4, <1>5 DEF Next

LEMMA Invariance == Spec => []IInv
<1>1. Init => IInv
  BY InitIInv
<1>2. IInv /\ [Next]_vars => IInv'
  BY NextIInv
<1> QED
  BY <1>1, <1>2, PTL DEF Spec

-----------------------------------------------------------------------------
\* Every variable of the conversation runtime keeps its type.
THEOREM TypeCorrectness == Spec => []TypeOK
<1>1. IInv => TypeOK
  BY DEF IInv
<1> QED
  BY <1>1, Invariance, PTL

\* The events of a conversation are numbered without a gap and without a
\* repetition, however many requests append to it at once (append_event).
THEOREM EventsAreGapless == Spec => []LogGapless
<1>1. IInv => LogGapless
  BY DEF IInv
<1> QED
  BY <1>1, Invariance, PTL

\* A stopped conversation stays stopped: the turn that commits after the stop
\* writes only state_json of the row it loaded before (run_turn,
\* routes.stop_conversation).
THEOREM StoppedIsForever == Spec => StopSticks
<1>1. IInv /\ [Next]_vars =>
        \A c \in Conversations :
          conv[c].status = "stopped" => conv'[c].status = "stopped"
  <2> SUFFICES ASSUME IInv, [Next]_vars,
                      NEW c \in Conversations, conv[c].status = "stopped"
               PROVE  conv'[c].status = "stopped"
    OBVIOUS
  <2> USE DEF IInv
  <2>1. conv \in [Conversations -> Row]
    BY DEF TypeOK
  <2>2. ASSUME NEW d \in Conversations, NEW sk \in SourceKinds, Create(d, sk)
        PROVE  conv'[c].status = "stopped"
    BY <2>1, <2>2 DEF Create, Free
  <2>3. ASSUME NEW r \in Requests, Commit(r)
        PROVE  conv'[c].status = "stopped"
    <3>1. Open(r) /\ kind[r] \in Kinds /\ tgt[r] \in Conversations
      BY <2>3 DEF Commit, Open, Closed, TypeOK
    <3>2. CASE tgt[r] # c \/ ~(Fresh(r) \/ upd[r])
      BY <3>2, <2>1, <2>3 DEF Commit
    <3>3. CASE tgt[r] = c /\ (Fresh(r) \/ upd[r])
      <4>1. ~Fresh(r)
        BY <3>1, <3>3 DEF FreshIsPrivate
      <4>2. conv'[c] = Written(r)
        BY <3>3, <2>1, <2>3 DEF Commit
      <4>3. CASE kind[r] = "turn"
        BY <4>1, <4>2, <4>3, <3>3, <2>1 DEF Written, Row
      <4>4. CASE kind[r] = "stop"
        <5>1. mem[r].status = "stopped"
          BY <4>4, <3>1 DEF StopHoldsStopped
        <5> QED
          BY <4>1, <4>2, <4>4, <5>1, <3>3, <2>1 DEF Written, Row
      <4> QED
        BY <4>1, <4>3, <4>4, <3>1 DEF Fresh, Kinds
    <3> QED
      BY <3>2, <3>3
  <2>4. CASE conv' = conv
    BY <2>4
  <2> QED
    BY <2>2, <2>3, <2>4 DEF Next, Arrival, Arrive, LoadTurn, OpenChat, LoadStop,
       LoadBranch, Progress, PatchKill, CheckKill, Killed, ReadMax, Insert,
       Duplicate, CallModel, Answered, GatewayError, Update, DeadlockVictim,
       Crash, Abort, db, vars
<1> QED
  BY <1>1, Invariance, PTL DEF Spec, StopSticks

-----------------------------------------------------------------------------
\* The rows that r inserted are events of these types, in this order.
HasTypes(r, shape) ==
  /\ Len(pend[r]) = Len(shape)
  /\ \A i \in 1..Len(shape) : pend[r][i].event_type = shape[i]

\* What run_turn wrote before it has an answer, without and with evidence.
Question(r) ==
  \/ HasTypes(r, <<"message.received", "action.selected">>)
  \/ HasTypes(r, <<"message.received", "action.selected", "retrieval.completed">>)

IsTurn(r) == kind[r] \in {"turn", "open"}

\* The rows r has when append_event is about to add event.
Before(r, event) ==
  /\ event = "conversation.started"        => kind[r] = "branch" /\ pend[r] = <<>>
  /\ event = "conversation.finished"       => kind[r] = "stop" /\ pend[r] = <<>>
  /\ event = "security.injection_detected" => IsTurn(r) /\ pend[r] = <<>>
  /\ event = "message.received"            => IsTurn(r) /\ pend[r] = <<>>
  /\ event = "action.selected"             =>
       IsTurn(r) /\ HasTypes(r, <<"message.received">>)
  /\ event = "retrieval.completed"         =>
       IsTurn(r) /\ HasTypes(r, <<"message.received", "action.selected">>)
  /\ event = "message.sent"                => IsTurn(r) /\ Question(r)

Complete(r) ==
  \/ kind[r] = "branch" /\ HasTypes(r, Abstract!Started)
  \/ kind[r] = "stop" /\ HasTypes(r, Abstract!Finished)
  \/ IsTurn(r) /\ HasTypes(r, Abstract!Blocked)
  \/ IsTurn(r) /\ HasTypes(r, Abstract!Plain)
  \/ IsTurn(r) /\ HasTypes(r, Abstract!Grounded)

BatchOf(r) ==
  /\ pc[r] = "kill"                         => IsTurn(r) /\ pend[r] = <<>>
  /\ pc[r] \in {"max", "insert", "update"}  => Before(r, ev[r])
  /\ pc[r] \in {"generate", "await"}        => IsTurn(r) /\ Question(r)
  /\ pc[r] = "commit"                       => Complete(r)

Batches == \A r \in Requests : BatchOf(r)

-----------------------------------------------------------------------------
\* Only what a request has and where it is decides its batch.
LEMMA BatchFrame ==
  ASSUME NEW r \in Requests, BatchOf(r), pc'[r] = pc[r], ev'[r] = ev[r],
         kind'[r] = kind[r], pend'[r] = pend[r]
  PROVE  BatchOf(r)'
BY DEF BatchOf, Before, Complete, Question, IsTurn, HasTypes

LEMMA BatchClosed ==
  ASSUME NEW r \in Requests, pc'[r] \in Closed
  PROVE  BatchOf(r)'
BY DEF BatchOf, Closed

\* One more row is one more type.
LEMMA HasTypesAppend ==
  ASSUME NEW r \in Requests, pend[r] \in Seq(Event), NEW row \in Event,
         NEW shape \in Seq(Events), HasTypes(r, shape),
         pend'[r] = Append(pend[r], row)
  PROVE  HasTypes(r, Append(shape, row.event_type))'
<1>1. Len(shape) \in Nat /\ Len(Append(shape, row.event_type)) = Len(shape) + 1
      /\ Len(pend'[r]) = Len(shape) + 1
  BY DEF HasTypes, Event
<1>2. ASSUME NEW i \in 1..Len(shape) + 1
      PROVE  pend'[r][i].event_type = Append(shape, row.event_type)[i]
  <2>1. CASE i = Len(shape) + 1
    BY <2>1, <1>1 DEF HasTypes, Event
  <2>2. CASE i \in 1..Len(shape)
    BY <2>2, <1>1 DEF HasTypes, Event
  <2> QED
    BY <1>1, <2>1, <2>2
<1> QED
  BY <1>1, <1>2 DEF HasTypes

\* The shapes are built one type at a time.
LEMMA AppendToOne ==
  ASSUME NEW a \in Events, NEW b \in Events
  PROVE  Append(<<a>>, b) = <<a, b>> /\ <<a>> \in Seq(Events)
<1> DEFINE s == Append(<<a>>, b)
           t == <<a, b>>
<1>1. s \in Seq(Events) /\ t \in Seq(Events) /\ Len(s) = 2 /\ Len(t) = 2
  OBVIOUS
<1>2. s[1] = t[1] /\ s[2] = t[2]
  OBVIOUS
<1>3. \A i \in 1..Len(s) : s[i] = t[i]
  BY <1>1, <1>2
<1>4. <<a>> \in Seq(Events)
  OBVIOUS
<1> HIDE DEF s, t
<1>5. s = t
  BY <1>1, <1>3, SeqEqual
<1> QED
  BY <1>4, <1>5 DEF s, t

LEMMA AppendToTwo ==
  ASSUME NEW a \in Events, NEW b \in Events, NEW c \in Events
  PROVE  Append(<<a, b>>, c) = <<a, b, c>> /\ <<a, b>> \in Seq(Events)
<1> DEFINE s == Append(<<a, b>>, c)
           t == <<a, b, c>>
<1>1. s \in Seq(Events) /\ t \in Seq(Events) /\ Len(s) = 3 /\ Len(t) = 3
  OBVIOUS
<1>2. s[1] = t[1] /\ s[2] = t[2] /\ s[3] = t[3]
  OBVIOUS
<1>3. \A i \in 1..Len(s) : s[i] = t[i]
  BY <1>1, <1>2
<1>4. <<a, b>> \in Seq(Events)
  OBVIOUS
<1> HIDE DEF s, t
<1>5. s = t
  BY <1>1, <1>3, SeqEqual
<1> QED
  BY <1>4, <1>5 DEF s, t

LEMMA AppendToThree ==
  ASSUME NEW a \in Events, NEW b \in Events, NEW c \in Events, NEW d \in Events
  PROVE  Append(<<a, b, c>>, d) = <<a, b, c, d>> /\ <<a, b, c>> \in Seq(Events)
<1> DEFINE s == Append(<<a, b, c>>, d)
           t == <<a, b, c, d>>
<1>1. s \in Seq(Events) /\ t \in Seq(Events) /\ Len(s) = 4 /\ Len(t) = 4
  OBVIOUS
<1>2. s[1] = t[1] /\ s[2] = t[2] /\ s[3] = t[3] /\ s[4] = t[4]
  OBVIOUS
<1>3. \A i \in 1..Len(s) : s[i] = t[i]
  BY <1>1, <1>2
<1>4. <<a, b, c>> \in Seq(Events)
  OBVIOUS
<1> HIDE DEF s, t
<1>5. s = t
  BY <1>1, <1>3, SeqEqual
<1> QED
  BY <1>4, <1>5 DEF s, t

LEMMA InsertBatch ==
  ASSUME IInv, Batches, NEW r \in Requests, Insert(r)
  PROVE  BatchOf(r)'
<1> USE DEF IInv
<1>1. /\ pc[r] = "insert" /\ ev[r] \in Events /\ kind'[r] = kind[r]
      /\ pend[r] \in Seq(Event) /\ seq[r] \in Nat /\ mem[r] \in Row
  BY DEF Insert, TypeOK, EventIsNamed
<1>2. PICK next \in AfterInsert(ev[r]) : Goto(r, next[1], next[2])
  BY DEF Insert
<1>3. pc'[r] = next[1] /\ ev'[r] = next[2]
  BY <1>2 DEF Goto, TypeOK
<1>4. NewEvent(r) \in Event /\ NewEvent(r).event_type = ev[r]
  BY <1>1, SourceKindsAssumption DEF NewEvent, Event, Row
<1>5. pend'[r] = Append(pend[r], NewEvent(r))
  BY DEF Insert, TypeOK
<1>6. ASSUME NEW shape \in Seq(Events), NEW event, event = ev[r],
             HasTypes(r, shape)
      PROVE  HasTypes(r, Append(shape, event))'
  BY <1>1, <1>4, <1>5, <1>6, HasTypesAppend
<1>7. Before(r, ev[r])
  BY <1>1 DEF Batches, BatchOf
<1>8. ASSUME NEW event, event = ev[r], pend[r] = <<>>
      PROVE  HasTypes(r, <<event>>)'
  <2>1. pend'[r] = <<NewEvent(r)>>
    BY <1>5, <1>8
  <2> QED
    BY <2>1, <1>4, <1>8 DEF HasTypes
<1>9. CASE ev[r] \in {"conversation.started", "conversation.finished",
                      "security.injection_detected"}
  <2>1. next = <<"commit", "none">>
    BY <1>9 DEF AfterInsert
  <2> QED
    BY <2>1, <1>1, <1>3, <1>7, <1>8, <1>9
    DEF BatchOf, Complete, Before, IsTurn, Abstract!Started, Abstract!Finished,
        Abstract!Blocked
<1>10. CASE ev[r] = "message.received"
  <2>1. next = <<"max", "action.selected">>
    BY <1>10 DEF AfterInsert
  <2>2. IsTurn(r)' /\ HasTypes(r, <<"message.received">>)'
    BY <1>1, <1>7, <1>8, <1>10 DEF Before, IsTurn
  <2> QED
    BY <2>1, <2>2, <1>3 DEF BatchOf, Before
<1>11. CASE ev[r] = "action.selected"
  <2>1. <<"message.received">> \in Seq(Events)
        /\ Append(<<"message.received">>, "action.selected")
             = <<"message.received", "action.selected">>
    BY AppendToOne DEF Events
  <2>2. IsTurn(r)' /\ HasTypes(r, <<"message.received", "action.selected">>)'
    BY <2>1, <1>1, <1>6, <1>7, <1>11 DEF Before, IsTurn
  <2>3. next = <<"max", "retrieval.completed">> \/ next = <<"generate", "none">>
    BY <1>11 DEF AfterInsert
  <2> QED
    BY <2>2, <2>3, <1>3 DEF BatchOf, Before, Question
<1>12. CASE ev[r] = "retrieval.completed"
  <2>1. <<"message.received", "action.selected">> \in Seq(Events)
        /\ Append(<<"message.received", "action.selected">>, "retrieval.completed")
             = <<"message.received", "action.selected", "retrieval.completed">>
    BY AppendToTwo DEF Events
  <2>2. IsTurn(r)' /\ Question(r)'
    BY <2>1, <1>1, <1>6, <1>7, <1>12 DEF Before, IsTurn, Question
  <2>3. next = <<"generate", "none">>
    BY <1>12 DEF AfterInsert
  <2> QED
    BY <2>2, <2>3, <1>3 DEF BatchOf
<1>13. CASE ev[r] = "message.sent"
  <2> DEFINE two   == <<"message.received", "action.selected">>
             three == <<"message.received", "action.selected",
                        "retrieval.completed">>
  <2>1. two \in Seq(Events) /\ three \in Seq(Events)
    BY AppendToTwo, AppendToThree DEF Events
  <2>2. /\ Append(two, "message.sent") = Abstract!Plain
        /\ Append(three, "message.sent") = Abstract!Grounded
    BY AppendToTwo, AppendToThree DEF Events, Abstract!Plain, Abstract!Grounded
  <2>3. IsTurn(r)' /\ (HasTypes(r, two) \/ HasTypes(r, three))
    BY <1>1, <1>7, <1>13 DEF Before, IsTurn, Question
  <2> HIDE DEF two, three
  <2>4. HasTypes(r, Abstract!Plain)' \/ HasTypes(r, Abstract!Grounded)'
    <3>1. CASE HasTypes(r, two)
      BY <3>1, <2>1, <2>2, <1>6, <1>13
    <3>2. CASE HasTypes(r, three)
      BY <3>2, <2>1, <2>2, <1>6, <1>13
    <3> QED
      BY <3>1, <3>2, <2>3
  <2>5. next = <<"commit", "none">>
    BY <1>13 DEF AfterInsert
  <2> QED
    BY <2>3, <2>4, <2>5, <1>3 DEF BatchOf, Complete
<1> QED
  BY <1>1, <1>9, <1>10, <1>11, <1>12, <1>13 DEF Events

\* Every step keeps the batches in shape.
LEMMA NextBatches == IInv /\ Batches /\ [Next]_vars => Batches'
<1> SUFFICES ASSUME IInv, Batches, [Next]_vars, NEW r \in Requests
             PROVE  BatchOf(r)'
  BY DEF Batches
<1>1. BatchOf(r) /\ TypeOK
  BY DEF Batches, IInv
<1> USE DEF TypeOK
<1>2. CASE UNCHANGED <<pc, kind, ev, pend>>
  BY <1>1, <1>2, BatchFrame
<1>3. ASSUME NEW s \in Requests, s # r,
             Arrival(s) \/ Progress(s) \/ Answered(s) \/ Crash(s)
      PROVE  BatchOf(r)'
  <2>1. /\ pc'[r] = pc[r] /\ ev'[r] = ev[r]
        /\ kind'[r] = kind[r] /\ pend'[r] = pend[r]
    <3>1. CASE Arrival(s)
      BY <1>1, <1>3, <3>1 DEF Arrival, LoadTurn, OpenChat, LoadStop, LoadBranch,
         Arrive, Goto
    <3>2. CASE Abort(s)
      BY <1>1, <1>3, <3>2 DEF Abort, Close, Goto
    <3>3. CASE CheckKill(s) \/ CallModel(s) \/ Answered(s) \/ Update(s) \/ ReadMax(s)
      BY <1>1, <1>3, <3>3 DEF CheckKill, CallModel, Answered, Update, ReadMax, Goto
    <3>4. CASE Insert(s)
      BY <1>1, <1>3, <3>4 DEF Insert, Goto
    <3>5. CASE Commit(s)
      BY <1>1, <1>3, <3>5 DEF Commit, Close, Goto
    <3> QED
      BY <1>3, <3>1, <3>2, <3>3, <3>4, <3>5
      DEF Progress, Killed, Duplicate, GatewayError, DeadlockVictim, Crash
  <2> QED
    BY <2>1, <1>1, BatchFrame
<1>4. CASE Arrival(r)
  <2>1. pend[r] = <<>> /\ pend' = pend
    BY <1>4 DEF IInv, ClosedHasNoRows, Open, Closed, Arrival, LoadTurn, OpenChat,
       LoadStop, LoadBranch, Arrive
  <2>2. \/ pc'[r] = "kill" /\ kind'[r] \in {"turn", "open"}
        \/ /\ pc'[r] \in {"max", "update"}
           /\ \/ kind'[r] = "stop" /\ ev'[r] = "conversation.finished"
              \/ kind'[r] = "branch" /\ ev'[r] = "conversation.started"
    BY <1>1, <1>4 DEF Arrival, LoadTurn, OpenChat, LoadStop, LoadBranch, Arrive, Goto
  <2> QED
    BY <2>1, <2>2 DEF BatchOf, Before, IsTurn
<1>5. CASE Abort(r) \/ Commit(r)
  BY <1>1, <1>5, BatchClosed DEF Abort, Commit, Close, Goto, Closed
<1>6. CASE Insert(r)
  BY <1>6, InsertBatch
<1>7. CASE ReadMax(r) \/ Update(r)
  <2>1. /\ pc[r] \in {"max", "update"} /\ pc'[r] \in {"insert", "max"}
        /\ ev'[r] = ev[r] /\ kind'[r] = kind[r] /\ pend'[r] = pend[r]
    BY <1>1, <1>7 DEF ReadMax, Update
  <2> QED
    BY <2>1, <1>1 DEF BatchOf, Before, Question, IsTurn, HasTypes
<1>8. CASE CheckKill(r)
  <2>1. /\ pc[r] = "kill" /\ pc'[r] = "max"
        /\ ev'[r] \in {"security.injection_detected", "message.received"}
        /\ kind'[r] = kind[r] /\ pend'[r] = pend[r]
    BY <1>1, <1>8 DEF CheckKill, Goto
  <2> QED
    BY <2>1, <1>1 DEF BatchOf, Before, IsTurn
<1>9. CASE CallModel(r) \/ Answered(r)
  <2>1. /\ pc[r] \in {"generate", "await"}
        /\ \/ pc'[r] = "await"
           \/ pc'[r] = "update" /\ ev'[r] = "message.sent"
        /\ kind'[r] = kind[r] /\ pend'[r] = pend[r]
    BY <1>1, <1>9 DEF CallModel, Answered, Goto
  <2> QED
    BY <2>1, <1>1 DEF BatchOf, Before, Question, IsTurn, HasTypes
<1> QED
  BY <1>2, <1>3, <1>4, <1>5, <1>6, <1>7, <1>8, <1>9
  DEF Next, Progress, Killed, Duplicate, GatewayError, DeadlockVictim, Crash,
      Create, PatchKill, vars

LEMMA BatchesInvariant == Spec => []Batches
<1>1. Init => Batches
  BY DEF Init, Batches, BatchOf
<1>2. IInv /\ Batches /\ [Next]_vars => Batches'
  BY NextBatches
<1> QED
  BY <1>1, <1>2, Invariance, PTL DEF Spec

-----------------------------------------------------------------------------
\* A commit adds exactly the rows of its transaction, numbered in order.
LEMMA CommitExtends ==
  ASSUME IInv, NEW r \in Requests, Commit(r),
         NEW shape, shape \in Seq(Events), HasTypes(r, shape)
  PROVE  Abstract!Extends(tgt[r], shape)
<1> USE DEF IInv
<1> DEFINE c == tgt[r]
           L == Len(log[c])
           P == Len(pend[r])
<1>1. c \in Conversations /\ log[c] \in Seq(Event) /\ pend[r] \in Seq(Event)
  BY DEF TypeOK
<1>2. L \in Nat /\ P \in Nat /\ P = Len(shape) /\ DOMAIN pend[r] = 1..P
  BY <1>1 DEF HasTypes
<1>3. /\ log'[c] = log[c] \o pend[r]
      /\ log' = [log EXCEPT ![c] = log'[c]]
  BY <1>1 DEF Commit, TypeOK
<1>4. /\ Len(log[c] \o pend[r]) = L + P
      /\ \A i \in 1..L + P : (log[c] \o pend[r])[i] =
           IF i <= L THEN log[c][i] ELSE pend[r][i - L]
  BY <1>1, ConcatProperties
<1> HIDE DEF L, P
<1>5. ASSUME NEW i \in 1..P
      PROVE  (log[c] \o pend[r])[L + i] = pend[r][i]
  <2>1. L + i \in 1..L + P /\ (L + i) - L = i /\ ~(L + i <= L)
    BY <1>2
  <2> QED
    BY <2>1, <1>4
<1>6. ASSUME NEW i \in 1..L
       PROVE  (log[c] \o pend[r])[i] = log[c][i]
  <2>1. i \in 1..L + P /\ i <= L
    BY <1>2
  <2> QED
    BY <2>1, <1>4
<1>7. \A i \in 1..P : pend[r][i].sequence_no = L + i
  BY <1>2 DEF PendContinuesLog, L
<1>8. \A i \in 1..P : pend[r][i].event_type = shape[i]
  BY <1>2 DEF HasTypes
<1>9. Len(log'[c]) = Len(log[c]) + Len(shape)
  BY <1>2, <1>3, <1>4 DEF L
<1>10. \A i \in 1..Len(log[c]) : log'[c][i] = log[c][i]
  BY <1>3, <1>6 DEF L
<1>11. ASSUME NEW i \in 1..Len(shape)
       PROVE  /\ log'[c][Len(log[c]) + i].sequence_no = Len(log[c]) + i
              /\ log'[c][Len(log[c]) + i].event_type = shape[i]
  <2>1. i \in 1..P
    BY <1>2
  <2>2. log'[c][L + i] = pend[r][i]
    BY <2>1, <1>3, <1>5
  <2>3. log'[c][L + i].sequence_no = L + i /\ log'[c][L + i].event_type = shape[i]
    BY <2>1, <2>2, <1>7, <1>8
  <2> QED
    BY <2>3 DEF L
<1> QED
  BY <1>3, <1>9, <1>10, <1>11 DEF Abstract!Extends

\* A batch has a model answer in it just if its shape does.
LEMMA AnswersIffShape ==
  ASSUME NEW r \in Requests, pend[r] \in Seq(Event)
  PROVE  /\ HasTypes(r, Abstract!Started)  => ~Answers(pend[r])
         /\ HasTypes(r, Abstract!Finished) => ~Answers(pend[r])
         /\ HasTypes(r, Abstract!Blocked)  => ~Answers(pend[r])
         /\ HasTypes(r, Abstract!Plain)    => Answers(pend[r])
         /\ HasTypes(r, Abstract!Grounded) => Answers(pend[r])
<1>1. DOMAIN pend[r] = 1..Len(pend[r])
  OBVIOUS
<1>2. HasTypes(r, Abstract!Started) => ~Answers(pend[r])
  BY <1>1 DEF HasTypes, Answers, Abstract!Started
<1>3. HasTypes(r, Abstract!Finished) => ~Answers(pend[r])
  BY <1>1 DEF HasTypes, Answers, Abstract!Finished
<1>4. HasTypes(r, Abstract!Blocked) => ~Answers(pend[r])
  BY <1>1 DEF HasTypes, Answers, Abstract!Blocked
<1>5. ASSUME HasTypes(r, Abstract!Plain) PROVE Answers(pend[r])
  <2>1. 3 \in DOMAIN pend[r] /\ pend[r][3].event_type = "message.sent"
    BY <1>1, <1>5 DEF HasTypes, Abstract!Plain
  <2> QED
    BY <2>1 DEF Answers
<1>6. ASSUME HasTypes(r, Abstract!Grounded) PROVE Answers(pend[r])
  <2>1. 4 \in DOMAIN pend[r] /\ pend[r][4].event_type = "message.sent"
    BY <1>1, <1>6 DEF HasTypes, Abstract!Grounded
  <2> QED
    BY <2>1 DEF Answers
<1> QED
  BY <1>2, <1>3, <1>4, <1>5, <1>6

\* A step of the requests is a step of the log or leaves it alone.
LEMMA NextImplements ==
  IInv /\ Batches /\ [Next]_vars => [Abstract!Next]_(Abstract!vars)
<1> SUFFICES ASSUME IInv, Batches, [Next]_vars
             PROVE  Abstract!Next \/ UNCHANGED <<log, usage>>
  BY DEF Abstract!vars
<1> USE DEF IInv
<1>1. ASSUME NEW c \in Conversations, NEW sk \in SourceKinds, Create(c, sk)
      PROVE  Abstract!Start(c)
  <2>1. log[c] = <<>> /\ log \in [Conversations -> Seq(Event)]
    BY <1>1 DEF Create, Free, RowIffEvents, TypeOK
  <2>2. /\ log' = [log EXCEPT ![c] = log'[c]]
        /\ Len(log[c]) = 0 /\ Len(log'[c]) = 1
        /\ log'[c][1].sequence_no = 1
        /\ log'[c][1].event_type = "conversation.started"
    BY <1>1, <2>1 DEF Create
  <2>3. Abstract!Extends(c, Abstract!Started)
    BY <2>2 DEF Abstract!Extends, Abstract!Started
  <2> QED
    BY <1>1, <2>1, <2>3 DEF Abstract!Start, Create
<1>2. ASSUME NEW r \in Requests, Commit(r)
      PROVE  Abstract!Next
  <2> DEFINE c == tgt[r]
  <2>1. Complete(r) /\ Open(r) /\ c \in Conversations /\ pend[r] \in Seq(Event)
    BY <1>2 DEF Batches, BatchOf, Commit, Open, Closed, TypeOK
  <2>2. /\ Abstract!Started \in Seq(Events) /\ Abstract!Finished \in Seq(Events)
        /\ Abstract!Blocked \in Seq(Events) /\ Abstract!Plain \in Seq(Events)
        /\ Abstract!Grounded \in Seq(Events)
    BY DEF Abstract!Started, Abstract!Finished, Abstract!Blocked,
       Abstract!Plain, Abstract!Grounded, Events
  <2>3. /\ Answers(pend[r]) => usage' = [usage EXCEPT ![c] = @ + 1]
        /\ ~Answers(pend[r]) => usage' = usage
    BY <1>2 DEF Commit
  <2>4. CASE kind[r] = "branch" /\ HasTypes(r, Abstract!Started)
    <3>1. log[c] = <<>>
      BY <2>1, <2>4 DEF FreshIsPrivate, Fresh, RowIffEvents
    <3> QED
      BY <3>1, <1>2, <2>1, <2>2, <2>3, <2>4, CommitExtends, AnswersIffShape
      DEF Abstract!Next, Abstract!Start
  <2>5. CASE kind[r] = "stop" /\ HasTypes(r, Abstract!Finished)
    <3>1. log[c] # <<>>
      BY <2>1, <2>5 DEF FreshIsPrivate, Fresh, RowIffEvents
    <3> QED
      BY <3>1, <1>2, <2>1, <2>2, <2>3, <2>5, CommitExtends, AnswersIffShape
      DEF Abstract!Next, Abstract!Finish
  <2>6. CASE HasTypes(r, Abstract!Blocked)
    BY <1>2, <2>1, <2>2, <2>3, <2>6, CommitExtends, AnswersIffShape
    DEF Abstract!Next, Abstract!Refuse
  <2>7. CASE HasTypes(r, Abstract!Plain)
    BY <1>2, <2>1, <2>2, <2>3, <2>7, CommitExtends, AnswersIffShape
    DEF Abstract!Next, Abstract!Answer
  <2>8. CASE HasTypes(r, Abstract!Grounded)
    BY <1>2, <2>1, <2>2, <2>3, <2>8, CommitExtends, AnswersIffShape
    DEF Abstract!Next, Abstract!Answer
  <2> QED
    BY <2>1, <2>4, <2>5, <2>6, <2>7, <2>8 DEF Complete
<1>3. CASE UNCHANGED <<log, usage>>
  BY <1>3
<1> QED
  BY <1>1, <1>2, <1>3 DEF Next, Arrival, Arrive, LoadTurn, OpenChat, LoadStop,
     LoadBranch, Progress, PatchKill, CheckKill, Killed, ReadMax, Insert,
     Duplicate, CallModel, Answered, GatewayError, Update, DeadlockVictim,
     Crash, Abort, db, vars, Abstract!Next

\* Whatever requests interleave, fail or are rolled back, a reader of the event
\* table and the usage ledger sees what ConversationLog promises: whole batches,
\* each with its ledger row exactly if it answers (append_event, run_turn and
\* the routes that write conversations).
THEOREM RuntimeImplementsLog == Spec => ImplementsConversationLog
<1>1. Init => Abstract!Init
  BY DEF Init, Abstract!Init
<1>2. IInv /\ Batches /\ [Next]_vars => [Abstract!Next]_(Abstract!vars)
  BY NextImplements
<1> QED
  BY <1>1, <1>2, Invariance, BatchesInvariant, PTL
  DEF Spec, ImplementsConversationLog, Abstract!Spec

=============================================================================
