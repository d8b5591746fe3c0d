------------------------ MODULE ReconciliationProofs ------------------------
(***************************************************************************)
(* Safety of Reconciliation for any number of requests, phones, workers    *)
(* and payment requests, proved with TLAPS: the inductive invariant RecInv *)
(* and what follows from it.                                               *)
(***************************************************************************)
EXTENDS Reconciliation, SettlementApiProofs

USE NoneAssumption, AttemptsAssumption, AttemptAssumption, BoundAssumption

-----------------------------------------------------------------------------
(* Types.                                                                  *)

\* Every step of the API alone keeps the types.
LEMMA ApiTypes ==
  ASSUME RecTypeOK, CallsSound, ApiStep PROVE RecTypeOK'
<1>1. ApiTypeOK'
  <2>1. CASE \E i \in Intents : Publish(i)
    BY <2>1, PublishTypes DEF RecTypeOK
  <2>2. CASE \E r \in Requests : Serve(r)
    BY <2>2, ServeTypes DEF RecTypeOK, CallsSound
  <2> QED BY <2>1, <2>2 DEF ApiStep
<1> QED BY <1>1 DEF RecTypeOK, ApiStep, phoneVars, chainVars, workerVars

\* The phones keep the types, of the API too when a report reaches it.
LEMMA PhoneTypes ==
  ASSUME RecTypeOK, NEW h \in Hashes, PhoneStep(h) PROVE RecTypeOK'
<1> USE DEF RecTypeOK
<1>1. CASE \E r \in Requests : Post(h, r)
  <2>1. PICK r \in Requests : Post(h, r)
    BY <1>1
  <2>2. ApiTypeOK'
    BY <2>1, AttemptAssumption, AuthorizeTypes, SubmitTypes DEF Post
  <2>3. posts' \in [Hashes -> 0 .. ReportAttempts]
    BY <2>1 DEF Post
  <2> QED BY <2>1, <2>2, <2>3 DEF Post, chainVars, workerVars
<1>2. CASE Sign(h) \/ Finish(h)
  <2>1. ApiTypeOK'
    BY <1>2 DEF Sign, Finish, ApiTypeOK, apiVars
  <2> QED BY <1>2, <2>1 DEF Sign, Finish, chainVars, workerVars
<1>4. CASE Conclude(h)
  <2>1. ApiTypeOK'
    BY <1>4 DEF Conclude, ApiTypeOK, apiVars
  <2>2. posts' \in [Hashes -> 0 .. ReportAttempts]
    BY <1>4 DEF Conclude
  <2>3. report' \in [Hashes -> {"authorize", "submit", "done"}]
    BY <1>4 DEF Conclude
  <2> QED BY <1>4, <2>1, <2>2, <2>3 DEF Conclude, chainVars, workerVars
<1>3. CASE Send(h)
  <2>1. ApiTypeOK'
    BY <1>3 DEF Send, ApiTypeOK, apiVars
  <2>0. chain[h] \in Tx
    OBVIOUS
  <2>2. [chain[h] EXCEPT !.state = "pending"] \in Tx
    BY <2>0 DEF Tx
  <2> QED BY <1>3, <2>1, <2>2 DEF Send, workerVars
<1> QED BY <1>1, <1>2, <1>3, <1>4 DEF PhoneStep

\* The chain keeps the types.
LEMMA ChainTypes ==
  ASSUME RecTypeOK, ChainStep PROVE RecTypeOK'
<1> USE DEF RecTypeOK
<1>1. ApiTypeOK'
  BY DEF ChainStep, CloseLedger, Include, Drop, ApiTypeOK, apiVars
<1>2. CASE CloseLedger
  BY <1>1, <1>2 DEF CloseLedger, phoneVars, workerVars
<1>3. ASSUME NEW h \in Hashes, Include(h) PROVE RecTypeOK'
  <2> DEFINE settles == ~Consumed(TxIntent[h]) /\ ledger < Expiry[TxIntent[h]]
             tx == [state |-> IF settles THEN "success" ELSE "failed", ledger |-> ledger]
  <2>1. tx \in Tx
    BY DEF Tx
  <2>2. chain' \in [Hashes -> Tx]
    BY <1>3, <2>1 DEF Include
  <2>3. events' \in Seq(Hashes)
    BY <1>3 DEF Include
  <2> QED BY <1>1, <1>3, <2>2, <2>3 DEF Include, phoneVars, workerVars
<1>4. ASSUME NEW h \in Hashes, Drop(h) PROVE RecTypeOK'
  <2>0. chain[h] \in Tx
    OBVIOUS
  <2>1. [chain[h] EXCEPT !.state = "dropped"] \in Tx
    BY <2>0 DEF Tx
  <2> QED BY <1>1, <1>4, <2>1 DEF Drop, phoneVars, workerVars
<1> QED BY <1>2, <1>3, <1>4 DEF ChainStep

\* The three lists a worker makes hold entries.
LEMMA ListTypes ==
  ASSUME RecTypeOK
  PROVE  /\ SubmittedRows \subseteq Entry
         /\ \A latest \in Nat : StaleRows(latest) \subseteq Entry
<1>1. SubmittedRows \subseteq Entry
  BY DEF SubmittedRows, Entry, RecTypeOK, ApiTypeOK, Row
<1>2. ASSUME NEW latest \in Nat PROVE StaleRows(latest) \subseteq Entry
  BY DEF StaleRows, Entry
<1> QED BY <1>1, <1>2

\* A verdict on an entry that names a transaction is a decision.
LEMMA VerdictType ==
  ASSUME RecTypeOK, NEW t \in Entry, t.hash \in Hashes, NEW answer
  PROVE  Verdict(t, answer) \in Decision
<1>1. chain[t.hash] \in Tx
  BY DEF RecTypeOK
<1>2. chain[t.hash].ledger \in Nat /\ t.intent \in Intents
  BY <1>1 DEF Tx, Entry
<1> QED BY <1>2 DEF Verdict, Decision

\* A worker's idle bookkeeping is a job.
LEMMA EmptyJobType == EmptyJob \in Job
BY DEF EmptyJob, Job, NoItem, NoRow, Row, RowStatuses, Decision, Entry

\* What a worker answers itself about a row.
Answers == {"SUCCESS", "FAILED", "UNKNOWN", "MISMATCH"}

\* A receipt or an event checked: the worker drops something from its lists, and
\* may carry a verdict on one of the listed rows away from it.
Checked(w, rest) ==
  /\ rest.todo \subseteq job[w].todo
  /\ rest.phase = job[w].phase /\ rest.latest = job[w].latest
  /\ \/ job' = [job EXCEPT ![w] = rest] /\ wpc' = wpc
     \/ \E t \in job[w].todo, answer \in Answers :
           /\ answer = "SUCCESS" => Receipt(t.hash) = "SUCCESS"
           /\ Rule(w, rest, Verdict(t, answer))

LEMMA WorkerChecks ==
  ASSUME RecTypeOK, NEW w \in Workers, CheckReceipt(w) \/ CheckEvent(w)
  PROVE  \E rest \in Job : Checked(w, rest)
<1>1. job[w] \in Job
  BY DEF RecTypeOK
<1>2. ASSUME NEW t \in job[w].todo, NEW rest, AskReceipt(w, t, rest)
      PROVE  \/ job' = [job EXCEPT ![w] = rest] /\ wpc' = wpc
             \/ \E answer \in Answers : /\ answer = "SUCCESS" => Receipt(t.hash) = "SUCCESS"
                                        /\ Rule(w, rest, Verdict(t, answer))
  <2>1. Receipt(t.hash) \in {"SUCCESS", "FAILED", "NOT_FOUND"}
    BY DEF Receipt
  <2>2. CASE Receipt(t.hash) # "NOT_FOUND" /\ Rule(w, rest, Verdict(t, Receipt(t.hash)))
    BY <2>1, <2>2 DEF Answers
  <2>3. CASE Rule(w, rest, Verdict(t, "UNKNOWN"))
    BY <2>3 DEF Answers
  <2> QED BY <1>2, <2>2, <2>3 DEF AskReceipt
<1>3. CASE CheckReceipt(w)
  <2>1. PICK t \in job[w].todo : AskReceipt(w, t, [job[w] EXCEPT !.todo = @ \ {t}])
    BY <1>3 DEF CheckReceipt
  <2> DEFINE rest == [job[w] EXCEPT !.todo = @ \ {t}]
  <2>2. /\ rest \in Job /\ rest.todo \subseteq job[w].todo
        /\ rest.phase = job[w].phase /\ rest.latest = job[w].latest
    BY <1>1 DEF Job
  <2> HIDE DEF rest
  <2> QED BY <1>2, <2>1, <2>2 DEF Checked, rest
<1>4. CASE CheckEvent(w)
  <2>1. PICK h \in job[w].page :
          LET rest == [job[w] EXCEPT !.page = @ \ {h}] IN
          \/ job' = [job EXCEPT ![w] = rest] /\ wpc' = wpc
          \/ \E t \in NamedRows(w, h) : \/ Rule(w, rest, Verdict(t, "MISMATCH"))
                                        \/ AskReceipt(w, t, rest)
    BY <1>4 DEF CheckEvent
  <2> DEFINE rest == [job[w] EXCEPT !.page = @ \ {h}]
  <2>2. /\ rest \in Job /\ rest.todo \subseteq job[w].todo
        /\ rest.phase = job[w].phase /\ rest.latest = job[w].latest
    BY <1>1 DEF Job
  <2>3. NamedRows(w, h) \subseteq job[w].todo
    BY DEF NamedRows
  <2>4. "MISMATCH" \in Answers /\ "MISMATCH" # "SUCCESS"
    BY DEF Answers
  <2> HIDE DEF rest
  <2>5. \/ job' = [job EXCEPT ![w] = rest] /\ wpc' = wpc
        \/ \E t \in NamedRows(w, h) : \/ Rule(w, rest, Verdict(t, "MISMATCH"))
                                      \/ AskReceipt(w, t, rest)
    BY <2>1 DEF rest
  <2>6. CASE job' = [job EXCEPT ![w] = rest] /\ wpc' = wpc
    BY <2>2, <2>6 DEF Checked
  <2>7. CASE \E t \in NamedRows(w, h) : Rule(w, rest, Verdict(t, "MISMATCH"))
    BY <2>2, <2>3, <2>4, <2>7 DEF Checked
  <2>8. ASSUME NEW t \in NamedRows(w, h), AskReceipt(w, t, rest) PROVE Checked(w, rest)
    BY <1>2, <2>2, <2>3, <2>8 DEF Checked
  <2> QED BY <2>2, <2>5, <2>6, <2>7, <2>8
<1> QED BY <1>3, <1>4

\* Whatever a worker does to its bookkeeping, it is left with a job.
LEMMA JobTypes ==
  ASSUME RecTypeOK, WorkersSound, NEW w \in Workers, WorkerStep(w) \/ Throw(w)
  PROVE  job' = job \/ \E j \in Job : job' = [job EXCEPT ![w] = j]
<1> DEFINE Done == \E j \in Job : job' = [job EXCEPT ![w] = j]
<1>0. job[w] \in Job /\ ledger - 1 \in Nat /\ cursor \in Nat
  BY DEF RecTypeOK
<1>1. CASE BeginCycle(w)
  <2>1. [EmptyJob EXCEPT !.todo = SubmittedRows] \in Job
    BY EmptyJobType, ListTypes DEF Job
  <2> QED BY <1>1, <2>1 DEF BeginCycle
<1>2. CASE ReadHealth(w)
  <2>1. [job[w] EXCEPT !.latest = ledger - 1, !.phase = "expiring"] \in Job
    BY <1>0 DEF Job
  <2>2. job' = [job EXCEPT ![w] = [job[w] EXCEPT !.latest = ledger - 1, !.phase = "expiring"]]
    BY <1>2 DEF ReadHealth, RecTypeOK
  <2> QED BY <2>1, <2>2
<1>3. CASE ListExpired(w)
  <2>1. StaleRows(job[w].latest) \subseteq Entry
    BY <1>0, ListTypes DEF Job
  <2>2. [job[w] EXCEPT !.todo = StaleRows(job[w].latest)] \in Job
    BY <1>0, <2>1 DEF Job
  <2> QED BY <1>3, <2>2 DEF ListExpired
<1>4. CASE PickExpired(w)
  <2>1. PICK t \in job[w].todo :
          job' = [job EXCEPT ![w].todo = @ \ {t},
                             ![w].item = [kind |-> "expire", intent |-> t.intent,
                                          hash |-> None, ledger |-> 0]]
    BY <1>4 DEF PickExpired
  <2> DEFINE d == [kind |-> "expire", intent |-> t.intent, hash |-> None, ledger |-> 0]
  <2>2. t \in Entry
    BY <1>0 DEF Job
  <2>3. d \in Decision
    BY <2>2 DEF Entry, Decision
  <2>4. [job[w] EXCEPT !.todo = @ \ {t}, !.item = d] \in Job
    BY <1>0, <2>3 DEF Job
  <2>5. job' = [job EXCEPT ![w] = [job[w] EXCEPT !.todo = @ \ {t}, !.item = d]]
    BY <2>1 DEF RecTypeOK
  <2> QED BY <2>4, <2>5
<1>5. CASE ExpiringDone(w)
  <2>1. [EmptyJob EXCEPT !.phase = "events"] \in Job
    BY EmptyJobType DEF Job
  <2> QED BY <1>5, <2>1 DEF ExpiringDone
<1>6. CASE LoadCursor(w)
  <2>1. [job[w] EXCEPT !.from = cursor] \in Job
    BY <1>0 DEF Job
  <2> QED BY <1>6, <2>1 DEF LoadCursor
<1>7. CASE FetchPage(w)
  <2> DEFINE from == job[w].from
             page == {events[k] : k \in (from + 1) .. PageEnd(from)}
  <2>1. from \in Nat /\ Len(events) \in Nat /\ events \in Seq(Hashes)
    BY <1>0 DEF Job, RecTypeOK
  <2>2. PageEnd(from) \in Nat /\ PageEnd(from) <= Len(events)
    BY <2>1 DEF PageEnd
  <2>3. page \subseteq Hashes
    BY <2>1, <2>2
  <2>4. [job[w] EXCEPT !.page = page, !.upto = PageEnd(from)] \in Job
    BY <1>0, <2>2, <2>3 DEF Job
  <2>5. job' = [job EXCEPT ![w] = [job[w] EXCEPT !.page = page, !.upto = PageEnd(from)]]
    BY <1>7 DEF FetchPage, RecTypeOK
  <2> QED BY <2>4, <2>5
<1>8. CASE ListKnown(w)
  <2>1. [job[w] EXCEPT !.todo = SubmittedRows] \in Job
    BY <1>0, ListTypes DEF Job
  <2> QED BY <1>8, <2>1 DEF ListKnown
<1>9. CASE CheckReceipt(w) \/ CheckEvent(w)
  <2>1. PICK rest \in Job : Checked(w, rest)
    BY <1>9, WorkerChecks
  <2>2. CASE job' = [job EXCEPT ![w] = rest]
    BY <2>2
  <2>3. CASE \E t \in job[w].todo, answer \in Answers : Rule(w, rest, Verdict(t, answer))
    <3>1. PICK t \in job[w].todo, answer \in Answers : Rule(w, rest, Verdict(t, answer))
      BY <2>3
    <3>2. wpc[w] \in {"receipts", "events"}
      BY <1>9 DEF CheckReceipt, CheckEvent
    <3>3. t \in Entry /\ t.hash \in Hashes
      BY <1>0, <3>2 DEF WorkersSound, WorkerSound, PhaseSound, TodoSound, Job
    <3>4. Verdict(t, answer) \in Decision
      BY <3>3, VerdictType
    <3>5. [rest EXCEPT !.item = Verdict(t, answer)] \in Job
      BY <3>4 DEF Job
    <3> QED BY <3>1, <3>5 DEF Rule
  <2> QED BY <2>1, <2>2, <2>3 DEF Checked
<1>10. ASSUME job' = [job EXCEPT ![w].item = NoItem, ![w].seen = NoRow] PROVE Done
  <2>1. [job[w] EXCEPT !.item = NoItem, !.seen = NoRow] \in Job
    BY <1>0 DEF Job, NoRow, Row, RowStatuses
  <2>2. job' = [job EXCEPT ![w] = [job[w] EXCEPT !.item = NoItem, !.seen = NoRow]]
    BY <1>10 DEF RecTypeOK
  <2> QED BY <2>1, <2>2
<1>11. ASSUME job' = [job EXCEPT ![w] = EmptyJob] PROVE Done
  BY <1>11, EmptyJobType
<1>12. CASE ReadRow(w)
  <2>1. CASE job[w].item \in Decision
    <3>1. row[job[w].item.intent] \in Row
      BY <2>1 DEF Decision, RecTypeOK, ApiTypeOK
    <3>2. [job[w] EXCEPT !.seen = row[job[w].item.intent]] \in Job
      BY <1>0, <3>1 DEF Job
    <3> QED BY <1>10, <1>11, <1>12, <3>2 DEF ReadRow, NextItem, EndCycle
  <2>2. job[w].item \in Decision
    BY <1>0, <1>12 DEF Job, WorkersSound, WorkerSound, ItemSound, ReadRow
  <2> QED BY <2>1, <2>2
<1>13. CASE WriteRow(w) \/ Throw(w) \/ SaveCursor(w)
  BY <1>10, <1>11, <1>13 DEF WriteRow, Throw, SaveCursor, NextItem, EndCycle
<1>14. CASE ReceiptsDone(w) \/ EventsDone(w)
  BY <1>14 DEF ReceiptsDone, EventsDone
<1> QED BY <1>1, <1>2, <1>3, <1>4, <1>5, <1>6, <1>7, <1>8, <1>9, <1>12, <1>13, <1>14
        DEF WorkerStep

\* A worker's program counter stays in its cycle, and its counters in bounds.
LEMMA WorkerCounters ==
  ASSUME RecTypeOK, WorkersSound, NEW w \in Workers, WorkerStep(w) \/ Throw(w)
  PROVE  /\ wpc' \in [Workers -> WpcStates]
         /\ cursor' \in Nat
         /\ throws' \in 0 .. MaxThrows
         /\ rpcFaults' \in 0 .. MaxRpcFaults
<1>1. wpc' = wpc \/ \E there \in WpcStates : wpc' = [wpc EXCEPT ![w] = there]
  <2>1. job[w].phase \in WpcStates
    BY DEF RecTypeOK, Job, WpcStates
  <2>2. CASE BeginCycle(w) \/ ReceiptsDone(w) \/ ReadHealth(w) \/ ListExpired(w)
             \/ PickExpired(w) \/ ExpiringDone(w) \/ LoadCursor(w) \/ FetchPage(w)
             \/ ListKnown(w) \/ EventsDone(w) \/ SaveCursor(w)
    BY <2>2 DEF BeginCycle, ReceiptsDone, ReadHealth, ListExpired, PickExpired,
                ExpiringDone, LoadCursor, FetchPage, ListKnown, EventsDone,
                SaveCursor, At, WpcStates
  <2>3. CASE CheckReceipt(w) \/ CheckEvent(w)
    BY <2>3 DEF CheckReceipt, CheckEvent, AskReceipt, Rule, WpcStates
  <2>4. CASE ReadRow(w) \/ WriteRow(w) \/ Throw(w)
    BY <2>1, <2>4 DEF ReadRow, WriteRow, Throw, NextItem, EndCycle, WpcStates
  <2> QED BY <2>2, <2>3, <2>4 DEF WorkerStep
<1>2. cursor' = cursor \/ cursor' = job[w].upto
  BY DEF WorkerStep, Throw, BeginCycle, CheckReceipt, ReceiptsDone, ReadHealth,
         ListExpired, PickExpired, ExpiringDone, LoadCursor, FetchPage, ListKnown,
         CheckEvent, EventsDone, SaveCursor, ReadRow, WriteRow
<1>3. throws' = throws \/ (throws < MaxThrows /\ throws' = throws + 1)
  BY DEF WorkerStep, Throw, BeginCycle, CheckReceipt, ReceiptsDone, ReadHealth,
         ListExpired, PickExpired, ExpiringDone, LoadCursor, FetchPage, ListKnown,
         CheckEvent, EventsDone, SaveCursor, ReadRow, WriteRow
<1>4. rpcFaults' = rpcFaults \/ (rpcFaults < MaxRpcFaults /\ rpcFaults' = rpcFaults + 1)
  BY DEF WorkerStep, Throw, BeginCycle, CheckReceipt, ReceiptsDone, ReadHealth,
         ListExpired, PickExpired, ExpiringDone, LoadCursor, FetchPage, ListKnown,
         CheckEvent, EventsDone, SaveCursor, ReadRow, WriteRow, AskReceipt
<1>5. job[w].upto \in Nat
  BY DEF RecTypeOK, Job
<1>6. wpc' \in [Workers -> WpcStates]
  BY <1>1 DEF RecTypeOK
<1>7. cursor' \in Nat
  BY <1>2, <1>5 DEF RecTypeOK
<1>8. throws' \in 0 .. MaxThrows
  BY <1>3 DEF RecTypeOK
<1>9. rpcFaults' \in 0 .. MaxRpcFaults
  BY <1>4 DEF RecTypeOK
<1> QED BY <1>6, <1>7, <1>8, <1>9

\* What a worker's step leaves alone: everything but its own bookkeeping and,
\* in WriteRow, one row.
LEMMA WorkerFrame ==
  ASSUME NEW w \in Workers, WorkerStep(w) \/ Throw(w)
  PROVE  /\ UNCHANGED <<authz, pc, call, phoneVars, chainVars>>
         /\ WriteRow(w) \/ UNCHANGED row
<1> USE DEF notWorker, apiVars
<1>1. CASE WriteRow(w)
  BY <1>1 DEF WriteRow
<1>2. CASE UNCHANGED notWorker
  BY <1>2
<1> QED BY <1>1, <1>2
    DEF WorkerStep, Throw, BeginCycle, CheckReceipt, ReceiptsDone, ReadHealth,
        ListExpired, PickExpired, ExpiringDone, LoadCursor, FetchPage, ListKnown,
        CheckEvent, EventsDone, SaveCursor, ReadRow

\* The row a worker writes is a row.
LEMMA ClosedType ==
  ASSUME NEW item \in Decision, NEW current \in Row
  PROVE  Closed(item, current) \in Row
<1>1. TargetStatus(item) \in RowStatuses
  BY DEF TargetStatus, RowStatuses, Statuses
<1> QED BY <1>1 DEF Closed, Decision, Row, RowStatuses, Statuses

\* Every step of a worker keeps the types.
LEMMA WorkerTypes ==
  ASSUME RecTypeOK, WorkersSound, NEW w \in Workers, WorkerStep(w) \/ Throw(w)
  PROVE  RecTypeOK'
<1>1. job' \in [Workers -> Job]
  BY JobTypes DEF RecTypeOK
<1>2. ApiTypeOK'
  <2>1. CASE UNCHANGED row
    BY <2>1, WorkerFrame DEF RecTypeOK, ApiTypeOK
  <2>2. CASE WriteRow(w)
    <3> DEFINE item == job[w].item
    <3>1. item \in Decision
      BY <2>2 DEF RecTypeOK, Job, WorkersSound, WorkerSound, ItemSound, WriteRow
    <3>2. item.intent \in Intents /\ row[item.intent] \in Row
      BY <3>1 DEF Decision, RecTypeOK, ApiTypeOK
    <3>3. row' \in [Intents -> Row]
      <4>1. Closed(item, row[item.intent]) \in Row
        BY <3>1, <3>2, ClosedType
      <4>2. row' = row \/ row' = [row EXCEPT ![item.intent] = Closed(item, row[item.intent])]
        BY <2>2, <3>2 DEF WriteRow, RecTypeOK, ApiTypeOK
      <4> QED BY <3>2, <4>1, <4>2 DEF RecTypeOK, ApiTypeOK
    <3> QED BY <3>3, WorkerFrame DEF RecTypeOK, ApiTypeOK
  <2> QED BY <2>1, <2>2, WorkerFrame
<1> QED BY <1>1, <1>2, WorkerCounters, WorkerFrame DEF RecTypeOK, phoneVars, chainVars

\* Every step keeps the types.
LEMMA TypeStep ==
  ASSUME RecInv, RecNext PROVE RecTypeOK'
BY ApiTypes, PhoneTypes, ChainTypes, WorkerTypes DEF RecInv, RecNext

-----------------------------------------------------------------------------
(* What only grows.                                                        *)

\* The table of the domain, read backwards: where a status can come from.
LEMMA Transitions ==
  ASSUME NEW s \in Statuses
  PROVE  /\ CanTransition(s, "authorized") => s = "awaiting_approval"
         /\ CanTransition(s, "submitted") => s = "authorized"
         /\ CanTransition(s, "confirmed") => s = "submitted"
         /\ CanTransition(s, "expired") => s \in {"created", "awaiting_approval", "authorized"}
BY DEF CanTransition, AllowedTransitions, Statuses

\* The ledger never goes back, and an executed transaction stays what it is.
ChainAdvances == /\ ledger <= ledger'
                 /\ \A h \in Executed : chain'[h] = chain[h]

LEMMA ChainStepAdvances ==
  ASSUME RecInv, RecNext PROVE ChainAdvances
<1> USE DEF ChainAdvances, RecInv, RecTypeOK
<1>1. CASE UNCHANGED <<chain, ledger>>
  BY <1>1
<1>2. ASSUME NEW h \in Hashes, Send(h) PROVE ChainAdvances
  BY <1>2 DEF Send, PhonesSound, Executed
<1>3. CASE CloseLedger
  BY <1>3 DEF CloseLedger
<1>4. ASSUME NEW h \in Hashes, Include(h) PROVE ChainAdvances
  BY <1>4 DEF Include, Executed
<1>5. ASSUME NEW h \in Hashes, Drop(h) PROVE ChainAdvances
  BY <1>5 DEF Drop, Executed
<1>6. CASE ApiStep
  BY <1>1, <1>6 DEF ApiStep, chainVars
<1>7. ASSUME NEW h \in Hashes, PhoneStep(h) PROVE ChainAdvances
  BY <1>1, <1>2, <1>7 DEF PhoneStep, Sign, Finish, Conclude, Post, chainVars
<1>8. ASSUME NEW w \in Workers, WorkerStep(w) \/ Throw(w) PROVE ChainAdvances
  BY <1>1, <1>8, WorkerFrame DEF chainVars
<1> QED BY <1>3, <1>4, <1>5, <1>6, <1>7, <1>8 DEF RecNext, ChainStep

\* What was paid stays paid.
LEMMA PaidStays ==
  ASSUME RecTypeOK, RecTypeOK', ChainAdvances,
         NEW i \in Intents, NEW h, NEW at, PaidBy(i, h, at)
  PROVE  h \in Executed' /\ TxIntent[h] = i /\ at = chain'[h].ledger
BY DEF PaidBy, Executed, ChainAdvances, RecTypeOK

\* The one row a successful compare-and-set changes, and what it becomes: the
\* hash it carries from then on is the one the call brought.
LEMMA SwapRow ==
  ASSUME RecInv, NEW r \in Requests, SwapSettlement(r), row' # row
  PROVE  LET c == call[r] IN
         /\ c \in Call
         /\ row[c.intent].hash = None
         /\ row[c.intent].status = IF c.next = "authorized" THEN "awaiting_approval"
                                                            ELSE "authorized"
         /\ row' = [row EXCEPT ![c.intent] =
                     [status |-> c.next, hash |-> c.hash, ledger |-> c.seen.ledger]]
<1> DEFINE c == call[r]
<1>1. c \in Call /\ pc[r] = "swap" /\ c.intent \in Intents
  BY DEF SwapSettlement, RecInv, RecTypeOK, ApiTypeOK, Call
<1>2. StillAsRead(c) /\ row' = [row EXCEPT ![c.intent] = Patched(c)]
  BY DEF SwapSettlement, Refuse
<1>3. /\ c.seen.hash = None
      /\ c.seen.status = IF c.next = "authorized" THEN "awaiting_approval" ELSE "authorized"
      /\ c.next = "authorized" => c.hash = None
  BY <1>1 DEF RecInv, CallsSound
<1>4. row[c.intent].status = c.seen.status /\ row[c.intent].hash = None
  BY <1>1, <1>2, <1>3 DEF StillAsRead, RecInv, RowsSound
<1>5. Patched(c) = [status |-> c.next, hash |-> c.hash, ledger |-> c.seen.ledger]
  <2>1. c.seen \in Row
    BY <1>1 DEF Call
  <2>2. (IF c.hash = None THEN c.seen.hash ELSE c.hash) = c.hash
    BY <1>3
  <2>3. Patched(c) = [c.seen EXCEPT !.status = c.next, !.hash = c.hash]
    BY <2>1, <2>2 DEF Patched, Row
  <2> QED BY <2>1, <2>3 DEF Row
<1> QED BY <1>1, <1>2, <1>3, <1>4, <1>5

\* The one row a worker's UPDATE changes: its status moves along the table, its
\* hash stays, and a confirmation has the payment behind it.
LEMMA WrittenRow ==
  ASSUME RecInv, NEW w \in Workers, WriteRow(w), row' # row
  PROVE  LET item == job[w].item
             i == item.intent
             next == row'[i]
         IN /\ item \in Decision
            /\ row' = [row EXCEPT ![i] = Closed(item, row[i])]
            /\ next.status = TargetStatus(item)
            /\ row[i].status \in Statuses
            /\ CanTransition(row[i].status, next.status)
            /\ next.hash = row[i].hash
            /\ next.status = "confirmed" => PaidBy(i, next.hash, next.ledger)
            /\ next.status = "expired" => Expiry[i] < ledger
<1> DEFINE item == job[w].item
           i == item.intent
           seen == job[w].seen
<1>1. wpc[w] = "writeRow" /\ RowStillSeen(w) /\ row' = [row EXCEPT ![i] = Closed(item, row[i])]
  BY DEF WriteRow
<1>2. item \in Decision
  BY <1>1 DEF RecInv, RecTypeOK, Job, WorkersSound, WorkerSound, ItemSound
<1>3. i \in Intents /\ row[i] \in Row /\ item.kind \in {"confirm", "fail", "expire"}
  BY <1>2 DEF Decision, RecInv, RecTypeOK, ApiTypeOK
<1>4. /\ seen.status \in Statuses
      /\ CanTransition(seen.status, TargetStatus(item))
      /\ seen.hash # None => row[i].hash = seen.hash
      /\ item.kind = "confirm" => seen.hash = item.hash
  BY <1>1 DEF RecInv, WorkersSound, WorkerSound, SeenSound
<1>5. row[i].status = seen.status
  BY <1>1 DEF RowStillSeen
<1>6. /\ item.kind = "confirm" => PaidBy(i, item.hash, item.ledger)
      /\ item.kind = "expire" => Expiry[i] < ledger
  <2>1. ItemSound(w)
    BY DEF RecInv, WorkersSound, WorkerSound
  <2> QED BY <1>1, <2>1 DEF ItemSound
<1>7. row'[i] = Closed(item, row[i])
  BY <1>1, <1>3 DEF RecInv, RecTypeOK, ApiTypeOK
<1>8. CASE item.kind = "confirm"
  <2>1. item.hash # None
    BY <1>6, <1>8 DEF PaidBy, Executed
  <2>2. row'[i] = [status |-> "confirmed", hash |-> item.hash, ledger |-> item.ledger]
    BY <1>7, <1>8 DEF Closed
  <2> QED BY <1>1, <1>2, <1>4, <1>5, <1>6, <1>8, <2>1, <2>2 DEF TargetStatus
<1>9. CASE item.kind # "confirm"
  <2>1. TargetStatus(item) = IF item.kind = "fail" THEN "failed" ELSE "expired"
    BY <1>3, <1>9 DEF TargetStatus
  <2>2. row'[i] = [row[i] EXCEPT !.status = TargetStatus(item)]
    BY <1>7, <1>9 DEF Closed
  <2>3. row'[i].status = TargetStatus(item) /\ row'[i].hash = row[i].hash
    BY <1>3, <2>2 DEF Row
  <2> QED BY <1>1, <1>2, <1>3, <1>4, <1>5, <1>6, <1>9, <2>1, <2>3
<1> QED BY <1>8, <1>9

\* Three actions write a settlement row, and no other does.
LEMMA RowWriters ==
  ASSUME RecNext, row' # row
  PROVE  \/ \E i \in Intents : Publish(i)
         \/ \E r \in Requests : SwapSettlement(r)
         \/ \E w \in Workers : WriteRow(w)
<1>1. CASE ApiStep
  <2>1. ASSUME NEW r \in Requests, Serve(r) PROVE SwapSettlement(r)
    BY <2>1 DEF Serve, SaveAuthorization, CheckAuthorization, ReadSettlement, Answer, Refuse
  <2> QED BY <1>1, <2>1 DEF ApiStep
<1>2. ASSUME NEW h \in Hashes, PhoneStep(h) PROVE FALSE
  BY <1>2 DEF PhoneStep, Sign, Send, Finish, Conclude, Post, ReceiveAuthorize,
              ReceiveSubmit, apiVars
<1>3. CASE ChainStep
  BY <1>3 DEF ChainStep, CloseLedger, Include, Drop, apiVars
<1>4. ASSUME NEW w \in Workers, WorkerStep(w) \/ Throw(w) PROVE WriteRow(w)
  BY <1>4, WorkerFrame
<1> QED BY <1>1, <1>2, <1>3, <1>4 DEF RecNext

\* A published row stays, and a hash once recorded is never replaced.
RowsAdvance == \A i \in Intents :
  /\ row[i].status # "none" => row'[i].status # "none"
  /\ row[i].hash # None => row'[i].hash = row[i].hash

LEMMA RowStepAdvances ==
  ASSUME RecInv, RecNext PROVE RowsAdvance
<1> USE DEF RowsAdvance
<1>1. CASE row' = row
  BY <1>1
<1>2. ASSUME NEW i \in Intents, Publish(i) PROVE RowsAdvance
  BY <1>2 DEF Publish, PublishedRow, NoRow, RecInv, RecTypeOK, ApiTypeOK
<1>3. ASSUME NEW r \in Requests, SwapSettlement(r), row' # row PROVE RowsAdvance
  <2> DEFINE c == call[r]
  <2>1. /\ c.next # "none" /\ c.intent \in Intents /\ row[c.intent].hash = None
        /\ row' = [row EXCEPT ![c.intent] =
                     [status |-> c.next, hash |-> c.hash, ledger |-> c.seen.ledger]]
    BY <1>3, SwapRow DEF Call
  <2> QED BY <2>1 DEF RecInv, RecTypeOK, ApiTypeOK
<1>4. ASSUME NEW w \in Workers, WriteRow(w), row' # row PROVE RowsAdvance
  <2> DEFINE i == job[w].item.intent
  <2>1. /\ i \in Intents
        /\ row' = [row EXCEPT ![i] = Closed(job[w].item, row[i])]
        /\ row'[i].status = TargetStatus(job[w].item)
        /\ row'[i].hash = row[i].hash
    BY <1>4, WrittenRow DEF Decision
  <2>2. TargetStatus(job[w].item) # "none"
    BY DEF TargetStatus
  <2>3. \A j \in Intents \ {i} : row'[j] = row[j]
    BY <2>1 DEF RecInv, RecTypeOK, ApiTypeOK
  <2> QED BY <2>1, <2>2, <2>3
<1> QED BY <1>1, <1>2, <1>3, <1>4, RowWriters

-----------------------------------------------------------------------------
(* The parts of the inductive invariant, one lemma per part.               *)

LEMMA RowsStep ==
  ASSUME RecInv, RecNext, RecTypeOK', ChainAdvances PROVE RowsSound'
<1> DEFINE Sound(i) ==
      /\ row[i].status = "none" => row[i] = NoRow
      /\ row[i].status \in {"none", "awaiting_approval", "authorized"} => row[i].hash = None
      /\ row[i].status = "submitted" => row[i].hash # None
      /\ row[i].hash # None => TxIntent[row[i].hash] = i
      /\ row[i].status = "confirmed" => PaidBy(i, row[i].hash, row[i].ledger)
      /\ row[i].status = "expired" => Expiry[i] < ledger
<1>0. SUFFICES ASSUME NEW i \in Intents PROVE Sound(i)'
  BY DEF RowsSound
<1>1. Sound(i) /\ row \in [Intents -> Row]
  BY DEF RecInv, RowsSound, RecTypeOK, ApiTypeOK
<1>2. CASE row'[i] = row[i]
  <2>1. row'[i].status = "confirmed" => PaidBy(i, row[i].hash, row[i].ledger)'
    BY <1>1, <1>2, PaidStays DEF RecInv, PaidBy
  <2>2. row[i].status = "expired" => Expiry[i] < ledger'
    BY <1>1 DEF ChainAdvances, RecInv, RecTypeOK
  <2> QED BY <1>1, <1>2, <2>1, <2>2
<1>3. CASE Publish(i)
  BY <1>1, <1>3 DEF Publish, PublishedRow
<1>4. ASSUME NEW r \in Requests, SwapSettlement(r), row' # row, call[r].intent = i
      PROVE  Sound(i)'
  <2> DEFINE c == call[r]
  <2>1. c \in Call /\ row'[i] = [status |-> c.next, hash |-> c.hash, ledger |-> c.seen.ledger]
    BY <1>1, <1>4, SwapRow
  <2>2. pc[r] = "swap"
    BY <1>4 DEF SwapSettlement
  <2>3. /\ c.next = "authorized" => c.hash = None
        /\ c.next = "submitted" => c.hash # None /\ TxIntent[c.hash] = i
        /\ c.next \in {"authorized", "submitted"}
    BY <1>4, <2>1, <2>2 DEF RecInv, CallsSound, Call
  <2> QED BY <2>1, <2>3
<1>5. ASSUME NEW w \in Workers, WriteRow(w), row' # row, job[w].item.intent = i
      PROVE  Sound(i)'
  <2> DEFINE next == row'[i]
  <2>1. /\ next.status = TargetStatus(job[w].item)
        /\ row[i].status \in Statuses
        /\ CanTransition(row[i].status, next.status)
        /\ next.hash = row[i].hash
        /\ next.status = "confirmed" => PaidBy(i, next.hash, next.ledger)
        /\ next.status = "expired" => Expiry[i] < ledger
    BY <1>5, WrittenRow
  <2>2. next.status \in {"confirmed", "failed", "expired"}
    BY <2>1 DEF TargetStatus
  <2>3. next.status = "confirmed" => PaidBy(i, row[i].hash, row[i].ledger)'
    BY <2>1, PaidStays DEF RecInv, PaidBy
  <2>4. next.status = "expired" => Expiry[i] < ledger'
    BY <2>1 DEF ChainAdvances, RecInv, RecTypeOK
  <2> QED BY <1>1, <2>1, <2>2, <2>3, <2>4
<1>6. CASE row' # row
  <2>1. ASSUME NEW j \in Intents, Publish(j), row'[i] # row[i] PROVE j = i
    BY <1>1, <2>1 DEF Publish
  <2>2. ASSUME NEW r \in Requests, SwapSettlement(r), row'[i] # row[i]
        PROVE  call[r].intent = i
    <3>1. row' = [row EXCEPT ![call[r].intent] =
                   [status |-> call[r].next, hash |-> call[r].hash,
                    ledger |-> call[r].seen.ledger]]
      BY <1>6, <2>2, SwapRow
    <3> QED BY <1>1, <2>2, <3>1
  <2>3. ASSUME NEW w \in Workers, WriteRow(w), row'[i] # row[i]
        PROVE  job[w].item.intent = i
    <3>1. row' = [row EXCEPT ![job[w].item.intent] =
                   Closed(job[w].item, row[job[w].item.intent])]
      BY <1>6, <2>3, WrittenRow
    <3> QED BY <1>1, <2>3, <3>1
  <2>4. \/ \E j \in Intents : Publish(j)
        \/ \E r \in Requests : SwapSettlement(r)
        \/ \E w \in Workers : WriteRow(w)
    BY <1>6, RowWriters
  <2>5. CASE row'[i] # row[i]
    <3>1. CASE \E j \in Intents : Publish(j)
      BY <1>3, <2>1, <2>5, <3>1
    <3>2. CASE \E r \in Requests : SwapSettlement(r)
      BY <1>4, <1>6, <2>2, <2>5, <3>2
    <3>3. CASE \E w \in Workers : WriteRow(w)
      BY <1>5, <1>6, <2>3, <2>5, <3>3
    <3> QED BY <2>4, <3>1, <3>2, <3>3
  <2> QED BY <1>2, <2>5
<1> QED BY <1>2, <1>6

LEMMA CallsStep ==
  ASSUME RecInv, RecNext PROVE CallsSound'
<1> DEFINE Sound(r) == pc[r] # "idle" =>
      /\ pc[r] \notin {"ok", "refused"} => call[r].tries < MaxAttempts
      /\ call[r].next = "authorized" => call[r].hash = None
      /\ call[r].next = "submitted" => /\ call[r].hash \in Hashes
                                       /\ TxIntent[call[r].hash] = call[r].intent
      /\ pc[r] = "swap" => /\ call[r].seen.hash = None
                           /\ call[r].seen.status = IF call[r].next = "authorized"
                                                      THEN "awaiting_approval"
                                                      ELSE "authorized"
<1>0. SUFFICES ASSUME NEW r \in Requests PROVE Sound(r)'
  BY DEF CallsSound
<1> DEFINE c == call[r]
<1>1. /\ Sound(r)
      /\ pc \in [Requests -> PcStates] /\ call \in [Requests -> Call \union {NoCall}]
      /\ pc[r] # "idle" => c \in Call
  BY DEF RecInv, CallsSound, RecTypeOK, ApiTypeOK
<1>2. CASE pc'[r] = pc[r] /\ call'[r] = call[r]
  BY <1>1, <1>2
<1>3. CASE SaveAuthorization(r) \/ CheckAuthorization(r)
  BY <1>1, <1>3 DEF SaveAuthorization, CheckAuthorization, Refuse, Goto
<1>4. CASE Answer(r)
  BY <1>1, <1>4 DEF Answer, Goto
<1>5. CASE ReadSettlement(r)
  <2>1. pc[r] = "read" /\ c \in Call
    BY <1>1, <1>5 DEF ReadSettlement
  <2>2. CASE call' = call /\ pc'[r] \in {"ok", "refused"}
    BY <1>1, <2>1, <2>2
  <2>3. CASE /\ row[c.intent] # NoRow
             /\ CanTransition(row[c.intent].status, c.next)
             /\ call' = [call EXCEPT ![r].seen = row[c.intent]]
             /\ pc' = [pc EXCEPT ![r] = "swap"]
    <3>1. /\ c.intent \in Intents
          /\ c.next \in {"authorized", "submitted"}
      BY <2>1 DEF Call
    <3>2. row[c.intent].status \in Statuses
      BY <2>3, <3>1 DEF RecInv, RowsSound, RecTypeOK, ApiTypeOK, Row, RowStatuses
    <3>3. row[c.intent].status = IF c.next = "authorized" THEN "awaiting_approval"
                                                         ELSE "authorized"
      BY <2>3, <3>1, <3>2, Transitions
    <3>4. row[c.intent].hash = None
      BY <3>1, <3>3 DEF RecInv, RowsSound
    <3>5. /\ call'[r].seen = row[c.intent]
          /\ call'[r].next = c.next /\ call'[r].hash = c.hash
          /\ call'[r].intent = c.intent /\ call'[r].tries = c.tries
      BY <1>1, <2>1, <2>3 DEF Call
    <3> QED BY <1>1, <2>1, <2>3, <3>1, <3>3, <3>4, <3>5
  <2> QED BY <1>1, <1>5, <2>2, <2>3 DEF ReadSettlement, Refuse, Goto
<1>6. CASE SwapSettlement(r)
  <2>1. pc[r] = "swap" /\ c \in Call
    BY <1>1, <1>6 DEF SwapSettlement
  <2>2. CASE call' = call /\ pc'[r] \in {"ok", "refused"}
    BY <1>1, <2>1, <2>2
  <2>3. CASE /\ call' = [call EXCEPT ![r].tries = @ + 1]
             /\ pc' = [pc EXCEPT ![r] = IF c.tries + 1 = MaxAttempts THEN "refused" ELSE "read"]
    <3>1. /\ call'[r].tries = c.tries + 1 /\ c.tries \in Nat
          /\ call'[r].next = c.next /\ call'[r].hash = c.hash
          /\ call'[r].intent = c.intent
      BY <1>1, <2>1, <2>3 DEF Call
    <3> QED BY <1>1, <2>1, <2>3, <3>1
  <2> QED BY <1>1, <1>6, <2>2, <2>3 DEF SwapSettlement, Refuse, Goto
<1>7. ASSUME NEW h \in Hashes, Post(h, r) PROVE Sound(r)'
  <2>1. /\ pc'[r] \in {"saveAuthorization", "checkAuthorization", "read", "refused"}
        /\ call'[r].tries = 0
        /\ \/ call'[r].next = "authorized" /\ call'[r].hash = None
           \/ call'[r].next = "submitted" /\ call'[r].hash = h /\ call'[r].intent = TxIntent[h]
    BY <1>1, <1>7 DEF Post, ReceiveAuthorize, ReceiveSubmit, Goto
  <2> QED BY <2>1
<1>8. ASSUME NEW q \in Requests \ {r}, Serve(q) \/ \E h \in Hashes : Post(h, q)
      PROVE  pc'[r] = pc[r] /\ call'[r] = call[r]
  BY <1>1, <1>8 DEF Serve, SaveAuthorization, CheckAuthorization, ReadSettlement,
     SwapSettlement, Answer, Post, ReceiveAuthorize, ReceiveSubmit, Refuse, Goto
<1>9. CASE UNCHANGED <<pc, call>>
  BY <1>2, <1>9
<1>10. CASE ApiStep
  <2>1. CASE \E i \in Intents : Publish(i)
    BY <1>9, <2>1 DEF Publish
  <2>2. ASSUME NEW q \in Requests, Serve(q) PROVE Sound(r)'
    BY <1>2, <1>3, <1>4, <1>5, <1>6, <1>8, <2>2 DEF Serve
  <2> QED BY <1>10, <2>1, <2>2 DEF ApiStep
<1>11. ASSUME NEW h \in Hashes, PhoneStep(h) PROVE Sound(r)'
  <2>1. ASSUME NEW q \in Requests, Post(h, q) PROVE Sound(r)'
    BY <1>2, <1>7, <1>8, <2>1
  <2>2. CASE Sign(h) \/ Send(h) \/ Finish(h) \/ Conclude(h)
    BY <1>9, <2>2 DEF Sign, Send, Finish, Conclude, apiVars
  <2> QED BY <1>11, <2>1, <2>2 DEF PhoneStep
<1>12. CASE ChainStep
  BY <1>9, <1>12 DEF ChainStep, CloseLedger, Include, Drop, apiVars
<1>13. ASSUME NEW w \in Workers, WorkerStep(w) \/ Throw(w) PROVE Sound(r)'
  BY <1>9, <1>13, WorkerFrame
<1> QED BY <1>10, <1>11, <1>12, <1>13 DEF RecNext

\* A phone's request stays published, and only a phone puts a transaction there.
LEMMA PhonesStep ==
  ASSUME RecInv, RecNext, RowsAdvance PROVE PhonesSound'
<1>0. SUFFICES ASSUME NEW h \in Hashes
               PROVE  /\ phone'[h] \in {"idle", "authorized"} => chain'[h].state = "unsent"
                      /\ phone'[h] # "idle" => row'[TxIntent[h]].status # "none"
  BY DEF PhonesSound
<1>1. /\ phone[h] \in {"idle", "authorized"} => chain[h].state = "unsent"
      /\ phone[h] # "idle" => row[TxIntent[h]].status # "none"
      /\ TxIntent[h] \in Intents
      /\ phone \in [Hashes -> {"idle", "authorized", "sent", "over"}]
      /\ chain \in [Hashes -> Tx]
  BY DEF RecInv, PhonesSound, RecTypeOK
<1>2. row[TxIntent[h]].status # "none" => row'[TxIntent[h]].status # "none"
  BY <1>1 DEF RowsAdvance
<1>3. CASE UNCHANGED <<phone, chain>>
  BY <1>1, <1>2, <1>3
<1>4. ASSUME NEW g \in Hashes, Sign(g) \/ Finish(g) \/ Send(g)
      PROVE  /\ phone'[h] \in {"idle", "authorized"} => chain'[h].state = "unsent"
             /\ phone'[h] # "idle" => row[TxIntent[h]].status # "none"
  <2>1. CASE Sign(g)
    <3>1. row[TxIntent[g]].status # "none"
      BY <2>1 DEF Sign, RecInv, RowsSound
    <3> QED BY <1>1, <2>1, <3>1 DEF Sign, chainVars
  <2>2. CASE Finish(g)
    BY <1>1, <2>2 DEF Finish, chainVars
  <2>3. CASE Send(g)
    BY <1>1, <2>3 DEF Send
  <2> QED BY <1>4, <2>1, <2>2, <2>3
<1>5. ASSUME NEW g \in Hashes, Include(g) \/ Drop(g)
      PROVE  phone' = phone /\ (chain'[h].state = "unsent" <=> chain[h].state = "unsent")
  <2>1. phone' = phone /\ chain[g].state = "pending"
    BY <1>5 DEF Include, Drop, phoneVars
  <2>2. chain'[g].state \in {"success", "failed", "dropped"} /\ chain' = [chain EXCEPT ![g] = chain'[g]]
    <3>1. CASE Include(g)
      BY <1>1, <3>1 DEF Include
    <3>2. CASE Drop(g)
      <4>1. chain[g] \in Tx
        BY <1>1
      <4> QED BY <1>1, <3>2, <4>1 DEF Drop, Tx
    <3> QED BY <1>5, <3>1, <3>2
  <2> QED BY <1>1, <2>1, <2>2
<1>6. CASE ApiStep
  BY <1>3, <1>6 DEF ApiStep, phoneVars, chainVars
<1>7. ASSUME NEW g \in Hashes, PhoneStep(g)
      PROVE  Sign(g) \/ Finish(g) \/ Send(g) \/ UNCHANGED <<phone, chain>>
  BY <1>7 DEF PhoneStep, Conclude, Post, chainVars
<1>8. CASE ChainStep
  BY <1>1, <1>2, <1>3, <1>5, <1>8 DEF ChainStep, CloseLedger, phoneVars
<1>9. ASSUME NEW w \in Workers, WorkerStep(w) \/ Throw(w) PROVE UNCHANGED <<phone, chain>>
  BY <1>9, WorkerFrame DEF phoneVars, chainVars
<1> QED BY <1>2, <1>3, <1>4, <1>6, <1>7, <1>8, <1>9 DEF RecNext

\* Every event the worker can read stands for an executed transaction.
LEMMA EventsStep ==
  ASSUME RecInv, RecNext, RecTypeOK', ChainAdvances PROVE EventsSound'
<1>0. events \in Seq(Hashes) /\ \A n \in 1 .. Len(events) : events[n] \in Executed
  BY DEF RecInv, EventsSound, RecTypeOK
<1>1. Executed \subseteq Executed'
  BY DEF ChainAdvances, Executed
<1>2. CASE UNCHANGED events
  BY <1>0, <1>1, <1>2 DEF EventsSound
<1>3. ASSUME NEW h \in Hashes, Include(h), events' = Append(events, h) PROVE EventsSound'
  <2>1. h \in Executed'
    BY <1>0, <1>3 DEF Include, Executed, RecInv, RecTypeOK
  <2> QED BY <1>0, <1>1, <1>3, <2>1 DEF EventsSound
<1>4. CASE ChainStep
  BY <1>2, <1>3, <1>4 DEF ChainStep, CloseLedger, Include, Drop
<1>5. CASE ApiStep
  BY <1>2, <1>5 DEF ApiStep, chainVars
<1>6. ASSUME NEW h \in Hashes, PhoneStep(h) PROVE UNCHANGED events
  BY <1>6 DEF PhoneStep, Sign, Send, Finish, Conclude, Post, chainVars
<1>7. ASSUME NEW w \in Workers, WorkerStep(w) \/ Throw(w) PROVE UNCHANGED events
  BY <1>7, WorkerFrame DEF chainVars
<1> QED BY <1>2, <1>4, <1>5, <1>6, <1>7 DEF RecNext

-----------------------------------------------------------------------------
(* The workers' part of the invariant.                                     *)

\* Steps of others leave what a worker holds sound: what it relies on only grows.
LEMMA WorkerUndisturbed ==
  ASSUME RecInv, RecTypeOK', ChainAdvances, RowsAdvance,
         NEW w \in Workers, wpc'[w] = wpc[w], job'[w] = job[w]
  PROVE  WorkerSound(w)'
<1>1. WorkerSound(w) /\ job[w] \in Job /\ ledger \in Nat /\ ledger' \in Nat
  BY DEF RecInv, WorkersSound, RecTypeOK
<1>2. ledger <= ledger' /\ job[w].latest \in Nat
  BY <1>1 DEF ChainAdvances, Job
<1>3. PhaseSound(w)' /\ job'[w].latest < ledger'
  BY <1>1, <1>2 DEF WorkerSound, PhaseSound
<1>4. TodoSound(w)'
  <2>1. \A t \in job[w].todo : t.intent \in Intents /\ Expiry[t.intent] \in Nat
    BY <1>1 DEF Job, Entry
  <2> QED BY <1>1, <1>2, <2>1 DEF WorkerSound, TodoSound, RowsAdvance
<1>5. CASE wpc[w] \in {"readRow", "writeRow"}
  <2> DEFINE item == job[w].item
  <2>1. item \in Decision /\ item.intent \in Intents /\ Expiry[item.intent] \in Nat
    BY <1>1, <1>5 DEF WorkerSound, ItemSound, Job, Decision
  <2>2. ItemSound(w)
    BY <1>1 DEF WorkerSound
  <2>3. item.kind = "confirm" => PaidBy(item.intent, item.hash, item.ledger)
    BY <1>5, <2>2 DEF ItemSound
  <2>4. item.kind = "confirm" =>
          /\ item.hash \in Executed' /\ TxIntent[item.hash] = item.intent
          /\ item.ledger = chain'[item.hash].ledger
    BY <2>1, <2>3, PaidStays DEF RecInv
  <2>5. item.kind = "expire" => Expiry[item.intent] < ledger'
    BY <1>1, <1>2, <1>5, <2>1, <2>2 DEF ItemSound
  <2>6. row'[item.intent].status # "none"
    BY <1>5, <2>1, <2>2 DEF ItemSound, RowsAdvance
  <2>7. ItemSound(w)'
    BY <1>5, <2>2, <2>4, <2>5, <2>6 DEF ItemSound, PaidBy
  <2>8. SeenSound(w)'
    <3>1. SeenSound(w)
      BY <1>1 DEF WorkerSound
    <3> QED BY <2>1, <3>1 DEF SeenSound, RowsAdvance
  <2> QED BY <1>3, <1>4, <2>7, <2>8 DEF WorkerSound
<1>6. CASE wpc[w] \notin {"readRow", "writeRow"}
  BY <1>3, <1>4, <1>6 DEF WorkerSound, ItemSound, SeenSound
<1> QED BY <1>5, <1>6

\* A list read from the rows names published requests and their own attempts.
LEMMA ListsSound ==
  ASSUME RecInv
  PROVE  /\ \A t \in SubmittedRows : /\ row[t.intent].status # "none"
                                    /\ t.hash \in Hashes /\ TxIntent[t.hash] = t.intent
         /\ \A latest \in Nat : \A t \in StaleRows(latest) :
               row[t.intent].status # "none" /\ Expiry[t.intent] <= latest
<1>1. \A i \in Intents : row[i].hash # None => row[i].hash \in Hashes /\ TxIntent[row[i].hash] = i
  BY DEF RecInv, RowsSound, RecTypeOK, ApiTypeOK, Row
<1> QED BY <1>1 DEF SubmittedRows, StaleRows

\* The steps in which a worker fills a list, moves to the next phase or throws.
LEMMA WorkerLists ==
  ASSUME RecInv, RecTypeOK', NEW w \in Workers,
         \/ BeginCycle(w) \/ ReceiptsDone(w) \/ ReadHealth(w) \/ ListExpired(w)
         \/ ExpiringDone(w) \/ LoadCursor(w) \/ FetchPage(w) \/ ListKnown(w)
         \/ EventsDone(w) \/ SaveCursor(w) \/ Throw(w)
  PROVE  WorkerSound(w)'
<1>1. /\ WorkerSound(w) /\ job[w] \in Job /\ ledger \in Nat \ {0}
      /\ job \in [Workers -> Job] /\ wpc \in [Workers -> WpcStates]
  BY DEF RecInv, WorkersSound, RecTypeOK
<1>2. UNCHANGED <<row, chain, ledger, events>>
  BY WorkerFrame DEF WorkerStep, chainVars, WriteRow, At, BeginCycle, ReceiptsDone,
     ReadHealth, ListExpired, ExpiringDone, LoadCursor, FetchPage, ListKnown,
     EventsDone, SaveCursor, Throw, notWorker, apiVars
<1>3. ASSUME wpc'[w] \notin {"readRow", "writeRow"},
             job'[w].latest < ledger, PhaseSound(w)', TodoSound(w)'
      PROVE  WorkerSound(w)'
  BY <1>2, <1>3 DEF WorkerSound, ItemSound, SeenSound
<1>4. CASE BeginCycle(w)
  <2>1. /\ wpc'[w] = "receipts" /\ job'[w].todo = SubmittedRows
        /\ job'[w].phase = "receipts" /\ job'[w].latest = 0
    BY <1>1, <1>4 DEF BeginCycle, At, EmptyJob
  <2> QED BY <1>1, <1>2, <1>3, <2>1, ListsSound DEF PhaseSound, TodoSound
<1>5. CASE ReceiptsDone(w)
  <2>1. wpc[w] = "receipts" /\ wpc'[w] = "health" /\ job' = job /\ job[w].todo = {}
    BY <1>1, <1>5 DEF ReceiptsDone, At
  <2> QED BY <1>1, <1>2, <1>3, <2>1 DEF WorkerSound, PhaseSound, TodoSound
<1>6. CASE ReadHealth(w)
  <2>1. /\ wpc[w] = "health" /\ wpc'[w] = "listExpired" /\ job'[w].todo = job[w].todo
        /\ job'[w].phase = "expiring" /\ job'[w].latest = ledger - 1
    BY <1>1, <1>6 DEF ReadHealth, At, Job
  <2> QED BY <1>1, <1>2, <1>3, <2>1 DEF WorkerSound, PhaseSound, TodoSound
<1>7. CASE ListExpired(w)
  <2>1. /\ wpc[w] = "listExpired" /\ wpc'[w] = "expiring"
        /\ job'[w].todo = StaleRows(job[w].latest)
        /\ job'[w].phase = job[w].phase /\ job'[w].latest = job[w].latest
    BY <1>1, <1>7 DEF ListExpired, At, Job
  <2>2. job[w].phase = "expiring" /\ job[w].latest < ledger /\ job[w].latest \in Nat
    BY <1>1, <2>1 DEF WorkerSound, PhaseSound, Job
  <2>3. \A t \in StaleRows(job[w].latest) :
          row[t.intent].status # "none" /\ Expiry[t.intent] < ledger
    <3>1. \A t \in StaleRows(job[w].latest) : Expiry[t.intent] \in Nat
      BY DEF StaleRows
    <3> QED BY <1>1, <2>2, <3>1, ListsSound
  <2> QED BY <1>1, <1>2, <1>3, <2>1, <2>2, <2>3 DEF PhaseSound, TodoSound
<1>8. CASE ExpiringDone(w)
  <2>1. /\ wpc'[w] \in {"idle", "loadCursor"} /\ job'[w].todo = {}
        /\ job'[w].phase = "events" /\ job'[w].latest = 0
    BY <1>1, <1>8 DEF ExpiringDone, At, EmptyJob
  <2> QED BY <1>1, <1>2, <1>3, <2>1 DEF PhaseSound, TodoSound
<1>9. CASE LoadCursor(w) \/ FetchPage(w) \/ EventsDone(w)
  <2>1. /\ wpc[w] \in {"loadCursor", "fetchPage", "events"}
        /\ wpc'[w] \in {"fetchPage", "listKnown", "saveCursor"}
        /\ job'[w].todo = job[w].todo
        /\ job'[w].phase = job[w].phase /\ job'[w].latest = job[w].latest
    BY <1>1, <1>9 DEF LoadCursor, FetchPage, EventsDone, At, Job
  <2>2. job[w].phase = "events" /\ job[w].latest < ledger
    BY <1>1, <2>1 DEF WorkerSound, PhaseSound
  <2> QED BY <1>1, <1>2, <1>3, <2>1, <2>2 DEF WorkerSound, PhaseSound, TodoSound
<1>10. CASE ListKnown(w)
  <2>1. /\ wpc[w] = "listKnown" /\ wpc'[w] = "events" /\ job'[w].todo = SubmittedRows
        /\ job'[w].phase = job[w].phase /\ job'[w].latest = job[w].latest
    BY <1>1, <1>10 DEF ListKnown, At, Job
  <2>2. job[w].phase = "events" /\ job[w].latest < ledger
    BY <1>1, <2>1 DEF WorkerSound, PhaseSound
  <2> QED BY <1>1, <1>2, <1>3, <2>1, <2>2, ListsSound DEF PhaseSound, TodoSound
<1>11. CASE SaveCursor(w) \/ Throw(w)
  <2>1. wpc'[w] = "idle" /\ job'[w].todo = {} /\ job'[w].latest = 0
    BY <1>1, <1>11 DEF SaveCursor, Throw, EndCycle, At, EmptyJob
  <2> QED BY <1>1, <1>2, <1>3, <2>1 DEF PhaseSound, TodoSound
<1> QED BY <1>4, <1>5, <1>6, <1>7, <1>8, <1>9, <1>10, <1>11

\* The steps in which a worker takes an entry off its list and decides about it.
LEMMA WorkerDecides ==
  ASSUME RecInv, RecTypeOK', NEW w \in Workers,
         PickExpired(w) \/ CheckReceipt(w) \/ CheckEvent(w)
  PROVE  WorkerSound(w)'
<1>1. /\ WorkerSound(w) /\ job[w] \in Job /\ ledger \in Nat
      /\ job \in [Workers -> Job] /\ wpc \in [Workers -> WpcStates]
  BY DEF RecInv, WorkersSound, RecTypeOK
<1>2. UNCHANGED <<row, chain, ledger>>
  BY DEF PickExpired, CheckReceipt, CheckEvent, notWorker, apiVars, chainVars
<1>3. /\ job[w].todo \subseteq Entry /\ job[w].latest < ledger
      /\ TodoSound(w) /\ wpc[w] \in {"expiring", "receipts", "events"}
      /\ job[w].phase = wpc[w]
  BY <1>1 DEF Job, WorkerSound, PhaseSound, PickExpired, CheckReceipt, CheckEvent, At
\* Something is taken off a list, and nothing more happens ...
<1>4. ASSUME NEW rest \in Job, rest.todo \subseteq job[w].todo,
             rest.phase = job[w].phase, rest.latest = job[w].latest,
             job' = [job EXCEPT ![w] = rest], wpc' = wpc
      PROVE  WorkerSound(w)'
  <2>1. job'[w] = rest /\ wpc'[w] = wpc[w]
    BY <1>1, <1>4
  <2> QED BY <1>1, <1>2, <1>3, <1>4, <2>1
          DEF WorkerSound, PhaseSound, TodoSound, ItemSound, SeenSound
\* ... or an entry becomes the decision the row is re-read for.
<1>5. ASSUME NEW rest \in Job, rest.todo \subseteq job[w].todo,
             rest.phase = job[w].phase, rest.latest = job[w].latest,
             NEW d \in Decision, Rule(w, rest, d),
             row[d.intent].status # "none",
             d.kind = "confirm" => PaidBy(d.intent, d.hash, d.ledger),
             d.kind = "expire" => Expiry[d.intent] < ledger
      PROVE  WorkerSound(w)'
  <2>1. /\ job'[w].todo = rest.todo /\ wpc'[w] = "readRow"
        /\ job'[w].phase = job[w].phase /\ job'[w].latest = job[w].latest
        /\ job'[w].item = d
    BY <1>1, <1>5 DEF Job, Rule
  <2>2. d # NoItem
    BY <1>5 DEF Decision, NoItem
  <2>3. TodoSound(w)' /\ PhaseSound(w)' /\ SeenSound(w)'
    BY <1>2, <1>3, <1>5, <2>1 DEF PhaseSound, TodoSound, SeenSound
  <2>4. ItemSound(w)'
    BY <1>2, <1>5, <2>1, <2>2 DEF ItemSound, PaidBy, Executed
  <2> QED BY <1>2, <1>3, <2>1, <2>3, <2>4 DEF WorkerSound
<1>6. CASE PickExpired(w)
  <2>1. PICK t \in job[w].todo :
          job' = [job EXCEPT ![w].todo = @ \ {t},
                             ![w].item = [kind |-> "expire", intent |-> t.intent,
                                          hash |-> None, ledger |-> 0]]
    BY <1>6 DEF PickExpired
  <2>2. wpc' = [wpc EXCEPT ![w] = "readRow"] /\ wpc[w] = "expiring"
    BY <1>6 DEF PickExpired, At
  <2> DEFINE d == [kind |-> "expire", intent |-> t.intent, hash |-> None, ledger |-> 0]
             rest == [job[w] EXCEPT !.todo = @ \ {t}]
  <2>3. row[t.intent].status # "none" /\ Expiry[t.intent] < ledger
    BY <1>3, <2>2 DEF TodoSound
  <2>4. d \in Decision
    BY <1>3 DEF Entry, Decision
  <2>5. /\ rest \in Job /\ rest.todo \subseteq job[w].todo
        /\ rest.phase = job[w].phase /\ rest.latest = job[w].latest
    BY <1>1 DEF Job
  <2>6. [job[w] EXCEPT !.todo = @ \ {t}, !.item = d] = [rest EXCEPT !.item = d]
    BY <1>1 DEF Job
  <2>7. job' = [job EXCEPT ![w] = [job[w] EXCEPT !.todo = @ \ {t}, !.item = d]]
    BY <1>1, <2>1
  <2>8. Rule(w, rest, d)
    BY <2>2, <2>6, <2>7 DEF Rule
  <2>9. d.intent = t.intent /\ d.kind = "expire"
    OBVIOUS
  <2> HIDE DEF d, rest
  <2> QED BY <1>5, <2>3, <2>4, <2>5, <2>8, <2>9
<1>7. CASE CheckReceipt(w) \/ CheckEvent(w)
  <2>1. wpc[w] # "expiring"
    BY <1>7 DEF CheckReceipt, CheckEvent
  <2>2. PICK rest \in Job : Checked(w, rest)
    BY <1>7, WorkerChecks DEF RecInv
  <2>3. /\ rest.todo \subseteq job[w].todo
        /\ rest.phase = job[w].phase /\ rest.latest = job[w].latest
    BY <2>2 DEF Checked
  <2>4. CASE job' = [job EXCEPT ![w] = rest] /\ wpc' = wpc
    BY <1>4, <2>3, <2>4
  <2>5. ASSUME NEW t \in job[w].todo, NEW answer \in Answers,
               answer = "SUCCESS" => Receipt(t.hash) = "SUCCESS",
               Rule(w, rest, Verdict(t, answer))
        PROVE  WorkerSound(w)'
    <3> DEFINE d == Verdict(t, answer)
    <3>1. /\ t \in Entry /\ t.hash \in Hashes /\ TxIntent[t.hash] = t.intent
          /\ row[t.intent].status # "none"
      BY <1>3, <2>1 DEF TodoSound
    <3>2. d \in Decision
      BY <3>1, VerdictType DEF RecInv
    <3>3. d.intent = t.intent /\ d.kind \in {"confirm", "fail"}
      BY <3>1 DEF Verdict
    <3>4. answer = "SUCCESS" => t.hash \in Executed
      BY <2>5, <3>1 DEF Receipt, Executed
    <3>5. d.kind = "confirm" => PaidBy(d.intent, d.hash, d.ledger)
      BY <3>1, <3>4 DEF Verdict, PaidBy
    <3> HIDE DEF d
    <3> QED BY <1>5, <2>3, <2>5, <3>1, <3>2, <3>3, <3>5 DEF d
  <2> QED BY <2>2, <2>4, <2>5 DEF Checked
<1> QED BY <1>6, <1>7

\* The steps in which a worker re-reads the row and writes it.
LEMMA WorkerWrites ==
  ASSUME RecInv, RecTypeOK', RowsAdvance, NEW w \in Workers, ReadRow(w) \/ WriteRow(w)
  PROVE  WorkerSound(w)'
<1> DEFINE item == job[w].item
           current == row[item.intent]
<1>1. /\ WorkerSound(w) /\ job[w] \in Job /\ ledger \in Nat \ {0}
      /\ job \in [Workers -> Job] /\ wpc \in [Workers -> WpcStates]
      /\ wpc[w] \in {"readRow", "writeRow"}
  BY DEF RecInv, WorkersSound, RecTypeOK, ReadRow, WriteRow
<1>2. UNCHANGED <<chain, ledger>>
  BY DEF ReadRow, WriteRow, notWorker, chainVars
<1>3. /\ item \in Decision /\ item.intent \in Intents
      /\ job[w].latest < ledger /\ job[w].latest \in Nat
      /\ job[w].phase \in {"receipts", "expiring", "events"}
      /\ \A t \in job[w].todo : t.intent \in Intents
  BY <1>1 DEF WorkerSound, ItemSound, Job, Decision, Entry
<1>4. CASE EndCycle(w)
  <2>1. wpc'[w] = "idle" /\ job'[w].todo = {} /\ job'[w].latest = 0
    BY <1>1, <1>4 DEF EndCycle, EmptyJob
  <2> QED BY <1>1, <1>2, <2>1 DEF WorkerSound, PhaseSound, TodoSound, ItemSound, SeenSound
<1>5. CASE NextItem(w)
  <2>1. /\ wpc'[w] = job[w].phase /\ job'[w].todo = job[w].todo
        /\ job'[w].phase = job[w].phase /\ job'[w].latest = job[w].latest
    BY <1>1, <1>5 DEF NextItem, Job
  <2>2. TodoSound(w)'
    BY <1>1, <1>2, <1>3, <2>1 DEF WorkerSound, TodoSound, RowsAdvance
  <2>3. PhaseSound(w)' /\ ItemSound(w)' /\ SeenSound(w)'
    BY <1>3, <2>1 DEF PhaseSound, ItemSound, SeenSound
  <2> QED BY <1>2, <1>3, <2>1, <2>2, <2>3 DEF WorkerSound
<1>6. CASE /\ ReadRow(w)
           /\ ~Contradicts(item, current)
           /\ CanTransition(current.status, TargetStatus(item))
           /\ wpc' = [wpc EXCEPT ![w] = "writeRow"]
           /\ job' = [job EXCEPT ![w].seen = current]
  <2>1. /\ wpc'[w] = "writeRow" /\ job'[w].todo = job[w].todo /\ job'[w].item = item
        /\ job'[w].phase = job[w].phase /\ job'[w].latest = job[w].latest
        /\ job'[w].seen = current /\ row' = row
    BY <1>1, <1>6 DEF Job, ReadRow, notWorker, apiVars
  <2>2. TodoSound(w)' /\ PhaseSound(w)'
    BY <1>1, <1>2, <2>1 DEF WorkerSound, TodoSound, PhaseSound
  <2>3. ItemSound(w)
    BY <1>1 DEF WorkerSound
  <2>4. ItemSound(w)'
    BY <1>1, <1>2, <2>1, <2>3 DEF ItemSound, PaidBy, Executed
  <2>5. current.status \in Statuses
    BY <1>1, <1>3, <2>3 DEF ItemSound, RecInv, RecTypeOK, ApiTypeOK, Row, RowStatuses
  <2>6. item.kind = "confirm" => current.hash = item.hash
    <3>1. SUFFICES ASSUME item.kind = "confirm" PROVE current.hash = item.hash
      OBVIOUS
    <3>2. TargetStatus(item) = "confirmed"
      BY <3>1 DEF TargetStatus
    <3>3. current.status = "submitted"
      BY <1>6, <2>5, <3>2, Transitions
    <3>4. current.hash # None
      BY <1>3, <3>3 DEF RecInv, RowsSound
    <3> QED BY <1>6, <3>1, <3>4 DEF Contradicts
  <2>7. SeenSound(w)'
    BY <1>6, <2>1, <2>5, <2>6 DEF SeenSound
  <2> QED BY <1>2, <1>3, <2>1, <2>2, <2>4, <2>7 DEF WorkerSound
<1>7. CASE ReadRow(w)
  BY <1>4, <1>5, <1>6, <1>7 DEF ReadRow
<1>8. CASE WriteRow(w)
  BY <1>4, <1>5, <1>8 DEF WriteRow
<1> QED BY <1>7, <1>8

LEMMA WorkersStep ==
  ASSUME RecInv, RecNext, RecTypeOK', ChainAdvances, RowsAdvance PROVE WorkersSound'
<1>0. SUFFICES ASSUME NEW v \in Workers PROVE WorkerSound(v)'
  BY DEF WorkersSound
<1>1. job \in [Workers -> Job] /\ wpc \in [Workers -> WpcStates]
  BY DEF RecInv, RecTypeOK
<1>2. CASE wpc'[v] = wpc[v] /\ job'[v] = job[v]
  BY <1>2, WorkerUndisturbed
<1>3. CASE WorkerStep(v) \/ Throw(v)
  BY <1>3, WorkerLists, WorkerDecides, WorkerWrites DEF WorkerStep
<1>4. ASSUME NEW w \in Workers, w # v, WorkerStep(w) \/ Throw(w)
      PROVE  wpc'[v] = wpc[v] /\ job'[v] = job[v]
  <2>1. job'[v] = job[v]
    BY <1>1, <1>4, JobTypes DEF RecInv
  <2>2. wpc'[v] = wpc[v]
    BY <1>1, <1>4 DEF WorkerStep, Throw, At, NextItem, EndCycle, BeginCycle, CheckReceipt,
       ReceiptsDone, ReadHealth, ListExpired, PickExpired, ExpiringDone, LoadCursor,
       FetchPage, ListKnown, CheckEvent, AskReceipt, Rule, EventsDone, SaveCursor, ReadRow, WriteRow
  <2> QED BY <2>1, <2>2
<1>5. CASE ApiStep
  BY <1>2, <1>5 DEF ApiStep, workerVars
<1>6. ASSUME NEW h \in Hashes, PhoneStep(h) PROVE UNCHANGED <<wpc, job>>
  BY <1>6 DEF PhoneStep, Sign, Send, Finish, Conclude, Post, workerVars
<1>7. CASE ChainStep
  BY <1>2, <1>7 DEF ChainStep, CloseLedger, Include, Drop, workerVars
<1> QED BY <1>2, <1>3, <1>4, <1>5, <1>6, <1>7 DEF RecNext

-----------------------------------------------------------------------------
(* The theorems.                                                           *)

\* The invariant holds before anything has happened.
LEMMA InitInv == ASSUME RecInit PROVE RecInv
<1> USE DEF RecInit, ApiInit
<1>1. RecTypeOK
  <2>1. ApiTypeOK
    BY DEF ApiTypeOK, NoRow, Row, RowStatuses, PcStates
  <2>2. job \in [Workers -> Job]
    BY EmptyJobType
  <2> QED BY <2>1, <2>2 DEF RecTypeOK, Tx, WpcStates
<1>2. RowsSound
  BY DEF RowsSound, NoRow
<1>3. CallsSound /\ PhonesSound
  BY DEF CallsSound, PhonesSound
<1>4. EventsSound
  BY DEF EventsSound
<1>5. WorkersSound
  BY DEF WorkersSound, WorkerSound, PhaseSound, TodoSound, ItemSound, SeenSound, EmptyJob
<1> QED BY <1>1, <1>2, <1>3, <1>4, <1>5 DEF RecInv

\* Every step of the system keeps the invariant.
LEMMA NextInv == ASSUME RecInv, [RecNext]_recVars PROVE RecInv'
<1>1. CASE RecNext
  BY <1>1, TypeStep, ChainStepAdvances, RowStepAdvances, RowsStep, CallsStep,
     PhonesStep, EventsStep, WorkersStep DEF RecInv
<1>2. CASE UNCHANGED recVars
  <2> USE <1>2 DEF recVars, apiVars, phoneVars, chainVars, workerVars
  <2>1. RecTypeOK' /\ ChainAdvances /\ RowsAdvance
    BY DEF RecInv, RecTypeOK, ApiTypeOK, ChainAdvances, RowsAdvance
  <2>2. RowsSound'
    BY DEF RecInv, RowsSound, PaidBy, Executed
  <2>3. CallsSound' /\ PhonesSound' /\ EventsSound'
    BY DEF RecInv, CallsSound, PhonesSound, EventsSound, Executed
  <2>4. WorkersSound'
    BY <2>1, WorkerUndisturbed DEF WorkersSound
  <2> QED BY <2>1, <2>2, <2>3, <2>4 DEF RecInv
<1> QED BY <1>1, <1>2

\* RecInv holds in every reachable state, for any number of requests in flight,
\* phones, payment attempts and workers: whatever order their steps come in, the
\* books agree with the chain.
THEOREM InvariantHolds == RecSpec => []RecInv
BY InitInv, NextInv, PTL DEF RecSpec

\* The variables of the API, the phones, the chain and the workers keep their types.
THEOREM TypesHold == RecSpec => []RecTypeOK
<1>1. RecInv => RecTypeOK
  BY DEF RecInv
<1> QED BY <1>1, InvariantHolds, PTL

\* Only a transaction the chain executed confirms a payment, and only its own
\* (confirmSubmittedSettlements and PostgresSettlementState.confirm).
THEOREM ConfirmedHolds == RecSpec => []ConfirmedMeansPaid
<1>1. RecInv => ConfirmedMeansPaid
  BY DEF RecInv, RowsSound, PaidBy, ConfirmedMeansPaid
<1> QED BY <1>1, InvariantHolds, PTL

\* No request is closed as expired before its ledger (listExpiredSettlements).
THEOREM ExpiryHolds == RecSpec => []ExpiredOnlyAfterDeadline
<1>1. RecInv => ExpiredOnlyAfterDeadline
  BY DEF RecInv, RowsSound, ExpiredOnlyAfterDeadline
<1> QED BY <1>1, InvariantHolds, PTL

-----------------------------------------------------------------------------
(* The bound on the rounds of a call.                                      *)

\* Statuses from which the table leads on to the one a call asks for.
Before(next) == {"none", "created", "awaiting_approval"}
                  \union (IF next = "submitted" THEN {"authorized"} ELSE {})

\* Statuses no row is in once a call that asks for next has found the one before it.
WellBefore(next) == {"none", "created"}
                      \union (IF next = "submitted" THEN {"awaiting_approval"} ELSE {})

\* A call that lost one race finds the row past the point where it could lose
\* another: only the status it had read leads to the one it asks for.
RoundSound(r) == pc[r] # "idle" =>
  LET s == row[call[r].intent].status IN
  /\ call[r].tries <= 1
  /\ pc[r] \in {"saveAuthorization", "checkAuthorization", "swap"} => call[r].tries = 0
  /\ pc[r] = "swap" => s \notin WellBefore(call[r].next)
  /\ call[r].tries = 1 => s \notin Before(call[r].next)

RoundsSound == \A r \in Requests : RoundSound(r)

\* Where a row can go in one step; nothing leads back.
LEMMA StatusSteps ==
  ASSUME RecInv, RecNext, NEW i \in Intents
  PROVE  \/ row'[i].status = row[i].status
         \/ row[i].status = "none" /\ row'[i].status = "awaiting_approval"
         \/ row[i].status = "awaiting_approval" /\ row'[i].status = "authorized"
         \/ row'[i].status \in {"submitted", "confirmed", "failed", "expired"}
<1>0. row \in [Intents -> Row]
  BY DEF RecInv, RecTypeOK, ApiTypeOK
<1>1. CASE row' = row
  BY <1>1
<1>2. ASSUME NEW j \in Intents, Publish(j), row'[i] # row[i]
      PROVE  row[i].status = "none" /\ row'[i].status = "awaiting_approval"
  BY <1>0, <1>2 DEF Publish, NoRow, PublishedRow
<1>3. ASSUME NEW r \in Requests, SwapSettlement(r), row' # row, row'[i] # row[i]
      PROVE  \/ row[i].status = "awaiting_approval" /\ row'[i].status = "authorized"
             \/ row'[i].status = "submitted"
  <2>1. PICK j \in Intents, s \in {"authorized", "submitted"} :
          j = call[r].intent /\ s = call[r].next
    BY <1>3, SwapRow DEF Call
  <2>2. /\ row[j].status = IF s = "authorized" THEN "awaiting_approval" ELSE "authorized"
        /\ row' = [row EXCEPT ![j] = [status |-> s, hash |-> call[r].hash,
                                      ledger |-> call[r].seen.ledger]]
    BY <1>3, <2>1, SwapRow
  <2>3. i = j /\ row'[i].status = s
    BY <1>0, <1>3, <2>2
  <2> QED BY <2>1, <2>2, <2>3
<1>4. ASSUME NEW w \in Workers, WriteRow(w), row' # row, row'[i] # row[i]
      PROVE  row'[i].status \in {"confirmed", "failed", "expired"}
  <2>1. PICK j \in Intents : j = job[w].item.intent
    BY <1>4, WrittenRow DEF Decision
  <2>2. /\ row' = [row EXCEPT ![j] = Closed(job[w].item, row[j])]
        /\ row'[j].status = TargetStatus(job[w].item)
    BY <1>4, <2>1, WrittenRow
  <2>3. i = j
    BY <1>0, <1>4, <2>2
  <2>4. TargetStatus(job[w].item) \in {"confirmed", "failed", "expired"}
    BY DEF TargetStatus
  <2> QED BY <2>2, <2>3, <2>4
<1> QED BY <1>1, <1>2, <1>3, <1>4, RowWriters

\* A call whose slot does not move keeps its bound, whatever happens to its row.
LEMMA RoundKept ==
  ASSUME RecInv, RecNext, NEW r \in Requests, RoundSound(r),
         pc'[r] = pc[r], call'[r] = call[r]
  PROVE  RoundSound(r)'
<1>1. SUFFICES ASSUME pc[r] # "idle" PROVE RoundSound(r)'
  BY DEF RoundSound
<1>2. PICK i \in Intents, next \in {"authorized", "submitted"} :
        i = call[r].intent /\ next = call[r].next
  BY <1>1 DEF RecInv, RecTypeOK, ApiTypeOK, Call
<1>3. /\ row[i].status \notin WellBefore(next) => row'[i].status \notin WellBefore(next)
      /\ row[i].status \notin Before(next) => row'[i].status \notin Before(next)
  BY StatusSteps DEF WellBefore, Before
<1> QED BY <1>1, <1>2, <1>3 DEF RoundSound

\* The read: it goes on to a swap only on its first round.
LEMMA ReadRound ==
  ASSUME RecInv, NEW r \in Requests, RoundSound(r), ReadSettlement(r)
  PROVE  RoundSound(r)'
<1>1. /\ pc[r] = "read" /\ call[r] \in Call /\ row' = row
      /\ pc \in [Requests -> PcStates] /\ call \in [Requests -> Call \union {NoCall}]
  BY DEF ReadSettlement, Refuse, Goto, RecInv, RecTypeOK, ApiTypeOK
<1>2. CASE call' = call /\ pc'[r] \in {"ok", "refused"}
  BY <1>1, <1>2 DEF RoundSound
<1>3. CASE /\ row[call[r].intent] # NoRow
           /\ CanTransition(row[call[r].intent].status, call[r].next)
           /\ call' = [call EXCEPT ![r].seen = row[call[r].intent]]
           /\ pc' = [pc EXCEPT ![r] = "swap"]
  <2>1. PICK i \in Intents, next \in {"authorized", "submitted"} :
          i = call[r].intent /\ next = call[r].next
    BY <1>1 DEF Call
  <2>2. /\ row[i].status \in Statuses
        /\ CanTransition(row[i].status, next)
    BY <1>3, <2>1 DEF RecInv, RowsSound, RecTypeOK, ApiTypeOK, Row, RowStatuses
  <2>3. row[i].status = IF next = "authorized" THEN "awaiting_approval" ELSE "authorized"
    BY <2>1, <2>2, Transitions
  <2>4. call[r].tries <= 1 /\ call[r].tries # 1 /\ call[r].tries \in Nat
    BY <1>1, <2>1, <2>3 DEF RoundSound, Before, Call
  <2>5. /\ call'[r].intent = i /\ call'[r].next = next /\ call'[r].tries = call[r].tries
        /\ pc'[r] = "swap"
    BY <1>1, <1>3, <2>1 DEF Call
  <2>6. call[r].tries = 0
    BY <2>4
  <2> QED BY <1>1, <2>1, <2>3, <2>5, <2>6 DEF RoundSound, WellBefore
<1> QED BY <1>1, <1>2, <1>3 DEF ReadSettlement, Refuse, Goto

\* The compare-and-set: a lost race is the first one, and the row has moved on.
LEMMA SwapRound ==
  ASSUME RecInv, NEW r \in Requests, RoundSound(r), SwapSettlement(r)
  PROVE  RoundSound(r)'
<1>1. /\ pc[r] = "swap" /\ call[r] \in Call
      /\ pc \in [Requests -> PcStates] /\ call \in [Requests -> Call \union {NoCall}]
  BY DEF SwapSettlement, RecInv, RecTypeOK, ApiTypeOK
<1>2. PICK i \in Intents, next \in {"authorized", "submitted"} :
        i = call[r].intent /\ next = call[r].next
  BY <1>1 DEF Call
<1>3. call[r].tries = 0 /\ row[i].status \notin WellBefore(next)
  BY <1>1, <1>2 DEF RoundSound
<1>4. CASE call' = call /\ pc'[r] \in {"ok", "refused"}
  BY <1>1, <1>3, <1>4 DEF RoundSound
<1>5. CASE /\ ~StillAsRead(call[r]) /\ row' = row
           /\ call' = [call EXCEPT ![r].tries = @ + 1]
           /\ pc' = [pc EXCEPT ![r] = IF call[r].tries + 1 = MaxAttempts THEN "refused" ELSE "read"]
  <2>1. /\ call'[r].tries = 1 /\ call'[r].intent = i /\ call'[r].next = next
        /\ pc'[r] \in {"refused", "read"}
    BY <1>1, <1>2, <1>3, <1>5 DEF Call
  <2>2. call[r].seen.status = IF next = "authorized" THEN "awaiting_approval" ELSE "authorized"
    BY <1>1, <1>2 DEF RecInv, CallsSound
  <2>3. row[i].status # call[r].seen.status
    BY <1>2, <1>5 DEF StillAsRead
  <2>4. row'[i].status \notin Before(next)
    BY <1>2, <1>3, <1>5, <2>2, <2>3 DEF Before, WellBefore
  <2> QED BY <2>1, <2>4 DEF RoundSound
<1> QED BY <1>1, <1>4, <1>5 DEF SwapSettlement, Refuse, Goto

LEMMA RoundsStep ==
  ASSUME RecInv, RoundsSound, RecNext PROVE RoundsSound'
<1>0. SUFFICES ASSUME NEW r \in Requests PROVE RoundSound(r)'
  BY DEF RoundsSound
<1>1. /\ RoundSound(r)
      /\ pc \in [Requests -> PcStates] /\ call \in [Requests -> Call \union {NoCall}]
  BY DEF RoundsSound, RecInv, RecTypeOK, ApiTypeOK
<1>2. CASE pc'[r] = pc[r] /\ call'[r] = call[r]
  BY <1>1, <1>2, RoundKept
<1>3. CASE SaveAuthorization(r) \/ CheckAuthorization(r)
  <2>1. /\ call' = call /\ row' = row /\ pc'[r] \in {"read", "refused"}
        /\ pc[r] \in {"saveAuthorization", "checkAuthorization"}
    BY <1>1, <1>3 DEF SaveAuthorization, CheckAuthorization, Refuse, Goto
  <2> QED BY <1>1, <2>1 DEF RoundSound
<1>4. CASE Answer(r)
  BY <1>1, <1>4 DEF Answer, Goto, RoundSound
<1>5. ASSUME NEW h \in Hashes, Post(h, r) PROVE RoundSound(r)'
  <2>1. /\ pc'[r] \in {"saveAuthorization", "checkAuthorization", "read", "refused"}
        /\ call'[r].tries = 0
    BY <1>1, <1>5 DEF Post, ReceiveAuthorize, ReceiveSubmit, Goto
  <2> QED BY <2>1 DEF RoundSound
<1>6. ASSUME NEW q \in Requests \ {r}, Serve(q) \/ \E h \in Hashes : Post(h, q)
      PROVE  pc'[r] = pc[r] /\ call'[r] = call[r]
  BY <1>1, <1>6 DEF Serve, SaveAuthorization, CheckAuthorization, ReadSettlement,
     SwapSettlement, Answer, Post, ReceiveAuthorize, ReceiveSubmit, Refuse, Goto
<1>7. CASE UNCHANGED <<pc, call>>
  BY <1>2, <1>7
<1>8. CASE ApiStep
  <2>1. CASE \E i \in Intents : Publish(i)
    BY <1>7, <2>1 DEF Publish
  <2>2. ASSUME NEW q \in Requests, Serve(q) PROVE RoundSound(r)'
    BY <1>1, <1>2, <1>3, <1>4, <1>6, <2>2, ReadRound, SwapRound DEF Serve
  <2> QED BY <1>8, <2>1, <2>2 DEF ApiStep
<1>9. ASSUME NEW h \in Hashes, PhoneStep(h) PROVE RoundSound(r)'
  <2>1. ASSUME NEW q \in Requests, Post(h, q) PROVE RoundSound(r)'
    BY <1>2, <1>5, <1>6, <2>1
  <2>2. CASE Sign(h) \/ Send(h) \/ Finish(h) \/ Conclude(h)
    BY <1>7, <2>2 DEF Sign, Send, Finish, Conclude, apiVars
  <2> QED BY <1>9, <2>1, <2>2 DEF PhoneStep
<1>10. CASE ChainStep
  BY <1>7, <1>10 DEF ChainStep, CloseLedger, Include, Drop, apiVars
<1>11. ASSUME NEW w \in Workers, WorkerStep(w) \/ Throw(w) PROVE RoundSound(r)'
  BY <1>7, <1>11, WorkerFrame
<1> QED BY <1>8, <1>9, <1>10, <1>11 DEF RecNext

\* transitionSettlement's third round is never needed: whatever requests and
\* workers do to the row, the second read of a call decides it.
THEOREM SecondRoundHolds == RecSpec => []SecondRoundDecides
<1>1. RecInit => RoundsSound
  BY DEF RecInit, ApiInit, RoundsSound, RoundSound
<1>2. RecInv /\ RoundsSound /\ [RecNext]_recVars => RoundsSound'
  <2>1. ASSUME UNCHANGED recVars PROVE RoundsSound' <=> RoundsSound
    BY <2>1 DEF recVars, apiVars, RoundsSound, RoundSound
  <2> QED BY <2>1, RoundsStep
<1>3. RoundsSound => SecondRoundDecides
  BY DEF RoundsSound, RoundSound, SecondRoundDecides
<1> QED BY <1>1, <1>2, <1>3, InvariantHolds, PTL DEF RecSpec

-----------------------------------------------------------------------------
(* The refinement.                                                         *)

\* Steps that leave the rows alone: at most one transaction is executed.
LEMMA ExecutedSteps ==
  ASSUME RecInv, RecNext
  PROVE  \/ Executed' = Executed
         \/ row' = row /\ \E h \in Hashes \ Executed : Executed' = Executed \union {h}
<1>0. chain \in [Hashes -> Tx]
  BY DEF RecInv, RecTypeOK
<1>1. ASSUME UNCHANGED chain PROVE Executed' = Executed
  BY <1>1 DEF Executed
<1>2. ASSUME NEW h \in Hashes, Send(h) PROVE Executed' = Executed
  BY <1>0, <1>2 DEF Send, Executed, RecInv, PhonesSound
<1>3. ASSUME NEW h \in Hashes, Include(h)
      PROVE  \/ Executed' = Executed
             \/ row' = row /\ \E g \in Hashes \ Executed : Executed' = Executed \union {g}
  <2>1. row' = row /\ h \notin Executed
    BY <1>3 DEF Include, apiVars, Executed
  <2> DEFINE tx == [state |-> IF ~Consumed(TxIntent[h]) /\ ledger < Expiry[TxIntent[h]]
                                THEN "success" ELSE "failed",
                    ledger |-> ledger]
  <2>2. chain' = [chain EXCEPT ![h] = tx] /\ tx.state \in {"success", "failed"}
    BY <1>3 DEF Include
  <2> HIDE DEF tx
  <2>3. CASE tx.state = "success"
    <3>1. Executed' = Executed \union {h}
      BY <1>0, <2>2, <2>3 DEF Executed
    <3> QED BY <2>1, <3>1
  <2>4. CASE tx.state = "failed"
    <3>1. Executed' = Executed
      BY <1>0, <2>1, <2>2, <2>4 DEF Executed
    <3> QED BY <3>1
  <2> QED BY <2>2, <2>3, <2>4
<1>4. ASSUME NEW h \in Hashes, Drop(h) PROVE Executed' = Executed
  <2>1. chain[h] \in Tx /\ chain[h].state = "pending"
    BY <1>0, <1>4 DEF Drop
  <2>2. chain'[h].state = "dropped" /\ \A g \in Hashes \ {h} : chain'[g] = chain[g]
    BY <1>0, <1>4, <2>1 DEF Drop, Tx
  <2> QED BY <2>1, <2>2 DEF Executed
<1>5. CASE ApiStep
  BY <1>1, <1>5 DEF ApiStep, chainVars
<1>6. ASSUME NEW h \in Hashes, PhoneStep(h) PROVE Executed' = Executed
  BY <1>1, <1>2, <1>6 DEF PhoneStep, Sign, Finish, Conclude, Post, chainVars
<1>7. CASE ChainStep
  BY <1>1, <1>3, <1>4, <1>7 DEF ChainStep, CloseLedger
<1>8. ASSUME NEW w \in Workers, WorkerStep(w) \/ Throw(w) PROVE Executed' = Executed
  BY <1>1, <1>8, WorkerFrame DEF chainVars
<1> QED BY <1>5, <1>6, <1>7, <1>8 DEF RecNext

\* The book's view of a step that writes one row.
LEMMA OneRowStep ==
  ASSUME RecTypeOK, NEW i \in Intents, NEW next, row' = [row EXCEPT ![i] = next]
  PROVE  /\ [j \in Intents |-> row[j].status]' =
              [[j \in Intents |-> row[j].status] EXCEPT ![i] = next.status]
         /\ [j \in Intents |-> row[j].hash]' =
              [[j \in Intents |-> row[j].hash] EXCEPT ![i] = next.hash]
BY DEF RecTypeOK, ApiTypeOK

\* Every step is a step of the abstract book of payments, or invisible to it.
LEMMA BookStep ==
  ASSUME RecInv, RecNext
  PROVE  Book!BookNext \/ UNCHANGED Book!bookVars
<1> USE DEF Book!bookVars
<1>0. RecTypeOK /\ row \in [Intents -> Row]
  BY DEF RecInv, RecTypeOK, ApiTypeOK
<1>1. CASE row' = row /\ Executed' = Executed
  BY <1>1
<1>2. ASSUME NEW h \in Hashes \ Executed, row' = row, Executed' = Executed \union {h}
      PROVE  Book!BookNext
  <2>1. Book!Execute(h)
    BY <1>2 DEF Book!Execute
  <2> QED BY <2>1 DEF Book!BookNext
<1>3. ASSUME Executed' = Executed, row' # row,
             NEW i \in Intents, Publish(i)
      PROVE  Book!BookNext
  <2>1. row' = [row EXCEPT ![i] = PublishedRow] /\ row[i] = NoRow
    BY <1>3 DEF Publish
  <2>2. Book!Open(i)
    <3>1. [[j \in Intents |-> row[j].hash] EXCEPT ![i] = None] = [j \in Intents |-> row[j].hash]
      BY <2>1 DEF NoRow
    <3>2. /\ [j \in Intents |-> row[j].status]' =
               [[j \in Intents |-> row[j].status] EXCEPT ![i] = PublishedRow.status]
          /\ [j \in Intents |-> row[j].hash]' =
               [[j \in Intents |-> row[j].hash] EXCEPT ![i] = PublishedRow.hash]
      BY <1>0, <2>1, OneRowStep
    <3> QED BY <1>3, <2>1, <3>1, <3>2 DEF Book!Open, PublishedRow, NoRow
  <2> QED BY <2>2 DEF Book!BookNext
<1>4. ASSUME Executed' = Executed, row' # row,
             NEW r \in Requests, SwapSettlement(r)
      PROVE  Book!BookNext
  <2>1. call[r] \in Call /\ pc[r] = "swap"
    BY <1>4, SwapRow DEF SwapSettlement
  <2>2. PICK i \in Intents, h \in Hashes \union {None}, s \in {"authorized", "submitted"} :
          i = call[r].intent /\ h = call[r].hash /\ s = call[r].next
    BY <2>1 DEF Call
  <2> DEFINE next == [status |-> s, hash |-> h, ledger |-> call[r].seen.ledger]
  <2>3. /\ row[i].hash = None
        /\ row[i].status = IF s = "authorized" THEN "awaiting_approval" ELSE "authorized"
        /\ row' = [row EXCEPT ![i] = next]
    BY <1>4, <2>2, SwapRow
  <2>4. /\ s = "authorized" => h = None
        /\ s = "submitted" => h \in Hashes
    BY <2>1, <2>2 DEF RecInv, CallsSound
  <2>5. /\ [j \in Intents |-> row[j].status]' =
             [[j \in Intents |-> row[j].status] EXCEPT ![i] = s]
        /\ [j \in Intents |-> row[j].hash]' =
             [[j \in Intents |-> row[j].hash] EXCEPT ![i] = h]
    <3>1. next.status = s /\ next.hash = h
      OBVIOUS
    <3> HIDE DEF next
    <3> QED BY <1>0, <2>3, <3>1, OneRowStep
  <2>6. CASE s = "submitted"
    <3>1. Book!Attach(i, h)
      BY <1>4, <2>3, <2>5, <2>6 DEF Book!Attach
    <3> QED BY <2>4, <2>6, <3>1 DEF Book!BookNext
  <2>7. CASE s = "authorized"
    <3>1. [[j \in Intents |-> row[j].hash] EXCEPT ![i] = None] = [j \in Intents |-> row[j].hash]
      BY <2>3
    <3>2. Book!Move(i, s)
      BY <1>4, <2>3, <2>4, <2>5, <2>7, <3>1
         DEF Book!Move, Book!CanTransition, Book!AllowedTransitions, Book!Statuses
    <3> QED BY <2>7, <3>2 DEF Book!BookNext, Book!Statuses
  <2> QED BY <2>6, <2>7
<1>5. ASSUME Executed' = Executed, row' # row,
             NEW w \in Workers, WriteRow(w)
      PROVE  Book!BookNext
  <2>1. PICK i \in Intents : i = job[w].item.intent
    BY <1>5, WrittenRow DEF Decision
  <2>2. PICK s : s = TargetStatus(job[w].item)
    OBVIOUS
  <2> DEFINE next == Closed(job[w].item, row[i])
  <2>3. row' = [row EXCEPT ![i] = next] /\ next = row'[i]
    BY <1>0, <1>5, <2>1, WrittenRow
  <2>4. /\ next.status = s /\ next.hash = row[i].hash
        /\ row[i].status \in Statuses
        /\ CanTransition(row[i].status, s)
        /\ s = "confirmed" => PaidBy(i, row[i].hash, next.ledger)
        /\ s \in {"confirmed", "failed", "expired"}
    <3>1. TargetStatus(job[w].item) \in {"confirmed", "failed", "expired"}
      BY DEF TargetStatus
    <3>2. /\ row'[i].status = s
          /\ row[i].status \in Statuses
          /\ CanTransition(row[i].status, row'[i].status)
          /\ row'[i].hash = row[i].hash
          /\ row'[i].status = "confirmed" => PaidBy(i, row'[i].hash, row'[i].ledger)
      BY <1>5, <2>1, <2>2, WrittenRow
    <3> HIDE DEF next
    <3> QED BY <2>2, <2>3, <3>1, <3>2
  <2> HIDE DEF next
  <2>5. /\ [j \in Intents |-> row[j].status]' =
             [[j \in Intents |-> row[j].status] EXCEPT ![i] = s]
        /\ UNCHANGED [j \in Intents |-> row[j].hash]
    <3>1. [[j \in Intents |-> row[j].hash] EXCEPT ![i] = next.hash] = [j \in Intents |-> row[j].hash]
      BY <2>4
    <3> QED BY <1>0, <2>3, <2>4, <3>1, OneRowStep
  <2>6. CASE s = "confirmed"
    <3>1. row[i].status = "submitted" /\ row[i].hash \in Executed
      BY <2>4, <2>6, Transitions DEF PaidBy
    <3>2. Book!Confirm(i)
      BY <1>5, <2>5, <2>6, <3>1 DEF Book!Confirm
    <3> QED BY <3>2 DEF Book!BookNext
  <2>7. CASE s \in {"failed", "expired"}
    <3>1. Book!Move(i, s)
      BY <1>5, <2>4, <2>5, <2>7
         DEF Book!Move, Book!CanTransition, Book!AllowedTransitions, Book!Statuses,
             CanTransition, AllowedTransitions, Statuses
    <3> QED BY <2>7, <3>1 DEF Book!BookNext, Book!Statuses
  <2> QED BY <2>4, <2>6, <2>7
<1> QED BY <1>1, <1>2, <1>3, <1>4, <1>5, RowWriters, ExecutedSteps

\* The phones, the API, the workers and the chain implement the abstract book:
\* from any number of each, no interleaving replaces a hash, reopens a closed
\* payment or confirms an unexecuted one.
THEOREM Implementation == RecSpec => RecImplementsBook
<1>1. RecInit => Book!BookInit
  BY DEF RecInit, ApiInit, NoRow, Book!BookInit, Executed
<1>2. RecInv /\ [RecNext]_recVars => [Book!BookNext]_(Book!bookVars)
  <2>1. UNCHANGED recVars => UNCHANGED Book!bookVars
    BY DEF recVars, apiVars, chainVars, Book!bookVars, Executed
  <2> QED BY <2>1, BookStep
<1> QED BY <1>1, <1>2, InvariantHolds, PTL DEF RecSpec, RecImplementsBook, Book!BookSpec

-----------------------------------------------------------------------------
(* The chain.                                                              *)

LEMMA LedgerStep ==
  ASSUME RecInv, [RecNext]_recVars PROVE [Ledger!LedgerNext]_(Ledger!ledgerVars)
<1> DEFINE Paid == [n \in 1 .. Len(events) |->
                         [id |-> TxIntent[events[n]], deadline |-> Expiry[TxIntent[events[n]]]]]
<1> USE DEF phoneVars, chainVars, notWorker
<1>1. CASE UNCHANGED <<events, ledger>>
  BY <1>1 DEF Ledger!ledgerVars
<1>2. CASE CloseLedger
  <2>1. Paid' = Paid
    BY <1>2 DEF CloseLedger
  <2> QED BY <1>2, <2>1 DEF CloseLedger, Ledger!LedgerNext, Ledger!Close
<1>3. ASSUME NEW h \in Hashes, Include(h), events' # events
      PROVE  [Ledger!LedgerNext]_(Ledger!ledgerVars)
  <2>1. /\ events \in Seq(Hashes) /\ events' = Append(events, h)
        /\ ~Consumed(TxIntent[h]) /\ ledger < Expiry[TxIntent[h]] /\ ledger' = ledger
    BY <1>3 DEF Include, RecInv, RecTypeOK
  <2>2. \A n \in 1 .. Len(events) : TxIntent[events[n]] # TxIntent[h]
    BY <2>1 DEF RecInv, EventsSound, Consumed
  <2>3. Paid' = Append(Paid, [id |-> TxIntent[h], deadline |-> Expiry[TxIntent[h]]])
    <3>1. /\ Len(events') = Len(events) + 1 /\ Len(events) \in Nat
          /\ \A n \in 1 .. Len(events) : events'[n] = events[n]
          /\ events'[Len(events) + 1] = h
      BY <2>1
    <3>2. Len(Paid) = Len(events)
      BY <3>1
    <3> QED BY <3>1, <3>2
  <2>4. Ledger!Settle(TxIntent[h], Expiry[TxIntent[h]])
    <3>1. \A n \in 1 .. Len(Paid) : Paid[n].id # TxIntent[h]
      BY <2>1, <2>2
    <3> QED BY <2>1, <2>3, <3>1 DEF Ledger!Settle
  <2>5. TxIntent[h] \in Intents
    BY AttemptAssumption
  <2> QED BY <2>4, <2>5 DEF Ledger!LedgerNext
<1>4. ASSUME NEW h \in Hashes, Include(h) \/ Drop(h)
      PROVE  [Ledger!LedgerNext]_(Ledger!ledgerVars)
  BY <1>1, <1>3, <1>4 DEF Include, Drop
<1>5. CASE ApiStep \/ \E h \in Hashes : PhoneStep(h)
  BY <1>1, <1>5 DEF ApiStep, PhoneStep, Sign, Send, Finish, Conclude, Post
<1>6. ASSUME NEW w \in Workers, WorkerStep(w) \/ Throw(w) PROVE UNCHANGED <<events, ledger>>
  BY <1>6 DEF WorkerStep, BeginCycle, CheckReceipt, ReceiptsDone, ReadHealth, ListExpired,
     PickExpired, ExpiringDone, LoadCursor, FetchPage, ListKnown, CheckEvent, EventsDone,
     SaveCursor, ReadRow, WriteRow, Throw
<1>7. CASE UNCHANGED recVars
  BY <1>1, <1>7 DEF recVars
<1> QED BY <1>1, <1>2, <1>4, <1>5, <1>6, <1>7 DEF RecNext, ChainStep

\* The chain this model assumes keeps to the ledger that the contract is shown
\* to implement (ContractImplementsLedger): the assumption is discharged.
THEOREM ChainImplementation == RecSpec => ChainImplementsLedger
<1>1. RecInit => Ledger!LedgerInit
  BY DEF RecInit, Ledger!LedgerInit
<1> QED BY <1>1, InvariantHolds, LedgerStep, PTL
        DEF RecSpec, ChainImplementsLedger, Ledger!LedgerSpec

-----------------------------------------------------------------------------
(* Why a payment failed.                                                   *)

Caused(i) == rpcFaults > 0 \/ (row[i].hash \in Hashes /\ chain[row[i].hash].state = "failed")

\* A listed row keeps the hash it was listed with.
HashKept(w) == job[w].phase # "expiring" => \A t \in job[w].todo : row[t.intent].hash = t.hash

FailCaused(w) == wpc[w] \in {"readRow", "writeRow"} /\ job[w].item.kind = "fail"
                   => Caused(job[w].item.intent)

CauseSound(w) == HashKept(w) /\ FailCaused(w)

CauseInv == /\ \A i \in Intents : row[i].status = "failed" => Caused(i)
            /\ \A w \in Workers : CauseSound(w)

\* The digest an event carries is the identifier of no row (settlementEnvelope).
DigestsNameNoRow == \A i \in Intents : EventName[i] \notin Intents

\* A cause, once there, stays.
LEMMA CausesStay ==
  ASSUME RecInv, RecNext, NEW i \in Intents, Caused(i)
  PROVE  Caused(i)'
<1> DEFINE Failed(h) == chain[h].state = "failed"
<1>1. rpcFaults \in Nat /\ rpcFaults' \in Nat /\ rpcFaults <= rpcFaults'
  <2>1. rpcFaults \in Nat
    BY DEF RecInv, RecTypeOK
  <2>2. CASE ApiStep \/ ChainStep
    BY <2>1, <2>2 DEF ApiStep, ChainStep, CloseLedger, Include, Drop, workerVars
  <2>3. ASSUME NEW h \in Hashes, PhoneStep(h) PROVE UNCHANGED rpcFaults
    BY <2>3 DEF PhoneStep, Sign, Send, Finish, Conclude, Post, workerVars
  <2>4. ASSUME NEW w \in Workers, WorkerStep(w) \/ Throw(w)
        PROVE  rpcFaults' = rpcFaults \/ rpcFaults' = rpcFaults + 1
    BY <2>4 DEF WorkerStep, Throw, BeginCycle, CheckReceipt, ReceiptsDone, ReadHealth,
       ListExpired, PickExpired, ExpiringDone, LoadCursor, FetchPage, ListKnown, CheckEvent, EventsDone,
       SaveCursor, ReadRow, WriteRow, AskReceipt
  <2> QED BY <2>1, <2>2, <2>3, <2>4 DEF RecNext
<1>2. ASSUME NEW h \in Hashes, Failed(h) PROVE Failed(h)'
  <2>0. chain \in [Hashes -> Tx]
    BY DEF RecInv, RecTypeOK
  <2>1. CASE UNCHANGED chain
    BY <1>2, <2>1
  <2>2. ASSUME NEW g \in Hashes, Send(g) PROVE Failed(h)'
    BY <1>2, <2>0, <2>2 DEF Send, RecInv, PhonesSound
  <2>3. ASSUME NEW g \in Hashes, Include(g) \/ Drop(g) PROVE Failed(h)'
    BY <1>2, <2>0, <2>3 DEF Include, Drop
  <2>4. CASE ApiStep \/ CloseLedger
    BY <2>1, <2>4 DEF ApiStep, CloseLedger, chainVars
  <2>5. ASSUME NEW g \in Hashes, PhoneStep(g) PROVE Failed(h)'
    BY <2>1, <2>2, <2>5 DEF PhoneStep, Sign, Finish, Conclude, Post, chainVars
  <2>6. ASSUME NEW w \in Workers, WorkerStep(w) \/ Throw(w) PROVE Failed(h)'
    BY <2>1, <2>6, WorkerFrame DEF chainVars
  <2> QED BY <2>3, <2>4, <2>5, <2>6 DEF RecNext, ChainStep
<1>3. row[i].hash \in Hashes => row'[i].hash = row[i].hash
  BY RowStepAdvances DEF RowsAdvance
<1> QED BY <1>1, <1>2, <1>3 DEF Caused

\* Only a worker that means to fail the row fails it.
LEMMA FailureWritten ==
  ASSUME RecInv, RecNext, NEW i \in Intents, row'[i].status = "failed", row[i].status # "failed"
  PROVE  \E w \in Workers : /\ wpc[w] = "writeRow" /\ job[w].item.kind = "fail"
                            /\ job[w].item.intent = i
<1>0. row \in [Intents -> Row] /\ row' # row
  BY DEF RecInv, RecTypeOK, ApiTypeOK
<1>1. ASSUME NEW j \in Intents, Publish(j) PROVE FALSE
  BY <1>0, <1>1 DEF Publish, PublishedRow
<1>2. ASSUME NEW r \in Requests, SwapSettlement(r) PROVE FALSE
  <2>1. PICK j \in Intents, s \in {"authorized", "submitted"} : j = call[r].intent /\ s = call[r].next
    BY <1>0, <1>2, SwapRow DEF Call
  <2>2. row' = [row EXCEPT ![j] = [status |-> s, hash |-> call[r].hash, ledger |-> call[r].seen.ledger]]
    BY <1>0, <1>2, <2>1, SwapRow
  <2> QED BY <1>0, <2>2
<1>3. ASSUME NEW w \in Workers, WriteRow(w)
      PROVE  wpc[w] = "writeRow" /\ job[w].item.kind = "fail" /\ job[w].item.intent = i
  <2>1. PICK j \in Intents : j = job[w].item.intent
    BY <1>0, <1>3, WrittenRow DEF Decision
  <2>2. /\ row' = [row EXCEPT ![j] = Closed(job[w].item, row[j])]
        /\ row'[j].status = TargetStatus(job[w].item)
    BY <1>0, <1>3, <2>1, WrittenRow
  <2>3. i = j
    BY <1>0, <2>2
  <2>4. job[w].item.kind \in {"confirm", "fail", "expire"}
    BY <1>0, <1>3, WrittenRow DEF Decision
  <2> QED BY <1>3, <2>1, <2>2, <2>3, <2>4 DEF WriteRow, TargetStatus
<1> QED BY <1>0, <1>1, <1>2, <1>3, RowWriters

\* What a worker keeps from an earlier read stays true of the rows.
LEMMA CauseUndisturbed ==
  ASSUME RecInv, RecNext, NEW w \in Workers, CauseSound(w), wpc'[w] = wpc[w], job'[w] = job[w]
  PROVE  CauseSound(w)'
<1>1. WorkerSound(w) /\ job[w] \in Job /\ RowsAdvance
  BY RowStepAdvances DEF RecInv, WorkersSound, RecTypeOK
<1>2. HashKept(w)'
  BY <1>1 DEF CauseSound, HashKept, WorkerSound, TodoSound, RowsAdvance, Job, Entry
<1>3. FailCaused(w)'
  <2>1. SUFFICES ASSUME wpc[w] \in {"readRow", "writeRow"}, job[w].item.kind = "fail"
                 PROVE  Caused(job[w].item.intent)'
    BY DEF FailCaused
  <2>2. PICK i \in Intents : i = job[w].item.intent
    BY <1>1, <2>1 DEF WorkerSound, ItemSound, Job, Decision
  <2>3. Caused(i)
    BY <2>1, <2>2 DEF CauseSound, FailCaused
  <2> QED BY <2>2, <2>3, CausesStay DEF Caused
<1> QED BY <1>2, <1>3 DEF CauseSound

\* The worker fills its list, or goes on without a verdict.
LEMMA CauseLists ==
  ASSUME RecInv, RecNext, NEW w \in Workers, CauseSound(w),
         \/ BeginCycle(w) \/ ReceiptsDone(w) \/ ReadHealth(w) \/ ListExpired(w)
         \/ PickExpired(w) \/ ExpiringDone(w) \/ LoadCursor(w) \/ FetchPage(w) \/ ListKnown(w)
         \/ EventsDone(w) \/ SaveCursor(w) \/ Throw(w)
  PROVE  CauseSound(w)'
<1>1. /\ WorkerSound(w) /\ job[w] \in Job
      /\ job \in [Workers -> Job] /\ wpc \in [Workers -> WpcStates]
  BY DEF RecInv, WorkersSound, RecTypeOK
<1>2. UNCHANGED row
  BY DEF BeginCycle, ReceiptsDone, ReadHealth, ListExpired, PickExpired, ExpiringDone, LoadCursor,
     FetchPage, ListKnown, EventsDone, SaveCursor, Throw, notWorker, apiVars
<1>3. ASSUME wpc'[w] \notin {"readRow", "writeRow"}, HashKept(w)' PROVE CauseSound(w)'
  BY <1>3 DEF CauseSound, FailCaused
<1>4. CASE BeginCycle(w)
  <2>1. wpc'[w] = "receipts" /\ job'[w].todo = SubmittedRows
    BY <1>1, <1>4 DEF BeginCycle, At, EmptyJob
  <2> QED BY <1>2, <1>3, <2>1 DEF HashKept, SubmittedRows
<1>5. CASE ListKnown(w)
  <2>1. wpc'[w] = "events" /\ job'[w].todo = SubmittedRows
    BY <1>1, <1>5 DEF ListKnown, At, Job
  <2> QED BY <1>2, <1>3, <2>1 DEF HashKept, SubmittedRows
<1>6. CASE ReceiptsDone(w) \/ LoadCursor(w) \/ FetchPage(w) \/ EventsDone(w)
  <2>1. /\ wpc'[w] \in {"health", "fetchPage", "listKnown", "saveCursor"}
        /\ job'[w].todo = job[w].todo /\ job'[w].phase = job[w].phase
    BY <1>1, <1>6 DEF ReceiptsDone, LoadCursor, FetchPage, EventsDone, At, Job
  <2> QED BY <1>2, <1>3, <2>1 DEF CauseSound, HashKept
<1>7. CASE ReadHealth(w)
  <2>1. wpc'[w] = "listExpired" /\ job'[w].phase = "expiring"
    BY <1>1, <1>7 DEF ReadHealth, At, Job
  <2> QED BY <1>3, <2>1 DEF HashKept
<1>8. CASE ListExpired(w)
  <2>1. wpc'[w] = "expiring" /\ job'[w].phase = "expiring"
    BY <1>1, <1>8 DEF ListExpired, At, Job, WorkerSound, PhaseSound
  <2> QED BY <1>3, <2>1 DEF HashKept
<1>9. CASE PickExpired(w)
  <2>1. PICK t \in job[w].todo :
          job' = [job EXCEPT ![w].todo = @ \ {t},
                             ![w].item = [kind |-> "expire", intent |-> t.intent,
                                          hash |-> None, ledger |-> 0]]
    BY <1>9 DEF PickExpired
  <2>2. job'[w].phase = job[w].phase /\ job'[w].item.kind = "expire"
    BY <1>1, <2>1 DEF Job
  <2>3. job[w].phase = "expiring"
    BY <1>1, <1>9 DEF PickExpired, At, WorkerSound, PhaseSound
  <2> QED BY <2>2, <2>3 DEF CauseSound, HashKept, FailCaused
<1>10. CASE ExpiringDone(w) \/ SaveCursor(w) \/ Throw(w)
  <2>1. wpc'[w] \in {"idle", "loadCursor"} /\ job'[w].todo = {}
    BY <1>1, <1>10 DEF ExpiringDone, SaveCursor, Throw, EndCycle, At, EmptyJob
  <2> QED BY <1>3, <2>1 DEF HashKept
<1> QED BY <1>4, <1>5, <1>6, <1>7, <1>8, <1>9, <1>10

\* A receipt call whose answer fails the row: the chain says so, or the call failed.
LEMMA CauseAsked ==
  ASSUME RecInv, RecNext, NEW w \in Workers, CauseSound(w), NEW t \in job[w].todo, NEW rest \in Job,
         wpc[w] \in {"receipts", "events"}, rest.todo \subseteq job[w].todo, rest.phase = job[w].phase,
         AskReceipt(w, t, rest), UNCHANGED <<row, chain>>
  PROVE  CauseSound(w)'
<1>1. /\ WorkerSound(w) /\ job[w] \in Job
      /\ job \in [Workers -> Job] /\ wpc \in [Workers -> WpcStates] /\ rpcFaults \in Nat
  BY DEF RecInv, WorkersSound, RecTypeOK
<1>2. /\ t \in Entry /\ t.hash \in Hashes /\ row[t.intent].hash = t.hash
  BY <1>1 DEF WorkerSound, PhaseSound, TodoSound, Job, CauseSound, HashKept
<1>3. CASE job' = [job EXCEPT ![w] = rest] /\ UNCHANGED wpc
  <2>1. job'[w] = rest /\ wpc'[w] = wpc[w]
    BY <1>1, <1>3
  <2> QED BY <2>1 DEF CauseSound, HashKept, FailCaused
<1>4. ASSUME NEW answer, Rule(w, rest, Verdict(t, answer)),
             answer # "SUCCESS" => rpcFaults' > 0 \/ chain[t.hash].state = "failed"
      PROVE  CauseSound(w)'
  <2> DEFINE d == Verdict(t, answer)
  <2>1. d \in Decision
    BY <1>2, VerdictType DEF RecInv
  <2>2. d.intent = t.intent /\ (answer = "SUCCESS" => d.kind = "confirm")
    BY DEF Verdict
  <2>3. job' = [job EXCEPT ![w] = [rest EXCEPT !.item = d]]
    BY <1>4 DEF Rule
  <2> HIDE DEF d
  <2>4. job'[w].todo = rest.todo /\ job'[w].phase = rest.phase /\ job'[w].item = d
    BY <1>1, <2>1, <2>3 DEF Job
  <2>5. HashKept(w)'
    BY <2>4 DEF CauseSound, HashKept
  <2>6. d.kind = "fail" => Caused(t.intent)'
    BY <1>2, <1>4, <2>2 DEF Caused
  <2>7. FailCaused(w)'
    BY <2>2, <2>4, <2>6 DEF FailCaused, Caused
  <2> QED BY <2>5, <2>7 DEF CauseSound
<1>5. CASE Receipt(t.hash) # "NOT_FOUND" /\ Rule(w, rest, Verdict(t, Receipt(t.hash)))
  BY <1>4, <1>5 DEF Receipt
<1>6. CASE rpcFaults' = rpcFaults + 1 /\ Rule(w, rest, Verdict(t, "UNKNOWN"))
  BY <1>1, <1>4, <1>6
<1> QED BY <1>3, <1>5, <1>6 DEF AskReceipt

LEMMA CauseChecks ==
  ASSUME RecInv, RecNext, DigestsNameNoRow, NEW w \in Workers, CauseSound(w),
         CheckReceipt(w) \/ CheckEvent(w)
  PROVE  CauseSound(w)'
<1>1. job[w] \in Job /\ job \in [Workers -> Job] /\ UNCHANGED <<row, chain>>
  BY DEF RecInv, RecTypeOK, CheckReceipt, CheckEvent, notWorker, apiVars, chainVars
<1>2. CASE CheckReceipt(w)
  <2>1. PICK t \in job[w].todo : AskReceipt(w, t, [job[w] EXCEPT !.todo = @ \ {t}])
    BY <1>2 DEF CheckReceipt
  <2> DEFINE rest == [job[w] EXCEPT !.todo = @ \ {t}]
  <2>2. rest \in Job /\ rest.todo \subseteq job[w].todo /\ rest.phase = job[w].phase
    BY <1>1 DEF Job
  <2>3. AskReceipt(w, t, rest) /\ wpc[w] = "receipts"
    BY <1>2, <2>1 DEF CheckReceipt
  <2> HIDE DEF rest
  <2> QED BY <1>1, <2>2, <2>3, CauseAsked
\* An event names no row, and is passed over.
<1>3. CASE CheckEvent(w)
  <2>1. \A h \in job[w].page : NamedRows(w, h) = {}
    BY <1>1, AttemptAssumption DEF NamedRows, DigestsNameNoRow, Job, Entry
  <2>2. PICK h \in job[w].page : job' = [job EXCEPT ![w] = [job[w] EXCEPT !.page = @ \ {h}]] /\ UNCHANGED wpc
    BY <1>3, <2>1 DEF CheckEvent
  <2>3. /\ job'[w].todo = job[w].todo /\ job'[w].phase = job[w].phase
        /\ wpc'[w] \notin {"readRow", "writeRow"}
    BY <1>1, <1>3, <2>2 DEF CheckEvent, Job
  <2> QED BY <1>1, <2>3 DEF CauseSound, HashKept, FailCaused
<1> QED BY <1>2, <1>3

LEMMA CauseWrites ==
  ASSUME RecInv, RecNext, NEW w \in Workers, CauseSound(w), ReadRow(w) \/ WriteRow(w)
  PROVE  CauseSound(w)'
<1>1. /\ WorkerSound(w) /\ job[w] \in Job /\ RowsAdvance
      /\ job \in [Workers -> Job] /\ wpc \in [Workers -> WpcStates]
  BY RowStepAdvances DEF RecInv, WorkersSound, RecTypeOK
<1>2. job[w].phase # "expiring" => \A t \in job[w].todo : row'[t.intent].hash = t.hash
  BY <1>1 DEF CauseSound, HashKept, WorkerSound, TodoSound, RowsAdvance, Job, Entry
<1>3. CASE EndCycle(w)
  <2>1. wpc'[w] = "idle" /\ job'[w].todo = {}
    BY <1>1, <1>3 DEF EndCycle, EmptyJob
  <2> QED BY <2>1 DEF CauseSound, HashKept, FailCaused
<1>4. CASE NextItem(w)
  <2>1. /\ wpc'[w] = job[w].phase /\ job'[w].todo = job[w].todo /\ job'[w].phase = job[w].phase
    BY <1>1, <1>4 DEF NextItem, Job
  <2>2. job[w].phase \notin {"readRow", "writeRow"}
    BY <1>1 DEF Job
  <2> QED BY <1>2, <2>1, <2>2 DEF CauseSound, HashKept, FailCaused
<1>5. CASE /\ ReadRow(w)
           /\ wpc' = [wpc EXCEPT ![w] = "writeRow"]
           /\ job' = [job EXCEPT ![w].seen = row[job[w].item.intent]]
  <2>1. /\ job'[w].todo = job[w].todo /\ job'[w].phase = job[w].phase /\ job'[w].item = job[w].item
        /\ wpc[w] = "readRow" /\ UNCHANGED <<row, chain, rpcFaults>>
    BY <1>1, <1>5 DEF Job, ReadRow, notWorker, apiVars, chainVars
  <2> QED BY <2>1 DEF CauseSound, HashKept, FailCaused, Caused
<1> QED BY <1>3, <1>4, <1>5 DEF ReadRow, WriteRow

LEMMA CauseStep ==
  ASSUME RecInv, DigestsNameNoRow, CauseInv, RecNext PROVE CauseInv'
<1>1. \A i \in Intents : row'[i].status = "failed" => Caused(i)'
  <2>1. SUFFICES ASSUME NEW i \in Intents, row'[i].status = "failed" PROVE Caused(i)
    BY CausesStay
  <2>2. CASE row[i].status = "failed"
    BY <2>2 DEF CauseInv
  <2>3. CASE row[i].status # "failed"
    <3>1. PICK w \in Workers : wpc[w] = "writeRow" /\ job[w].item.kind = "fail" /\ job[w].item.intent = i
      BY <2>1, <2>3, FailureWritten
    <3> QED BY <3>1 DEF CauseInv, CauseSound, FailCaused
  <2> QED BY <2>2, <2>3
<1>2. ASSUME NEW v \in Workers PROVE CauseSound(v)'
  <2>0. job \in [Workers -> Job] /\ wpc \in [Workers -> WpcStates] /\ CauseSound(v)
    BY DEF RecInv, RecTypeOK, CauseInv
  <2>1. CASE wpc'[v] = wpc[v] /\ job'[v] = job[v]
    BY <2>0, <2>1, CauseUndisturbed
  <2>2. CASE WorkerStep(v) \/ Throw(v)
    BY <2>0, <2>2, CauseLists, CauseChecks, CauseWrites DEF WorkerStep
  <2>3. ASSUME NEW w \in Workers, w # v, WorkerStep(w) \/ Throw(w)
        PROVE  wpc'[v] = wpc[v] /\ job'[v] = job[v]
    <3>1. job'[v] = job[v]
      BY <2>0, <2>3, JobTypes DEF RecInv
    <3>2. wpc'[v] = wpc[v]
      BY <2>0, <2>3 DEF WorkerStep, Throw, At, NextItem, EndCycle, BeginCycle, CheckReceipt,
         ReceiptsDone, ReadHealth, ListExpired, PickExpired, ExpiringDone, LoadCursor,
         FetchPage, ListKnown, CheckEvent, AskReceipt, Rule, EventsDone, SaveCursor, ReadRow, WriteRow
    <3> QED BY <3>1, <3>2
  <2>4. CASE ApiStep \/ ChainStep
    BY <2>1, <2>4 DEF ApiStep, ChainStep, CloseLedger, Include, Drop, workerVars
  <2>5. ASSUME NEW h \in Hashes, PhoneStep(h) PROVE UNCHANGED <<wpc, job>>
    BY <2>5 DEF PhoneStep, Sign, Send, Finish, Conclude, Post, workerVars
  <2> QED BY <2>1, <2>2, <2>3, <2>4, <2>5 DEF RecNext
<1> QED BY <1>1, <1>2 DEF CauseInv

\* No payment that went through is failed, as long as events are filed under
\* digests: a failed row's own transaction failed, or a receipt was not to be had.
THEOREM FailuresAreCaused ==
  ASSUME DigestsNameNoRow
  PROVE  RecSpec => []FailureHasACause
<1>1. RecInit => CauseInv
  BY DEF RecInit, ApiInit, NoRow, CauseInv, CauseSound, HashKept, FailCaused, EmptyJob
<1>2. RecInv /\ CauseInv /\ [RecNext]_recVars => CauseInv'
  <2>1. ASSUME UNCHANGED recVars, CauseInv PROVE CauseInv'
    BY <2>1 DEF recVars, apiVars, chainVars, workerVars, CauseInv, Caused, CauseSound, HashKept, FailCaused
  <2> QED BY <2>1, CauseStep
<1>3. CauseInv => FailureHasACause
  BY DEF CauseInv, Caused, FailureHasACause
<1> QED BY <1>1, <1>2, <1>3, InvariantHolds, PTL DEF RecSpec

=============================================================================
