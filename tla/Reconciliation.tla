--------------------------- MODULE Reconciliation ---------------------------
(***************************************************************************)
(* A payment from the phones to the books: the settlement API, the phones  *)
(* that pay and report, the chain, and one or more reconciliation workers  *)
(* (apps/worker) that read the chain and close the settlement rows.        *)
(*                                                                         *)
(* A payment attempt is named by the hash of its transaction.  The phone   *)
(* that runs the attempt has the customer sign, has the relayer submit,    *)
(* and mirrors both facts into the API in that order, best effort          *)
(* (paymentLifecycle.ts).  A worker runs createWorkerCycle: receipts, then *)
(* expiry, then one page of contract events; every await is a step, so a   *)
(* row may change between the list, the receipt, the re-read and the       *)
(* UPDATE, under the hands of requests and of other workers.               *)
(*                                                                         *)
(* The chain and the RPC service are modelled from how src/ uses them.     *)
(***************************************************************************)
EXTENDS SettlementApi, Sequences

CONSTANTS Workers,         \* reconciliation loops (in-process and standalone)
          TxIntent,        \* TxIntent[h]: the request an attempt pays
          TxWallet,        \* TxWallet[h]: the customer paying
          TxPrincipal,     \* TxPrincipal[h]: the session its reports carry
          Expiry,          \* Expiry[i]: expiresAtLedger of a request
          EventName,       \* EventName[i]: the intent_id its settlement event carries
          ReportAttempts,  \* deliveries of one report (3 in the client)
          EventLimit,      \* events per page; 0 turns event scanning off
          MaxLedger,       \* bound: the ledger stops here
          MaxThrows,       \* bound: worker cycles cut short by a throw or a crash
          MaxRpcFaults     \* bound: receipts answered with a transport error

ASSUME AttemptAssumption ==
  /\ TxIntent \in [Hashes -> Intents]
  /\ TxWallet \in [Hashes -> Wallets]
  /\ TxPrincipal \in [Hashes -> Principals]
  /\ Expiry \in [Intents -> Nat]
ASSUME BoundAssumption ==
  /\ ReportAttempts \in Nat /\ EventLimit \in Nat /\ MaxLedger \in Nat
  /\ MaxThrows \in Nat /\ MaxRpcFaults \in Nat

VARIABLES chain,    \* chain[h]: what the network did with a transaction
          ledger,   \* sequence of the ledger being built
          events,   \* the PaymentSettled events, in ledger order
          phone,    \* phone[h]: how far the paying phone has got
          report,   \* report[h]: the report at the head of its queue
          posts,    \* posts[h]: deliveries of that report so far
          wpc,      \* wpc[w]: where worker w is in its cycle
          job,      \* job[w]: what worker w has read and not yet used
          cursor,   \* events before this position are behind every new cycle
          throws, rpcFaults

phoneVars  == <<phone, report, posts>>
chainVars  == <<chain, ledger, events>>
workerVars == <<wpc, job, cursor, throws, rpcFaults>>
recVars    == <<apiVars, phoneVars, chainVars, workerVars>>

Tx == [state : {"unsent", "pending", "success", "failed", "dropped"}, ledger : Nat]

Executed == {h \in Hashes : chain[h].state = "success"}

\* Mutant: the contract forgets what it settled.
ConsumedForgotten(i) == FALSE

\* is_intent_consumed on the settlement contract.
Consumed(i) == \E h \in Executed : TxIntent[h] = i

-----------------------------------------------------------------------------
(* The paying phone.                                                       *)

\* Two attempts of one wallet at one request follow each other.
Rivals(h) == {g \in Hashes \ {h} : TxIntent[g] = TxIntent[h] /\ TxWallet[g] = TxWallet[h]}

\* The settlement simulates, and the customer signs the authorization entry.
\* The simulation runs the contract, so it fails on a spent or expired request.
Sign(h) == /\ phone[h] = "idle"
           /\ row[TxIntent[h]] # NoRow
           /\ \A g \in Rivals(h) : phone[g] \in {"idle", "over"}
           /\ ~Consumed(TxIntent[h])
           /\ ledger < Expiry[TxIntent[h]]
           /\ phone' = [phone EXCEPT ![h] = "authorized"]
           /\ UNCHANGED <<apiVars, report, posts, chainVars, workerVars>>

\* The relayer signs and the transaction is accepted for inclusion.
Send(h) == /\ phone[h] = "authorized"
           /\ phone' = [phone EXCEPT ![h] = "sent"]
           /\ chain' = [chain EXCEPT ![h].state = "pending"]
           /\ UNCHANGED <<apiVars, report, posts, ledger, events, workerVars>>

\* The phone has its receipt, or stops polling for one, or could not send.
Finish(h) == /\ phone[h] \in {"authorized", "sent"}
             /\ phone' = [phone EXCEPT ![h] = "over"]
             /\ UNCHANGED <<apiVars, report, posts, chainVars, workerVars>>

\* The reports the attempt has queued by now.
Queued(h, kind) == \/ kind = "authorize" /\ phone[h] # "idle"
                   \/ kind = "submit" /\ chain[h].state # "unsent"

\* The head of the queue reaches the API, for the first time or as a retry; an
\* earlier delivery the phone gave up on may still be running there.
Post(h, r) == /\ report[h] # "done"
              /\ Queued(h, report[h])
              /\ posts[h] < ReportAttempts
              /\ posts' = [posts EXCEPT ![h] = @ + 1]
              /\ \/ /\ report[h] = "authorize"
                    /\ ReceiveAuthorize(r, TxIntent[h], TxWallet[h], TxPrincipal[h])
                 \/ /\ report[h] = "submit"
                    /\ ReceiveSubmit(r, TxIntent[h], h, TxPrincipal[h])
              /\ UNCHANGED <<phone, report, chainVars, workerVars>>

\* Answered, refused or given up: the next report takes its turn.
Conclude(h) == /\ report[h] # "done"
               /\ Queued(h, report[h])
               /\ report' = [report EXCEPT ![h] =
                               IF @ = "authorize" THEN "submit" ELSE "done"]
               /\ posts' = [posts EXCEPT ![h] = 0]
               /\ UNCHANGED <<apiVars, phone, chainVars, workerVars>>

-----------------------------------------------------------------------------
(* The chain.                                                              *)

CloseLedger == /\ ledger < MaxLedger
               /\ ledger' = ledger + 1
               /\ UNCHANGED <<apiVars, phoneVars, chain, events, workerVars>>

\* Executed when the contract accepts it, failed when it refuses.
Include(h) ==
  LET i == TxIntent[h]
      settles == ~Consumed(i) /\ ledger < Expiry[i]
  IN /\ chain[h].state = "pending"
     /\ chain' = [chain EXCEPT ![h] =
          [state |-> IF settles THEN "success" ELSE "failed", ledger |-> ledger]]
     /\ events' = IF settles THEN Append(events, h) ELSE events
     /\ UNCHANGED <<apiVars, phoneVars, ledger, workerVars>>

\* Never included; the network forgets it.
Drop(h) == /\ chain[h].state = "pending"
           /\ chain' = [chain EXCEPT ![h].state = "dropped"]
           /\ UNCHANGED <<apiVars, phoneVars, ledger, events, workerVars>>

-----------------------------------------------------------------------------
(* The worker.                                                             *)

\* What a list or a page holds, and what the worker decides about one of them.
Entry == [intent : Intents, hash : Hashes \union {None}]
Decision == [kind : {"confirm", "fail", "expire"}, intent : Intents,
             hash : Hashes \union {None}, ledger : Nat]
NoItem == [kind |-> "none"]

\* todo: the rows listed for the current pass; page: the events still to check.
Job == [todo : SUBSET Entry, page : SUBSET Hashes,
        phase : {"receipts", "expiring", "events"},
        item : Decision \union {NoItem}, seen : Row,
        latest : Nat, from : Nat, upto : Nat]

EmptyJob == [todo |-> {}, page |-> {}, phase |-> "receipts", item |-> NoItem,
             seen |-> NoRow, latest |-> 0, from |-> 0, upto |-> 0]

WpcStates == {"idle", "receipts", "health", "listExpired", "expiring", "loadCursor",
              "fetchPage", "listKnown", "events", "saveCursor", "readRow", "writeRow"}

RecInit == /\ ApiInit
           /\ chain = [h \in Hashes |-> [state |-> "unsent", ledger |-> 0]]
           /\ ledger = 1
           /\ events = <<>>
           /\ phone = [h \in Hashes |-> "idle"]
           /\ report = [h \in Hashes |-> "authorize"]
           /\ posts = [h \in Hashes |-> 0]
           /\ wpc = [w \in Workers |-> "idle"]
           /\ job = [w \in Workers |-> EmptyJob]
           /\ cursor = 0 /\ throws = 0 /\ rpcFaults = 0

notWorker == <<apiVars, phoneVars, chainVars>>

At(w, here, there) == wpc[w] = here /\ wpc' = [wpc EXCEPT ![w] = there]

\* Mutant: IS NULL where the query says IS NOT NULL.
SubmittedRowsUnhashed == {[intent |-> i, hash |-> row[i].hash] :
                            i \in {j \in Intents : row[j].status = "submitted" /\ row[j].hash = None}}

\* SELECT ... WHERE status = 'submitted' AND tx_hash IS NOT NULL.
SubmittedRows == {[intent |-> i, hash |-> row[i].hash] :
                    i \in {j \in Intents : row[j].status = "submitted" /\ row[j].hash # None}}

\* The tick of the interval; a cycle still running skips it.
BeginCycle(w) == /\ At(w, "idle", "receipts")
                 /\ job' = [job EXCEPT ![w] = [EmptyJob EXCEPT !.todo = SubmittedRows]]
                 /\ UNCHANGED <<notWorker, cursor, throws, rpcFaults>>

\* Mutants: an unknown transaction counts as failed; one the network took in, as paid.
ReceiptImpatient(h) == IF chain[h].state = "success" THEN "SUCCESS" ELSE "FAILED"
ReceiptUnread(h) == IF chain[h].state = "unsent" THEN "NOT_FOUND" ELSE "SUCCESS"

\* confirmTransaction(h): the receipt, or the code of the error it throws.
Receipt(h) == CASE chain[h].state = "success" -> "SUCCESS"
                [] chain[h].state = "failed"  -> "FAILED"
                [] OTHER                      -> "NOT_FOUND"

\* What the worker decides about a row from the answer to its receipt call.
Verdict(t, answer) ==
  IF answer = "SUCCESS"
    THEN [kind |-> "confirm", intent |-> t.intent, hash |-> t.hash,
          ledger |-> chain[t.hash].ledger]
    ELSE [kind |-> "fail", intent |-> t.intent, hash |-> t.hash, ledger |-> 0]

\* The worker goes on with what it holds, and with a verdict to carry out.
Rule(w, rest, verdict) == /\ job' = [job EXCEPT ![w] = [rest EXCEPT !.item = verdict]]
                          /\ wpc' = [wpc EXCEPT ![w] = "readRow"]

\* One receipt call for the row t: not found leaves the row alone; every other
\* answer, a transport error included, is a verdict on it.
AskReceipt(w, t, rest) ==
  \/ /\ Receipt(t.hash) = "NOT_FOUND"
     /\ job' = [job EXCEPT ![w] = rest]
     /\ UNCHANGED <<wpc, rpcFaults>>
  \/ /\ Receipt(t.hash) # "NOT_FOUND"
     /\ Rule(w, rest, Verdict(t, Receipt(t.hash)))
     /\ UNCHANGED rpcFaults
  \/ /\ rpcFaults < MaxRpcFaults
     /\ rpcFaults' = rpcFaults + 1
     /\ Rule(w, rest, Verdict(t, "UNKNOWN"))

CheckReceipt(w) ==
  /\ wpc[w] = "receipts"
  /\ \E t \in job[w].todo : AskReceipt(w, t, [job[w] EXCEPT !.todo = @ \ {t}])
  /\ UNCHANGED <<notWorker, cursor, throws>>

ReceiptsDone(w) == /\ job[w].todo = {}
                   /\ At(w, "receipts", "health")
                   /\ UNCHANGED <<notWorker, job, cursor, throws, rpcFaults>>

\* The latest ledger is the last one closed, not the one being built.
ReadHealth(w) == /\ At(w, "health", "listExpired")
                 /\ job' = [job EXCEPT ![w].latest = ledger - 1, ![w].phase = "expiring"]
                 /\ UNCHANGED <<notWorker, cursor, throws, rpcFaults>>

\* Mutants: one ledger too early; and approved requests forgotten.
StaleRowsEarly(latest) == {[intent |-> i, hash |-> None] :
  i \in {j \in Intents : /\ row[j].status \in {"awaiting_approval", "authorized"}
                         /\ Expiry[j] <= latest + 1}}
StaleRowsUnapproved(latest) == {[intent |-> i, hash |-> None] :
  i \in {j \in Intents : row[j].status = "awaiting_approval" /\ Expiry[j] <= latest}}

\* Rows still waiting whose expiry ledger is at or before the ledger read above.
StaleRows(latest) == {[intent |-> i, hash |-> None] :
  i \in {j \in Intents : /\ row[j].status \in {"awaiting_approval", "authorized"}
                         /\ Expiry[j] <= latest}}

ListExpired(w) == /\ At(w, "listExpired", "expiring")
                  /\ job' = [job EXCEPT ![w].todo = StaleRows(job[w].latest)]
                  /\ UNCHANGED <<notWorker, cursor, throws, rpcFaults>>

PickExpired(w) ==
  /\ At(w, "expiring", "readRow")
  /\ \E t \in job[w].todo :
       job' = [job EXCEPT ![w].todo = @ \ {t},
                          ![w].item = [kind |-> "expire", intent |-> t.intent,
                                       hash |-> None, ledger |-> 0]]
  /\ UNCHANGED <<notWorker, cursor, throws, rpcFaults>>

\* The cycle ends here unless event scanning is configured.
ExpiringDone(w) ==
  /\ job[w].todo = {}
  /\ At(w, "expiring", IF EventLimit = 0 THEN "idle" ELSE "loadCursor")
  /\ job' = [job EXCEPT ![w] = [EmptyJob EXCEPT !.phase = "events"]]
  /\ UNCHANGED <<notWorker, cursor, throws, rpcFaults>>

LoadCursor(w) == /\ At(w, "loadCursor", "fetchPage")
                 /\ job' = [job EXCEPT ![w].from = cursor]
                 /\ UNCHANGED <<notWorker, cursor, throws, rpcFaults>>

PageEnd(from) == IF Len(events) < from + EventLimit THEN Len(events) ELSE from + EventLimit

\* getSettlementEvents from the loaded cursor: at most EventLimit events.
FetchPage(w) ==
  /\ At(w, "fetchPage", "listKnown")
  /\ LET from == job[w].from
         page == {events[k] : k \in (from + 1) .. PageEnd(from)}
     IN job' = [job EXCEPT ![w].page = page, ![w].upto = PageEnd(from)]
  /\ UNCHANGED <<notWorker, cursor, throws, rpcFaults>>

ListKnown(w) == /\ At(w, "listKnown", "events")
                /\ job' = [job EXCEPT ![w].todo = SubmittedRows]
                /\ UNCHANGED <<notWorker, cursor, throws, rpcFaults>>

\* The listed rows whose own identifier is the one in the event of h.
NamedRows(w, h) == {t \in job[w].todo : t.intent = EventName[TxIntent[h]]}

\* An event: ignored when it names no submitted row, a failure when the row it
\* names carries another transaction, and otherwise checked against the receipt.
CheckEvent(w) ==
  /\ wpc[w] = "events"
  /\ \E h \in job[w].page :
       LET rest == [job[w] EXCEPT !.page = @ \ {h}] IN
       \/ /\ NamedRows(w, h) = {}
          /\ job' = [job EXCEPT ![w] = rest]
          /\ UNCHANGED <<wpc, rpcFaults>>
       \/ \E t \in NamedRows(w, h) : \/ /\ t.hash # h
                                       /\ Rule(w, rest, Verdict(t, "MISMATCH"))
                                       /\ UNCHANGED rpcFaults
                                    \/ /\ t.hash = h
                                       /\ AskReceipt(w, t, rest)
  /\ UNCHANGED <<notWorker, cursor, throws>>

\* Mutant: the cursor is saved with the page half processed.
EventsDoneEarly(w) == /\ At(w, "events", "saveCursor")
                      /\ UNCHANGED <<notWorker, job, cursor, throws, rpcFaults>>

EventsDone(w) == /\ job[w].page = {}
                 /\ At(w, "events", "saveCursor")
                 /\ UNCHANGED <<notWorker, job, cursor, throws, rpcFaults>>

SaveCursor(w) == /\ At(w, "saveCursor", "idle")
                 /\ cursor' = job[w].upto
                 /\ job' = [job EXCEPT ![w] = EmptyJob]
                 /\ UNCHANGED <<notWorker, throws, rpcFaults>>

-----------------------------------------------------------------------------
(* PostgresSettlementState: re-read, guard, conditional UPDATE.            *)

TargetStatus(item) == CASE item.kind = "confirm" -> "confirmed"
                        [] item.kind = "fail"    -> "failed"
                        [] OTHER                 -> "expired"

\* A confirmation never replaces the hash a row already carries.
Contradicts(item, current) ==
  item.kind = "confirm" /\ current.hash # None /\ current.hash # item.hash

\* A throw ends the cycle: the loop logs it and waits for the next tick.
EndCycle(w) == /\ wpc' = [wpc EXCEPT ![w] = "idle"]
               /\ job' = [job EXCEPT ![w] = EmptyJob]

\* Back to the list the item came from.
NextItem(w) == /\ wpc' = [wpc EXCEPT ![w] = job[w].phase]
               /\ job' = [job EXCEPT ![w].item = NoItem, ![w].seen = NoRow]

ReadRow(w) ==
  /\ wpc[w] = "readRow"
  /\ LET item == job[w].item
         current == row[item.intent]
         done == current.status = TargetStatus(item)
     IN \/ /\ done /\ ~Contradicts(item, current)
           /\ NextItem(w)
        \/ /\ Contradicts(item, current) \/ (~done /\ ~CanTransition(current.status, TargetStatus(item)))
           /\ EndCycle(w)
        \/ /\ ~Contradicts(item, current) /\ ~done
           /\ CanTransition(current.status, TargetStatus(item))
           /\ wpc' = [wpc EXCEPT ![w] = "writeRow"]
           /\ job' = [job EXCEPT ![w].seen = current]
  /\ UNCHANGED <<notWorker, cursor, throws, rpcFaults>>

\* The columns the UPDATE sets on the row it finds.
Closed(item, current) ==
  IF item.kind = "confirm"
    THEN [status |-> "confirmed", hash |-> item.hash, ledger |-> item.ledger]
    ELSE [current EXCEPT !.status = TargetStatus(item)]

\* Mutant: an UPDATE by intent_id alone.
RowStillSeenUnchecked(w) == TRUE

\* WHERE intent_id = i AND status = the status just read.
RowStillSeen(w) == row[job[w].item.intent].status = job[w].seen.status

WriteRow(w) ==
  /\ wpc[w] = "writeRow"
  /\ LET item == job[w].item IN
       \/ /\ RowStillSeen(w)
          /\ row' = [row EXCEPT ![item.intent] = Closed(item, @)]
          /\ NextItem(w)
       \/ /\ ~RowStillSeen(w)
          /\ EndCycle(w)
          /\ UNCHANGED row
  /\ UNCHANGED <<authz, pc, call, phoneVars, chainVars, cursor, throws, rpcFaults>>

\* RPC health, a page or the database fails, or the process restarts.
Throw(w) == /\ wpc[w] # "idle"
            /\ throws < MaxThrows
            /\ throws' = throws + 1
            /\ EndCycle(w)
            /\ UNCHANGED <<notWorker, cursor, rpcFaults>>

\* The cycle itself, without the failures that may cut it short.
WorkerStep(w) ==
  \/ BeginCycle(w) \/ CheckReceipt(w) \/ ReceiptsDone(w)
  \/ ReadHealth(w) \/ ListExpired(w) \/ PickExpired(w) \/ ExpiringDone(w)
  \/ LoadCursor(w) \/ FetchPage(w) \/ ListKnown(w) \/ CheckEvent(w)
  \/ EventsDone(w) \/ SaveCursor(w) \/ ReadRow(w) \/ WriteRow(w)

-----------------------------------------------------------------------------
\* A step of the API alone.
ApiStep == /\ \/ \E i \in Intents : Publish(i)
              \/ \E r \in Requests : Serve(r)
           /\ UNCHANGED <<phoneVars, chainVars, workerVars>>

PhoneStep(h) == \/ Sign(h) \/ Send(h) \/ Finish(h) \/ Conclude(h)
                \/ \E r \in Requests : Post(h, r)

ChainStep == CloseLedger \/ \E h \in Hashes : Include(h) \/ Drop(h)

RecNext == \/ ApiStep
           \/ \E h \in Hashes : PhoneStep(h)
           \/ ChainStep
           \/ \E w \in Workers : WorkerStep(w) \/ Throw(w)

RecSpec == RecInit /\ [][RecNext]_recVars

\* The interval keeps ticking and every await of a cycle returns; nothing is
\* assumed of phones, requests or the network.
RecFairSpec == RecSpec /\ \A w \in Workers : WF_recVars(WorkerStep(w))

-----------------------------------------------------------------------------
\* Type invariant of the phones, the chain and the workers.
RecTypeOK ==
  /\ ApiTypeOK
  /\ chain \in [Hashes -> Tx]
  /\ ledger \in 1 .. MaxLedger + 1
  /\ events \in Seq(Hashes)
  /\ phone \in [Hashes -> {"idle", "authorized", "sent", "over"}]
  /\ report \in [Hashes -> {"authorize", "submit", "done"}]
  /\ posts \in [Hashes -> 0 .. ReportAttempts]
  /\ wpc \in [Workers -> WpcStates]
  /\ job \in [Workers -> Job]
  /\ cursor \in Nat /\ throws \in 0 .. MaxThrows /\ rpcFaults \in 0 .. MaxRpcFaults

\* "Only the worker, holding a final SUCCESS, may move a settlement to confirmed"
\* (README): a confirmed row names the request's own transaction, executed in
\* the very ledger the row reports.
ConfirmedMeansPaid ==
  \A i \in Intents : row[i].status = "confirmed" =>
    /\ row[i].hash \in Executed
    /\ TxIntent[row[i].hash] = i
    /\ row[i].ledger = chain[row[i].hash].ledger

\* A row the worker failed has one of two causes: its transaction failed on
\* chain, or a receipt could not be fetched.  Neither a rival attempt that paid
\* the request, nor its event, nor a worker that listed the row long ago fails a
\* payment that went through.
FailureHasACause ==
  \A i \in Intents : row[i].status = "failed" =>
    chain[row[i].hash].state = "failed" \/ rpcFaults > 0

\* A request closes as expired only when its ledger has closed, so that the
\* contract takes no payment for it any more (listExpiredSettlements): nobody's
\* open request is taken from them while it can still be paid.
ExpiredOnlyAfterDeadline ==
  \A i \in Intents : row[i].status = "expired" => Expiry[i] < ledger

\* The read / compare-and-set loop gives up after MaxAttempts rounds, "retry
\* with the latest status".  Statuses never come back, so whatever workers and
\* other requests do, no call ever needs a third round.
SecondRoundDecides ==
  \A r \in Requests : pc[r] # "idle" => call[r].tries <= 1

\* "Reconciles contract events against submitted API records"
\* (reconcileSettlementEvents): when the cursor moves past an event, the listed
\* row that was waiting for this very transaction waits no longer.  It holds when
\* events carry the rows' identifiers; as built they carry a digest of them, and
\* every event is passed over.
PageReconciledBeforeCursor ==
  [][\A w \in Workers : wpc[w] = "saveCursor" /\ cursor' = job[w].upto =>
       \A t \in job[w].todo, n \in (job[w].from + 1) .. job[w].upto :
         t.hash = events[n] => row[t.intent].status # "submitted"]_recVars

\* The books as the merchant may rely on them, over the real chain.
Book == INSTANCE PaymentBook WITH
  status <- [i \in Intents |-> row[i].status],
  hash <- [i \in Intents |-> row[i].hash],
  executed <- Executed

\* Phones, requests, workers and chain together implement the abstract book: no
\* interleaving replaces a hash, reopens a closed payment or confirms an
\* unexecuted one.
RecImplementsBook == Book!BookSpec

\* The chain assumed here settles requests as the contract does: see
\* SettlementContract, which implements the same abstract ledger.
Ledger == INSTANCE SettlementLedger WITH
  Ids <- Intents,
  Deadlines <- {Expiry[i] : i \in Intents},
  now <- ledger,
  settled <- [n \in 1 .. Len(events) |->
                [id |-> TxIntent[events[n]], deadline |-> Expiry[TxIntent[events[n]]]]]

ChainImplementsLedger == Ledger!LedgerSpec

-----------------------------------------------------------------------------
(* The inductive invariant behind the safety theorems: what every row, call,  *)
(* phone and worker may be assumed to look like between any two steps.        *)

PaidBy(i, h, at) == /\ h \in Executed
                    /\ TxIntent[h] = i
                    /\ at = chain[h].ledger

RowsSound == \A i \in Intents :
  /\ row[i].status = "none" => row[i] = NoRow
  /\ row[i].status \in {"none", "awaiting_approval", "authorized"} => row[i].hash = None
  /\ row[i].status = "submitted" => row[i].hash # None
  /\ row[i].hash # None => TxIntent[row[i].hash] = i
  /\ row[i].status = "confirmed" => PaidBy(i, row[i].hash, row[i].ledger)
  /\ row[i].status = "expired" => Expiry[i] < ledger

CallsSound == \A r \in Requests : pc[r] # "idle" =>
  /\ pc[r] \notin {"ok", "refused"} => call[r].tries < MaxAttempts
  /\ call[r].next = "authorized" => call[r].hash = None
  /\ call[r].next = "submitted" => /\ call[r].hash \in Hashes
                                   /\ TxIntent[call[r].hash] = call[r].intent
  /\ pc[r] = "swap" => /\ call[r].seen.hash = None
                       /\ call[r].seen.status = IF call[r].next = "authorized"
                                                  THEN "awaiting_approval"
                                                  ELSE "authorized"

PhonesSound == \A h \in Hashes :
  /\ phone[h] \in {"idle", "authorized"} => chain[h].state = "unsent"
  /\ phone[h] # "idle" => row[TxIntent[h]].status # "none"

EventsSound == \A n \in 1 .. Len(events) : events[n] \in Executed

TodoSound(w) == \A t \in job[w].todo :
  /\ row[t.intent].status # "none"
  /\ job[w].phase = "expiring" => Expiry[t.intent] < ledger
  /\ job[w].phase # "expiring" => t.hash \in Hashes /\ TxIntent[t.hash] = t.intent

ItemSound(w) == wpc[w] \in {"readRow", "writeRow"} =>
  /\ job[w].item # NoItem
  /\ row[job[w].item.intent].status # "none"
  /\ job[w].item.kind = "confirm" =>
        PaidBy(job[w].item.intent, job[w].item.hash, job[w].item.ledger)
  /\ job[w].item.kind = "expire" => Expiry[job[w].item.intent] < ledger

\* The row a worker has read: the UPDATE may follow, and the hash it saw stays.
SeenSound(w) == wpc[w] = "writeRow" =>
  LET item == job[w].item
      seen == job[w].seen
  IN /\ seen.status \in Statuses
     /\ CanTransition(seen.status, TargetStatus(item))
     /\ seen.hash # None => row[item.intent].hash = seen.hash
     /\ item.kind = "confirm" => seen.hash = item.hash

\* Which of its three lists a worker is going through.
PhaseSound(w) ==
  /\ wpc[w] \in {"idle", "readRow", "writeRow"} \/ job[w].phase =
       CASE wpc[w] \in {"receipts", "health"} -> "receipts"
         [] wpc[w] \in {"listExpired", "expiring"} -> "expiring"
         [] OTHER -> "events"
  /\ wpc[w] = "health" => job[w].todo = {}

WorkerSound(w) == /\ job[w].latest < ledger
                  /\ PhaseSound(w) /\ TodoSound(w) /\ ItemSound(w) /\ SeenSound(w)

WorkersSound == \A w \in Workers : WorkerSound(w)

\* The inductive invariant: the books agree with the chain, and everything a
\* call or a worker holds from an earlier read still bounds what it may write.
RecInv == /\ RecTypeOK
          /\ RowsSound /\ CallsSound /\ PhonesSound /\ EventsSound /\ WorkersSound

-----------------------------------------------------------------------------
Settled(i) == row[i].status = "submitted" /\ Receipt(row[i].hash) # "NOT_FOUND"

\* A submitted payment whose transaction is final on chain is eventually closed,
\* whatever cycles a throw cuts short and however two workers collide over it.
FinalReceiptClosesRow ==
  \A i \in Intents : Settled(i) ~> row[i].status \in {"confirmed", "failed"}

\* A request nobody completed does not stay open once its ledger has closed.
StaleRequestCloses ==
  \A i \in Intents :
    (row[i].status \in {"awaiting_approval", "authorized"} /\ Expiry[i] < ledger)
      ~> row[i].status \notin {"awaiting_approval", "authorized"}

\* "Closes out payments nobody completed" (expireStaleSettlements): an expired
\* row would mean nobody paid.  A lost report breaks it.
ExpiredMeansUnpaid ==
  \A i \in Intents : row[i].status = "expired" => ~Consumed(i)

\* "Without this a request that was never paid stays pending forever"
\* (expireStaleSettlements) read of submitted payments too: every submitted row
\* is eventually closed.  A transaction the network drops breaks it.
EverySubmissionCloses ==
  \A i \in Intents : row[i].status = "submitted" ~> row[i].status \in {"confirmed", "failed"}

=============================================================================
