------------------------- MODULE MerchantCounterProofs -------------------------
(***************************************************************************)
(* No customer is shown a request the API does not hold, and a publication *)
(* sent again is answered with what was stored: for any number of runs of  *)
(* the effect, deliveries under way, retries, requests and businesses.     *)
(*                                                                         *)
(* The argument: a run only ever hears the answer to its own delivery,     *)
(* because a delivery keeps its place as long as a run waits for it; the   *)
(* server says "stored" only of what it holds; and what it holds stays.    *)
(***************************************************************************)
EXTENDS MerchantCounter, TLAPS

RunRecord == [of : Priced \union {Nothing}, step : {"idle", "session", "send", "wait", "pause"},
              attempt : 0 .. 1, sends : 0 .. MaxSends, via : Deliveries \union {Nothing}, active : BOOLEAN]

DeliveryRecord == [of : Priced \union {Nothing}, late : BOOLEAN,
                   step : {"free", "policy", "key", "id", "insert", "answered", "lost"},
                   says : {"nothing", "stored", "conflict", "expired", "unavailable"}]

ShopSound == /\ profile \in Profiles \union {Nothing} /\ registered \in BOOLEAN
             /\ registering \subseteq Profiles
             /\ pending \in Priced \union {Nothing}
             /\ signed \subseteq Priced /\ onCounter \in BOOLEAN
             /\ health \in {"none", "ok"} /\ sees \subseteq Priced /\ over \subseteq Priced

HeldSound == answer \subseteq moved /\ moved \subseteq held /\ held \subseteq Priced

PublicationSound ==
  /\ publication \in [of : Priced \union {Nothing}, status : {"none", "publishing", "published", "failed"}]
  /\ publication.status = "published" => publication.of \in held

\* A run is about a request, waits for a delivery of its own, and has one left
\* when it is to send.
Waits(l) == /\ run[l].via # Nothing <=> run[l].step = "wait"
            /\ run[l].step # "idle" => run[l].of \in Priced
            /\ run[l].step = "send" => run[l].sends < MaxSends
            /\ run[l].via # Nothing => /\ delivery[run[l].via].step # "free"
                                       /\ delivery[run[l].via].of = run[l].of
            /\ \A k \in Runs \ {l} : run[k].via = run[l].via => run[l].via = Nothing

RunsSound == run \in [Runs -> RunRecord] /\ \A l \in Runs : Waits(l)

AnswerSound(d) == /\ delivery[d].step # "free" => delivery[d].of \in Priced
                  /\ delivery[d].says = "stored" => delivery[d].of \in held
                  /\ delivery[d].late =>
                       \/ delivery[d].step = "key" /\ delivery[d].of \in held
                       \/ delivery[d].step = "answered" /\ delivery[d].says = "stored"

DeliveriesSound == delivery \in [Deliveries -> DeliveryRecord] /\ \A d \in Deliveries : AnswerSound(d)

McInv == ShopSound /\ HeldSound /\ PublicationSound /\ RunsSound /\ DeliveriesSound

-----------------------------------------------------------------------------
(* What the invariant gives, where it starts, and what a step leaves alone.*)

LEMMA Shapes == McInv => McTypeOK
  BY DEF McInv, ShopSound, HeldSound, PublicationSound, RunsSound, RunRecord, DeliveriesSound,
         DeliveryRecord, McTypeOK

LEMMA ShowsHeld == McInv => ShownIsHeld
  BY DEF McInv, PublicationSound, ShownIsHeld, Shown, Published

LEMMA AnswersStored == McInv => StoredIsAnswered
  BY DEF McInv, DeliveriesSound, AnswerSound, StoredIsAnswered

LEMMA Resting ==
  ASSUME CounterAssumption
  PROVE  /\ NoRun \in RunRecord /\ NoRun.via = Nothing /\ NoRun.step = "idle"
         /\ NoDelivery \in DeliveryRecord /\ NoDelivery.says = "nothing" /\ ~NoDelivery.late
         /\ NoDelivery.step = "free"
  BY DEF CounterAssumption, NoRun, RunRecord, NoDelivery, DeliveryRecord

LEMMA Start == CounterAssumption /\ McInit => McInv
<1> SUFFICES ASSUME CounterAssumption, McInit PROVE McInv
  OBVIOUS
<1>1. ShopSound /\ HeldSound /\ PublicationSound
  BY DEF McInit, ShopSound, HeldSound, PublicationSound, NoPublication
<1>2. RunsSound
  BY Resting DEF McInit, RunsSound, Waits
<1>3. DeliveriesSound
  BY Resting DEF McInit, DeliveriesSound, AnswerSound
<1> QED BY <1>1, <1>2, <1>3 DEF McInv

LEMMA Kept ==
  ASSUME McInv
  PROVE  /\ UNCHANGED <<shopVars, pending, signed, onCounter, ledgerVars>> => ShopSound'
         /\ UNCHANGED <<statusVars, held>> => HeldSound'
         /\ UNCHANGED <<publication, held>> => PublicationSound'
         /\ UNCHANGED <<run, delivery>> => RunsSound'
         /\ UNCHANGED serverVars => DeliveriesSound'
<1>1. UNCHANGED <<shopVars, pending, signed, onCounter, ledgerVars>> => ShopSound'
  BY DEF McInv, ShopSound, shopVars, ledgerVars
<1>2. UNCHANGED <<statusVars, held>> => HeldSound'
  BY DEF McInv, HeldSound, statusVars
<1>3. UNCHANGED <<publication, held>> => PublicationSound'
  BY DEF McInv, PublicationSound
<1>4. UNCHANGED <<run, delivery>> => RunsSound'
  BY DEF McInv, RunsSound, Waits
<1>5. UNCHANGED serverVars => DeliveriesSound'
  BY DEF McInv, DeliveriesSound, AnswerSound, serverVars
<1> QED BY <1>1, <1>2, <1>3, <1>4, <1>5

\* One run goes on without a delivery, and no delivery of another run moves.
LEMMA RunTurns ==
  ASSUME McInv, NEW l \in Runs, NEW q \in RunRecord, q.via = Nothing, q.step # "wait",
         q.step # "idle" => q.of \in Priced, q.step = "send" => q.sends < MaxSends, SetRun(l, q),
         \A k \in Runs \ {l} : run[k].via # Nothing => delivery'[run[k].via] = delivery[run[k].via]
  PROVE  RunsSound'
<1>1. run \in [Runs -> RunRecord] /\ \A k \in Runs : Waits(k)
  BY DEF McInv, RunsSound
<1>2. run' \in [Runs -> RunRecord] /\ run'[l] = q /\ \A k \in Runs \ {l} : run'[k] = run[k]
  BY <1>1 DEF SetRun
<1>3. ASSUME NEW k \in Runs PROVE Waits(k)'
  BY <1>1, <1>2 DEF Waits
<1> QED BY <1>2, <1>3 DEF RunsSound

\* One delivery goes on, about the same request.
LEMMA DeliveryTurns ==
  ASSUME McInv, NEW d \in Deliveries, NEW x \in DeliveryRecord, delivery' = [delivery EXCEPT ![d] = x],
         x.of = delivery[d].of, delivery[d].step # "free", x.step # "free", UNCHANGED run, held \subseteq held',
         x.says = "stored" => x.of \in held',
         x.late => \/ x.step = "key" /\ x.of \in held'
                   \/ x.step = "answered" /\ x.says = "stored"
  PROVE  RunsSound' /\ DeliveriesSound'
<1>1. /\ delivery \in [Deliveries -> DeliveryRecord] /\ \A e \in Deliveries : AnswerSound(e)
      /\ run \in [Runs -> RunRecord] /\ \A l \in Runs : Waits(l)
  BY DEF McInv, DeliveriesSound, RunsSound
<1>2. /\ delivery' \in [Deliveries -> DeliveryRecord] /\ delivery'[d] = x
      /\ \A e \in Deliveries \ {d} : delivery'[e] = delivery[e]
  BY <1>1
<1>3. \A e \in Deliveries : AnswerSound(e)'
  BY <1>1, <1>2 DEF AnswerSound
<1>4. ASSUME NEW l \in Runs PROVE Waits(l)'
  <2>1. run[l].via \in Deliveries \union {Nothing}
    BY <1>1 DEF RunRecord
  <2> QED BY <1>1, <1>2, <2>1 DEF Waits
<1> QED BY <1>1, <1>2, <1>3, <1>4 DEF RunsSound, DeliveriesSound

-----------------------------------------------------------------------------
(* The effect of the screen.                                               *)

\* Runs that are only marked inactive still wait for what they waited for.
LEMMA RetiredRuns ==
  ASSUME McInv, UNCHANGED delivery, run' = Retired
  PROVE  RunsSound'
<1>1. run \in [Runs -> RunRecord] /\ \A k \in Runs : Waits(k)
  BY DEF McInv, RunsSound
<1>2. \A k \in Runs : run'[k] \in RunRecord /\ run'[k].via = run[k].via /\ run'[k].of = run[k].of
                      /\ run'[k].step = run[k].step /\ run'[k].sends = run[k].sends
  BY <1>1 DEF Retired, RunRecord
<1>3. run' \in [Runs -> RunRecord]
  BY <1>2 DEF Retired
<1>4. \A k \in Runs : Waits(k)'
  BY <1>1, <1>2 DEF Waits
<1> QED BY <1>3, <1>4 DEF RunsSound

LEMMA EffectSound ==
  ASSUME McInv, CounterAssumption, NEW r \in Priced \union {Nothing}, NEW m, NEW isRegistered,
         EffectRuns(r, m, isRegistered), UNCHANGED serverVars
  PROVE  PublicationSound' /\ RunsSound'
<1>1. CASE publication' = NoPublication /\ run' = Retired
  BY <1>1, RetiredRuns DEF PublicationSound, NoPublication, serverVars
<1>2. CASE /\ r # Nothing /\ publication' = [of |-> r, status |-> "publishing"]
           /\ \E l \in Runs :
                /\ run[l] = NoRun
                /\ run' = [Retired EXCEPT ![l] = [NoRun EXCEPT !.of = r, !.step = "session", !.active = TRUE]]
  <2>0. r \in Priced
    BY <1>2
  <2>1. PublicationSound'
    BY <1>2 DEF PublicationSound
  <2> DEFINE q == [NoRun EXCEPT !.of = r, !.step = "session", !.active = TRUE]
  <2>2. PICK l \in Runs : run[l] = NoRun /\ run' = [Retired EXCEPT ![l] = q]
    BY <1>2
  <2>3. NoRun \in RunRecord
    BY Resting
  <2>4. q \in RunRecord /\ q.via = Nothing /\ q.step = "session" /\ q.of = r
    BY <2>3, Resting DEF RunRecord
  <2> HIDE DEF q
  <2>5. run \in [Runs -> RunRecord] /\ \A k \in Runs : Waits(k)
    BY DEF McInv, RunsSound
  <2>6. \A k \in Runs : Retired[k] \in RunRecord /\ Retired[k].via = run[k].via /\ Retired[k].of = run[k].of
                        /\ Retired[k].step = run[k].step /\ Retired[k].sends = run[k].sends
    BY <2>5 DEF Retired, RunRecord
  <2>7. Retired \in [Runs -> RunRecord]
    BY <2>6 DEF Retired
  <2>8. run' \in [Runs -> RunRecord] /\ run'[l] = q /\ \A k \in Runs \ {l} : run'[k] = Retired[k]
    BY <2>2, <2>4, <2>7
  <2>9. \A k \in Runs : Waits(k)'
    BY <2>0, <2>4, <2>5, <2>6, <2>8 DEF Waits, serverVars
  <2> QED BY <2>1, <2>8, <2>9 DEF RunsSound
<1> QED BY <1>1, <1>2 DEF EffectRuns

-----------------------------------------------------------------------------
(* The screen and the business.                                            *)

LEMMA ScreenSteps ==
  ASSUME McInv, CounterAssumption, OpenCounter \/ LeaveCounter \/ Restart
  PROVE  McInv'
<1>1. CASE OpenCounter
  <2>1. PublicationSound' /\ RunsSound'
    BY <1>1, EffectSound DEF OpenCounter, McInv, ShopSound
  <2>2. ShopSound'
    BY <1>1 DEF OpenCounter, McInv, ShopSound, shopVars, ledgerVars
  <2> QED BY <1>1, <2>1, <2>2, Kept DEF OpenCounter, McInv, serverVars
<1>2. CASE LeaveCounter
  <2>1. RunsSound' /\ PublicationSound'
    BY <1>2, RetiredRuns DEF LeaveCounter, Unmounts, serverVars, PublicationSound, NoPublication
  <2>2. ShopSound'
    BY <1>2 DEF LeaveCounter, Unmounts, McInv, ShopSound, shopVars, ledgerVars
  <2> QED BY <1>2, <2>1, <2>2, Kept DEF LeaveCounter, McInv, serverVars
<1>3. CASE Restart
  <2>1. PublicationSound'
    BY <1>3 DEF Restart, PublicationSound, NoPublication
  <2>2. RunsSound'
    BY <1>3, Resting DEF Restart, RunsSound, Waits
  <2>3. ShopSound' /\ HeldSound'
    BY <1>3 DEF Restart, McInv, ShopSound, HeldSound, serverVars
  <2> QED BY <1>3, <2>1, <2>2, <2>3, Kept DEF Restart, McInv
<1> QED BY <1>1, <1>2, <1>3

LEMMA BusinessSteps ==
  ASSUME McInv, CounterAssumption, NEW m \in Profiles, SetUpBusiness(m) \/ RegistrationEnds(m)
  PROVE  McInv'
<1>1. CASE SetUpBusiness(m)
  <2>1. ShopSound'
    BY <1>1 DEF SetUpBusiness, Creates, shopOnly, McInv, ShopSound, ledgerVars
  <2> QED BY <1>1, <2>1, Kept DEF SetUpBusiness, shopOnly, McInv, serverVars
<1>2. CASE RegistrationEnds(m)
  <2>1. ShopSound'
    BY <1>2 DEF RegistrationEnds, shopOnly, McInv, ShopSound, ledgerVars
  <2>2. pending \in Priced \union {Nothing}
    BY DEF McInv, ShopSound
  <2>3. PublicationSound' /\ RunsSound'
    <3>1. CASE EffectRuns(pending, profile, TRUE)
      BY <1>2, <2>2, <3>1, EffectSound DEF RegistrationEnds, shopOnly
    <3>2. CASE UNCHANGED <<publication, run>>
      BY <1>2, <3>2, Kept DEF RegistrationEnds, shopOnly, serverVars
    <3> QED BY <1>2, <3>1, <3>2 DEF RegistrationEnds
  <2> QED BY <1>2, <2>1, <2>3, Kept DEF RegistrationEnds, shopOnly, McInv, serverVars
<1> QED BY <1>1, <1>2

LEMMA AccountSteps ==
  ASSUME McInv, CounterAssumption, RegisterAgain \/ SignOut
  PROVE  McInv'
<1>1. CASE RegisterAgain
  <2>1. ShopSound'
    BY <1>1 DEF RegisterAgain, shopOnly, McInv, ShopSound, ledgerVars
  <2> QED BY <1>1, <2>1, Kept DEF RegisterAgain, shopOnly, McInv, serverVars
<1>2. CASE SignOut
  <2>1. ShopSound'
    BY <1>2 DEF SignOut, Unmounts, shopOnly, McInv, ShopSound, ledgerVars
  <2>2. RunsSound' /\ PublicationSound'
    BY <1>2, RetiredRuns DEF SignOut, Unmounts, shopOnly, serverVars, PublicationSound, NoPublication
  <2> QED BY <1>2, <2>1, <2>2, Kept DEF SignOut, shopOnly, McInv, serverVars
<1> QED BY <1>1, <1>2

-----------------------------------------------------------------------------
(* The request and what the counter learns of it.                          *)

LEMMA RequestSteps ==
  ASSUME McInv, CounterAssumption, NEW r \in Priced, CreateRequest(r) \/ Claim(r) \/ LedgerPasses(r)
  PROVE  McInv'
<1>1. CASE CreateRequest(r)
  <2>1. ShopSound'
    BY <1>1 DEF CreateRequest, Signs, McInv, ShopSound, shopVars, ledgerVars
  <2>2. PublicationSound' /\ RunsSound'
    BY <1>1, EffectSound DEF CreateRequest
  <2> QED BY <1>1, <2>1, <2>2, Kept DEF CreateRequest, McInv, serverVars
<1>2. CASE Claim(r)
  <2>1. HeldSound'
    BY <1>2 DEF Claim, McInv, HeldSound, serverVars
  <2> QED BY <1>2, <2>1, Kept DEF Claim, McInv, serverVars
<1>3. CASE LedgerPasses(r)
  <2>1. ShopSound'
    BY <1>3 DEF LedgerPasses, McInv, ShopSound, shopVars
  <2> QED BY <1>3, <2>1, Kept DEF LedgerPasses, McInv, serverVars
<1> QED BY <1>1, <1>2, <1>3

LEMMA CounterSteps ==
  ASSUME McInv, CounterAssumption, ClearRequest \/ RetryPublish \/ PollStatus \/ ReadLedger \/ LedgerFails
  PROVE  McInv'
<1>1. CASE ClearRequest
  <2>1. ShopSound'
    BY <1>1 DEF ClearRequest, McInv, ShopSound, shopVars, ledgerVars
  <2>2. PublicationSound' /\ RunsSound'
    BY <1>1, EffectSound DEF ClearRequest
  <2> QED BY <1>1, <2>1, <2>2, Kept DEF ClearRequest, McInv, serverVars
<1>2. CASE RetryPublish
  <2>1. pending \in Priced \union {Nothing}
    BY DEF McInv, ShopSound
  <2>2. PublicationSound' /\ RunsSound'
    BY <1>2, <2>1, EffectSound DEF RetryPublish
  <2> QED BY <1>2, <2>2, Kept DEF RetryPublish, phoneOnly, McInv, serverVars
<1>3. CASE PollStatus
  <2>1. HeldSound'
    BY <1>3 DEF PollStatus, McInv, HeldSound, serverVars
  <2> QED BY <1>3, <2>1, Kept DEF PollStatus, McInv, serverVars
<1>4. CASE ReadLedger
  <2>1. ShopSound'
    BY <1>4 DEF ReadLedger, McInv, ShopSound, shopVars
  <2>2. PublicationSound' /\ RunsSound'
    <3>1. CASE EffectRuns(Nothing, profile, registered)
      BY <1>4, <3>1, EffectSound DEF ReadLedger
    <3>2. CASE UNCHANGED <<publication, run>>
      BY <1>4, <3>2, Kept DEF ReadLedger, serverVars
    <3> QED BY <1>4, <3>1, <3>2 DEF ReadLedger
  <2> QED BY <1>4, <2>1, <2>2, Kept DEF ReadLedger, McInv, serverVars
<1>5. CASE LedgerFails
  <2>1. ShopSound'
    BY <1>5 DEF LedgerFails, McInv, ShopSound, shopVars
  <2> QED BY <1>5, <2>1, Kept DEF LedgerFails, McInv, serverVars
<1> QED BY <1>1, <1>2, <1>3, <1>4, <1>5

-----------------------------------------------------------------------------
(* Publishing, at the phone.                                               *)

\* The run ends or goes on, and says nothing to the screen but "failed".
LEMMA FailureSound ==
  ASSUME McInv, CounterAssumption, NEW l \in Runs, NEW refused \in BOOLEAN, RunFails(l, refused),
         run[l].of \in Priced, UNCHANGED held,
         \A k \in Runs \ {l} : run[k].via # Nothing => delivery'[run[k].via] = delivery[run[k].via]
  PROVE  PublicationSound' /\ RunsSound'
<1>1. run[l] \in RunRecord
  BY DEF McInv, RunsSound
<1>2. CASE SetRun(l, [run[l] EXCEPT !.step = "pause", !.via = Nothing]) /\ UNCHANGED publication
  <2> DEFINE q == [run[l] EXCEPT !.step = "pause", !.via = Nothing]
  <2>1. q \in RunRecord /\ q.via = Nothing /\ q.step = "pause" /\ q.of = run[l].of
    BY <1>1 DEF RunRecord
  <2>2. SetRun(l, q)
    BY <1>2
  <2> HIDE DEF q
  <2>3. RunsSound'
    BY <2>1, <2>2, RunTurns
  <2> QED BY <1>2, <2>3, Kept
<1>3. CASE SetRun(l, NoRun) /\ Shows(l, "failed")
  <2>1. RunsSound'
    BY <1>3, Resting, RunTurns
  <2>2. PublicationSound'
    BY <1>1, <1>3 DEF Shows, McInv, PublicationSound, RunRecord
  <2> QED BY <2>1, <2>2
<1> QED BY <1>2, <1>3 DEF RunFails

LEMMA RetrySound ==
  ASSUME McInv, CounterAssumption, NEW l \in Runs, NEW retryable \in BOOLEAN, Retries(l, retryable),
         run[l].of \in Priced, UNCHANGED held,
         \A k \in Runs \ {l} : run[k].via # Nothing => delivery'[run[k].via] = delivery[run[k].via]
  PROVE  PublicationSound' /\ RunsSound'
<1>1. run[l] \in RunRecord
  BY DEF McInv, RunsSound
<1>2. CASE /\ retryable /\ run[l].sends < MaxSends
           /\ SetRun(l, [run[l] EXCEPT !.step = "send", !.via = Nothing]) /\ UNCHANGED publication
  <2> DEFINE q == [run[l] EXCEPT !.step = "send", !.via = Nothing]
  <2>1. q \in RunRecord /\ q.via = Nothing /\ q.step = "send" /\ q.sends = run[l].sends
        /\ q.of = run[l].of
    BY <1>1 DEF RunRecord
  <2>2. SetRun(l, q)
    BY <1>2
  <2> HIDE DEF q
  <2>3. RunsSound'
    BY <1>2, <2>1, <2>2, RunTurns
  <2> QED BY <1>2, <2>3, Kept
<1>3. CASE RunFails(l, FALSE)
  BY <1>3, FailureSound
<1> QED BY <1>2, <1>3 DEF Retries

LEMMA OpenSessionStep ==
  ASSUME McInv, CounterAssumption, NEW l \in Runs, OpenSession(l)
  PROVE  McInv'
<1>1. run[l] \in RunRecord /\ Waits(l)
  BY DEF McInv, RunsSound
<1>2. PublicationSound' /\ RunsSound'
  <2>1. CASE SetRun(l, [run[l] EXCEPT !.step = "send", !.sends = 0]) /\ UNCHANGED publication
    <3> DEFINE q == [run[l] EXCEPT !.step = "send", !.sends = 0]
    <3>a. run[l] \in RunRecord
      BY <1>1
    <3>b. run[l].via = Nothing /\ run[l].of \in Priced
      BY <1>1 DEF OpenSession, Waits
    <3>c. 0 \in 0 .. MaxSends /\ 0 < MaxSends
      BY DEF CounterAssumption
    <3>1. q \in RunRecord /\ q.via = Nothing /\ q.step = "send" /\ q.sends < MaxSends
          /\ q.of = run[l].of
      BY <3>a, <3>b, <3>c DEF RunRecord
    <3>2. SetRun(l, q)
      BY <2>1
    <3> HIDE DEF q
    <3>3. RunsSound'
      BY <3>1, <3>2, <3>b, RunTurns DEF OpenSession, serverVars
    <3> QED BY <2>1, <3>3, Kept DEF OpenSession, serverVars
  <2>2. ASSUME NEW refused \in BOOLEAN, RunFails(l, refused) PROVE PublicationSound' /\ RunsSound'
    BY <1>1, <2>2, FailureSound DEF OpenSession, Waits, serverVars
  <2> QED BY <2>1, <2>2 DEF OpenSession
<1> QED BY <1>2, Kept DEF OpenSession, phoneOnly, McInv, serverVars

LEMMA PauseEndsStep ==
  ASSUME McInv, CounterAssumption, NEW l \in Runs, PauseEnds(l)
  PROVE  McInv'
<1> DEFINE p == [run[l] EXCEPT !.step = "session", !.attempt = 1]
           q == IF run[l].active THEN p ELSE NoRun
<1>1. run[l] \in RunRecord
  BY DEF McInv, RunsSound
<1>2. run[l].via = Nothing /\ run[l].of \in Priced
  BY DEF McInv, RunsSound, PauseEnds, Waits
<1>3. p \in RunRecord /\ p.via = Nothing /\ p.step = "session" /\ p.of = run[l].of
  <2>1. 1 \in 0 .. 1
    OBVIOUS
  <2> QED BY <1>1, <1>2, <2>1 DEF RunRecord
<1>4. SetRun(l, q) /\ phoneOnly /\ UNCHANGED <<publication, serverVars>>
  BY DEF PauseEnds
<1> HIDE DEF p
<1>5. /\ q \in RunRecord /\ q.via = Nothing /\ q.step \notin {"wait", "send"}
      /\ q.step # "idle" => q.of \in Priced
  BY <1>2, <1>3, Resting
<1> HIDE DEF q
<1>6. UNCHANGED delivery /\ UNCHANGED held
  BY <1>4 DEF serverVars
<1>7. RunsSound'
  BY <1>4, <1>5, <1>6, RunTurns
<1> QED BY <1>4, <1>6, <1>7, Kept DEF phoneOnly, McInv, serverVars

\* A delivery nobody waits for, of the request the run is about.
LEMMA SendStep ==
  ASSUME McInv, CounterAssumption, NEW l \in Runs, NEW d \in Deliveries, SendPublication(l, d)
  PROVE  McInv'
<1>1. /\ run \in [Runs -> RunRecord] /\ \A k \in Runs : Waits(k)
      /\ delivery \in [Deliveries -> DeliveryRecord] /\ \A e \in Deliveries : AnswerSound(e)
  BY DEF McInv, RunsSound, DeliveriesSound
<1>2. Nothing \notin Deliveries /\ MaxSends \in Nat
  BY DEF CounterAssumption
<1> DEFINE q == [run[l] EXCEPT !.step = "wait", !.sends = @ + 1, !.via = d]
           x == [NoDelivery EXCEPT !.of = run[l].of, !.step = "policy"]
<1>3. q \in RunRecord /\ q.via = d /\ q.step = "wait" /\ q.of = run[l].of
  <2>1. run[l] \in RunRecord
    BY <1>1
  <2>2. run[l].sends + 1 \in 0 .. MaxSends
    BY <1>1, <1>2, <2>1 DEF SendPublication, Waits, RunRecord
  <2> QED BY <1>2, <2>1, <2>2 DEF RunRecord
<1>4. x \in DeliveryRecord /\ x.of = run[l].of /\ x.step = "policy" /\ x.says = "nothing" /\ ~x.late
  <2>1. NoDelivery \in DeliveryRecord
    BY Resting
  <2>2. run[l].of \in Priced \union {Nothing}
    BY <1>1 DEF RunRecord
  <2> QED BY <2>1, <2>2, Resting DEF DeliveryRecord
<1>5. run' = [run EXCEPT ![l] = q] /\ delivery' = [delivery EXCEPT ![d] = x] /\ UNCHANGED held
  BY DEF SendPublication, SetRun
<1> HIDE DEF q, x
<1>6. /\ run' \in [Runs -> RunRecord] /\ run'[l] = q /\ \A k \in Runs \ {l} : run'[k] = run[k]
      /\ delivery' \in [Deliveries -> DeliveryRecord] /\ delivery'[d] = x
      /\ \A e \in Deliveries \ {d} : delivery'[e] = delivery[e]
  BY <1>1, <1>3, <1>4, <1>5
<1>7. \A k \in Runs : run[k].via # d
  BY <1>1, <1>2, Resting DEF SendPublication, Waits
<1>8. \A k \in Runs : run[k].via \in Deliveries \union {Nothing}
  BY <1>1 DEF RunRecord
<1>9. run[l].of \in Priced
  BY <1>1 DEF SendPublication, Waits
<1>10. \A k \in Runs : Waits(k)'
  BY <1>9, <1>1, <1>2, <1>3, <1>4, <1>6, <1>7, <1>8 DEF Waits
<1>11. \A e \in Deliveries : AnswerSound(e)'
  BY <1>9, <1>1, <1>4, <1>5, <1>6 DEF AnswerSound
<1> QED BY <1>6, <1>10, <1>11, Kept DEF SendPublication, phoneOnly, McInv, RunsSound, DeliveriesSound

\* The answer a run hears is about its own request.
LEMMA HearStep ==
  ASSUME McInv, CounterAssumption, NEW l \in Runs, Hear(l)
  PROVE  McInv'
<1>1. /\ run \in [Runs -> RunRecord] /\ \A k \in Runs : Waits(k)
      /\ delivery \in [Deliveries -> DeliveryRecord] /\ \A e \in Deliveries : AnswerSound(e)
  BY DEF McInv, RunsSound, DeliveriesSound
<1> DEFINE d == run[l].via
<1>2. d \in Deliveries /\ delivery[d].of = run[l].of /\ run[l].of \in Priced
  BY <1>1 DEF Hear, Waits, RunRecord
<1>3. delivery' = [delivery EXCEPT ![d] = NoDelivery] /\ UNCHANGED held
  BY DEF Hear
<1>4. \A k \in Runs \ {l} : run[k].via # Nothing => delivery'[run[k].via] = delivery[run[k].via]
  <2>1. \A k \in Runs \ {l} : run[k].via # Nothing => run[k].via \in Deliveries \ {d}
    BY <1>1, <1>2 DEF Waits, RunRecord
  <2> QED BY <1>1, <1>3, <2>1
<1>5. DeliveriesSound'
  BY <1>1, <1>3, Resting DEF DeliveriesSound, AnswerSound
<1>6. PublicationSound' /\ RunsSound'
  <2>1. CASE Accepts(delivery[d].says) /\ SetRun(l, NoRun) /\ Shows(l, "published")
    <3>1. delivery[d].of \in held
      BY <1>1, <1>2, <2>1 DEF Accepts, AnswerSound
    <3>2. PublicationSound'
      BY <1>1, <1>2, <1>3, <2>1, <3>1 DEF Shows, McInv, PublicationSound, RunRecord
    <3> QED BY <1>4, <2>1, <3>2, Resting, RunTurns
  <2>2. CASE Retries(l, delivery[d].says = "unavailable")
    BY <1>2, <1>3, <1>4, <2>2, RetrySound
  <2> QED BY <2>1, <2>2 DEF Hear
<1> QED BY <1>3, <1>5, <1>6, Kept DEF Hear, phoneOnly, McInv

LEMMA TimeOutStep ==
  ASSUME McInv, CounterAssumption, NEW l \in Runs, TimeOut(l)
  PROVE  McInv'
<1>1. run[l].of \in Priced
  BY DEF McInv, RunsSound, TimeOut, Waits
<1>2. PublicationSound' /\ RunsSound'
  BY <1>1, RetrySound DEF TimeOut, serverVars
<1> QED BY <1>2, Kept DEF TimeOut, phoneOnly, McInv, serverVars

-----------------------------------------------------------------------------
(* Publishing, at the server.                                              *)

\* What a delivery becomes when the server only moves it on, or answers it.
Moved(d, step) == [delivery[d] EXCEPT !.step = step]
Answered(d, says) == [delivery[d] EXCEPT !.step = "answered", !.says = says]
Looked(d, late) == [delivery[d] EXCEPT !.step = "key", !.late = late]

LEMMA Deeds ==
  ASSUME McInv, NEW d \in Deliveries
  PROVE  /\ \A step \in {"lost", "id", "insert"} : Reaches(d, step) =>
              /\ delivery' = [delivery EXCEPT ![d] = Moved(d, step)] /\ Moved(d, step) \in DeliveryRecord
              /\ Moved(d, step).of = delivery[d].of /\ Moved(d, step).step = step
              /\ Moved(d, step).says = delivery[d].says /\ Moved(d, step).late = delivery[d].late
         /\ \A says \in {"stored", "conflict", "expired", "unavailable"} : Says(d, says) =>
              /\ delivery' = [delivery EXCEPT ![d] = Answered(d, says)] /\ Answered(d, says) \in DeliveryRecord
              /\ Answered(d, says).of = delivery[d].of /\ Answered(d, says).step = "answered"
              /\ Answered(d, says).says = says /\ Answered(d, says).late = delivery[d].late
         /\ \A late \in BOOLEAN :
              /\ Looked(d, late) \in DeliveryRecord
              /\ Looked(d, late).of = delivery[d].of /\ Looked(d, late).step = "key"
              /\ Looked(d, late).says = delivery[d].says /\ Looked(d, late).late = late
<1>1. delivery \in [Deliveries -> DeliveryRecord]
  BY DEF McInv, DeliveriesSound
<1>2. delivery[d] \in DeliveryRecord
  BY <1>1
<1>3. ASSUME NEW step \in {"lost", "id", "insert"}, Reaches(d, step)
      PROVE  /\ delivery' = [delivery EXCEPT ![d] = Moved(d, step)] /\ Moved(d, step) \in DeliveryRecord
             /\ Moved(d, step).of = delivery[d].of /\ Moved(d, step).step = step
             /\ Moved(d, step).says = delivery[d].says /\ Moved(d, step).late = delivery[d].late
  BY <1>1, <1>2, <1>3 DEF Reaches, Moved, DeliveryRecord
<1>4. ASSUME NEW says \in {"stored", "conflict", "expired", "unavailable"}, Says(d, says)
      PROVE  /\ delivery' = [delivery EXCEPT ![d] = Answered(d, says)] /\ Answered(d, says) \in DeliveryRecord
             /\ Answered(d, says).of = delivery[d].of /\ Answered(d, says).step = "answered"
             /\ Answered(d, says).says = says /\ Answered(d, says).late = delivery[d].late
  BY <1>1, <1>2, <1>4 DEF Says, Answered, DeliveryRecord
<1>5. ASSUME NEW late \in BOOLEAN
      PROVE  /\ Looked(d, late) \in DeliveryRecord
             /\ Looked(d, late).of = delivery[d].of /\ Looked(d, late).step = "key"
             /\ Looked(d, late).says = delivery[d].says /\ Looked(d, late).late = late
  BY <1>2 DEF Looked, DeliveryRecord
<1> QED BY <1>3, <1>4, <1>5

\* The steps that leave what the server holds as it is.
LEMMA HandlerSteps ==
  ASSUME McInv, NEW d \in Deliveries, Lose(d) \/ CheckPolicy(d) \/ ReadKey(d) \/ ReadId(d)
  PROVE  McInv'
<1>1. AnswerSound(d) /\ delivery[d].step # "free"
  BY DEF McInv, DeliveriesSound, Lose, CheckPolicy, ReadKey, ReadId
<1>2. UNCHANGED held /\ serverOnly
  BY DEF Lose, CheckPolicy, ReadKey, ReadId
<1>3. UNCHANGED run
  BY <1>2 DEF serverOnly
<1>4. RunsSound' /\ DeliveriesSound'
  <2>1. CASE Lose(d)
    BY <1>1, <1>2, <1>3, <2>1, Deeds, DeliveryTurns DEF Lose, AnswerSound
  <2>2. CASE CheckPolicy(d)
    <3>1. ~delivery[d].late
      BY <1>1, <2>2 DEF CheckPolicy, AnswerSound
    <3>2. ASSUME NEW says \in {"expired", "unavailable"}, Says(d, says) PROVE RunsSound' /\ DeliveriesSound'
      BY <1>1, <1>2, <1>3, <3>1, <3>2, Deeds, DeliveryTurns
    <3> DEFINE known == delivery[d].of \in held
    <3>3. known \in BOOLEAN
      OBVIOUS
    <3>4. CASE delivery' = [delivery EXCEPT ![d].step = "key", ![d].late = known]
      <4>1. delivery \in [Deliveries -> DeliveryRecord]
        BY DEF McInv, DeliveriesSound
      <4>2. delivery' = [delivery EXCEPT ![d] = Looked(d, known)]
        BY <3>4, <4>1 DEF Looked, DeliveryRecord
      <4>3. /\ Looked(d, known) \in DeliveryRecord /\ Looked(d, known).of = delivery[d].of
            /\ Looked(d, known).step = "key" /\ Looked(d, known).says = delivery[d].says
            /\ Looked(d, known).late = known
        BY <3>3, Deeds
      <4> HIDE DEF known
      <4>4. known => delivery[d].of \in held
        BY DEF known
      <4> QED BY <1>1, <1>2, <1>3, <4>2, <4>3, <4>4, DeliveryTurns DEF AnswerSound
    <3> QED BY <2>2, <3>2, <3>4 DEF CheckPolicy
  <2>3. CASE ReadKey(d)
    <3>1. CASE delivery[d].of \in held /\ Says(d, "stored")
      BY <1>1, <1>2, <1>3, <3>1, Deeds, DeliveryTurns DEF AnswerSound
    <3>2. CASE delivery[d].of \notin held /\ Reaches(d, "id")
      <4>1. ~delivery[d].late
        BY <1>1, <2>3, <3>2 DEF ReadKey, AnswerSound
      <4> QED BY <1>1, <1>2, <1>3, <3>2, <4>1, Deeds, DeliveryTurns DEF AnswerSound
    <3> QED BY <2>3, <3>1, <3>2 DEF ReadKey, KnownByKey
  <2>4. CASE ReadId(d)
    <3>1. ~delivery[d].late
      BY <1>1, <2>4 DEF ReadId, AnswerSound
    <3>2. CASE Says(d, "conflict")
      BY <1>1, <1>2, <1>3, <3>1, <3>2, Deeds, DeliveryTurns
    <3>3. CASE Reaches(d, "insert")
      BY <1>1, <1>2, <1>3, <3>1, <3>3, Deeds, DeliveryTurns DEF AnswerSound
    <3> QED BY <2>4, <3>2, <3>3 DEF ReadId
  <2> QED BY <2>1, <2>2, <2>3, <2>4
<1> QED BY <1>2, <1>4, Kept DEF serverOnly, McInv

LEMMA InsertStep ==
  ASSUME McInv, NEW d \in Deliveries, Insert(d)
  PROVE  McInv'
<1>1. AnswerSound(d) /\ delivery[d] \in DeliveryRecord /\ delivery[d].step = "insert" /\ UNCHANGED run
  BY DEF McInv, DeliveriesSound, Insert, serverOnly
<1>2. ~delivery[d].late
  BY <1>1 DEF Insert, AnswerSound
<1>3. CASE Says(d, "unavailable") /\ UNCHANGED held
  <2>1. RunsSound' /\ DeliveriesSound'
    BY <1>1, <1>2, <1>3, Deeds, DeliveryTurns
  <2> QED BY <1>3, <2>1, Kept DEF Insert, serverOnly, McInv
<1>4. CASE Says(d, "stored") /\ held' = held \union {delivery[d].of}
  <2>1. RunsSound' /\ DeliveriesSound'
    BY <1>1, <1>2, <1>4, Deeds, DeliveryTurns
  <2>2. PublicationSound'
    BY <1>4 DEF Insert, serverOnly, McInv, PublicationSound
  <2>3. HeldSound'
    BY <1>1, <1>4 DEF Insert, serverOnly, statusVars, McInv, HeldSound, AnswerSound
  <2> QED BY <2>1, <2>2, <2>3, Kept DEF Insert, serverOnly, McInv
<1> QED BY <1>3, <1>4 DEF Insert

LEMMA ForgetsStep ==
  ASSUME McInv, CounterAssumption, NEW d \in Deliveries, Forgets(d)
  PROVE  McInv'
<1>1. /\ delivery \in [Deliveries -> DeliveryRecord] /\ \A e \in Deliveries : AnswerSound(e)
      /\ run \in [Runs -> RunRecord] /\ \A l \in Runs : Waits(l)
  BY DEF McInv, DeliveriesSound, RunsSound
<1>2. delivery' = [delivery EXCEPT ![d] = NoDelivery] /\ UNCHANGED held /\ UNCHANGED run
  BY DEF Forgets, serverOnly
<1>3. DeliveriesSound'
  BY <1>1, <1>2, Resting DEF DeliveriesSound, AnswerSound
<1>4. ASSUME NEW l \in Runs PROVE Waits(l)'
  <2>1. run[l].via \in (Deliveries \ {d}) \union {Nothing}
    BY <1>1 DEF RunRecord, Forgets
  <2> QED BY <1>1, <1>2, <2>1 DEF Waits
<1> QED BY <1>1, <1>2, <1>3, <1>4, Kept DEF Forgets, serverOnly, McInv, RunsSound

-----------------------------------------------------------------------------
(* The theorems.                                                           *)

LEMMA EveryStep == CounterAssumption /\ McInv /\ [McNext]_mcVars => McInv'
<1> SUFFICES ASSUME CounterAssumption, McInv, [McNext]_mcVars PROVE McInv'
  OBVIOUS
<1>1. CASE OpenCounter \/ LeaveCounter \/ Restart
  BY <1>1, ScreenSteps
<1>2. CASE \E m \in Profiles : SetUpBusiness(m) \/ RegistrationEnds(m)
  BY <1>2, BusinessSteps
<1>3. CASE RegisterAgain \/ SignOut
  BY <1>3, AccountSteps
<1>4. CASE \E r \in Priced : CreateRequest(r) \/ Claim(r) \/ LedgerPasses(r)
  BY <1>4, RequestSteps
<1>5. CASE ClearRequest \/ RetryPublish \/ PollStatus \/ ReadLedger \/ LedgerFails
  BY <1>5, CounterSteps
<1>6. CASE \E l \in Runs : PublishStep(l)
  BY <1>6, OpenSessionStep, PauseEndsStep, HearStep, TimeOutStep, SendStep DEF PublishStep
<1>7. CASE \E d \in Deliveries : ServerStep(d) \/ Lose(d)
  BY <1>7, HandlerSteps, InsertStep, ForgetsStep DEF ServerStep
<1>8. CASE UNCHANGED mcVars
  BY <1>8, Kept DEF mcVars, shopVars, statusVars, ledgerVars, McInv, serverVars
<1> QED BY <1>1, <1>2, <1>3, <1>4, <1>5, <1>6, <1>7, <1>8 DEF McNext

\* The runs of the effect, the deliveries they wait for and what the API holds
\* agree, whatever timeouts, retries and remounts came before.
THEOREM CounterSound ==
  ASSUME CounterAssumption
  PROVE  McSpec => []McInv
<1>1. McInit => McInv
  BY Start
<1>2. McInv /\ [McNext]_mcVars => McInv'
  BY EveryStep
<1> QED BY <1>1, <1>2, PTL DEF McSpec

\* The variables of the counter keep their types.
THEOREM CounterTypes ==
  ASSUME CounterAssumption
  PROVE  McSpec => []McTypeOK
BY CounterSound, Shapes, PTL

\* What a customer is shown is held by the API.
THEOREM ShownRequestsAreHeld ==
  ASSUME CounterAssumption
  PROVE  McSpec => []ShownIsHeld
BY CounterSound, ShowsHeld, PTL

\* A publication repeated after the request was stored is answered with it.
THEOREM RetriesAreAnswered ==
  ASSUME CounterAssumption
  PROVE  McSpec => []StoredIsAnswered
BY CounterSound, AnswersStored, PTL
=============================================================================
