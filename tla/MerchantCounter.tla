---------------------------- MODULE MerchantCounter ----------------------------
(***************************************************************************)
(* The merchant's counter: a price becomes a signed request                *)
(* (MerchantRequestScreen, pricedRequest, merchantProfile), the request is *)
(* published to the API (merchantRequestStatus, client, IntentService), and*)
(* its code is shown for as long as it may be paid.                        *)
(*                                                                         *)
(* A publication is an effect of the screen.  When the request, the        *)
(* business or the number of attempts changes, React runs it again and     *)
(* only marks the earlier run inactive: its calls go on.  A call that takes*)
(* too long is abandoned by the phone and not by the server, so two        *)
(* deliveries of one publication may run there at once.                    *)
(***************************************************************************)
EXTENDS Naturals, FiniteSets

CONSTANTS Priced,     \* requests the merchant may sign
          Profiles,   \* businesses set up on this phone, one after another
          Runs,       \* bound: runs of the publication effect under way
          Deliveries, \* bound: publications the server is handling
          MaxSends,   \* RetryPolicy.attempts
          Nothing

\* What the values of the constants must satisfy; assumed where they are given.
CounterAssumption == Nothing \notin Priced \union Profiles \union Deliveries
                     /\ MaxSends \in Nat \ {0}

VARIABLES profile, registered, \* merchantProfile, merchantRegisteredOnChain
          registering,         \* businesses in registerMerchantForTestnet
          pending,             \* pendingRequest
          signed,              \* requests made so far
          onCounter,           \* the screen is open
          publication,         \* PublicationState
          run,                 \* run[l]: one run of the effect
          moved, answer,       \* requests a customer claimed, and those the counter knows of
          health, sees,        \* useStellarHealth: its state, requests it knows expired
          delivery,            \* delivery[d]: POST /v1/payment-intents at the server
          held,                \* payment_intents and their settlements
          over                 \* requests whose last ledger has closed

shopVars  == <<profile, registered, registering>>
serverVars == <<delivery, held>>
ledgerVars == <<health, sees, over>>
statusVars == <<moved, answer>>
mcVars == <<shopVars, pending, signed, onCounter, publication, run, statusVars, ledgerVars, serverVars>>

NoPublication == [of |-> Nothing, status |-> "none"]
NoRun      == [of |-> Nothing, step |-> "idle", attempt |-> 0, sends |-> 0, via |-> Nothing, active |-> FALSE]
NoDelivery == [of |-> Nothing, step |-> "free", says |-> "nothing", late |-> FALSE]

McInit == /\ profile = Nothing /\ registered = FALSE
          /\ registering = {}
          /\ pending = Nothing /\ signed = {} /\ onCounter = FALSE
          /\ publication = NoPublication
          /\ run = [l \in Runs |-> NoRun]
          /\ health = "none" /\ sees = {} /\ over = {}
          /\ delivery = [d \in Deliveries |-> NoDelivery]
          /\ held = {} /\ moved = {} /\ answer = {}

-----------------------------------------------------------------------------
(* The effect that publishes, run by every change of what it depends on.   *)

Retired == [l \in Runs |-> [run[l] EXCEPT !.active = FALSE]]

\* Nothing to publish, or a new run; runs already under way keep going.
EffectRuns(r, m, isRegistered) ==
  IF r = Nothing \/ m = Nothing \/ ~isRegistered
  THEN publication' = NoPublication /\ run' = Retired
  ELSE /\ publication' = [of |-> r, status |-> "publishing"]
       /\ \E l \in Runs :
            /\ run[l] = NoRun
            /\ run' = [Retired EXCEPT ![l] = [NoRun EXCEPT !.of = r, !.step = "session", !.active = TRUE]]

\* The screen goes: its state with it, and only its cleanup runs.
Unmounts == onCounter' = FALSE /\ publication' = NoPublication /\ run' = Retired

OpenCounter ==
  /\ ~onCounter /\ profile # Nothing /\ onCounter' = TRUE
  /\ EffectRuns(pending, profile, registered)
  /\ UNCHANGED <<shopVars, pending, signed, statusVars, ledgerVars, serverVars>>

LeaveCounter ==
  /\ onCounter /\ Unmounts
  /\ UNCHANGED <<shopVars, pending, signed, statusVars, ledgerVars, serverVars>>

\* The process ends: the store is restored, the caches are not.
Restart ==
  /\ onCounter' = FALSE /\ publication' = NoPublication /\ run' = [l \in Runs |-> NoRun]
  /\ health' = "none" /\ sees' = {}
  /\ registering' = {} /\ answer' = {}
  /\ UNCHANGED <<profile, registered, pending, signed, moved, over, serverVars>>

-----------------------------------------------------------------------------
(* The business.                                                           *)

shopOnly == UNCHANGED <<signed, statusVars, ledgerVars, serverVars>>

\* createMerchantProfile, saveMerchantProfile.
Creates(m) == profile = Nothing /\ profile' = m /\ registered' = FALSE

\* MerchantOnboardingScreen: the business, and its first registration.
SetUpBusiness(m) ==
  /\ Creates(m) /\ ~onCounter /\ m \notin registering
  /\ registering' = registering \union {m}
  /\ UNCHANGED <<pending, onCounter, publication, run>> /\ shopOnly

\* "Register this business".
RegisterAgain ==
  /\ onCounter /\ profile # Nothing /\ ~registered /\ profile \notin registering
  /\ registering' = registering \union {profile}
  /\ UNCHANGED <<profile, registered, pending, onCounter, publication, run>> /\ shopOnly

\* Whoever is the business by then is marked registered.
RegistrationEnds(m) ==
  /\ m \in registering /\ registering' = registering \ {m}
  /\ UNCHANGED <<profile, pending, onCounter>> /\ shopOnly
  /\ \/ registered' = TRUE
        /\ IF onCounter /\ ~registered THEN EffectRuns(pending, profile, TRUE)
           ELSE UNCHANGED <<publication, run>>
     \/ UNCHANGED <<registered, publication, run>>

\* signOut, once the keys are gone.
SignOut ==
  /\ profile # Nothing /\ profile' = Nothing /\ registered' = FALSE /\ pending' = Nothing
  /\ Unmounts
  /\ UNCHANGED registering /\ shopOnly

-----------------------------------------------------------------------------
(* The request.                                                            *)

\* createSignedPaymentRequest: without a ledger there is no expiry to sign.
Signs(r) == health = "ok" /\ r \notin signed /\ signed' = signed \union {r}

\* createRequest: what is priced is signed and becomes the pending request.
CreateRequest(r) ==
  /\ onCounter /\ pending = Nothing /\ registered /\ Signs(r)
  /\ pending' = r /\ EffectRuns(r, profile, registered)
  /\ UNCHANGED <<shopVars, onCounter, statusVars, ledgerVars, serverVars>>

\* "New payment".
ClearRequest ==
  /\ onCounter /\ pending # Nothing /\ pending' = Nothing /\ EffectRuns(Nothing, profile, registered)
  /\ UNCHANGED <<shopVars, signed, onCounter, statusVars, ledgerVars, serverVars>>

-----------------------------------------------------------------------------
(* Publishing, at the phone.                                               *)

phoneOnly == UNCHANGED <<shopVars, pending, signed, onCounter, statusVars, ledgerVars>>

SetRun(l, r) == run' = [run EXCEPT ![l] = r]

\* Only the active run speaks to the screen.
Shows(l, status) == publication' = IF run[l].active THEN [of |-> run[l].of, status |-> status] ELSE publication

\* "Retry publish".
RetryPublish ==
  /\ onCounter /\ publication.status = "failed" /\ EffectRuns(pending, profile, registered)
  /\ phoneOnly /\ UNCHANGED serverVars

\* One retry, unless a person said no or nobody is interested any more.
RunFails(l, refused) ==
  IF run[l].active /\ run[l].attempt = 0 /\ ~refused
  THEN SetRun(l, [run[l] EXCEPT !.step = "pause", !.via = Nothing]) /\ UNCHANGED publication
  ELSE SetRun(l, NoRun) /\ Shows(l, "failed")

\* ensureDeviceSession.
OpenSession(l) ==
  /\ run[l].step = "session"
  /\ \/ SetRun(l, [run[l] EXCEPT !.step = "send", !.sends = 0]) /\ UNCHANGED publication
     \/ \E refused \in BOOLEAN : RunFails(l, refused)
  /\ phoneOnly /\ UNCHANGED serverVars

PauseEnds(l) ==
  /\ run[l].step = "pause"
  /\ SetRun(l, IF run[l].active THEN [run[l] EXCEPT !.step = "session", !.attempt = 1] ELSE NoRun)
  /\ phoneOnly /\ UNCHANGED <<publication, serverVars>>

\* One attempt of the client: createPaymentIntent leaves the phone.
SendPublication(l, d) ==
  /\ run[l].step = "send" /\ delivery[d] = NoDelivery
  /\ SetRun(l, [run[l] EXCEPT !.step = "wait", !.sends = @ + 1, !.via = d])
  /\ delivery' = [delivery EXCEPT ![d] = [NoDelivery EXCEPT !.of = run[l].of, !.step = "policy"]]
  /\ phoneOnly /\ UNCHANGED <<publication, held>>

\* isRetryable: not now; every other answer is final.
Retries(l, retryable) ==
  IF retryable /\ run[l].sends < MaxSends
  THEN SetRun(l, [run[l] EXCEPT !.step = "send", !.via = Nothing]) /\ UNCHANGED publication
  ELSE RunFails(l, FALSE)

\* Mutant: whatever the server answers publishes the request.
AcceptsAnything(says) == TRUE

Accepts(says) == says = "stored"

\* The answer to the attempt the phone is still waiting for.
Hear(l) ==
  /\ run[l].step = "wait" /\ delivery[run[l].via].step = "answered"
  /\ LET says == delivery[run[l].via].says IN
       IF Accepts(says) THEN SetRun(l, NoRun) /\ Shows(l, "published")
       ELSE Retries(l, says = "unavailable")
  /\ delivery' = [delivery EXCEPT ![run[l].via] = NoDelivery]
  /\ phoneOnly /\ UNCHANGED held

\* Every attempt has its timeout: the request timed out or the connection broke; the server may not know.
TimeOut(l) ==
  /\ run[l].step = "wait" /\ Retries(l, TRUE)
  /\ phoneOnly /\ UNCHANGED serverVars

-----------------------------------------------------------------------------
(* Publishing, at the server.                                              *)

serverOnly == UNCHANGED <<shopVars, pending, signed, onCounter, publication, run, statusVars, ledgerVars>>

Reaches(d, step) == delivery' = [delivery EXCEPT ![d].step = step]

Says(d, says) == delivery' = [delivery EXCEPT ![d].step = "answered", ![d].says = says]

\* The network loses a request; a lost answer is one nobody is left to hear.
Lose(d) ==
  /\ delivery[d].step = "policy" /\ Reaches(d, "lost")
  /\ UNCHANGED held /\ serverOnly

\* Nobody is left to hear the answer.
Forgets(d) ==
  /\ delivery[d].step \in {"lost", "answered"} /\ \A l \in Runs : run[l].via # d
  /\ delivery' = [delivery EXCEPT ![d] = NoDelivery]
  /\ UNCHANGED held /\ serverOnly

\* validatePaymentIntent: of what it refuses, a request of this app can only have
\* expired.
Payable(r) == r \notin over

\* When the ledger can be read.
CheckPolicy(d) ==
  /\ delivery[d].step = "policy"
  /\ \/ Says(d, "unavailable")
     \/ ~Payable(delivery[d].of) /\ Says(d, "expired")
     \/ /\ Payable(delivery[d].of)
        /\ delivery' = [delivery EXCEPT ![d].step = "key", ![d].late = delivery[d].of \in held]
  /\ UNCHANGED held /\ serverOnly

\* Mutant: the publication before it is not looked for.
KnownByKeyNever(d) == FALSE

\* findByIdempotencyKey: the key is the request's own.
KnownByKey(d) == delivery[d].of \in held

ReadKey(d) ==
  /\ delivery[d].step = "key"
  /\ IF KnownByKey(d) THEN Says(d, "stored") ELSE Reaches(d, "id")
  /\ UNCHANGED held /\ serverOnly

\* findByIntentId.
ReadId(d) ==
  /\ delivery[d].step = "id"
  /\ IF delivery[d].of \in held THEN Says(d, "conflict") ELSE Reaches(d, "insert")
  /\ UNCHANGED held /\ serverOnly

\* saveIntentWithSettlement; the unique keys turn a second one away, which is no
\* error the handler knows.
Insert(d) ==
  /\ delivery[d].step = "insert"
  /\ IF delivery[d].of \in held THEN Says(d, "unavailable") /\ UNCHANGED held
     ELSE /\ Says(d, "stored")
          /\ held' = held \union {delivery[d].of}
  /\ serverOnly

-----------------------------------------------------------------------------
(* What the counter learns.                                                *)

Published(r) == registered /\ publication = [of |-> r, status |-> "published"]

\* A customer claims the request, and its settlement leaves awaiting_approval.
Claim(r) ==
  /\ r \in held \ moved /\ moved' = moved \union {r}
  /\ UNCHANGED <<shopVars, pending, signed, onCounter, publication, run, answer, ledgerVars, serverVars>>

\* usePaymentRequestStatus, while the request is published.
PollStatus ==
  /\ onCounter /\ pending \in moved \ answer /\ Published(pending)
  /\ answer' = answer \union {pending}
  /\ UNCHANGED <<shopVars, pending, signed, onCounter, publication, run, moved, ledgerVars, serverVars>>

LedgerPasses(r) ==
  /\ r \notin over /\ r \in signed /\ over' = over \union {r}
  /\ UNCHANGED <<shopVars, pending, signed, onCounter, publication, run, statusVars, health, sees, serverVars>>

\* useStellarHealth, and the effect that takes an expired request off the counter.
ReadLedger ==
  /\ onCounter /\ health' = "ok" /\ sees' = over
  /\ IF pending \in over
     THEN pending' = Nothing /\ EffectRuns(Nothing, profile, registered)
     ELSE UNCHANGED <<pending, publication, run>>
  /\ UNCHANGED <<shopVars, signed, onCounter, statusVars, over, serverVars>>

LedgerFails ==
  /\ onCounter /\ health' = "none"
  /\ UNCHANGED <<shopVars, pending, signed, onCounter, publication, run, statusVars, sees, over, serverVars>>

\* isOfferable, of the last status heard.
Offerable(r) == r \notin answer

\* shouldShowRequest: the code and the radios offer the request.
Shown(r) == /\ onCounter /\ pending = r /\ Published(r)
            /\ health = "ok" /\ r \notin sees /\ Offerable(r)

-----------------------------------------------------------------------------
PublishStep(l) == OpenSession(l) \/ PauseEnds(l) \/ Hear(l) \/ TimeOut(l) \/ \E d \in Deliveries : SendPublication(l, d)

ServerStep(d) == Forgets(d) \/ CheckPolicy(d) \/ ReadKey(d) \/ ReadId(d) \/ Insert(d)

McNext == \/ OpenCounter \/ LeaveCounter \/ Restart
          \/ (\E m \in Profiles : SetUpBusiness(m) \/ RegistrationEnds(m))
          \/ RegisterAgain \/ SignOut
          \/ (\E r \in Priced : CreateRequest(r) \/ Claim(r) \/ LedgerPasses(r))
          \/ ClearRequest \/ RetryPublish \/ PollStatus \/ ReadLedger \/ LedgerFails
          \/ (\E l \in Runs : PublishStep(l)) \/ (\E d \in Deliveries : ServerStep(d) \/ Lose(d))

McSpec == McInit /\ [][McNext]_mcVars

-----------------------------------------------------------------------------
\* Every variable has its type.
McTypeOK ==
  /\ profile \in Profiles \union {Nothing} /\ registered \in BOOLEAN
  /\ registering \subseteq Profiles
  /\ pending \in Priced \union {Nothing}
  /\ signed \subseteq Priced /\ onCounter \in BOOLEAN
  /\ publication \in [of : Priced \union {Nothing}, status : {"none", "publishing", "published", "failed"}]
  /\ run \in [Runs -> [of : Priced \union {Nothing}, step : {"idle", "session", "send", "wait", "pause"},
                       attempt : 0 .. 1, sends : 0 .. MaxSends, via : Deliveries \union {Nothing},
                       active : BOOLEAN]]
  /\ health \in {"none", "ok"} /\ sees \subseteq Priced /\ over \subseteq Priced
  /\ delivery \in [Deliveries -> [of : Priced \union {Nothing}, late : BOOLEAN,
                     step : {"free", "policy", "key", "id", "insert", "answered", "lost"},
                     says : {"nothing", "stored", "conflict", "expired", "unavailable"}]]
  /\ answer \subseteq moved /\ moved \subseteq held /\ held \subseteq Priced

\* No customer is shown a request the API does not hold, whatever runs of the
\* effect, retries and late answers came before ("Do not offer a request until
\* the API knows it", RequestCard).
ShownIsHeld == \A r \in Priced : Shown(r) => r \in held

\* A publication that reaches the server after the request was stored is
\* answered with what was stored, so that retrying a publication whose answer
\* was lost succeeds (IntentService.create reads the idempotency key before it
\* looks for the id).
StoredIsAnswered ==
  \A d \in Deliveries : delivery[d].late /\ delivery[d].step = "answered" => delivery[d].says = "stored"

=============================================================================
