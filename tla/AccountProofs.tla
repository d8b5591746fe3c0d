----------------------------- MODULE AccountProofs -----------------------------
(***************************************************************************)
(* The account on the phone and its wallet.                                *)
(*                                                                         *)
(* An account that leaves the phone leaves no key behind, and nobody waits *)
(* for a sign-in that is over, for any number of jobs, keys and people:    *)
(* every key the phone speaks of was minted on it, so a key minted while   *)
(* an account is being erased is not the one being erased; and while an    *)
(* account is being erased there is an account, so that no screen saves a  *)
(* classic wallet.                                                         *)
(*                                                                         *)
(* A smart wallet is never without a signer, its recovery signer is set    *)
(* once, and only its signers spend, for any wallets and any keys, however *)
(* many.  And of the custody that is built on it: a wallet a phone stores  *)
(* obeys it, for any phones and any number of setups that race.            *)
(*                                                                         *)
(* SwInv speaks of the number of signers, so the induction over the        *)
(* contract also carries that every wallet has finitely many.  The one     *)
(* over custody carries what every holder of an address knows: the API's   *)
(* calls, the deployer's transactions, the table, and the moves.           *)
(***************************************************************************)
EXTENDS PhoneAccount, WalletCustody, FiniteSetTheorems, TLAPS

-----------------------------------------------------------------------------
(* The account on one phone.                                               *)

MemRecord == [account : People \union {Absent}, requireUnlock : BOOLEAN, smartWallet : Keys \union {Absent},
              wallet : People \union {Absent}, session : Keys \union {Absent}, locked : BOOLEAN]

JobRecord == [step : JobSteps, wants : {"session", "wallet", "recovery"},
              owner : Keys \union {Absent}, key : Keys \union {Absent}]

Known == minted \union {Absent}

PhoneSound == /\ app \in {"closed", "reading", "open"} /\ joined \subseteq People
              /\ onboarding \in People \union {Absent} /\ vault \in People \union {Absent}
              /\ upsets \in 0 .. MaxUpsets /\ told \in {"nothing", "ok", "refused", "no-key"}

MemSound == mem \in MemRecord /\ stored \in MemRecord /\ {mem.smartWallet, stored.smartWallet} \subseteq Known

KeySound == /\ enclave \in [key : Keys \union {Absent}, signs : BOOLEAN] /\ minted \subseteq Keys
            /\ enclave.key \in Known /\ (enclave.key = Absent => enclave = NoKey)

JobSound(j) == job[j].owner \in Known /\ (job[j].step = "check" => job[j].key \in Keys)

JobsSound == job \in [Jobs -> JobRecord] /\ \A j \in Jobs : JobSound(j)

SignInSound == /\ pending \in [step : {"none", "challenge", "sign"}, key : Keys \union {Absent}]
               /\ challenges \subseteq Keys
               /\ IF pending.step = "none" THEN pending = NoSignIn ELSE pending.key \in Keys
               /\ WaitersAreAnswered

\* Of an account that is being erased, what has been erased stays erased.
LeavingSound ==
  /\ leaving \in [step : {"no", "key", "vault", "forget"}, smart : Known, classic : People \union {Absent}]
  /\ leaving.step = "no" => leaving = Staying
  /\ leaving # Staying => app = "open" /\ mem.account # Absent
  /\ leaving.step \in {"vault", "forget"} => enclave.key # leaving.smart \/ leaving.smart = Absent
  /\ leaving.step = "forget" => vault # leaving.classic \/ leaving.classic = Absent

PaInv == PhoneSound /\ MemSound /\ KeySound /\ JobsSound /\ SignInSound /\ LeavingSound

-----------------------------------------------------------------------------
(* What the invariant gives, where it starts, and what a step leaves alone.*)

LEMMA Shapes == PaInv => PaTypeOK
  BY DEF PaInv, PhoneSound, MemSound, MemRecord, KeySound, Known, JobsSound, JobRecord, SignInSound,
         LeavingSound, PaTypeOK

LEMMA Start == AccountAssumption /\ PaInit => PaInv
<1> SUFFICES ASSUME AccountAssumption, PaInit PROVE PaInv
  OBVIOUS
<1>1. PhoneSound /\ MemSound
  BY DEF AccountAssumption, PaInit, PhoneSound, MemSound, MemRecord, Blank, Known
<1>2. KeySound /\ LeavingSound
  BY DEF PaInit, KeySound, NoKey, Known, LeavingSound, Staying
<1>3. JobsSound /\ SignInSound
  BY DEF PaInit, JobsSound, JobSound, JobRecord, JobSteps, NoJob, Known, SignInSound, NoSignIn,
         WaitersAreAnswered
<1> QED BY <1>1, <1>2, <1>3 DEF PaInv

LEMMA Kept ==
  ASSUME PaInv
  PROVE  /\ UNCHANGED <<app, joined, onboarding, vault, upsets, told>> => PhoneSound'
         /\ UNCHANGED <<mem, stored, minted>> => MemSound'
         /\ UNCHANGED <<enclave, minted>> => KeySound'
         /\ UNCHANGED <<job, minted>> => JobsSound'
         /\ UNCHANGED <<job, signInVars>> => SignInSound'
         /\ UNCHANGED <<app, mem, keyVars, leaving>> => LeavingSound'
<1>1. UNCHANGED <<app, joined, onboarding, vault, upsets, told>> => PhoneSound'
  BY DEF PaInv, PhoneSound
<1>2. UNCHANGED <<mem, stored, minted>> => MemSound'
  BY DEF PaInv, MemSound, Known
<1>3. UNCHANGED <<enclave, minted>> => KeySound'
  BY DEF PaInv, KeySound, Known
<1>4. UNCHANGED <<job, minted>> => JobsSound'
  BY DEF PaInv, JobsSound, JobSound, Known
<1>5. UNCHANGED <<job, signInVars>> => SignInSound'
  BY DEF PaInv, SignInSound, WaitersAreAnswered, signInVars
<1>6. UNCHANGED <<app, mem, keyVars, leaving>> => LeavingSound'
  BY DEF PaInv, LeavingSound, Known, keyVars
<1> QED BY <1>1, <1>2, <1>3, <1>4, <1>5, <1>6

LEMMA UpsetsCounted ==
  ASSUME AccountAssumption, upsets \in 0 .. MaxUpsets, Upset
  PROVE  upsets' \in 0 .. MaxUpsets
BY DEF AccountAssumption, Upset

\* One job goes on without waiting; keys may have been minted.
LEMMA JobTurns ==
  ASSUME PaInv, NEW j \in Jobs, NEW r \in JobRecord, job' = [job EXCEPT ![j] = r],
         r.owner \in Known', r.step = "check" => r.key \in Keys, minted \subseteq minted'
  PROVE  /\ JobsSound'
         /\ r.step # "wait" /\ UNCHANGED signInVars => SignInSound'
<1>1. job \in [Jobs -> JobRecord] /\ \A i \in Jobs : JobSound(i)
  BY DEF PaInv, JobsSound
<1>2. job' \in [Jobs -> JobRecord] /\ job'[j] = r /\ \A i \in Jobs \ {j} : job'[i] = job[i]
  BY <1>1
<1>3. JobsSound'
  BY <1>1, <1>2 DEF JobsSound, JobSound, Known
<1>4. r.step # "wait" /\ UNCHANGED signInVars => SignInSound'
  BY <1>2 DEF PaInv, SignInSound, WaitersAreAnswered, signInVars
<1> QED BY <1>3, <1>4

LEMMA Idle == NoJob \in JobRecord /\ NoJob.owner = Absent /\ NoJob.step = "idle" /\ Absent \in Known
  BY DEF NoJob, JobRecord, JobSteps, Known

-----------------------------------------------------------------------------
(* The app, and the screens that make an account.                          *)

LEMMA AppSteps ==
  ASSUME PaInv, AccountAssumption, Launch \/ Hydrate \/ Save \/ Close
  PROVE  PaInv'
<1>0. PhoneSound /\ MemSound /\ LeavingSound
  BY DEF PaInv
<1>1. CASE Launch
  <2>1. PhoneSound'
    BY <1>0, <1>1 DEF Launch, appOnly, keyVars, PhoneSound
  <2>2. LeavingSound'
    BY <1>0, <1>1 DEF Launch, appOnly, keyVars, LeavingSound, Known
  <2> QED BY <1>1, <2>1, <2>2, Kept DEF Launch, appOnly, keyVars, signInVars, PaInv
<1>2. CASE Hydrate
  <2>1. PICK entry \in {stored, Blank} : Read(entry) /\ mem' = Restored(entry)
    BY <1>2 DEF Hydrate
  <2>2. Blank \in MemRecord /\ Blank.smartWallet = Absent
    BY DEF Blank, MemRecord
  <2>3. entry \in MemRecord /\ entry.smartWallet \in Known
    BY <1>0, <2>1, <2>2 DEF MemSound, Known
  <2>4. mem' \in MemRecord /\ mem'.smartWallet \in Known
    BY <2>1, <2>3 DEF Restored, MemRecord
  <2>5. MemSound'
    BY <1>0, <1>2, <2>4 DEF Hydrate, appOnly, keyVars, MemSound, Known
  <2>6. PhoneSound'
    <3>1. upsets' \in 0 .. MaxUpsets
      BY <1>0, <2>1, UpsetsCounted DEF Read, PhoneSound
    <3> QED BY <1>0, <1>2, <3>1 DEF Hydrate, appOnly, keyVars, PhoneSound
  <2>7. LeavingSound'
    BY <1>0, <1>2 DEF Hydrate, appOnly, keyVars, LeavingSound, Known, Staying
  <2> QED BY <1>2, <2>5, <2>6, <2>7, Kept DEF Hydrate, appOnly, keyVars, signInVars, PaInv
<1>3. CASE Save
  <2>1. mem \in MemRecord
    BY <1>0 DEF MemSound
  <2>2. stored' \in MemRecord /\ stored'.smartWallet = mem.smartWallet
    BY <1>3, <2>1 DEF Save, MemRecord
  <2>3. MemSound'
    BY <1>0, <1>3, <2>2 DEF Save, appOnly, keyVars, MemSound, Known
  <2> QED BY <1>3, <2>3, Kept DEF Save, appOnly, keyVars, signInVars, PaInv
<1>4. CASE Close
  <2>1. MemSound'
    BY <1>0, <1>4 DEF Close, appOnly, keyVars, MemSound, MemRecord, Blank, Known
  <2>2. PhoneSound'
    BY <1>0, <1>4 DEF Close, appOnly, keyVars, PhoneSound
  <2>3. LeavingSound'
    BY <1>4 DEF Close, LeavingSound, Staying, Known
  <2>4. JobsSound' /\ SignInSound'
    BY <1>4, Idle DEF Close, appOnly, keyVars, JobsSound, JobSound, Known, PaInv, SignInSound, NoSignIn, NoJob,
                      WaitersAreAnswered
  <2> QED BY <1>4, <2>1, <2>2, <2>3, <2>4, Kept DEF Close, appOnly, keyVars, PaInv
<1> QED BY <1>1, <1>2, <1>3, <1>4

LEMMA OnboardingSteps ==
  ASSUME PaInv, AccountAssumption, FinishOnboarding \/ \E p \in People : SaveVaultKey(p)
  PROVE  PaInv'
<1>0. PhoneSound /\ MemSound /\ LeavingSound
  BY DEF PaInv
<1>1. ASSUME NEW p \in People, SaveVaultKey(p) PROVE PaInv'
  <2>1. PhoneSound'
    BY <1>0, <1>1 DEF SaveVaultKey, phoneVars, PhoneSound
  <2>2. LeavingSound'
    BY <1>0, <1>1 DEF SaveVaultKey, OnWelcome, phoneVars, LeavingSound, Known, Staying
  <2> QED BY <1>1, <2>1, <2>2, Kept DEF SaveVaultKey, phoneVars, signInVars, PaInv
<1>2. CASE FinishOnboarding
  <2>1. mem \in MemRecord /\ onboarding \in People
    BY <1>0, <1>2 DEF MemSound, PhoneSound, FinishOnboarding
  <2>2. mem' \in MemRecord /\ mem'.smartWallet = mem.smartWallet /\ mem'.account = onboarding
    BY <1>2, <2>1 DEF FinishOnboarding, Adopts, MemRecord
  <2>3. MemSound' /\ PhoneSound'
    BY <1>0, <1>2, <2>2 DEF FinishOnboarding, keyVars, MemSound, PhoneSound, Known
  <2>4. LeavingSound'
    BY <1>0, <1>2, <2>1, <2>2 DEF FinishOnboarding, keyVars, AccountAssumption, LeavingSound, Known
  <2> QED BY <1>2, <2>3, <2>4, Kept DEF FinishOnboarding, keyVars, signInVars, PaInv
<1> QED BY <1>1, <1>2

-----------------------------------------------------------------------------
(* The jobs.                                                               *)

\* What a step of a job that is given a key makes of it.
LEMMA GivenSound ==
  ASSUME PaInv, NEW j \in Jobs, job[j].step \notin {"wait", "check"}, NEW k \in Keys, k \in Known', Given(j, k),
         minted \subseteq minted', UNCHANGED signInVars
  PROVE  JobsSound' /\ SignInSound'
<1> DEFINE owned == [job[j] EXCEPT !.owner = k, !.step = IF job[j].wants = "recovery" THEN "store" ELSE "read"]
           keyed == [job[j] EXCEPT !.key = k, !.step = "check"]
<1>1. job[j] \in JobRecord
  BY DEF PaInv, JobsSound
<1>2. job[j].owner \in Known'
  BY DEF PaInv, JobsSound, JobSound, Known
<1>3. {"store", "read", "check"} \subseteq JobSteps
  BY DEF JobSteps
<1>4. owned \in JobRecord /\ owned.owner = k /\ owned.step \in {"store", "read"}
  BY <1>1, <1>3 DEF JobRecord
<1>5. keyed \in JobRecord /\ keyed.owner = job[j].owner /\ keyed.key = k /\ keyed.step = "check"
  BY <1>1, <1>3 DEF JobRecord
<1>6. job' = [job EXCEPT ![j] = owned] \/ job' = [job EXCEPT ![j] = keyed]
  BY DEF Given, Goes
<1> HIDE DEF owned, keyed
<1> QED BY <1>2, <1>4, <1>5, <1>6, JobTurns

LEMMA StartStep ==
  ASSUME PaInv, NEW j \in Jobs, NEW wants \in {"session", "wallet", "recovery"}, StartJob(j, wants)
  PROVE  PaInv'
<1> DEFINE r == [NoJob EXCEPT !.step = "read", !.wants = wants]
<1>1. NoJob \in JobRecord /\ NoJob.owner = Absent
  BY Idle
<1>2. r \in JobRecord /\ r.owner = Absent /\ r.step = "read"
  BY <1>1 DEF JobRecord, JobSteps
<1>3. job' = [job EXCEPT ![j] = r]
  BY DEF StartJob, Goes
<1> HIDE DEF r
<1>4. UNCHANGED <<phoneVars, keyVars, signInVars, onboarding, joined, leaving, told, upsets>>
  BY DEF StartJob, jobOnly, phoneVars, keyVars, signInVars
<1>5. JobsSound' /\ SignInSound'
  BY <1>2, <1>3, <1>4, JobTurns DEF Known, keyVars
<1> QED BY <1>4, <1>5, Kept DEF PaInv, phoneVars, keyVars

LEMMA ReadIdentityStep ==
  ASSUME PaInv, AccountAssumption, NEW j \in Jobs, ReadIdentity(j)
  PROVE  PaInv'
<1>1. UNCHANGED <<phoneVars, keyVars, signInVars, onboarding, joined, leaving, told>>
  BY DEF ReadIdentity, jobOnly, phoneVars, keyVars, signInVars
<1>2. PhoneSound'
  <2>1. upsets' \in 0 .. MaxUpsets
    BY UpsetsCounted DEF PaInv, PhoneSound, ReadIdentity
  <2> QED BY <1>1, <2>1 DEF PaInv, PhoneSound, phoneVars, keyVars
<1>3. JobsSound' /\ SignInSound'
  <2>1. CASE enclave # NoKey /\ Given(j, enclave.key)
    <3>1. enclave.key \in Keys /\ enclave.key \in Known'
      BY <1>1, <2>1 DEF PaInv, KeySound, Known, keyVars
    <3> QED BY <1>1, <2>1, <3>1, GivenSound DEF ReadIdentity, keyVars
  <2>2. CASE Goes(j, [job[j] EXCEPT !.step = "mint"])
    <3> DEFINE r == [job[j] EXCEPT !.step = "mint"]
    <3>1. job[j] \in JobRecord
      BY DEF PaInv, JobsSound
    <3>2. r \in JobRecord /\ r.owner = job[j].owner /\ r.step = "mint"
      BY <3>1 DEF JobRecord, JobSteps
    <3>3. job' = [job EXCEPT ![j] = r]
      BY <2>2 DEF Goes
    <3> HIDE DEF r
    <3>4. r.owner \in Known'
      BY <1>1, <3>2 DEF PaInv, JobsSound, JobSound, Known, keyVars
    <3> QED BY <1>1, <3>2, <3>3, <3>4, JobTurns DEF keyVars
  <2> QED BY <2>1, <2>2 DEF ReadIdentity
<1> QED BY <1>1, <1>2, <1>3, Kept DEF PaInv, phoneVars, keyVars

\* A job that ends.
LEMMA JobEnds ==
  ASSUME PaInv, NEW j \in Jobs, Goes(j, NoJob), minted \subseteq minted'
  PROVE  JobsSound' /\ (UNCHANGED signInVars => SignInSound')
<1>1. job' = [job EXCEPT ![j] = NoJob]
  BY DEF Goes
<1> QED BY <1>1, Idle, JobTurns DEF Known

\* A key that is minted while an account is erased is not the one it erased.
LEMMA MintIdentityStep ==
  ASSUME PaInv, AccountAssumption, NEW j \in Jobs, MintIdentity(j)
  PROVE  PaInv'
<1>1. UNCHANGED <<phoneVars, vault, signInVars, onboarding, joined, leaving, told, upsets>>
  BY DEF MintIdentity, jobOnly, phoneVars, signInVars
<1>2. ASSUME NEW k \in Keys \ minted, Mints(k), Given(j, k) PROVE PaInv'
  <2>1. minted \subseteq minted' /\ k \in Known' /\ enclave' = [key |-> k, signs |-> TRUE]
    BY <1>2 DEF Mints, Known
  <2>2. JobsSound' /\ SignInSound'
    BY <1>1, <1>2, <2>1, GivenSound DEF MintIdentity
  <2>3. KeySound' /\ MemSound'
    BY <1>1, <1>2, <2>1 DEF Mints, PaInv, KeySound, MemSound, Known, phoneVars, AccountAssumption
  <2>4. k # leaving.smart \/ leaving.smart = Absent
    BY <1>2, AccountAssumption DEF AccountAssumption, PaInv, LeavingSound, Known
  <2>5. LeavingSound'
    BY <1>1, <2>1, <2>4 DEF PaInv, LeavingSound, Known, phoneVars
  <2> QED BY <1>1, <2>2, <2>3, <2>5, Kept DEF PaInv, phoneVars
<1>3. CASE Goes(j, NoJob) /\ UNCHANGED <<enclave, minted>>
  BY <1>1, <1>3, JobEnds, Kept DEF PaInv, phoneVars, keyVars
<1> QED BY <1>2, <1>3 DEF MintIdentity

\* What becomes of a job once it has a session.
LEMMA SessionHad ==
  ASSUME NEW r \in JobRecord
  PROVE  /\ AfterSession(r) \in JobRecord /\ AfterSession(r).owner \in {r.owner, Absent}
         /\ AfterSession(r).step \notin {"wait", "check"}
<1>1. "provision" \in JobSteps
  BY DEF JobSteps
<1> DEFINE p == [r EXCEPT !.step = "provision"]
<1>2. p \in JobRecord /\ p.owner = r.owner /\ p.step = "provision"
  BY <1>1 DEF JobRecord
<1>3. NoJob \in JobRecord /\ NoJob.owner = Absent /\ NoJob.step = "idle"
  BY DEF NoJob, JobRecord, JobSteps
<1>4. AfterSession(r) = IF r.wants = "session" THEN NoJob ELSE p
  BY DEF AfterSession
<1> HIDE DEF p
<1> QED BY <1>2, <1>3, <1>4

LEMMA CheckSessionStep ==
  ASSUME PaInv, NEW j \in Jobs, CheckSession(j)
  PROVE  PaInv'
<1>1. UNCHANGED <<phoneVars, keyVars, challenges, onboarding, joined, leaving, told, upsets>>
  BY DEF CheckSession, jobOnly, phoneVars, keyVars
<1>2. job[j] \in JobRecord /\ JobSound(j) /\ job[j].step = "check"
  BY DEF PaInv, JobsSound, CheckSession
<1>3. JobsSound' /\ SignInSound'
  <2>1. CASE Goes(j, AfterSession(job[j])) /\ UNCHANGED pending
    <3>1. job' = [job EXCEPT ![j] = AfterSession(job[j])]
      BY <2>1 DEF Goes
    <3>2. AfterSession(job[j]).owner \in Known'
      BY <1>1, <1>2, SessionHad DEF JobSound, Known, keyVars
    <3> QED BY <1>1, <1>2, <2>1, <3>1, <3>2, SessionHad, JobTurns DEF signInVars, keyVars
  <2>2. CASE /\ Goes(j, [job[j] EXCEPT !.step = "wait"])
             /\ pending' = IF pending = NoSignIn THEN [step |-> "challenge", key |-> job[j].key] ELSE pending
    <3> DEFINE r == [job[j] EXCEPT !.step = "wait"]
    <3>1. job[j] \in JobRecord /\ "wait" \in JobSteps
      BY <1>2 DEF JobSteps
    <3>2. r \in JobRecord /\ r.owner = job[j].owner /\ r.step = "wait"
      BY <3>1 DEF JobRecord
    <3>3. job' = [job EXCEPT ![j] = r]
      BY <2>2 DEF Goes
    <3> HIDE DEF r
    <3>4. JobsSound'
      BY <1>1, <1>2, <3>2, <3>3, JobTurns DEF JobSound, Known, keyVars
    <3>5. job[j].key \in Keys
      BY <1>2 DEF JobSound
    <3>6. pending' = IF pending = NoSignIn THEN [step |-> "challenge", key |-> job[j].key] ELSE pending
      BY <2>2
    <3>7. SignInSound'
      BY <1>1, <3>5, <3>6 DEF PaInv, SignInSound, WaitersAreAnswered, NoSignIn
    <3> QED BY <3>4, <3>7
  <2> QED BY <2>1, <2>2 DEF CheckSession
<1> QED BY <1>1, <1>3, Kept DEF PaInv, phoneVars, keyVars

LEMMA ProvisionStep ==
  ASSUME PaInv, NEW j \in Jobs, Provision(j)
  PROVE  PaInv'
<1>1. UNCHANGED <<phoneVars, keyVars, signInVars, onboarding, joined, leaving, told, upsets>>
  BY DEF Provision, jobOnly, phoneVars, keyVars, signInVars
<1> DEFINE r == [job[j] EXCEPT !.step = "store"]
<1>2. job[j] \in JobRecord /\ "store" \in JobSteps
  BY DEF PaInv, JobsSound, JobSteps
<1>3. r \in JobRecord /\ r.owner = job[j].owner /\ r.step = "store"
  BY <1>2 DEF JobRecord
<1>4. Goes(j, r) \/ Goes(j, NoJob)
  BY DEF Provision
<1>5. job[j].owner \in Known'
  BY <1>1 DEF PaInv, JobsSound, JobSound, Known, keyVars
<1> HIDE DEF r
<1>6. JobsSound' /\ SignInSound'
  BY <1>1, <1>3, <1>4, <1>5, JobEnds, JobTurns DEF Goes, keyVars
<1> QED BY <1>1, <1>6, Kept DEF PaInv, phoneVars, keyVars

LEMMA StoreWalletStep ==
  ASSUME PaInv, AccountAssumption, NEW j \in Jobs, StoreWallet(j)
  PROVE  PaInv'
<1>1. UNCHANGED <<app, stored, keyVars, signInVars, onboarding, leaving, told, upsets>> /\ Goes(j, NoJob)
  BY DEF StoreWallet
<1>2. JobsSound' /\ SignInSound'
  BY <1>1, JobEnds DEF keyVars
<1>3. mem \in MemRecord /\ job[j].owner \in Keys \union {Absent} /\ job[j].owner \in Known
  BY DEF PaInv, MemSound, JobsSound, JobSound, JobRecord
<1>4. CASE mem' = [mem EXCEPT !.smartWallet = job[j].owner] /\ UNCHANGED joined
  <2>1. mem' \in MemRecord /\ mem'.smartWallet = job[j].owner /\ mem'.account = mem.account
    BY <1>3, <1>4 DEF MemRecord
  <2>2. MemSound' /\ PhoneSound' /\ LeavingSound'
    BY <1>1, <1>3, <1>4, <2>1 DEF PaInv, MemSound, PhoneSound, LeavingSound, Known, keyVars
  <2> QED BY <1>1, <1>2, <2>2, Kept DEF PaInv, keyVars
<1>5. ASSUME NEW p \in People, joined' = joined \union {p},
             mem' = [mem EXCEPT !.smartWallet = job[j].owner, !.account = p, !.locked = FALSE]
      PROVE  PaInv'
  <2>1. mem' \in MemRecord /\ mem'.smartWallet = job[j].owner /\ mem'.account = p /\ p # Absent
    BY <1>3, <1>5 DEF MemRecord, AccountAssumption
  <2>2. MemSound' /\ PhoneSound' /\ LeavingSound'
    BY <1>1, <1>3, <1>5, <2>1 DEF PaInv, MemSound, PhoneSound, LeavingSound, Known, keyVars
  <2> QED BY <1>1, <1>2, <2>2, Kept DEF PaInv, keyVars
<1>6. CASE UNCHANGED <<mem, joined>>
  BY <1>1, <1>2, <1>6, Kept DEF PaInv, keyVars
<1> QED BY <1>4, <1>5, <1>6 DEF StoreWallet

-----------------------------------------------------------------------------
(* The sign-in.                                                            *)

\* Whoever waited is released, one way or the other.
LEMMA SettleSound ==
  ASSUME PaInv, NEW ok \in BOOLEAN, Settle(ok), challenges' \subseteq challenges, UNCHANGED minted
  PROVE  JobsSound' /\ SignInSound'
<1>1. job \in [Jobs -> JobRecord] /\ \A j \in Jobs : JobSound(j)
  BY DEF PaInv, JobsSound
<1>2. \A j \in Jobs : job'[j] \in {job[j], AfterSession(job[j]), NoJob}
  BY DEF Settle
<1>3. ASSUME NEW j \in Jobs
      PROVE  job'[j] \in JobRecord /\ job'[j].owner \in Known' /\ (job'[j].step = "check" => job'[j].key \in Keys)
  BY <1>1, <1>2, Idle, SessionHad DEF JobSound, Known
<1>4. JobsSound'
  BY <1>3 DEF JobsSound, JobSound, Settle
<1>5. \A j \in Jobs : job'[j].step # "wait"
  BY <1>1, Idle, SessionHad DEF Settle, Answered
<1>6. SignInSound'
  BY <1>5 DEF PaInv, SignInSound, Settle, NoSignIn, WaitersAreAnswered
<1> QED BY <1>4, <1>6

LEMMA SignInSteps ==
  ASSUME PaInv, SignInStep
  PROVE  PaInv'
<1>1. CASE TakeChallenge
  <2>1. SignInSound'
    <3>1. pending \in [step : {"none", "challenge", "sign"}, key : Keys \union {Absent}]
      BY DEF PaInv, SignInSound
    <3>2. pending' = [pending EXCEPT !.step = "sign"]
      BY <1>1 DEF TakeChallenge
    <3>3. /\ pending' \in [step : {"none", "challenge", "sign"}, key : Keys \union {Absent}]
          /\ pending'.step = "sign" /\ pending'.key = pending.key
      BY <3>1, <3>2
    <3>4. pending.key \in Keys
      BY <1>1 DEF PaInv, SignInSound, TakeChallenge
    <3>5. challenges' = challenges \union {pending.key} /\ UNCHANGED job
      BY <1>1 DEF TakeChallenge
    <3> QED BY <3>3, <3>4, <3>5 DEF PaInv, SignInSound, WaitersAreAnswered
  <2> QED BY <1>1, <2>1, Kept DEF TakeChallenge, phoneVars, keyVars, PaInv
<1>2. CASE SignIn
  <2>1. UNCHANGED <<app, stored, keyVars, onboarding, joined, leaving, told, upsets>>
    BY <1>2 DEF SignIn
  <2>2. JobsSound' /\ SignInSound'
    BY <1>2, <2>1, SettleSound DEF SignIn, Consumed, keyVars
  <2>3. CASE mem' = [mem EXCEPT !.session = pending.key]
    <3>1. mem \in MemRecord /\ pending.key \in Keys \union {Absent}
      BY DEF PaInv, MemSound, SignInSound
    <3>2. mem' \in MemRecord /\ mem'.smartWallet = mem.smartWallet /\ mem'.account = mem.account
      BY <2>3, <3>1 DEF MemRecord
    <3>3. MemSound' /\ LeavingSound'
      BY <2>1, <3>2 DEF PaInv, MemSound, LeavingSound, Known, keyVars
    <3> QED BY <2>1, <2>2, <3>3, Kept DEF PaInv, keyVars
  <2>4. CASE UNCHANGED mem
    BY <2>1, <2>2, <2>4, Kept DEF PaInv, keyVars
  <2> QED BY <1>2, <2>3, <2>4 DEF SignIn
<1>3. CASE SignInFails
  <2>1. JobsSound' /\ SignInSound'
    BY <1>3, SettleSound DEF SignInFails, keyVars
  <2> QED BY <1>3, <2>1, Kept DEF SignInFails, phoneVars, keyVars, PaInv
<1> QED BY <1>1, <1>2, <1>3 DEF SignInStep

-----------------------------------------------------------------------------
(* The lock, and signing out.                                              *)

\* What the screens change of the store without touching whose it is.
LEMMA StoreTurns ==
  ASSUME PaInv, mem \in MemRecord, mem' \in MemRecord, mem'.smartWallet = mem.smartWallet,
         mem'.account = mem.account, UNCHANGED <<app, stored, keyVars, leaving>>
  PROVE  MemSound' /\ LeavingSound'
BY DEF PaInv, MemSound, LeavingSound, Known, keyVars

LEMMA LockSteps ==
  ASSUME PaInv, AccountAssumption,
         AutoLock \/ InvalidateKey \/ AttemptUnlock \/ \E r \in BOOLEAN : SetRequireUnlock(r)
  PROVE  PaInv'
<1>0. mem \in MemRecord /\ PhoneSound /\ KeySound
  BY DEF PaInv, MemSound
<1>1. ASSUME NEW r \in BOOLEAN, SetRequireUnlock(r) PROVE PaInv'
  <2>1. mem' \in MemRecord /\ mem'.smartWallet = mem.smartWallet /\ mem'.account = mem.account
    BY <1>0, <1>1 DEF SetRequireUnlock, MemRecord
  <2>2. MemSound' /\ LeavingSound'
    BY <1>0, <1>1, <2>1, StoreTurns DEF SetRequireUnlock, lockOnly, keyVars
  <2> QED BY <1>1, <2>2, Kept DEF SetRequireUnlock, lockOnly, PaInv
<1>2. CASE AutoLock
  <2>1. mem' \in MemRecord /\ mem'.smartWallet = mem.smartWallet /\ mem'.account = mem.account
    BY <1>0, <1>2 DEF AutoLock, MemRecord
  <2>2. MemSound' /\ LeavingSound'
    BY <1>0, <1>2, <2>1, StoreTurns DEF AutoLock, lockOnly, keyVars
  <2>3. PhoneSound'
    BY <1>0, <1>2 DEF AutoLock, lockOnly, PhoneSound
  <2> QED BY <1>2, <2>2, <2>3, Kept DEF AutoLock, lockOnly, PaInv
<1>3. CASE InvalidateKey
  <2>1. enclave \in [key : Keys \union {Absent}, signs : BOOLEAN]
    BY <1>0 DEF KeySound
  <2>2. enclave' = [enclave EXCEPT !.signs = FALSE]
    BY <1>3 DEF InvalidateKey
  <2>3. enclave' \in [key : Keys \union {Absent}, signs : BOOLEAN] /\ enclave'.key = enclave.key
    BY <2>1, <2>2
  <2>4. enclave # NoKey /\ UNCHANGED minted
    BY <1>3 DEF InvalidateKey, lockOnly
  <2>5. KeySound'
    BY <1>0, <2>3, <2>4 DEF KeySound, Known
  <2>6. LeavingSound'
    BY <1>3, <2>3 DEF InvalidateKey, lockOnly, PaInv, LeavingSound, Known
  <2>7. PhoneSound'
    <3>1. upsets' \in 0 .. MaxUpsets
      BY <1>0, <1>3, UpsetsCounted DEF InvalidateKey, PhoneSound
    <3> QED BY <1>0, <1>3, <3>1 DEF InvalidateKey, lockOnly, PhoneSound
  <2> QED BY <1>3, <2>5, <2>6, <2>7, Kept DEF InvalidateKey, lockOnly, PaInv
<1>4. CASE AttemptUnlock
  <2>1. PICK says \in UnlockSays :
           told' = says /\ mem' = IF says = "ok" THEN [mem EXCEPT !.locked = FALSE] ELSE mem
    BY <1>4 DEF AttemptUnlock
  <2>2. UnlockSays \subseteq {"ok", "refused", "no-key"}
    BY DEF UnlockSays, SecureElementSays, VaultSays
  <2>3. mem' \in MemRecord /\ mem'.smartWallet = mem.smartWallet /\ mem'.account = mem.account
    BY <1>0, <2>1 DEF MemRecord
  <2>4. MemSound' /\ LeavingSound'
    BY <1>0, <1>4, <2>3, StoreTurns DEF AttemptUnlock, lockOnly, keyVars
  <2>5. PhoneSound'
    BY <1>0, <1>4, <2>1, <2>2 DEF AttemptUnlock, lockOnly, PhoneSound
  <2> QED BY <1>4, <2>4, <2>5, Kept DEF AttemptUnlock, lockOnly, PaInv
<1> QED BY <1>1, <1>2, <1>3, <1>4

LEMMA LeavingSteps ==
  ASSUME PaInv, AccountAssumption, StartErasing \/ DeleteKey \/ ClearVault \/ ErasingFails \/ Forget
  PROVE  PaInv'
<1>0. PhoneSound /\ MemSound /\ KeySound /\ LeavingSound
  BY DEF PaInv
<1>1. CASE StartErasing
  <2>1. mem.smartWallet \in Known /\ mem.wallet \in People \union {Absent}
    BY <1>0 DEF MemSound, MemRecord
  <2>2. LeavingSound'
    BY <1>0, <1>1, <2>1 DEF StartErasing, leaveOnly, LeavingSound, Staying, Known
  <2> QED BY <1>1, <2>2, Kept DEF StartErasing, leaveOnly, PaInv, signInVars
<1>2. CASE DeleteKey
  <2>1. leaving \in [step : {"no", "key", "vault", "forget"}, smart : Known, classic : People \union {Absent}]
    BY <1>0 DEF LeavingSound
  <2>2. leaving' = [leaving EXCEPT !.step = "vault"]
    BY <1>2 DEF DeleteKey
  <2>3. /\ leaving' \in [step : {"no", "key", "vault", "forget"}, smart : Known, classic : People \union {Absent}]
        /\ leaving'.step = "vault" /\ leaving'.smart = leaving.smart
    BY <2>1, <2>2
  <2>4. leaving # Staying
    BY <1>2 DEF DeleteKey, Staying
  <2>5. enclave' = IF leaving.smart = Absent THEN enclave ELSE NoKey
    BY <1>2 DEF DeleteKey
  <2>6. UNCHANGED <<app, mem, minted>>
    BY <1>2 DEF DeleteKey, leaveOnly
  <2>7. LeavingSound'
    BY <1>0, <2>3, <2>4, <2>5, <2>6 DEF LeavingSound, Known, NoKey
  <2>8. KeySound'
    BY <1>0, <2>5, <2>6 DEF KeySound, Known, NoKey
  <2> QED BY <1>2, <2>7, <2>8, Kept DEF DeleteKey, leaveOnly, PaInv, signInVars
<1>3. CASE ClearVault
  <2>1. leaving \in [step : {"no", "key", "vault", "forget"}, smart : Known, classic : People \union {Absent}]
    BY <1>0 DEF LeavingSound
  <2>2. leaving' = [leaving EXCEPT !.step = "forget"]
    BY <1>3 DEF ClearVault
  <2>3. /\ leaving' \in [step : {"no", "key", "vault", "forget"}, smart : Known, classic : People \union {Absent}]
        /\ leaving'.step = "forget" /\ leaving'.smart = leaving.smart /\ leaving'.classic = leaving.classic
    BY <2>1, <2>2
  <2>4. leaving # Staying /\ leaving.step = "vault"
    BY <1>3 DEF ClearVault, Staying
  <2>5. vault' = IF leaving.classic = Absent THEN vault ELSE Absent
    BY <1>3 DEF ClearVault
  <2>6. UNCHANGED <<app, mem, minted, enclave, joined, onboarding, upsets, told>>
    BY <1>3 DEF ClearVault, leaveOnly
  <2>7. LeavingSound'
    BY <1>0, <2>3, <2>4, <2>5, <2>6 DEF LeavingSound, Known
  <2>8. PhoneSound'
    BY <1>0, <2>5, <2>6 DEF PhoneSound
  <2> QED BY <1>3, <2>7, <2>8, Kept DEF ClearVault, leaveOnly, PaInv, signInVars
<1>4. CASE ErasingFails
  <2>1. LeavingSound'
    BY <1>0, <1>4 DEF ErasingFails, leaveOnly, LeavingSound, Staying, Known
  <2>2. PhoneSound'
    <3>1. upsets' \in 0 .. MaxUpsets
      BY <1>0, <1>4, UpsetsCounted DEF ErasingFails, PhoneSound
    <3> QED BY <1>0, <1>4, <3>1 DEF ErasingFails, leaveOnly, PhoneSound
  <2> QED BY <1>4, <2>1, <2>2, Kept DEF ErasingFails, leaveOnly, PaInv, signInVars
<1>5. CASE Forget
  <2>1. MemSound'
    BY <1>0, <1>5 DEF Forget, leaveOnly, MemSound, MemRecord, Blank, Known
  <2>2. LeavingSound'
    BY <1>0, <1>5 DEF Forget, leaveOnly, LeavingSound, Staying, Known
  <2> QED BY <1>5, <2>1, <2>2, Kept DEF Forget, leaveOnly, PaInv, signInVars
<1> QED BY <1>1, <1>2, <1>3, <1>4, <1>5

-----------------------------------------------------------------------------
(* The theorems.                                                           *)

LEMMA EveryStep == AccountAssumption /\ PaInv /\ [PaNext]_paVars => PaInv'
<1> SUFFICES ASSUME AccountAssumption, PaInv, [PaNext]_paVars PROVE PaInv'
  OBVIOUS
<1>1. CASE Launch \/ Hydrate \/ Save \/ Close
  BY <1>1, AppSteps
<1>2. CASE FinishOnboarding \/ \E p \in People : SaveVaultKey(p)
  BY <1>2, OnboardingSteps
<1>3. ASSUME NEW j \in Jobs, JobStep(j) PROVE PaInv'
  BY <1>3, ReadIdentityStep, MintIdentityStep, CheckSessionStep, ProvisionStep, StoreWalletStep DEF JobStep
<1>4. ASSUME NEW j \in Jobs, NEW w \in {"session", "wallet", "recovery"}, StartJob(j, w) PROVE PaInv'
  BY <1>4, StartStep
<1>5. CASE SignInStep
  BY <1>5, SignInSteps
<1>6. CASE AutoLock \/ InvalidateKey \/ AttemptUnlock \/ \E r \in BOOLEAN : SetRequireUnlock(r)
  BY <1>6, LockSteps
<1>7. CASE StartErasing \/ DeleteKey \/ ClearVault \/ ErasingFails \/ Forget
  BY <1>7, LeavingSteps
<1>8. CASE UNCHANGED paVars
  BY <1>8, Kept DEF paVars, phoneVars, keyVars, signInVars, PaInv
<1> QED BY <1>1, <1>2, <1>3, <1>4, <1>5, <1>6, <1>7, <1>8 DEF PaNext

\* An open app only loses its account to Forget, and by then the keys are gone.
LEMMA LosesItsAccount ==
  ASSUME AccountAssumption, PaInv, [PaNext]_paVars, app = "open", app' = "open",
         mem.account # Absent, mem'.account = Absent
  PROVE  Forget
<1>1. mem \in MemRecord /\ onboarding \in People \union {Absent}
  BY DEF PaInv, MemSound, PhoneSound
<1>2. mem'.account # mem.account
  OBVIOUS
<1>3. ~(Launch \/ Hydrate \/ Save \/ Close)
  BY <1>2 DEF Launch, Hydrate, Save, Close
<1>4. ~FinishOnboarding /\ ~\E p \in People : SaveVaultKey(p)
  <2>1. ASSUME FinishOnboarding PROVE FALSE
    BY <1>1, <2>1 DEF FinishOnboarding, Adopts, MemRecord, AccountAssumption
  <2> QED BY <1>2, <2>1 DEF SaveVaultKey, phoneVars
<1>5. ASSUME NEW j \in Jobs, JobStep(j) PROVE FALSE
  <2>1. ASSUME StoreWallet(j) PROVE FALSE
    <3>1. CASE mem' = [mem EXCEPT !.smartWallet = job[j].owner]
      BY <1>1, <1>2, <3>1 DEF MemRecord
    <3>2. ASSUME NEW p \in People,
                 mem' = [mem EXCEPT !.smartWallet = job[j].owner, !.account = p, !.locked = FALSE]
          PROVE  FALSE
      BY <1>1, <3>2 DEF MemRecord, AccountAssumption
    <3> QED BY <1>2, <2>1, <3>1, <3>2 DEF StoreWallet
  <2> QED BY <1>2, <1>5, <2>1 DEF JobStep, ReadIdentity, MintIdentity, CheckSession, Provision
<1>6. ASSUME NEW j \in Jobs, NEW w \in {"session", "wallet", "recovery"}, StartJob(j, w) PROVE FALSE
  BY <1>2, <1>6 DEF StartJob
<1>7. ~SignInStep
  <2>1. ASSUME mem' = [mem EXCEPT !.session = pending.key] PROVE FALSE
    BY <1>1, <1>2, <2>1 DEF MemRecord
  <2> QED BY <1>2, <2>1 DEF SignInStep, TakeChallenge, SignIn, SignInFails, phoneVars
<1>8. ~(AutoLock \/ InvalidateKey \/ AttemptUnlock) /\ ~\E r \in BOOLEAN : SetRequireUnlock(r)
  <2>1. ASSUME NEW locked \in BOOLEAN, mem' = [mem EXCEPT !.locked = locked] PROVE FALSE
    BY <1>1, <1>2, <2>1 DEF MemRecord
  <2>2. ASSUME NEW r \in BOOLEAN, mem' = [mem EXCEPT !.requireUnlock = r, !.locked = FALSE] PROVE FALSE
    BY <1>1, <1>2, <2>2 DEF MemRecord
  <2> QED BY <1>2, <2>1, <2>2 DEF AutoLock, InvalidateKey, AttemptUnlock, SetRequireUnlock
<1>9. ~(StartErasing \/ DeleteKey \/ ClearVault \/ ErasingFails) /\ ~UNCHANGED paVars
  BY <1>2 DEF StartErasing, DeleteKey, ClearVault, ErasingFails, paVars, phoneVars
<1> QED BY <1>3, <1>4, <1>5, <1>6, <1>7, <1>8, <1>9 DEF PaNext

\* The store, the keys, the jobs and the sign-in agree, whatever is under way.
THEOREM AccountSound ==
  ASSUME AccountAssumption
  PROVE  PaSpec => []PaInv
<1>1. PaInit => PaInv
  BY Start
<1>2. PaInv /\ [PaNext]_paVars => PaInv'
  BY EveryStep
<1> QED BY <1>1, <1>2, PTL DEF PaSpec

\* The variables of the account keep their types.
THEOREM AccountTypes ==
  ASSUME AccountAssumption
  PROVE  PaSpec => []PaTypeOK
BY AccountSound, Shapes, PTL

\* Nobody waits for a sign-in that is over.
THEOREM WaitersReleased ==
  ASSUME AccountAssumption
  PROVE  PaSpec => []WaitersAreAnswered
<1>1. PaInv => WaitersAreAnswered
  BY DEF PaInv, SignInSound
<1> QED BY <1>1, AccountSound, PTL

\* An account that leaves an open app leaves no key behind.
THEOREM KeysErased ==
  ASSUME AccountAssumption
  PROVE  PaSpec => ErasedKeysAreGone
<1>1. PaInv /\ [PaNext]_paVars
        => [app = "open" /\ app' = "open" /\ mem.account # Absent /\ mem'.account = Absent
              => {leaving.smart, leaving.classic} \intersect {enclave'.key, vault'} \subseteq {Absent}]_paVars
  <2> SUFFICES ASSUME PaInv, [PaNext]_paVars, app = "open", app' = "open",
                      mem.account # Absent, mem'.account = Absent
               PROVE  {leaving.smart, leaving.classic} \intersect {enclave'.key, vault'} \subseteq {Absent}
    OBVIOUS
  <2>1. leaving.step = "forget" /\ UNCHANGED <<enclave, vault>>
    BY LosesItsAccount DEF Forget, MayForget
  <2>2. /\ leaving.smart \in Keys \union {Absent} /\ enclave.key \in Keys \union {Absent}
        /\ leaving.classic \in People \union {Absent} /\ vault \in People \union {Absent}
    BY DEF PaInv, PhoneSound, KeySound, LeavingSound, Known
  <2> QED BY <2>1, <2>2 DEF PaInv, LeavingSound, AccountAssumption
<1> QED BY <1>1, AccountSound, PTL DEF PaSpec, ErasedKeysAreGone

-----------------------------------------------------------------------------
(* The wallet contract.                                                    *)

CountSound(w) == /\ IsFiniteSet(SignersOf(w))
                 /\ signerCount[w] = Cardinality(SignersOf(w))
                 /\ w \in deployed => signerCount[w] > 0
                 /\ w \notin deployed => signerCount[w] = 0

CountInv == SwTypeOK /\ \A w \in SmartWallets : CountSound(w)

LEMMA CountImpliesInv == CountInv => SwInv
  BY DEF CountInv, CountSound, SwInv

LEMMA InitSound == SwInit => CountInv
<1> SUFFICES ASSUME SwInit PROVE CountInv
  OBVIOUS
<1>1. SwTypeOK
  BY DEF SwInit, SwTypeOK
<1>2. ASSUME NEW w \in SmartWallets PROVE CountSound(w)
  <2>1. SignersOf(w) = {}
    BY DEF SwInit, SignersOf, IsSigner
  <2> QED BY <2>1, FS_EmptySet DEF SwInit, CountSound
<1> QED BY <1>1, <1>2 DEF CountInv

-----------------------------------------------------------------------------
(* What a call does to the set of signers.                                 *)

\* Signers of the wallets a call is not about.
LEMMA OtherSigners ==
  ASSUME NEW w \in SmartWallets, NEW f, signerKind' = [signerKind EXCEPT ![w] = f], SwTypeOK,
         NEW v \in SmartWallets \ {w}
  PROVE  SignersOf(v)' = SignersOf(v)
  BY DEF SwTypeOK, SignersOf, IsSigner

\* A signer that is new makes one more.
LEMMA SignerAdded ==
  ASSUME SwTypeOK, NEW w \in SmartWallets, NEW k \in Points, NEW kind \in SignerKinds, ~IsSigner(w, k),
         IsFiniteSet(SignersOf(w)), signerKind' = [signerKind EXCEPT ![w][k] = kind]
  PROVE  /\ IsFiniteSet(SignersOf(w)')
         /\ Cardinality(SignersOf(w)') = Cardinality(SignersOf(w)) + 1
<1>1. kind # "none" /\ signerKind'[w] = [signerKind[w] EXCEPT ![k] = kind]
  BY DEF SwTypeOK, SignerKinds
<1>2. signerKind[w] \in [Points -> SignerKinds \union {"none"}]
  BY DEF SwTypeOK
<1>3. SignersOf(w)' = SignersOf(w) \union {k}
  BY <1>1, <1>2 DEF SignersOf, IsSigner
<1>4. k \notin SignersOf(w)
  BY DEF SignersOf
<1> QED BY <1>3, <1>4, FS_AddElement

\* A signer that is removed makes one less.
LEMMA SignerRemoved ==
  ASSUME SwTypeOK, NEW w \in SmartWallets, NEW k \in Points, IsSigner(w, k),
         IsFiniteSet(SignersOf(w)), signerKind' = [signerKind EXCEPT ![w][k] = "none"]
  PROVE  /\ IsFiniteSet(SignersOf(w)')
         /\ Cardinality(SignersOf(w)') = Cardinality(SignersOf(w)) - 1
<1>1. signerKind'[w] = [signerKind[w] EXCEPT ![k] = "none"]
  BY DEF SwTypeOK
<1>2. signerKind[w] \in [Points -> SignerKinds \union {"none"}]
  BY DEF SwTypeOK
<1>3. SignersOf(w)' = SignersOf(w) \ {k}
  BY <1>1, <1>2 DEF SignersOf, IsSigner
<1>4. k \in SignersOf(w)
  BY DEF SignersOf
<1> QED BY <1>3, <1>4, FS_RemoveElement

\* A rotation retires one and adds another: the count need not move.
LEMMA SignerReplaced ==
  ASSUME SwTypeOK, NEW w \in SmartWallets, NEW r \in Points, NEW k \in Points, NEW kind \in SignerKinds,
         IsFiniteSet(SignersOf(w)), Replace(w, r, k, kind)
  PROVE  /\ IsFiniteSet(SignersOf(w)')
         /\ Cardinality(SignersOf(w)') = Cardinality(SignersOf(w))
<1> DEFINE rest == SignersOf(w) \ {r}
<1>1. kind # "none" /\ IsSigner(w, r) /\ ~IsSigner(w, k)
  BY DEF Replace, MayReplace, SignerKinds
<1>2. signerKind'[w] = [[signerKind[w] EXCEPT ![r] = "none"] EXCEPT ![k] = kind]
  BY DEF Replace, SwTypeOK
<1>3. signerKind[w] \in [Points -> SignerKinds \union {"none"}]
  BY DEF SwTypeOK
<1>4. SignersOf(w)' = rest \union {k}
  BY <1>1, <1>2, <1>3 DEF SignersOf, IsSigner
<1>5. r \in SignersOf(w) /\ k \notin rest
  BY <1>1 DEF SignersOf
<1>6. IsFiniteSet(rest) /\ Cardinality(rest) = Cardinality(SignersOf(w)) - 1
  BY <1>5, FS_RemoveElement
<1>7. IsFiniteSet(rest \union {k}) /\ Cardinality(rest \union {k}) = Cardinality(rest) + 1
  BY <1>5, <1>6, FS_AddElement
<1>8. Cardinality(SignersOf(w)) \in Nat
  BY FS_CardinalityType
<1> QED BY <1>4, <1>6, <1>7, <1>8

-----------------------------------------------------------------------------
(* Steps.                                                                  *)

LEMMA DeployTypes ==
  ASSUME SwTypeOK, NEW w \in SmartWallets, NEW k \in Points, NEW kind \in SignerKinds,
         NEW recovery \in Recovery \union {NoRecovery}, Deploy(w, k, kind, recovery)
  PROVE  SwTypeOK'
  BY DEF SwTypeOK, Deploy

LEMMA SpendTypes ==
  ASSUME SwTypeOK, NEW w \in SmartWallets, NEW sig \in Signature, Spend(w, sig)
  PROVE  SwTypeOK'
<1>1. sig.key \in Points
  BY DEF Signature
<1>2. signerKind[w][sig.key] \in SignerKinds \union {"none"}
  BY <1>1 DEF SwTypeOK
<1>3. [sig |-> sig, held |-> signerKind[w][sig.key]] \in Payment
  BY <1>2 DEF Payment
<1> QED BY <1>3 DEF SwTypeOK, Spend

\* A deployment puts the first signer in.
LEMMA DeployCounts ==
  ASSUME CountInv, NEW w \in SmartWallets, NEW k \in Points, NEW kind \in SignerKinds,
         NEW recovery, Deploy(w, k, kind, recovery), NEW v \in SmartWallets
  PROVE  CountSound(v)'
<1>1. SwTypeOK /\ CountSound(w) /\ CountSound(v)
  BY DEF CountInv
<1>2. CASE v # w
  <2>1. SignersOf(v)' = SignersOf(v)
    BY <1>1, <1>2, OtherSigners DEF Deploy
  <2> QED BY <1>1, <1>2, <2>1 DEF CountSound, Deploy, SwTypeOK
<1>3. CASE v = w
  <2>1. SignersOf(w) = {}
    <3>1. IsFiniteSet(SignersOf(w)) /\ Cardinality(SignersOf(w)) = 0
      BY <1>1 DEF CountSound, Deploy
    <3> QED BY <3>1, FS_EmptySet
  <2>2. ~IsSigner(w, k)
    BY <2>1 DEF SignersOf
  <2>3. /\ IsFiniteSet(SignersOf(w)')
        /\ Cardinality(SignersOf(w)') = Cardinality(SignersOf(w)) + 1
    BY <1>1, <2>2, SignerAdded DEF CountSound, Deploy
  <2>4. Cardinality(SignersOf(w)) = 0
    BY <2>1, FS_EmptySet
  <2>5. signerCount'[w] = 1 /\ w \in deployed'
    BY <1>1 DEF Deploy, SwTypeOK
  <2> QED BY <1>3, <2>3, <2>4, <2>5 DEF CountSound
<1> QED BY <1>2, <1>3

LEMMA AddCounts ==
  ASSUME CountInv, NEW w \in SmartWallets, NEW sig, NEW k \in Points, NEW kind \in SignerKinds,
         AddSigner(w, sig, k, kind), NEW v \in SmartWallets
  PROVE  CountSound(v)'
<1>1. SwTypeOK /\ CountSound(w) /\ CountSound(v)
  BY DEF CountInv
<1>2. CASE v # w
  <2>1. SignersOf(v)' = SignersOf(v)
    BY <1>1, <1>2, OtherSigners DEF AddSigner
  <2> QED BY <1>1, <1>2, <2>1 DEF CountSound, AddSigner, SwTypeOK
<1>3. CASE v = w
  <2>1. /\ IsFiniteSet(SignersOf(w)')
        /\ Cardinality(SignersOf(w)') = Cardinality(SignersOf(w)) + 1
    BY <1>1, SignerAdded DEF CountSound, AddSigner
  <2>2. signerCount'[w] = signerCount[w] + 1 /\ w \in deployed /\ deployed' = deployed
    BY <1>1 DEF AddSigner, CheckAuth, SwTypeOK
  <2>3. signerCount[w] \in Nat
    BY <1>1 DEF SwTypeOK
  <2> QED BY <1>1, <1>3, <2>1, <2>2, <2>3 DEF CountSound
<1> QED BY <1>2, <1>3

\* "A wallet with no signer left would be unspendable forever."
LEMMA RemoveCounts ==
  ASSUME CountInv, NEW w \in SmartWallets, NEW sig, NEW k \in Points,
         RemoveSigner(w, sig, k), NEW v \in SmartWallets
  PROVE  CountSound(v)'
<1>1. SwTypeOK /\ CountSound(w) /\ CountSound(v)
  BY DEF CountInv
<1>2. CASE v # w
  <2>1. SignersOf(v)' = SignersOf(v)
    BY <1>1, <1>2, OtherSigners DEF RemoveSigner
  <2> QED BY <1>1, <1>2, <2>1 DEF CountSound, RemoveSigner, SwTypeOK
<1>3. CASE v = w
  <2>1. /\ IsFiniteSet(SignersOf(w)')
        /\ Cardinality(SignersOf(w)') = Cardinality(SignersOf(w)) - 1
    BY <1>1, SignerRemoved DEF CountSound, RemoveSigner
  <2>2. /\ signerCount'[w] = signerCount[w] - 1 /\ signerCount[w] > 1
        /\ w \in deployed /\ deployed' = deployed
    BY <1>1 DEF RemoveSigner, CheckAuth, SwTypeOK
  <2>3. signerCount[w] \in Nat
    BY <1>1 DEF SwTypeOK
  <2> QED BY <1>1, <1>3, <2>1, <2>2, <2>3 DEF CountSound
<1> QED BY <1>2, <1>3

LEMMA ReplaceCounts ==
  ASSUME CountInv, NEW w \in SmartWallets, NEW r \in Points, NEW k \in Points, NEW kind \in SignerKinds,
         Replace(w, r, k, kind), NEW v \in SmartWallets
  PROVE  CountSound(v)'
<1>1. SwTypeOK /\ CountSound(w) /\ CountSound(v)
  BY DEF CountInv
<1>2. CASE v # w
  <2>1. SignersOf(v)' = SignersOf(v)
    BY <1>1, <1>2, OtherSigners DEF Replace
  <2> QED BY <1>1, <1>2, <2>1 DEF CountSound, Replace
<1>3. CASE v = w
  <2>1. /\ IsFiniteSet(SignersOf(w)')
        /\ Cardinality(SignersOf(w)') = Cardinality(SignersOf(w))
    BY <1>1, SignerReplaced DEF CountSound
  <2> QED BY <1>1, <1>3, <2>1 DEF CountSound, Replace
<1> QED BY <1>2, <1>3

LEMMA SignersUnmoved ==
  ASSUME CountInv, UNCHANGED <<deployed, signerKind, signerCount>>, NEW v \in SmartWallets
  PROVE  CountSound(v)'
<1>1. SignersOf(v)' = SignersOf(v)
  BY DEF SignersOf, IsSigner
<1> QED BY <1>1 DEF CountInv, CountSound

\* No call, in any order, disturbs the count.
LEMMA StepSound == CountInv /\ [SwNext]_walletVars => CountInv'
<1> SUFFICES ASSUME CountInv, [SwNext]_walletVars PROVE CountInv'
  OBVIOUS
<1>0. SwTypeOK
  BY DEF CountInv
<1>1. CASE UNCHANGED walletVars
  <2>1. SwTypeOK'
    BY <1>0, <1>1 DEF SwTypeOK, walletVars
  <2>2. ASSUME NEW v \in SmartWallets PROVE CountSound(v)'
    BY <1>1, SignersUnmoved DEF walletVars
  <2> QED BY <2>1, <2>2 DEF CountInv
<1>2. ASSUME NEW w \in SmartWallets, NEW k \in Points, NEW kind \in SignerKinds,
             NEW recovery \in Recovery \union {NoRecovery}, Deploy(w, k, kind, recovery)
      PROVE  CountInv'
  BY <1>0, <1>2, DeployTypes, DeployCounts DEF CountInv
<1>3. ASSUME NEW w \in SmartWallets, NEW sig \in Signature, NEW k \in Points, NEW kind \in SignerKinds,
             AddSigner(w, sig, k, kind)
      PROVE  CountInv'
  <2>1. SwTypeOK'
    BY <1>0, <1>3 DEF SwTypeOK, AddSigner
  <2> QED BY <1>3, <2>1, AddCounts DEF CountInv
<1>4. ASSUME NEW w \in SmartWallets, NEW sig \in Signature, NEW k \in Points, NEW kind \in SignerKinds,
             NEW retired \in Points, Rotate(w, sig, retired, k, kind)
      PROVE  CountInv'
  <2>1. Replace(w, retired, k, kind)
    BY <1>4 DEF Rotate
  <2>2. SwTypeOK'
    BY <1>0, <2>1 DEF SwTypeOK, Replace
  <2> QED BY <2>1, <2>2, ReplaceCounts DEF CountInv
<1>5. ASSUME NEW w \in SmartWallets, NEW sig \in Signature, NEW k \in Points, RemoveSigner(w, sig, k)
      PROVE  CountInv'
  <2>1. signerCount[w] - 1 \in Nat
    BY <1>0, <1>5 DEF SwTypeOK, RemoveSigner
  <2>2. SwTypeOK'
    BY <1>0, <1>5, <2>1 DEF SwTypeOK, RemoveSigner
  <2> QED BY <1>5, <2>2, RemoveCounts DEF CountInv
<1>6. ASSUME NEW w \in SmartWallets, NEW sig \in Signature, NEW recovery \in Recovery,
             SetRecoverySigner(w, sig, recovery)
      PROVE  CountInv'
  <2>1. SwTypeOK'
    BY <1>0, <1>6 DEF SwTypeOK, SetRecoverySigner
  <2>2. ASSUME NEW v \in SmartWallets PROVE CountSound(v)'
    BY <1>6, SignersUnmoved DEF SetRecoverySigner
  <2> QED BY <2>1, <2>2 DEF CountInv
<1>7. ASSUME NEW w \in SmartWallets, NEW sig \in Signature, Spend(w, sig) PROVE CountInv'
  <2>1. SwTypeOK'
    BY <1>0, <1>7, SpendTypes
  <2>2. ASSUME NEW v \in SmartWallets PROVE CountSound(v)'
    BY <1>7, SignersUnmoved DEF Spend
  <2> QED BY <2>1, <2>2 DEF CountInv
<1> QED BY <1>1, <1>2, <1>3, <1>4, <1>5, <1>6, <1>7 DEF SwNext

LEMMA Counts == SwSpec => []CountInv
  BY InitSound, StepSound, PTL DEF SwSpec

-----------------------------------------------------------------------------
(* Theorems.                                                               *)

\* A wallet that exists always has a signer, and counts its signers right,
\* whatever calls its signers and its recovery signer make (contracts/wallet).
THEOREM NeverUnspendable == SwSpec => []SwInv
  BY Counts, CountImpliesInv, PTL

\* A wallet has no recovery signer before it exists, so deploying it replaces none.
NoneBefore == \A w \in SmartWallets : w \notin deployed => recoverySigner[w] = NoRecovery

LEMMA InitNone == SwInit => NoneBefore
  BY DEF SwInit, NoneBefore

LEMMA StepNone == SwTypeOK /\ NoneBefore /\ [SwNext]_walletVars => NoneBefore'
<1> SUFFICES ASSUME SwTypeOK, NoneBefore, [SwNext]_walletVars, NEW v \in SmartWallets, v \notin deployed'
             PROVE  recoverySigner'[v] = NoRecovery
  BY DEF NoneBefore
<1>1. CASE UNCHANGED walletVars
  BY <1>1 DEF walletVars, NoneBefore
<1>2. ASSUME NEW w \in SmartWallets, NEW k, NEW kind, NEW recovery, Deploy(w, k, kind, recovery)
      PROVE  recoverySigner'[v] = NoRecovery
  <2>1. v # w /\ v \notin deployed
    BY <1>2 DEF Deploy
  <2> QED BY <1>2, <2>1 DEF Deploy, SwTypeOK, NoneBefore
<1>3. ASSUME NEW w \in SmartWallets, NEW sig, NEW recovery, SetRecoverySigner(w, sig, recovery)
      PROVE  recoverySigner'[v] = NoRecovery
  <2>1. v # w /\ v \notin deployed
    BY <1>3 DEF SetRecoverySigner, CheckAuth
  <2> QED BY <1>3, <2>1 DEF SetRecoverySigner, SwTypeOK, NoneBefore
<1>4. CASE UNCHANGED <<deployed, recoverySigner>>
  BY <1>4 DEF NoneBefore
<1> QED BY <1>1, <1>2, <1>3, <1>4 DEF SwNext, AddSigner, RemoveSigner, Rotate, Replace, Spend

LEMMA StepKeepsRecovery ==
  ASSUME SwTypeOK, NoneBefore, SwNext, NEW v \in SmartWallets, recoverySigner[v] # NoRecovery
  PROVE  recoverySigner'[v] = recoverySigner[v]
<1>1. ASSUME NEW w \in SmartWallets, NEW k, NEW kind, NEW recovery, Deploy(w, k, kind, recovery)
      PROVE  recoverySigner'[v] = recoverySigner[v]
  <2>1. v # w
    BY <1>1 DEF Deploy, NoneBefore
  <2> QED BY <1>1, <2>1 DEF Deploy, SwTypeOK
<1>2. ASSUME NEW w \in SmartWallets, NEW sig, NEW recovery, SetRecoverySigner(w, sig, recovery)
      PROVE  recoverySigner'[v] = recoverySigner[v]
  <2>1. v # w
    BY <1>2 DEF SetRecoverySigner, RecoveryUnset
  <2> QED BY <1>2, <2>1 DEF SetRecoverySigner, SwTypeOK
<1>3. CASE UNCHANGED recoverySigner
  BY <1>3
<1> QED BY <1>1, <1>2, <1>3 DEF SwNext, AddSigner, RemoveSigner, Rotate, Replace, Spend

\* A recovery signer, once set, is neither replaced nor removed by any call.
THEOREM RecoveryStays == SwSpec => RecoveryIsForGood
<1>1. SwTypeOK /\ NoneBefore /\ [SwNext]_walletVars
        => [\A w \in SmartWallets : recoverySigner[w] # NoRecovery
                                => recoverySigner'[w] = recoverySigner[w]]_walletVars
  BY StepKeepsRecovery
<1>2. CountInv => SwTypeOK
  BY DEF CountInv
<1>3. SwSpec => []SwTypeOK
  BY <1>2, Counts, PTL
<1>4. SwSpec => []NoneBefore
  BY <1>3, InitNone, StepNone, PTL DEF SwSpec
<1> QED BY <1>1, <1>3, <1>4, PTL DEF SwSpec, RecoveryIsForGood

LEMMA StepPays == SwTypeOK /\ PaymentsBySigners /\ [SwNext]_walletVars => PaymentsBySigners'
<1> SUFFICES ASSUME SwTypeOK, PaymentsBySigners, [SwNext]_walletVars, NEW v \in SmartWallets,
                    lastSpend'[v] # NoSpend
             PROVE  lastSpend'[v].held = lastSpend'[v].sig.offered /\ Verifies(lastSpend'[v].sig)
  BY DEF PaymentsBySigners, Verifies, DeviceVerifies, PasskeyVerifies
<1>1. ASSUME NEW w \in SmartWallets, NEW sig \in Signature, Spend(w, sig)
      PROVE  lastSpend'[v].held = lastSpend'[v].sig.offered /\ Verifies(lastSpend'[v].sig)
  <2>1. CASE v = w
    <3>1. sig.offered = signerKind[w][sig.key] /\ Verifies(sig)
      BY <1>1 DEF Spend, CheckAuth, InScope
    <3>2. lastSpend'[w] = [sig |-> sig, held |-> signerKind[w][sig.key]]
      BY <1>1 DEF Spend, SwTypeOK
    <3> QED BY <2>1, <3>1, <3>2
  <2>2. CASE v # w
    <3>1. lastSpend'[v] = lastSpend[v]
      BY <1>1, <2>2 DEF Spend, SwTypeOK
    <3> QED BY <3>1 DEF PaymentsBySigners
  <2> QED BY <2>1, <2>2
<1>2. CASE UNCHANGED lastSpend
  BY <1>2 DEF PaymentsBySigners
<1> QED BY <1>1, <1>2 DEF SwNext, walletVars, Deploy, AddSigner, RemoveSigner, Rotate, Replace, SetRecoverySigner

\* Every payment was authorized by one of the wallet's signers, under the rules of
\* the kind the wallet recorded for it: a recovery signer never pays.
THEOREM SignersPay == SwSpec => []PaymentsBySigners
<1>1. SwInit => PaymentsBySigners
  BY DEF SwInit, PaymentsBySigners
<1>2. CountInv => SwTypeOK
  BY DEF CountInv
<1>3. SwSpec => []SwTypeOK
  BY <1>2, Counts, PTL
<1> QED BY <1>1, <1>3, StepPays, PTL DEF SwSpec

-----------------------------------------------------------------------------
(* Custody: what a phone, the API and the ledger hold of a wallet.         *)

DeployerTx == [provision : Setups, wallet : SmartWallets, seq : Nat, step : {"deploying", "funding"}]

SetupRecord == [step : {"idle", "passkey", "posted", "done"}, phone : Phones \union {NoPoint},
                recovery : Credentials \union {NoPoint}]

CallRecord == [step : CallSteps, wallet : SmartWallets \union {NoWallet}]

MoveRecord == [step : {"start", "found", "unsigned", "sent", "done"},
               wallet : SmartWallets \union {NoWallet},
               retired : Phones \union {NoPoint}, credential : Credentials \union {NoPoint}]

Rotation == [step : Phones, wallet : SmartWallets, retired : Phones, credential : Credentials]

Passkey == [key : Credentials, handle : Phones \union {"P-256"}]

\* The wallet obeys the phone, or its owner found it from another one to move it.
Obeys(p, w) == IsSigner(w, p) \/ \E q \in Phones \ {p} : move[q].wallet = w

SetupsSound == /\ setup \in [Setups -> SetupRecord]
               /\ created \subseteq Credentials /\ passkeys \subseteq Passkey
               /\ \A s \in Setups : setup[s].step # "idle" => setup[s].phone \in Phones

\* The steps of a call whose wallet is there.
Holding == {"fund", "funding", "secondary", "save", "answer"}

\* A call that has a wallet keeps it; once the wallet is there, it obeys the phone.
CallSound(s) ==
  /\ setup[s].step = "idle" => provision[s].step = "none"
  /\ provision[s].step \in Holding \union {"deploying"} => provision[s].wallet \in SmartWallets
  /\ provision[s].step \in Holding => Obeys(setup[s].phone, provision[s].wallet)
  /\ provision[s].step = "deploying" /\ provision[s].wallet \in deployed
       => Obeys(setup[s].phone, provision[s].wallet)

CallsSound == provision \in [Setups -> CallRecord] /\ \A s \in Setups : CallSound(s)

\* A deployment in flight is of the one call that waits for its wallet.
TxSound(tx) ==
  /\ provision[tx.provision].step \notin {"none", "find", "deploy"}
  /\ provision[tx.provision].wallet = tx.wallet
  /\ tx.step = "deploying" =>
       \A s \in Setups : provision[s].step = "deploying" /\ provision[s].wallet = tx.wallet
                           => s = tx.provision

TxsSound == sequence \in Nat /\ deployerTxs \subseteq DeployerTx /\ \A tx \in deployerTxs : TxSound(tx)

RowsSound == /\ walletRow \in [Phones -> Stored \union {NotStored}]
             /\ \A p \in Phones : walletRow[p] # NotStored => Obeys(p, walletRow[p].wallet)

PhonesSound == phoneWallet \in [Phones -> Stored \union {NotStored}] /\ StoredWalletObeys

MoveSound(p) == IF move[p].step = "start" THEN move[p].wallet = NoWallet
                ELSE /\ move[p].wallet \in SmartWallets /\ move[p].retired \in Phones
                     /\ move[p].credential \in Credentials

MovesSound == move \in [Phones -> MoveRecord] /\ \A p \in Phones : MoveSound(p)

RotationsSound == rotations \subseteq Rotation /\ \A r \in rotations : move[r.step].wallet = r.wallet

CustodyInv == /\ CountInv /\ SetupsSound /\ CallsSound /\ TxsSound
              /\ RowsSound /\ PhonesSound /\ MovesSound /\ RotationsSound

Constants == CustodyAssumption /\ WalletAssumption

LEMMA Tokens ==
  ASSUME Constants
  PROVE  /\ Phones \subseteq Points /\ Credentials \subseteq Points
         /\ NoPoint \notin Points /\ NoWallet \notin SmartWallets
         /\ NotStored \notin Stored
  BY DEF Constants, CustodyAssumption, WalletAssumption, NotStored, Stored

LEMMA CustodyStart == Constants /\ CustodyInit => CustodyInv
<1> SUFFICES ASSUME Constants, CustodyInit PROVE CustodyInv
  OBVIOUS
<1>1. CountInv
  BY InitSound DEF CustodyInit
<1>2. SetupsSound /\ CallsSound
  BY DEF CustodyInit, CustodyFields, SwInit, SetupsSound, SetupRecord, NoSetup, CallsSound, CallRecord, CallSteps,
         NoProvision, CallSound, Holding
<1>3. TxsSound /\ RowsSound /\ PhonesSound
  BY DEF CustodyInit, CustodyFields, TxsSound, RowsSound, PhonesSound, StoredWalletObeys
<1>4. MovesSound /\ RotationsSound
  BY DEF CustodyInit, CustodyFields, MovesSound, MoveRecord, MoveSound, NoMove, RotationsSound
<1> QED BY <1>1, <1>2, <1>3, <1>4 DEF CustodyInv

-----------------------------------------------------------------------------
(* What each kind of step leaves alone.                                    *)

LEMMA SetupFrame ==
  ASSUME NEW s, SetupStep(s)
  PROVE  /\ UNCHANGED walletVars
         /\ UNCHANGED <<provision, deployerTxs, sequence, funded, walletRow, move, rotations>>
  BY DEF SetupStep, StartSetup, MakePasskey, StoreAnswer, GiveUpSetup, moveVars, serviceVars

LEMMA CallFrame ==
  ASSUME NEW s, CallStep(s) \/ FailCall(s)
  PROVE  /\ UNCHANGED walletVars
         /\ UNCHANGED <<passkeys, created, phoneWallet, setup, funded, move, rotations>>
  BY DEF CallStep, FailCall, ReceiveSetup, FindBySigner, SendDeploy, PollDeploy, SendFunding, PollFunding,
         SecondaryFunding, SaveRow, SendsFor, phoneUnchanged, setupVars, moveVars

LEMMA LandFrame ==
  ASSUME NEW tx, Land(tx) \/ Drop(tx)
  PROVE  UNCHANGED <<provision, walletRow, passkeys, created, phoneWallet, setup, move, rotations>>
  BY DEF Land, Drop, phoneUnchanged, setupVars, moveVars

LEMMA MoveFrame ==
  ASSUME NEW p, FindRecoverable(p) \/ ApproveMove(p) \/ EndMove(p)
  PROVE  /\ UNCHANGED walletVars
         /\ UNCHANGED <<provision, deployerTxs, sequence, funded, walletRow, passkeys, created, setup>>
<1>1. FindRecoverable(p) \/ ApproveMove(p) \/ EndMove(p) => screenOnly
  BY Zenon DEF FindRecoverable, ApproveMove, EndMove
<1> QED BY <1>1 DEF screenOnly, serviceVars

LEMMA RotationFrame ==
  ASSUME NEW r, LandRotation(r) \/ DropRotation(r)
  PROVE  UNCHANGED <<provision, deployerTxs, sequence, funded, walletRow, passkeys, created, phoneWallet,
                     setup, move>>
  BY DEF LandRotation, DropRotation, screenOnly, serviceVars, setupVars

\* A step of the screen touches the move in one of two ways.
LEMMA MoveSteps ==
  ASSUME NEW p, ApproveMove(p) \/ EndMove(p)
  PROVE  /\ \E step \in {"sent", "unsigned", "found", "done"} : move' = [move EXCEPT ![p].step = step]
         /\ move[p].step # "start"
<1>1. ASSUME ApproveMove(p)
      PROVE  /\ move' = [move EXCEPT ![p].step = "sent"] \/ move' = [move EXCEPT ![p].step = "unsigned"]
             /\ move[p].step \in {"found", "unsigned"}
  BY <1>1, Zenon DEF ApproveMove
<1>2. ASSUME EndMove(p)
      PROVE  /\ move' = [move EXCEPT ![p].step = "done"] \/ move' = [move EXCEPT ![p].step = "found"]
             /\ move[p].step = "sent"
  BY <1>2, Zenon DEF EndMove
<1> QED BY <1>1, <1>2

-----------------------------------------------------------------------------
(* A wallet that obeys goes on obeying.                                    *)

\* What the phone and the API do to the contract is a call of the contract.
LEMMA LandIsCall ==
  ASSUME Constants, CustodyInv, NEW tx \in deployerTxs, Land(tx)
  PROVE  [SwNext]_walletVars
<1>1. CASE UNCHANGED walletVars
  BY <1>1
<1>2. CASE tx.step = "deploying"
  <2> DEFINE made == setup[tx.provision]
             recovery == IF made.recovery = NoPoint THEN NoRecovery
                         ELSE [key |-> made.recovery, kind |-> "Passkey"]
  <2>1. tx \in DeployerTx /\ TxSound(tx)
    BY DEF CustodyInv, TxsSound
  <2>2. tx.provision \in Setups /\ tx.wallet \in SmartWallets
    BY <2>1 DEF DeployerTx
  <2>3. made \in SetupRecord /\ made.phone \in Phones
    BY <2>1, <2>2 DEF CustodyInv, SetupsSound, CallsSound, CallSound, TxSound
  <2>4. made.phone \in Points /\ recovery \in Recovery \union {NoRecovery}
    BY <2>3, Tokens DEF SetupRecord, Recovery, SignerKinds
  <2>5. Deploy(tx.wallet, made.phone, "Device", recovery)
    BY <1>2 DEF Land
  <2>6. "Device" \in SignerKinds
    BY DEF SignerKinds
  <2> QED BY <2>2, <2>4, <2>5, <2>6 DEF SwNext
<1> QED BY <1>1, <1>2 DEF Land

LEMMA RotationIsCall ==
  ASSUME Constants, CustodyInv, NEW r \in rotations, LandRotation(r)
  PROVE  SwNext
<1>1. r \in Rotation
  BY DEF CustodyInv, RotationsSound
<1>2. /\ r.wallet \in SmartWallets /\ r.retired \in Points /\ r.step \in Points
      /\ r.credential \in Points
  BY <1>1, Tokens DEF Rotation
<1>3. ByPasskey(r.credential) \in Signature /\ "Device" \in SignerKinds
  BY <1>2 DEF ByPasskey, Signature, SignerKinds
<1>4. Rotate(r.wallet, ByPasskey(r.credential), r.retired, r.step, "Device")
  BY DEF LandRotation
<1> QED BY <1>2, <1>3, <1>4 DEF SwNext

LEMMA CallsOnly ==
  ASSUME Constants, CustodyInv, [CustodyNext]_custodyVars
  PROVE  [SwNext]_walletVars
<1>1. CASE \E tx \in deployerTxs : Land(tx)
  BY <1>1, LandIsCall
<1>2. CASE \E r \in rotations : LandRotation(r)
  BY <1>2, RotationIsCall
<1>3. ASSUME NEW tx \in deployerTxs, Drop(tx) PROVE UNCHANGED walletVars
  BY <1>3 DEF Drop
<1>4. ASSUME NEW r \in rotations, DropRotation(r) PROVE UNCHANGED walletVars
  BY <1>4 DEF DropRotation, screenOnly
<1>5. CASE UNCHANGED custodyVars
  BY <1>5 DEF custodyVars
<1> QED BY <1>1, <1>2, <1>3, <1>4, <1>5, SetupFrame, CallFrame, MoveFrame DEF CustodyNext

LEMMA CallsCount ==
  ASSUME Constants, CustodyInv, [CustodyNext]_custodyVars
  PROVE  CountInv'
  BY CallsOnly, StepSound DEF CustodyInv

\* A wallet that was found is never let go of.
LEMMA FoundStays ==
  ASSUME Constants, CustodyInv, [CustodyNext]_custodyVars, NEW q \in Phones,
         move[q].wallet \in SmartWallets
  PROVE  move'[q].wallet = move[q].wallet
<1>1. move \in [Phones -> MoveRecord] /\ move[q].step # "start"
  BY Tokens DEF CustodyInv, MovesSound, MoveSound
<1>2. ASSUME NEW p \in Phones, FindRecoverable(p) PROVE move'[q].wallet = move[q].wallet
  BY <1>1, <1>2 DEF FindRecoverable
<1>3. ASSUME NEW p \in Phones, ApproveMove(p) \/ EndMove(p) PROVE move'[q].wallet = move[q].wallet
  <2>1. PICK step : move' = [move EXCEPT ![p].step = step]
    BY <1>3, MoveSteps
  <2> QED BY <1>1, <2>1 DEF MoveRecord
<1>4. UNCHANGED custodyVars => UNCHANGED move
  BY DEF custodyVars, moveVars
<1> QED BY <1>2, <1>3, <1>4, SetupFrame, CallFrame, LandFrame, RotationFrame DEF CustodyNext

\* A key leaves a wallet only for the one it was moved to.
LEMMA SignerStays ==
  ASSUME Constants, CustodyInv, [CustodyNext]_custodyVars, NEW p \in Phones, NEW w \in SmartWallets,
         IsSigner(w, p)
  PROVE  Obeys(p, w)'
<1>1. signerKind \in [SmartWallets -> [Points -> SignerKinds \union {"none"}]] /\ p \in Points
  BY Tokens DEF CustodyInv, CountInv, SwTypeOK
<1>2. ASSUME NEW tx \in deployerTxs, Land(tx) PROVE IsSigner(w, p)'
  <2>1. CASE UNCHANGED walletVars
    BY <2>1 DEF walletVars, IsSigner
  <2>2. ASSUME NEW v, NEW k, NEW recovery, Deploy(v, k, "Device", recovery) PROVE IsSigner(w, p)'
    BY <1>1, <2>2 DEF Deploy, IsSigner
  <2> QED BY <1>2, <2>1, <2>2 DEF Land
<1>3. ASSUME NEW r \in rotations, LandRotation(r) PROVE Obeys(p, w)'
  <2>1. r \in Rotation /\ move[r.step].wallet = r.wallet
    BY DEF CustodyInv, RotationsSound
  <2>2. r.step \in Phones /\ r.wallet \in SmartWallets
    BY <2>1 DEF Rotation
  <2>3. move' = move /\ Replace(r.wallet, r.retired, r.step, "Device")
    BY <1>3 DEF LandRotation, Rotate
  <2>4. r.retired # r.step
    BY <2>3 DEF Replace, MayReplace
  <2>5. CASE w = r.wallet /\ p = r.retired
    BY <2>1, <2>2, <2>3, <2>4, <2>5 DEF Obeys
  <2>6. CASE ~(w = r.wallet /\ p = r.retired)
    BY <1>1, <2>2, <2>3, <2>6 DEF Replace, IsSigner, Obeys
  <2> QED BY <2>5, <2>6
<1>4. CASE UNCHANGED walletVars
  BY <1>4 DEF walletVars, IsSigner, Obeys
<1>5. ASSUME NEW tx \in deployerTxs, Drop(tx) PROVE UNCHANGED walletVars
  BY <1>5 DEF Drop
<1>6. ASSUME NEW r \in rotations, DropRotation(r) PROVE UNCHANGED walletVars
  BY <1>6 DEF DropRotation, screenOnly
<1>7. UNCHANGED custodyVars => UNCHANGED walletVars
  BY DEF custodyVars
<1>8. IsSigner(w, p)' => Obeys(p, w)'
  BY DEF Obeys
<1> QED BY <1>2, <1>3, <1>4, <1>5, <1>6, <1>7, <1>8, SetupFrame, CallFrame, MoveFrame DEF CustodyNext

LEMMA ObeyingStays ==
  ASSUME Constants, CustodyInv, [CustodyNext]_custodyVars, NEW p \in Phones, NEW w \in SmartWallets,
         Obeys(p, w)
  PROVE  Obeys(p, w)'
<1>1. CASE IsSigner(w, p)
  BY <1>1, SignerStays
<1>2. ASSUME NEW q \in Phones \ {p}, move[q].wallet = w PROVE Obeys(p, w)'
  BY <1>2, FoundStays DEF Obeys
<1> QED BY <1>1, <1>2 DEF Obeys

-----------------------------------------------------------------------------
(* The phone's side of a setup.                                            *)

LEMMA HandleIsHandle == ASSUME NEW p \in Phones PROVE UserHandle(p) \in Phones \union {"P-256"}
  BY DEF UserHandle

LEMMA SetupsStay ==
  ASSUME Constants, CustodyInv, [CustodyNext]_custodyVars
  PROVE  SetupsSound'
<1>1. setup \in [Setups -> SetupRecord] /\ SetupsSound
  BY DEF CustodyInv, SetupsSound
<1>2. ASSUME NEW s \in Setups, NEW p \in Phones, StartSetup(s, p) PROVE SetupsSound'
  <2> DEFINE new == [NoSetup EXCEPT !.step = "passkey", !.phone = p]
  <2>1. new \in SetupRecord /\ new.phone = p
    BY DEF SetupRecord, NoSetup
  <2> HIDE DEF new
  <2>2. setup' = [setup EXCEPT ![s] = new] /\ UNCHANGED <<created, passkeys>>
    BY <1>2 DEF StartSetup, new
  <2> QED BY <1>1, <2>1, <2>2 DEF SetupsSound
<1>3. ASSUME NEW s \in Setups, MakePasskey(s) PROVE SetupsSound'
  <2>1. setup[s].phone \in Phones /\ setup[s].step = "passkey"
    BY <1>1, <1>3 DEF SetupsSound, MakePasskey
  <2>2. ASSUME NEW c \in Credentials,
               passkeys' = {k \in passkeys : k.handle # UserHandle(setup[s].phone)}
                             \union {[key |-> c, handle |-> UserHandle(setup[s].phone)]},
               created' = created \union {c},
               setup' = [setup EXCEPT ![s].step = "posted", ![s].recovery = c]
        PROVE  SetupsSound'
    <3>1. passkeys' \subseteq Passkey
      BY <1>1, <2>1, <2>2, HandleIsHandle DEF Passkey, SetupsSound
    <3>2. setup' \in [Setups -> SetupRecord]
      BY <1>1, <2>2 DEF SetupRecord
    <3>3. \A t \in Setups : setup'[t].step # "idle" => setup'[t].phone \in Phones
      BY <1>1, <2>1, <2>2 DEF SetupsSound, SetupRecord
    <3> QED BY <1>1, <2>2, <3>1, <3>2, <3>3 DEF SetupsSound
  <2>3. ASSUME setup' = [setup EXCEPT ![s].step = "posted"], UNCHANGED <<passkeys, created>>
        PROVE  SetupsSound'
    BY <1>1, <2>1, <2>3 DEF SetupsSound, SetupRecord
  <2> QED BY <1>3, <2>2, <2>3 DEF MakePasskey
<1>4. ASSUME NEW s \in Setups, StoreAnswer(s) \/ GiveUpSetup(s) PROVE SetupsSound'
  <2>1. setup' = [setup EXCEPT ![s].step = "done"] /\ UNCHANGED <<created, passkeys>>
    BY <1>4 DEF StoreAnswer, GiveUpSetup
  <2>2. setup[s].step # "idle"
    BY <1>4 DEF StoreAnswer, GiveUpSetup
  <2> QED BY <1>1, <2>1, <2>2 DEF SetupsSound, SetupRecord
<1>5. UNCHANGED <<setup, created, passkeys>> => SetupsSound'
  BY <1>1 DEF SetupsSound
<1>6. UNCHANGED custodyVars => UNCHANGED <<setup, created, passkeys>>
  BY DEF custodyVars, setupVars
<1> QED BY <1>2, <1>3, <1>4, <1>5, <1>6, CallFrame, LandFrame, MoveFrame, RotationFrame DEF CustodyNext, SetupStep

\* The phone a setup is for is set when it starts, and its steps do not go back.
LEMMA PhoneStays ==
  ASSUME Constants, CustodyInv, [CustodyNext]_custodyVars, NEW s \in Setups, setup[s].step # "idle"
  PROVE  setup'[s].phone = setup[s].phone /\ setup'[s].step # "idle"
<1>1. setup \in [Setups -> SetupRecord]
  BY DEF CustodyInv, SetupsSound
<1>2. ASSUME NEW t \in Setups, SetupStep(t)
      PROVE  setup'[s].phone = setup[s].phone /\ setup'[s].step # "idle"
  <2>1. ASSUME NEW p \in Phones, StartSetup(t, p)
        PROVE  setup'[s].phone = setup[s].phone /\ setup'[s].step # "idle"
    <3>1. setup[t].step = "idle" /\ \E new : setup' = [setup EXCEPT ![t] = new]
      BY <2>1 DEF StartSetup
    <3> QED BY <1>1, <3>1
  <2>2. ASSUME MakePasskey(t)
        PROVE  setup'[s].phone = setup[s].phone /\ setup'[s].step # "idle"
    <3>1. \/ \E c : setup' = [setup EXCEPT ![t].step = "posted", ![t].recovery = c]
          \/ setup' = [setup EXCEPT ![t].step = "posted"]
      BY <2>2 DEF MakePasskey
    <3> QED BY <1>1, <3>1 DEF SetupRecord
  <2>3. ASSUME StoreAnswer(t) \/ GiveUpSetup(t)
        PROVE  setup'[s].phone = setup[s].phone /\ setup'[s].step # "idle"
    BY <1>1, <2>3 DEF StoreAnswer, GiveUpSetup, SetupRecord
  <2> QED BY <1>2, <2>1, <2>2, <2>3 DEF SetupStep
<1>3. UNCHANGED custodyVars => UNCHANGED setup
  BY DEF custodyVars, setupVars
<1> QED BY <1>2, <1>3, CallFrame, LandFrame, MoveFrame, RotationFrame DEF CustodyNext

-----------------------------------------------------------------------------
(* The API's side of a setup.                                              *)

\* How a step of a call moves it: to where it still has no wallet, to the wallet
\* that was saved before, to an address nobody has, on with the wallet it has
\* once that is there, or to the end.
Advances(s, new) ==
  \/ provision[s].step \in {"none", "find"} /\ new.step \in {"find", "deploy"}
  \/ /\ provision[s].step = "find" /\ new.step = "answer"
     /\ walletRow[setup[s].phone] # NotStored /\ new.wallet = walletRow[setup[s].phone].wallet
  \/ /\ provision[s].step = "deploy" /\ new.step = "deploying"
     /\ new.wallet \in SmartWallets \ deployed /\ \A t \in Setups : provision[t].wallet # new.wallet
  \/ /\ \/ provision[s].step \in Holding
        \/ provision[s].step = "deploying" /\ provision[s].wallet \in deployed
     /\ new.step \in Holding /\ new.wallet = provision[s].wallet
  \/ provision[s].step # "none" /\ new.step = "failed" /\ new.wallet = provision[s].wallet

\* No call is made before the phone asked for it.
LEMMA Asked ==
  ASSUME Constants, CustodyInv, NEW s \in Setups, provision[s].step # "none"
  PROVE  setup[s].step # "idle" /\ setup[s].phone \in Phones
  BY DEF CustodyInv, SetupsSound, CallsSound, CallSound

LEMMA CallAdvances ==
  ASSUME Constants, CustodyInv, NEW s \in Setups, CallStep(s) \/ FailCall(s)
  PROVE  /\ \E new \in CallRecord : provision' = [provision EXCEPT ![s] = new] /\ Advances(s, new)
         /\ setup[s].step # "idle" /\ setup[s].phone \in Phones
<1> DEFINE At(step, w) == [step |-> step, wallet |-> w]
           Goal == \E new \in CallRecord : provision' = [provision EXCEPT ![s] = new] /\ Advances(s, new)
<1>1. provision \in [Setups -> CallRecord] /\ provision[s] \in CallRecord
  BY DEF CustodyInv, CallsSound
<1>2. provision[s].wallet \in SmartWallets \union {NoWallet}
  BY <1>1 DEF CallRecord
<1>3. ASSUME NEW step, Reaches(s, step)
      PROVE  provision' = [provision EXCEPT ![s] = At(step, provision[s].wallet)]
  <2>1. provision' = [provision EXCEPT ![s] = [provision[s] EXCEPT !.step = step]]
    BY <1>1, <1>3 DEF Reaches
  <2>2. [provision[s] EXCEPT !.step = step] = At(step, provision[s].wallet)
    BY <1>1 DEF CallRecord
  <2> HIDE DEF At
  <2> QED BY <2>1, <2>2
<1>4. \A step \in CallSteps, w \in SmartWallets \union {NoWallet} : At(step, w) \in CallRecord
  BY DEF CallRecord
<1>5. \A step, w : At(step, w).step = step /\ At(step, w).wallet = w
  OBVIOUS
<1> HIDE DEF At
<1>6. CASE ReceiveSetup(s)
  <2>1. Reaches(s, "find") /\ provision[s].step = "none" /\ setup[s].step = "posted"
    BY <1>6 DEF ReceiveSetup
  <2>2. At("find", provision[s].wallet) \in CallRecord
    BY <1>2, <1>4 DEF CallSteps
  <2>3. Advances(s, At("find", provision[s].wallet))
    BY <1>5, <2>1 DEF Advances
  <2>4. setup[s].phone \in Phones
    BY <2>1 DEF CustodyInv, SetupsSound
  <2> QED BY <1>3, <2>1, <2>2, <2>3, <2>4
<1>7. CASE FindBySigner(s)
  <2>1. provision[s].step = "find"
    BY <1>7 DEF FindBySigner
  <2>2. setup[s].step # "idle" /\ setup[s].phone \in Phones
    BY <2>1, Asked
  <2>3. CASE walletRow[setup[s].phone] = NotStored
    <3>1. provision' = [provision EXCEPT ![s] = [NoProvision EXCEPT !.step = "deploy"]]
      BY <1>7, <2>3 DEF FindBySigner
    <3>2. [NoProvision EXCEPT !.step = "deploy"] = At("deploy", NoWallet)
      BY DEF At, NoProvision
    <3>3. At("deploy", NoWallet) \in CallRecord /\ Advances(s, At("deploy", NoWallet))
      BY <1>4, <1>5, <2>1 DEF Advances, CallSteps
    <3> QED BY <2>2, <3>1, <3>2, <3>3
  <2>4. CASE walletRow[setup[s].phone] # NotStored
    <3> DEFINE w == walletRow[setup[s].phone].wallet
    <3>1. provision' = [provision EXCEPT ![s] = At("answer", w)]
      BY <1>7, <2>4 DEF FindBySigner, At
    <3>2. w \in SmartWallets
      BY <2>2, <2>4 DEF CustodyInv, RowsSound, Stored
    <3>3. At("answer", w) \in CallRecord /\ Advances(s, At("answer", w))
      BY <1>4, <1>5, <2>1, <2>4, <3>2 DEF Advances, CallSteps
    <3> QED BY <2>2, <3>1, <3>3
  <2> QED BY <2>3, <2>4
<1>8. CASE SendDeploy(s)
  <2>1. provision[s].step = "deploy"
    BY <1>8 DEF SendDeploy
  <2>2. PICK w \in SmartWallets \ deployed :
          (\A t \in Setups : provision[t].wallet # w) /\ SendsFor(s, w, "deploying")
    BY <1>8 DEF SendDeploy
  <2>3. provision' = [provision EXCEPT ![s] = At("deploying", w)]
    BY <2>2 DEF SendsFor, At
  <2>4. At("deploying", w) \in CallRecord /\ Advances(s, At("deploying", w))
    BY <1>4, <1>5, <2>1, <2>2 DEF Advances, CallSteps
  <2> QED BY <2>1, <2>3, <2>4, Asked
<1>9. ASSUME NEW step \in Holding,
             \/ provision[s].step \in Holding
             \/ provision[s].step = "deploying" /\ provision[s].wallet \in deployed,
             provision' = [provision EXCEPT ![s] = At(step, provision[s].wallet)]
      PROVE  Goal /\ setup[s].step # "idle" /\ setup[s].phone \in Phones
  <2>1. At(step, provision[s].wallet) \in CallRecord
    BY <1>2, <1>4 DEF CallSteps, Holding
  <2>2. Advances(s, At(step, provision[s].wallet))
    BY <1>5, <1>9 DEF Advances
  <2>3. provision[s].step # "none"
    BY <1>9 DEF Holding
  <2> QED BY <1>9, <2>1, <2>2, <2>3, Asked
<1>10. CASE SendFunding(s)
  <2>1. provision[s].step = "fund" /\ provision' = [provision EXCEPT ![s] = At("funding", provision[s].wallet)]
    BY <1>10 DEF SendFunding, SendsFor, At
  <2> QED BY <1>9, <2>1 DEF Holding
<1>11. CASE PollDeploy(s)
  <2>1. provision[s].step = "deploying" /\ provision[s].wallet \in deployed /\ Reaches(s, "fund")
    BY <1>11 DEF PollDeploy, Confirmed
  <2> QED BY <1>3, <1>9, <2>1 DEF Holding
<1>12. CASE PollFunding(s) \/ SecondaryFunding(s) \/ SaveRow(s)
  <2>1. /\ provision[s].step \in {"funding", "secondary", "save"}
        /\ \E step \in {"secondary", "save", "answer"} : Reaches(s, step)
    BY <1>12 DEF PollFunding, SecondaryFunding, SaveRow
  <2> QED BY <1>3, <1>9, <2>1 DEF Holding
<1>13. CASE FailCall(s)
  <2>1. provision[s].step # "none" /\ Reaches(s, "failed")
    BY <1>13 DEF FailCall
  <2>2. At("failed", provision[s].wallet) \in CallRecord /\ Advances(s, At("failed", provision[s].wallet))
    BY <1>2, <1>4, <1>5, <2>1 DEF Advances, CallSteps
  <2> QED BY <1>3, <2>1, <2>2, Asked
<1> QED BY <1>6, <1>7, <1>8, <1>10, <1>11, <1>12, <1>13 DEF CallStep

\* Only a deployment that landed makes a wallet.
LEMMA MadeByLanding ==
  ASSUME Constants, CustodyInv, [CustodyNext]_custodyVars, NEW w \in deployed', w \notin deployed
  PROVE  \E tx \in deployerTxs : /\ tx.step = "deploying" /\ tx.wallet = w /\ UNCHANGED provision
                                 /\ \E recovery : Deploy(w, setup[tx.provision].phone, "Device", recovery)
<1>1. ASSUME NEW tx \in deployerTxs, Land(tx)
      PROVE  tx.step = "deploying" /\ tx.wallet = w
             /\ \E recovery : Deploy(w, setup[tx.provision].phone, "Device", recovery)
  <2>1. CASE UNCHANGED walletVars
    BY <2>1 DEF walletVars
  <2>2. ASSUME NEW recovery, tx.step = "deploying", Deploy(tx.wallet, setup[tx.provision].phone, "Device", recovery)
        PROVE  tx.step = "deploying" /\ tx.wallet = w
               /\ \E r : Deploy(w, setup[tx.provision].phone, "Device", r)
    <3>1. tx.wallet = w
      BY <2>2 DEF Deploy
    <3> QED BY <2>2, <3>1
  <2> QED BY <1>1, <2>1, <2>2 DEF Land
<1>2. UNCHANGED walletVars => deployed' = deployed
  BY DEF walletVars
<1>3. ASSUME NEW tx \in deployerTxs, Drop(tx) PROVE UNCHANGED walletVars
  BY <1>3 DEF Drop
<1>4. ASSUME NEW r \in rotations, LandRotation(r) \/ DropRotation(r) PROVE deployed' = deployed
  BY <1>4 DEF LandRotation, DropRotation, screenOnly, Rotate, Replace, walletVars
<1>5. UNCHANGED custodyVars => UNCHANGED walletVars
  BY DEF custodyVars
<1> QED BY <1>1, <1>2, <1>3, <1>4, <1>5, SetupFrame, CallFrame, LandFrame, MoveFrame DEF CustodyNext

\* What a call has, it keeps through the steps of others.
LEMMA CallKept ==
  ASSUME Constants, CustodyInv, [CustodyNext]_custodyVars, NEW s \in Setups, provision'[s] = provision[s]
  PROVE  CallSound(s)'
<1>1. provision[s] \in CallRecord /\ CallSound(s)
  BY DEF CustodyInv, CallsSound
<1>2. setup'[s].step = "idle" => setup[s].step = "idle"
  BY PhoneStays
<1>3. ASSUME provision[s].step \in Holding \union {"deploying"}
      PROVE  /\ provision[s].wallet \in SmartWallets /\ setup[s].phone \in Phones
             /\ setup'[s].phone = setup[s].phone
  <2>1. provision[s].step # "none"
    BY <1>3 DEF Holding
  <2> QED BY <1>1, <1>3, <2>1, Asked, PhoneStays DEF CallSound
<1>4. ASSUME provision[s].step \in Holding \union {"deploying"}, Obeys(setup[s].phone, provision[s].wallet)
      PROVE  Obeys(setup[s].phone, provision[s].wallet)'
  <2>1. PICK p \in Phones, w \in SmartWallets : p = setup[s].phone /\ w = provision[s].wallet
    BY <1>3, <1>4
  <2>2. Obeys(p, w)'
    BY <1>4, <2>1, ObeyingStays
  <2>3. p = setup'[s].phone /\ w = provision'[s].wallet
    BY <1>3, <1>4, <2>1
  <2> QED BY <2>2, <2>3 DEF Obeys
<1>5. ASSUME provision[s].step = "deploying", provision[s].wallet \in deployed', provision[s].wallet \notin deployed
      PROVE  Obeys(setup[s].phone, provision[s].wallet)'
  <2>1. PICK w \in SmartWallets : w = provision[s].wallet
    BY <1>3, <1>5
  <2>2. PICK tx \in deployerTxs : /\ tx.step = "deploying" /\ tx.wallet = w
                                  /\ \E recovery : Deploy(w, setup[tx.provision].phone, "Device", recovery)
    BY <1>5, <2>1, MadeByLanding
  <2>3. tx.provision = s
    BY <1>5, <2>1, <2>2 DEF CustodyInv, TxsSound, TxSound
  <2>4. PICK p \in Phones : p = setup[s].phone /\ p = setup'[s].phone
    BY <1>3, <1>5
  <2>5. \E recovery : Deploy(w, p, "Device", recovery)
    BY <2>2, <2>3, <2>4
  <2>6. signerKind'[w][p] = "Device"
    BY <2>5, Tokens DEF Deploy, CustodyInv, CountInv, SwTypeOK
  <2>7. Obeys(p, w)'
    BY <2>6 DEF Obeys, IsSigner
  <2> QED BY <2>1, <2>4, <2>7 DEF Obeys
<1> QED BY <1>1, <1>2, <1>3, <1>4, <1>5 DEF CallSound

\* Nor does its own step lose it.
LEMMA CallMoved ==
  ASSUME Constants, CustodyInv, NEW s \in Setups, CallStep(s) \/ FailCall(s)
  PROVE  CallSound(s)'
<1>1. PICK new \in CallRecord : provision' = [provision EXCEPT ![s] = new] /\ Advances(s, new)
  BY CallAdvances
<1>2. /\ setup[s].step # "idle" /\ setup' = setup /\ UNCHANGED <<move, deployed, signerKind>>
  BY CallAdvances, CallFrame DEF walletVars
<1>3. provision'[s] = new
  BY <1>1 DEF CustodyInv, CallsSound
<1>4. CallSound(s)
  BY DEF CustodyInv, CallsSound
<1>5. \A p, w : Obeys(p, w)' <=> Obeys(p, w)
  BY <1>2 DEF Obeys, IsSigner
<1>6. CASE new.step \in {"find", "deploy", "failed"}
  BY <1>2, <1>3, <1>6 DEF CallSound, Holding
<1>7. CASE new.step = "answer" /\ walletRow[setup[s].phone] # NotStored
           /\ new.wallet = walletRow[setup[s].phone].wallet
  <2>1. setup[s].phone \in Phones
    BY CallAdvances
  <2>2. new.wallet \in SmartWallets /\ Obeys(setup[s].phone, new.wallet)
    BY <1>7, <2>1 DEF CustodyInv, RowsSound, Stored
  <2>3. Obeys(setup[s].phone, provision[s].wallet)'
    BY <1>2, <1>3, <2>2 DEF Obeys, IsSigner
  <2> QED BY <1>2, <1>3, <1>7, <2>2, <2>3 DEF CallSound
<1>8. CASE new.step = "deploying" /\ new.wallet \in SmartWallets \ deployed
  BY <1>2, <1>3, <1>8 DEF CallSound, Holding
<1>9. CASE /\ \/ provision[s].step \in Holding
              \/ provision[s].step = "deploying" /\ provision[s].wallet \in deployed
           /\ new.step \in Holding /\ new.wallet = provision[s].wallet
  <2>1. new.wallet \in SmartWallets /\ Obeys(setup[s].phone, new.wallet)
    BY <1>4, <1>9 DEF CallSound
  <2>2. Obeys(setup[s].phone, provision[s].wallet)'
    BY <1>2, <1>3, <2>1 DEF Obeys, IsSigner
  <2> QED BY <1>2, <1>3, <1>9, <2>1, <2>2 DEF CallSound
<1> QED BY <1>1, <1>6, <1>7, <1>8, <1>9 DEF Advances

LEMMA CallsStay ==
  ASSUME Constants, CustodyInv, [CustodyNext]_custodyVars
  PROVE  CallsSound'
<1>1. provision \in [Setups -> CallRecord]
  BY DEF CustodyInv, CallsSound
<1>2. CASE \E s \in Setups : CallStep(s) \/ FailCall(s)
  <2>1. PICK s \in Setups : CallStep(s) \/ FailCall(s)
    BY <1>2
  <2>2. PICK new \in CallRecord : provision' = [provision EXCEPT ![s] = new]
    BY <2>1, CallAdvances
  <2>3. \A t \in Setups : CallSound(t)'
    BY <1>1, <2>1, <2>2, CallMoved, CallKept
  <2> QED BY <1>1, <2>2, <2>3 DEF CallsSound
<1>3. CASE UNCHANGED provision
  BY <1>1, <1>3, CallKept DEF CallsSound
<1>4. UNCHANGED custodyVars => UNCHANGED provision
  BY DEF custodyVars, serviceVars
<1> QED BY <1>2, <1>3, <1>4, SetupFrame, LandFrame, MoveFrame, RotationFrame DEF CustodyNext

-----------------------------------------------------------------------------
(* Transactions in flight.                                                 *)

LEMMA TxKept ==
  ASSUME Constants, CustodyInv, [CustodyNext]_custodyVars, NEW tx \in deployerTxs
  PROVE  TxSound(tx)'
<1>1. tx \in DeployerTx /\ TxSound(tx) /\ tx.provision \in Setups /\ tx.wallet \in SmartWallets
  BY DEF CustodyInv, TxsSound, DeployerTx
<1>2. provision \in [Setups -> CallRecord]
  BY DEF CustodyInv, CallsSound
<1>3. CASE \E s \in Setups : CallStep(s) \/ FailCall(s)
  <2>1. PICK s \in Setups : CallStep(s) \/ FailCall(s)
    BY <1>3
  <2>2. PICK new \in CallRecord : provision' = [provision EXCEPT ![s] = new] /\ Advances(s, new)
    BY <2>1, CallAdvances
  <2>3. provision'[s] = new /\ \A t \in Setups \ {s} : provision'[t] = provision[t]
    BY <1>2, <2>2
  <2>4. /\ provision'[tx.provision].step \notin {"none", "find", "deploy"}
        /\ provision'[tx.provision].wallet = tx.wallet
    BY <1>1, <2>2, <2>3 DEF TxSound, Advances, Holding
  <2>5. new.step = "deploying" => new.wallet # tx.wallet
    BY <1>1, <2>2 DEF Advances, TxSound, Holding
  <2> QED BY <1>1, <2>3, <2>4, <2>5 DEF TxSound
<1>4. UNCHANGED provision => TxSound(tx)'
  BY <1>1 DEF TxSound
<1>5. UNCHANGED custodyVars => UNCHANGED provision
  BY DEF custodyVars, serviceVars
<1> QED BY <1>3, <1>4, <1>5, SetupFrame, LandFrame, MoveFrame, RotationFrame DEF CustodyNext

\* A transaction that is sent is of the call that sends it.
LEMMA TxSent ==
  ASSUME Constants, CustodyInv, NEW s \in Setups, NEW w \in SmartWallets, NEW step \in {"deploying", "funding"},
         SendsFor(s, w, step), step = "deploying" => \A t \in Setups : provision[t].wallet # w
  PROVE  /\ sequence' \in Nat /\ deployerTxs' \subseteq DeployerTx
         /\ \A tx \in deployerTxs' \ deployerTxs : TxSound(tx)'
<1> DEFINE new == [provision |-> s, wallet |-> w, seq |-> sequence, step |-> step]
<1>1. sequence \in Nat /\ deployerTxs \subseteq DeployerTx /\ provision \in [Setups -> CallRecord]
  BY DEF CustodyInv, TxsSound, CallsSound
<1>2. new \in DeployerTx
  BY <1>1 DEF DeployerTx
<1>3. deployerTxs' = deployerTxs \union {new} /\ sequence' = sequence
  BY DEF SendsFor
<1>4. provision' = [provision EXCEPT ![s] = [step |-> step, wallet |-> w]]
  BY DEF SendsFor
<1>5. /\ provision'[s].step = step /\ provision'[s].wallet = w
      /\ \A t \in Setups \ {s} : provision'[t] = provision[t]
  BY <1>1, <1>4
<1>6. new.provision = s /\ new.wallet = w /\ new.step = step
  OBVIOUS
<1> HIDE DEF new
<1>7. ASSUME NEW tx \in deployerTxs' \ deployerTxs PROVE TxSound(tx)'
  <2>1. tx.provision = s /\ tx.wallet = w /\ tx.step = step
    BY <1>3, <1>6, <1>7
  <2> QED BY <1>5, <2>1 DEF TxSound
<1> QED BY <1>1, <1>2, <1>3, <1>7

LEMMA TxsStay ==
  ASSUME Constants, CustodyInv, [CustodyNext]_custodyVars
  PROVE  TxsSound'
<1>1. sequence \in Nat /\ deployerTxs \subseteq DeployerTx
  BY DEF CustodyInv, TxsSound
<1>2. CASE deployerTxs' \subseteq deployerTxs /\ sequence' \in Nat
  BY <1>1, <1>2, TxKept DEF TxsSound
<1>3. CASE /\ sequence' \in Nat /\ deployerTxs' \subseteq DeployerTx
           /\ \A tx \in deployerTxs' \ deployerTxs : TxSound(tx)'
  BY <1>3, TxKept DEF TxsSound
<1>4. ASSUME NEW s \in Setups, SendDeploy(s) PROVE TxsSound'
  <2>1. PICK w \in SmartWallets \ deployed :
          (\A t \in Setups : provision[t].wallet # w) /\ SendsFor(s, w, "deploying")
    BY <1>4 DEF SendDeploy
  <2> QED BY <1>3, <2>1, TxSent
<1>5. ASSUME NEW s \in Setups, SendFunding(s) PROVE TxsSound'
  <2>1. SendsFor(s, provision[s].wallet, "funding") /\ provision[s].step = "fund"
    BY <1>5 DEF SendFunding
  <2>2. provision[s].wallet \in SmartWallets
    BY <2>1 DEF CustodyInv, CallsSound, CallSound, Holding
  <2> QED BY <1>3, <2>1, <2>2, TxSent
<1>6. ASSUME NEW s \in Setups, \/ ReceiveSetup(s) \/ FindBySigner(s) \/ PollDeploy(s) \/ PollFunding(s)
                               \/ SecondaryFunding(s) \/ SaveRow(s) \/ FailCall(s)
      PROVE  TxsSound'
  <2>1. deployerTxs' = deployerTxs /\ sequence' \in {sequence, sequence + 1}
    BY <1>6 DEF ReceiveSetup, FindBySigner, PollDeploy, PollFunding, SecondaryFunding, SaveRow, FailCall
  <2> QED BY <1>1, <1>2, <2>1
<1>7. ASSUME NEW tx \in deployerTxs, Land(tx) \/ Drop(tx) PROVE TxsSound'
  <2>1. deployerTxs' \subseteq deployerTxs /\ sequence' \in {sequence, sequence + 1}
    BY <1>7 DEF Land, Drop
  <2> QED BY <1>1, <1>2, <2>1
<1>8. UNCHANGED <<deployerTxs, sequence>> => TxsSound'
  BY <1>1, <1>2
<1>9. UNCHANGED custodyVars => UNCHANGED <<deployerTxs, sequence>>
  BY DEF custodyVars, serviceVars
<1> QED BY <1>4, <1>5, <1>6, <1>7, <1>8, <1>9, SetupFrame, MoveFrame, RotationFrame DEF CustodyNext, CallStep

-----------------------------------------------------------------------------
(* The wallets table and the phones.                                       *)

LEMMA RowsStay ==
  ASSUME Constants, CustodyInv, [CustodyNext]_custodyVars
  PROVE  RowsSound'
<1>1. /\ walletRow \in [Phones -> Stored \union {NotStored}]
      /\ \A p \in Phones : walletRow[p] # NotStored => Obeys(p, walletRow[p].wallet)
  BY DEF CustodyInv, RowsSound
<1>2. ASSUME NEW p \in Phones, walletRow[p] # NotStored PROVE Obeys(p, walletRow[p].wallet)'
             \/ walletRow'[p] # walletRow[p]
  <2>1. PICK w \in SmartWallets : w = walletRow[p].wallet
    BY <1>1, <1>2 DEF Stored
  <2>2. Obeys(p, w)'
    BY <1>1, <1>2, <2>1, ObeyingStays
  <2> QED BY <2>1, <2>2 DEF Obeys
<1>3. ASSUME UNCHANGED walletRow PROVE RowsSound'
  BY <1>1, <1>2, <1>3 DEF RowsSound
<1>4. ASSUME NEW s \in Setups, SaveRow(s) PROVE RowsSound'
  <2> DEFINE new == [wallet |-> provision[s].wallet, recovery |-> setup[s].recovery]
  <2>1. provision[s].step = "save"
    BY <1>4 DEF SaveRow
  <2>2. PICK p \in Phones : p = setup[s].phone
    BY <2>1, Asked
  <2>3. PICK w \in SmartWallets : w = provision[s].wallet /\ Obeys(p, w)
    BY <2>1, <2>2 DEF CustodyInv, CallsSound, CallSound, Holding
  <2>4. setup[s].recovery \in Points \union {NoPoint}
    BY Tokens DEF CustodyInv, SetupsSound, SetupRecord
  <2>5. new \in Stored /\ new.wallet = w
    BY <2>3, <2>4 DEF Stored
  <2> HIDE DEF new
  <2>6. PICK row \in Stored : row = MergedRow(walletRow[p], new)
    BY <1>1, <2>2, <2>5 DEF MergedRow, Stored
  <2>7. \/ walletRow[p] = NotStored /\ row.wallet = w
        \/ walletRow[p] # NotStored /\ row.wallet = walletRow[p].wallet
    BY <1>1, <2>5, <2>6 DEF MergedRow, Stored
  <2>8. walletRow' = [walletRow EXCEPT ![p] = row]
    BY <1>4, <2>2, <2>6 DEF SaveRow, new
  <2>9. \A q \in Phones : walletRow'[q] = IF q = p THEN row ELSE walletRow[q]
    BY <1>1, <2>8
  <2>10. PICK v \in SmartWallets : v = row.wallet /\ Obeys(p, v)
    BY <1>1, <2>2, <2>3, <2>6, <2>7 DEF Stored
  <2>11. Obeys(p, v)'
    BY <2>10, ObeyingStays
  <2>12. Obeys(p, walletRow[p].wallet)'
    BY <2>9, <2>10, <2>11 DEF Obeys
  <2>13. ASSUME NEW q \in Phones, q # p, walletRow'[q] # NotStored PROVE Obeys(q, walletRow[q].wallet)'
    <3>1. walletRow'[q] = walletRow[q]
      BY <2>9, <2>13
    <3> QED BY <1>2, <2>13, <3>1
  <2>14. walletRow' \in [Phones -> Stored \union {NotStored}]
    BY <1>1, <2>8
  <2> QED BY <2>12, <2>13, <2>14 DEF RowsSound
<1>5. ASSUME NEW s \in Setups, \/ ReceiveSetup(s) \/ FindBySigner(s) \/ SendDeploy(s) \/ PollDeploy(s)
                               \/ SendFunding(s) \/ PollFunding(s) \/ SecondaryFunding(s) \/ FailCall(s)
      PROVE  UNCHANGED walletRow
  BY <1>5 DEF ReceiveSetup, FindBySigner, SendDeploy, PollDeploy, SendFunding, PollFunding, SecondaryFunding,
              FailCall, SendsFor
<1>6. UNCHANGED custodyVars => UNCHANGED walletRow
  BY DEF custodyVars, serviceVars
<1> QED BY <1>3, <1>4, <1>5, <1>6, SetupFrame, LandFrame, MoveFrame, RotationFrame DEF CustodyNext, CallStep

\* What a phone stores next to its key obeys it.
LEMMA StoringSound ==
  ASSUME Constants, CustodyInv, [CustodyNext]_custodyVars, NEW p \in Phones, NEW new \in Stored,
         Obeys(p, new.wallet), phoneWallet' = [phoneWallet EXCEPT ![p] = new]
  PROVE  PhonesSound'
<1>1. /\ phoneWallet \in [Phones -> Stored \union {NotStored}]
      /\ \A q \in Phones : phoneWallet[q] # NotStored => Obeys(q, phoneWallet[q].wallet)
  BY DEF CustodyInv, PhonesSound, StoredWalletObeys, Obeys
<1>2. \A q \in Phones : phoneWallet'[q] = IF q = p THEN new ELSE phoneWallet[q]
  BY <1>1
<1>3. ASSUME NEW q \in Phones, phoneWallet'[q] # NotStored PROVE Obeys(q, phoneWallet[q].wallet)'
  <2>1. PICK w \in SmartWallets : w = phoneWallet'[q].wallet /\ Obeys(q, w)
    BY <1>1, <1>2, <1>3 DEF Stored
  <2>2. Obeys(q, w)'
    BY <2>1, ObeyingStays
  <2> QED BY <2>1, <2>2 DEF Obeys
<1> QED BY <1>1, <1>3 DEF PhonesSound, StoredWalletObeys, Obeys

LEMMA PhonesStay ==
  ASSUME Constants, CustodyInv, [CustodyNext]_custodyVars
  PROVE  PhonesSound'
<1>1. /\ phoneWallet \in [Phones -> Stored \union {NotStored}]
      /\ \A q \in Phones : phoneWallet[q] # NotStored => Obeys(q, phoneWallet[q].wallet)
  BY DEF CustodyInv, PhonesSound, StoredWalletObeys, Obeys
<1>2. ASSUME UNCHANGED phoneWallet PROVE PhonesSound'
  <2>1. ASSUME NEW q \in Phones, phoneWallet'[q] # NotStored PROVE Obeys(q, phoneWallet[q].wallet)'
    <3>1. PICK w \in SmartWallets : w = phoneWallet[q].wallet /\ Obeys(q, w)
      BY <1>1, <1>2, <2>1 DEF Stored
    <3>2. Obeys(q, w)'
      BY <3>1, ObeyingStays
    <3> QED BY <1>2, <3>1, <3>2 DEF Obeys
  <2> QED BY <1>1, <1>2, <2>1 DEF PhonesSound, StoredWalletObeys, Obeys
<1>3. ASSUME NEW s \in Setups, StoreAnswer(s) PROVE PhonesSound'
  <2> DEFINE new == [wallet |-> provision[s].wallet, recovery |-> setup[s].recovery]
  <2>1. provision[s].step = "answer"
    BY <1>3 DEF StoreAnswer
  <2>2. PICK p \in Phones : p = setup[s].phone
    BY <2>1, Asked
  <2>3. provision[s].wallet \in SmartWallets /\ Obeys(p, provision[s].wallet)
    BY <2>1, <2>2 DEF CustodyInv, CallsSound, CallSound, Holding
  <2>4. setup[s].recovery \in Points \union {NoPoint}
    BY Tokens DEF CustodyInv, SetupsSound, SetupRecord
  <2>5. new \in Stored /\ new.wallet = provision[s].wallet
    BY <2>3, <2>4 DEF Stored
  <2>6. phoneWallet' = [phoneWallet EXCEPT ![p] = new]
    BY <1>3, <2>2 DEF StoreAnswer
  <2> HIDE DEF new
  <2> QED BY <2>3, <2>5, <2>6, StoringSound
<1>4. ASSUME NEW p \in Phones, EndMove(p) PROVE PhonesSound'
  <2> DEFINE new == [wallet |-> move[p].wallet, recovery |-> move[p].credential]
  <2>1. CASE IsSigner(move[p].wallet, p) /\ phoneWallet' = [phoneWallet EXCEPT ![p] = new]
    <3>1. move[p].step # "start"
      BY <1>4, MoveSteps
    <3>2. move[p].wallet \in SmartWallets /\ move[p].credential \in Points
      BY <3>1, Tokens DEF CustodyInv, MovesSound, MoveSound
    <3>3. new \in Stored /\ new.wallet = move[p].wallet
      BY <3>2 DEF Stored
    <3>4. Obeys(p, new.wallet)
      BY <2>1, <3>3 DEF Obeys
    <3> HIDE DEF new
    <3> QED BY <2>1, <3>3, <3>4, StoringSound
  <2>2. CASE UNCHANGED phoneWallet
    BY <1>2, <2>2
  <2> QED BY <1>4, <2>1, <2>2 DEF EndMove
<1>5. ASSUME NEW s \in Setups, \/ \E p \in Phones : StartSetup(s, p)
                               \/ MakePasskey(s) \/ GiveUpSetup(s)
      PROVE  UNCHANGED phoneWallet
  BY <1>5 DEF StartSetup, MakePasskey, GiveUpSetup
<1>6. ASSUME NEW p \in Phones, FindRecoverable(p) \/ ApproveMove(p) PROVE UNCHANGED phoneWallet
  <2>1. FindRecoverable(p) => UNCHANGED phoneWallet
    BY Zenon DEF FindRecoverable
  <2>2. ApproveMove(p) => UNCHANGED phoneWallet
    BY Zenon DEF ApproveMove
  <2> QED BY <1>6, <2>1, <2>2
<1>7. UNCHANGED custodyVars => UNCHANGED phoneWallet
  BY DEF custodyVars, setupVars
<1> QED BY <1>2, <1>3, <1>4, <1>5, <1>6, <1>7, CallFrame, LandFrame, RotationFrame DEF CustodyNext, SetupStep

-----------------------------------------------------------------------------
(* The moves.                                                              *)

LEMMA MovesStay ==
  ASSUME Constants, CustodyInv, [CustodyNext]_custodyVars
  PROVE  MovesSound'
<1>1. move \in [Phones -> MoveRecord] /\ \A p \in Phones : MoveSound(p)
  BY DEF CustodyInv, MovesSound
<1>2. ASSUME NEW p \in Phones, FindRecoverable(p) PROVE MovesSound'
  <2>1. PICK k \in passkeys, q \in Phones :
          /\ walletRow[q].recovery = k.key
          /\ move' = [move EXCEPT ![p] = [step |-> "found", wallet |-> walletRow[q].wallet,
                                          retired |-> q, credential |-> k.key]]
    BY <1>2 DEF FindRecoverable, Recoverable
  <2> DEFINE new == [step |-> "found", wallet |-> walletRow[q].wallet, retired |-> q, credential |-> k.key]
  <2>2. k.key \in Credentials /\ k.key # NoPoint
    BY Tokens DEF CustodyInv, SetupsSound, Passkey
  <2>3. walletRow[q].wallet \in SmartWallets
    BY <2>1, <2>2 DEF CustodyInv, RowsSound, Stored, NotStored
  <2>4. /\ new \in MoveRecord /\ new.step = "found" /\ new.wallet \in SmartWallets
        /\ new.retired \in Phones /\ new.credential \in Credentials
    BY <2>2, <2>3 DEF MoveRecord
  <2>5. move' = [move EXCEPT ![p] = new]
    BY <2>1
  <2> HIDE DEF new
  <2> QED BY <1>1, <2>4, <2>5 DEF MovesSound, MoveSound
<1>3. ASSUME NEW p \in Phones, ApproveMove(p) \/ EndMove(p) PROVE MovesSound'
  <2>1. PICK step \in {"sent", "unsigned", "found", "done"} : move' = [move EXCEPT ![p].step = step]
    BY <1>3, MoveSteps
  <2>2. move[p].step # "start"
    BY <1>3, MoveSteps
  <2> QED BY <1>1, <2>1, <2>2 DEF MovesSound, MoveSound, MoveRecord
<1>4. UNCHANGED move => MovesSound'
  BY <1>1 DEF MovesSound, MoveSound
<1>5. UNCHANGED custodyVars => UNCHANGED move
  BY DEF custodyVars, moveVars
<1> QED BY <1>2, <1>3, <1>4, <1>5, SetupFrame, CallFrame, LandFrame, RotationFrame DEF CustodyNext

LEMMA RotationsStay ==
  ASSUME Constants, CustodyInv, [CustodyNext]_custodyVars
  PROVE  RotationsSound'
<1>1. rotations \subseteq Rotation /\ \A r \in rotations : move[r.step].wallet = r.wallet
  BY DEF CustodyInv, RotationsSound
<1>2. \A r \in rotations : move'[r.step].wallet = r.wallet
  BY <1>1, FoundStays DEF Rotation
<1>3. CASE rotations' \subseteq rotations
  BY <1>1, <1>2, <1>3 DEF RotationsSound
<1>4. ASSUME NEW p \in Phones, ApproveMove(p) PROVE RotationsSound'
  <2> DEFINE r == [move[p] EXCEPT !.step = p]
  <2>1. move[p] \in MoveRecord /\ move[p].step # "start"
    BY <1>4, MoveSteps DEF CustodyInv, MovesSound
  <2>2. move[p].wallet \in SmartWallets /\ move[p].retired \in Phones /\ move[p].credential \in Credentials
    BY <2>1 DEF CustodyInv, MovesSound, MoveSound
  <2>3. r \in Rotation /\ r.step = p /\ r.wallet = move[p].wallet
    BY <2>1, <2>2 DEF MoveRecord, Rotation
  <2>4. rotations' \subseteq rotations \union {r}
    BY <1>4, Zenon DEF ApproveMove
  <2> HIDE DEF r
  <2>5. move'[p].wallet = move[p].wallet
    BY <2>2, FoundStays
  <2> QED BY <1>1, <1>2, <2>3, <2>4, <2>5 DEF RotationsSound
<1>5. ASSUME NEW p \in Phones, FindRecoverable(p) \/ EndMove(p) PROVE UNCHANGED rotations
  BY <1>5 DEF FindRecoverable, EndMove
<1>6. ASSUME NEW s \in rotations, LandRotation(s) \/ DropRotation(s) PROVE rotations' \subseteq rotations
  BY <1>6 DEF LandRotation, DropRotation
<1>7. UNCHANGED custodyVars => UNCHANGED rotations
  BY DEF custodyVars, moveVars
<1> QED BY <1>3, <1>4, <1>5, <1>6, <1>7, SetupFrame, CallFrame, LandFrame DEF CustodyNext

-----------------------------------------------------------------------------
(* Theorems.                                                               *)

LEMMA CustodyStep ==
  ASSUME Constants, CustodyInv, [CustodyNext]_custodyVars
  PROVE  CustodyInv'
  BY CallsCount, SetupsStay, CallsStay, TxsStay, RowsStay, PhonesStay, MovesStay, RotationsStay DEF CustodyInv

LEMMA CustodyAlways == ASSUME Constants PROVE CustodySpec => []CustodyInv
<1>1. CustodyInit => CustodyInv
  BY CustodyStart
<1>2. CustodyInv /\ [CustodyNext]_custodyVars => CustodyInv'
  BY CustodyStep
<1> QED BY <1>1, <1>2, PTL DEF CustodySpec

\* However many setups run at once, for however many phones, wherever the API
\* stops and whichever of the deployer's transactions land: a wallet a phone
\* shows obeys the phone's key, or its owner found it from another one to move it.
THEOREM WalletsObey == ASSUME Constants PROVE CustodySpec => []StoredWalletObeys
<1>1. CustodyInv => StoredWalletObeys
  BY DEF CustodyInv, PhonesSound
<1> QED BY <1>1, CustodyAlways, PTL

\* What phones and the API do to the wallets they are calls of the contract, so
\* custody inherits all that is proved of it.
THEOREM CustodyCallsContract == ASSUME Constants PROVE CustodySpec => SwSpec
<1>1. CustodyInit => SwInit
  BY DEF CustodyInit
<1>2. CustodyInv /\ [CustodyNext]_custodyVars => [SwNext]_walletVars
  BY CallsOnly
<1> QED BY <1>1, <1>2, CustodyAlways, PTL DEF CustodySpec, SwSpec

================================================================================
