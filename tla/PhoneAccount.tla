----------------------------- MODULE PhoneAccount -----------------------------
(***************************************************************************)
(* The account on one phone: the store and its session entry in the        *)
(* Keychain (appStore, persistence), the device key and the vault key      *)
(* (RosaPaySigner, keyVault), the screens that make, unlock and erase an   *)
(* account, and the sign-in to the API (deviceSession, DeviceAuthService). *)
(*                                                                         *)
(* Jobs run across awaits and are cancelled by nothing but the end of the  *)
(* app: not by leaving a screen, not by the lock, not by signing out.  The *)
(* Keychain entry of the session is written in order, some time after the  *)
(* store has changed.  Transactions and the wallet's contract are          *)
(* SmartWallet's and WalletCustody's.                                      *)
(***************************************************************************)
EXTENDS Naturals, FiniteSets

CONSTANTS People,    \* who uses the phone, and the classic wallets they bring
          Keys,      \* device keys the phone may mint
          Jobs,      \* calls of ensureDeviceSession, ensureSmartWallet, recoverWallet
          MaxUpsets, \* bound: reads, deletions and sign-ins that fail
          Absent

\* What the values of the constants must satisfy; assumed where they are given.
AccountAssumption == Absent \notin People \union Keys /\ People \intersect Keys = {} /\ MaxUpsets \in Nat

VARIABLES app,        \* "closed", "reading" or "open"
          mem,        \* AppState
          stored,     \* the session entry
          enclave,    \* the device key: which, and whether it still signs
          vault,      \* the signing key entry
          minted,     \* device keys so far
          onboarding, \* a screen saving a classic wallet: whose
          joined,     \* people who have had the phone
          job,        \* job[j]
          pending,    \* pendingSession: the sign-in under way
          leaving,    \* signOut
          challenges, \* device_auth_challenges
          told,       \* what the unlock screen said last
          upsets

phoneVars == <<app, mem, stored>>
keyVars   == <<enclave, vault, minted>>
signInVars   == <<pending, challenges>>
paVars    == <<phoneVars, keyVars, onboarding, joined, job, signInVars, leaving, told, upsets>>

Blank == [account |-> Absent, requireUnlock |-> FALSE, smartWallet |-> Absent, wallet |-> Absent,
          session |-> Absent, locked |-> FALSE]
NoKey  == [key |-> Absent, signs |-> TRUE]
NoJob  == [step |-> "idle", wants |-> "session", owner |-> Absent, key |-> Absent]
NoSignIn == [step |-> "none", key |-> Absent]
Staying  == [step |-> "no", smart |-> Absent, classic |-> Absent]

JobSteps == {"idle", "read", "mint", "check", "wait", "provision", "store"}

PaInit == /\ app = "closed" /\ mem = Blank /\ stored = Blank
          /\ enclave = NoKey /\ vault = Absent /\ minted = {}
          /\ onboarding = Absent /\ joined = {}
          /\ job = [j \in Jobs |-> NoJob]
          /\ pending = NoSignIn /\ challenges = {}
          /\ leaving = Staying /\ told = "nothing" /\ upsets = 0

Upset == upsets < MaxUpsets /\ upsets' = upsets + 1

\* hasRestorableSession decides between Main and Welcome, the lock stands in for
\* both.
OnMain    == app = "open" /\ ~mem.locked /\ mem.account # Absent
OnWelcome == app = "open" /\ mem.account = Absent

-----------------------------------------------------------------------------
(* The app starts, saves, and ends.                                        *)

appOnly == UNCHANGED <<keyVars, joined, challenges>>

Launch == /\ app = "closed" /\ app' = "reading"
          /\ UNCHANGED <<mem, stored, onboarding, job, pending, leaving, told, upsets>> /\ appOnly

\* getItem: an entry that cannot be read is no entry.
Read(entry) == \/ entry = stored /\ UNCHANGED upsets
               \/ entry = Blank /\ Upset

\* merge keeps what is usable, which is all this app has saved, and
\* onRehydrateStorage decides the lock.
Restored(entry) == [entry EXCEPT !.locked = entry.account # Absent /\ entry.requireUnlock]

Hydrate ==
  /\ app = "reading" /\ app' = "open"
  /\ \E entry \in {stored, Blank} : Read(entry) /\ mem' = Restored(entry)
  /\ UNCHANGED <<stored, onboarding, job, pending, leaving, told>> /\ appOnly

\* setItem, of what partialize keeps: the lock is not saved.
Save == /\ app = "open" /\ stored' = [mem EXCEPT !.locked = FALSE] /\ stored' # stored
        /\ UNCHANGED <<app, mem, onboarding, job, pending, leaving, told, upsets>> /\ appOnly

Close == /\ app # "closed" /\ app' = "closed" /\ mem' = Blank
         /\ job' = [j \in Jobs |-> NoJob] /\ pending' = NoSignIn
         /\ leaving' = Staying /\ onboarding' = Absent /\ told' = "nothing"
         /\ UNCHANGED <<stored, upsets>> /\ appOnly

-----------------------------------------------------------------------------
(* The screens that make an account.                                       *)

\* RecoveryPhraseScreen and ImportWalletScreen: the key is saved first.
SaveVaultKey(p) ==
  /\ OnWelcome /\ onboarding = Absent /\ p \notin joined
  /\ onboarding' = p /\ joined' = joined \union {p} /\ vault' = p
  /\ UNCHANGED <<phoneVars, enclave, minted, job, signInVars, leaving, told, upsets>>

\* createAccount, setWallet.
Adopts(p) == mem' = [mem EXCEPT !.account = p, !.wallet = p, !.locked = FALSE]

\* The account has been funded, or has not.
FinishOnboarding ==
  /\ onboarding # Absent /\ onboarding' = Absent /\ Adopts(onboarding)
  /\ UNCHANGED <<app, stored, keyVars, joined, job, signInVars, leaving, told, upsets>>

-----------------------------------------------------------------------------
(* Jobs: ensureDeviceSession, ensureSmartWallet and recoverWallet.         *)

jobOnly == UNCHANGED <<app, stored, vault, onboarding, joined, challenges, leaving, told>>

Goes(j, r) == job' = [job EXCEPT ![j] = r]

\* A merchant registers or publishes, a payment or the settings want the wallet,
\* a new phone fetches its owner's.
StartJob(j, wants) ==
  /\ job[j] = NoJob
  /\ IF wants = "recovery" THEN OnWelcome ELSE OnMain
  /\ Goes(j, [NoJob EXCEPT !.step = "read", !.wants = wants])
  /\ UNCHANGED <<mem, enclave, minted, pending, upsets>> /\ jobOnly

\* ensureSmartWallet takes the identity, then ensureDeviceSession does.
Given(j, k) ==
  Goes(j, IF job[j].wants # "session" /\ job[j].owner = Absent
          THEN [job[j] EXCEPT !.owner = k, !.step = IF job[j].wants = "recovery" THEN "store" ELSE "read"]
          ELSE [job[j] EXCEPT !.key = k, !.step = "check"])

\* getIdentity; a failure is taken for no key at all.
ReadIdentity(j) ==
  /\ job[j].step = "read"
  /\ \/ enclave # NoKey /\ Given(j, enclave.key) /\ UNCHANGED upsets
     \/ /\ \/ enclave = NoKey /\ UNCHANGED upsets
           \/ enclave # NoKey /\ Upset
        /\ Goes(j, [job[j] EXCEPT !.step = "mint"])
  /\ UNCHANGED <<mem, enclave, minted, pending>> /\ jobOnly

\* createIdentity replaces whatever key there is.
Mints(k) == enclave' = [key |-> k, signs |-> TRUE] /\ minted' = minted \union {k}

MintIdentity(j) ==
  /\ job[j].step = "mint"
  /\ \/ \E k \in Keys \ minted : Mints(k) /\ Given(j, k)
     \/ Goes(j, NoJob) /\ UNCHANGED <<enclave, minted>>
  /\ UNCHANGED <<mem, pending, upsets>> /\ jobOnly

AfterSession(r) == IF r.wants = "session" THEN NoJob ELSE [r EXCEPT !.step = "provision"]

\* A saved session of this key that is not about to expire, or the one sign-in
\* every caller shares.
CheckSession(j) ==
  /\ job[j].step = "check"
  /\ \/ /\ mem.session = job[j].key
        /\ Goes(j, AfterSession(job[j])) /\ UNCHANGED pending
     \/ /\ Goes(j, [job[j] EXCEPT !.step = "wait"])
        /\ pending' = IF pending = NoSignIn THEN [step |-> "challenge", key |-> job[j].key] ELSE pending
  /\ UNCHANGED <<mem, enclave, minted, upsets>> /\ jobOnly

\* DeviceAuthService.challenge.
TakeChallenge ==
  /\ pending.step = "challenge"
  /\ challenges' = challenges \union {pending.key} /\ pending' = [pending EXCEPT !.step = "sign"]
  /\ UNCHANGED <<phoneVars, keyVars, onboarding, joined, job, leaving, told, upsets>>

\* Mutant: a sign-in that fails leaves its callers waiting.
AnsweredSignedIn(ok) == IF ok THEN {j \in Jobs : job[j].step = "wait"} ELSE {}

\* The promise settles for everyone who awaited it.
Answered(ok) == {j \in Jobs : job[j].step = "wait"}

Settle(ok) ==
  /\ pending' = NoSignIn
  /\ job' = [j \in Jobs |-> IF j \notin Answered(ok) THEN job[j]
                            ELSE IF ok THEN AfterSession(job[j]) ELSE NoJob]

\* signDigest, by whatever key the phone holds now.
CanSign(k) == enclave = [key |-> k, signs |-> TRUE]

\* consumeChallenge.
Consumed(k) == challenges \ {k}

\* createSession verifies the signature against the key the challenge was given
\* for; before or after that the prompt or the call may fail, and a challenge
\* left in the table is never answered: it is as good as consumed.
SignIn ==
  /\ pending.step = "sign" /\ challenges' = Consumed(pending.key)
  /\ \/ /\ CanSign(pending.key) /\ pending.key \in challenges
        /\ mem' = [mem EXCEPT !.session = pending.key]
        /\ Settle(TRUE)
     \/ UNCHANGED mem /\ Settle(FALSE)
  /\ UNCHANGED <<app, stored, keyVars, onboarding, joined, leaving, told, upsets>>

\* The network, the prompt or the server refused before that.
SignInFails ==
  /\ pending.step = "challenge" /\ Settle(FALSE)
  /\ UNCHANGED <<phoneVars, keyVars, onboarding, joined, challenges, leaving, told, upsets>>

\* The wallet stored for this key, or POST /v1/wallets with the session's token.
Provision(j) ==
  /\ job[j].step = "provision"
  /\ Goes(j, IF mem.smartWallet # job[j].owner /\ mem.session = job[j].owner
             THEN [job[j] EXCEPT !.step = "store"] ELSE NoJob)
  /\ UNCHANGED <<mem, enclave, minted, pending, upsets>> /\ jobOnly

\* setSmartWallet, and after a recovery createAccount; or it failed.
StoreWallet(j) ==
  /\ job[j].step = "store" /\ Goes(j, NoJob)
  /\ \/ /\ job[j].wants = "wallet" /\ mem' = [mem EXCEPT !.smartWallet = job[j].owner]
        /\ UNCHANGED joined
     \/ /\ job[j].wants = "recovery"
        /\ \E p \in People \ joined :
             /\ joined' = joined \union {p}
             /\ mem' = [mem EXCEPT !.smartWallet = job[j].owner, !.account = p, !.locked = FALSE]
     \/ UNCHANGED <<mem, joined>>
  /\ UNCHANGED <<app, stored, keyVars, onboarding, signInVars, leaving, told, upsets>>

-----------------------------------------------------------------------------
(* The lock.                                                               *)

lockOnly == UNCHANGED <<app, stored, vault, minted, onboarding, joined, job, signInVars, leaving>>

SetRequireUnlock(required) ==
  /\ OnMain /\ mem.requireUnlock # required
  /\ mem' = [mem EXCEPT !.requireUnlock = required, !.locked = FALSE]
  /\ UNCHANGED <<enclave, told, upsets>> /\ lockOnly

\* A minute in the background.
AutoLock == /\ app = "open" /\ mem.account # Absent /\ mem.requireUnlock /\ ~mem.locked
            /\ mem' = [mem EXCEPT !.locked = TRUE] /\ told' = "nothing"
            /\ UNCHANGED <<enclave, upsets>> /\ lockOnly

\* The screen lock was changed: the key exists and never signs again.
InvalidateKey == /\ enclave # NoKey /\ enclave.signs /\ Upset
                 /\ enclave' = [enclave EXCEPT !.signs = FALSE]
                 /\ UNCHANGED <<mem, told>> /\ lockOnly

\* unlockWithSecureElement.  normalizeError knows no KEY_INVALIDATED, so a key
\* that is gone for good is UNAVAILABLE, which is a refusal.
SecureElementSays == IF enclave = NoKey THEN {"no-key"}
                     ELSE IF enclave.signs THEN {"ok", "refused"} ELSE {"refused"}

\* loadSigningKey: nothing is there, the owner or the phone refuses, or the key.
LoadSigningKey(address) ==
  IF vault = Absent THEN {"missing"} ELSE {"refused", IF vault = address THEN "same" ELSE "other"}

\* unlockWithVaultKey.
VaultSays == {IF key = "same" THEN "ok" ELSE IF key = "refused" THEN key ELSE "no-key" :
                key \in LoadSigningKey(mem.wallet)}

UnlockSays == IF mem.smartWallet # Absent THEN SecureElementSays
              ELSE IF mem.wallet # Absent THEN VaultSays ELSE {"no-key"}

\* Once it says there is no key, the screen offers only to start over.
AttemptUnlock ==
  /\ app = "open" /\ mem.locked /\ leaving = Staying /\ told # "no-key"
  /\ \E says \in UnlockSays :
       /\ told' = says
       /\ mem' = IF says = "ok" THEN [mem EXCEPT !.locked = FALSE] ELSE mem
  /\ UNCHANGED <<enclave, upsets>> /\ lockOnly

-----------------------------------------------------------------------------
(* signOut.                                                                *)

leaveOnly == UNCHANGED <<app, stored, minted, onboarding, joined, job, signInVars, told>>

StartErasing ==
  /\ app = "open" /\ mem.account # Absent /\ leaving = Staying
  /\ leaving' = [step |-> "key", smart |-> mem.smartWallet, classic |-> mem.wallet]
  /\ UNCHANGED <<mem, enclave, vault, upsets>> /\ leaveOnly

\* deleteIdentity, if the account had a smart wallet.
DeleteKey ==
  /\ leaving.step = "key"
  /\ IF leaving.smart = Absent THEN UNCHANGED enclave ELSE enclave' = NoKey
  /\ leaving' = [leaving EXCEPT !.step = "vault"]
  /\ UNCHANGED <<mem, vault, upsets>> /\ leaveOnly

\* clearSigningKey, if it had a classic one; then the bridge key.
ClearVault ==
  /\ leaving.step = "vault"
  /\ vault' = IF leaving.classic = Absent THEN vault ELSE Absent
  /\ leaving' = [leaving EXCEPT !.step = "forget"]
  /\ UNCHANGED <<mem, enclave, upsets>> /\ leaveOnly

\* A deletion threw: what is on screen stays.
ErasingFails ==
  /\ leaving # Staying /\ Upset /\ leaving' = Staying
  /\ UNCHANGED <<mem, enclave, vault>> /\ leaveOnly

\* Mutant: the store is emptied before the keys are.
MayForgetEarly == leaving # Staying

MayForget == leaving.step = "forget"

Forget ==
  /\ MayForget
  /\ mem' = Blank /\ leaving' = Staying
  /\ UNCHANGED <<enclave, vault, upsets>> /\ leaveOnly

-----------------------------------------------------------------------------
SignInStep == TakeChallenge \/ SignIn \/ SignInFails

JobStep(j) == \/ ReadIdentity(j) \/ MintIdentity(j) \/ CheckSession(j) \/ Provision(j) \/ StoreWallet(j)

PaNext == \/ Launch \/ Hydrate \/ Save \/ Close
          \/ (\E p \in People : SaveVaultKey(p)) \/ FinishOnboarding
          \/ \E j \in Jobs : JobStep(j) \/ \E w \in {"session", "wallet", "recovery"} : StartJob(j, w)
          \/ SignInStep
          \/ (\E r \in BOOLEAN : SetRequireUnlock(r)) \/ AutoLock \/ InvalidateKey \/ AttemptUnlock
          \/ StartErasing \/ DeleteKey \/ ClearVault \/ ErasingFails \/ Forget

PaSpec == PaInit /\ [][PaNext]_paVars

-----------------------------------------------------------------------------
\* Every variable has its type.
PaTypeOK ==
  /\ app \in {"closed", "reading", "open"}
  /\ {mem, stored} \subseteq
       [account : People \union {Absent}, requireUnlock : BOOLEAN, smartWallet : Keys \union {Absent},
        wallet : People \union {Absent}, session : Keys \union {Absent}, locked : BOOLEAN]
  /\ enclave \in [key : Keys \union {Absent}, signs : BOOLEAN] /\ minted \subseteq Keys
  /\ {vault, onboarding} \subseteq People \union {Absent} /\ joined \subseteq People
  /\ job \in [Jobs -> [step : JobSteps, wants : {"session", "wallet", "recovery"},
                       owner : Keys \union {Absent}, key : Keys \union {Absent}]]
  /\ pending \in [step : {"none", "challenge", "sign"}, key : Keys \union {Absent}]
  /\ leaving \in [step : {"no", "key", "vault", "forget"}, smart : Keys \union {Absent},
                  classic : People \union {Absent}]
  /\ challenges \subseteq Keys /\ upsets \in 0 .. MaxUpsets
  /\ told \in {"nothing", "ok", "refused", "no-key"}

\* An account that leaves an open app leaves no key behind: the wallets it had
\* when its owner asked for it to be erased can no longer sign on this phone,
\* whatever sign-ins and wallet setups were under way (signOut deletes the keys
\* and only then empties the store; a deletion that throws keeps the account).
ErasedKeysAreGone ==
  [][app = "open" /\ app' = "open" /\ mem.account # Absent /\ mem'.account = Absent
       => {leaving.smart, leaving.classic} \intersect {enclave'.key, vault'} \subseteq {Absent}]_paVars

\* Nobody waits for a sign-in that is over: ensureDeviceSession shares one
\* promise among all of its callers, and every one of them is released when it
\* settles, either way.
WaitersAreAnswered == \A j \in Jobs : job[j].step = "wait" => pending.step # "none"

=============================================================================
