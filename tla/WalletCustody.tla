---------------------------- MODULE WalletCustody ----------------------------
(***************************************************************************)
(* How a phone comes to hold a smart wallet: setting one up                *)
(* (ensureSmartWallet, WalletProvisioningService, PostgresWalletRepository)*)
(* and moving one from a lost phone (walletRecovery, RecoverWalletScreen), *)
(* over the wallet contract itself.                                        *)
(*                                                                         *)
(* Several setups may run at once: each screen that needs the wallet       *)
(* starts one, a phone that stopped waiting starts another, and the API    *)
(* may stop between any two steps of a request.  A phone's device key is   *)
(* named after the phone.                                                  *)
(***************************************************************************)
EXTENDS SmartWallet

CONSTANTS Phones,          \* and their device keys
          Credentials,     \* passkeys the platform may create, and their keys
          Setups,          \* runs of ensureSmartWallet, and the API's calls
          OneHandle,       \* keys come as SubjectPublicKeyInfo (Android), not as points (iOS)
          KeyHanded,       \* does the recovery screen hand over the passkey's public key?
          NoWallet

\* What the values of the constants must satisfy; assumed where they are given.
CustodyAssumption == /\ Points = Phones \union Credentials
                     /\ Phones \intersect Credentials = {}
                     /\ NoWallet \notin SmartWallets
                     /\ OneHandle \in BOOLEAN /\ KeyHanded \subseteq BOOLEAN

VARIABLES passkeys,    \* what the owner's platform account holds: key and user handle
          created,     \* credentials created so far
          phoneWallet, \* phoneWallet[p]: AppState.smartWallet
          setup,       \* setup[s]: the phone's side of a setup
          provision,   \* provision[s]: the API's side
          deployerTxs, \* the deployer's transactions that are in flight
          sequence,    \* the deployer's sequence number
          funded,      \* wallets that were sent a starting balance
          walletRow,   \* walletRow[k]: the wallets table, by public_signer
          move,        \* move[p]: the recovery screen of p
          rotations    \* recovery transactions that are in flight

serviceVars == <<provision, deployerTxs, sequence, funded, walletRow>>
setupVars   == <<passkeys, created, phoneWallet, setup>>
moveVars    == <<move, rotations>>
custodyVars == <<walletVars, serviceVars, setupVars, moveVars>>

Stored      == [wallet : SmartWallets, recovery : Points \union {NoPoint}]
NotStored   == [wallet |-> NoWallet, recovery |-> NoPoint]
NoSetup     == [step |-> "idle", phone |-> NoPoint, recovery |-> NoPoint]
NoProvision == [step |-> "none", wallet |-> NoWallet]
NoMove      == [step |-> "start", wallet |-> NoWallet, retired |-> NoPoint, credential |-> NoPoint]

CallSteps == {"none", "find", "deploy", "deploying", "fund", "funding", "secondary", "save",
              "answer", "failed"}

CustodyFields == /\ passkeys = {} /\ created = {}
                 /\ phoneWallet = [p \in Phones |-> NotStored]
                 /\ setup = [s \in Setups |-> NoSetup]
                 /\ provision = [s \in Setups |-> NoProvision]
                 /\ deployerTxs = {} /\ sequence = 0 /\ funded = {}
                 /\ walletRow = [p \in Phones |-> NotStored]
                 /\ move = [p \in Phones |-> NoMove] /\ rotations = {}

CustodyInit == SwInit /\ CustodyFields

-----------------------------------------------------------------------------
(* The phone: ensureSmartWallet.                                           *)

\* The device key exists or is made, the session is there, and no wallet is
\* stored for this key.
StartSetup(s, p) == /\ setup[s].step = "idle" /\ phoneWallet[p] = NotStored
                    /\ setup' = [setup EXCEPT ![s] = [NoSetup EXCEPT !.step = "passkey", !.phone = p]]
                    /\ UNCHANGED <<walletVars, serviceVars, passkeys, created, phoneWallet, moveVars>>

\* Bytes 1 to 16 of the exported key: of a SubjectPublicKeyInfo these are the
\* header that every P-256 key shares, of a point its coordinate.
UserHandle(p) == IF OneHandle THEN "P-256" ELSE p

\* createRecoveryPasskey.  The platform keeps one credential per user handle;
\* without a passkey setup carries on.
MakePasskey(s) ==
  LET p == setup[s].phone
      others == {k \in passkeys : k.handle # UserHandle(p)}
  IN /\ setup[s].step = "passkey"
     /\ \/ \E c \in Credentials \ created :
             /\ passkeys' = others \union {[key |-> c, handle |-> UserHandle(p)]}
             /\ created' = created \union {c}
             /\ setup' = [setup EXCEPT ![s].step = "posted", ![s].recovery = c]
        \/ /\ setup' = [setup EXCEPT ![s].step = "posted"]
           /\ UNCHANGED <<passkeys, created>>
     /\ UNCHANGED <<walletVars, serviceVars, phoneWallet, moveVars>>

\* setSmartWallet: the wallet that was answered, and the passkey just made.
StoreAnswer(s) ==
  /\ setup[s].step = "posted" /\ provision[s].step = "answer"
  /\ phoneWallet' = [phoneWallet EXCEPT ![setup[s].phone] =
                       [wallet |-> provision[s].wallet, recovery |-> setup[s].recovery]]
  /\ setup' = [setup EXCEPT ![s].step = "done"]
  /\ UNCHANGED <<walletVars, serviceVars, passkeys, created, moveVars>>

\* A refusal, or ninety seconds: provisionWallet is not retried, but the screen
\* may be, and the API works on.
GiveUpSetup(s) == /\ setup[s].step = "posted"
                  /\ setup' = [setup EXCEPT ![s].step = "done"]
                  /\ UNCHANGED <<walletVars, serviceVars, passkeys, created, phoneWallet, moveVars>>

-----------------------------------------------------------------------------
(* The API: POST /v1/wallets and provision().                              *)

phoneUnchanged == UNCHANGED <<setupVars, moveVars>>

Reaches(s, step) == provision' = [provision EXCEPT ![s].step = step]

\* The route: the session's own key, three calls an hour, the key's format.
ReceiveSetup(s) == /\ setup[s].step = "posted" /\ provision[s].step = "none"
                   /\ Reaches(s, "find")
                   /\ UNCHANGED <<walletVars, deployerTxs, sequence, funded, walletRow>> /\ phoneUnchanged

\* findBySigner: "provisioning is idempotent".
FindBySigner(s) ==
  LET found == walletRow[setup[s].phone]
  IN /\ provision[s].step = "find"
     /\ provision' = [provision EXCEPT ![s] = IF found = NotStored THEN [NoProvision EXCEPT !.step = "deploy"]
                                    ELSE [step |-> "answer", wallet |-> found.wallet]]
     /\ UNCHANGED <<walletVars, deployerTxs, sequence, funded, walletRow>> /\ phoneUnchanged

\* getAccount, prepareTransaction, sendTransaction: built on the number of now.
SendsFor(s, w, step) ==
  /\ deployerTxs' = deployerTxs \union {[provision |-> s, wallet |-> w, seq |-> sequence, step |-> step]}
  /\ provision' = [provision EXCEPT ![s] = [step |-> step, wallet |-> w]]
  /\ UNCHANGED <<walletVars, sequence, funded, walletRow>> /\ phoneUnchanged

\* A random salt: an address nobody has.
SendDeploy(s) == /\ provision[s].step = "deploy"
                 /\ \E w \in SmartWallets \ deployed :
                      /\ \A t \in Setups : provision[t].wallet # w
                      /\ SendsFor(s, w, "deploying")

SendFunding(s) == provision[s].step = "fund" /\ SendsFor(s, provision[s].wallet, "funding")

\* The ledger takes a transaction with the next sequence number.
Land(tx) ==
  /\ tx.seq = sequence /\ sequence' = sequence + 1
  /\ deployerTxs' = deployerTxs \ {tx}
  /\ \/ /\ tx.step = "deploying" /\ UNCHANGED funded
        /\ LET made == setup[tx.provision] IN
             Deploy(tx.wallet, made.phone, "Device",
                    IF made.recovery = NoPoint THEN NoRecovery
                    ELSE [key |-> made.recovery, kind |-> "Passkey"])
     \/ tx.step = "funding" /\ funded' = funded \union {tx.wallet} /\ UNCHANGED walletVars
  /\ UNCHANGED <<provision, walletRow>> /\ phoneUnchanged

\* It was built on a number that is gone, or its time bounds passed.
Drop(tx) == /\ deployerTxs' = deployerTxs \ {tx}
            /\ UNCHANGED <<walletVars, provision, sequence, funded, walletRow>> /\ phoneUnchanged

\* Mutant: a deployment that was sent is taken for one that was made.
ConfirmedWhenSent(s) == TRUE

\* pollTransaction came back with SUCCESS.
Confirmed(s) == IF provision[s].step = "deploying" THEN provision[s].wallet \in deployed
                ELSE provision[s].wallet \in funded

PollDeploy(s) == /\ provision[s].step = "deploying" /\ Confirmed(s) /\ Reaches(s, "fund")
                 /\ UNCHANGED <<walletVars, deployerTxs, sequence, funded, walletRow>> /\ phoneUnchanged

PollFunding(s) == /\ provision[s].step = "funding" /\ Confirmed(s) /\ Reaches(s, "secondary")
                  /\ UNCHANGED <<walletVars, deployerTxs, sequence, funded, walletRow>> /\ phoneUnchanged

\* The second asset: it takes a sequence number or fails, and setup goes on.
SecondaryFunding(s) == /\ provision[s].step = "secondary" /\ Reaches(s, "save")
                       /\ sequence' \in {sequence, sequence + 1}
                       /\ UNCHANGED <<walletVars, deployerTxs, funded, walletRow>> /\ phoneUnchanged

\* Any call of the network may throw, a poll may run out while its transaction is
\* still in flight, and the API may be stopped.
FailCall(s) == /\ provision[s].step \in CallSteps \ {"none", "answer", "failed"}
               /\ Reaches(s, "failed")
               /\ UNCHANGED <<walletVars, deployerTxs, sequence, funded, walletRow>> /\ phoneUnchanged

\* INSERT .. ON CONFLICT (public_signer): the address stays, and COALESCE fills in
\* a recovery signer that was not there.
MergedRow(old, new) ==
  IF old = NotStored THEN new
  ELSE [old EXCEPT !.recovery = IF @ = NoPoint THEN new.recovery ELSE @]

SaveRow(s) ==
  /\ provision[s].step = "save" /\ Reaches(s, "answer")
  /\ walletRow' = [walletRow EXCEPT ![setup[s].phone] =
       MergedRow(@, [wallet |-> provision[s].wallet, recovery |-> setup[s].recovery])]
  /\ UNCHANGED <<walletVars, deployerTxs, sequence, funded>> /\ phoneUnchanged

-----------------------------------------------------------------------------
(* Moving a wallet to a new phone.                                         *)

screenOnly == UNCHANGED <<walletVars, serviceVars, passkeys, created, setup>>

\* POST /v1/wallets/recover: the row saved with this credential, asked for by
\* whoever names it.
Recoverable(k, q) == walletRow[q].recovery = k.key

\* findRecoverableWallet: an assertion of any passkey, and the row that has it.
\* Whatever moved since, the row's key is the one to retire.
FindRecoverable(p) ==
  /\ phoneWallet[p] = NotStored /\ move[p].step = "start"
  /\ \E k \in passkeys, q \in Phones :
       /\ Recoverable(k, q)
       /\ move' = [move EXCEPT ![p] = [step |-> "found", wallet |-> walletRow[q].wallet,
                                       retired |-> q, credential |-> k.key]]
  /\ UNCHANGED <<phoneWallet, rotations>> /\ screenOnly

ByPasskey(c) == [key |-> c, offered |-> "Passkey", about |-> "this call", ceremony |-> "get",
                 verified |-> TRUE, genuine |-> TRUE]

\* recoverWallet up to the signature.  assertWalletAuthPayload needs the public
\* key it was given; without one it throws after the owner approved.  The screen
\* hands over an empty key as the code stands ({FALSE}); the runs check what
\* recoverWallet does in either case ({FALSE, TRUE}).
ApproveMove(p) ==
  LET m == move[p] IN
  /\ m.step \in {"found", "unsigned"} /\ MayReplace(m.wallet, m.retired, p)
  /\ \E k \in passkeys : k.key = m.credential
  /\ \/ /\ TRUE \in KeyHanded /\ CheckAuth(m.wallet, ByPasskey(m.credential), "rotate")
        /\ move' = [move EXCEPT ![p].step = "sent"]
        /\ rotations' = rotations \union {[m EXCEPT !.step = p]}
     \/ /\ FALSE \in KeyHanded
        /\ move' = [move EXCEPT ![p].step = "unsigned"] /\ UNCHANGED rotations
  /\ UNCHANGED phoneWallet /\ screenOnly

\* r.step: the phone whose key comes in.
LandRotation(r) ==
  /\ Rotate(r.wallet, ByPasskey(r.credential), r.retired, r.step, "Device")
  /\ rotations' = rotations \ {r}
  /\ UNCHANGED <<serviceVars, setupVars, move>>

DropRotation(r) == /\ rotations' = rotations \ {r}
                   /\ UNCHANGED <<phoneWallet, move>> /\ screenOnly

\* pollTransaction: moved, or thirty attempts ran out.
EndMove(p) ==
  LET m == move[p] IN
  /\ m.step = "sent"
  /\ \/ /\ IsSigner(m.wallet, p)
        /\ phoneWallet' = [phoneWallet EXCEPT ![p] = [wallet |-> m.wallet, recovery |-> m.credential]]
        /\ move' = [move EXCEPT ![p].step = "done"]
     \/ move' = [move EXCEPT ![p].step = "found"] /\ UNCHANGED phoneWallet
  /\ UNCHANGED rotations /\ screenOnly

-----------------------------------------------------------------------------
SetupStep(s) == \/ \E p \in Phones : StartSetup(s, p)
                \/ MakePasskey(s) \/ StoreAnswer(s) \/ GiveUpSetup(s)

CallStep(s) == \/ ReceiveSetup(s) \/ FindBySigner(s) \/ SendDeploy(s) \/ PollDeploy(s)
               \/ SendFunding(s) \/ PollFunding(s) \/ SecondaryFunding(s) \/ SaveRow(s)

CustodyNext == \/ \E s \in Setups : SetupStep(s) \/ CallStep(s) \/ FailCall(s)
               \/ \E tx \in deployerTxs : Land(tx) \/ Drop(tx)
               \/ \E p \in Phones : FindRecoverable(p) \/ ApproveMove(p) \/ EndMove(p)
               \/ \E r \in rotations : LandRotation(r) \/ DropRotation(r)

CustodySpec == CustodyInit /\ [][CustodyNext]_custodyVars

-----------------------------------------------------------------------------
\* A wallet a phone shows as its own obeys the phone's key, unless the owner
\* found it from another phone to move it there.
StoredWalletObeys ==
  \A p \in Phones : phoneWallet[p] # NotStored =>
    \/ IsSigner(phoneWallet[p].wallet, p)
    \/ \E q \in Phones \ {p} : move[q].wallet = phoneWallet[p].wallet

-----------------------------------------------------------------------------
\* What the sources say and the code does not keep (README, section 4): no run
\* lists these.
\* The app says which safety net it has "rather than implying a safety net that
\* is not there": the passkey a phone shows for its wallet can rotate its key.
SafetyNetIsThere ==
  \A p \in Phones : phoneWallet[p].recovery # NoPoint =>
    recoverySigner[phoneWallet[p].wallet].key = phoneWallet[p].recovery

\* "A repeated call can never spend the funding balance twice."
FundedOnce ==
  \A s, t \in Setups :
    setup[s].phone = setup[t].phone /\ {provision[s].wallet, provision[t].wallet} \subseteq funded
      => provision[s].wallet = provision[t].wallet

\* A move the owner approved with the passkey is sent.
ApprovedMoveIsSent == \A p \in Phones : move[p].step # "unsigned"

=============================================================================
