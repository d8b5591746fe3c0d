----------------------------- MODULE SmartWallet -----------------------------
(***************************************************************************)
(* The Soroban smart wallet, contracts/wallet: signers that may do         *)
(* anything, a recovery signer that may only rotate one of them, and       *)
(* __check_auth, which decides by what the wallet recorded about a key and *)
(* never by what the caller says of it.                                    *)
(*                                                                         *)
(* A call is atomic and a refused call leaves nothing.  A signature is     *)
(* whatever a caller may attach: by any key, genuine or not, about this    *)
(* call or about another one.                                              *)
(***************************************************************************)
EXTENDS Naturals, FiniteSets

CONSTANTS SmartWallets, \* contract addresses
          Points,       \* public keys: secp256r1 points
          NoPoint

\* What the values of the constants must satisfy; assumed where they are given.
WalletAssumption == NoPoint \notin Points

VARIABLES deployed,       \* wallets that exist
          signerKind,     \* signerKind[w][k]: how k is held, "none" if it is no signer
          signerCount,    \* signerCount[w]
          recoverySigner, \* recoverySigner[w]: its key and kind, or NoRecovery
          lastSpend       \* lastSpend[w]: what authorized its latest payment

walletVars == <<deployed, signerKind, signerCount, recoverySigner, lastSpend>>

SignerKinds == {"Device", "Passkey"}
Recovery   == [key : Points, kind : SignerKinds]
NoRecovery == [key |-> NoPoint, kind |-> "none"]
NoSpend    == [held |-> "nobody"]

SwInit == /\ deployed = {}
          /\ signerKind = [w \in SmartWallets |-> [k \in Points |-> "none"]]
          /\ signerCount = [w \in SmartWallets |-> 0]
          /\ recoverySigner = [w \in SmartWallets |-> NoRecovery]
          /\ lastSpend = [w \in SmartWallets |-> NoSpend]

IsSigner(w, k) == signerKind[w][k] # "none"
SignersOf(w) == {k \in Points : IsSigner(w, k)}

\* __constructor: one signer, and a recovery signer if the owner has one.
Deploy(w, k, kind, recovery) ==
  /\ w \notin deployed
  /\ deployed' = deployed \union {w}
  /\ signerKind' = [signerKind EXCEPT ![w][k] = kind]
  /\ signerCount' = [signerCount EXCEPT ![w] = 1]
  /\ recoverySigner' = [recoverySigner EXCEPT ![w] = recovery]
  /\ UNCHANGED lastSpend

-----------------------------------------------------------------------------
\* What __check_auth is handed: the key, the kind of signature its wrapper says
\* it is, the call it was made about, and, of a passkey's document, whether it
\* is a sign-in and reports a verified owner in well-formed data.
Signature == [key : Points, offered : SignerKinds, about : {"this call", "another"},
              ceremony : {"get", "create"}, verified : BOOLEAN, genuine : BOOLEAN]

\* held: what the wallet had recorded about the key when it authorized the payment.
Payment == [sig : Signature, held : SignerKinds \union {"none"}]

\* secp256r1_verify over the payload itself.
DeviceVerifies(sig) == sig.genuine /\ sig.about = "this call"

\* webauthn::verify: a sign-in whose challenge is this payload, by a verified owner.
\* base64_url_encode is injective, so equal challenges are equal payloads.
PasskeyVerifies(sig) == /\ sig.ceremony = "get"
                        /\ sig.about = "this call"
                        /\ sig.verified
                        /\ sig.genuine

Verifies(sig) == IF sig.offered = "Device" THEN DeviceVerifies(sig) ELSE PasskeyVerifies(sig)

\* Mutant: the scope of the recovery signer is forgotten.
InScopeAlways(w, fn) == TRUE

\* assert_recovery_scope.
InScope(w, fn) == fn = "rotate"

CheckAuth(w, sig, fn) ==
  /\ w \in deployed
  /\ \/ /\ IsSigner(w, sig.key)
        /\ sig.offered = signerKind[w][sig.key]
     \/ /\ ~IsSigner(w, sig.key)
        /\ recoverySigner[w] = [key |-> sig.key, kind |-> sig.offered]
        /\ InScope(w, fn)
  /\ Verifies(sig)

-----------------------------------------------------------------------------
AddSigner(w, sig, k, kind) ==
  /\ CheckAuth(w, sig, "add_signer")
  /\ ~IsSigner(w, k)
  /\ signerKind' = [signerKind EXCEPT ![w][k] = kind]
  /\ signerCount' = [signerCount EXCEPT ![w] = @ + 1]
  /\ UNCHANGED <<deployed, recoverySigner, lastSpend>>

\* "A wallet with no signer left would be unspendable forever."
RemoveSigner(w, sig, k) ==
  /\ CheckAuth(w, sig, "remove_signer")
  /\ IsSigner(w, k) /\ signerCount[w] > 1
  /\ signerKind' = [signerKind EXCEPT ![w][k] = "none"]
  /\ signerCount' = [signerCount EXCEPT ![w] = @ - 1]
  /\ UNCHANGED <<deployed, recoverySigner, lastSpend>>

\* Mutant: a key that is a signer already may replace another.
MayReplaceAnything(w, retired, k) == IsSigner(w, retired)

MayReplace(w, retired, k) == IsSigner(w, retired) /\ ~IsSigner(w, k)

\* The rotation itself: the count does not move.
Replace(w, retired, k, kind) ==
  /\ MayReplace(w, retired, k)
  /\ signerKind' = [signerKind EXCEPT ![w] =
                      [[@ EXCEPT ![retired] = "none"] EXCEPT ![k] = kind]]
  /\ UNCHANGED <<deployed, signerCount, recoverySigner, lastSpend>>

Rotate(w, sig, retired, k, kind) == CheckAuth(w, sig, "rotate") /\ Replace(w, retired, k, kind)

\* Mutant: the recovery signer is an edit like any other.
RecoveryUnsetAlways(w) == TRUE

RecoveryUnset(w) == recoverySigner[w] = NoRecovery

SetRecoverySigner(w, sig, recovery) ==
  /\ CheckAuth(w, sig, "set_recovery_signer")
  /\ RecoveryUnset(w)
  /\ recoverySigner' = [recoverySigner EXCEPT ![w] = recovery]
  /\ UNCHANGED <<deployed, signerKind, signerCount, lastSpend>>

\* Any other contract's call in the wallet's name: a payment.
Spend(w, sig) ==
  /\ CheckAuth(w, sig, "transfer")
  /\ lastSpend' = [lastSpend EXCEPT ![w] = [sig |-> sig, held |-> signerKind[w][sig.key]]]
  /\ UNCHANGED <<deployed, signerKind, signerCount, recoverySigner>>

SwNext ==
  \E w \in SmartWallets :
    \/ \E k \in Points, kind \in SignerKinds, recovery \in Recovery \union {NoRecovery} :
         Deploy(w, k, kind, recovery)
    \/ \E sig \in Signature :
         \/ \E k \in Points :
              \/ \E kind \in SignerKinds :
                   \/ AddSigner(w, sig, k, kind)
                   \/ \E retired \in Points : Rotate(w, sig, retired, k, kind)
              \/ RemoveSigner(w, sig, k)
         \/ \E recovery \in Recovery : SetRecoverySigner(w, sig, recovery)
         \/ Spend(w, sig)

SwSpec == SwInit /\ [][SwNext]_walletVars

-----------------------------------------------------------------------------
SwTypeOK == /\ deployed \subseteq SmartWallets
            /\ signerKind \in [SmartWallets -> [Points -> SignerKinds \union {"none"}]]
            /\ signerCount \in [SmartWallets -> Nat]
            /\ recoverySigner \in [SmartWallets -> Recovery \union {NoRecovery}]
            /\ lastSpend \in [SmartWallets -> Payment \union {NoSpend}]

\* The count that guards the last signer is the number of signers, and a wallet
\* that exists has one: no sequence of calls makes it unspendable.
SwInv == /\ SwTypeOK
         /\ \A w \in SmartWallets : /\ signerCount[w] = Cardinality(SignersOf(w))
                                    /\ w \in deployed => signerCount[w] > 0
                                    /\ w \notin deployed => signerCount[w] = 0

\* The recovery signer "is set once": after that no call replaces or removes it.
RecoveryIsForGood ==
  [][\A w \in SmartWallets : recoverySigner[w] # NoRecovery => recoverySigner'[w] = recoverySigner[w]]_walletVars

\* Every payment was authorized by a key that was a signer at that moment, under
\* the rules of the kind the wallet has recorded for it: no recovery key, no key
\* that was rotated out, no passkey passed off as a device key.
PaymentsBySigners ==
  \A w \in SmartWallets : lastSpend[w] # NoSpend =>
    lastSpend[w].held = lastSpend[w].sig.offered /\ Verifies(lastSpend[w].sig)

=============================================================================
