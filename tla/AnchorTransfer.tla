---------------------------- MODULE AnchorTransfer -----------------------------
(***************************************************************************)
(* The hosted transfer (SEP-24): AnchorTransferScreen, anchorTransfer,     *)
(* interactive and contractAuth.                                           *)
(*                                                                         *)
(* A transfer is started through a chain of calls (describe the anchor,    *)
(* prove the wallet by a signed challenge, open the transfer), its id is   *)
(* saved in the encrypted store, its page is opened in a browser, and its  *)
(* status is then polled a bounded number of times.  The screen that began *)
(* it may be left meanwhile: its calls go on and write the same store.     *)
(***************************************************************************)
EXTENDS Naturals

CONSTANTS Openings,   \* bound: times the screen is open or its calls are under way
          HostedTransfers, \* transfers the anchor may open
          MaxReads,   \* attempts of pollTransaction
          MaxUpsets,  \* bound: calls that fail and restarts
          Nowhere

\* What the values of the constants must satisfy; assumed where they are given.
TransferAssumption == Nowhere \notin Openings \union HostedTransfers /\ MaxReads \in Nat \ {0}

VARIABLES status, kindOf, \* the anchor's transfers: state and kind
          saved,          \* pendingAnchorTransfer
          here,           \* the visit on the phone's screen
          screen,         \* screen[v]: an AnchorTransferScreen and its calls
          page,           \* the transfer whose page the browser shows
          upsets

atVars == <<status, kindOf, saved, here, screen, page, upsets>>
anchorVars == <<status, kindOf>>

Kinds == {"deposit", "withdraw"}

NeedsCustomerAction(s) == s \in {"incomplete", "pending_user"}
\* Mutant: a transfer that waits for the customer is taken for a failed one.
FinalWhenHeld(s) == s \in {"completed", "error", "pending_user"}
IsFinal(s) == s \in {"completed", "error"}

\* The calls under way at a visit, in the order they are made.
StartCalls  == {"describe", "challenge", "prompt", "token", "open"}
FollowCalls == {"describe_again", "read"}

\* What a challenge, and the simulation of a signed one, is refused for.
ChallengeDefects == {"network", "entries", "sub_invocation", "contract", "arguments",
                     "client_entry", "server_entry"}
FootprintDefects == {"other_entry", "other_contract"}

NoVisit == [kind |-> Nowhere, step |-> "closed", on |-> Nowhere, shown |-> Nowhere, phase |-> "none",
            url |-> Nowhere, reads |-> 0]

AtInit == /\ status = [t \in HostedTransfers |-> "unknown"]
          /\ kindOf = [t \in HostedTransfers |-> Nowhere]
          /\ saved = Nowhere /\ here = Nowhere /\ page = Nowhere
          /\ screen = [v \in Openings |-> NoVisit]
          /\ upsets = 0

-----------------------------------------------------------------------------
(* The screen.  While the browser is in front nothing else can be touched. *)

Idle(v) == screen[v].step = "idle"
Touches(v) == here = v /\ page = Nowhere
MatchingSaved(v) == saved # Nowhere /\ kindOf[saved] = screen[v].kind

\* A visit whose calls have ended: still on the screen, or forgotten.
Ended(v, record) == IF here = v THEN [record EXCEPT !.step = "idle"] ELSE NoVisit

OpenVisit(v, kind) ==
  /\ here = Nowhere /\ screen[v] = NoVisit
  /\ here' = v
  /\ screen' = [screen EXCEPT ![v] = [NoVisit EXCEPT !.kind = kind, !.step = "idle"]]
  /\ UNCHANGED <<anchorVars, saved, page, upsets>>

LeavePage(v) ==
  /\ Touches(v)
  /\ here' = Nowhere
  /\ screen' = [screen EXCEPT ![v] = IF Idle(v) THEN NoVisit ELSE @]
  /\ UNCHANGED <<anchorVars, saved, page, upsets>>

\* "Continue to anchor" is there when nothing of this kind is saved, and
\* refuses when something of the other kind is.
Start(v) ==
  /\ Touches(v) /\ Idle(v) /\ saved = Nowhere
  /\ screen' = [screen EXCEPT ![v].step = "describe", ![v].on = Nowhere, ![v].shown = Nowhere, ![v].phase = "none"]
  /\ UNCHANGED <<anchorVars, saved, here, page, upsets>>

Refresh(v) ==
  /\ Touches(v) /\ Idle(v) /\ MatchingSaved(v)
  /\ screen' = [screen EXCEPT ![v].step = "describe_again", ![v].on = saved]
  /\ UNCHANGED <<anchorVars, saved, here, page, upsets>>

\* The button is not disabled while a refresh is under way.
ForgetSavedStatus(v) ==
  /\ Touches(v) /\ MatchingSaved(v)
  /\ saved' = Nowhere
  /\ screen' = [screen EXCEPT ![v].shown = Nowhere, ![v].phase = "none", ![v].url = Nowhere]
  /\ UNCHANGED <<anchorVars, here, page, upsets>>

ReturnToAnchor(v) ==
  /\ Touches(v) /\ screen[v].url # Nowhere /\ NeedsCustomerAction(screen[v].phase)
  /\ page' = screen[v].url
  /\ UNCHANGED <<anchorVars, saved, here, screen, upsets>>

-----------------------------------------------------------------------------
(* startWalletAnchorTransfer.                                              *)

\* Each answer is checked before the next call is made.
Answered(v, call, next) ==
  /\ screen[v].step = call
  /\ screen' = [screen EXCEPT ![v] = IF next = "throws" THEN Ended(v, @) ELSE [@ EXCEPT !.step = next]]
  /\ UNCHANGED <<anchorVars, saved, here, page, upsets>>

\* The anchor's description and the relayer's: another anchor, network or
\* deployment is refused.
Describe(v) == \E compatible \in BOOLEAN :
  Answered(v, "describe", IF compatible THEN "challenge" ELSE "throws")

GetChallenge(v) == \E defects \in {{}} \union {{d} : d \in ChallengeDefects} :
  Answered(v, "challenge", IF defects = {} THEN "prompt" ELSE "throws")

\* The device prompt: the entry comes back signed and otherwise the same.
Approve(v) == \E approved \in BOOLEAN :
  Answered(v, "prompt", IF approved THEN "token" ELSE "throws")

\* A prompt answered after the server's entry expired fails the simulation.
GetToken(v) == \E defects \in {{}, {"expired"}} \union {{d} : d \in FootprintDefects} :
  Answered(v, "token", IF defects = {} THEN "open" ELSE "throws")

PageOpened(v, t) == /\ status[t] = "unknown"
                    /\ status' = [status EXCEPT ![t] = "incomplete"]
                    /\ kindOf' = [kindOf EXCEPT ![t] = screen[v].kind]

\* The anchor opens the transfer; the phone saves it, then shows its page.
StartInteractive(v) ==
  /\ screen[v].step = "open"
  /\ \E t \in HostedTransfers :
       /\ PageOpened(v, t)
       /\ saved' = t
       /\ screen' = [screen EXCEPT ![v].step = "browser", ![v].on = t, ![v].url = t]
       /\ page' = t
  /\ UNCHANGED <<here, upsets>>

\* The anchor opened it and the phone never hears, or will not open its page.
StartLost(v) ==
  /\ screen[v].step = "open" /\ upsets < MaxUpsets
  /\ \E t \in HostedTransfers : PageOpened(v, t)
  /\ upsets' = upsets + 1
  /\ screen' = [screen EXCEPT ![v] = Ended(v, @)]
  /\ UNCHANGED <<saved, here, page>>

\* Any call throws, the customer's refusal at the device prompt included.
\* The anchor refuses to open more transfers than the bound.
CallFails(v) ==
  /\ screen[v].step \in StartCalls \union FollowCalls
  /\ \/ upsets < MaxUpsets /\ upsets' = upsets + 1
     \/ screen[v].step = "open" /\ (\A t \in HostedTransfers : status[t] # "unknown") /\ UNCHANGED upsets
  /\ screen' = [screen EXCEPT ![v] = Ended(v, @)]
  /\ UNCHANGED <<anchorVars, saved, here, page>>

-----------------------------------------------------------------------------
(* follow: the page is closed, the anchor described again and polled.      *)

BrowserCloses ==
  /\ page # Nowhere
  /\ page' = Nowhere
  /\ screen' = [v \in Openings |-> IF screen[v].step = "browser"
                                THEN [screen[v] EXCEPT !.step = "describe_again"] ELSE screen[v]]
  /\ UNCHANGED <<anchorVars, saved, here, upsets>>

Resume(v) ==
  /\ screen[v].step = "describe_again"
  /\ screen' = [screen EXCEPT ![v].step = "read", ![v].reads = 0]
  /\ UNCHANGED <<anchorVars, saved, here, page, upsets>>

PollEnds(s, reads) == IsFinal(s) \/ NeedsCustomerAction(s) \/ reads = MaxReads

\* onUpdate shows the answer to a screen that is still open; a final one
\* clears whatever transfer is saved by then.
ReadTransaction(v) ==
  /\ screen[v].step = "read"
  /\ LET s == status[screen[v].on]
         reads == screen[v].reads + 1
         heard == [screen[v] EXCEPT !.shown = screen[v].on, !.phase = s, !.reads = reads]
     IN IF PollEnds(s, reads)
        THEN /\ screen' = [screen EXCEPT ![v] = Ended(v, heard)]
             /\ saved' = IF IsFinal(s) THEN Nowhere ELSE saved
        ELSE /\ screen' = [screen EXCEPT ![v] = [heard EXCEPT !.step = "sleep"]]
             /\ UNCHANGED saved
  /\ UNCHANGED <<anchorVars, here, page, upsets>>

IntervalEnds(v) ==
  /\ screen[v].step = "sleep"
  /\ screen' = [screen EXCEPT ![v].step = "read"]
  /\ UNCHANGED <<anchorVars, saved, here, page, upsets>>

-----------------------------------------------------------------------------
(* The customer on the anchor's page, and the anchor.                      *)

CustomerActs ==
  /\ page # Nowhere /\ NeedsCustomerAction(status[page])
  /\ status' = [status EXCEPT ![page] = "pending_external"]
  /\ UNCHANGED <<kindOf, saved, here, screen, page, upsets>>

AnchorMoves(t) ==
  /\ \/ status[t] = "incomplete" /\ status' = [status EXCEPT ![t] = "error"]
     \/ /\ status[t] = "pending_external"
        /\ \E s \in {"pending_user", "completed", "error"} : status' = [status EXCEPT ![t] = s]
  /\ UNCHANGED <<kindOf, saved, here, screen, page, upsets>>

\* The process ends: the calls are gone, the encrypted store is not.
Restart ==
  /\ upsets < MaxUpsets
  /\ upsets' = upsets + 1
  /\ here' = Nowhere /\ page' = Nowhere
  /\ screen' = [v \in Openings |-> NoVisit]
  /\ UNCHANGED <<anchorVars, saved>>

Answers(v) == Describe(v) \/ GetChallenge(v) \/ Approve(v) \/ GetToken(v) \/ StartInteractive(v)
              \/ StartLost(v) \/ CallFails(v) \/ Resume(v) \/ ReadTransaction(v) \/ IntervalEnds(v)

AtNext == \/ \E v \in Openings : \/ \E kind \in Kinds : OpenVisit(v, kind)
                                 \/ LeavePage(v) \/ Start(v) \/ Refresh(v)
                                 \/ ForgetSavedStatus(v) \/ ReturnToAnchor(v)
                                 \/ Answers(v)
          \/ BrowserCloses \/ CustomerActs \/ Restart
          \/ \E t \in HostedTransfers : AnchorMoves(t)

AtSpec == AtInit /\ [][AtNext]_atVars

-----------------------------------------------------------------------------
(* Properties.                                                             *)

\* The anchor has nothing more to do for a transfer.
Over(t) == status[t] \in {"completed", "error"}

Busy(v) == screen[v].step \notin {"closed", "idle"}

\* Another transfer's calls are still under way beside the saved one.
LateCalls(v) == Busy(v) /\ screen[v].on # saved

\* "Its ID is stored securely so status checks can resume": while the anchor
\* has not finished the saved transfer, only the customer's own "forget", or
\* the late end of another visit's calls, takes it out of the store.
TrackedUntilOver ==
  [][saved # Nowhere /\ saved' # saved =>
       \/ Over(saved)
       \/ \E v \in Openings : ForgetSavedStatus(v) \/ LateCalls(v)]_atVars

================================================================================
