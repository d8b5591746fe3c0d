------------------------ MODULE CountersigningProofs ------------------------
(***************************************************************************)
(* The safety of the countersignature meeting point for any number of      *)
(* customers, merchant screens and calls in flight, proved with TLAPS: the *)
(* inductive invariant CsInv, what follows from it, and the refinement.    *)
(***************************************************************************)
EXTENDS Countersigning, TLAPS

USE PhonesAssumption

-----------------------------------------------------------------------------
(* Types.                                                                  *)

LEMMA ServeTypes ==
  ASSUME CsTypeOK, NEW r \in Slots, Serve(r) PROVE CsTypeOK'
<1> USE DEF CsTypeOK
<1>1. pc[r] # "idle" /\ call[r] \in Call
  BY DEF Serve, ReadStatus, FindForClaim, FindForSupply, SaveRecord, ReadBack
<1>2. UNCHANGED <<status, wait, posts, phone, taps, got, view, signing>>
  BY DEF Serve, customerVars, counterVars
<1>3. CASE UNCHANGED <<claim, call>> /\ \E l \in CsPcStates \ {"idle"} : Goto(r, l)
  BY <1>1, <1>2, <1>3 DEF Goto
<1>4. CASE /\ UNCHANGED claim
           /\ \E l \in CsPcStates \ {"idle"} : Goto(r, l)
           /\ call' = [call EXCEPT ![r].seen = status]
  <2>1. call'[r] \in Call /\ call' = [call EXCEPT ![r] = call'[r]]
    BY <1>1, <1>4 DEF Call
  <2> QED BY <1>1, <1>2, <1>4, <2>1 DEF Goto
<1>5. CASE Reply(r, claim)
  <2>1. call'[r] \in Call /\ call' = [call EXCEPT ![r] = call'[r]]
    BY <1>1, <1>5 DEF Reply, Call
  <2> QED BY <1>1, <1>2, <1>5, <2>1 DEF Reply, Goto, CsPcStates
<1>6. CASE SaveRecord(r)
  <2>1. Brought(call[r]) \in Record
    BY <1>1 DEF Brought, Call, Record
  <2>2. claim' \in Record \union {NoRecord}
    BY <1>6, <2>1 DEF SaveRecord, Merged, Record
  <2> QED BY <1>1, <1>2, <1>6, <2>2 DEF SaveRecord, Goto, CsPcStates
<1>7. CASE ReadStatus(r)
  BY <1>3, <1>4, <1>7 DEF ReadStatus, Refuse, CsPcStates
<1>8. CASE FindForClaim(r) \/ FindForSupply(r)
  BY <1>3, <1>5, <1>8 DEF FindForClaim, FindForSupply, Refuse, CsPcStates
<1>9. CASE ReadBack(r)
  BY <1>3, <1>5, <1>9 DEF ReadBack, Refuse, CsPcStates
<1> QED BY <1>6, <1>7, <1>8, <1>9 DEF Serve

LEMMA PostTypes ==
  ASSUME CsTypeOK, NEW a \in Phones, NEW r \in Slots, NEW kind \in {"claim", "supply"},
         NEW c \in Customers, Post(a, r, kind, c)
  PROVE  CsTypeOK'
<1> DEFINE new == [kind |-> kind, from |-> a, customer |-> c, seen |-> "none",
                   answer |-> NoRecord]
<1>1. new \in Call
  BY DEF Call
<1>2. call' = [call EXCEPT ![r] = new]
  BY DEF Post
<1> HIDE DEF new
<1> QED BY <1>1, <1>2 DEF Post, AttemptsLeft, Goto, CsTypeOK, CsPcStates, customerVars, counterVars

LEMMA HearTypes ==
  ASSUME CsTypeOK, NEW r \in Slots,
         \/ \E c \in Customers : HearClaim(c, r)
         \/ \E m \in Counters : HearSupply(m, r)
         \/ Discard(r)
  PROVE  CsTypeOK'
<1> USE DEF CsTypeOK, Vacate, Goto, Over, customerVars, counterVars
<1>1. CASE Discard(r)
  BY <1>1 DEF Discard, CsPcStates
<1>2. ASSUME NEW m \in Counters, HearSupply(m, r) PROVE CsTypeOK'
  BY <1>2 DEF HearSupply, CsPcStates, Phones
<1>3. ASSUME NEW c \in Customers, HearClaim(c, r) PROVE CsTypeOK'
  <2>1. pc[r] # "idle" /\ call[r].answer.signature \in Customers \union {None}
    BY <1>3 DEF HearClaim, Call, Record, NoRecord
  <2>2. got' \in [Customers -> Customers \union {None}]
    BY <1>3, <2>1 DEF HearClaim, Collect
  <2>3. phone' \in [Customers -> {"idle", "claiming", "polling", "over"}]
    BY <1>3 DEF HearClaim, Collect
  <2> QED BY <1>3, <2>2, <2>3 DEF HearClaim, CsPcStates, Phones
<1> QED BY <1>1, <1>2, <1>3

LEMMA TypeStep ==
  ASSUME CsInv, CsNext PROVE CsTypeOK'
<1>0. CsTypeOK
  BY DEF CsInv
<1> USE DEF serverVars, customerVars, counterVars
<1>1. ASSUME NEW a \in Phones, TimeOut(a) PROVE CsTypeOK'
  BY <1>0, <1>1 DEF TimeOut, CsTypeOK
<1>2. ASSUME NEW c \in Customers, CustomerStep(c) PROVE CsTypeOK'
  <2>1. CASE Approve(c)
    BY <1>0, <2>1 DEF Approve, CsTypeOK
  <2>2. CASE Poll(c)
    <3>1. claim.signature \in Customers
      BY <1>0, <2>2 DEF Poll, CsTypeOK, Record, NoRecord
    <3> QED BY <1>0, <2>2, <3>1 DEF Poll, Collect, CsTypeOK
  <2>3. CASE GiveUp(c)
    BY <1>0, <2>3 DEF GiveUp, Over, CsTypeOK, Phones
  <2> QED BY <1>0, <1>2, <2>1, <2>2, <2>3, PostTypes, HearTypes
          DEF CustomerStep, PostClaim, Phones
<1>3. ASSUME NEW m \in Counters, CounterStep(m) PROVE CsTypeOK'
  <2>1. CASE RefreshView(m) \/ Look(m)
    BY <1>0, <2>1 DEF RefreshView, Look, CsTypeOK, Record
  <2>2. CASE DropTick(m)
    BY <1>0, <2>2 DEF DropTick, Over, CsTypeOK, Phones
  <2>3. ASSUME NEW r \in Slots, PostSignature(m, r) PROVE CsTypeOK'
    <3>1. signing[m] \in Customers
      BY <1>0, <2>3 DEF PostSignature, CsTypeOK
    <3> QED BY <1>0, <2>3, <3>1, PostTypes DEF PostSignature, Phones
  <2> QED BY <1>0, <1>3, <2>1, <2>2, <2>3, HearTypes DEF CounterStep
<1>4. CASE MoveOn
  BY <1>0, <1>4 DEF MoveOn, CsTypeOK, Stages
<1> QED BY <1>0, <1>1, <1>2, <1>3, <1>4, ServeTypes, HearTypes DEF CsNext

-----------------------------------------------------------------------------
(* The record only fills in.                                               *)

\* A claimed request keeps its customer, and a signed one its signature.
RecordAdvances == /\ claim # NoRecord => claim'.customer = claim.customer /\ claim' # NoRecord
                  /\ claim.signature # None => claim' = claim

LEMMA SavedRecord ==
  ASSUME CsInv, NEW r \in Slots, SaveRecord(r)
  PROVE  /\ RecordAdvances /\ RecordSound' /\ claim' # NoRecord
         /\ call[r].kind = "supply" => claim'.customer = call[r].customer
<1>1. /\ call[r] \in Call /\ claim \in Record \union {NoRecord}
      /\ claim.signature \in {None, claim.customer}
      /\ call[r].kind = "supply" => call[r].customer = claim.customer
  BY DEF SaveRecord, CsInv, CsTypeOK, RecordSound, CallsSound
<1>2. PICK n \in Record : /\ n = Brought(call[r])
                          /\ n.signature \in {None, n.customer}
                          /\ n.customer = call[r].customer
  <2>1. call[r].customer \in Customers
    BY <1>1 DEF Call
  <2>2. Brought(call[r]) \in Record
    BY <2>1 DEF Brought, Record
  <2>3. /\ Brought(call[r]).customer = call[r].customer
        /\ Brought(call[r]).signature \in {None, call[r].customer}
    BY DEF Brought
  <2> QED BY <2>2, <2>3
<1>3. claim' = Merged(claim, n)
  BY <1>2 DEF SaveRecord
<1>4. CASE claim = NoRecord
  BY <1>1, <1>2, <1>3, <1>4 DEF Merged, RecordAdvances, RecordSound, NoRecord, Record
<1>5. CASE claim # NoRecord
  <2>1. claim \in Record /\ claim.customer # None
    BY <1>1, <1>5 DEF Record
  <2>2. CASE claim.customer = n.customer /\ claim.signature = None
    <3>1. claim' = [claim EXCEPT !.signature = n.signature]
      BY <1>3, <1>5, <2>2 DEF Merged
    <3>2. claim'.customer = claim.customer /\ claim'.signature = n.signature
      BY <2>1, <3>1 DEF Record
    <3> QED BY <1>1, <1>2, <2>1, <2>2, <3>2 DEF RecordAdvances, RecordSound, NoRecord
  <2>3. CASE ~(claim.customer = n.customer /\ claim.signature = None)
    <3>1. claim' = claim
      BY <1>3, <1>5, <2>3 DEF Merged
    <3> QED BY <1>1, <1>5, <2>1, <3>1 DEF RecordAdvances, RecordSound, NoRecord
  <2> QED BY <2>2, <2>3
<1> QED BY <1>4, <1>5

\* Only a save writes the record.
LEMMA RecordWriters ==
  ASSUME CsNext, claim' # claim PROVE \E r \in Slots : SaveRecord(r)
<1> USE DEF serverVars, Post, Vacate
<1>1. ASSUME NEW r \in Slots, Serve(r) \/ Discard(r) PROVE SaveRecord(r)
  BY <1>1 DEF Serve, ReadStatus, FindForClaim, FindForSupply, ReadBack, Refuse, Reply, Discard
<1>2. ASSUME NEW a \in Phones, TimeOut(a) PROVE FALSE
  BY <1>2 DEF TimeOut
<1>3. ASSUME NEW c \in Customers, CustomerStep(c) PROVE FALSE
  BY <1>3 DEF CustomerStep, Approve, PostClaim, HearClaim, Poll, GiveUp
<1>4. ASSUME NEW m \in Counters, CounterStep(m) PROVE FALSE
  BY <1>4 DEF CounterStep, RefreshView, Look, PostSignature, HearSupply, DropTick
<1>5. CASE MoveOn
  BY <1>5 DEF MoveOn
<1> QED BY <1>1, <1>2, <1>3, <1>4, <1>5 DEF CsNext

LEMMA RecordStep ==
  ASSUME CsInv, CsNext PROVE RecordAdvances /\ RecordSound'
<1>1. CASE claim' = claim
  BY <1>1 DEF CsInv, RecordSound, RecordAdvances
<1> QED BY <1>1, SavedRecord, RecordWriters

-----------------------------------------------------------------------------
(* The calls in flight and the phones.                                     *)

LEMMA CallsStep ==
  ASSUME CsInv, CsNext PROVE CallsSound'
<1> DEFINE Sound(r) == pc[r] # "idle" =>
      LET c == call[r] IN
      /\ c.kind = "claim" => c.customer = c.from
      /\ c.kind = "supply" => c.customer = claim.customer /\ c.from \in Counters
      /\ pc[r] = "readBack" => claim # NoRecord
      /\ pc[r] = "ok" => /\ c.answer.customer = claim.customer /\ claim # NoRecord
                         /\ c.kind = "claim" => claim.customer = c.customer
                         /\ c.answer.signature \in {None, claim.signature}
<1>0. SUFFICES ASSUME NEW r \in Slots PROVE Sound(r)'
  BY DEF CallsSound
<1>1. /\ Sound(r)
      /\ pc \in [Slots -> CsPcStates] /\ call \in [Slots -> Call \union {NoCall}]
      /\ pc[r] # "idle" => call[r] \in Call
      /\ claim \in Record \union {NoRecord}
  BY DEF CsInv, CallsSound, CsTypeOK
<1>2. RecordAdvances
  BY RecordStep
<1>3. CASE pc'[r] = pc[r] /\ call'[r] = call[r]
  BY <1>1, <1>2, <1>3 DEF RecordAdvances, Record, Call, NoRecord
<1>4. ASSUME NEW q \in Slots, q # r,
             \/ Serve(q) \/ Discard(q)
             \/ \E a \in Phones : \E k, c : Post(a, q, k, c)
             \/ \E c \in Customers : HearClaim(c, q)
             \/ \E m \in Counters : HearSupply(m, q)
      PROVE  pc'[r] = pc[r] /\ call'[r] = call[r]
  BY <1>1, <1>4 DEF Serve, ReadStatus, FindForClaim, FindForSupply, SaveRecord, ReadBack,
     Refuse, Reply, Goto, Discard, Vacate, Post, HearClaim, HearSupply
<1>5. CASE Serve(r)
  <2>1. call[r] \in Call /\ pc[r] # "idle"
    BY <1>1, <1>5 DEF Serve, ReadStatus, FindForClaim, FindForSupply, SaveRecord, ReadBack
  <2>2. CASE /\ UNCHANGED <<claim, call>>
             /\ pc'[r] \in {"find", "save", "refused"}
    BY <1>1, <2>1, <2>2
  <2>3. CASE /\ UNCHANGED claim /\ pc'[r] = "find"
             /\ call' = [call EXCEPT ![r].seen = status]
    <3>1. /\ call'[r].kind = call[r].kind /\ call'[r].customer = call[r].customer
          /\ call'[r].from = call[r].from
      BY <1>1, <2>1, <2>3 DEF Call
    <3> QED BY <1>1, <2>1, <2>3, <3>1
  <2>4. CASE /\ Reply(r, claim) /\ claim # NoRecord
             /\ call[r].kind = "claim" => claim.customer = call[r].customer
    <3>1. /\ call'[r].kind = call[r].kind /\ call'[r].customer = call[r].customer
          /\ call'[r].from = call[r].from /\ call'[r].answer = claim
          /\ claim' = claim
      BY <1>1, <2>1, <2>4 DEF Call, Reply
    <3> QED BY <1>1, <2>1, <2>4, <3>1
  <2>5. CASE SaveRecord(r)
    <3>1. /\ call' = call /\ pc'[r] = "readBack" /\ claim' # NoRecord
          /\ call[r].kind = "supply" => claim'.customer = call[r].customer
      BY <1>1, <2>5, SavedRecord DEF SaveRecord, Goto
    <3> QED BY <1>1, <2>1, <3>1
  <2>6. CASE ReadStatus(r)
    BY <1>1, <2>2, <2>3, <2>6 DEF ReadStatus, Refuse, Goto
  <2>7. CASE FindForClaim(r)
    BY <1>1, <2>2, <2>4, <2>7 DEF FindForClaim, Refuse, Goto
  <2>8. CASE FindForSupply(r)
    <3>1. claim.customer = call[r].customer => claim # NoRecord
      BY <2>1 DEF NoRecord, Call
    <3> QED BY <1>1, <2>1, <2>2, <2>4, <2>8, <3>1 DEF FindForSupply, Refuse, Goto
  <2>9. CASE ReadBack(r)
    BY <1>1, <2>2, <2>4, <2>9 DEF ReadBack, LostClaim, Refuse, Goto
  <2> QED BY <1>5, <2>5, <2>6, <2>7, <2>8, <2>9 DEF Serve
<1>6. ASSUME \/ Discard(r)
             \/ \E c \in Customers : HearClaim(c, r)
             \/ \E m \in Counters : HearSupply(m, r)
      PROVE  Sound(r)'
  BY <1>1, <1>6 DEF Discard, HearClaim, HearSupply, Vacate, Goto
<1>7. ASSUME NEW c \in Customers, PostClaim(c, r) PROVE Sound(r)'
  BY <1>1, <1>7 DEF PostClaim, Post, Goto
<1>8. ASSUME NEW m \in Counters, PostSignature(m, r) PROVE Sound(r)'
  <2>1. claim.customer = signing[m]
    BY <1>8 DEF PostSignature, CsInv, SignedForTheOwner
  <2> QED BY <1>1, <1>8, <2>1 DEF PostSignature, Post, Goto
<1>9. CASE UNCHANGED <<pc, call>>
  BY <1>3, <1>9
<1>10. ASSUME NEW a \in Phones, TimeOut(a) PROVE Sound(r)'
  BY <1>9, <1>10 DEF TimeOut, serverVars
<1>11. ASSUME NEW c \in Customers, CustomerStep(c) PROVE Sound(r)'
  <2>1. CASE Approve(c) \/ Poll(c) \/ GiveUp(c)
    BY <1>9, <2>1 DEF Approve, Poll, GiveUp, serverVars
  <2>2. ASSUME NEW q \in Slots, PostClaim(c, q) \/ HearClaim(c, q) PROVE Sound(r)'
    <3>1. CASE q = r
      BY <1>6, <1>7, <2>2, <3>1
    <3>2. CASE q # r
      BY <1>3, <1>4, <2>2, <3>2 DEF PostClaim, Phones
    <3> QED BY <3>1, <3>2
  <2> QED BY <1>11, <2>1, <2>2 DEF CustomerStep
<1>12. ASSUME NEW m \in Counters, CounterStep(m) PROVE Sound(r)'
  <2>1. CASE RefreshView(m) \/ Look(m) \/ DropTick(m)
    BY <1>9, <2>1 DEF RefreshView, Look, DropTick, serverVars
  <2>2. ASSUME NEW q \in Slots, PostSignature(m, q) \/ HearSupply(m, q) PROVE Sound(r)'
    <3>1. CASE q = r
      BY <1>6, <1>8, <2>2, <3>1
    <3>2. CASE q # r
      BY <1>3, <1>4, <2>2, <3>2 DEF PostSignature, Phones
    <3> QED BY <3>1, <3>2
  <2> QED BY <1>12, <2>1, <2>2 DEF CounterStep
<1>13. CASE MoveOn
  BY <1>9, <1>13 DEF MoveOn, serverVars
<1>14. ASSUME NEW q \in Slots, Serve(q) \/ Discard(q) PROVE Sound(r)'
  <2>1. CASE q = r
    BY <1>5, <1>6, <1>14, <2>1
  <2>2. CASE q # r
    BY <1>3, <1>4, <1>14, <2>2
  <2> QED BY <2>1, <2>2
<1> QED BY <1>10, <1>11, <1>12, <1>13, <1>14 DEF CsNext

LEMMA WaitsStep ==
  ASSUME CsInv, CsNext PROVE WaitsSound'
<1> DEFINE Sound(a) == wait[a] # None => pc[wait[a]] # "idle" /\ call[wait[a]].from = a
<1>0. SUFFICES ASSUME NEW a \in Phones PROVE Sound(a)'
  BY DEF WaitsSound
<1>1. /\ Sound(a)
      /\ pc \in [Slots -> CsPcStates] /\ call \in [Slots -> Call \union {NoCall}]
      /\ \A r \in Slots : pc[r] # "idle" => call[r] \in Call
      /\ wait \in [Phones -> Slots \union {None}]
  BY DEF CsInv, WaitsSound, CsTypeOK
<1>2. CASE /\ wait'[a] = wait[a]
           /\ wait[a] # None => /\ pc'[wait[a]] # "idle"
                                /\ call'[wait[a]].from = call[wait[a]].from
  BY <1>1, <1>2
<1>3. CASE wait'[a] = None
  BY <1>3
<1>4. ASSUME NEW r \in Slots, Serve(r) PROVE Sound(a)'
  <2>1. pc[r] # "idle" /\ call[r] \in Call
    BY <1>1, <1>4 DEF Serve, ReadStatus, FindForClaim, FindForSupply, SaveRecord, ReadBack
  <2>2. pc'[r] # "idle" /\ \A q \in Slots \ {r} : pc'[q] = pc[q] /\ call'[q] = call[q]
    BY <1>1, <1>4 DEF Serve, ReadStatus, FindForClaim, FindForSupply, SaveRecord, ReadBack,
       Refuse, Reply, Goto
  <2>3. call'[r].from = call[r].from
    <3>1. CASE call' = call
      BY <3>1
    <3>2. CASE call' = [call EXCEPT ![r].seen = status]
      BY <1>1, <2>1, <3>2 DEF Call
    <3>3. CASE call' = [call EXCEPT ![r].answer = claim]
      BY <1>1, <2>1, <3>3 DEF Call
    <3> QED BY <1>4, <3>1, <3>2, <3>3 DEF Serve, ReadStatus, FindForClaim, FindForSupply,
            SaveRecord, ReadBack, Refuse, Reply
  <2>4. wait' = wait
    BY <1>4 DEF Serve
  <2>5. wait[a] # None => wait[a] \in Slots
    BY <1>1
  <2> QED BY <1>2, <2>2, <2>3, <2>4, <2>5, <1>1
<1>5. ASSUME NEW b \in Phones, NEW r \in Slots, NEW k, NEW c, Post(b, r, k, c)
      PROVE  Sound(a)'
  <2>1. /\ pc[r] = "idle" /\ pc' = [pc EXCEPT ![r] = "settlement"]
        /\ wait' = [wait EXCEPT ![b] = r] /\ r # None
        /\ call'[r].from = b /\ \A q \in Slots \ {r} : call'[q] = call[q]
    BY <1>1, <1>5 DEF Post, Goto
  <2>2. CASE a = b
    BY <1>1, <2>1, <2>2
  <2>3. CASE a # b
    BY <1>1, <2>1, <2>3
  <2> QED BY <2>2, <2>3
<1>6. ASSUME NEW r \in Slots, Vacate(r),
             \/ ~Heard(r) /\ UNCHANGED wait
             \/ \E b \in Phones : wait[b] = r /\ wait' = [wait EXCEPT ![b] = None]
      PROVE  Sound(a)'
  <2>1. \A q \in Slots \ {r} : pc'[q] = pc[q] /\ call'[q] = call[q]
    BY <1>1, <1>6 DEF Vacate, Goto
  <2>2. CASE wait[a] # r /\ wait'[a] = wait[a]
    BY <1>1, <1>2, <2>1, <2>2
  <2>3. CASE ~Heard(r) /\ UNCHANGED wait
    BY <1>1, <2>2, <2>3 DEF Heard
  <2>4. ASSUME NEW b \in Phones, wait[b] = r, wait' = [wait EXCEPT ![b] = None]
        PROVE  Sound(a)'
    <3>1. r # None
      OBVIOUS
    <3>2. call[r].from = b
      BY <2>4, <3>1 DEF CsInv, WaitsSound
    <3> QED BY <1>1, <1>3, <2>2, <2>4, <3>1, <3>2
  <2> QED BY <1>6, <2>3, <2>4
<1>7. CASE UNCHANGED <<pc, call, wait>>
  BY <1>1, <1>7
<1>8. CASE UNCHANGED <<pc, call>> /\ \E b \in Phones : wait' = [wait EXCEPT ![b] = None]
  BY <1>1, <1>8
<1>9. ASSUME NEW r \in Slots, Discard(r) PROVE Sound(a)'
  BY <1>6, <1>9 DEF Discard
<1>10. ASSUME NEW b \in Phones, TimeOut(b) PROVE Sound(a)'
  BY <1>8, <1>10 DEF TimeOut, serverVars
<1>11. ASSUME NEW c \in Customers, CustomerStep(c) PROVE Sound(a)'
  <2>0. c \in Phones
    BY DEF Phones
  <2>1. CASE Approve(c) \/ Poll(c)
    BY <1>7, <2>1 DEF Approve, Poll, serverVars
  <2>2. CASE GiveUp(c)
    BY <1>8, <2>0, <2>2 DEF GiveUp, Over, serverVars
  <2>3. ASSUME NEW r \in Slots, PostClaim(c, r) PROVE Sound(a)'
    BY <1>5, <2>0, <2>3 DEF PostClaim
  <2>4. ASSUME NEW r \in Slots, HearClaim(c, r) PROVE Sound(a)'
    BY <1>6, <2>0, <2>4 DEF HearClaim, Over
  <2> QED BY <1>11, <2>1, <2>2, <2>3, <2>4 DEF CustomerStep
<1>12. ASSUME NEW m \in Counters, CounterStep(m) PROVE Sound(a)'
  <2>0. m \in Phones
    BY DEF Phones
  <2>1. CASE RefreshView(m) \/ Look(m)
    BY <1>7, <2>1 DEF RefreshView, Look, serverVars
  <2>2. CASE DropTick(m)
    BY <1>8, <2>0, <2>2 DEF DropTick, Over, serverVars
  <2>3. ASSUME NEW r \in Slots, PostSignature(m, r) PROVE Sound(a)'
    BY <1>5, <2>0, <2>3 DEF PostSignature
  <2>4. ASSUME NEW r \in Slots, HearSupply(m, r) PROVE Sound(a)'
    BY <1>6, <2>0, <2>4 DEF HearSupply, Over
  <2> QED BY <1>12, <2>1, <2>2, <2>3, <2>4 DEF CounterStep
<1>13. CASE MoveOn
  BY <1>7, <1>13 DEF MoveOn, serverVars
<1> QED BY <1>4, <1>9, <1>10, <1>11, <1>12, <1>13 DEF CsNext

\* What a phone heard came from a call of its own, about the record as it is.
LEMMA PhonesStep ==
  ASSUME CsInv, CsNext PROVE PhonesSound'
<1> DEFINE Sound(c) == /\ phone[c] = "polling" => claim.customer = c
                       /\ got[c] # None =>
                            got[c] = c /\ claim = [customer |-> c, signature |-> c]
<1>0. SUFFICES ASSUME NEW c \in Customers PROVE Sound(c)'
  BY DEF PhonesSound
<1>1. /\ Sound(c) /\ c # None
      /\ claim \in Record \union {NoRecord} /\ claim.signature \in {None, claim.customer}
      /\ phone \in [Customers -> {"idle", "claiming", "polling", "over"}]
      /\ got \in [Customers -> Customers \union {None}]
  BY DEF CsInv, PhonesSound, CsTypeOK, RecordSound
<1>2. RecordAdvances
  BY RecordStep
<1>3. CASE phone'[c] \in {phone[c], "claiming", "over"} /\ got'[c] = got[c]
  <2>1. phone[c] = "polling" => claim # NoRecord
    BY <1>1 DEF NoRecord
  <2>2. got[c] # None => claim' = claim
    BY <1>1, <1>2 DEF RecordAdvances
  <2> QED BY <1>1, <1>2, <1>3, <2>1, <2>2 DEF RecordAdvances
<1>4. ASSUME NEW record, Collect(c, record), UNCHANGED claim, claim.customer = c,
             record.signature = claim.signature, claim.signature # None
      PROVE  Sound(c)'
  <2>1. claim \in Record /\ claim.signature = c
    BY <1>1, <1>4 DEF NoRecord
  <2>2. claim = [customer |-> c, signature |-> c]
    BY <1>4, <2>1 DEF Record
  <2> QED BY <1>1, <1>4, <2>1, <2>2 DEF Collect
<1>5. CASE UNCHANGED <<phone, got>>
  BY <1>3, <1>5
<1>6. ASSUME NEW r \in Slots, Serve(r) \/ Discard(r) PROVE Sound(c)'
  BY <1>5, <1>6 DEF Serve, Discard, customerVars
<1>7. ASSUME NEW a \in Phones, TimeOut(a) PROVE Sound(c)'
  BY <1>5, <1>7 DEF TimeOut, customerVars
<1>8. ASSUME NEW d \in Customers, CustomerStep(d) PROVE Sound(c)'
  <2>1. CASE Approve(d)
    BY <1>1, <1>3, <2>1 DEF Approve
  <2>2. CASE GiveUp(d)
    BY <1>1, <1>3, <2>2 DEF GiveUp
  <2>3. ASSUME NEW r \in Slots, PostClaim(d, r) PROVE Sound(c)'
    BY <1>5, <2>3 DEF PostClaim, Post, customerVars
  <2>4. CASE Poll(d)
    <3>1. CASE d = c
      BY <1>1, <1>4, <2>4, <3>1 DEF Poll, serverVars
    <3>2. CASE d # c
      BY <1>1, <1>3, <2>4, <3>2 DEF Poll, Collect
    <3> QED BY <3>1, <3>2
  <2>5. ASSUME NEW r \in Slots, HearClaim(d, r) PROVE Sound(c)'
    <3>1. CASE d # c
      BY <1>1, <1>3, <2>5, <3>1 DEF HearClaim, Collect
    <3>2. CASE d = c /\ pc[r] = "refused"
      BY <1>1, <1>3, <2>5, <3>2 DEF HearClaim
    <3>3. CASE d = c /\ pc[r] = "ok"
      <4>1. wait[c] = r /\ r # None /\ c \in Phones
        BY <2>5, <3>3 DEF HearClaim, Phones
      <4>2. call[r].from = c
        BY <4>1 DEF CsInv, WaitsSound
      <4>3. call[r] \in Call
        BY <3>3 DEF CsInv, CsTypeOK
      <4>4. call[r].kind = "claim"
        BY <3>3, <4>2, <4>3 DEF CsInv, CallsSound, Call
      <4>5. /\ claim.customer = c
            /\ call[r].answer.signature \in {None, claim.signature}
        BY <3>3, <4>2, <4>4 DEF CsInv, CallsSound
      <4>6. UNCHANGED claim
        BY <2>5 DEF HearClaim, Vacate
      <4>7. CASE call[r].answer.signature # None
        BY <1>4, <2>5, <3>3, <4>5, <4>6, <4>7 DEF HearClaim
      <4>8. CASE call[r].answer.signature = None
        BY <1>1, <2>5, <3>3, <4>5, <4>6, <4>8 DEF HearClaim
      <4> QED BY <4>7, <4>8
    <3> QED BY <2>5, <3>1, <3>2, <3>3 DEF HearClaim
  <2> QED BY <1>8, <2>1, <2>2, <2>3, <2>4, <2>5 DEF CustomerStep
<1>9. ASSUME NEW m \in Counters, CounterStep(m) PROVE Sound(c)'
  BY <1>5, <1>9 DEF CounterStep, RefreshView, Look, DropTick, PostSignature, Post,
     HearSupply, customerVars
<1>10. CASE MoveOn
  BY <1>5, <1>10 DEF MoveOn, customerVars
<1> QED BY <1>6, <1>7, <1>8, <1>9, <1>10 DEF CsNext

LEMMA SigningStep ==
  ASSUME CsInv, CsNext PROVE SignedForTheOwner'
<1>0. SUFFICES ASSUME NEW m \in Counters, signing'[m] # None
               PROVE  claim'.customer = signing'[m]
  BY DEF SignedForTheOwner
<1>1. /\ signing[m] # None => claim.customer = signing[m]
      /\ signing \in [Counters -> Customers \union {None}]
      /\ claim \in Record \union {NoRecord}
  BY DEF CsInv, SignedForTheOwner, CsTypeOK
<1>2. RecordAdvances
  BY RecordStep
<1>3. CASE signing'[m] = signing[m]
  <2>1. claim # NoRecord
    BY <1>0, <1>1, <1>3 DEF NoRecord
  <2> QED BY <1>0, <1>1, <1>2, <1>3, <2>1 DEF RecordAdvances
<1>4. CASE UNCHANGED signing
  BY <1>3, <1>4
<1>5. ASSUME NEW n \in Counters, CounterStep(n) PROVE claim'.customer = signing'[m]
  <2>1. CASE Look(n)
    <3>1. UNCHANGED claim /\ signing' = [signing EXCEPT ![n] = claim.customer]
      BY <2>1 DEF Look, serverVars
    <3> QED BY <1>1, <1>3, <3>1
  <2>2. CASE RefreshView(n) \/ \E r \in Slots : PostSignature(n, r)
    BY <1>4, <2>2 DEF RefreshView, PostSignature, Post, counterVars
  <2>3. CASE DropTick(n) \/ \E r \in Slots : HearSupply(n, r)
    <3>1. signing' = [signing EXCEPT ![n] = None]
      BY <2>3 DEF DropTick, HearSupply
    <3> QED BY <1>0, <1>1, <1>3, <3>1
  <2> QED BY <1>5, <2>1, <2>2, <2>3 DEF CounterStep
<1>6. ASSUME NEW r \in Slots, Serve(r) \/ Discard(r) PROVE UNCHANGED signing
  BY <1>6 DEF Serve, Discard, counterVars
<1>7. ASSUME NEW a \in Phones, TimeOut(a) PROVE UNCHANGED signing
  BY <1>7 DEF TimeOut, counterVars
<1>8. ASSUME NEW c \in Customers, CustomerStep(c) PROVE UNCHANGED signing
  BY <1>8 DEF CustomerStep, Approve, Poll, GiveUp, PostClaim, Post, HearClaim, counterVars
<1>9. CASE MoveOn
  BY <1>4, <1>9 DEF MoveOn, counterVars
<1> QED BY <1>4, <1>5, <1>6, <1>7, <1>8, <1>9 DEF CsNext

-----------------------------------------------------------------------------
(* The theorems.                                                           *)

LEMMA InitInv == CsInit => CsInv
<1> SUFFICES ASSUME CsInit PROVE CsInv
  OBVIOUS
<1> USE DEF CsInit
<1>1. CsTypeOK
  BY DEF CsTypeOK, Stages, CsPcStates
<1>2. RecordSound /\ CallsSound
  BY DEF RecordSound, CallsSound, NoRecord
<1>3. WaitsSound /\ PhonesSound /\ SignedForTheOwner
  BY DEF WaitsSound, PhonesSound, SignedForTheOwner
<1> QED BY <1>1, <1>2, <1>3 DEF CsInv

LEMMA NextInv == CsInv /\ [CsNext]_csVars => CsInv'
<1>1. CASE CsInv /\ CsNext
  BY <1>1, TypeStep, RecordStep, CallsStep, WaitsStep, PhonesStep, SigningStep DEF CsInv
<1>2. CASE CsInv /\ UNCHANGED csVars
  BY <1>2 DEF csVars, serverVars, customerVars, counterVars, CsInv, CsTypeOK, RecordSound,
     CallsSound, WaitsSound, PhonesSound, SignedForTheOwner
<1> QED BY <1>1, <1>2

\* The inductive invariant holds in every reachable state.
THEOREM MeetingPointSound == CsSpec => []CsInv
<1> QED BY InitInv, NextInv, PTL DEF CsSpec

\* However many phones race over one code, retry and time out, at most one of
\* them ever holds the merchant's signature (requestCountersignature).
THEOREM OneProceeds == CsSpec => []OneCustomerProceeds
<1>1. CsInv => OneCustomerProceeds
  <2> SUFFICES ASSUME CsInv, NEW c \in Customers, NEW d \in Customers,
                      got[c] # None, got[d] # None
               PROVE  c = d
    BY DEF OneCustomerProceeds
  <2>1. claim = [customer |-> c, signature |-> c] /\ claim = [customer |-> d, signature |-> d]
    BY DEF CsInv, PhonesSound
  <2> QED BY <2>1
<1> QED BY <1>1, MeetingPointSound, PTL

\* A phone never pays with a signature made for another payer, although the
\* polling client does not read who the record names (remoteCountersigner).
THEOREM CollectorNamed == CsSpec => []CollectedNamesCollector
<1>1. CsInv => CollectedNamesCollector
  BY DEF CsInv, PhonesSound, CollectedNamesCollector
<1> QED BY <1>1, MeetingPointSound, PTL

\* The customer a merchant's tick signs for still owns the request when the
\* signature is delivered (useMerchantCountersigning, supplyCountersignature).
THEOREM SignerSound == CsSpec => []SignedForTheOwner
<1>1. CsInv => SignedForTheOwner
  BY DEF CsInv
<1> QED BY <1>1, MeetingPointSound, PTL

-----------------------------------------------------------------------------
(* The refinement.                                                         *)

LEMMA SaveImplements ==
  ASSUME CsInv, NEW r \in Slots, SaveRecord(r), UNCHANGED got
  PROVE  [Promise!HandoverNext]_(Promise!handoverVars)
<1> DEFINE takers == {c \in Customers : got[c] # None}
<1>0. takers' = takers
  OBVIOUS
<1>1. /\ call[r] \in Call /\ claim \in Record \union {NoRecord}
      /\ claim.signature \in {None, claim.customer}
      /\ call[r].kind = "supply" => call[r].customer = claim.customer
  BY DEF SaveRecord, CsInv, CsTypeOK, RecordSound, CallsSound
<1>2. call[r].customer \in Customers /\ call[r].kind \in {"claim", "supply"}
  BY <1>1 DEF Call
<1>3. CASE claim = NoRecord
  <2>1. call[r].kind = "claim"
    BY <1>1, <1>2, <1>3 DEF NoRecord
  <2>2. claim' = [customer |-> call[r].customer, signature |-> None]
    BY <1>3, <2>1 DEF SaveRecord, Merged, Brought
  <2>3. Promise!Claim(call[r].customer)
    BY <1>0, <1>3, <2>2 DEF Promise!Claim, NoRecord
  <2> QED BY <1>2, <2>3 DEF Promise!HandoverNext
<1>4. CASE claim # NoRecord
  <2>1. claim \in Record /\ claim.customer # None
    BY <1>1, <1>4 DEF Record
  <2>2. claim'.customer = claim.customer
    BY <1>4, SavedRecord DEF RecordAdvances
  <2>3. CASE claim.signature # None
    <3>1. claim' = claim
      BY <2>3, SavedRecord DEF RecordAdvances
    <3> QED BY <1>0, <3>1 DEF Promise!handoverVars
  <2>4. CASE claim.signature = None /\ claim'.signature = None
    BY <1>0, <2>2, <2>4 DEF Promise!handoverVars
  <2>5. CASE claim.signature = None /\ claim'.signature # None
    <3>1. Promise!SignForOwner
      BY <1>0, <2>1, <2>2, <2>5 DEF Promise!SignForOwner
    <3> QED BY <3>1 DEF Promise!HandoverNext
  <2> QED BY <2>3, <2>4, <2>5
<1> QED BY <1>3, <1>4

LEMMA CollectImplements ==
  ASSUME CsInv, CsInv', NEW c \in Customers, NEW s, UNCHANGED claim,
         got' = [got EXCEPT ![c] = s], s # None
  PROVE  [Promise!HandoverNext]_(Promise!handoverVars)
<1>1. got \in [Customers -> Customers \union {None}]
  BY DEF CsInv, CsTypeOK
<1>2. got'[c] # None
  BY <1>1
<1>3. claim' = [customer |-> c, signature |-> c] /\ c # None
  BY <1>2 DEF CsInv, PhonesSound
<1>4. {d \in Customers : got'[d] # None} = {d \in Customers : got[d] # None} \union {c}
  BY <1>1
<1>5. Promise!Take(c)
  BY <1>3, <1>4 DEF Promise!Take
<1> QED BY <1>5 DEF Promise!HandoverNext

LEMMA StepImplements ==
  ASSUME CsInv, CsInv', [CsNext]_csVars
  PROVE  [Promise!HandoverNext]_(Promise!handoverVars)
<1> USE DEF serverVars, customerVars, counterVars
<1>1. CASE UNCHANGED <<claim, got>>
  BY <1>1 DEF Promise!handoverVars
<1>2. CASE UNCHANGED csVars
  BY <1>1, <1>2 DEF csVars
<1>3. ASSUME NEW r \in Slots, Serve(r) \/ Discard(r)
      PROVE  [Promise!HandoverNext]_(Promise!handoverVars)
  <2>1. UNCHANGED got
    BY <1>3 DEF Serve, Discard
  <2>2. CASE SaveRecord(r)
    BY <2>1, <2>2, SaveImplements
  <2>3. CASE ~SaveRecord(r)
    BY <1>1, <1>3, <2>1, <2>3 DEF Serve, ReadStatus, FindForClaim, FindForSupply, ReadBack,
       Refuse, Reply, Discard, Vacate
  <2> QED BY <2>2, <2>3
<1>4. ASSUME NEW a \in Phones, TimeOut(a)
      PROVE  [Promise!HandoverNext]_(Promise!handoverVars)
  BY <1>1, <1>4 DEF TimeOut
<1>5. ASSUME NEW c \in Customers, CustomerStep(c)
      PROVE  [Promise!HandoverNext]_(Promise!handoverVars)
  <2>1. CASE Approve(c) \/ GiveUp(c) \/ \E r \in Slots : PostClaim(c, r)
    BY <1>1, <2>1 DEF Approve, GiveUp, PostClaim, Post
  <2>2. CASE Poll(c)
    BY <2>2, CollectImplements DEF Poll, Collect
  <2>3. ASSUME NEW r \in Slots, HearClaim(c, r)
        PROVE  [Promise!HandoverNext]_(Promise!handoverVars)
    <3>1. UNCHANGED claim
      BY <2>3 DEF HearClaim, Vacate
    <3> QED BY <1>1, <2>3, <3>1, CollectImplements DEF HearClaim, Collect
  <2> QED BY <1>5, <2>1, <2>2, <2>3 DEF CustomerStep
<1>6. ASSUME NEW m \in Counters, CounterStep(m)
      PROVE  [Promise!HandoverNext]_(Promise!handoverVars)
  BY <1>1, <1>6 DEF CounterStep, RefreshView, Look, DropTick, PostSignature, Post,
     HearSupply, Vacate
<1>7. CASE MoveOn
  BY <1>1, <1>7 DEF MoveOn
<1> QED BY <1>2, <1>3, <1>4, <1>5, <1>6, <1>7 DEF CsNext

\* The two endpoints, the upsert under them and both phones implement the
\* promise: one owner, one signature for that owner, taken by nobody else.
THEOREM MeetingPointImplements == CsSpec => ImplementsHandover
<1>1. CsInit => Promise!HandoverInit
  BY DEF CsInit, NoRecord, Promise!HandoverInit
<1> QED BY <1>1, MeetingPointSound, StepImplements, PTL
        DEF CsSpec, ImplementsHandover, Promise!HandoverSpec

=============================================================================
