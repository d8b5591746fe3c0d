---------------------------- MODULE ProximityLink ----------------------------
(***************************************************************************)
(* The Bluetooth link between a counter and one customer: the hook that    *)
(* keeps a request on the air (useProximityBroadcast), the native modules  *)
(* of both platforms (RosaPayProximityModule.kt, RosaPayProximity.swift)   *)
(* at both ends, and the frames between them.                              *)
(*                                                                         *)
(* The merchant is the GATT server: it notifies.  The customer is the      *)
(* client: it writes.  A message is cut into frames that carry its kind,   *)
(* their place and their number; the receiver puts them together again.    *)
(* An Android counter has nothing to answer a customer with (Kept), so     *)
(* only the iOS sender ever runs.                                          *)
(* What is too weak to follow, the thresholds and the waits before a       *)
(* merchant is offered decide when Connect happens and are left out.       *)
(***************************************************************************)
EXTENDS Naturals, Sequences, FiniteSets

CONSTANTS Broadcasts, \* payment requests, each one message of the merchant
          MerchantWords, CustomerWords, \* the messages of a conversation
          KindOf, SizeOf, \* of each message: its kind, and its number of frames
          Platforms,  \* pairs <<the merchant's, the customer's>>
          Room,       \* notifications the iOS stack takes before it is full
          MaxChanges, \* bound: times the screen changes what it offers
          MaxUpsets,  \* bound: refused starts, failed writes and notifications
          Silence

Words == Broadcasts \union MerchantWords \union CustomerWords

\* What the values of the constants must satisfy; assumed where they are given.
LinkAssumption ==
  /\ SizeOf \in [Words -> Nat \ {0}] /\ Silence \notin Words
  /\ Platforms \subseteq {"android", "ios"} \X {"android", "ios"}
  /\ Room \in Nat \ {0}

\* Over one link a kind names one message: a session has one request, one offer,
\* one approval and one result.  Frames of a message half sent and dropped could
\* otherwise be taken for the next one's.
OneOfAKind ==
  /\ \A m \in MerchantWords, n \in Broadcasts \union MerchantWords : KindOf[m] = KindOf[n] => m = n
  /\ \A m, n \in CustomerWords : KindOf[m] = KindOf[n] => m = n

VARIABLES os,        \* the pair of platforms
          wanted,    \* the request the screen offers, or Silence
          ops,       \* operationQueue: starts and stops of the broadcast
          broadcast, \* payload, advertised
          onAir,     \* the service is published and advertised
          attached,  \* the customer is among the merchant's subscribers
          live,      \* what the customer is subscribed to is the service on air
          tx,        \* the merchant's sender: outbox, sending, frames its stack holds
          wr,        \* the customer's writer: writing, frames its stack holds
          pile,      \* pile[d]: frames collected at the end of direction d
          link,      \* the customer's side of the connection
          held,      \* the customer's payment screen holds the peer
          scanning,
          said,      \* said[d]: accepted for direction d of this link, in order
          received,  \* received[d]: handed to the other phone's JavaScript
          changes, upsets

hookVars == <<wanted, ops, changes>>
serverVars == <<broadcast, onAir, attached, live>>
clientVars == <<link, held, scanning>>
wireVars == <<tx, wr, pile, said, received>>
plVars == <<os, hookVars, serverVars, clientVars, wireVars, upsets>>

Merchant == os[1]
Customer == os[2]
Directions == {"down", "up"}
NoPile == [kind |-> Silence, parts |-> <<>>]

IdleSender == [outbox |-> <<>>, sending |-> Silence, next |-> 1, air |-> <<>>]
IdleWriter == [queue |-> <<>>, air |-> <<>>]

Upset == upsets < MaxUpsets /\ upsets' = upsets + 1

PlInit == /\ os \in Platforms
          /\ wanted = Silence /\ ops = <<>> /\ changes = 0 /\ upsets = 0
          /\ broadcast = Silence /\ onAir = FALSE /\ attached = FALSE /\ live = FALSE
          /\ tx = IdleSender /\ wr = IdleWriter
          /\ pile = [d \in Directions |-> NoPile]
          /\ link = "none" /\ held = FALSE /\ scanning = FALSE
          /\ said = [d \in Directions |-> <<>>] /\ received = [d \in Directions |-> <<>>]

-----------------------------------------------------------------------------
(* Frames.                                                                 *)

Frame(m, i) == [word |-> m, index |-> i]
FramesOf(m) == [i \in 1 .. SizeOf[m] |-> Frame(m, i)]

\* Mutant: frames of any kind go on one pile.
PiledTogether(p, f) ==
  [kind |-> KindOf[f.word],
   parts |-> [i \in DOMAIN p.parts \union {f.index} |-> IF i = f.index THEN f.word ELSE p.parts[i]]]

\* receive: another kind starts another pile; a full pile is one message, in
\* the order of its frames' places.
Piled(p, f) ==
  LET q == IF p.kind = KindOf[f.word] THEN p ELSE [kind |-> KindOf[f.word], parts |-> <<>>]
  IN  [q EXCEPT !.parts = [i \in DOMAIN @ \union {f.index} |->
                             IF i = f.index THEN f.word ELSE @[i]]]

Complete(p, f) == Cardinality(DOMAIN p.parts) = SizeOf[f.word]

Received(d, f) ==
  LET p == Piled(pile[d], f)
  IN  /\ pile' = [pile EXCEPT ![d] = IF Complete(p, f) THEN NoPile ELSE p]
      /\ received' = [received EXCEPT ![d] = IF Complete(p, f) THEN Append(@, p.parts) ELSE @]

-----------------------------------------------------------------------------
(* The merchant's sender.                                                  *)

Begun(t) == IF t.outbox = <<>> THEN [t EXCEPT !.sending = Silence]
            ELSE [t EXCEPT !.outbox = Tail(@), !.sending = Head(t.outbox), !.next = 1]

Enqueued(t, m) == LET q == [t EXCEPT !.outbox = Append(@, m)]
                  IN  IF q.sending = Silence THEN Begun(q) ELSE q

\* send: the stack takes what it has room for and is carried on from there.  A
\* subscription to a service that is gone takes nothing anywhere.
PushFrame ==
  /\ tx.sending # Silence /\ Len(tx.air) < Room
  /\ LET t == [tx EXCEPT !.air = IF live THEN Append(@, Frame(tx.sending, tx.next)) ELSE @,
                        !.next = @ + 1]
     IN  tx' = IF tx.next = SizeOf[tx.sending] THEN Begun(t) ELSE t
  /\ UNCHANGED <<os, hookVars, serverVars, clientVars, wr, pile, said, received, upsets>>

\* A notification reaches a customer who is subscribed to this service.
NotificationArrives ==
  /\ tx.air # <<>> /\ tx' = [tx EXCEPT !.air = Tail(@)]
  /\ IF link = "open" THEN Received("down", Head(tx.air)) ELSE UNCHANGED <<pile, received>>
  /\ UNCHANGED <<os, hookVars, serverVars, clientVars, wr, said, upsets>>

MerchantSays(m) ==
  /\ attached /\ m \notin {said["down"][i] : i \in DOMAIN said["down"]}
  /\ tx' = Enqueued(tx, m) /\ said' = [said EXCEPT !["down"] = Append(@, m)]
  /\ UNCHANGED <<os, hookVars, serverVars, clientVars, wr, pile, received, upsets>>

\* releasePeer at the merchant, a second and a half after a session: what is
\* queued, half sent or half heard is dropped, the connection is not.
MerchantReleases ==
  /\ attached /\ Upset
  /\ tx' = [tx EXCEPT !.outbox = <<>>, !.sending = Silence]
  /\ pile' = [pile EXCEPT !["up"] = NoPile]
  /\ UNCHANGED <<os, hookVars, serverVars, clientVars, wr, said, received>>

-----------------------------------------------------------------------------
(* The customer's writer.                                                  *)

\* A write handed to a busy Android stack is gone; iOS keeps a queue of its own.
NextWritten(w) ==
  IF w.queue = <<>> THEN w
  ELSE [w EXCEPT !.queue = Tail(@),
                 !.air = IF Customer = "android" /\ @ # <<>> THEN @ ELSE Append(@, Head(w.queue))]

\* Mutant: a new message takes the place of what is queued.
WrittenOver(w, m) == NextWritten([w EXCEPT !.queue = FramesOf(m)])

\* A new message is begun at once when no frame is queued, whether or not the
\* last one has been answered.
Written(w, m) == LET r == [w EXCEPT !.queue = @ \o FramesOf(m)]
                 IN  IF w.queue = <<>> THEN NextWritten(r) ELSE r

CustomerSays(m) ==
  /\ link = "open" /\ received["down"] # <<>>
  /\ m \notin {said["up"][i] : i \in DOMAIN said["up"]}
  /\ wr' = Written(wr, m) /\ said' = [said EXCEPT !["up"] = Append(@, m)]
  /\ UNCHANGED <<os, hookVars, serverVars, clientVars, tx, pile, received, upsets>>

\* The server takes the write, and the client is told so.
WriteArrives ==
  /\ wr.air # <<>> /\ wr' = NextWritten([wr EXCEPT !.air = Tail(@)])
  /\ IF live THEN Received("up", Head(wr.air)) ELSE UNCHANGED <<pile, received>>
  /\ UNCHANGED <<os, hookVars, serverVars, clientVars, tx, said, upsets>>

\* The frames still queued are dropped with the one that failed.
WriteFails ==
  /\ wr.air # <<>> /\ Upset
  /\ wr' = [wr EXCEPT !.air = Tail(@), !.queue = <<>>]
  /\ UNCHANGED <<os, hookVars, serverVars, clientVars, tx, pile, said, received>>

-----------------------------------------------------------------------------
(* The connection, from the customer's side.                               *)

\* Both ends forget the encounter.
Parted == /\ link' = "none" /\ held' = FALSE /\ attached' = FALSE /\ live' = FALSE
          /\ tx' = IdleSender /\ wr' = IdleWriter
          /\ pile' = [d \in Directions |-> NoPile]
          /\ said' = [d \in Directions |-> <<>>] /\ received' = [d \in Directions |-> <<>>]

StartScanning == /\ ~scanning /\ scanning' = TRUE
                 /\ UNCHANGED <<os, hookVars, serverVars, link, held, wireVars, upsets>>

\* A counter the scanner hears, not read already.  Whether it reads close, has
\* been brought closer or has been heard for long enough only decides when.
Near == scanning /\ onAir /\ link = "none"

\* observe, then connect.
Connect == /\ Near /\ link' = "connecting"
           /\ UNCHANGED <<os, hookVars, serverVars, held, scanning, wireVars, upsets>>

\* The server answers a subscription with the request it has, if it has one.
Greets ==
  IF broadcast = Silence THEN UNCHANGED <<attached, tx, said>>
  ELSE /\ attached' = TRUE /\ tx' = Enqueued(tx, broadcast)
       /\ said' = [said EXCEPT !["down"] = Append(@, broadcast)]

\* Services found and notifications asked for.
Subscribe ==
  /\ link = "connecting" /\ onAir /\ link' = "open" /\ live' = TRUE /\ Greets
  /\ UNCHANGED <<os, hookVars, broadcast, onAir, held, scanning, wr, pile, received, upsets>>

\* Out of range, no such service, a malformed frame, iOS's ten seconds without a
\* whole request or three minutes of silence.
Disconnect == /\ link # "none" /\ Parted
              /\ UNCHANGED <<os, hookVars, broadcast, onAir, scanning, upsets>>

\* A peer whose payment is on screen survives the scanner.
StopScanning == /\ scanning /\ scanning' = FALSE
                /\ IF link # "none" /\ ~held THEN Parted
                   ELSE UNCHANGED <<link, held, attached, live, wireVars>>
                /\ UNCHANGED <<os, hookVars, broadcast, onAir, upsets>>

\* The request heard is taken into a payment.
Hold == /\ link = "open" /\ received["down"] # <<>> /\ ~held /\ held' = TRUE
        /\ UNCHANGED <<os, hookVars, serverVars, link, scanning, wireVars, upsets>>

CustomerReleases == /\ held /\ Parted
                    /\ UNCHANGED <<os, hookVars, broadcast, onAir, scanning, upsets>>

-----------------------------------------------------------------------------
(* The merchant's broadcast: the hook, and what it calls.                  *)

Start(q) == [op |-> "start", request |-> q, active |-> TRUE, begun |-> FALSE]
Stop == [op |-> "stop", request |-> Silence, active |-> TRUE, begun |-> FALSE]

\* Mutant: what the screen asks for now runs ahead of what is queued.
QueuedAhead(q, more) == more \o q

\* One operation at a time, in the order the screen asked for them.
Queued(q, more) == q \o more

\* The effect's cleanup: its start, queued or running, is no longer wanted.
Deactivated(q) == [i \in DOMAIN q |-> [q[i] EXCEPT !.active = FALSE]]

\* The screen offers another request or none (cancelled, expired, paid, the app
\* gone, Bluetooth off), or the same one again after a failure.
OfferRequest(q) ==
  /\ q # wanted \/ q # Silence
  /\ changes < MaxChanges /\ changes' = changes + 1
  /\ wanted' = q
  /\ ops' = Queued(Deactivated(ops), (IF wanted = Silence THEN <<>> ELSE <<Stop>>)
                                        \o <<IF q = Silence THEN Stop ELSE Start(q)>>)
  /\ UNCHANGED <<os, serverVars, clientVars, wireVars, upsets>>

\* The server is closed or its service replaced: what was queued or half sent
\* goes with it, and the customer is disconnected or left with a link that says
\* nothing, which it may still hold a payment over.
ServerCloses(subscribers) ==
  \/ Parted
  \/ /\ attached' = (attached /\ subscribers) /\ live' = FALSE
     /\ tx' = IdleSender
     /\ pile' = [pile EXCEPT !["up"] = NoPile]
     /\ UNCHANGED <<link, held, wr, said, received>>

\* stopBroadcasting, teardownPeripheral.
NativeStop == broadcast' = Silence /\ onAir' = FALSE /\ ServerCloses(FALSE)

\* What startBroadcast leaves as the request to serve: Android keeps it, then
\* calls stopBroadcasting to close the last server, which forgets it again.
Kept(q) == IF Merchant = "android" THEN Silence ELSE q

\* On iOS, publishService: the last service's subscribers stay on the list.
NativeStart(q) == broadcast' = Kept(q) /\ onAir' = TRUE /\ ServerCloses(Merchant = "ios")

\* A start while the radio is off fails, and on iOS it also waits: while the
\* state is still unknown without failing.  Other failures leave nothing.
Waits(q) == broadcast' = (IF Merchant = "ios" THEN q ELSE broadcast)

NativeWaits(q) == Upset /\ Waits(q) /\ UNCHANGED <<onAir, attached, live, wireVars, link, held>>

\* peripheralManagerDidUpdateState: the radio is on, and what waits is published.
RadioOn == /\ Merchant = "ios" /\ broadcast # Silence /\ ~onAir
           /\ onAir' = TRUE /\ ServerCloses(TRUE)
           /\ UNCHANGED <<os, hookVars, broadcast, scanning, upsets>>

\* One operation at a time; a start looks at its flag before and after.
RunOp ==
  /\ ops # <<>>
  /\ LET o == Head(ops)
     IN  \/ /\ o.op = "stop" /\ NativeStop /\ ops' = Tail(ops) /\ UNCHANGED upsets
         \/ /\ o.op = "start" /\ ~o.begun /\ ~o.active /\ ops' = Tail(ops)
            /\ UNCHANGED <<serverVars, wireVars, link, held, upsets>>
         \/ /\ o.op = "start" /\ ~o.begun /\ o.active
            /\ \/ /\ NativeStart(o.request) /\ ops' = [ops EXCEPT ![1].begun = TRUE]
                  /\ UNCHANGED upsets
               \/ NativeWaits(o.request) /\ ops' = Tail(ops)
               \/ /\ Merchant = "ios" /\ NativeWaits(o.request)
                  /\ ops' = [ops EXCEPT ![1].begun = TRUE]
         \/ /\ o.op = "start" /\ o.begun /\ ops' = Tail(ops)
            /\ IF o.active THEN UNCHANGED <<serverVars, wireVars, link, held>> ELSE NativeStop
            /\ UNCHANGED upsets
  /\ UNCHANGED <<os, wanted, changes, scanning>>

-----------------------------------------------------------------------------
PlNext == \/ RunOp \/ RadioOn \/ \E q \in Broadcasts \union {Silence} : OfferRequest(q)
          \/ PushFrame \/ NotificationArrives
          \/ \E m \in MerchantWords : MerchantSays(m)
          \/ MerchantReleases
          \/ \E m \in CustomerWords : CustomerSays(m)
          \/ WriteArrives \/ WriteFails
          \/ StartScanning \/ StopScanning \/ Connect \/ Subscribe \/ Disconnect
          \/ Hold \/ CustomerReleases

PlSpec == PlInit /\ [][PlNext]_plVars

-----------------------------------------------------------------------------
\* What a phone is told over the radio is whole messages the other phone said,
\* and it is told them in the order they were said, whatever was lost.
Whole(p, m) == p = [i \in 1 .. SizeOf[m] |-> m]

HeardInOrder ==
  \A d \in Directions :
    \E at \in [DOMAIN received[d] -> DOMAIN said[d]] :
      /\ \A i \in DOMAIN received[d] : Whole(received[d][i], said[d][at[i]])
      /\ \A i, j \in DOMAIN received[d] : i < j => at[i] < at[j]

\* "A paid, cancelled or expired request must not still be on the air": once the
\* queue of starts and stops has run, no request but the screen's is served, and
\* the counter is on the air exactly when the screen offers one, unless a start
\* was refused.
ServedIsWanted ==
  ops = <<>> => /\ broadcast \in {wanted, Silence} /\ (onAir => wanted # Silence)
                /\ wanted # Silence /\ upsets = 0 => onAir

\* An answer given over a link that stays, to a service that stays, is heard once
\* nothing of it is on its way.  An Android customer has no such promise: a
\* message said while the last frame of another is being answered loses its own
\* first frame.
AnswersArrive ==
  /\ Customer = "ios" /\ link = "open" /\ live /\ upsets = 0 /\ wr = IdleWriter
  => Len(received["up"]) = Len(said["up"])

-----------------------------------------------------------------------------
\* What the sources say and the code does not keep (README, section 4): no run
\* lists it.
\* "Advertises the request to any customer standing at this counter": a counter
\* on the air has a request to answer a customer with.
OnAirHasRequest == ops = <<>> /\ onAir => broadcast = wanted

=============================================================================
