------------------------ MODULE ReliableTransportProofs ------------------------
(***************************************************************************)
(* Theorems about ReliableTransport for every set of messages, any number  *)
(* of fragments, routes, attempts and seconds.                             *)
(***************************************************************************)
EXTENDS ReliableTransport, TLAPS

Last(e) == e[Len(e)]

\* What a message in flight has told so far is what its record remembers.
LiveStory(m) ==
    /\ events[m] = <<>> <=> ~message[m].started /\ ~message[m].delivered
    /\ message[m].delivered => Last(events[m]) = "Delivered"
    /\ ~message[m].delivered /\ message[m].started => Last(events[m]) = "InTransit"

StoreInv ==
    /\ live \cap finished = {}
    /\ todo \subseteq live
    /\ pass # "send" => todo = {}

StoryInv ==
    /\ \A m \in live : LiveStory(m)
    /\ \A m \in Msg \ (live \cup finished) : events[m] = <<>>

\* What reached the recipient of a message in flight.
ReceiptInv ==
    \A m \in live :
        /\ message[m].delivered => message[m].received = Indices(m)
        /\ m \in Tracked /\ message[m].received # {} => message[m].started
        /\ m \in Local => ~message[m].delivered /\ ~message[m].started

\* A local message sends no packet; a data packet whose transmission was seen has
\* started its message.
PacketInv ==
    \A p \in packets \cup outbound :
        /\ p.msg \in (live \cup finished) \ Local
        /\ p.index \in 0..Frags[p.msg]
        /\ p.onAir /\ ~IsAck(p) /\ p.msg \in live \cap Tracked => message[p.msg].started

IInv == TypeOK /\ StoreInv /\ StoryInv /\ ReceiptInv /\ PacketInv
        /\ AckIsHonest /\ Lifecycle

--------------------------------------------------------------------------------
\* Whatever is sent for a set of fragments of m is packets of m carrying those
\* fragments, none of them on the air yet.
LEMMA TransmissionsLemma ==
    ASSUME NEW m \in Msg, NEW indices \in SUBSET Nat, NEW attempt \in Nat,
           NEW new \in Transmissions(m, indices, attempt), NEW p \in new
    PROVE  /\ p \in Fragment
           /\ p.msg = m
           /\ p.index \in indices
           /\ ~p.onAir
  <1>1. PICK sent \in SUBSET indices, hops \in 1..MaxHops[m] :
            new = {Packet(m, i, attempt, hops) : i \in sent}
    BY RouteAssumption DEF Transmissions
  <1>2. PICK i \in sent : p = Packet(m, i, attempt, hops)
    BY <1>1
  <1>3. i \in Nat /\ hops - 1 \in Nat
    BY RouteAssumption
  <1>. QED  BY <1>2, <1>3 DEF Packet, Fragment

USE DEF clock, store, air, loop

LEMMA BlankType == Blank \in Message
  BY DEF Blank, Message

LEMMA TypeInit == Init => TypeOK
  <1> SUFFICES ASSUME Init PROVE TypeOK
    OBVIOUS
  <1>1. message \in [Msg -> Message]
    BY BlankType DEF Init
  <1>2. events \in [Msg -> Seq(DeliveryState)]
    BY DEF Init
  <1>. QED  BY <1>1, <1>2 DEF Init, TypeOK

LEMMA FinishType ==
    ASSUME TypeOK, NEW m \in Msg, Finish(m)
    PROVE  /\ live' \subseteq Msg /\ finished' \subseteq Msg
           /\ message' \in [Msg -> Message]
  BY BlankType DEF TypeOK, Finish

LEMMA TellType ==
    ASSUME TypeOK, NEW m \in Msg, NEW state \in DeliveryState, Tell(m, state)
    PROVE  events' \in [Msg -> Seq(DeliveryState)]
  BY DEF TypeOK, Tell

LEMMA TypeNext == TypeOK /\ [Next]_vars => TypeOK'
  <1> SUFFICES ASSUME TypeOK, [Next]_vars PROVE TypeOK'
    OBVIOUS
  <1> USE TransportAssumption
  <1>1. ASSUME NEW m \in Msg, NEW expires \in 1..Horizon, SendMessage(m, expires)
        PROVE  TypeOK'
    <2>0. expires \in Nat /\ tick \in Nat
      BY DEF TypeOK
    <2>1. [Blank EXCEPT !.expires = expires, !.nextAttempt = tick] \in Message
      BY <2>0, BlankType DEF Message
    <2>. QED  BY <1>1, <2>1 DEF SendMessage, TypeOK
  <1>2. ASSUME NEW m \in Msg, Cancel(m) PROVE TypeOK'
    BY <1>2, FinishType DEF Cancel, TypeOK, Without
  <1>3. CASE CompleteMission
    BY <1>3 DEF CompleteMission, TypeOK
  <1>4. CASE BeginPass
    <2>1. tick' \in Nat /\ reporting' \in Nat
      BY <1>4 DEF BeginPass, TypeOK
    <2>. QED  BY <1>4, <2>1 DEF BeginPass, TypeOK
  <1>5. ASSUME NEW m \in Msg, GiveUp(m) PROVE TypeOK'
    <2>1. FinalVerdict(m) \in DeliveryState
      BY DEF FinalVerdict, DeliveryState
    <2>. QED  BY <1>5, <2>1, FinishType, TellType DEF GiveUp, Visit, TypeOK
  <1>6. ASSUME NEW m \in Msg, Wait(m) PROVE TypeOK'
    BY <1>6 DEF Wait, Visit, TypeOK
  <1>7. ASSUME NEW m \in Msg, DeliverLocally(m) PROVE TypeOK'
    <2>1. events' \in [Msg -> Seq(DeliveryState)]
      BY <1>7 DEF DeliverLocally, TypeOK, DeliveryState
    <2>. QED  BY <1>7, <2>1, FinishType DEF DeliverLocally, Visit, TypeOK
  <1>8. ASSUME NEW m \in Msg, Attempt(m) PROVE TypeOK'
    <2> DEFINE indices == IF message[m].delivered THEN {0}
                          ELSE Indices(m) \ message[m].received
    <2>1. PICK new \in Transmissions(m, indices, message[m].attempts + 1) :
              packets' = packets \cup new
      BY <1>8 DEF Attempt
    <2>2. indices \subseteq Nat /\ message[m].attempts + 1 \in Nat
      BY DEF TypeOK, Message, Indices
    <2>3. packets' \subseteq Fragment
      BY <2>1, <2>2, TransmissionsLemma DEF TypeOK
    <2>4. radio_tick + RetryTicks \in Nat
      BY DEF TypeOK, radio_tick
    <2>5. message' \in [Msg -> Message]
      <3>1. [message[m] EXCEPT !.attempts = message[m].attempts + 1,
                               !.nextAttempt = radio_tick + RetryTicks] \in Message
        <4>1. message[m] \in Message
          BY DEF TypeOK
        <4>2. PICK old \in Message, more \in Nat, next \in Nat :
                  old = message[m] /\ more = message[m].attempts + 1
                  /\ next = radio_tick + RetryTicks
          BY ONLY <2>2, <2>4, <4>1
        <4>3. [old EXCEPT !.attempts = more, !.nextAttempt = next] \in Message
          BY ONLY <4>2 DEF Message
        <4>. QED  BY ONLY <4>2, <4>3
      <3>2. message \in [Msg -> Message]
        BY DEF TypeOK
      <3>3. message' = [message EXCEPT ![m] =
                           [message[m] EXCEPT !.attempts = message[m].attempts + 1,
                                              !.nextAttempt = radio_tick + RetryTicks]]
        BY <1>8 DEF Attempt
      <3>. QED  BY ONLY <3>1, <3>2, <3>3
    <2>. QED  BY <1>8, <2>3, <2>5 DEF Attempt, Visit, TypeOK
  <1>9. CASE EndSending
    BY <1>9 DEF EndSending, TypeOK
  <1>10. ASSUME NEW p \in packets, TransmissionStarted(p) PROVE TypeOK'
    <2>1. p \in Fragment /\ [p EXCEPT !.onAir = TRUE] \in Fragment
      BY DEF TypeOK, Fragment
    <2>2. CASE UNCHANGED <<message, events>>
      BY <1>10, <2>1, <2>2 DEF TransmissionStarted, Receiving, Replace, TypeOK
    <2>3. CASE /\ message' = [message EXCEPT ![p.msg].started = TRUE]
               /\ Tell(p.msg, "InTransit")
      <3>1. events' \in [Msg -> Seq(DeliveryState)]
        BY <2>1, <2>3, TellType DEF Fragment, DeliveryState
      <3>2. message' \in [Msg -> Message]
        <4>1. PICK m \in Msg : m = p.msg
          BY <2>1 DEF Fragment
        <4>2. message \in [Msg -> Message]
          BY DEF TypeOK
        <4>3. [message[m] EXCEPT !.started = TRUE] \in Message
          BY ONLY <4>1, <4>2 DEF Message
        <4>4. message' = [message EXCEPT ![m] = [message[m] EXCEPT !.started = TRUE]]
          BY ONLY <2>3, <4>1
        <4>. QED  BY ONLY <4>1, <4>2, <4>3, <4>4
      <3>3. packets' \subseteq Fragment
        BY <1>10, <2>1 DEF TransmissionStarted, Replace, TypeOK
      <3>4. UNCHANGED <<tick, reporting, over, pass, todo, live, finished, outbound, retired>>
        BY <1>10 DEF TransmissionStarted, Receiving, clock
      <3>. QED  BY <3>1, <3>2, <3>3, <3>4 DEF TypeOK
    <2>. QED  BY <1>10, <2>2, <2>3 DEF TransmissionStarted
  <1>11. ASSUME NEW p \in packets, PacketLost(p) PROVE TypeOK'
    BY <1>11 DEF PacketLost, Receiving, Replace, TypeOK
  <1>12. ASSUME NEW p \in packets, PacketForwarded(p) PROVE TypeOK'
    <2>0. p \in Fragment /\ p.hop + 1 \in Nat
      BY DEF TypeOK, Fragment
    <2>1. [p EXCEPT !.hop = @ + 1, !.onAir = FALSE] \in Fragment
      BY <2>0 DEF Fragment
    <2>. QED  BY <1>12, <2>1 DEF PacketForwarded, Delivered, Receiving, Replace, TypeOK
  <1>13. ASSUME NEW p \in packets, AckReceived(p) PROVE TypeOK'
    <2>1. p.msg \in Msg
      BY DEF TypeOK, Fragment
    <2>. QED  BY <1>13, <2>1, FinishType, TellType
              DEF AckReceived, Delivered, Receiving, Replace, TypeOK, DeliveryState
  <1>14. ASSUME NEW p \in packets, FragmentReceived(p) PROVE TypeOK'
    <2> DEFINE m        == p.msg
               received == message[m].received \cup {p.index}
               complete == Complete(m, received)
    <2>1. m \in Msg /\ p.index \in Nat
      BY DEF TypeOK, Fragment
    <2>2. message' = [message EXCEPT ![m].received = received,
                                     ![m].delivered = message[m].delivered \/ complete]
      BY <1>14 DEF FragmentReceived
    <2>3. received \subseteq Nat /\ (message[m].delivered \/ complete) \in BOOLEAN
      BY <2>1 DEF TypeOK, Message
    <2>4. message' \in [Msg -> Message]
      <3>1. ASSUME NEW r \in SUBSET Nat, NEW d \in BOOLEAN
            PROVE  [message EXCEPT ![m].received = r, ![m].delivered = d]
                       \in [Msg -> Message]
        <4>1. message \in [Msg -> Message] /\ message[m] \in Message
          BY <2>1 DEF TypeOK
        <4>2. [message[m] EXCEPT !.received = r, !.delivered = d] \in Message
          BY <4>1 DEF Message
        <4>3. [message EXCEPT ![m].received = r, ![m].delivered = d]
                = [message EXCEPT ![m] = [message[m] EXCEPT !.received = r, !.delivered = d]]
          BY <4>1
        <4>. QED  BY <4>1, <4>2, <4>3
      <3> HIDE DEF received, complete
      <3>. QED  BY <2>2, <2>3, <3>1
    <2>5. events' \in [Msg -> Seq(DeliveryState)] /\ outbound' \subseteq Fragment
      <3>1. CASE complete
        <4>1. PICK new \in Transmissions(m, {0}, message[m].attempts) :
                  outbound' = outbound \cup new
          BY <1>14, <3>1 DEF FragmentReceived
        <4>2. message[m].attempts \in Nat
          BY <2>1 DEF TypeOK, Message
        <4>3. outbound' \subseteq Fragment
          BY <2>1, <4>1, <4>2, TransmissionsLemma DEF TypeOK
        <4>. QED  BY <1>14, <2>1, <3>1, <4>3, TellType DEF FragmentReceived, DeliveryState
      <3>2. CASE ~complete
        BY <1>14, <3>2 DEF FragmentReceived, TypeOK
      <3>. QED  BY <3>1, <3>2
    <2>. QED  BY <1>14, <2>4, <2>5 DEF FragmentReceived, Delivered, Receiving, Replace, TypeOK
  <1>15. CASE EndPass
    BY <1>15 DEF EndPass, Kept, TypeOK
  <1>16. CASE UNCHANGED vars
    BY <1>16 DEF vars, TypeOK
  <1>. QED  BY <1>1, <1>2, <1>3, <1>4, <1>5, <1>6, <1>7, <1>8, <1>9, <1>10, <1>11,
               <1>12, <1>13, <1>14, <1>15, <1>16
            DEF Next, Simulate, Advance, Sending, Reporting

\* Every variable keeps its type.
THEOREM TypeCorrect == Spec => []TypeOK
  BY TypeInit, TypeNext, PTL DEF Spec

--------------------------------------------------------------------------------
(* The life story of a message.                                             *)

\* Telling a state that may follow the last one keeps every life story legal.
LEMMA TellLemma ==
    ASSUME TypeOK, Lifecycle, NEW m \in Msg, NEW state \in DeliveryState, Tell(m, state),
           IF events[m] = <<>> THEN state \in Opening
                               ELSE state \in MayFollow(Last(events[m]))
    PROVE  /\ Lifecycle'
           /\ events'[m] # <<>> /\ Last(events'[m]) = state
           /\ \A x \in Msg \ {m} : events'[x] = events[x]
  <1>1. /\ events'[m] = Append(events[m], state)
        /\ \A x \in Msg \ {m} : events'[x] = events[x]
    BY DEF TypeOK, Tell
  <1>2. events[m] \in Seq(DeliveryState)
    BY DEF TypeOK
  <1>3. /\ Len(events'[m]) = Len(events[m]) + 1
        /\ events'[m][Len(events[m]) + 1] = state
        /\ \A i \in 1..Len(events[m]) : events'[m][i] = events[m][i]
        /\ events'[m] # <<>>
    BY <1>1, <1>2
  <1>4. ASSUME NEW x \in Msg, NEW i \in 1..Len(events'[x])
        PROVE  events'[x][i] \in IF i = 1 THEN Opening ELSE MayFollow(events'[x][i - 1])
    <2>1. CASE x # m
      BY <1>1, <2>1 DEF Lifecycle
    <2>2. CASE x = m /\ i \in 1..Len(events[m])
      <3>1. events'[m][i] = events[m][i] /\ (i # 1 => events'[m][i - 1] = events[m][i - 1])
        BY <1>2, <1>3, <2>2
      <3>. QED  BY <2>2, <3>1 DEF Lifecycle
    <2>3. CASE x = m /\ i = Len(events[m]) + 1 /\ events[m] = <<>>
      BY <1>2, <1>3, <2>3
    <2>4. CASE x = m /\ i = Len(events[m]) + 1 /\ events[m] # <<>>
      <3>1. i # 1 /\ i - 1 \in 1..Len(events[m]) /\ i - 1 = Len(events[m])
        BY <1>2, <2>4
      <3>. QED  BY <1>3, <2>4, <3>1 DEF Last
    <2>. QED  BY <1>2, <1>3, <2>1, <2>2, <2>3, <2>4
  <1>5. Lifecycle'
    BY <1>4 DEF Lifecycle
  <1>6. Last(events'[m]) = state
    BY <1>3 DEF Last
  <1>. QED  BY <1>1, <1>3, <1>5, <1>6

--------------------------------------------------------------------------------
(* The inductive invariant.                                                 *)

LEMMA InvInit == Init => IInv
  BY TypeInit DEF Init, IInv, StoreInv, StoryInv, ReceiptInv, PacketInv, AckIsHonest,
                  Lifecycle

\* A step that touches no message, and only loses packets or takes them off the air.
LEMMA QuietStep ==
    ASSUME IInv, TypeOK', UNCHANGED <<live, finished, message, events>>,
           todo' \subseteq live, pass' # "send" => todo' = {},
           \A p \in packets' \cup outbound' : \E q \in packets \cup outbound :
               p.msg = q.msg /\ p.index = q.index /\ (p.onAir => q.onAir)
    PROVE  IInv'
  <1>1. StoreInv' /\ StoryInv' /\ ReceiptInv' /\ Lifecycle'
    BY DEF IInv, StoreInv, StoryInv, ReceiptInv, Lifecycle, LiveStory, Last
  <1>2. PacketInv' /\ AckIsHonest'
    BY DEF IInv, PacketInv, AckIsHonest, IsAck
  <1>. QED  BY <1>1, <1>2 DEF IInv

\* A step that retires m after telling a legal verdict on it.
LEMMA FinishStep ==
    ASSUME IInv, TypeOK', NEW m \in live, Finish(m), Lifecycle',
           \A x \in Msg \ {m} : events'[x] = events[x],
           pass' = pass, todo' \subseteq todo \ {m},
           packets' \subseteq packets, outbound' \subseteq outbound
    PROVE  IInv'
  <1>1. m \in Msg /\ live' = live \ {m} /\ finished' = finished \cup {m}
        /\ \A x \in Msg \ {m} : message'[x] = message[x]
    BY DEF IInv, TypeOK, Finish
  <1>2. StoreInv'
    BY <1>1 DEF IInv, StoreInv
  <1>3. StoryInv' /\ ReceiptInv'
    BY <1>1 DEF IInv, TypeOK, StoryInv, ReceiptInv, LiveStory, Last
  <1>4. PacketInv' /\ AckIsHonest'
    BY <1>1 DEF IInv, TypeOK, Fragment, PacketInv, AckIsHonest, IsAck
  <1>. QED  BY <1>2, <1>3, <1>4 DEF IInv

LEMMA IndicesLemma ==
    ASSUME NEW m \in Msg
    PROVE  Indices(m) # {} /\ Indices(m) \subseteq 0..Frags[m] /\ 0 \notin Indices(m)
  <1>1. Frags[m] \in Nat \ {0}
    BY TransportAssumption
  <1>2. 1 \in Indices(m)
    BY <1>1 DEF Indices
  <1>. QED  BY <1>1, <1>2 DEF Indices

LEMMA SendStep ==
    ASSUME IInv, TypeOK', NEW m \in Msg, NEW expires \in 1..Horizon,
           SendMessage(m, expires)
    PROVE  IInv'
  <1>1. /\ m \notin live \cup finished /\ live' = live \cup {m}
        /\ ~message'[m].started /\ ~message'[m].delivered /\ message'[m].received = {}
        /\ \A x \in Msg \ {m} : message'[x] = message[x]
        /\ events[m] = <<>>
        /\ UNCHANGED <<finished, packets, outbound, events, pass, todo>>
    BY DEF IInv, StoryInv, TypeOK, SendMessage, Known, Blank
  <1>2. StoreInv' /\ Lifecycle'
    BY <1>1 DEF IInv, StoreInv, Lifecycle
  <1>3. StoryInv' /\ ReceiptInv'
    <2>1. Indices(m) # {} /\ LiveStory(m)'
      BY <1>1, IndicesLemma DEF LiveStory
    <2>2. \A x \in live : x \in Msg \ {m}
      BY <1>1 DEF IInv, TypeOK
    <2>. QED  BY <1>1, <2>1, <2>2 DEF IInv, StoryInv, ReceiptInv, LiveStory, Last
  <1>4. PacketInv' /\ AckIsHonest'
    <2>1. \A p \in packets \cup outbound : p.msg \in Msg \ {m}
      BY <1>1 DEF IInv, PacketInv, TypeOK, Fragment
    <2>. QED  BY <1>1, <2>1 DEF IInv, PacketInv, AckIsHonest, IsAck
  <1>. QED  BY <1>2, <1>3, <1>4 DEF IInv

LEMMA GiveUpStep ==
    ASSUME IInv, TypeOK', NEW m \in Msg, GiveUp(m)
    PROVE  IInv'
  <1>1. m \in live /\ LiveStory(m)
    BY DEF GiveUp, Visit, IInv, StoreInv, StoryInv
  <1>2. FinalVerdict(m) \in DeliveryState /\
        IF events[m] = <<>> THEN FinalVerdict(m) \in Opening
                            ELSE FinalVerdict(m) \in MayFollow(Last(events[m]))
    BY <1>1 DEF LiveStory, FinalVerdict, DeliveryState, Opening, MayFollow
  <1>3. Lifecycle' /\ \A x \in Msg \ {m} : events'[x] = events[x]
    BY <1>2, TellLemma DEF GiveUp, IInv
  <1>. QED  BY <1>1, <1>3, FinishStep DEF GiveUp, Visit

LEMMA DeliverLocallyStep ==
    ASSUME IInv, TypeOK', NEW m \in Msg, DeliverLocally(m)
    PROVE  IInv'
  <1>1. m \in live /\ LiveStory(m) /\ ~message[m].delivered
    BY DEF DeliverLocally, Visit, IInv, StoreInv, StoryInv, ReceiptInv
  <1>2. DeliveryState # {} /\ events[m] \in Seq(DeliveryState)
    BY DEF IInv, TypeOK, DeliveryState
  <1>3. /\ events'[m] = Append(Append(events[m], "Delivered"), "Acknowledged")
        /\ \A x \in Msg \ {m} : events'[x] = events[x]
    BY DEF DeliverLocally, IInv, TypeOK
  <1>4. /\ Len(events'[m]) = Len(events[m]) + 2
        /\ \A i \in 1..Len(events[m]) : events'[m][i] = events[m][i]
        /\ events'[m][Len(events[m]) + 1] = "Delivered"
        /\ events'[m][Len(events[m]) + 2] = "Acknowledged"
    BY <1>2, <1>3
  <1>5. ASSUME NEW x \in Msg, NEW i \in 1..Len(events'[x])
        PROVE  events'[x][i] \in IF i = 1 THEN Opening ELSE MayFollow(events'[x][i - 1])
    <2>1. CASE x # m
      BY <1>3, <2>1 DEF Lifecycle, IInv
    <2>2. CASE x = m /\ i \in 1..Len(events[m])
      <3>1. events'[m][i] = events[m][i] /\ (i # 1 => events'[m][i - 1] = events[m][i - 1])
        BY <1>2, <1>4, <2>2
      <3>. QED  BY <2>2, <3>1 DEF Lifecycle, IInv
    <2>3. CASE x = m /\ i = Len(events[m]) + 1 /\ events[m] = <<>>
      BY <1>2, <1>4, <2>3 DEF Opening
    <2>4. CASE x = m /\ i = Len(events[m]) + 1 /\ events[m] # <<>>
      <3>1. Len(events[m]) >= 1 /\ events'[m][i - 1] = "InTransit"
        BY <1>1, <1>2, <1>4, <2>4 DEF LiveStory, Last
      <3>. QED  BY <1>2, <1>4, <2>4, <3>1 DEF MayFollow
    <2>5. CASE x = m /\ i = Len(events[m]) + 2
      <3>1. i # 1 /\ events'[m][i - 1] = "Delivered" /\ events'[m][i] = "Acknowledged"
        BY <1>2, <1>4, <2>5
      <3>. QED  BY <2>5, <3>1 DEF MayFollow
    <2>. QED  BY <1>2, <1>4, <2>1, <2>2, <2>3, <2>4, <2>5
  <1>6. Lifecycle'
    BY <1>5 DEF Lifecycle
  <1>. QED  BY <1>1, <1>3, <1>6, FinishStep DEF DeliverLocally, Visit

LEMMA AttemptStep ==
    ASSUME IInv, TypeOK', NEW m \in Msg, Attempt(m)
    PROVE  IInv'
  <1> USE TransportAssumption
  <1> DEFINE indices == IF message[m].delivered THEN {0}
                        ELSE Indices(m) \ message[m].received
  <1>1. PICK new \in Transmissions(m, indices, message[m].attempts + 1) :
            packets' = packets \cup new
    BY DEF Attempt
  <1>2. /\ m \in live \ Local
        /\ indices \subseteq Nat /\ indices \subseteq 0..Frags[m]
        /\ 0 \in indices => message[m].delivered
        /\ message[m].attempts + 1 \in Nat
    <2>1. m \in live \ Local /\ message[m].attempts \in Nat
      BY DEF Attempt, Visit, IInv, TypeOK, Message, StoreInv
    <2>2. Frags[m] \in Nat /\ Indices(m) \subseteq 0..Frags[m] /\ 0 \notin Indices(m)
      BY IndicesLemma
    <2>3. CASE message[m].delivered
      BY <2>1, <2>2, <2>3
    <2>4. CASE ~message[m].delivered
      BY <2>1, <2>2, <2>4
    <2>. QED  BY <2>3, <2>4
  <1>3. \A p \in new : p.msg = m /\ p.index \in indices /\ ~p.onAir
    BY <1>1, <1>2, TransmissionsLemma
  <1>4. /\ UNCHANGED <<live, finished, events, outbound, pass>> /\ todo' = todo \ {m}
        /\ \A x \in Msg : /\ message'[x].received = message[x].received
                          /\ message'[x].delivered = message[x].delivered
                          /\ message'[x].started = message[x].started
    <2>1. ASSUME NEW x \in Msg
          PROVE  /\ message'[x].received = message[x].received
                 /\ message'[x].delivered = message[x].delivered
                 /\ message'[x].started = message[x].started
      <3>1. message[x] \in Message /\ message \in [Msg -> Message]
        BY DEF IInv, TypeOK
      <3>2. CASE x = m
        BY <3>1, <3>2 DEF Attempt, Message
      <3>3. CASE x # m
        BY <3>1, <3>3 DEF Attempt
      <3>. QED  BY <3>2, <3>3
    <2>. QED  BY <2>1 DEF Attempt, Visit
  <1>5. StoreInv' /\ Lifecycle'
    BY <1>4 DEF IInv, StoreInv, Lifecycle, Attempt, Visit
  <1>6. StoryInv' /\ ReceiptInv'
    BY <1>4 DEF IInv, TypeOK, StoryInv, ReceiptInv, LiveStory, Last
  <1>7. PacketInv' /\ AckIsHonest'
    <2>1. ASSUME NEW p \in packets \cup outbound
          PROVE  /\ p.msg \in (live \cup finished) \ Local /\ p.index \in 0..Frags[p.msg]
                 /\ p.onAir /\ ~IsAck(p) /\ p.msg \in live \cap Tracked
                       => message'[p.msg].started
                 /\ IsAck(p) /\ p.msg \in live
                       => message'[p.msg].delivered
                          /\ message'[p.msg].received = Indices(p.msg)
      BY <1>4 DEF IInv, PacketInv, AckIsHonest, IsAck, TypeOK
    <2>2. ASSUME NEW p \in new
          PROVE  /\ p.msg \in (live \cup finished) \ Local /\ p.index \in 0..Frags[p.msg]
                 /\ ~p.onAir
                 /\ IsAck(p) => message'[p.msg].delivered
                                /\ message'[p.msg].received = Indices(p.msg)
      BY <1>2, <1>3, <1>4 DEF IInv, ReceiptInv, IsAck
    <2>. QED  BY <1>1, <1>4, <2>1, <2>2 DEF PacketInv, AckIsHonest, IsAck
  <1>. QED  BY <1>5, <1>6, <1>7 DEF IInv

LEMMA StartedStep ==
    ASSUME IInv, TypeOK', NEW p \in packets, TransmissionStarted(p)
    PROVE  IInv'
  <1> DEFINE m     == p.msg
             tells == m \in live \cap Tracked /\ ~IsAck(p) /\ ~message[m].started
  <1>1. p \in Fragment /\ m \in Msg /\ message \in [Msg -> Message]
    BY DEF IInv, TypeOK, Fragment
  <1>2. [p EXCEPT !.onAir = TRUE].msg = p.msg /\ [p EXCEPT !.onAir = TRUE].index = p.index
    BY <1>1 DEF Fragment
  <1>3. /\ UNCHANGED <<live, finished, outbound, pass, todo>>
        /\ packets' = (packets \ {p}) \cup {[p EXCEPT !.onAir = TRUE]}
    BY DEF TransmissionStarted, Receiving, Replace
  <1>4. /\ \A x \in Msg : /\ message'[x].received = message[x].received
                          /\ message'[x].delivered = message[x].delivered
                          /\ message[x].started => message'[x].started
        /\ \A x \in Msg \ {m} : message'[x] = message[x]
        /\ m \in live \cap Tracked /\ ~IsAck(p) => message'[m].started
        /\ ~tells => UNCHANGED <<message, events>>
    <2>1. CASE tells
      <3>1. message' = [message EXCEPT ![m].started = TRUE]
        BY <2>1 DEF TransmissionStarted
      <3>. QED  BY <1>1, <2>1, <3>1 DEF Message
    <2>2. CASE ~tells
      BY <2>2 DEF TransmissionStarted
    <2>. QED  BY <2>1, <2>2
  <1>5. Lifecycle' /\ StoryInv'
    <2>1. CASE tells
      <3>1. ~message[m].delivered
        BY <1>1, <2>1, IndicesLemma DEF IInv, ReceiptInv
      <3>2. events[m] = <<>>
        BY <2>1, <3>1 DEF IInv, StoryInv, LiveStory
      <3>3. Tell(m, "InTransit") /\ message'[m].started
        BY <1>4, <2>1 DEF TransmissionStarted
      <3>4. /\ Lifecycle' /\ events'[m] # <<>> /\ Last(events'[m]) = "InTransit"
            /\ \A x \in Msg \ {m} : events'[x] = events[x]
        BY <1>1, <3>2, <3>3, TellLemma DEF IInv, Opening, DeliveryState
      <3>5. LiveStory(m)'
        BY <1>1, <1>4, <3>1, <3>3, <3>4 DEF LiveStory, Last
      <3>6. \A x \in Msg \ {m} : LiveStory(x) => LiveStory(x)'
        BY <1>4, <3>4 DEF LiveStory, Last
      <3>. QED  BY <1>3, <2>1, <3>4, <3>5, <3>6 DEF IInv, StoryInv, TypeOK
    <2>2. CASE ~tells
      BY <1>3, <1>4, <2>2 DEF IInv, StoryInv, Lifecycle, LiveStory, Last
    <2>. QED  BY <2>1, <2>2
  <1>6. StoreInv' /\ ReceiptInv'
    <2>1. \A x \in Local : x \in Msg => message'[x] = message[x]
      BY <1>4 DEF IInv, PacketInv
    <2>. QED  BY <1>3, <1>4, <2>1 DEF IInv, StoreInv, ReceiptInv, TypeOK
  <1>7. PacketInv' /\ AckIsHonest'
    <2>1. ASSUME NEW q \in packets \cup outbound
          PROVE  /\ q.msg \in (live \cup finished) \ Local /\ q.index \in 0..Frags[q.msg]
                 /\ q.onAir /\ ~IsAck(q) /\ q.msg \in live \cap Tracked
                       => message'[q.msg].started
                 /\ IsAck(q) /\ q.msg \in live
                       => message'[q.msg].delivered
                          /\ message'[q.msg].received = Indices(q.msg)
      <3>1. q.msg \in Msg
        BY DEF IInv, TypeOK, Fragment
      <3>. QED  BY <1>4, <3>1 DEF IInv, PacketInv, AckIsHonest, IsAck
    <2>2. ASSUME NEW q \in packets' \cup outbound', q \notin packets \cup outbound
          PROVE  /\ q.msg = p.msg /\ q.index = p.index
      BY <1>2, <1>3, <2>2
    <2>. QED  BY <1>3, <1>4, <2>1, <2>2 DEF PacketInv, AckIsHonest, IsAck
  <1>. QED  BY <1>5, <1>6, <1>7 DEF IInv

LEMMA AckStep ==
    ASSUME IInv, TypeOK', NEW p \in packets, AckReceived(p)
    PROVE  IInv'
  <1>1. p.msg \in live /\ p.msg \in Msg /\ LiveStory(p.msg) /\ message[p.msg].delivered
    BY DEF AckReceived, Delivered, IInv, StoryInv, AckIsHonest, TypeOK, Fragment
  <1>2. Lifecycle' /\ \A x \in Msg \ {p.msg} : events'[x] = events[x]
    <2>1. events[p.msg] # <<>> /\ "Acknowledged" \in MayFollow(Last(events[p.msg]))
      BY <1>1 DEF LiveStory, MayFollow
    <2>. QED  BY <1>1, <2>1, TellLemma DEF AckReceived, IInv, DeliveryState
  <1>3. todo = {} /\ UNCHANGED <<pass, todo, outbound>> /\ packets' \subseteq packets
    BY DEF AckReceived, Delivered, Receiving, Replace, IInv, StoreInv
  <1>. QED  BY <1>1, <1>2, <1>3, FinishStep DEF AckReceived

LEMMA FragmentStep ==
    ASSUME IInv, TypeOK', NEW p \in packets, FragmentReceived(p)
    PROVE  IInv'
  <1> USE TransportAssumption
  <1> DEFINE m        == p.msg
             received == message[m].received \cup {p.index}
             complete == Complete(m, received)
  <1>1. /\ p \in Fragment /\ m \in live /\ m \in Msg /\ m \notin Local
        /\ message[m] \in Message /\ p.index \in Indices(m)
        /\ m \in Tracked => message[m].started
    <2>1. p \in Fragment /\ m \in live /\ m \in Msg /\ p.onAir /\ ~IsAck(p)
      BY DEF FragmentReceived, Delivered, IInv, TypeOK, Fragment
    <2>2. p.index \in 0..Frags[m] /\ p.index # 0 /\ Frags[m] \in Nat
      BY <2>1 DEF IInv, PacketInv, IsAck
    <2>. QED  BY <2>1, <2>2 DEF IInv, TypeOK, PacketInv, Indices
  <1>2. /\ message'[m].received = received
        /\ message'[m].delivered = (message[m].delivered \/ complete)
        /\ message'[m].started = message[m].started
        /\ \A x \in Msg \ {m} : message'[x] = message[x]
    <2>1. message' = [message EXCEPT ![m].received = received,
                                     ![m].delivered = message[m].delivered \/ complete]
      BY DEF FragmentReceived
    <2> HIDE DEF received, complete
    <2>2. message \in [Msg -> Message]
      BY DEF IInv, TypeOK
    <2>. QED  BY <1>1, <2>1, <2>2 DEF Message
  <1>3. /\ UNCHANGED <<live, finished, pass, todo>> /\ packets' \subseteq packets
    BY DEF FragmentReceived, Delivered, Receiving, Replace
  <1>4. message[m].delivered => received = Indices(m) /\ ~complete
    BY <1>1 DEF IInv, ReceiptInv, Complete
  <1>5. complete => received = Indices(m) /\ ~message[m].delivered
    BY DEF Complete
  <1>6. Lifecycle' /\ StoryInv'
    <2>1. CASE complete
      <3>1. Tell(m, "Delivered") /\ ~message[m].delivered /\ LiveStory(m)
        BY <1>1, <1>5, <2>1 DEF FragmentReceived, IInv, StoryInv
      <3>2. IF events[m] = <<>> THEN "Delivered" \in Opening
                                ELSE "Delivered" \in MayFollow(Last(events[m]))
        BY <3>1 DEF LiveStory, Opening, MayFollow
      <3>3. /\ Lifecycle' /\ events'[m] # <<>> /\ Last(events'[m]) = "Delivered"
            /\ \A x \in Msg \ {m} : events'[x] = events[x]
        BY <1>1, <3>1, <3>2, TellLemma DEF IInv, DeliveryState
      <3>4. LiveStory(m)'
        BY <1>2, <2>1, <3>3 DEF LiveStory, Last
      <3>5. \A x \in Msg \ {m} : LiveStory(x) => LiveStory(x)'
        BY <1>2, <3>3 DEF LiveStory, Last
      <3>. QED  BY <1>1, <1>3, <3>3, <3>4, <3>5 DEF IInv, StoryInv, TypeOK
    <2>2. CASE ~complete
      <3>1. events' = events
        BY <2>2 DEF FragmentReceived
      <3>2. message'[m].delivered = message[m].delivered
        BY <1>1, <1>2, <2>2 DEF Message
      <3>3. \A x \in Msg : LiveStory(x) => LiveStory(x)'
        BY <1>2, <3>1, <3>2 DEF LiveStory, Last
      <3>. QED  BY <1>3, <3>1, <3>3 DEF IInv, StoryInv, Lifecycle, TypeOK
    <2>. QED  BY <2>1, <2>2
  <1>7. StoreInv'
    BY <1>3 DEF IInv, StoreInv
  <1>8. ReceiptInv'
    <2>1. \A x \in live \ {m} : x \in Msg \ {m}
      BY DEF IInv, TypeOK
    <2>2. message'[m].delivered => message'[m].received = Indices(m)
      BY <1>2, <1>4, <1>5
    <2>3. \A x \in live \ {m} : message'[x] = message[x]
      BY <1>2, <2>1
    <2> HIDE DEF received, complete
    <2>. QED  BY <1>1, <1>2, <1>3, <2>2, <2>3 DEF IInv, ReceiptInv
  <1>9. PacketInv' /\ AckIsHonest'
    <2>1. ASSUME NEW q \in packets \cup outbound
          PROVE  /\ q.msg \in (live \cup finished) \ Local /\ q.index \in 0..Frags[q.msg]
                 /\ q.onAir /\ ~IsAck(q) /\ q.msg \in live \cap Tracked
                       => message'[q.msg].started
                 /\ IsAck(q) /\ q.msg \in live
                       => message'[q.msg].delivered
                          /\ message'[q.msg].received = Indices(q.msg)
      <3>1. q.msg \in Msg
        BY DEF IInv, TypeOK, Fragment
      <3>2. CASE q.msg = m
        BY <1>2, <1>4, <3>2 DEF IInv, PacketInv, AckIsHonest, IsAck
      <3>3. CASE q.msg # m
        BY <1>2, <3>1, <3>3 DEF IInv, PacketInv, AckIsHonest, IsAck
      <3>. QED  BY <3>2, <3>3
    <2>2. ASSUME NEW q \in outbound', q \notin outbound
          PROVE  /\ q.msg = m /\ q.index = 0 /\ ~q.onAir
                 /\ message'[m].delivered /\ message'[m].received = Indices(m)
      <3>1. complete
        BY <2>2 DEF FragmentReceived
      <3>2. PICK new \in Transmissions(m, {0}, message[m].attempts) :
                outbound' = outbound \cup new
        BY <3>1 DEF FragmentReceived
      <3>3. message[m].attempts \in Nat /\ {0} \subseteq Nat /\ q \in new
        BY <1>1, <2>2, <3>2 DEF Message
      <3>4. q.msg = m /\ q.index \in {0} /\ ~q.onAir
        BY <1>1, <3>2, <3>3, TransmissionsLemma
      <3>. QED  BY <1>2, <1>5, <3>1, <3>4
    <2>3. Frags[m] \in Nat
      BY <1>1
    <2>. QED  BY <1>1, <1>3, <2>1, <2>2, <2>3 DEF PacketInv, AckIsHonest, IsAck
  <1>. QED  BY <1>6, <1>7, <1>8, <1>9 DEF IInv

LEMMA InvNext == IInv /\ [Next]_vars => IInv'
  <1> SUFFICES ASSUME IInv, [Next]_vars PROVE IInv'
    OBVIOUS
  <1>0. TypeOK'
    BY TypeNext DEF IInv
  <1>1. ASSUME NEW m \in Msg, NEW expires \in 1..Horizon, SendMessage(m, expires)
        PROVE  IInv'
    BY <1>0, <1>1, SendStep
  <1>2. ASSUME NEW m \in Msg, Cancel(m) PROVE IInv'
    <2>1. todo = {} /\ packets' \subseteq packets /\ Lifecycle'
      BY <1>2 DEF Cancel, Without, IInv, StoreInv, Lifecycle
    <2>. QED  BY <1>0, <1>2, <2>1, FinishStep DEF Cancel
  <1>3. CASE CompleteMission
    BY <1>0, <1>3, QuietStep DEF CompleteMission, IInv, StoreInv
  <1>4. CASE BeginPass
    BY <1>0, <1>4, QuietStep DEF BeginPass, IInv, StoreInv
  <1>5. ASSUME NEW m \in Msg, GiveUp(m) PROVE IInv'
    BY <1>0, <1>5, GiveUpStep
  <1>6. ASSUME NEW m \in Msg, Wait(m) PROVE IInv'
    BY <1>0, <1>6, QuietStep DEF Wait, Visit, IInv, StoreInv
  <1>7. ASSUME NEW m \in Msg, DeliverLocally(m) PROVE IInv'
    BY <1>0, <1>7, DeliverLocallyStep
  <1>8. ASSUME NEW m \in Msg, Attempt(m) PROVE IInv'
    BY <1>0, <1>8, AttemptStep
  <1>9. CASE EndSending
    BY <1>0, <1>9, QuietStep DEF EndSending, IInv, StoreInv
  <1>10. ASSUME NEW p \in packets, TransmissionStarted(p) PROVE IInv'
    BY <1>0, <1>10, StartedStep
  <1>11. ASSUME NEW p \in packets, PacketLost(p) PROVE IInv'
    <2>1. packets' \cup outbound' \subseteq packets \cup outbound
      BY <1>11 DEF PacketLost, Replace
    <2>. QED  BY <1>0, <1>11, <2>1, QuietStep DEF PacketLost, Receiving, IInv, StoreInv
  <1>12. ASSUME NEW p \in packets, PacketForwarded(p) PROVE IInv'
    <2> DEFINE f == [p EXCEPT !.hop = @ + 1, !.onAir = FALSE]
    <2>1. p \in Fragment
      BY DEF IInv, TypeOK
    <2>2. f.msg = p.msg /\ f.index = p.index /\ ~f.onAir
      BY <2>1 DEF Fragment
    <2>3. /\ packets' \subseteq packets /\ outbound' \subseteq outbound \cup {f}
          /\ UNCHANGED <<live, finished, message, events, pass, todo>>
      BY <1>12 DEF PacketForwarded, Delivered, Receiving, Replace
    <2>. QED  BY <1>0, <2>2, <2>3, QuietStep DEF IInv, StoreInv
  <1>13. ASSUME NEW p \in packets, AckReceived(p) PROVE IInv'
    BY <1>0, <1>13, AckStep
  <1>14. ASSUME NEW p \in packets, FragmentReceived(p) PROVE IInv'
    BY <1>0, <1>14, FragmentStep
  <1>15. CASE EndPass
    <2>1. packets' \cup outbound' \subseteq packets \cup outbound
      BY <1>15 DEF EndPass, Kept
    <2>. QED  BY <1>0, <1>15, <2>1, QuietStep DEF EndPass, IInv, StoreInv
  <1>16. CASE UNCHANGED vars
    BY <1>0, <1>16, QuietStep DEF vars, IInv, StoreInv
  <1>. QED  BY <1>1, <1>2, <1>3, <1>4, <1>5, <1>6, <1>7, <1>8, <1>9, <1>10, <1>11,
               <1>12, <1>13, <1>14, <1>15, <1>16
            DEF Next, Simulate, Advance, Sending, Reporting

LEMMA Invariance == Spec => []IInv
  BY InvInit, InvNext, PTL DEF Spec

\* Every message tells a legal life story, whatever the network does.
THEOREM LifecycleHolds == Spec => []Lifecycle
  <1>1. IInv => Lifecycle
    BY DEF IInv
  <1>. QED  BY <1>1, Invariance, PTL

\* Only a message its recipient has whole is ever acknowledged.
THEOREM AckIsHonestHolds == Spec => []AckIsHonest
  <1>1. IInv => AckIsHonest
    BY DEF IInv
  <1>. QED  BY <1>1, Invariance, PTL

\* Nothing happens to a finished message any more.
THEOREM FinishedForeverHolds == Spec => FinishedForever
  <1> DEFINE Frozen == \A m \in finished : m \in finished' /\ events'[m] = events[m]
  <1>1. ASSUME IInv, [Next]_vars PROVE [Frozen]_vars
    <2> SUFFICES ASSUME Next, NEW m \in finished PROVE m \in finished' /\ events'[m] = events[m]
      BY <1>1
    <2>1. m \in Msg /\ events \in [Msg -> Seq(DeliveryState)] /\ m \notin live /\ m \notin todo
      BY <1>1 DEF IInv, TypeOK, StoreInv
    <2>2. ASSUME NEW x \in Msg, GiveUp(x) \/ Wait(x) \/ DeliverLocally(x) \/ Attempt(x)
          PROVE  m \in finished' /\ events'[m] = events[m]
      <3>1. x # m
        BY <2>1, <2>2 DEF GiveUp, Wait, DeliverLocally, Attempt, Visit
      <3>. QED  BY <2>1, <2>2, <3>1 DEF GiveUp, Wait, DeliverLocally, Attempt, Tell, Finish
    <2>3. ASSUME NEW p \in packets,
                 TransmissionStarted(p) \/ PacketLost(p) \/ PacketForwarded(p)
                 \/ AckReceived(p) \/ FragmentReceived(p)
          PROVE  m \in finished' /\ events'[m] = events[m]
      <3>1. CASE TransmissionStarted(p)
        BY <2>1, <3>1 DEF TransmissionStarted, Tell
      <3>2. CASE PacketLost(p) \/ PacketForwarded(p)
        BY <3>2 DEF PacketLost, PacketForwarded
      <3>3. CASE AckReceived(p)
        BY <2>1, <3>3 DEF AckReceived, Delivered, Tell, Finish
      <3>4. CASE FragmentReceived(p)
        BY <2>1, <3>4 DEF FragmentReceived, Delivered, Tell
      <3>. QED  BY <2>3, <3>1, <3>2, <3>3, <3>4
    <2>4. CASE \E x \in Msg, expires \in 1..Horizon : SendMessage(x, expires)
      BY <2>4 DEF SendMessage
    <2>5. CASE \E x \in Msg : Cancel(x)
      BY <2>5 DEF Cancel, Finish
    <2>6. CASE CompleteMission \/ BeginPass \/ EndSending \/ EndPass
      BY <2>6 DEF CompleteMission, BeginPass, EndSending, EndPass
    <2>. QED  BY <2>2, <2>3, <2>4, <2>5, <2>6 DEF Next, Simulate, Advance, Sending, Reporting
  <1>. QED  BY <1>1, Invariance, PTL DEF Spec, FinishedForever

--------------------------------------------------------------------------------
(* The contract.  Every step of the transport changes what at most one message's  *)
(* sender was told, as MessageDelivery allows, or nothing.                        *)

\* What a live message has told is how far it came.
LEMMA LiveVerdict ==
    ASSUME IInv, NEW m \in live
    PROVE  /\ m \in Msg
           /\ Verdict(m) = IF message[m].delivered THEN "Delivered"
                           ELSE IF message[m].started THEN "InTransit" ELSE "Queued"
  <1>1. m \in Msg /\ LiveStory(m)
    BY DEF IInv, TypeOK, StoryInv
  <1>. QED  BY <1>1 DEF LiveStory, Verdict, Last

\* The verdict of a message depends on its own story and whereabouts only.
LEMMA SameVerdict ==
    ASSUME NEW m, events'[m] = events[m],
           m \in live' <=> m \in live, m \in finished' <=> m \in finished
    PROVE  Verdict(m)' = Verdict(m)
  BY DEF Verdict

\* A step that changes the verdict of m alone.
LEMMA OneChanges ==
    ASSUME NEW m \in Msg, NEW from, NEW to,
           \A x \in Msg \ {m} : Verdict(x)' = Verdict(x),
           Verdict(m) \in from, Verdict(m)' = to
    PROVE  Contract!Becomes(m, from, to)
  <1>1. Verdicts[m] \in from
    BY DEF Verdicts
  <1>2. Verdicts' = [Verdicts EXCEPT ![m] = to]
    BY DEF Verdicts
  <1>. QED  BY <1>1, <1>2 DEF Contract!Becomes

LEMMA NoneChanges ==
    ASSUME UNCHANGED <<live, finished, events>>
    PROVE  UNCHANGED Verdicts
  BY SameVerdict DEF Verdicts

\* The verdicts of the other messages, when m is finished.
LEMMA OthersKeep ==
    ASSUME NEW m \in Msg, Finish(m), \A x \in Msg \ {m} : events'[x] = events[x]
    PROVE  \A x \in Msg \ {m} : Verdict(x)' = Verdict(x)
  BY SameVerdict DEF Finish

LEMMA SendAccepts ==
    ASSUME IInv, NEW m \in Msg, NEW expires \in 1..Horizon, SendMessage(m, expires)
    PROVE  Contract!Accept(m)
  <1>1. /\ m \notin live \cup finished /\ live' = live \cup {m}
        /\ events[m] = <<>> /\ UNCHANGED <<finished, events>>
    BY DEF SendMessage, Known, IInv, StoryInv
  <1>2. \A x \in Msg \ {m} : Verdict(x)' = Verdict(x)
    BY <1>1, SameVerdict
  <1>3. Verdict(m) = "Unsent" /\ Verdict(m)' = "Queued"
    BY <1>1 DEF Verdict
  <1>. QED  BY <1>2, <1>3, OneChanges DEF Contract!Accept

LEMMA CancelCancels ==
    ASSUME IInv, NEW m \in Msg, Cancel(m)
    PROVE  Contract!Cancel(m)
  <1>1. m \in live /\ Finish(m) /\ UNCHANGED events
    BY DEF Cancel
  <1>2. Verdict(m) \in {"Queued", "InTransit", "Delivered"}
    BY <1>1, LiveVerdict
  <1>3. Verdict(m)' = "Cancelled"
    BY <1>1, <1>2 DEF Verdict, Finish
  <1>4. Contract!Becomes(m, {"Queued", "InTransit", "Delivered"}, "Cancelled")
    BY <1>1, <1>2, <1>3, OthersKeep, OneChanges
  <1>. QED  BY <1>4 DEF Contract!Cancel, Contract!Becomes, Contract!Open

\* A verdict told with the last word on a message.
LEMMA LastWord ==
    ASSUME IInv, NEW m \in live, Finish(m),
           NEW word \in {"Expired", "Dropped", "Unacknowledged", "Acknowledged"},
           events'[m] # <<>>, Last(events'[m]) = word,
           \A x \in Msg \ {m} : events'[x] = events[x],
           NEW from, Verdict(m) \in from
    PROVE  Contract!Becomes(m, from, word)
  <1>1. m \in Msg
    BY DEF IInv, TypeOK
  <1>2. Verdict(m)' = word
    BY DEF Verdict, Last, Finish
  <1>. QED  BY <1>1, <1>2, OthersKeep, OneChanges

LEMMA GiveUpSettles ==
    ASSUME IInv, NEW m \in Msg, GiveUp(m)
    PROVE  Contract!Lose(m) \/ Contract!Doubt(m)
  <1>1. m \in live /\ LiveStory(m) /\ Finish(m) /\ Tell(m, FinalVerdict(m))
    BY DEF GiveUp, Visit, IInv, StoreInv, StoryInv
  <1>2. FinalVerdict(m) \in DeliveryState /\
        IF events[m] = <<>> THEN FinalVerdict(m) \in Opening
                            ELSE FinalVerdict(m) \in MayFollow(Last(events[m]))
    BY <1>1 DEF LiveStory, FinalVerdict, DeliveryState, Opening, MayFollow
  <1>3. /\ events'[m] # <<>> /\ Last(events'[m]) = FinalVerdict(m)
        /\ \A x \in Msg \ {m} : events'[x] = events[x]
    BY <1>1, <1>2, TellLemma DEF IInv
  <1>4. CASE message[m].delivered
    <2>1. FinalVerdict(m) = "Unacknowledged" /\ Verdict(m) \in {"Delivered"}
      BY <1>1, <1>4, LiveVerdict DEF FinalVerdict
    <2>2. Contract!Becomes(m, {"Delivered"}, "Unacknowledged")
      BY <1>1, <1>3, <2>1, LastWord
    <2>. QED  BY <2>2 DEF Contract!Doubt
  <1>5. CASE ~message[m].delivered
    <2>1. FinalVerdict(m) \in {"Expired", "Dropped"} /\ Verdict(m) \in Contract!Open
      BY <1>1, <1>5, LiveVerdict DEF FinalVerdict, Contract!Open
    <2>2. Contract!Becomes(m, Contract!Open, FinalVerdict(m))
      BY <1>1, <1>3, <2>1, LastWord
    <2>. QED  BY <2>1, <2>2 DEF Contract!Lose
  <1>. QED  BY <1>4, <1>5

LEMMA LocalDelivers ==
    ASSUME IInv, NEW m \in Msg, DeliverLocally(m)
    PROVE  Contract!DeliverLocally(m)
  <1>1. m \in live /\ m \in Local /\ Finish(m)
    BY DEF DeliverLocally, Visit, IInv, StoreInv
  <1>2. Verdict(m) \in {"Queued"}
    BY <1>1, LiveVerdict DEF IInv, ReceiptInv
  <1>3. events[m] \in Seq(DeliveryState)
    BY DEF IInv, TypeOK
  <1>4. /\ events'[m] = Append(Append(events[m], "Delivered"), "Acknowledged")
        /\ \A x \in Msg \ {m} : events'[x] = events[x]
    BY DEF DeliverLocally, IInv, TypeOK
  <1>5. events'[m] # <<>> /\ Last(events'[m]) = "Acknowledged"
    <2>1. "Delivered" \in DeliveryState /\ "Acknowledged" \in DeliveryState
      BY DEF DeliveryState
    <2>. QED  BY <1>3, <1>4, <2>1 DEF Last
  <1>6. Contract!Becomes(m, {"Queued"}, "Acknowledged")
    BY <1>1, <1>2, <1>4, <1>5, LastWord
  <1>. QED  BY <1>6 DEF Contract!DeliverLocally

LEMMA AckAcknowledges ==
    ASSUME IInv, NEW p \in packets, AckReceived(p)
    PROVE  p.msg \in Msg /\ Contract!Acknowledge(p.msg)
  <1>1. /\ p.msg \in live /\ p.msg \in Msg /\ LiveStory(p.msg) /\ message[p.msg].delivered
        /\ Finish(p.msg) /\ Tell(p.msg, "Acknowledged")
    BY DEF AckReceived, Delivered, IInv, StoryInv, AckIsHonest, TypeOK, Fragment
  <1>2. events[p.msg] # <<>> /\ "Acknowledged" \in MayFollow(Last(events[p.msg]))
    BY <1>1 DEF LiveStory, MayFollow
  <1>3. /\ events'[p.msg] # <<>> /\ Last(events'[p.msg]) = "Acknowledged"
        /\ \A x \in Msg \ {p.msg} : events'[x] = events[x]
    BY <1>1, <1>2, TellLemma DEF IInv, DeliveryState
  <1>4. Verdict(p.msg) \in {"Delivered"}
    BY <1>1, LiveVerdict
  <1>5. Contract!Becomes(p.msg, {"Delivered"}, "Acknowledged")
    BY <1>1, <1>3, <1>4, LastWord
  <1>. QED  BY <1>1, <1>5 DEF Contract!Acknowledge

\* A step that only tells something of a live message.
LEMMA LiveTelling ==
    ASSUME IInv, NEW m \in live, NEW word \in {"InTransit", "Delivered"}, Tell(m, word),
           UNCHANGED <<live, finished>>, ~message[m].delivered,
           word = "InTransit" => ~message[m].started
    PROVE  /\ Verdict(m) \in Contract!Open
           /\ word = "InTransit" => Verdict(m) \in {"Queued"}
           /\ \A from : Verdict(m) \in from => Contract!Becomes(m, from, word)
  <1>1. m \in Msg /\ LiveStory(m)
    BY DEF IInv, TypeOK, StoryInv
  <1>2. word \in DeliveryState /\ IF events[m] = <<>> THEN word \in Opening
                                  ELSE word \in MayFollow(Last(events[m]))
    BY <1>1 DEF LiveStory, Opening, MayFollow, DeliveryState
  <1>3. /\ events'[m] # <<>> /\ Last(events'[m]) = word
        /\ \A x \in Msg \ {m} : events'[x] = events[x]
    BY <1>1, <1>2, TellLemma DEF IInv
  <1>4. /\ Verdict(m) \in Contract!Open
        /\ word = "InTransit" => Verdict(m) \in {"Queued"}
    BY LiveVerdict DEF Contract!Open
  <1>5. Verdict(m)' = word /\ \A x \in Msg \ {m} : Verdict(x)' = Verdict(x)
    BY <1>3, SameVerdict DEF Verdict, Last
  <1>. QED  BY <1>1, <1>4, <1>5, OneChanges

LEMMA StartedStarts ==
    ASSUME IInv, NEW p \in packets, TransmissionStarted(p)
    PROVE  UNCHANGED Verdicts \/ (p.msg \in Msg /\ Contract!Start(p.msg))
  <1> DEFINE m     == p.msg
             tells == m \in live \cap Tracked /\ ~IsAck(p) /\ ~message[m].started
  <1>1. p \in Fragment /\ m \in Msg /\ UNCHANGED <<live, finished>>
    BY DEF IInv, TypeOK, Fragment, TransmissionStarted
  <1>2. CASE tells
    <2>1. ~message[m].delivered
      BY <1>1, <1>2, IndicesLemma DEF IInv, ReceiptInv
    <2>2. Tell(m, "InTransit")
      BY <1>2 DEF TransmissionStarted
    <2>3. Contract!Becomes(m, {"Queued"}, "InTransit")
      BY <1>1, <1>2, <2>1, <2>2, LiveTelling
    <2>. QED  BY <1>1, <2>3 DEF Contract!Start
  <1>3. CASE ~tells
    BY <1>1, <1>3, NoneChanges DEF TransmissionStarted
  <1>. QED  BY <1>2, <1>3

LEMMA FragmentDelivers ==
    ASSUME IInv, NEW p \in packets, FragmentReceived(p)
    PROVE  UNCHANGED Verdicts \/ (p.msg \in Msg /\ Contract!Deliver(p.msg))
  <1> DEFINE m        == p.msg
             received == message[m].received \cup {p.index}
             complete == Complete(m, received)
  <1>1. m \in live /\ m \in Msg /\ UNCHANGED <<live, finished>>
    BY DEF FragmentReceived, Delivered, IInv, TypeOK, Fragment
  <1>2. CASE complete
    <2>1. Tell(m, "Delivered") /\ ~message[m].delivered
      BY <1>2 DEF FragmentReceived, Complete
    <2>2. Contract!Becomes(m, Contract!Open, "Delivered")
      BY <1>1, <2>1, LiveTelling
    <2>. QED  BY <1>1, <2>2 DEF Contract!Deliver
  <1>3. CASE ~complete
    BY <1>1, <1>3, NoneChanges DEF FragmentReceived
  <1>. QED  BY <1>2, <1>3

LEMMA ContractSteps == IInv /\ [Next]_vars => [Contract!Next]_Verdicts
  <1> SUFFICES ASSUME IInv, [Next]_vars PROVE Contract!Next \/ UNCHANGED Verdicts
    OBVIOUS
  <1>1. ASSUME NEW m \in Msg, NEW expires \in 1..Horizon, SendMessage(m, expires)
        PROVE  Contract!Next
    BY <1>1, SendAccepts DEF Contract!Next
  <1>2. ASSUME NEW m \in Msg, Cancel(m) PROVE Contract!Next
    BY <1>2, CancelCancels DEF Contract!Next
  <1>3. ASSUME NEW m \in Msg, GiveUp(m) PROVE Contract!Next
    BY <1>3, GiveUpSettles DEF Contract!Next
  <1>4. ASSUME NEW m \in Msg, DeliverLocally(m) PROVE Contract!Next
    BY <1>4, LocalDelivers DEF Contract!Next
  <1>5. ASSUME NEW m \in Msg, Wait(m) \/ Attempt(m) PROVE UNCHANGED Verdicts
    BY <1>5, NoneChanges DEF Wait, Attempt
  <1>6. ASSUME NEW p \in packets, AckReceived(p) PROVE Contract!Next
    BY <1>6, AckAcknowledges DEF Contract!Next
  <1>7. ASSUME NEW p \in packets, TransmissionStarted(p)
        PROVE  Contract!Next \/ UNCHANGED Verdicts
    BY <1>7, StartedStarts DEF Contract!Next
  <1>8. ASSUME NEW p \in packets, FragmentReceived(p)
        PROVE  Contract!Next \/ UNCHANGED Verdicts
    BY <1>8, FragmentDelivers DEF Contract!Next
  <1>9. ASSUME NEW p \in packets, PacketLost(p) \/ PacketForwarded(p)
        PROVE  UNCHANGED Verdicts
    BY <1>9, NoneChanges DEF PacketLost, PacketForwarded
  <1>10. CASE \/ CompleteMission \/ BeginPass \/ EndSending \/ EndPass
              \/ UNCHANGED vars
    BY <1>10, NoneChanges DEF CompleteMission, BeginPass, EndSending, EndPass, vars
  <1>. QED  BY <1>1, <1>2, <1>3, <1>4, <1>5, <1>6, <1>7, <1>8, <1>9, <1>10
            DEF Next, Simulate, Advance, Sending, Reporting

\* The transport keeps the safety part of its contract: retries, duplicates, late
\* acknowledgements, expiry and cancellation tell the sender of each message one of
\* the stories that MessageDelivery allows.
THEOREM ContractHolds == Spec => Contract!Safety
  <1>1. Init => Contract!Init
    BY DEF Init, Contract!Init, Verdicts, Verdict
  <1>. QED  BY <1>1, ContractSteps, Invariance, PTL DEF Spec, Contract!Safety

================================================================================
