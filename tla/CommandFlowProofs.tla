--------------------------- MODULE CommandFlowProofs ---------------------------
(***************************************************************************)
(* Proofs about CommandFlow, for every set of orders and roles, every      *)
(* authority definition, with and without radio, edits, failures of the    *)
(* event store and an end of the mission.                                  *)
(*                                                                         *)
(* A request stays on its chain (Legal), each of its deciders had it on    *)
(* the way (Asked), and an order enters the simulation at most once        *)
(* (EnteredOnce), because the message that carries it is sent once and     *)
(* what became of a message is never taken back (HeardStays).              *)
(*                                                                         *)
(* Receipts are read off the records of messages.  They are true because,  *)
(* while the event store works, a message waits just as long as somebody   *)
(* wants it (Heeded, Borne), and an order whose reply need not travel is   *)
(* answered in the tick that applies it (NearAnswered).                    *)
(***************************************************************************)
EXTENDS CommandFlow, SequenceTheorems, TLAPS

Undecided == {"PendingHuman"} \cup Waiting
Told      == {"Delivered", "Acknowledged", "Unacknowledged"}
States    == {"InTransit"} \cup Undecided \cup Final

\* Request r of o is where its chain and its decisions have brought it.
OnItsChain(o, r) ==
    /\ r.steps \in Chains[o] /\ Len(r.steps) > 0
    /\ r.step \in 1..(Len(r.steps) + 1)
    /\ r.status \in Undecided => r.step <= Len(r.steps)
    /\ r.status = "Approved" => r.step = Len(r.steps) + 1
    /\ r.status \notin Waiting => r.left = 0
    /\ Len(r.decisions) = IF r.status = "Denied" THEN r.step ELSE r.step - 1
    /\ Len(r.decisions) <= Len(r.steps)
    /\ \A i \in 1..Len(r.decisions) :
           /\ r.decisions[i].role = r.steps[i]
           /\ r.decisions[i].approved \/ r.status = "Denied"

Legal(o, r) == r = NoRequest \/ (r.status # "None" /\ OnItsChain(o, r))

\* The messages their recipients have, and that nobody speaks of any more.
Heard == {m \in Message : m \in Near \/ (verdict[m] \in Told /\ record[m] \notin Open)}

\* Who decided on r, or is to, was asked.
Asked(o, r, heard) ==
    /\ \A i \in 1..Len(r.decisions) : Ask(o, i) \in heard
    /\ r.status \in Undecided => Ask(o, r.step) \in heard

Good(o, r, heard) == r \in Request /\ Legal(o, r) /\ Asked(o, r, heard)

\* What a step may make of request r.
Grows(r, s) ==
    /\ r.status \in Final => s = r
    /\ Len(s.decisions) >= Len(r.decisions)
    /\ \A i \in 1..Len(r.decisions) : s.decisions[i] = r.decisions[i]

RequestsGood == \A o \in Order : Good(o, request[o], Heard)

Inside(o) == queue[o] > 0 \/ o \in applied

\* What was sent is on record.
Booked ==
    /\ pending \cap Near = {}
    /\ \A m \in Message : m \in pending \/ verdict[m] # "Unsent" => record[m] # "None"
    /\ \A o \in Order :
           /\ request[o].status # "None" => record[Ask(o, 1)] # "None"
           /\ record[Command(o)] # "None" /\ request[o].status = "None"
                => <<>> \in Chains[o]

EnteredOnce == \A o \in Order :
    /\ queue[o] <= IF o \in applied THEN 0 ELSE 1
    /\ Inside(o) => /\ Command(o) \in Heard \ pending
                    /\ record[Command(o)] # "None"
                    /\ request[o].status \in {"None", "Approved"}

StepsBeforeEnd == phase \in {"inbox", "vacant", "relay", "step"} => mission = "active"

--------------------------------------------------------------------------------
(* Messages.                                                                *)

LEMMA MessageFacts ==
    ASSUME NEW m \in Message
    PROVE  /\ m.of \in Order
           /\ m.leg \in {"ask", "order", "ack"}
           /\ m.leg = "ask" => m = Ask(m.of, m.n)
           /\ m.leg = "order" <=> m = Command(m.of)
  <1>1. PICK o \in Order : m \in Asks(o) \cup {Command(o)} \cup Replies(o)
    BY DEF Message
  <1>2. CASE m \in Asks(o)
    <2>1. PICK i \in Nat : m = Ask(o, i)
      BY <1>2, FlowAssumption, LenProperties DEF Asks
    <2>. QED  BY <2>1 DEF Ask, Command
  <1>3. CASE m = Command(o)
    BY <1>3 DEF Command
  <1>4. CASE m \in Replies(o)
    BY <1>4 DEF Replies, Reply, Command
  <1>. QED  BY <1>1, <1>2, <1>3, <1>4

LEMMA AskMessage ==
    ASSUME NEW o \in Order, NEW chain \in Chains[o], NEW i \in 1..Len(chain)
    PROVE  Ask(o, i) \in Message
  BY DEF Asks, Message

LEMMA CommandMessage == \A o \in Order : Command(o) \in Message
  BY DEF Message

LEMMA ReplyMessage ==
    ASSUME NEW o \in Order, NEW i \in 1..MaxAttempts
    PROVE  Reply(o, i) \in Message
  BY DEF Replies, Message

LEMMA Distinct ==
    /\ \A o, p, i : Command(o) # Ask(p, i)
    /\ \A o, p, i : Command(o) # Reply(p, i)
    /\ \A o, p, i, j : Ask(o, i) # Reply(p, j)
    /\ \A o, p : Command(o) = Command(p) => o = p
    /\ \A o, p, i, j : Ask(o, i) = Ask(p, j) => o = p /\ i = j
    /\ \A o, i : Ask(o, i).of = o /\ Ask(o, i).leg = "ask"
    /\ \A o : Command(o).of = o /\ Command(o).leg = "order"
    /\ \A o, i : Reply(o, i).of = o /\ Reply(o, i).leg = "ack"
  BY DEF Command, Ask, Reply

LEMMA ChainFacts ==
    ASSUME NEW o \in Order, NEW chain \in Chains[o]
    PROVE  chain \in Seq(Role) /\ Len(chain) \in Nat
  BY FlowAssumption, LenProperties

--------------------------------------------------------------------------------
(* Requests.                                                                *)

LEMMA StateFacts ==
    /\ Request = [status : States \cup {"None"}, steps : Seq(Role), step : Nat,
                  left : 0..Delay, decisions : Seq(Decision)]
    /\ Delay \in 0..Delay /\ 0 \in 0..Delay
    /\ "None" \notin States
  BY FlowAssumption DEF Request, States, Undecided, Waiting, Final

LEMMA NoRequestGood ==
    ASSUME NEW o, NEW heard
    PROVE  Good(o, NoRequest, heard)
  <1>1. NoRequest \in Request
    BY EmptySeq, StateFacts DEF NoRequest
  <1>2. Len(NoRequest.decisions) = 0 /\ NoRequest.status = "None"
    BY EmptySeq DEF NoRequest
  <1>. QED  BY <1>1, <1>2 DEF Good, Legal, Asked, Undecided, Waiting

LEMMA RequestFacts ==
    ASSUME NEW r \in Request
    PROVE  /\ r.status \in States \cup {"None"} /\ r.steps \in Seq(Role) /\ r.step \in Nat
           /\ r.left \in 0..Delay /\ r.decisions \in Seq(Decision)
           /\ Len(r.steps) \in Nat /\ Len(r.decisions) \in Nat
  BY StateFacts, LenProperties

LEMMA TurnedFacts ==
    ASSUME NEW r \in Request, NEW state \in States
    PROVE  /\ Turned(r, state) \in Request
           /\ Turned(r, state).status = state
           /\ Turned(r, state).steps = r.steps
           /\ Turned(r, state).step = r.step
           /\ Turned(r, state).decisions = r.decisions
           /\ state \notin Waiting => Turned(r, state).left = 0
  BY StateFacts DEF Turned

LEMMA TurnedGood ==
    ASSUME NEW o, NEW r, NEW heard, Good(o, r, heard), r.status \notin {"None", "Denied"},
           NEW state \in States \ {"Denied"},
           state \in Undecided => r.step <= Len(r.steps) /\ Ask(o, r.step) \in heard,
           state = "Approved" => r.step = Len(r.steps) + 1
    PROVE  Good(o, Turned(r, state), heard)
  <1>1. r \in Request /\ OnItsChain(o, r) /\ Asked(o, r, heard)
    BY DEF Good, Legal, NoRequest
  <1>2. state \in States /\ state # "None" /\ state # "Denied"
    BY StateFacts
  <1>. DEFINE t == Turned(r, state)
  <1>3. /\ t \in Request /\ t.status = state /\ t.steps = r.steps /\ t.step = r.step
        /\ t.decisions = r.decisions /\ (state \notin Waiting => t.left = 0)
    BY <1>1, <1>2, TurnedFacts
  <1>. HIDE DEF t
  <1>4. OnItsChain(o, t)
    BY <1>1, <1>2, <1>3 DEF OnItsChain
  <1>5. Asked(o, t, heard)
    BY <1>1, <1>3 DEF Asked
  <1>. QED  BY <1>2, <1>3, <1>4, <1>5 DEF Good, Legal, t

LEMMA TurnedGrows ==
    ASSUME NEW r \in Request, NEW state \in States, r.status \notin Final
    PROVE  Grows(r, Turned(r, state))
  <1>1. Turned(r, state).decisions = r.decisions
    BY TurnedFacts
  <1>. QED  BY <1>1, RequestFacts DEF Grows

LEMMA GrowsSelf ==
    ASSUME NEW r \in Request
    PROVE  Grows(r, r)
  BY RequestFacts DEF Grows

LEMMA GrowsOn ==
    ASSUME NEW r \in Request, NEW s \in Request, NEW t \in Request, Grows(r, s), Grows(s, t)
    PROVE  Grows(r, t)
  BY RequestFacts DEF Grows

LEMMA GoodStays ==
    ASSUME NEW o, NEW r, NEW heard, NEW more, Good(o, r, heard), heard \subseteq more
    PROVE  Good(o, r, more)
  BY DEF Good, Asked

\* Only the leg a request waits for concerns it, and that one it waits for on its chain.
LEMMA AwaitsFacts ==
    ASSUME NEW m \in Message, NEW r \in Request, NEW heard, Good(m.of, r, heard), Awaits(m, r)
    PROVE  /\ OnItsChain(m.of, r) /\ Asked(m.of, r, heard)
           /\ r.status = "InTransit"
           /\ m.leg \in {"ask", "order"}
           /\ m.leg = "ask" => m = Ask(m.of, r.step) /\ r.step <= Len(r.steps)
           /\ m.leg = "order" => m = Command(m.of) /\ r.step = Len(r.steps) + 1
  <1>1. r.status = "InTransit" /\ Awaited(m.of, r) = m
    BY DEF Awaits
  <1>2. OnItsChain(m.of, r) /\ Asked(m.of, r, heard)
    BY <1>1 DEF Good, Legal, NoRequest
  <1>3. CASE r.step <= Len(r.steps)
    BY <1>1, <1>2, <1>3, Distinct DEF Awaited
  <1>4. CASE ~(r.step <= Len(r.steps))
    <2>1. r.step = Len(r.steps) + 1
      BY <1>2, <1>4, RequestFacts DEF OnItsChain
    <2>. QED  BY <1>1, <1>2, <1>4, <2>1, Distinct DEF Awaited
  <1>. QED  BY <1>3, <1>4

LEMMA ArrivedGood ==
    ASSUME NEW m \in Message, NEW requests \in [Order -> Request], NEW heard, m \in heard,
           NEW o \in Order, Good(o, requests[o], heard)
    PROVE  /\ Good(o, Arrived(m, requests)[o], heard)
           /\ Grows(requests[o], Arrived(m, requests)[o])
           /\ Arrived(m, requests)[o].status = "None" <=> requests[o].status = "None"
  <1>. DEFINE r == requests[o]
  <1>1. m.of \in Order /\ r \in Request
    BY MessageFacts
  <1>2. CASE ~(m.of = o /\ Awaits(m, r))
    <2>1. Arrived(m, requests)[o] = r
      BY <1>1, <1>2 DEF Arrived
    <2>. QED  BY <1>1, <2>1, GrowsSelf
  <1>3. CASE m.of = o /\ Awaits(m, r)
    <2>1. /\ OnItsChain(o, r) /\ r.status = "InTransit"
          /\ m.leg \in {"ask", "order"}
          /\ m.leg = "ask" => m = Ask(o, r.step) /\ r.step <= Len(r.steps)
          /\ m.leg = "order" => r.step = Len(r.steps) + 1
      BY <1>1, <1>3, AwaitsFacts
    <2>2. r.status \notin Final /\ r.status \notin {"None", "Denied"}
      BY <2>1 DEF Final
    <2>3. CASE m.leg = "order"
      <3>1. Arrived(m, requests)[o] = Turned(r, "Approved")
        BY <1>1, <1>3, <2>3 DEF Arrived
      <3>2. "Approved" \in States \ {"Denied"} /\ "Approved" \notin Undecided
        BY DEF States, Final, Undecided, Waiting
      <3>3. Good(o, Turned(r, "Approved"), heard)
        BY <2>1, <2>2, <2>3, <3>2, TurnedGood
      <3>4. Grows(r, Turned(r, "Approved"))
        BY <1>1, <2>2, <3>2, TurnedGrows
      <3>5. Turned(r, "Approved").status # "None"
        BY <1>1, <3>2, TurnedFacts
      <3>. QED  BY <2>2, <3>1, <3>3, <3>4, <3>5
    <2>4. CASE m.leg = "ask"
      <3>1. Arrived(m, requests)[o] = Activated(o, r)
        BY <1>1, <1>3, <2>4 DEF Arrived
      <3>2. PICK state \in Undecided : Activated(o, r) = Turned(r, state)
        BY DEF Activated, Undecided, Waiting
      <3>3. state \in States \ {"Denied"} /\ state # "Approved"
        BY DEF States, Undecided, Waiting
      <3>4. Ask(o, r.step) \in heard /\ r.step <= Len(r.steps)
        BY <2>1, <2>4
      <3>. QED  BY <1>1, <2>2, <3>1, <3>2, <3>3, <3>4,
                TurnedGood, TurnedGrows, TurnedFacts, StateFacts
    <2>. QED  BY <2>1, <2>3, <2>4
  <1>. QED  BY <1>2, <1>3

LEMMA ArrivedType ==
    ASSUME NEW m \in Message, NEW requests \in [Order -> Request], NEW heard, m \in heard,
           \A o \in Order : Good(o, requests[o], heard)
    PROVE  Arrived(m, requests) \in [Order -> Request]
  <1>1. \A o \in Order : Arrived(m, requests)[o] \in Request
    BY ArrivedGood DEF Good
  <1>2. Arrived(m, requests) = [o \in Order |-> Arrived(m, requests)[o]]
    BY DEF Arrived
  <1>. QED  BY <1>1, <1>2

LEMMA FailedGood ==
    ASSUME NEW lost \in SUBSET Message, NEW requests \in [Order -> Request], NEW heard,
           NEW o \in Order, Good(o, requests[o], heard)
    PROVE  /\ Good(o, Failed(lost, requests)[o], heard)
           /\ Grows(requests[o], Failed(lost, requests)[o])
           /\ Failed(lost, requests)[o].status = "None" <=> requests[o].status = "None"
  <1>. DEFINE r == requests[o]
  <1>1. r \in Request
    OBVIOUS
  <1>2. CASE \E m \in lost : m.of = o /\ Awaits(m, r)
    <2>1. Failed(lost, requests)[o] = Turned(r, "BlockedComms")
      BY <1>2 DEF Failed
    <2>2. r.status = "InTransit"
      BY <1>2 DEF Awaits
    <2>3. r.status \notin Final /\ r.status \notin {"None", "Denied"}
      BY <2>2 DEF Final
    <2>4. /\ "BlockedComms" \in States \ {"Denied"} /\ "BlockedComms" \notin Undecided
          /\ "BlockedComms" # "Approved"
      BY DEF States, Final, Undecided, Waiting
    <2>5. Turned(r, "BlockedComms").status = "BlockedComms"
      BY <1>1, <2>4, TurnedFacts
    <2>6. Good(o, Turned(r, "BlockedComms"), heard) /\ Grows(r, Turned(r, "BlockedComms"))
      BY <1>1, <2>3, <2>4, TurnedGood, TurnedGrows
    <2>. QED  BY <2>1, <2>2, <2>5, <2>6
  <1>3. CASE ~\E m \in lost : m.of = o /\ Awaits(m, r)
    <2>1. Failed(lost, requests)[o] = r
      BY <1>3 DEF Failed
    <2>. QED  BY <1>1, <2>1, GrowsSelf
  <1>. QED  BY <1>2, <1>3

LEMMA FailedType ==
    ASSUME NEW lost \in SUBSET Message, NEW requests \in [Order -> Request], NEW heard,
           \A o \in Order : Good(o, requests[o], heard)
    PROVE  Failed(lost, requests) \in [Order -> Request]
  <1>1. \A o \in Order : Failed(lost, requests)[o] \in Request
    BY FailedGood DEF Good
  <1>2. Failed(lost, requests) = [o \in Order |-> Failed(lost, requests)[o]]
    BY DEF Failed
  <1>. QED  BY <1>1, <1>2

\* A new request, and what a decision makes of one.
LEMMA AskingGood ==
    ASSUME NEW o \in Order, NEW chain \in Chains[o], chain # <<>>, NEW heard
    PROVE  /\ Good(o, Asking(chain), heard)
           /\ Asking(chain).status = "InTransit" /\ Awaited(o, Asking(chain)) = Ask(o, 1)
           /\ Grows(NoRequest, Asking(chain))
           /\ Ask(o, 1) \in Message
  <1>1. chain \in Seq(Role) /\ Len(chain) \in Nat /\ Len(chain) > 0
    BY ChainFacts, EmptySeq
  <1>2. Len(NoRequest.decisions) = 0 /\ NoRequest.decisions = <<>>
    BY EmptySeq DEF NoRequest
  <1>. DEFINE n == [NoRequest EXCEPT !.steps = chain]
              r == Asking(chain)
  <1>3. /\ n \in Request /\ n.decisions = <<>> /\ n.step = 1 /\ n.steps = chain
        /\ "InTransit" \in States /\ "InTransit" \notin Waiting
    BY <1>1, EmptySeq, StateFacts DEF NoRequest, States, Waiting
  <1>4. r = Turned(n, "InTransit")
    BY DEF Asking
  <1>. HIDE DEF r, n
  <1>5. /\ r \in Request /\ r.status = "InTransit" /\ r.steps = chain /\ r.step = 1
        /\ r.decisions = <<>> /\ r.left = 0 /\ Len(r.decisions) = 0
    BY <1>2, <1>3, <1>4, TurnedFacts
  <1>6. OnItsChain(o, r)
    BY <1>1, <1>5 DEF OnItsChain, Undecided, Waiting
  <1>7. Asked(o, r, heard)
    BY <1>5 DEF Asked, Undecided, Waiting
  <1>8. Good(o, r, heard)
    BY <1>5, <1>6, <1>7 DEF Good, Legal
  <1>9. Grows(NoRequest, r)
    BY <1>2, <1>5 DEF Grows, NoRequest, Final
  <1>10. Awaited(o, r) = Ask(o, 1)
    BY <1>1, <1>5 DEF Awaited
  <1>11. Ask(o, 1) \in Message
    BY <1>1, AskMessage
  <1>. QED  BY <1>5, <1>8, <1>9, <1>10, <1>11 DEF r

Said(r, approved, automatic) ==
    [r EXCEPT !.decisions = Append(@, [role |-> Decider(r), approved |-> approved,
                                       automatic |-> automatic])]
Onward(r, approved, automatic) == [Said(r, approved, automatic) EXCEPT !.step = r.step + 1]

LEMMA SaidFacts ==
    ASSUME NEW o \in Order, NEW r \in Request, NEW heard, Good(o, r, heard),
           r.status \in Undecided, NEW approved \in BOOLEAN, NEW automatic \in BOOLEAN
    PROVE  LET s == Said(r, approved, automatic)
           IN  /\ s \in Request /\ s.steps = r.steps /\ s.step = r.step
               /\ s.status = r.status /\ OnItsChain(o, r)
               /\ Len(s.decisions) = r.step /\ Len(r.decisions) = r.step - 1
               /\ r.step \in 1..Len(r.steps)
               /\ \A i \in 1..r.step : s.decisions[i].role = r.steps[i] /\ Ask(o, i) \in heard
               /\ \A i \in 1..Len(r.decisions) : s.decisions[i].approved
               /\ s.decisions[r.step].approved \/ ~approved
               /\ \A i \in 1..Len(r.decisions) : s.decisions[i] = r.decisions[i]
  <1>1. /\ OnItsChain(o, r) /\ Asked(o, r, heard)
        /\ r.status # "Denied" /\ r.status # "None"
    BY DEF Good, Legal, NoRequest, Undecided, Waiting
  <1>2. /\ r.step \in 1..Len(r.steps) /\ Len(r.decisions) = r.step - 1 /\ r.step \in Nat
        /\ r.steps \in Seq(Role) /\ r.decisions \in Seq(Decision) /\ Len(r.steps) \in Nat
        /\ Ask(o, r.step) \in heard
        /\ \A i \in 1..Len(r.decisions) :
              r.decisions[i].role = r.steps[i] /\ r.decisions[i].approved /\ Ask(o, i) \in heard
    BY <1>1, RequestFacts DEF OnItsChain, Asked
  <1>. DEFINE d == [role |-> Decider(r), approved |-> approved, automatic |-> automatic]
  <1>3. d \in Decision /\ d.role = r.steps[r.step] /\ d.approved = approved
    BY <1>2, ElementOfSeq DEF Decider, Decision
  <1>. HIDE DEF d
  <1>. DEFINE ds == Append(r.decisions, d)
  <1>4. /\ ds \in Seq(Decision) /\ Len(ds) = r.step /\ ds[r.step] = d
        /\ \A i \in 1..Len(r.decisions) : ds[i] = r.decisions[i]
    BY <1>2, <1>3, AppendProperties
  <1>. HIDE DEF ds
  <1>5. Said(r, approved, automatic) = [r EXCEPT !.decisions = ds]
    BY DEF Said, ds, d
  <1>. DEFINE s == Said(r, approved, automatic)
  <1>6. /\ s \in Request /\ s.steps = r.steps /\ s.step = r.step /\ s.status = r.status
        /\ s.decisions = ds
    BY <1>4, <1>5, StateFacts
  <1>. HIDE DEF s
  <1>7. \A i \in 1..r.step : ds[i].role = r.steps[i] /\ Ask(o, i) \in heard
    <2>. SUFFICES ASSUME NEW i \in 1..r.step
                  PROVE  ds[i].role = r.steps[i] /\ Ask(o, i) \in heard
      OBVIOUS
    <2>1. CASE i = r.step
      BY <1>2, <1>3, <1>4, <2>1
    <2>2. CASE i # r.step
      <3>1. i \in 1..Len(r.decisions)
        BY <1>2, <2>2
      <3>. QED  BY <1>2, <1>4, <3>1
    <2>. QED  BY <2>1, <2>2
  <1>8. \A i \in 1..Len(r.decisions) : ds[i].approved
    BY <1>2, <1>4
  <1>9. ds[r.step].approved \/ ~approved
    BY <1>3, <1>4
  <1>. QED  BY <1>1, <1>2, <1>4, <1>6, <1>7, <1>8, <1>9 DEF s

LEMMA DeniedGood ==
    ASSUME NEW o \in Order, NEW r \in Request, NEW heard, Good(o, r, heard),
           r.status \in Undecided, NEW approved \in BOOLEAN, ~approved,
           NEW automatic \in BOOLEAN
    PROVE  LET t == Turned(Said(r, approved, automatic), "Denied")
           IN  Good(o, t, heard) /\ Grows(r, t) /\ t.status = "Denied"
  <1>. DEFINE s == Said(r, approved, automatic)
              t == Turned(s, "Denied")
  <1>1. /\ s \in Request /\ s.steps = r.steps /\ s.step = r.step /\ OnItsChain(o, r)
        /\ Len(s.decisions) = r.step /\ Len(r.decisions) = r.step - 1
        /\ r.step \in 1..Len(r.steps)
        /\ \A i \in 1..r.step : s.decisions[i].role = r.steps[i] /\ Ask(o, i) \in heard
        /\ \A i \in 1..Len(r.decisions) : s.decisions[i] = r.decisions[i]
    BY SaidFacts
  <1>. HIDE DEF s
  <1>2. "Denied" \in States /\ "Denied" \notin Waiting /\ "Denied" \notin Undecided
    BY DEF States, Final, Waiting, Undecided
  <1>3. /\ t \in Request /\ t.status = "Denied" /\ t.steps = s.steps /\ t.step = s.step
        /\ t.decisions = s.decisions /\ t.left = 0
    BY <1>1, <1>2, TurnedFacts
  <1>. HIDE DEF t
  <1>4. r.step \in Nat /\ Len(r.steps) \in Nat /\ r.status \notin Final
    BY RequestFacts DEF Undecided, Waiting, Final
  <1>5. OnItsChain(o, t)
    BY <1>1, <1>2, <1>3, <1>4 DEF OnItsChain
  <1>6. Asked(o, t, heard)
    BY <1>1, <1>2, <1>3 DEF Asked
  <1>7. Grows(r, t)
    BY <1>1, <1>3, <1>4 DEF Grows
  <1>. QED  BY <1>3, <1>5, <1>6, <1>7 DEF Good, Legal, t, s

\* Request t, which is n with a new status, goes on where r was decided.
Passed(o, r, n, t, state, heard) ==
    /\ Good(o, t, heard) /\ Grows(r, t) /\ t.status = state
    /\ Awaited(o, n) \in Message
    /\ Awaited(o, n) \in {Ask(o, r.step + 1), Command(o)}
    /\ Awaited(o, t) = Awaited(o, n)
    /\ Awaited(o, n) = Command(o) => t.step = Len(t.steps) + 1

LEMMA OnwardGood ==
    ASSUME NEW o \in Order, NEW r \in Request, NEW heard, Good(o, r, heard),
           r.status \in Undecided, NEW approved \in BOOLEAN,
           NEW automatic \in BOOLEAN,
           NEW state \in {"InTransit", "BlockedComms", "ApprovedNoExecutor"}
    PROVE  approved => Passed(o, r, Onward(r, approved, automatic),
                              Turned(Onward(r, approved, automatic), state), state, heard)
  <1>. DEFINE s == Said(r, approved, automatic)
              n == Onward(r, approved, automatic)
              t == Turned(n, state)
  <1>1. /\ s \in Request /\ s.steps = r.steps /\ s.step = r.step /\ OnItsChain(o, r)
        /\ Len(s.decisions) = r.step /\ Len(r.decisions) = r.step - 1
        /\ r.step \in 1..Len(r.steps)
        /\ \A i \in 1..r.step : s.decisions[i].role = r.steps[i] /\ Ask(o, i) \in heard
        /\ \A i \in 1..Len(r.decisions) : s.decisions[i] = r.decisions[i]
    BY SaidFacts
  <1>13. s.decisions[r.step].approved \/ ~approved
    BY SaidFacts
  <1>0. SUFFICES ASSUME approved
                 PROVE  Passed(o, r, n, t, state, heard)
    OBVIOUS
  <1>2. n = [s EXCEPT !.step = r.step + 1]
    BY DEF Onward
  <1>. HIDE DEF s, n
  <1>3. /\ r.step \in Nat /\ Len(r.steps) \in Nat /\ r.status \notin Final
    BY RequestFacts DEF Undecided, Waiting, Final
  <1>4. /\ n \in Request /\ n.steps = r.steps /\ n.step = r.step + 1
        /\ n.decisions = s.decisions
    <2>1. s \in Request /\ r.step + 1 \in Nat
      BY <1>1, <1>3
    <2>. QED  BY <1>1, <1>2, <2>1, StateFacts
  <1>5. /\ state \in States /\ state \notin Undecided /\ state \notin Waiting
        /\ state # "Denied" /\ state # "None" /\ state # "Approved"
    BY DEF States, Final, Waiting, Undecided
  <1>6. /\ t \in Request /\ t.status = state /\ t.steps = n.steps /\ t.step = n.step
        /\ t.decisions = n.decisions /\ t.left = 0
    BY <1>4, <1>5, TurnedFacts
  <1>. HIDE DEF t
  <1>7. OnItsChain(o, t)
    <2>1. \A i \in 1..Len(r.decisions) : r.decisions[i].approved
      BY <1>1 DEF OnItsChain, Undecided, Waiting
    <2>2. ASSUME NEW i \in 1..r.step
          PROVE  s.decisions[i].approved
      <3>1. CASE i = r.step
        BY <1>0, <1>13, <3>1
      <3>2. CASE i # r.step
        <4>1. i \in 1..Len(r.decisions)
          BY <1>1, <1>3, <3>2
        <4>. QED  BY <1>1, <2>1, <4>1
      <3>. QED  BY <3>1, <3>2
    <2>. QED  BY <1>1, <1>3, <1>4, <1>5, <1>6, <2>2 DEF OnItsChain
  <1>8. Asked(o, t, heard)
    BY <1>1, <1>4, <1>5, <1>6 DEF Asked
  <1>9. Grows(r, t)
    BY <1>1, <1>3, <1>4, <1>6 DEF Grows
  <1>10. Awaited(o, t) = Awaited(o, n)
    BY <1>6 DEF Awaited
  <1>11. Awaited(o, n) \in Message
    BY <1>1, <1>3, <1>4, AskMessage, CommandMessage DEF Awaited, OnItsChain
  <1>12. /\ Awaited(o, n) \in {Ask(o, r.step + 1), Command(o)}
         /\ Awaited(o, n) = Command(o) => n.step = Len(n.steps) + 1
    BY <1>1, <1>3, <1>4, Distinct DEF Awaited
  <1>. QED  BY <1>4, <1>5, <1>6, <1>7, <1>8, <1>9, <1>10, <1>11, <1>12 DEF Good, Legal, Passed

--------------------------------------------------------------------------------
(* Messages under way.                                                      *)

Recorded == {"None", "Delivered", "Acknowledged"} \cup Open \cup Lost

WiresTypeOK ==
    /\ pending \subseteq Message
    /\ record \in [Message -> Recorded]
    /\ verdict \in [Message -> Network!Verdict]

\* What became of a message is not taken back, nor is its record.
Kept == /\ Heard \subseteq Heard'
        /\ \A m \in Message : record[m] # "None" => record'[m] # "None"

LEMMA VerdictFacts ==
    /\ Told \subseteq Network!Verdict /\ "Unsent" \notin Told
    /\ Told \cap Network!Open = {} /\ "Delivered" \in Told
    /\ Network!Open = Open /\ Told \cap Open = {}
    /\ {"None", "Delivered", "Dropped", "Queued"} \subseteq Recorded
    /\ {"None", "Delivered", "Dropped"} \cap Open = {}
    /\ "None" \notin Told \cup Open \cup Lost
  BY DEF Told, Network!Verdict, Network!Open, Network!Settled, Open, Lost, Recorded

LEMMA AcceptKept ==
    ASSUME WiresTypeOK, NEW m \in Message, Network!Accept(m)
    PROVE  /\ verdict' \in [Message -> Network!Verdict]
           /\ verdict[m] \notin Told
           /\ \A n \in Message : verdict[n] \in Told => verdict'[n] = verdict[n]
           /\ \A n \in Message \ {m} : verdict'[n] = verdict[n]
  BY VerdictFacts DEF WiresTypeOK, Network!Accept, Network!Becomes, Network!Verdict, Network!Open

LEMMA HappensKept ==
    ASSUME WiresTypeOK, NEW m \in Message, Happens(m)
    PROVE  /\ verdict' \in [Message -> Network!Verdict]
           /\ verdict'[m] \in {"InTransit"} \cup Told \cup {"Expired", "Dropped"}
           /\ verdict[m] \in Told => verdict'[m] \in Told
           /\ verdict[m] # "Unsent"
           /\ \A n \in Message \ {m} : verdict'[n] = verdict[n]
  BY DEF WiresTypeOK, Happens, Network!Start, Network!Deliver, Network!Acknowledge, Network!Lose,
         Network!Doubt, Network!Becomes, Network!Verdict, Network!Open, Network!Settled, Told

LEMMA CancelKept ==
    ASSUME WiresTypeOK, NEW m \in Message, Network!Cancel(m)
    PROVE  /\ verdict' \in [Message -> Network!Verdict]
           /\ \A n \in Message \ {m} : verdict'[n] = verdict[n]
  BY DEF WiresTypeOK, Network!Cancel, Network!Becomes, Network!Verdict, Network!Open,
         Network!Settled

\* A step keeps what it does not lose of the verdicts and records.
LEMMA KeptFrom ==
    ASSUME WiresTypeOK,
           \A n \in Message \ Near : verdict[n] \in Told /\ record[n] \notin Open
                => verdict'[n] \in Told /\ record'[n] \notin Open,
           \A n \in Message : record[n] # "None" => record'[n] # "None"
    PROVE  Kept
  BY DEF Kept, Heard

LEMMA AbortWires ==
    ASSUME WiresTypeOK, NEW requests, NEW m \in Message, Abort(requests, {m}),
           verdict' \in [Message -> Network!Verdict],
           \A n \in Message \ Near : verdict[n] \in Told /\ record[n] \notin Open
                => verdict'[n] \in Told
    PROVE  /\ Kept /\ WiresTypeOK' /\ record'[m] = "Dropped" /\ pending' = {}
           /\ \A n \in Message \ {m} : record[n] = "None" => record'[n] = "None"
  <1>1. record' = [n \in Message |-> IF n \in {m} \/ record[n] \in Open
                                     THEN "Dropped" ELSE record[n]]
        /\ pending' = {}
    BY DEF Abort
  <1>2. \A n \in Message : record'[n] = "Dropped" \/ (record'[n] = record[n] /\ record[n] \notin Open)
    BY <1>1
  <1>3. record' \in [Message -> Recorded] /\ record'[m] = "Dropped"
    BY <1>1, VerdictFacts DEF WiresTypeOK
  <1>4. Kept
    BY <1>2, VerdictFacts, KeptFrom
  <1>5. \A n \in Message \ {m} : record[n] = "None" => record'[n] = "None"
    BY <1>1, VerdictFacts
  <1>. QED  BY <1>1, <1>3, <1>4, <1>5 DEF WiresTypeOK

LEMMA PostWires ==
    ASSUME WiresTypeOK, NEW m \in Message, NEW sent, NEW unsent, NEW answers,
           Post(m, sent, unsent, answers)
    PROVE  /\ Kept /\ WiresTypeOK' /\ record'[m] # "None"
           /\ pending' \subseteq pending \cup ({m} \ Near)
           /\ HandedOver(m, sent, answers) => m \in Heard' /\ pending' = pending
           /\ \A n \in Message \ {m} : /\ record[n] = "None" => record'[n] = "None"
                                       /\ verdict[n] = "Unsent" => verdict'[n] = "Unsent"
  <1>1. CASE Accepted(m, sent, answers)
    <2>1. record' = [record EXCEPT ![m] = "Queued"] /\ pending' = pending \cup {m}
          /\ Network!Accept(m) /\ m \notin Near
      BY <1>1 DEF Accepted
    <2>2. record' \in [Message -> Recorded]
      BY <2>1, VerdictFacts DEF WiresTypeOK
    <2>3. \A n \in Message : n # m => record'[n] = record[n]
      BY <2>1 DEF WiresTypeOK
    <2>4. record'[m] = "Queued"
      BY <2>1 DEF WiresTypeOK
    <2>5. Kept
      BY <2>1, <2>3, <2>4, AcceptKept, VerdictFacts, KeptFrom
    <2>6. WiresTypeOK'
      BY <2>1, <2>2, AcceptKept DEF WiresTypeOK
    <2>7. ~HandedOver(m, sent, answers)
      BY <2>1 DEF HandedOver
    <2>. QED  BY <2>1, <2>3, <2>4, <2>5, <2>6, <2>7, AcceptKept
  <1>2. CASE HandedOver(m, sent, answers)
    <2>1. record' = [record EXCEPT ![m] = "Delivered"] /\ pending' = pending
          /\ verdict' = verdict /\ m \in Near
      BY <1>2 DEF HandedOver
    <2>2. record' \in [Message -> Recorded] /\ record'[m] = "Delivered"
          /\ \A n \in Message : n # m => record'[n] = record[n]
      BY <2>1, VerdictFacts DEF WiresTypeOK
    <2>3. Kept
      BY <2>1, <2>2, VerdictFacts, KeptFrom
    <2>4. m \in Heard'
      BY <2>1 DEF Heard
    <2>. QED  BY <2>1, <2>2, <2>3, <2>4 DEF WiresTypeOK
  <1>3. CASE NoRoute(m, unsent, answers)
    <2>1. record' = [record EXCEPT ![m] = "Dropped"] /\ pending' = pending
          /\ verdict' = verdict /\ m \notin Near
      BY <1>3 DEF NoRoute
    <2>2. record' \in [Message -> Recorded] /\ record'[m] = "Dropped"
          /\ \A n \in Message : n # m => record'[n] = record[n]
      BY <2>1, VerdictFacts DEF WiresTypeOK
    <2>3. Kept
      BY <2>1, <2>2, VerdictFacts, KeptFrom
    <2>4. ~HandedOver(m, sent, answers)
      BY <2>1 DEF HandedOver
    <2>. QED  BY <2>1, <2>2, <2>3, <2>4 DEF WiresTypeOK
  <1>4. CASE Unrecorded(m, unsent, answers)
    <2>1. Abort(unsent, {m}) /\ (verdict' = verdict \/ (m \notin Near /\ Network!Accept(m)))
      BY <1>4 DEF Unrecorded
    <2>2. /\ verdict' \in [Message -> Network!Verdict]
          /\ \A n \in Message : verdict[n] \in Told => verdict'[n] \in Told
      <3>1. CASE verdict' = verdict
        BY <3>1 DEF WiresTypeOK
      <3>2. CASE Network!Accept(m)
        BY <3>2, AcceptKept
      <3>. QED  BY <2>1, <3>1, <3>2
    <2>3. /\ Kept /\ WiresTypeOK' /\ record'[m] = "Dropped" /\ pending' = {}
          /\ \A n \in Message \ {m} : record[n] = "None" => record'[n] = "None"
      BY <2>1, <2>2, AbortWires
    <2>4. ~HandedOver(m, sent, answers)
      <3>1. SUFFICES ASSUME HandedOver(m, sent, answers)
                     PROVE  FALSE
        OBVIOUS
      <3>2. record' = [record EXCEPT ![m] = "Delivered"]
        BY <3>1 DEF HandedOver
      <3>3. record'[m] = "Delivered"
        BY <3>2 DEF WiresTypeOK
      <3>. QED  BY <2>3, <3>3
    <2>5. \A n \in Message \ {m} : verdict'[n] = verdict[n]
      BY <2>1, AcceptKept
    <2>. QED  BY <2>3, <2>4, <2>5, VerdictFacts
  <1>. QED  BY <1>1, <1>2, <1>3, <1>4 DEF Post

--------------------------------------------------------------------------------
(* Sending, and what arrives.                                               *)

DataTypeOK ==
    /\ request \in [Order -> Request]
    /\ queue \in [Order -> Nat] /\ applied \subseteq Order
    /\ acks \in [Order -> Ack]
    /\ WiresTypeOK

Safe == DataTypeOK /\ RequestsGood /\ Booked /\ EnteredOnce

\* Requests that messages ms may be sent for, or have arrived for.
MaySend(ms, requests) ==
    /\ requests \in [Order -> Request]
    /\ \A o \in Order :
           /\ Good(o, requests[o], Heard)
           /\ Grows(request[o], requests[o])
           /\ Inside(o) => requests[o] = request[o]
           /\ requests[o].status # "None" => record[Ask(o, 1)] # "None" \/ Ask(o, 1) \in ms
           /\ (record[Command(o)] # "None" \/ Command(o) \in ms) /\ requests[o].status = "None"
                => <<>> \in Chains[o]

\* What the next requests owe to these.
Follows(requests) == \A o \in Order :
    /\ Good(o, request'[o], Heard')
    /\ Grows(requests[o], request'[o])
    /\ request'[o].status = "None" <=> requests[o].status = "None"

\* An order that is not inside comes in, once; the others stay.
Entering(ms) == \A o \in Order :
    \/ queue'[o] = queue[o]
    \/ Command(o) \in ms /\ ~Over /\ ~Inside(o) /\ queue'[o] = queue[o] + 1
          /\ request'[o].status \in {"None", "Approved"}

LEMMA ArriveFollows ==
    ASSUME Kept, NEW m \in Message, NEW requests, NEW answers, MaySend({m}, requests),
           m \in Heard', request' = Arrived(m, requests)
    PROVE  request' \in [Order -> Request] /\ Follows(requests)
  <1>1. /\ requests \in [Order -> Request]
        /\ \A o \in Order : Good(o, requests[o], Heard')
    BY GoodStays DEF MaySend, Kept
  <1>2. request' \in [Order -> Request]
    BY <1>1, ArrivedType
  <1>3. Follows(requests)
    BY <1>1, ArrivedGood DEF Follows
  <1>. QED  BY <1>2, <1>3

LEMMA FailFollows ==
    ASSUME Kept, NEW ms, NEW requests, MaySend(ms, requests),
           NEW lost \in SUBSET Message, request' = Failed(lost, requests)
    PROVE  request' \in [Order -> Request] /\ Follows(requests)
  <1>1. /\ requests \in [Order -> Request]
        /\ \A o \in Order : Good(o, requests[o], Heard')
    BY GoodStays DEF MaySend, Kept
  <1>2. request' \in [Order -> Request]
    BY <1>1, FailedType
  <1>3. Follows(requests)
    BY <1>1, FailedGood DEF Follows
  <1>. QED  BY <1>2, <1>3

LEMMA SameFollows ==
    ASSUME Kept, NEW ms, NEW requests, MaySend(ms, requests), request' = requests
    PROVE  request' \in [Order -> Request] /\ Follows(requests)
  <1>1. /\ requests \in [Order -> Request]
        /\ \A o \in Order : Good(o, requests[o], Heard') /\ requests[o] \in Request
    BY GoodStays DEF MaySend, Kept
  <1>. QED  BY <1>1, GrowsSelf DEF Follows

\* A command that arrives puts its order into the simulation only if it waits outside.
LEMMA ArriveEnters ==
    ASSUME DataTypeOK, NEW m \in Message, NEW requests, NEW answers, Arrive(m, requests, answers),
           MaySend({m}, requests),
           \A o \in Order : m = Command(o) => ~Inside(o)
    PROVE  queue' \in [Order -> Nat] /\ Entering({m})
  <1>1. m.of \in Order /\ (m.leg = "order" <=> m = Command(m.of))
    BY MessageFacts
  <1>2. CASE ~Enters(m, requests)
    BY <1>2 DEF Arrive, Entering, DataTypeOK
  <1>3. CASE Enters(m, requests)
    <2>. DEFINE o == m.of
    <2>1. queue' = [queue EXCEPT ![o] = @ + 1] /\ request' = Arrived(m, requests)
      BY <1>3 DEF Arrive
    <2>2. m = Command(o) /\ ~Over /\ (requests[o].status = "None" \/ Awaits(m, requests[o]))
      BY <1>1, <1>3 DEF Enters
    <2>3. request'[o].status \in {"None", "Approved"}
      <3>1. requests[o] \in Request /\ requests \in [Order -> Request]
        BY <1>1 DEF MaySend
      <3>2. CASE Awaits(m, requests[o])
        <4>1. Arrived(m, requests)[o] = Turned(requests[o], "Approved")
          BY <1>1, <2>2, <3>1, <3>2 DEF Arrived
        <4>2. "Approved" \in States
          BY DEF States, Final
        <4>. QED  BY <2>1, <3>1, <4>1, <4>2, TurnedFacts
      <3>3. CASE ~Awaits(m, requests[o])
        <4>1. Arrived(m, requests)[o] = requests[o]
          BY <1>1, <3>1, <3>3 DEF Arrived
        <4>. QED  BY <2>1, <2>2, <3>3, <4>1
      <3>. QED  BY <3>2, <3>3
    <2>4. ~Inside(o)
      BY <1>1, <2>2
    <2>5. \A p \in Order : p # o => queue'[p] = queue[p]
      BY <2>1 DEF DataTypeOK
    <2>6. queue' \in [Order -> Nat] /\ queue'[o] = queue[o] + 1
      BY <1>1, <2>1 DEF DataTypeOK
    <2>. QED  BY <2>2, <2>3, <2>4, <2>5, <2>6 DEF Entering
  <1>. QED  BY <1>2, <1>3

LEMMA StayEnters ==
    ASSUME UNCHANGED queue, NEW ms
    PROVE  Entering(ms)
  BY DEF Entering

\* A step that touches messages ms and follows these requests.
LEMMA SafeAgain ==
    ASSUME Safe, NEW ms \in SUBSET Message, NEW requests, MaySend(ms, requests),
           Kept, WiresTypeOK', request' \in [Order -> Request], Follows(requests),
           queue' \in [Order -> Nat], acks' \in [Order -> Ack], UNCHANGED applied,
           Entering(ms), queue' # queue => ms \subseteq Heard' \ pending',
           \A m \in ms : record'[m] # "None",
           \A n \in Message \ ms : /\ record[n] = "None" => record'[n] = "None"
                                   /\ verdict[n] = "Unsent" => verdict'[n] = "Unsent",
           pending' \subseteq pending \cup (ms \ Near),
           \A o \in Order : Command(o) \in pending' \ pending => ~Inside(o)
    PROVE  Safe' /\ \A o \in Order : Grows(request[o], request'[o])
  <1>1. \A o \in Order : Good(o, request'[o], Heard') /\ Grows(request[o], request'[o])
    <2>. SUFFICES ASSUME NEW o \in Order
                  PROVE  Good(o, request'[o], Heard') /\ Grows(request[o], request'[o])
      OBVIOUS
    <2>1. request[o] \in Request /\ requests[o] \in Request /\ request'[o] \in Request
      BY DEF Safe, DataTypeOK, MaySend
    <2>. QED  BY <2>1, GrowsOn DEF Follows, MaySend
  <1>2. RequestsGood'
    BY <1>1 DEF RequestsGood
  <1>3. Booked'
    <2>1. pending' \cap Near = {}
      BY DEF Safe, Booked
    <2>2. \A n \in pending' : record'[n] # "None"
      BY DEF Safe, Booked, Kept, DataTypeOK, WiresTypeOK
    <2>3. ASSUME NEW o \in Order, request'[o].status # "None"
          PROVE  record'[Ask(o, 1)] # "None"
      <3>1. requests[o].status # "None" /\ Good(o, requests[o], Heard)
        BY <2>3 DEF Follows, MaySend
      <3>2. Ask(o, 1) \in Message
        <4>1. requests[o].steps \in Chains[o] /\ Len(requests[o].steps) > 0
          BY <3>1 DEF Good, Legal, OnItsChain, NoRequest
        <4>2. 1 \in 1..Len(requests[o].steps)
          BY <4>1, ChainFacts
        <4>. QED  BY <4>1, <4>2, AskMessage
      <3>. QED  BY <3>1, <3>2 DEF MaySend, Kept
    <2>4. ASSUME NEW o \in Order, record'[Command(o)] # "None", request'[o].status = "None"
          PROVE  <<>> \in Chains[o]
      <3>1. requests[o].status = "None"
        BY <2>4 DEF Follows
      <3>2. record[Command(o)] # "None" \/ Command(o) \in ms
        BY <2>4, CommandMessage
      <3>. QED  BY <3>1, <3>2 DEF MaySend
    <2>5. \A n \in Message : verdict'[n] # "Unsent" => record'[n] # "None"
      BY DEF Safe, Booked, Kept
    <2>. QED  BY <2>1, <2>2, <2>3, <2>4, <2>5 DEF Booked
  <1>4. EnteredOnce'
    <2>. SUFFICES ASSUME NEW o \in Order
                  PROVE  /\ queue'[o] <= IF o \in applied' THEN 0 ELSE 1
                         /\ Inside(o)' => /\ Command(o) \in Heard' \ pending'
                                          /\ record'[Command(o)] # "None"
                                          /\ request'[o].status \in {"None", "Approved"}
      BY DEF EnteredOnce
    <2>1. Command(o) \in Message
      BY CommandMessage
    <2>2. /\ queue[o] <= IF o \in applied THEN 0 ELSE 1
          /\ queue[o] \in Nat /\ queue'[o] \in Nat
          /\ Inside(o) => /\ Command(o) \in Heard \ pending
                          /\ record[Command(o)] # "None"
                          /\ request[o].status \in {"None", "Approved"}
      BY DEF Safe, EnteredOnce, DataTypeOK
    <2>3. CASE queue'[o] = queue[o]
      <3>1. SUFFICES ASSUME Inside(o)
                     PROVE  /\ Command(o) \in Heard' \ pending'
                            /\ record'[Command(o)] # "None"
                            /\ request'[o].status \in {"None", "Approved"}
        BY <2>2, <2>3 DEF Inside
      <3>2. requests[o] = request[o] /\ requests[o].status \in {"None", "Approved"}
        BY <2>2, <3>1 DEF MaySend
      <3>3. request'[o].status \in {"None", "Approved"}
        <4>1. CASE requests[o].status = "None"
          BY <4>1 DEF Follows
        <4>2. CASE requests[o].status = "Approved"
          BY <4>2 DEF Follows, Grows, Final
        <4>. QED  BY <3>2, <4>1, <4>2
      <3>4. Command(o) \notin pending'
        BY <2>2, <3>1
      <3>. QED  BY <2>1, <2>2, <3>1, <3>3, <3>4 DEF Kept
    <2>4. CASE queue'[o] # queue[o]
      <3>1. /\ Command(o) \in ms /\ ~Inside(o) /\ queue'[o] = queue[o] + 1
            /\ request'[o].status \in {"None", "Approved"}
        BY <2>4 DEF Entering
      <3>2. Command(o) \in Heard' \ pending' /\ record'[Command(o)] # "None"
        BY <2>4, <3>1
      <3>. QED  BY <2>2, <3>1, <3>2 DEF Inside
    <2>. QED  BY <2>3, <2>4
  <1>5. DataTypeOK'
    BY DEF Safe, DataTypeOK
  <1>. QED  BY <1>1, <1>2, <1>3, <1>4, <1>5 DEF Safe

LEMMA PostSafe ==
    ASSUME Safe, NEW m \in Message, NEW sent, NEW unsent, NEW answers \in [Order -> Ack],
           MaySend({m}, sent), MaySend({m}, unsent), Post(m, sent, unsent, answers),
           UNCHANGED applied, \A o \in Order : m = Command(o) => ~Inside(o)
    PROVE  Safe' /\ \A o \in Order : Grows(request[o], request'[o])
  <1>1. WiresTypeOK /\ DataTypeOK
    BY DEF Safe, DataTypeOK
  <1>2. /\ Kept /\ WiresTypeOK' /\ record'[m] # "None"
        /\ pending' \subseteq pending \cup ({m} \ Near)
        /\ \A n \in Message \ {m} : /\ record[n] = "None" => record'[n] = "None"
                                    /\ verdict[n] = "Unsent" => verdict'[n] = "Unsent"
    BY <1>1, PostWires
  <1>3. \A o \in Order : Command(o) \in pending' \ pending => ~Inside(o)
    BY <1>2
  <1>. DEFINE Once(requests) ==
                  /\ request' \in [Order -> Request] /\ Follows(requests)
                  /\ queue' \in [Order -> Nat] /\ acks' \in [Order -> Ack]
                  /\ Entering({m})
                  /\ queue' # queue => {m} \subseteq Heard' \ pending'
  <1>4. ASSUME NEW requests, MaySend({m}, requests), Once(requests)
        PROVE  Safe' /\ \A o \in Order : Grows(request[o], request'[o])
    <2>. DEFINE ms == {m}
    <2>1. /\ ms \in SUBSET Message /\ MaySend(ms, requests)
          /\ Entering(ms) /\ \A n \in ms : record'[n] # "None"
          /\ pending' \subseteq pending \cup (ms \ Near)
          /\ \A n \in Message \ ms : /\ record[n] = "None" => record'[n] = "None"
                                     /\ verdict[n] = "Unsent" => verdict'[n] = "Unsent"
      BY <1>2, <1>4
    <2>2. queue' # queue => ms \subseteq Heard' \ pending'
      BY <1>4
    <2>. HIDE DEF ms
    <2>. QED  BY <1>2, <1>3, <1>4, <2>1, <2>2, SafeAgain
  <1>5. CASE Accepted(m, sent, answers)
    <2>1. request' = sent /\ acks' = answers /\ queue' = queue
      BY <1>5 DEF Accepted
    <2>2. request' \in [Order -> Request] /\ Follows(sent)
      BY <1>2, <2>1, SameFollows
    <2>3. Once(sent)
      BY <1>1, <2>1, <2>2, StayEnters DEF DataTypeOK
    <2>. QED  BY <1>4, <2>3
  <1>6. CASE HandedOver(m, sent, answers)
    <2>1. Arrive(m, sent, answers) /\ m \in Near
      BY <1>6 DEF HandedOver
    <2>2. m \in Heard' /\ pending' = pending
      BY <1>1, <1>6, PostWires
    <2>3. m \notin pending'
      BY <2>1, <2>2 DEF Safe, Booked
    <2>4. request' = Arrived(m, sent) /\ acks' = Received(m, answers)
      BY <2>1 DEF Arrive
    <2>5. request' \in [Order -> Request] /\ Follows(sent)
      BY <1>2, <2>2, <2>4, ArriveFollows
    <2>6. queue' \in [Order -> Nat] /\ Entering({m})
      BY <1>1, <2>1, ArriveEnters
    <2>7. acks' \in [Order -> Ack]
      BY <2>4 DEF Received, Ack
    <2>8. Once(sent)
      BY <2>2, <2>3, <2>5, <2>6, <2>7
    <2>. QED  BY <1>4, <2>8
  <1>7. CASE NoRoute(m, unsent, answers)
    <2>1. request' = unsent /\ acks' = answers /\ queue' = queue
      BY <1>7 DEF NoRoute
    <2>2. request' \in [Order -> Request] /\ Follows(unsent)
      BY <1>2, <2>1, SameFollows
    <2>3. Once(unsent)
      BY <1>1, <2>1, <2>2, StayEnters DEF DataTypeOK
    <2>. QED  BY <1>4, <2>3
  <1>8. CASE Unrecorded(m, unsent, answers)
    <2>1. request' = Failed(pending, unsent) /\ acks' = answers /\ queue' = queue
      BY <1>8 DEF Unrecorded, Abort
    <2>2. request' \in [Order -> Request] /\ Follows(unsent)
      BY <1>1, <1>2, <2>1, FailFollows DEF WiresTypeOK
    <2>3. Once(unsent)
      BY <1>1, <2>1, <2>2, StayEnters DEF DataTypeOK
    <2>. QED  BY <1>4, <2>3
  <1>. QED  BY <1>5, <1>6, <1>7, <1>8 DEF Post

--------------------------------------------------------------------------------
(* Events of the network.                                                   *)

LEMMA MaySendSame ==
    ASSUME Safe, NEW ms, \A m \in ms : record[m] # "None"
    PROVE  MaySend(ms, request)
  <1>1. \A o \in Order : Grows(request[o], request[o])
    BY GrowsSelf DEF Safe, DataTypeOK
  <1>. QED  BY <1>1 DEF MaySend, Safe, DataTypeOK, RequestsGood, Booked

LEMMA EventSafe ==
    ASSUME Safe, NEW m \in Message, record[m] # "None", Kept, WiresTypeOK',
           request' \in [Order -> Request], Follows(request),
           queue' \in [Order -> Nat], acks' \in [Order -> Ack], UNCHANGED applied,
           Entering({m}), queue' # queue => {m} \subseteq Heard' \ pending',
           \A n \in Message \ {m} : /\ record[n] = "None" => record'[n] = "None"
                                    /\ verdict[n] = "Unsent" => verdict'[n] = "Unsent",
           pending' \subseteq pending
    PROVE  Safe' /\ \A o \in Order : Grows(request[o], request'[o])
  <1>. DEFINE ms == {m}
  <1>0. /\ \A n \in ms : record[n] # "None"
        /\ \A n \in ms : record'[n] # "None"
    BY DEF Kept
  <1>1. /\ ms \in SUBSET Message /\ Entering(ms)
        /\ pending' \subseteq pending \cup (ms \ Near)
        /\ \A n \in Message \ ms : /\ record[n] = "None" => record'[n] = "None"
                                   /\ verdict[n] = "Unsent" => verdict'[n] = "Unsent"
        /\ \A o \in Order : Command(o) \in pending' \ pending => ~Inside(o)
    OBVIOUS
  <1>2. queue' # queue => ms \subseteq Heard' \ pending'
    OBVIOUS
  <1>. HIDE DEF ms
  <1>3. MaySend(ms, request)
    BY <1>0, MaySendSame
  <1>4. PICK requests : requests = request
    OBVIOUS
  <1>5. MaySend(ms, requests) /\ Follows(requests)
    BY <1>3, <1>4 DEF Follows
  <1>. QED  BY <1>0, <1>1, <1>2, <1>5, SafeAgain

\* An event that moves no request and nothing into the simulation.
LEMMA SilentSafe ==
    ASSUME Safe, NEW m \in Message, record[m] # "None", Kept, WiresTypeOK',
           NEW lost \in SUBSET Message, request' = request \/ request' = Failed(lost, request),
           UNCHANGED <<queue, acks, applied>>,
           \A n \in Message \ {m} : /\ record[n] = "None" => record'[n] = "None"
                                    /\ verdict[n] = "Unsent" => verdict'[n] = "Unsent",
           pending' \subseteq pending
    PROVE  Safe' /\ \A o \in Order : Grows(request[o], request'[o])
  <1>1. MaySend({m}, request)
    BY MaySendSame
  <1>2. request' \in [Order -> Request] /\ Follows(request)
    BY <1>1, SameFollows, FailFollows
  <1>3. queue' \in [Order -> Nat] /\ acks' \in [Order -> Ack]
    BY DEF Safe, DataTypeOK
  <1>4. Entering({m})
    BY StayEnters
  <1>. QED  BY <1>2, <1>3, <1>4, EventSafe

LEMMA NotedSafe ==
    ASSUME Safe, NEW m \in Message, Happens(m), Noted(m), UNCHANGED applied
    PROVE  Safe' /\ \A o \in Order : Grows(request[o], request'[o])
  <1>1. WiresTypeOK /\ DataTypeOK
    BY DEF Safe, DataTypeOK
  <1>2. /\ verdict' \in [Message -> Network!Verdict]
        /\ verdict'[m] \in {"InTransit"} \cup Told \cup {"Expired", "Dropped"}
        /\ verdict[m] \in Told => verdict'[m] \in Told
        /\ verdict[m] # "Unsent"
        /\ \A n \in Message \ {m} : verdict'[n] = verdict[n]
    BY <1>1, HappensKept
  <1>3. record[m] # "None"
    BY <1>2 DEF Safe, Booked
  <1>4. record' = [record EXCEPT ![m] = verdict'[m]]
    BY DEF Noted
  <1>5. /\ record' \in [Message -> Recorded] /\ record'[m] = verdict'[m]
        /\ \A n \in Message \ {m} : record'[n] = record[n]
    BY <1>1, <1>2, <1>4 DEF WiresTypeOK, Recorded, Told, Open, Lost
  <1>6. record'[m] # "None" /\ (verdict'[m] \in Told => record'[m] \notin Open)
    BY <1>2, <1>5, VerdictFacts DEF Lost
  <1>7. Kept
    BY <1>1, <1>2, <1>5, <1>6, KeptFrom
  <1>8. /\ \A n \in Message \ {m} : /\ record[n] = "None" => record'[n] = "None"
                                    /\ verdict[n] = "Unsent" => verdict'[n] = "Unsent"
    BY <1>2, <1>5
  <1>. DEFINE over == m \in pending /\ verdict'[m] \in {"Delivered"} \cup Lost
  <1>9. CASE ~over
    <2>1. UNCHANGED <<pending, request, queue, acks>>
      BY <1>9 DEF Noted
    <2>2. WiresTypeOK'
      BY <1>1, <1>2, <1>5, <2>1 DEF WiresTypeOK
    <2>. QED  BY <1>3, <1>7, <1>8, <2>1, <2>2, SilentSafe
  <1>10. CASE over /\ verdict'[m] # "Delivered"
    <2>1. /\ pending' = pending \ {m} /\ request' = Failed({m}, request)
          /\ UNCHANGED <<queue, acks>>
      BY <1>10 DEF Noted
    <2>2. WiresTypeOK'
      BY <1>1, <1>2, <1>5, <2>1 DEF WiresTypeOK
    <2>3. pending' \subseteq pending /\ {m} \in SUBSET Message
      BY <2>1
    <2>. QED  BY <1>3, <1>7, <1>8, <2>1, <2>2, <2>3, SilentSafe
  <1>11. CASE over /\ verdict'[m] = "Delivered"
    <2>1. pending' = pending \ {m} /\ Arrive(m, request, acks) /\ m \in pending
      BY <1>11 DEF Noted
    <2>2. WiresTypeOK'
      BY <1>1, <1>2, <1>5, <2>1 DEF WiresTypeOK
    <2>3. m \in Heard' \ pending'
      BY <1>5, <1>6, <1>11, <2>1, VerdictFacts DEF Heard
    <2>4. MaySend({m}, request)
      BY <1>3, MaySendSame
    <2>5. request' = Arrived(m, request) /\ acks' = Received(m, acks)
      BY <2>1 DEF Arrive
    <2>6. request' \in [Order -> Request] /\ Follows(request)
      BY <1>7, <2>3, <2>4, <2>5, ArriveFollows
    <2>7. \A o \in Order : m = Command(o) => ~Inside(o)
      BY <2>1 DEF Safe, EnteredOnce
    <2>8. queue' \in [Order -> Nat] /\ Entering({m})
      BY <1>1, <2>1, <2>4, <2>7, ArriveEnters
    <2>9. acks' \in [Order -> Ack]
      BY <1>1, <2>5 DEF Received, Ack, DataTypeOK
    <2>10. pending' \subseteq pending /\ {m} \subseteq Heard' \ pending'
      BY <2>1, <2>3
    <2>. QED  BY <1>3, <1>7, <1>8, <2>2, <2>6, <2>8, <2>9, <2>10, EventSafe
  <1>. QED  BY <1>9, <1>10, <1>11

LEMMA AbortSafe ==
    ASSUME Safe, NEW m \in Message, record[m] # "None", Abort(request, {m}),
           verdict' \in [Message -> Network!Verdict],
           \A n \in Message \ Near : verdict[n] \in Told /\ record[n] \notin Open
                => verdict'[n] \in Told,
           \A n \in Message \ {m} : verdict'[n] = verdict[n],
           UNCHANGED <<queue, acks, applied>>
    PROVE  Safe' /\ \A o \in Order : Grows(request[o], request'[o])
  <1>1. WiresTypeOK
    BY DEF Safe, DataTypeOK
  <1>2. /\ Kept /\ WiresTypeOK' /\ pending' = {}
        /\ \A n \in Message \ {m} : record[n] = "None" => record'[n] = "None"
    BY <1>1, AbortWires
  <1>3. request' = Failed(pending, request) /\ pending \in SUBSET Message
    BY <1>1 DEF Abort, WiresTypeOK
  <1>. QED  BY <1>2, <1>3, SilentSafe

LEMMA PacketEventSafe ==
    ASSUME Safe, NEW m \in Message, PacketEvent(m)
    PROVE  Safe' /\ \A o \in Order : Grows(request[o], request'[o])
  <1>1. Happens(m) /\ UNCHANGED applied
    BY DEF PacketEvent, Happens
  <1>2. CASE Noted(m)
    BY <1>1, <1>2, NotedSafe
  <1>3. CASE Abort(request, {m}) /\ UNCHANGED <<queue, acks>>
    <2>1. WiresTypeOK
      BY DEF Safe, DataTypeOK
    <2>2. record[m] # "None"
      BY VerdictFacts DEF PacketEvent
    <2>3. \A n \in Message \ Near : verdict[n] \in Told /\ record[n] \notin Open
                => verdict'[n] \in Told
      BY <1>1, <2>1, HappensKept
    <2>. QED  BY <1>1, <1>3, <2>1, <2>2, <2>3, HappensKept, AbortSafe
  <1>. QED  BY <1>2, <1>3 DEF PacketEvent

LEMMA RadioEventSafe ==
    ASSUME Safe, NEW m \in Message, RadioEvent(m)
    PROVE  Safe' /\ \A o \in Order : Grows(request[o], request'[o])
  <1>1. Happens(m) /\ Noted(m) /\ UNCHANGED applied
    BY DEF RadioEvent
  <1>. QED  BY <1>1, NotedSafe

LEMMA DeliveryUnrecordedSafe ==
    ASSUME Safe, NEW m \in Message, DeliveryUnrecorded(m) \/ UnheardEvent(m)
    PROVE  Safe' /\ \A o \in Order : Grows(request[o], request'[o])
  <1>1. /\ Happens(m) /\ UNCHANGED <<request, pending, queue, applied, acks>>
        /\ record' = [record EXCEPT ![m] = "Dropped"] \/ record' = record
    BY DEF DeliveryUnrecorded, UnheardEvent, world
  <1>2. WiresTypeOK
    BY DEF Safe, DataTypeOK
  <1>3. /\ verdict' \in [Message -> Network!Verdict]
        /\ verdict[m] \in Told => verdict'[m] \in Told
        /\ verdict[m] # "Unsent"
        /\ \A n \in Message \ {m} : verdict'[n] = verdict[n]
    BY <1>1, <1>2, HappensKept
  <1>4. record[m] # "None"
    BY <1>3 DEF Safe, Booked
  <1>5. /\ record' \in [Message -> Recorded]
        /\ \A n \in Message : record'[n] = record[n] \/ (n = m /\ record'[n] = "Dropped")
    BY <1>1, <1>2, VerdictFacts DEF WiresTypeOK
  <1>6. Kept
    BY <1>2, <1>3, <1>5, VerdictFacts, KeptFrom
  <1>7. WiresTypeOK'
    BY <1>1, <1>2, <1>3, <1>5 DEF WiresTypeOK
  <1>8. {} \in SUBSET Message /\ pending' \subseteq pending
    BY <1>1
  <1>. QED  BY <1>1, <1>3, <1>4, <1>5, <1>6, <1>7, <1>8, SilentSafe

LEMMA FinishReportingSafe ==
    ASSUME Safe, NEW m \in Message, FinishReporting(m)
    PROVE  Safe' /\ \A o \in Order : Grows(request[o], request'[o])
  <1>1. WiresTypeOK
    BY DEF Safe, DataTypeOK
  <1>2. /\ record[m] \in Open /\ record[m] # "None" /\ UNCHANGED <<queue, acks, applied>>
        /\ Network!Cancel(m) \/ verdict' = verdict
    BY VerdictFacts DEF FinishReporting, world
  <1>3. /\ verdict' \in [Message -> Network!Verdict]
        /\ \A n \in Message \ {m} : verdict'[n] = verdict[n]
    BY <1>1, <1>2, CancelKept DEF WiresTypeOK
  <1>4. CASE Abort(request, {m})
    <2>1. \A n \in Message \ Near : verdict[n] \in Told /\ record[n] \notin Open
                => verdict'[n] \in Told
      BY <1>2, <1>3
    <2>. QED  BY <1>2, <1>3, <1>4, <2>1, AbortSafe
  <1>5. CASE /\ record' = [record EXCEPT ![m] = "Dropped"]
             /\ pending' = pending \ {m}
             /\ request' = Failed({m} \cap pending, request)
    <2>1. /\ record' \in [Message -> Recorded] /\ record'[m] = "Dropped"
          /\ \A n \in Message \ {m} : record'[n] = record[n]
      BY <1>1, <1>5, VerdictFacts DEF WiresTypeOK
    <2>2. Kept
      BY <1>1, <1>2, <1>3, <2>1, VerdictFacts, KeptFrom
    <2>3. WiresTypeOK'
      BY <1>1, <1>3, <1>5, <2>1 DEF WiresTypeOK
    <2>4. ({m} \cap pending) \in SUBSET Message /\ pending' \subseteq pending
      BY <1>5
    <2>. QED  BY <1>2, <1>3, <1>5, <2>1, <2>2, <2>3, <2>4, SilentSafe
  <1>. QED  BY <1>4, <1>5 DEF FinishReporting

--------------------------------------------------------------------------------
(* What the roles, the host and the loop do.                                *)

LEMMA SafeFacts ==
    ASSUME Safe, NEW o \in Order
    PROVE  /\ request[o] \in Request /\ Good(o, request[o], Heard)
           /\ acks[o] \in Ack /\ queue[o] \in Nat
           /\ Inside(o) => record[Command(o)] # "None" /\ request[o].status \in {"None", "Approved"}
           /\ request[o].status = "None" => request[o] = NoRequest
  BY DEF Safe, DataTypeOK, RequestsGood, EnteredOnce, Good, Legal

\* An order that is on its way to nobody has no request and is not inside.
LEMMA FreshFacts ==
    ASSUME Safe, NEW o \in Order, Fresh(o)
    PROVE  request[o] = NoRequest /\ ~Inside(o)
  <1>1. record[Command(o)] = "None" /\ \A m \in Asks(o) : record[m] = "None"
    BY DEF Fresh
  <1>2. request[o].status = "None"
    <2>. SUFFICES ASSUME request[o].status # "None"
                  PROVE  FALSE
      OBVIOUS
    <2>1. request[o].steps \in Chains[o] /\ Len(request[o].steps) > 0
      BY SafeFacts DEF Good, Legal, NoRequest, OnItsChain
    <2>2. 1 \in 1..Len(request[o].steps)
      BY <2>1, ChainFacts
    <2>3. Ask(o, 1) \in Asks(o)
      BY <2>1, <2>2 DEF Asks
    <2>. QED  BY <1>1, <2>3 DEF Safe, Booked
  <1>. QED  BY <1>1, <1>2, SafeFacts

LEMMA StillSafe ==
    ASSUME Safe, UNCHANGED <<request, wires, queue, applied>>, acks' \in [Order -> Ack]
    PROVE  Safe' /\ \A o \in Order : Grows(request[o], request'[o])
  <1>1. request' = request /\ pending' = pending /\ record' = record /\ verdict' = verdict
        /\ queue' = queue /\ applied' = applied
    BY DEF wires
  <1>2. Heard' = Heard /\ DataTypeOK'
    BY <1>1 DEF Heard, Safe, DataTypeOK, WiresTypeOK
  <1>3. RequestsGood' /\ Booked'
    BY <1>1, <1>2 DEF Safe, RequestsGood, Booked
  <1>4. EnteredOnce'
    BY <1>1, <1>2 DEF Safe, EnteredOnce, Inside
  <1>5. \A o \in Order : Grows(request[o], request'[o])
    BY <1>1, GrowsSelf, SafeFacts
  <1>. QED  BY <1>2, <1>3, <1>4, <1>5 DEF Safe

\* One request changes.
LEMMA ChangeMaySend ==
    ASSUME Safe, NEW o \in Order, NEW s, Good(o, s, Heard), Grows(request[o], s),
           s.status # "None", ~Inside(o), NEW ms,
           request[o].status # "None" \/ Ask(o, 1) \in ms,
           \A p \in Order : Command(p) \in ms => p = o
    PROVE  MaySend(ms, [request EXCEPT ![o] = s])
  <1>. DEFINE requests == [request EXCEPT ![o] = s]
  <1>1. /\ requests \in [Order -> Request] /\ requests[o] = s
        /\ \A p \in Order : p # o => requests[p] = request[p]
    BY DEF Safe, DataTypeOK, Good
  <1>. HIDE DEF requests
  <1>2. ASSUME NEW p \in Order
        PROVE  /\ Good(p, requests[p], Heard)
               /\ Grows(request[p], requests[p])
               /\ Inside(p) => requests[p] = request[p]
               /\ requests[p].status # "None" => record[Ask(p, 1)] # "None" \/ Ask(p, 1) \in ms
               /\ (record[Command(p)] # "None" \/ Command(p) \in ms) /\ requests[p].status = "None"
                      => <<>> \in Chains[p]
    <2>1. CASE p = o
      BY <1>1, <2>1 DEF Safe, Booked
    <2>2. CASE p # o
      <3>1. requests[p] = request[p] /\ Command(p) \notin ms
        BY <1>1, <2>2
      <3>2. Grows(request[p], request[p])
        BY SafeFacts, GrowsSelf
      <3>. QED  BY <3>1, <3>2, SafeFacts DEF Safe, Booked
    <2>. QED  BY <2>1, <2>2
  <1>3. MaySend(ms, requests)
    BY <1>1, <1>2 DEF MaySend
  <1>. QED  BY <1>3 DEF requests

LEMMA RequestSafe ==
    ASSUME Safe, NEW requests, MaySend({}, requests), request' = requests,
           UNCHANGED <<wires, queue, applied, acks>>
    PROVE  Safe' /\ \A o \in Order : Grows(request[o], request'[o])
  <1>1. pending' = pending /\ record' = record /\ verdict' = verdict /\ queue' = queue
        /\ acks' = acks
    BY DEF wires
  <1>2. Heard' = Heard /\ WiresTypeOK' /\ Kept
    BY <1>1 DEF Heard, Safe, DataTypeOK, WiresTypeOK, Kept
  <1>3. request' \in [Order -> Request] /\ Follows(requests)
    BY <1>2, SameFollows
  <1>. DEFINE ms == {}
  <1>4. /\ ms \in SUBSET Message /\ MaySend(ms, requests)
        /\ pending' \subseteq pending \cup (ms \ Near)
        /\ \A n \in ms : record'[n] # "None"
        /\ \A n \in Message \ ms : /\ record[n] = "None" => record'[n] = "None"
                                   /\ verdict[n] = "Unsent" => verdict'[n] = "Unsent"
        /\ \A o \in Order : Command(o) \in pending' \ pending => ~Inside(o)
        /\ queue' # queue => ms \subseteq Heard' \ pending'
    BY <1>1
  <1>5. Entering(ms)
    BY <1>1, StayEnters
  <1>6. queue' \in [Order -> Nat] /\ acks' \in [Order -> Ack]
    BY <1>1 DEF Safe, DataTypeOK
  <1>. HIDE DEF ms
  <1>. QED  BY <1>2, <1>3, <1>4, <1>5, <1>6, SafeAgain

LEMMA ChangeSafe ==
    ASSUME Safe, NEW o \in Order, NEW s, Good(o, s, Heard), Grows(request[o], s),
           s.status # "None", request[o].status \notin {"None", "Approved"},
           request' = [request EXCEPT ![o] = s],
           UNCHANGED <<wires, queue, applied, acks>>
    PROVE  Safe' /\ \A p \in Order : Grows(request[p], request'[p])
  <1>1. ~Inside(o)
    BY SafeFacts
  <1>. DEFINE ms == {}
  <1>2. \A p \in Order : Command(p) \in ms => p = o
    OBVIOUS
  <1>. HIDE DEF ms
  <1>3. MaySend(ms, [request EXCEPT ![o] = s])
    BY <1>1, <1>2, ChangeMaySend
  <1>4. PICK requests : requests = [request EXCEPT ![o] = s]
    OBVIOUS
  <1>5. MaySend({}, requests) /\ request' = requests
    BY <1>3, <1>4 DEF ms
  <1>. QED  BY <1>5, RequestSafe

LEMMA ForwardSafe ==
    ASSUME Safe, NEW o \in Order, request[o].status \in Undecided,
           NEW approved \in BOOLEAN, NEW automatic \in BOOLEAN, NEW from, NEW to,
           Forward(o, from, to, Onward(request[o], approved, automatic)), UNCHANGED applied
    PROVE  approved => Safe' /\ \A p \in Order : Grows(request[p], request'[p])
  <1>. DEFINE n == Onward(request[o], approved, automatic)
              m == Awaited(o, n)
              go == Turned(n, "InTransit")
              no == Turned(n, "BlockedComms")
  <1>1. request[o] \in Request /\ Good(o, request[o], Heard)
    BY SafeFacts
  <1>2. approved => Passed(o, request[o], n, go, "InTransit", Heard)
    BY <1>1, OnwardGood
  <1>3. approved => Passed(o, request[o], n, no, "BlockedComms", Heard)
    BY <1>1, OnwardGood
  <1>4. SUFFICES ASSUME approved
                 PROVE  Safe' /\ \A p \in Order : Grows(request[p], request'[p])
    OBVIOUS
  <1>5. /\ m \in Message /\ m \in {Ask(o, request[o].step + 1), Command(o)}
        /\ Good(o, go, Heard) /\ Grows(request[o], go) /\ go.status = "InTransit"
        /\ Good(o, no, Heard) /\ Grows(request[o], no) /\ no.status = "BlockedComms"
    BY <1>2, <1>3, <1>4 DEF Passed
  <1>6. ~Inside(o) /\ request[o].status \notin {"None", "Approved"}
    BY SafeFacts DEF Undecided, Waiting
  <1>. DEFINE sent == [request EXCEPT ![o] = go]
              unsent == [request EXCEPT ![o] = no]
  <1>7. \/ Post(m, sent, unsent, acks)
        \/ request' = unsent /\ UNCHANGED <<wires, queue, acks>>
    BY DEF Forward
  <1>. HIDE DEF n, m, go, no
  <1>8. CASE request' = unsent /\ UNCHANGED <<wires, queue, acks>>
    BY <1>5, <1>6, <1>8, ChangeSafe
  <1>9. CASE Post(m, sent, unsent, acks)
    <2>. DEFINE ms == {m}
    <2>1. \A p \in Order : Command(p) \in ms => p = o
      BY <1>5, Distinct
    <2>. HIDE DEF ms
    <2>2. MaySend(ms, sent) /\ MaySend(ms, unsent)
      BY <1>5, <1>6, <2>1, ChangeMaySend
    <2>3. MaySend({m}, sent) /\ MaySend({m}, unsent)
      BY <2>2 DEF ms
    <2>4. \A p \in Order : m = Command(p) => ~Inside(p)
      BY <1>6, <2>1 DEF ms
    <2>5. acks \in [Order -> Ack]
      BY DEF Safe, DataTypeOK
    <2>. HIDE DEF sent, unsent
    <2>6. PICK s, u, a : s = sent /\ u = unsent /\ a = acks
      OBVIOUS
    <2>7. MaySend({m}, s) /\ MaySend({m}, u) /\ a \in [Order -> Ack] /\ Post(m, s, u, a)
      BY <1>9, <2>3, <2>5, <2>6
    <2>. QED  BY <1>5, <2>4, <2>7, PostSafe
  <1>. QED  BY <1>7, <1>8, <1>9

LEMMA AdvanceSafe ==
    ASSUME Safe, NEW o \in Order, request[o].status \in Undecided,
           NEW approved \in BOOLEAN, NEW automatic \in BOOLEAN,
           Advance(o, approved, automatic), UNCHANGED applied
    PROVE  Safe' /\ \A p \in Order : Grows(request[p], request'[p])
  <1>. DEFINE r == request[o]
              denied == Turned(Said(r, approved, automatic), "Denied")
              next == Onward(r, approved, automatic)
              done == Turned(next, "ApprovedNoExecutor")
  <1>1. r \in Request /\ Good(o, r, Heard) /\ r.status \notin {"None", "Approved"}
    BY SafeFacts DEF Undecided, Waiting
  <1>2. ~approved => Good(o, denied, Heard) /\ Grows(r, denied) /\ denied.status = "Denied"
    BY <1>1, DeniedGood
  <1>3. approved => Passed(o, r, next, done, "ApprovedNoExecutor", Heard)
    BY <1>1, OnwardGood
  <1>4. \/ /\ ~approved /\ request' = [request EXCEPT ![o] = denied]
           /\ UNCHANGED <<wires, queue, acks>>
        \/ approved /\ \E to : Forward(o, Decider(r), to, next)
        \/ /\ approved /\ request' = [request EXCEPT ![o] = done]
           /\ UNCHANGED <<wires, queue, acks>>
    BY DEF Advance, Said, Onward
  <1>5. ASSUME NEW to, approved, Forward(o, Decider(r), to, next)
        PROVE  Safe' /\ \A p \in Order : Grows(request[p], request'[p])
    BY <1>5, ForwardSafe
  <1>. HIDE DEF denied, next, done
  <1>6. CASE /\ ~approved /\ request' = [request EXCEPT ![o] = denied]
             /\ UNCHANGED <<wires, queue, acks>>
    BY <1>1, <1>2, <1>6, ChangeSafe
  <1>7. CASE /\ approved /\ request' = [request EXCEPT ![o] = done]
             /\ UNCHANGED <<wires, queue, acks>>
    <2>1. Good(o, done, Heard) /\ Grows(r, done) /\ done.status = "ApprovedNoExecutor"
      BY <1>3, <1>7 DEF Passed
    <2>. QED  BY <1>1, <1>7, <2>1, ChangeSafe
  <1>. QED  BY <1>4, <1>5, <1>6, <1>7

LEMMA SubmitDirectSafe ==
    ASSUME Safe, NEW o \in Order, Fresh(o), <<>> \in Chains[o],
           Post(Command(o), request, request, acks), UNCHANGED applied
    PROVE  Safe' /\ \A p \in Order : Grows(request[p], request'[p])
  <1>1. /\ Command(o) \in Message /\ request[o] = NoRequest /\ ~Inside(o)
        /\ acks \in [Order -> Ack]
    BY CommandMessage, FreshFacts DEF Safe, DataTypeOK
  <1>2. MaySend({Command(o)}, request)
    <2>1. \A p \in Order : Grows(request[p], request[p])
      BY SafeFacts, GrowsSelf
    <2>2. \A p \in Order : Command(p) \in {Command(o)} => p = o
      BY Distinct
    <2>. QED  BY <2>1, <2>2 DEF MaySend, Safe, DataTypeOK, RequestsGood, Booked
  <1>3. \A p \in Order : Command(o) = Command(p) => ~Inside(p)
    BY <1>1, Distinct
  <1>4. PICK m, s, a : m = Command(o) /\ s = request /\ a = acks
    OBVIOUS
  <1>5. MaySend({m}, s) /\ Post(m, s, s, a)
    BY <1>2, <1>4
  <1>. QED  BY <1>1, <1>3, <1>4, <1>5, PostSafe

LEMMA SubmitAskSafe ==
    ASSUME Safe, NEW o \in Order, Fresh(o), NEW chain \in Chains[o], chain # <<>>,
           Post(Ask(o, 1), [request EXCEPT ![o] = Asking(chain)], request, acks),
           UNCHANGED applied
    PROVE  Safe' /\ \A p \in Order : Grows(request[p], request'[p])
  <1>. DEFINE s == Asking(chain)
  <1>1. /\ Ask(o, 1) \in Message /\ request[o] = NoRequest /\ ~Inside(o)
        /\ acks \in [Order -> Ack]
        /\ Good(o, s, Heard) /\ Grows(request[o], s) /\ s.status # "None"
    BY FreshFacts, AskingGood DEF Safe, DataTypeOK
  <1>. HIDE DEF s
  <1>. DEFINE ms == {Ask(o, 1)}
  <1>2. Ask(o, 1) \in ms /\ \A p \in Order : Command(p) \notin ms
    BY Distinct
  <1>. HIDE DEF ms
  <1>3. MaySend(ms, [request EXCEPT ![o] = s])
    BY <1>1, <1>2, ChangeMaySend
  <1>4. MaySend(ms, request)
    <2>1. \A p \in Order : Grows(request[p], request[p])
      BY SafeFacts, GrowsSelf
    <2>. QED  BY <1>2, <2>1 DEF MaySend, Safe, DataTypeOK, RequestsGood, Booked
  <1>5. \A p \in Order : Ask(o, 1) # Command(p)
    BY <1>2 DEF ms
  <1>6. PICK m, sent, unsent, a : /\ m = Ask(o, 1) /\ sent = [request EXCEPT ![o] = s]
                                  /\ unsent = request /\ a = acks
    OBVIOUS
  <1>7. MaySend({m}, sent) /\ MaySend({m}, unsent)
    BY <1>3, <1>4, <1>6 DEF ms
  <1>8. Post(m, sent, unsent, a)
    BY <1>6 DEF s
  <1>. QED  BY <1>1, <1>5, <1>6, <1>7, <1>8, PostSafe

LEMMA SubmitSafe ==
    ASSUME Safe, NEW o \in Order, Submit(o) \/ SubmitSatellite(o)
    PROVE  Safe' /\ \A p \in Order : Grows(request[p], request'[p])
  <1>1. Fresh(o) /\ UNCHANGED applied
    BY DEF Submit, SubmitSatellite
  <1>2. CASE Submit(o)
    <2>1. PICK chain \in Chains[o] :
              IF chain = <<>> THEN Post(Command(o), request, request, acks)
              ELSE Post(Ask(o, 1), [request EXCEPT ![o] = Asking(chain)], request, acks)
      BY <1>2 DEF Submit
    <2>2. CASE chain = <<>>
      BY <1>1, <2>1, <2>2, SubmitDirectSafe
    <2>3. CASE chain # <<>>
      BY <1>1, <2>1, <2>3, SubmitAskSafe
    <2>. QED  BY <2>2, <2>3
  <1>3. CASE SubmitSatellite(o)
    <2>1. PICK chain \in Chains[o] :
              Post(Ask(o, 1), [request EXCEPT ![o] = Asking(chain)], request, acks)
      BY <1>3 DEF SubmitSatellite
    <2>2. chain # <<>>
      BY <1>3, FlowAssumption DEF SubmitSatellite
    <2>. QED  BY <1>1, <2>1, <2>2, SubmitAskSafe
  <1>. QED  BY <1>2, <1>3

LEMMA DecideSafe ==
    ASSUME Safe, NEW o \in Order, NEW approved \in BOOLEAN, Decide(o, approved)
    PROVE  Safe' /\ \A p \in Order : Grows(request[p], request'[p])
  <1>1. /\ request[o].status \in Undecided /\ UNCHANGED applied
        /\ Advance(o, approved, FALSE) /\ FALSE \in BOOLEAN
    BY DEF Decide, MayDecide, Undecided
  <1>2. PICK automatic \in BOOLEAN : Advance(o, approved, automatic)
    BY <1>1
  <1>. QED  BY <1>1, <1>2, AdvanceSafe

LEMMA TurnSafe ==
    ASSUME Safe, NEW o \in Order, request[o].status \in Undecided,
           NEW state \in Undecided \cup {"ApprovedNoExecutor", "DeniedExternal"},
           request' = [request EXCEPT ![o] = Turned(request[o], state)],
           UNCHANGED <<wires, queue, applied, acks>>
    PROVE  Safe' /\ \A p \in Order : Grows(request[p], request'[p])
  <1>. DEFINE r == request[o]
              s == Turned(r, state)
  <1>1. /\ r \in Request /\ Good(o, r, Heard)
        /\ r.status \notin {"None", "Approved", "Denied"} \cup Final
    BY SafeFacts DEF Undecided, Waiting, Final
  <1>2. /\ state \in States \ {"Denied"} /\ state # "Approved" /\ state # "None"
    BY DEF States, Undecided, Waiting, Final
  <1>3. r.step <= Len(r.steps) /\ Ask(o, r.step) \in Heard
    BY <1>1 DEF Good, Legal, OnItsChain, Asked, NoRequest
  <1>4. Good(o, s, Heard)
    BY <1>1, <1>2, <1>3, TurnedGood
  <1>5. Grows(r, s) /\ s.status # "None"
    BY <1>1, <1>2, TurnedGrows, TurnedFacts
  <1>. HIDE DEF s
  <1>6. request' = [request EXCEPT ![o] = s]
    BY DEF s
  <1>. QED  BY <1>1, <1>4, <1>5, <1>6, ChangeSafe

LEMMA VacantSafe ==
    ASSUME Safe, NEW o \in Order, Vacant(o)
    PROVE  Safe' /\ \A p \in Order : Grows(request[p], request'[p])
  <1>1. UNCHANGED applied
    BY DEF Vacant
  <1>2. request[o].status \in Undecided
    BY DEF Vacant, Undecided, Waiting
  <1>3. \/ \E state \in Undecided \cup {"ApprovedNoExecutor", "DeniedExternal"} :
              /\ request' = [request EXCEPT ![o] = Turned(request[o], state)]
              /\ UNCHANGED <<wires, queue, acks>>
        \/ \E approved, automatic \in BOOLEAN : Advance(o, approved, automatic)
    BY DEF Vacant, Undecided, Waiting
  <1>. QED  BY <1>1, <1>2, <1>3, TurnSafe, AdvanceSafe

LEMMA SendAckSafe ==
    ASSUME Safe, NEW o \in Order, SendAck(o)
    PROVE  Safe' /\ \A p \in Order : Grows(request[p], request'[p])
  <1>. DEFINE made == acks[o].made + 1
              m == Reply(o, made)
              tried == [acks EXCEPT ![o] = [@ EXCEPT !.made = made, !.left = RetryTicks]]
  <1>1. Post(m, request, request, tried) /\ UNCHANGED applied
    BY DEF SendAck
  <1>2. acks[o] \in Ack /\ acks[o].made < MaxAttempts
    BY SafeFacts DEF SendAck, AckDue
  <1>3. made \in 1..MaxAttempts
    BY <1>2, FlowAssumption DEF Ack
  <1>4. m \in Message
    BY <1>3, ReplyMessage
  <1>5. RetryTicks \in 0..RetryTicks /\ made \in 0..MaxAttempts
    BY <1>3, FlowAssumption
  <1>6. tried \in [Order -> Ack]
    <2>1. [acks[o] EXCEPT !.made = made, !.left = RetryTicks] \in Ack
      BY <1>2, <1>5 DEF Ack
    <2>. QED  BY <2>1 DEF Safe, DataTypeOK
  <1>7. \A p \in Order : m # Command(p)
    BY Distinct
  <1>8. \A p, i : m # Ask(p, i)
    BY Distinct
  <1>. HIDE DEF made, tried, m
  <1>9. MaySend({m}, request)
    <2>1. \A p \in Order : Grows(request[p], request[p])
      BY SafeFacts, GrowsSelf
    <2>. QED  BY <1>7, <1>8, <2>1 DEF MaySend, Safe, DataTypeOK, RequestsGood, Booked
  <1>10. PICK n, s, a : n = m /\ s = request /\ a = tried
    OBVIOUS
  <1>11. MaySend({n}, s) /\ Post(n, s, s, a)
    BY <1>1, <1>9, <1>10
  <1>. QED  BY <1>1, <1>4, <1>6, <1>7, <1>10, <1>11, PostSafe

\* A second passes for a request.
Sooner(r) == [r EXCEPT !.left = IF @ = 0 THEN 0 ELSE @ - 1]

LEMMA SoonerGood ==
    ASSUME NEW o \in Order, NEW r, NEW heard, Good(o, r, heard)
    PROVE  Good(o, Sooner(r), heard) /\ Grows(r, Sooner(r)) /\ Sooner(r).status = r.status
  <1>1. r \in Request
    BY DEF Good
  <1>. DEFINE s == Sooner(r)
  <1>2. /\ s \in Request /\ s.status = r.status /\ s.steps = r.steps /\ s.step = r.step
        /\ s.decisions = r.decisions /\ (r.left = 0 => s = r)
    <2>. DEFINE left == IF r.left = 0 THEN 0 ELSE r.left - 1
    <2>1. left \in 0..Delay /\ (r.left = 0 => left = r.left)
      BY <1>1, RequestFacts, FlowAssumption
    <2>2. s = [r EXCEPT !.left = left]
      BY DEF Sooner
    <2>. HIDE DEF left, s
    <2>3. /\ s \in Request /\ s.status = r.status /\ s.steps = r.steps /\ s.step = r.step
          /\ s.decisions = r.decisions
      BY <1>1, <2>1, <2>2, StateFacts
    <2>4. r.left = 0 => s = r
      BY <1>1, <2>1, <2>2 DEF Request
    <2>. QED  BY <2>3, <2>4
  <1>. HIDE DEF s
  <1>3. CASE r.left = 0
    BY <1>1, <1>2, <1>3, GrowsSelf DEF s
  <1>4. CASE r.left # 0
    <2>1. OnItsChain(o, r) /\ Asked(o, r, heard) /\ r.status # "None"
      BY <1>4 DEF Good, Legal, NoRequest
    <2>2. r.status \in Waiting /\ r.status \notin Final
      BY <1>4, <2>1 DEF OnItsChain, Waiting, Final
    <2>3. OnItsChain(o, s) /\ Asked(o, s, heard)
      BY <1>2, <2>1, <2>2 DEF OnItsChain, Asked
    <2>4. Grows(r, s)
      BY <1>1, <1>2, <2>2, RequestFacts DEF Grows
    <2>. QED  BY <1>2, <2>1, <2>3, <2>4 DEF Good, Legal, s
  <1>. QED  BY <1>3, <1>4

LEMMA AcksWaitType ==
    ASSUME acks \in [Order -> Ack], AcksWait
    PROVE  acks' \in [Order -> Ack]
  <1>1. \A o \in Order : (IF acks[o].left = 0 THEN 0 ELSE acks[o].left - 1) \in 0..RetryTicks
    BY FlowAssumption DEF Ack
  <1>2. \A o \in Order : [acks[o] EXCEPT !.left = IF @ = 0 THEN 0 ELSE @ - 1] \in Ack
    BY <1>1 DEF Ack
  <1>. QED  BY <1>2 DEF AcksWait

LEMMA StepSafe ==
    ASSUME Safe, Step
    PROVE  Safe' /\ \A o \in Order : Grows(request[o], request'[o])
  <1>1. pending' = pending /\ record' = record /\ verdict' = verdict
    BY DEF Step, wires
  <1>2. Heard' = Heard /\ WiresTypeOK'
    BY <1>1 DEF Heard, Safe, DataTypeOK, WiresTypeOK
  <1>3. PICK due \in SUBSET {o \in Order : queue[o] > 0} :
            /\ queue' = [o \in Order |-> IF o \in due THEN 0 ELSE queue[o]]
            /\ applied' = applied \cup due
    BY DEF Step, ApplyOrders
  <1>4. acks' \in [Order -> Ack]
    BY AcksWaitType DEF Step, Safe, DataTypeOK
  <1>5. /\ request' \in [Order -> Request]
        /\ \A o \in Order : /\ Good(o, request'[o], Heard) /\ Grows(request[o], request'[o])
                            /\ request'[o].status = request[o].status
    <2>1. CASE request' = [o \in Order |->
                  [request[o] EXCEPT !.left = IF @ = 0 THEN 0 ELSE @ - 1]]
      <3>1. /\ request' = [o \in Order |-> request'[o]]
            /\ \A o \in Order : request'[o] = Sooner(request[o])
        BY <2>1 DEF Sooner
      <3>2. \A o \in Order : Good(o, request[o], Heard)
        BY DEF Safe, RequestsGood
      <3>3. \A o \in Order : request'[o] \in Request
        BY <3>1, <3>2, SoonerGood DEF Good
      <3>. QED  BY <3>1, <3>2, <3>3, SoonerGood
    <2>2. CASE request' = request
      BY <2>2, SafeFacts, GrowsSelf DEF Safe, DataTypeOK
    <2>. QED  BY <2>1, <2>2 DEF Step
  <1>6. DataTypeOK'
    BY <1>2, <1>3, <1>4, <1>5 DEF Safe, DataTypeOK
  <1>7. RequestsGood'
    BY <1>2, <1>5 DEF RequestsGood
  <1>8. Booked'
    BY <1>1, <1>5 DEF Safe, Booked
  <1>9. EnteredOnce'
    <2>. SUFFICES ASSUME NEW o \in Order
                  PROVE  /\ queue'[o] <= IF o \in applied' THEN 0 ELSE 1
                         /\ Inside(o)' => /\ Command(o) \in Heard' \ pending'
                                          /\ record'[Command(o)] # "None"
                                          /\ request'[o].status \in {"None", "Approved"}
      BY DEF EnteredOnce
    <2>1. /\ queue[o] <= IF o \in applied THEN 0 ELSE 1
          /\ queue[o] \in Nat
          /\ Inside(o) => /\ Command(o) \in Heard \ pending
                          /\ record[Command(o)] # "None"
                          /\ request[o].status \in {"None", "Approved"}
      BY DEF Safe, EnteredOnce, DataTypeOK
    <2>2. queue'[o] = IF o \in due THEN 0 ELSE queue[o]
      BY <1>3
    <2>3. Inside(o)' => Inside(o)
      BY <1>3, <2>1, <2>2 DEF Inside
    <2>4. queue'[o] <= IF o \in applied' THEN 0 ELSE 1
      BY <1>3, <2>1, <2>2
    <2>. QED  BY <1>1, <1>2, <1>5, <2>1, <2>3, <2>4
  <1>. QED  BY <1>5, <1>6, <1>7, <1>8, <1>9 DEF Safe

\* The rest of the loop and of what people do concerns no order.
LEMMA OthersSafe ==
    ASSUME Safe,
           \/ \E r \in Role : Sit(r) \/ Leave(r)
           \/ \E roles \in SUBSET Role : UpdateAuthority(roles)
           \/ Pause \/ Resume \/ BeginTick \/ Proceed \/ CloseWindow \/ FinishTick
           \/ \E o \in Order : RecordResult(o)
           \/ UNCHANGED vars
    PROVE  Safe' /\ \A o \in Order : Grows(request[o], request'[o])
  <1>1. UNCHANGED <<request, wires, queue, applied>>
    BY DEF Sit, Leave, UpdateAuthority, Pause, Resume, BeginTick, Proceed, CloseWindow, FinishTick,
           RecordResult, vars, Others, Elsewhere, wires, world
  <1>2. acks \in [Order -> Ack]
    BY DEF Safe, DataTypeOK
  <1>3. CASE acks' = acks
    BY <1>1, <1>2, <1>3, StillSafe
  <1>4. CASE BeginTick
    <2>1. acks' = acks \/ AcksWait
      BY <1>4 DEF BeginTick
    <2>2. acks' \in [Order -> Ack]
      BY <1>2, <2>1, AcksWaitType
    <2>. QED  BY <1>1, <2>2, StillSafe
  <1>5. ASSUME NEW o \in Order, RecordResult(o)
        PROVE  Safe' /\ \A p \in Order : Grows(request[p], request'[p])
    <2>1. acks' = acks \/ acks' = [acks EXCEPT ![o].known = TRUE]
      BY <1>5 DEF RecordResult
    <2>2. acks' \in [Order -> Ack]
      BY <1>2, <2>1 DEF Ack
    <2>. QED  BY <1>1, <2>2, StillSafe
  <1>6. CASE \/ \E r \in Role : Sit(r) \/ Leave(r)
             \/ \E roles \in SUBSET Role : UpdateAuthority(roles)
             \/ Pause \/ Resume \/ Proceed \/ CloseWindow \/ FinishTick
             \/ UNCHANGED vars
    <2>1. acks' = acks
      BY <1>6 DEF Sit, Leave, UpdateAuthority, Pause, Resume, Proceed, CloseWindow, FinishTick,
             vars, Others, Elsewhere
    <2>. QED  BY <1>3, <2>1
  <1>. QED  BY <1>4, <1>5, <1>6

LEMMA SafeNext == Safe /\ [Next]_vars => Safe' /\ \A o \in Order : Grows(request[o], request'[o])
  <1>. SUFFICES ASSUME Safe, [Next]_vars
                PROVE  Safe' /\ \A o \in Order : Grows(request[o], request'[o])
    OBVIOUS
  <1>1. CASE Users
    <2>1. ASSUME NEW o \in Order, Submit(o) \/ SubmitSatellite(o)
          PROVE  Safe' /\ \A p \in Order : Grows(request[p], request'[p])
      BY <2>1, SubmitSafe
    <2>2. ASSUME NEW o \in Order, NEW approved \in BOOLEAN, Decide(o, approved)
          PROVE  Safe' /\ \A p \in Order : Grows(request[p], request'[p])
      BY <2>2, DecideSafe
    <2>3. CASE \/ \E r \in Role : Sit(r) \/ Leave(r)
               \/ \E roles \in SUBSET Role : UpdateAuthority(roles)
               \/ Pause \/ Resume
      BY <2>3, OthersSafe
    <2>. QED  BY <1>1, <2>1, <2>2, <2>3 DEF Users
  <1>2. CASE Wires
    BY <1>2, PacketEventSafe, RadioEventSafe, DeliveryUnrecordedSafe DEF Wires
  <1>3. CASE Loop
    <2>1. CASE Step
      BY <2>1, StepSafe
    <2>2. ASSUME NEW o \in Order, Vacant(o) \/ SendAck(o)
          PROVE  Safe' /\ \A p \in Order : Grows(request[p], request'[p])
      BY <2>2, VacantSafe, SendAckSafe
    <2>3. ASSUME NEW m \in Message, FinishReporting(m)
          PROVE  Safe' /\ \A p \in Order : Grows(request[p], request'[p])
      BY <2>3, FinishReportingSafe
    <2>4. CASE \/ BeginTick \/ Proceed \/ CloseWindow \/ FinishTick
               \/ \E o \in Order : RecordResult(o)
      BY <2>4, OthersSafe
    <2>. QED  BY <1>3, <2>1, <2>2, <2>3, <2>4 DEF Loop
  <1>4. CASE UNCHANGED vars
    BY <1>4, OthersSafe
  <1>. QED  BY <1>1, <1>2, <1>3, <1>4 DEF Next

--------------------------------------------------------------------------------
(* The game, its clock and its seats.                                       *)

GameTypeOK == status \in {"Running", "Paused"} /\ broken \in BOOLEAN

HostTypeOK ==
    /\ GameTypeOK
    /\ radio \in Radios /\ alive \in BOOLEAN /\ whole \in BOOLEAN
    /\ mission \in {"active", "ending", "over"}
    /\ window \in 0..Window
    /\ phase \in Phases
    /\ present \subseteq Role /\ seated \subseteq present
    /\ results \subseteq Order

\* Whatever is sent, the game keeps its type, and after the end nothing comes in.
Outside == GameTypeOK' /\ (Over => queue' = queue)

LEMMA ArriveOutside ==
    ASSUME NEW m, NEW requests, NEW answers, Arrive(m, requests, answers)
    PROVE  Over => queue' = queue
  BY DEF Arrive, Enters

LEMMA PostOutside ==
    ASSUME GameTypeOK, NEW m, NEW sent, NEW unsent, NEW answers,
           Post(m, sent, unsent, answers)
    PROVE  Outside
  <1>1. CASE Accepted(m, sent, answers)
    BY <1>1 DEF Accepted, Outside, game, GameTypeOK
  <1>2. CASE HandedOver(m, sent, answers)
    <2>1. Arrive(m, sent, answers) /\ UNCHANGED game
      BY <1>2 DEF HandedOver
    <2>2. Over => queue' = queue
      BY <2>1, ArriveOutside
    <2>. QED  BY <2>1, <2>2 DEF Outside, game, GameTypeOK
  <1>3. CASE NoRoute(m, unsent, answers)
    BY <1>3 DEF NoRoute, Outside, game, GameTypeOK
  <1>4. CASE Unrecorded(m, unsent, answers)
    BY <1>4 DEF Unrecorded, Abort, Outside, GameTypeOK
  <1>. QED  BY <1>1, <1>2, <1>3, <1>4 DEF Post

LEMMA ForwardOutside ==
    ASSUME GameTypeOK, NEW o, NEW from, NEW to, NEW r, Forward(o, from, to, r)
    PROVE  Outside
  <1>1. CASE UNCHANGED <<queue, game>>
    BY <1>1 DEF Outside, game, GameTypeOK
  <1>2. CASE Post(Awaited(o, r), [request EXCEPT ![o] = Turned(r, "InTransit")],
                  [request EXCEPT ![o] = Turned(r, "BlockedComms")], acks)
    <2>1. PICK m, s, u, a : /\ m = Awaited(o, r)
                            /\ s = [request EXCEPT ![o] = Turned(r, "InTransit")]
                            /\ u = [request EXCEPT ![o] = Turned(r, "BlockedComms")]
                            /\ a = acks
      OBVIOUS
    <2>2. Post(m, s, u, a)
      BY <1>2, <2>1
    <2>. QED  BY <2>2, PostOutside
  <1>. QED  BY <1>1, <1>2 DEF Forward

LEMMA AdvanceOutside ==
    ASSUME GameTypeOK, NEW o, NEW approved \in BOOLEAN, NEW automatic \in BOOLEAN,
           Advance(o, approved, automatic)
    PROVE  Outside
  <1>1. CASE UNCHANGED <<queue, game>>
    BY <1>1 DEF Outside, game, GameTypeOK
  <1>2. ASSUME NEW from, NEW to, NEW r, Forward(o, from, to, r)
        PROVE  Outside
    BY <1>2, ForwardOutside
  <1>. QED  BY <1>1, <1>2 DEF Advance

LEMMA NotedOutside ==
    ASSUME NEW m, Noted(m)
    PROVE  Over => queue' = queue
  <1>1. CASE UNCHANGED queue
    BY <1>1
  <1>2. CASE Arrive(m, request, acks)
    BY <1>2 DEF Arrive, Enters
  <1>. QED  BY <1>1, <1>2 DEF Noted

LEMMA WiresHost ==
    ASSUME HostTypeOK, StepsBeforeEnd, Wires
    PROVE  HostTypeOK' /\ StepsBeforeEnd' /\ Outside /\ UNCHANGED applied
  <1>1. PICK m \in Message : \/ PacketEvent(m) \/ RadioEvent(m)
                             \/ DeliveryUnrecorded(m) \/ UnheardEvent(m)
    BY DEF Wires
  <1>2. CASE PacketEvent(m)
    <2>1. UNCHANGED <<clock, seats, applied, results>>
      BY <1>2 DEF PacketEvent
    <2>2. Outside
      <3>1. CASE Noted(m) /\ UNCHANGED game
        BY <3>1, NotedOutside DEF Outside, game, GameTypeOK, HostTypeOK
      <3>2. CASE Abort(request, {m}) /\ UNCHANGED <<queue, acks>>
        BY <3>2 DEF Outside, Abort, GameTypeOK
      <3>. QED  BY <1>2, <3>1, <3>2 DEF PacketEvent
    <2>. QED  BY <2>1, <2>2 DEF HostTypeOK, StepsBeforeEnd, Outside, clock, seats
  <1>3. CASE RadioEvent(m)
    <2>1. UNCHANGED <<game, clock, seats, applied, results>> /\ Noted(m)
      BY <1>3 DEF RadioEvent
    <2>. QED  BY <2>1, NotedOutside DEF HostTypeOK, StepsBeforeEnd, Outside, GameTypeOK, game,
                                        clock, seats
  <1>4. CASE DeliveryUnrecorded(m)
    BY <1>4 DEF DeliveryUnrecorded, GoTo, HostTypeOK, StepsBeforeEnd, Outside, GameTypeOK, seats,
                world, Phases
  <1>5. CASE UnheardEvent(m)
    BY <1>5 DEF UnheardEvent, HostTypeOK, StepsBeforeEnd, Outside, GameTypeOK, game, clock, seats,
                world
  <1>. QED  BY <1>1, <1>2, <1>3, <1>4, <1>5

LEMMA OutsideHost ==
    ASSUME HostTypeOK, StepsBeforeEnd, Outside, UNCHANGED <<clock, seats, applied, results>>
    PROVE  HostTypeOK' /\ StepsBeforeEnd' /\ Outside /\ UNCHANGED applied
  BY DEF HostTypeOK, StepsBeforeEnd, Outside, clock, seats

LEMMA UsersHost ==
    ASSUME HostTypeOK, StepsBeforeEnd, Users
    PROVE  HostTypeOK' /\ StepsBeforeEnd' /\ Outside /\ UNCHANGED applied
  <1>1. ASSUME NEW m, NEW s, NEW u, Post(m, s, u, acks), UNCHANGED <<clock, seats, applied, results>>
        PROVE  HostTypeOK' /\ StepsBeforeEnd' /\ Outside /\ UNCHANGED applied
    <2>1. PICK a : a = acks
      OBVIOUS
    <2>2. Post(m, s, u, a)
      BY <1>1, <2>1
    <2>. QED  BY <1>1, <2>2, PostOutside, OutsideHost DEF HostTypeOK
  <1>2. ASSUME NEW o \in Order, Submit(o) \/ SubmitSatellite(o)
        PROVE  HostTypeOK' /\ StepsBeforeEnd' /\ Outside /\ UNCHANGED applied
    <2>1. UNCHANGED <<clock, seats, applied, results>>
      BY <1>2 DEF Submit, SubmitSatellite
    <2>2. \E m, s, u : Post(m, s, u, acks)
      BY <1>2 DEF Submit, SubmitSatellite
    <2>. QED  BY <1>1, <2>1, <2>2
  <1>3. ASSUME NEW o \in Order, NEW approved \in BOOLEAN, Decide(o, approved)
        PROVE  HostTypeOK' /\ StepsBeforeEnd' /\ Outside /\ UNCHANGED applied
    <2>1. UNCHANGED <<clock, seats, applied, results>> /\ Advance(o, approved, FALSE)
      BY <1>3 DEF Decide
    <2>2. PICK automatic \in BOOLEAN : Advance(o, approved, automatic)
      BY <2>1
    <2>. QED  BY <2>1, <2>2, AdvanceOutside, OutsideHost DEF HostTypeOK
  <1>4. ASSUME NEW r \in Role, Sit(r) \/ Leave(r)
        PROVE  HostTypeOK' /\ StepsBeforeEnd' /\ Outside /\ UNCHANGED applied
    BY <1>4 DEF Sit, Leave, HostTypeOK, StepsBeforeEnd, Outside, GameTypeOK, Others, clock, world
  <1>5. ASSUME NEW roles \in SUBSET Role, UpdateAuthority(roles)
        PROVE  HostTypeOK' /\ StepsBeforeEnd' /\ Outside /\ UNCHANGED applied
    BY <1>5 DEF UpdateAuthority, Editable, HostTypeOK, StepsBeforeEnd, Outside, GameTypeOK, Others,
                clock, world
  <1>6. CASE Pause \/ Resume
    BY <1>6 DEF Pause, Resume, HostTypeOK, StepsBeforeEnd, Outside, GameTypeOK, Others, clock,
                seats, world
  <1>. QED  BY <1>2, <1>3, <1>4, <1>5, <1>6 DEF Users

LEMMA NextWindowType ==
    ASSUME window \in 0..Window
    PROVE  NextWindow \in 0..Window
  BY FlowAssumption DEF NextWindow

LEMMA LoopHost ==
    ASSUME HostTypeOK, StepsBeforeEnd, Loop, Safe
    PROVE  /\ HostTypeOK' /\ StepsBeforeEnd' /\ GameTypeOK'
           /\ Over => UNCHANGED applied /\ \A o \in Order : queue'[o] = queue[o]
  <1>1. CASE BeginTick
    BY <1>1 DEF BeginTick, GoTo, HostTypeOK, StepsBeforeEnd, GameTypeOK, Over, Idle, game, seats,
                world, Phases
  <1>2. CASE Step
    <2>1. ~Over /\ phase = "step" /\ UNCHANGED <<game, alive, window, seats>>
      BY <1>2 DEF Step, StepsBeforeEnd, Over
    <2>2. /\ mission' \in {"active", "ending", "over"} /\ phase' \in {"air", "record"}
          /\ whole' \in BOOLEAN
      BY <1>2 DEF Step, HostTypeOK
    <2>3. results' \subseteq Order
      BY <1>2 DEF Step, ApplyOrders, HostTypeOK
    <2>. QED  BY <2>1, <2>2, <2>3 DEF HostTypeOK, StepsBeforeEnd, GameTypeOK, game, seats, Phases
  <1>3. CASE Proceed
    <2>1. UNCHANGED <<game, seats, queue, applied, results>> /\ phase' \in Phases
      BY <1>3 DEF Proceed, GoTo, Stop, EndTick, Elsewhere, world, Phases
    <2>2. /\ alive' = alive /\ window' = window /\ whole' \in {whole, TRUE}
          /\ \/ mission' = mission
             \/ phase' = "idle" /\ mission' \in {mission, "over"}
      BY <1>3 DEF Proceed, GoTo, Stop, EndTick
    <2>3. phase' \in {"vacant", "step", "relay"} => phase \in {"inbox", "vacant", "relay"}
      BY <1>3 DEF Proceed, GoTo, Stop, EndTick
    <2>4. phase' # "inbox"
      BY <1>3 DEF Proceed, GoTo, Stop, EndTick
    <2>. QED  BY <2>1, <2>2, <2>3, <2>4 DEF HostTypeOK, StepsBeforeEnd, GameTypeOK, game, seats
  <1>4. CASE CloseWindow
    <2>1. window' \in 0..Window
      BY <1>4, NextWindowType DEF CloseWindow, HostTypeOK
    <2>2. UNCHANGED <<game, seats, queue, applied, results>> /\ phase' \in {"finish", "idle"}
      BY <1>4 DEF CloseWindow, EndTick, Elsewhere, world
    <2>3. alive' = alive /\ whole' \in {whole, TRUE} /\ mission' \in {mission, "over"}
      BY <1>4 DEF CloseWindow, EndTick
    <2>. QED  BY <2>1, <2>2, <2>3 DEF HostTypeOK, StepsBeforeEnd, GameTypeOK, game, seats, Phases
  <1>5. CASE FinishTick
    BY <1>5 DEF FinishTick, Stop, EndTick, Elsewhere, HostTypeOK, StepsBeforeEnd, GameTypeOK, seats,
                world, Phases
  <1>6. ASSUME NEW o \in Order, Vacant(o)
        PROVE  /\ HostTypeOK' /\ StepsBeforeEnd' /\ Outside /\ UNCHANGED applied
    <2>1. UNCHANGED <<clock, seats, applied, results>>
      BY <1>6 DEF Vacant
    <2>2. \/ UNCHANGED <<game, queue>>
          \/ \E approved, automatic \in BOOLEAN : Advance(o, approved, automatic)
      BY <1>6 DEF Vacant
    <2>3. Outside
      BY <2>2, AdvanceOutside DEF Outside, HostTypeOK, GameTypeOK, game
    <2>. QED  BY <2>1, <2>3, OutsideHost
  <1>7. ASSUME NEW o \in Order, RecordResult(o)
        PROVE  /\ HostTypeOK' /\ StepsBeforeEnd' /\ Outside /\ UNCHANGED applied
    BY <1>7 DEF RecordResult, HostTypeOK, StepsBeforeEnd, Outside, GameTypeOK, game, clock, seats,
                Phases
  <1>8. ASSUME NEW o \in Order, SendAck(o)
        PROVE  /\ HostTypeOK' /\ StepsBeforeEnd' /\ Outside /\ UNCHANGED applied
    <2>1. UNCHANGED <<clock, seats, applied, results>>
      BY <1>8 DEF SendAck
    <2>2. PICK m, s, a : Post(m, s, s, a)
      BY <1>8 DEF SendAck
    <2>. QED  BY <2>1, <2>2, PostOutside, OutsideHost DEF HostTypeOK
  <1>9. ASSUME NEW m \in Message, FinishReporting(m)
        PROVE  /\ HostTypeOK' /\ StepsBeforeEnd' /\ Outside /\ UNCHANGED applied
    <2>1. UNCHANGED <<clock, seats, queue, applied, results>>
      BY <1>9 DEF FinishReporting, world
    <2>2. GameTypeOK'
      BY <1>9 DEF FinishReporting, Abort, HostTypeOK, GameTypeOK, game
    <2>. QED  BY <2>1, <2>2, OutsideHost DEF Outside
  <1>10. \A o \in Order : Outside /\ UNCHANGED applied /\ Over => queue'[o] = queue[o]
    BY DEF Outside
  <1>11. CASE \/ \E o \in Order : Vacant(o) \/ RecordResult(o) \/ SendAck(o)
              \/ \E m \in Message : FinishReporting(m)
    <2>1. HostTypeOK' /\ StepsBeforeEnd' /\ Outside /\ UNCHANGED applied
      BY <1>6, <1>7, <1>8, <1>9, <1>11
    <2>. QED  BY <1>10, <2>1 DEF Outside
  <1>. QED  BY <1>1, <1>2, <1>3, <1>4, <1>5, <1>11 DEF Loop

\* What TypeOK says, the orders' part and the host's.
LEMMA TypeParts == TypeOK <=> DataTypeOK /\ HostTypeOK
  BY DEF TypeOK, DataTypeOK, HostTypeOK, GameTypeOK, WiresTypeOK, Recorded

\* The inductive invariant.
IInv == Safe /\ HostTypeOK /\ StepsBeforeEnd

LEMMA InitIInv == Init => IInv
  <1>. SUFFICES ASSUME Init
                PROVE  IInv
    OBVIOUS
  <1>1. request = [o \in Order |-> NoRequest] /\ pending = {} /\ record = [m \in Message |-> "None"]
        /\ queue = [o \in Order |-> 0] /\ applied = {} /\ acks = [o \in Order |-> NoAck]
    BY DEF Init
  <1>2. verdict = [m \in Message |-> "Unsent"] /\ "Unsent" \in Network!Verdict
    BY DEF Init, Network!Init, Network!Verdict
  <1>3. NoAck \in Ack
    BY FlowAssumption DEF NoAck, Ack
  <1>4. \A o \in Order : Good(o, NoRequest, Heard) /\ NoRequest \in Request
    BY NoRequestGood DEF Good
  <1>5. DataTypeOK
    BY <1>1, <1>2, <1>3, <1>4, VerdictFacts DEF DataTypeOK, WiresTypeOK
  <1>6. RequestsGood
    BY <1>1, <1>4 DEF RequestsGood
  <1>7. Booked
    <2>1. \A o \in Order : Command(o) \in Message /\ request[o].status = "None"
      BY <1>1, CommandMessage DEF NoRequest
    <2>. QED  BY <1>1, <1>2, <2>1 DEF Booked
  <1>8. EnteredOnce
    BY <1>1 DEF EnteredOnce, Inside
  <1>9. HostTypeOK /\ StepsBeforeEnd
    <2>1. radio \in Radios /\ present = Role /\ seated \subseteq Role
      BY FlowAssumption DEF Init
    <2>2. window \in 0..Window /\ results \subseteq Order /\ phase \in Phases
      BY FlowAssumption DEF Init, Phases
    <2>3. mission = "active" /\ GameTypeOK /\ alive \in BOOLEAN /\ whole \in BOOLEAN
      BY DEF Init, GameTypeOK
    <2>. QED  BY <2>1, <2>2, <2>3 DEF HostTypeOK, StepsBeforeEnd
  <1>. QED  BY <1>5, <1>6, <1>7, <1>8, <1>9 DEF IInv, Safe

LEMMA StepIInv == IInv /\ [Next]_vars => IInv'
  <1>. SUFFICES ASSUME IInv, [Next]_vars
                PROVE  IInv'
    OBVIOUS
  <1>1. Safe'
    BY SafeNext DEF IInv
  <1>2. HostTypeOK' /\ StepsBeforeEnd'
    <2>1. CASE Users
      BY <2>1, UsersHost DEF IInv
    <2>2. CASE Wires
      BY <2>2, WiresHost DEF IInv
    <2>3. CASE Loop
      BY <2>3, LoopHost DEF IInv
    <2>4. CASE UNCHANGED vars
      BY <2>4 DEF IInv, vars, HostTypeOK, GameTypeOK, StepsBeforeEnd
    <2>. QED  BY <2>1, <2>2, <2>3, <2>4 DEF Next
  <1>. QED  BY <1>1, <1>2 DEF IInv

LEMMA Invariance == Spec => []IInv
  BY InitIInv, StepIInv, PTL DEF Spec

--------------------------------------------------------------------------------
(* Receipts: what is under way for an order, and what is known of its reply.   *)

\* Message n is still wanted, by request r of its order or by acknowledgement a.
Expects(n, r, a) ==
    \/ n.leg = "ack" /\ a.known
    \/ Awaits(n, r)
    \/ n = Command(n.of) /\ r.status = "None"

Heeded(ps, requests, answers) == \A n \in ps : Expects(n, requests[n.of], answers[n.of])

\* A request in transit has its message under way.
Borne(ps, requests) == \A o \in Order :
    requests[o].status = "InTransit" => Awaited(o, requests[o]) \in ps

\* Orders end with a decision of a role in the game.
NotForOrders == {"PendingExternal", "ApprovedNoExecutor", "DeniedExternal"}
Staffed(requests) == \A o \in Order : Executable(o) => requests[o].status \notin NotForOrders

\* The acknowledgement of an order speaks of one that was applied.
Grounded == \A o \in Order :
    /\ acks[o].known \/ o \in results => o \in applied
    /\ acks[o].received => acks[o].known /\ \E m \in Replies(o) : m \in Heard
    /\ ~acks[o].known => acks[o].made = 0 /\ acks[o].left = 0

\* What waits is wanted and what is wanted waits; an order that is in has arrived.
Orderly ==
    /\ Heeded(pending, request, acks) /\ Borne(pending, request) /\ Staffed(request)
    /\ \A m \in pending : record[m] \in Open /\ verdict[m] \in Open
    /\ \A m \in Near : verdict[m] = "Unsent"
    /\ \A o \in Order : Inside(o) => record[Command(o)] \in Told
    /\ Grounded

LEMMA ArrivedMoves ==
    ASSUME NEW m \in Message, NEW requests \in [Order -> Request]
    PROVE  /\ \A o \in Order : o # m.of \/ ~Awaits(m, requests[o])
                                 => Arrived(m, requests)[o] = requests[o]
           /\ Awaits(m, requests[m.of])
                => /\ Arrived(m, requests)[m.of].status \in Undecided \cup {"Approved"}
                   /\ Kind[m.of] # "external"
                        => Arrived(m, requests)[m.of].status # "PendingExternal"
  <1>. DEFINE r == requests[m.of]
              q == Arrived(m, requests)
  <1>1. m.of \in Order /\ r \in Request
    BY MessageFacts
  <1>2. \A o \in Order : o # m.of \/ ~Awaits(m, requests[o]) => q[o] = requests[o]
    BY <1>1 DEF Arrived
  <1>3. ASSUME Awaits(m, r)
        PROVE  /\ q[m.of].status \in Undecided \cup {"Approved"}
               /\ Kind[m.of] # "external" => q[m.of].status # "PendingExternal"
    <2>1. PICK state \in Undecided \cup {"Approved"} :
              /\ q[m.of] = Turned(r, state)
              /\ Kind[m.of] # "external" => state # "PendingExternal"
      <3>1. CASE m.leg = "order"
        <4>1. q[m.of] = Turned(r, "Approved")
          BY <1>1, <1>3, <3>1 DEF Arrived
        <4>. QED  BY <4>1
      <3>2. CASE m.leg # "order"
        <4>1. q[m.of] = Activated(m.of, r)
          BY <1>1, <1>3, <3>2 DEF Arrived
        <4>. QED  BY <4>1 DEF Activated, Undecided, Waiting
      <3>. QED  BY <3>1, <3>2
    <2>2. state \in States
      BY DEF States, Final
    <2>. QED  BY <1>1, <2>1, <2>2, TurnedFacts
  <1>. QED  BY <1>2, <1>3

LEMMA FailedMoves ==
    ASSUME NEW m \in Message, NEW requests \in [Order -> Request]
    PROVE  /\ \A o \in Order : o # m.of \/ ~Awaits(m, requests[o])
                                 => Failed({m}, requests)[o] = requests[o]
           /\ Awaits(m, requests[m.of]) => Failed({m}, requests)[m.of].status = "BlockedComms"
  <1>1. m.of \in Order /\ requests[m.of] \in Request /\ "BlockedComms" \in States
    BY MessageFacts DEF States, Final
  <1>2. Turned(requests[m.of], "BlockedComms").status = "BlockedComms"
    BY <1>1, TurnedFacts
  <1>. QED  BY <1>1, <1>2 DEF Failed

LEMMA ReceivedFacts ==
    ASSUME NEW m \in Message, NEW answers \in [Order -> Ack]
    PROVE  /\ \A o \in Order : /\ Received(m, answers)[o].known = answers[o].known
                               /\ Received(m, answers)[o].made = answers[o].made
                               /\ Received(m, answers)[o].left = answers[o].left
                               /\ \/ Received(m, answers)[o] = answers[o]
                                  \/ /\ m.leg = "ack" /\ o = m.of
                                     /\ Received(m, answers)[o].received
  <1>1. m.of \in Order
    BY MessageFacts
  <1>. QED  BY <1>1 DEF Received, Ack

\* What is left of the messages is wanted as before when m has come to its end.
LEMMA OthersWanted ==
    ASSUME NEW m \in Message, NEW requests \in [Order -> Request], NEW answers, NEW q,
           NEW ps \in SUBSET Message, m \notin ps, NEW a,
           Heeded(ps, requests, answers), Borne(ps \cup {m}, requests), Staffed(requests),
           \A o \in Order : o # m.of \/ ~Awaits(m, requests[o]) => q[o] = requests[o],
           Awaits(m, requests[m.of]) => /\ q[m.of].status # "InTransit"
                                        /\ Executable(m.of) => q[m.of].status \notin NotForOrders,
           \A o \in Order : a[o].known = answers[o].known
    PROVE  Heeded(ps, q, a) /\ Borne(ps, q) /\ Staffed(q)
  <1>1. m.of \in Order /\ \A n \in ps : n.of \in Order
    BY MessageFacts
  <1>2. ASSUME NEW n \in ps
        PROVE  Expects(n, q[n.of], a[n.of])
    <2>1. Expects(n, requests[n.of], answers[n.of])
      BY DEF Heeded
    <2>2. CASE q[n.of] = requests[n.of]
      BY <1>1, <2>1, <2>2 DEF Expects
    <2>3. CASE q[n.of] # requests[n.of]
      <3>1. n.of = m.of /\ Awaits(m, requests[n.of])
        BY <1>1, <2>3
      <3>2. requests[n.of].status = "InTransit" /\ Awaited(n.of, requests[n.of]) = m /\ n # m
        BY <3>1 DEF Awaits
      <3>3. ~Awaits(n, requests[n.of]) /\ requests[n.of].status # "None"
        BY <3>2 DEF Awaits
      <3>. QED  BY <1>1, <2>1, <3>3 DEF Expects
    <2>. QED  BY <2>2, <2>3
  <1>3. ASSUME NEW o \in Order, q[o].status = "InTransit"
        PROVE  Awaited(o, q[o]) \in ps
    <2>1. q[o] = requests[o] /\ (o # m.of \/ ~Awaits(m, requests[o]))
      BY <1>3
    <2>2. Awaited(o, requests[o]) \in ps \cup {m}
      BY <1>3, <2>1 DEF Borne
    <2>3. Awaited(o, requests[o]) # m
      <3>. SUFFICES ASSUME Awaited(o, requests[o]) = m
                    PROVE  FALSE
        OBVIOUS
      <3>1. m.of = o
        BY Distinct DEF Awaited
      <3>. QED  BY <1>3, <2>1, <3>1 DEF Awaits
    <2>. QED  BY <2>1, <2>2, <2>3
  <1>4. Staffed(q)
    BY DEF Staffed
  <1>. QED  BY <1>2, <1>3, <1>4 DEF Heeded, Borne

LEMMA ArrivedWanted ==
    ASSUME NEW m \in Message, NEW requests \in [Order -> Request], NEW answers \in [Order -> Ack],
           NEW ps \in SUBSET Message, m \notin ps,
           Heeded(ps, requests, answers), Borne(ps \cup {m}, requests), Staffed(requests)
    PROVE  /\ Heeded(ps, Arrived(m, requests), Received(m, answers))
           /\ Borne(ps, Arrived(m, requests)) /\ Staffed(Arrived(m, requests))
  <1>. DEFINE q == Arrived(m, requests)
              a == Received(m, answers)
  <1>1. \A o \in Order : o # m.of \/ ~Awaits(m, requests[o]) => q[o] = requests[o]
    BY ArrivedMoves
  <1>2. ASSUME Awaits(m, requests[m.of])
        PROVE  /\ q[m.of].status # "InTransit"
               /\ Executable(m.of) => q[m.of].status \notin NotForOrders
    <2>1. /\ q[m.of].status \in Undecided \cup {"Approved"}
          /\ Kind[m.of] # "external" => q[m.of].status # "PendingExternal"
      BY <1>2, ArrivedMoves
    <2>. QED  BY <2>1 DEF Undecided, Waiting, NotForOrders, Executable
  <1>3. \A o \in Order : a[o].known = answers[o].known
    BY ReceivedFacts
  <1>4. PICK r, b : r = q /\ b = a
    OBVIOUS
  <1>. HIDE DEF q, a
  <1>5. Heeded(ps, r, b) /\ Borne(ps, r) /\ Staffed(r)
    BY <1>1, <1>2, <1>3, <1>4, OthersWanted
  <1>6. Heeded(ps, q, a) /\ Borne(ps, q) /\ Staffed(q)
    BY <1>4, <1>5
  <1>. QED  BY <1>6 DEF q, a

LEMMA FailedWanted ==
    ASSUME NEW m \in Message, NEW requests \in [Order -> Request], NEW answers,
           NEW ps \in SUBSET Message, m \notin ps,
           Heeded(ps, requests, answers), Borne(ps \cup {m}, requests), Staffed(requests)
    PROVE  /\ Heeded(ps, Failed({m}, requests), answers)
           /\ Borne(ps, Failed({m}, requests)) /\ Staffed(Failed({m}, requests))
  <1>. DEFINE q == Failed({m}, requests)
  <1>1. \A o \in Order : o # m.of \/ ~Awaits(m, requests[o]) => q[o] = requests[o]
    BY FailedMoves
  <1>2. Awaits(m, requests[m.of]) => /\ q[m.of].status # "InTransit"
                                     /\ Executable(m.of) => q[m.of].status \notin NotForOrders
    BY FailedMoves DEF NotForOrders
  <1>. HIDE DEF q
  <1>3. Heeded(ps, q, answers) /\ Borne(ps, q) /\ Staffed(q)
    BY <1>1, <1>2, OthersWanted
  <1>. QED  BY <1>3 DEF q
\* Nothing is taken back of who heard what.
LEMMA WiresGrow ==
    ASSUME Safe, NEW m \in Message, Happens(m), Noted(m)
    PROVE  /\ Kept /\ record'[m] = verdict'[m]
           /\ verdict'[m] \in {"InTransit"} \cup Told \cup {"Expired", "Dropped"}
           /\ verdict[m] \in Told => verdict'[m] \in Told
           /\ \A n \in Message \ {m} : record'[n] = record[n]
  <1>1. WiresTypeOK
    BY DEF Safe, DataTypeOK
  <1>2. /\ verdict'[m] \in {"InTransit"} \cup Told \cup {"Expired", "Dropped"}
        /\ verdict[m] \in Told => verdict'[m] \in Told
        /\ \A n \in Message \ {m} : verdict'[n] = verdict[n]
    BY <1>1, HappensKept
  <1>3. record' = [record EXCEPT ![m] = verdict'[m]]
    BY DEF Noted
  <1>4. record'[m] = verdict'[m] /\ \A n \in Message \ {m} : record'[n] = record[n]
    BY <1>1, <1>3 DEF WiresTypeOK
  <1>5. record'[m] # "None" /\ (verdict'[m] \in Told => record'[m] \notin Open)
    BY <1>2, <1>4, VerdictFacts DEF Lost
  <1>6. Kept
    BY <1>1, <1>2, <1>4, <1>5, KeptFrom
  <1>. QED  BY <1>2, <1>4, <1>6

\* Acknowledgements that only go on stay grounded.
LEMMA GroundedOn ==
    ASSUME Grounded, acks \in [Order -> Ack], Heard \subseteq Heard',
           UNCHANGED <<applied, results>>,
           \A o \in Order :
               /\ acks'[o].known = acks[o].known
               /\ ~acks[o].known => acks'[o].made = acks[o].made /\ acks'[o].left = acks[o].left
               /\ acks'[o].received =>
                      acks[o].received \/ (acks[o].known /\ \E m \in Replies(o) : m \in Heard')
    PROVE  Grounded'
  BY DEF Grounded

LEMMA ReplyFacts ==
    ASSUME NEW m \in Message, m.leg = "ack"
    PROVE  m \in Replies(m.of)
  <1>1. PICK o \in Order : m \in Asks(o) \cup {Command(o)} \cup Replies(o)
    BY DEF Message
  <1>2. m \in Replies(o)
    BY <1>1, Distinct DEF Asks
  <1>. QED  BY <1>2, Distinct DEF Replies

\* The issuer of a player's order is aboard the unit that carries it out.
AtHand(o) == Kind[o] = "order" /\ Replies(o) \subseteq Near

\* What a step that is no failure of the store comes to, if it applies nothing.
Settles ==
    \/ broken'
    \/ /\ UNCHANGED game /\ Orderly'
       /\ \A o \in Order : acks'[o] = acks[o] \/ acks'[o].received \/ ~AtHand(o)

\* Message m is sent: what waits then is wanted, whether it goes or not.
LEMMA PostOrderly ==
    ASSUME Safe, Orderly, NEW m \in Message, m \notin pending,
           NEW sent, NEW unsent, NEW answers \in [Order -> Ack], MaySend({m}, sent),
           Heeded(pending \cup {m}, sent, answers), Borne(pending \cup {m}, sent), Staffed(sent),
           Heeded(pending, unsent, answers), Borne(pending, unsent), Staffed(unsent),
           \A o \in Order : /\ answers[o].known = acks[o].known
                            /\ answers[o].received = acks[o].received
                            /\ answers[o] = acks[o] \/ answers[o].known,
           m.leg = "ack" => acks[m.of].known,
           \A o \in Order : m = Command(o) => ~Inside(o),
           Post(m, sent, unsent, answers), UNCHANGED <<applied, results>>
    PROVE  \/ broken'
           \/ /\ UNCHANGED game /\ Orderly'
              /\ \A o \in Order : acks'[o] = answers[o] \/ acks'[o].received
  <1>1. WiresTypeOK /\ DataTypeOK /\ acks \in [Order -> Ack] /\ pending \in SUBSET Message
    BY DEF Safe, DataTypeOK, WiresTypeOK
  <1>2. Kept /\ Heard \subseteq Heard' /\ (HandedOver(m, sent, answers) => m \in Heard')
    BY <1>1, PostWires DEF Kept
  <1>. DEFINE Rest == /\ Heeded(pending, request, acks)' /\ Borne(pending, request)'
                      /\ Staffed(request)' /\ \A n \in pending' : record'[n] \in Open /\ verdict'[n] \in Open
                      /\ \A n \in Near : verdict'[n] = "Unsent"
  <1>3. \A n \in pending : record[n] \in Open /\ verdict[n] \in Open
    BY DEF Orderly
  <1>4. (m \notin Near /\ Network!Accept(m)) \/ verdict' = verdict
            => \A n \in Near : verdict'[n] = "Unsent"
    BY <1>1, AcceptKept, NearAssumption DEF Orderly
  <1>5. ASSUME queue' = queue, \A n \in Message \ {m} : record'[n] = record[n]
        PROVE  \A o \in Order : Inside(o)' => record'[Command(o)] \in Told
    <2>1. \A o \in Order : Inside(o)' => Inside(o)
      BY <1>5 DEF Inside
    <2>. QED  BY <1>5, <2>1, CommandMessage DEF Orderly
  <1>6. ASSUME acks' = answers
        PROVE  Grounded'
    <2>1. \A o \in Order : /\ acks'[o].known = acks[o].known
                           /\ ~acks[o].known => acks'[o] = acks[o]
                           /\ acks'[o].received => acks[o].received
      BY <1>6
    <2>. QED  BY <1>1, <1>2, <2>1, GroundedOn DEF Orderly
  <1>7. CASE Accepted(m, sent, answers)
    <2>1. /\ record' = [record EXCEPT ![m] = "Queued"] /\ pending' = pending \cup {m}
          /\ request' = sent /\ acks' = answers /\ queue' = queue /\ UNCHANGED game
          /\ m \notin Near /\ Network!Accept(m)
      BY <1>7 DEF Accepted
    <2>2. record'[m] = "Queued" /\ \A n \in Message \ {m} : record'[n] = record[n]
      BY <1>1, <2>1 DEF WiresTypeOK
    <2>3. \A n \in pending' : record'[n] \in Open /\ verdict'[n] \in Open
      <3>1. verdict'[m] \in Open /\ \A n \in Message \ {m} : verdict'[n] = verdict[n]
        BY <1>1, <2>1, AcceptKept DEF Network!Accept, Network!Becomes, WiresTypeOK, Open
      <3>. QED  BY <1>1, <1>3, <2>1, <2>2, <3>1 DEF Open
    <2>4. Rest
      BY <1>4, <2>1, <2>3 DEF Heeded, Borne, Staffed, Expects, Awaits, Awaited
    <2>. QED  BY <1>5, <1>6, <2>1, <2>2, <2>4 DEF Orderly
  <1>8. CASE HandedOver(m, sent, answers)
    <2>1. /\ record' = [record EXCEPT ![m] = "Delivered"] /\ pending' = pending
          /\ Arrive(m, sent, answers) /\ UNCHANGED <<game, verdict>>
      BY <1>8 DEF HandedOver
    <2>2. record'[m] = "Delivered" /\ \A n \in Message \ {m} : record'[n] = record[n]
      BY <1>1, <2>1 DEF WiresTypeOK
    <2>3. request' = Arrived(m, sent) /\ acks' = Received(m, answers)
      BY <2>1 DEF Arrive
    <2>4. sent \in [Order -> Request] /\ Heeded(pending, sent, answers)
      BY DEF MaySend, Heeded
    <2>5. /\ Heeded(pending, Arrived(m, sent), Received(m, answers))
          /\ Borne(pending, Arrived(m, sent)) /\ Staffed(Arrived(m, sent))
      BY <1>1, <2>4, ArrivedWanted
    <2>6. \A n \in pending' : record'[n] \in Open /\ verdict'[n] \in Open
      BY <1>1, <1>3, <2>1, <2>2
    <2>7. Rest
      <3>1. Heeded(pending', request', acks') /\ Borne(pending', request') /\ Staffed(request')
        BY <2>1, <2>3, <2>5
      <3>. QED  BY <1>4, <2>1, <2>6, <3>1 DEF Heeded, Borne, Staffed, Expects, Awaits, Awaited
    <2>8. ASSUME NEW o \in Order, Inside(o)'
          PROVE  record'[Command(o)] \in Told
      <3>1. CASE queue'[o] = queue[o]
        BY <2>2, <2>8, <3>1, CommandMessage, VerdictFacts DEF Orderly, Inside
      <3>2. CASE queue'[o] # queue[o]
        <4>1. Command(o) \in {m}
          BY <1>1, <2>1, <3>2, ArriveEnters DEF Entering
        <4>. QED  BY <2>2, <4>1, VerdictFacts
      <3>. QED  BY <3>1, <3>2
    <2>9. Grounded'
      <3>1. ASSUME NEW o \in Order
            PROVE  /\ acks'[o].known = acks[o].known
                   /\ ~acks[o].known => acks'[o].made = acks[o].made /\ acks'[o].left = acks[o].left
                   /\ acks'[o].received =>
                        acks[o].received \/ (acks[o].known /\ \E n \in Replies(o) : n \in Heard')
        <4>1. /\ acks'[o].known = answers[o].known /\ acks'[o].made = answers[o].made
              /\ acks'[o].left = answers[o].left
              /\ acks'[o] = answers[o] \/ (m.leg = "ack" /\ o = m.of)
          BY <2>3, ReceivedFacts
        <4>2. m.leg = "ack" => m \in Replies(m.of)
          BY ReplyFacts
        <4>. QED  BY <1>2, <1>8, <4>1, <4>2
      <3>. QED  BY <1>1, <1>2, <3>1, GroundedOn DEF Orderly
    <2>10. \A o \in Order : acks'[o] = answers[o] \/ acks'[o].received
      BY <2>3, ReceivedFacts
    <2>. QED  BY <2>1, <2>7, <2>8, <2>9, <2>10 DEF Orderly
  <1>9. CASE NoRoute(m, unsent, answers)
    <2>1. /\ record' = [record EXCEPT ![m] = "Dropped"] /\ pending' = pending
          /\ request' = unsent /\ acks' = answers /\ queue' = queue /\ UNCHANGED <<game, verdict>>
      BY <1>9 DEF NoRoute
    <2>2. \A n \in Message \ {m} : record'[n] = record[n]
      BY <1>1, <2>1 DEF WiresTypeOK
    <2>3. \A n \in pending' : record'[n] \in Open /\ verdict'[n] \in Open
      BY <1>1, <1>3, <2>1, <2>2
    <2>4. Rest
      BY <1>4, <2>1, <2>3 DEF Heeded, Borne, Staffed, Expects, Awaits, Awaited
    <2>. QED  BY <1>5, <1>6, <2>1, <2>2, <2>4 DEF Orderly
  <1>10. CASE Unrecorded(m, unsent, answers)
    BY <1>10 DEF Unrecorded, Abort
  <1>. QED  BY <1>7, <1>8, <1>9, <1>10 DEF Post

LEMMA NotedOrderly ==
    ASSUME Safe, Orderly, NEW m \in Message, Happens(m), Noted(m), UNCHANGED <<applied, results>>
    PROVE  Orderly' /\ \A o \in Order : acks'[o] = acks[o] \/ acks'[o].received
  <1>1. /\ WiresTypeOK /\ DataTypeOK /\ acks \in [Order -> Ack] /\ pending \in SUBSET Message
        /\ request \in [Order -> Request]
    BY DEF Safe, DataTypeOK, WiresTypeOK
  <1>2. /\ Kept /\ Heard \subseteq Heard' /\ record'[m] = verdict'[m]
        /\ verdict'[m] \in {"InTransit"} \cup Told \cup {"Expired", "Dropped"}
        /\ verdict[m] \in Told => verdict'[m] \in Told
        /\ \A n \in Message \ {m} : record'[n] = record[n]
    BY WiresGrow DEF Kept
  <1>3. /\ verdict[m] # "Unsent" /\ \A n \in Message \ {m} : verdict'[n] = verdict[n]
    BY <1>1, HappensKept
  <1>4. /\ Heeded(pending, request, acks) /\ Borne(pending, request) /\ Staffed(request)
        /\ Grounded /\ \A n \in pending : record[n] \in Open /\ verdict[n] \in Open
    BY DEF Orderly
  <1>5. m \notin Near /\ \A n \in Near : verdict'[n] = "Unsent"
    BY <1>3, NearAssumption DEF Orderly
  <1>6. ASSUME NEW o \in Order, Inside(o)
        PROVE  record'[Command(o)] \in Told
    <2>1. record[Command(o)] \in Told /\ Command(o) \in Message /\ Command(o) \in Heard
      BY <1>6, CommandMessage DEF Orderly, Safe, EnteredOnce
    <2>2. CASE Command(o) # m
      BY <1>2, <2>1, <2>2
    <2>3. CASE Command(o) = m
      BY <1>2, <1>5, <2>1, <2>3 DEF Heard
    <2>. QED  BY <2>2, <2>3
  <1>. DEFINE over == m \in pending /\ verdict'[m] \in {"Delivered"} \cup Lost
              left == pending \ {m}
              Rest == /\ Heeded(pending, request, acks)' /\ Borne(pending, request)'
                      /\ Staffed(request)'
                      /\ \A n \in pending' : record'[n] \in Open /\ verdict'[n] \in Open
                      /\ \A n \in Near : verdict'[n] = "Unsent"
  <1>7. /\ left \in SUBSET Message /\ m \notin left /\ Heeded(left, request, acks)
        /\ \A n \in left : record'[n] \in Open /\ verdict'[n] \in Open
    BY <1>1, <1>2, <1>3, <1>4 DEF Heeded
  <1>8. m \in pending => Borne(left \cup {m}, request)
    <2>1. m \in pending => left \cup {m} = pending
      OBVIOUS
    <2>. QED  BY <1>4, <2>1
  <1>9. \A o \in Order : Inside(o)' /\ UNCHANGED queue => record'[Command(o)] \in Told
    BY <1>6 DEF Inside
  <1>10. UNCHANGED acks => Grounded'
    BY <1>1, <1>2, <1>4, GroundedOn
  <1>. HIDE DEF left
  <1>11. CASE ~over
    <2>1. UNCHANGED <<pending, request, queue, acks>>
      BY <1>11 DEF Noted
    <2>2. m \in pending => record'[m] \in Open /\ verdict'[m] \in Open
      <3>. SUFFICES ASSUME m \in pending
                    PROVE  verdict'[m] \in Open
        BY <1>2
      <3>1. verdict[m] \in Open /\ verdict'[m] \in {"InTransit"} \cup Told
        BY <1>2, <1>4, <1>11 DEF Lost
      <3>2. verdict'[m] \notin {"Acknowledged", "Unacknowledged"}
        BY <1>1, <3>1 DEF Happens, Network!Start, Network!Deliver, Network!Acknowledge,
                          Network!Lose, Network!Doubt, Network!Becomes, WiresTypeOK, Open
      <3>. QED  BY <1>11, <3>1, <3>2 DEF Told, Open
    <2>3. Rest
      BY <1>2, <1>3, <1>4, <1>5, <1>7, <2>1, <2>2
         DEF Heeded, Borne, Staffed, Expects, Awaits, Awaited, left
    <2>. QED  BY <1>9, <1>10, <2>1, <2>3 DEF Orderly
  <1>12. CASE over /\ verdict'[m] # "Delivered"
    <2>1. /\ pending' = left /\ request' = Failed({m}, request) /\ m \in pending
          /\ UNCHANGED <<queue, acks>>
      BY <1>12 DEF Noted, left
    <2>2. /\ Heeded(left, Failed({m}, request), acks) /\ Borne(left, Failed({m}, request))
          /\ Staffed(Failed({m}, request))
      BY <1>1, <1>4, <1>7, <1>8, <2>1, FailedWanted
    <2>3. Heeded(pending', request', acks') /\ Borne(pending', request') /\ Staffed(request')
      BY <2>1, <2>2
    <2>4. Rest
      BY <1>5, <1>7, <2>1, <2>3 DEF Heeded, Borne, Staffed, Expects, Awaits, Awaited
    <2>. QED  BY <1>9, <1>10, <2>1, <2>4 DEF Orderly
  <1>13. CASE over /\ verdict'[m] = "Delivered"
    <2>1. pending' = left /\ Arrive(m, request, acks) /\ m \in pending
      BY <1>13 DEF Noted, left
    <2>2. request' = Arrived(m, request) /\ acks' = Received(m, acks)
      BY <2>1 DEF Arrive
    <2>3. /\ Heeded(left, Arrived(m, request), Received(m, acks))
          /\ Borne(left, Arrived(m, request)) /\ Staffed(Arrived(m, request))
      BY <1>1, <1>4, <1>7, <1>8, <2>1, ArrivedWanted
    <2>4. Heeded(pending', request', acks') /\ Borne(pending', request') /\ Staffed(request')
      BY <2>1, <2>2, <2>3
    <2>5. Rest
      BY <1>5, <1>7, <2>1, <2>4 DEF Heeded, Borne, Staffed, Expects, Awaits, Awaited
    <2>6. record[m] # "None" /\ MaySend({m}, request)
      <3>1. record[m] # "None"
        BY <1>3 DEF Safe, Booked
      <3>. QED  BY <3>1, MaySendSame
    <2>7. \A o \in Order : m = Command(o) => ~Inside(o)
      BY <2>1 DEF Safe, EnteredOnce
    <2>8. ASSUME NEW o \in Order, Inside(o)'
          PROVE  record'[Command(o)] \in Told
      <3>1. CASE queue'[o] = queue[o]
        BY <1>6, <2>8, <3>1 DEF Inside
      <3>2. CASE queue'[o] # queue[o]
        <4>1. Command(o) \in {m}
          BY <1>1, <2>1, <2>6, <2>7, <3>2, ArriveEnters DEF Entering
        <4>. QED  BY <1>2, <1>13, <4>1, VerdictFacts
      <3>. QED  BY <3>1, <3>2
    <2>9. m.leg = "ack" => acks[m.of].known /\ m \in Replies(m.of) /\ m \in Heard'
      <3>1. m.leg = "ack" => Expects(m, request[m.of], acks[m.of])
        BY <1>4, <2>1 DEF Heeded
      <3>2. m.leg = "ack" => ~Awaits(m, request[m.of]) /\ m # Command(m.of)
        BY Distinct DEF Awaits, Awaited
      <3>3. m \in Heard'
        BY <1>2, <1>13, VerdictFacts DEF Heard
      <3>. QED  BY <3>1, <3>2, <3>3, ReplyFacts DEF Expects
    <2>10. \A o \in Order :
               /\ acks'[o].known = acks[o].known /\ acks'[o].made = acks[o].made
               /\ acks'[o].left = acks[o].left
               /\ acks'[o] = acks[o] \/ (m.leg = "ack" /\ o = m.of /\ acks'[o].received)
      BY <1>1, <2>2, ReceivedFacts
    <2>11. Grounded'
      <3>1. \A o \in Order : acks'[o].received =>
                acks[o].received \/ (acks[o].known /\ \E n \in Replies(o) : n \in Heard')
        BY <2>9, <2>10
      <3>. QED  BY <1>1, <1>2, <1>4, <2>10, <3>1, GroundedOn
    <2>. QED  BY <2>5, <2>8, <2>10, <2>11 DEF Orderly
  <1>. QED  BY <1>11, <1>12, <1>13

LEMMA FinishReportingOrderly ==
    ASSUME Safe, Orderly, NEW m \in Message, FinishReporting(m)
    PROVE  Settles
  <1>1. /\ WiresTypeOK /\ DataTypeOK /\ acks \in [Order -> Ack] /\ pending \in SUBSET Message
        /\ request \in [Order -> Request]
    BY DEF Safe, DataTypeOK, WiresTypeOK
  <1>2. /\ record[m] \in Open /\ UNCHANGED <<queue, acks, applied, results>>
        /\ Network!Cancel(m) \/ verdict' = verdict
    BY DEF FinishReporting, world
  <1>3. /\ \A n \in Message \ {m} : verdict'[n] = verdict[n]
        /\ verdict[m] = "Unsent" => verdict'[m] = "Unsent"
    BY <1>1, <1>2, CancelKept DEF Network!Cancel, Network!Becomes, Network!Open
  <1>4. CASE Abort(request, {m})
    BY <1>4 DEF Abort, Settles
  <1>5. CASE /\ record' = [record EXCEPT ![m] = "Dropped"]
             /\ pending' = pending \ {m}
             /\ request' = Failed({m} \cap pending, request)
             /\ UNCHANGED game
    <2>1. \A n \in Message \ {m} : record'[n] = record[n]
      BY <1>1, <1>5 DEF WiresTypeOK
    <2>2. record'[m] = "Dropped"
      BY <1>1, <1>5 DEF WiresTypeOK
    <2>3. Kept /\ Heard \subseteq Heard'
      BY <1>1, <1>2, <1>3, <2>1, <2>2, VerdictFacts, KeptFrom DEF Kept
    <2>4. Grounded'
      BY <1>1, <1>2, <2>3, GroundedOn DEF Orderly
    <2>5. \A o \in Order : Inside(o)' => record'[Command(o)] \in Told
      <3>1. \A o \in Order : Inside(o)' => record[Command(o)] \in Told
        BY <1>2 DEF Orderly, Inside
      <3>. QED  BY <1>2, <2>1, <3>1, CommandMessage, VerdictFacts
    <2>6. /\ \A n \in pending' : record'[n] \in Open /\ verdict'[n] \in Open
          /\ \A n \in Near : verdict'[n] = "Unsent"
      BY <1>1, <1>3, <1>5, <2>1, NearAssumption DEF Orderly
    <2>. DEFINE left == pending \ {m}
    <2>7. left \in SUBSET Message /\ m \notin left /\ Heeded(left, request, acks)
      BY <1>1 DEF Orderly, Heeded
    <2>8. Heeded(left, request', acks) /\ Borne(left, request') /\ Staffed(request')
      <3>1. CASE m \in pending
        <4>1. left \cup {m} = pending /\ {m} \cap pending = {m}
          BY <3>1
        <4>2. request' = Failed({m}, request) /\ Borne(left \cup {m}, request) /\ Staffed(request)
          BY <1>5, <4>1 DEF Orderly
        <4>. HIDE DEF left
        <4>3. /\ Heeded(left, Failed({m}, request), acks) /\ Borne(left, Failed({m}, request))
              /\ Staffed(Failed({m}, request))
          BY <1>1, <2>7, <4>2, FailedWanted
        <4>. QED  BY <4>2, <4>3
      <3>2. CASE m \notin pending
        <4>1. left = pending /\ {m} \cap pending = {}
          BY <3>2
        <4>2. request' = request
          BY <1>1, <1>5, <4>1 DEF Failed
        <4>. QED  BY <2>7, <4>1, <4>2 DEF Orderly
      <3>. QED  BY <3>1, <3>2
    <2>9. Heeded(pending, request, acks)' /\ Borne(pending, request)' /\ Staffed(request)'
      <3>1. Heeded(pending', request', acks') /\ Borne(pending', request') /\ Staffed(request')
        BY <1>2, <1>5, <2>8
      <3>. QED  BY <3>1 DEF Heeded, Borne, Staffed, Expects, Awaits, Awaited
    <2>. QED  BY <1>2, <1>5, <2>4, <2>5, <2>6, <2>9 DEF Orderly, Settles
  <1>. QED  BY <1>4, <1>5 DEF FinishReporting

\* A request that is with a decider, or new, moves without a message or is sent on.
LEMMA ChangeOrderly ==
    ASSUME Safe, Orderly, NEW o \in Order, NEW s, request[o].status \in Undecided,
           s.status # "InTransit", Executable(o) => s.status \notin NotForOrders,
           request' = [request EXCEPT ![o] = s], UNCHANGED <<wires, queue, applied, results, acks>>
    PROVE  Orderly'
  <1>1. /\ request \in [Order -> Request] /\ pending \in SUBSET Message
        /\ UNCHANGED <<pending, record, verdict, queue, acks>>
    BY DEF Safe, DataTypeOK, WiresTypeOK, wires
  <1>2. /\ request'[o] = s /\ \A p \in Order : p # o => request'[p] = request[p]
    BY <1>1
  <1>3. ASSUME NEW n \in pending
        PROVE  Expects(n, request'[n.of], acks[n.of])
    <2>1. Expects(n, request[n.of], acks[n.of]) /\ n.of \in Order
      BY <1>1, MessageFacts DEF Orderly, Heeded
    <2>2. CASE n.of # o
      BY <1>2, <2>1, <2>2
    <2>3. CASE n.of = o
      BY <2>1, <2>3 DEF Expects, Awaits, Undecided, Waiting
    <2>. QED  BY <2>2, <2>3
  <1>4. Borne(pending, request') /\ Staffed(request')
    BY <1>2 DEF Orderly, Borne, Staffed
  <1>5. Heard' = Heard
    BY <1>1 DEF Heard
  <1>6. Heeded(pending, request, acks)' /\ Borne(pending, request)' /\ Staffed(request)'
    BY <1>1, <1>3, <1>4 DEF Heeded, Borne, Staffed, Expects, Awaits, Awaited
  <1>7. Grounded'
    BY <1>1, <1>5 DEF Orderly, Grounded
  <1>. QED  BY <1>1, <1>6, <1>7 DEF Orderly, Inside

\* When a request that waited for no message becomes s, and goes with the messages
\* ps, everything under way is wanted.
LEMMA StillWanted ==
    ASSUME Safe, Orderly, NEW o \in Order, NEW s, request[o].status # "InTransit",
           Command(o) \notin pending, Executable(o) => s.status \notin NotForOrders,
           NEW ps, pending \subseteq ps, \A n \in ps \ pending : n.of = o /\ Awaits(n, s),
           s.status = "InTransit" => Awaited(o, s) \in ps
    PROVE  LET q == [request EXCEPT ![o] = s]
           IN  Heeded(ps, q, acks) /\ Borne(ps, q) /\ Staffed(q)
  <1>. DEFINE q == [request EXCEPT ![o] = s]
  <1>1. /\ request \in [Order -> Request] /\ pending \in SUBSET Message
    BY DEF Safe, DataTypeOK, WiresTypeOK
  <1>2. /\ q[o] = s /\ \A p \in Order : p # o => q[p] = request[p]
    BY <1>1
  <1>. HIDE DEF q
  <1>3. ASSUME NEW n \in pending
        PROVE  Expects(n, q[n.of], acks[n.of])
    <2>1. Expects(n, request[n.of], acks[n.of]) /\ n.of \in Order
      BY <1>1, MessageFacts DEF Orderly, Heeded
    <2>2. CASE n.of # o
      BY <1>2, <2>1, <2>2
    <2>3. CASE n.of = o
      BY <2>1, <2>3 DEF Expects, Awaits
    <2>. QED  BY <2>2, <2>3
  <1>4. ASSUME NEW n \in ps \ pending
        PROVE  Expects(n, q[n.of], acks[n.of])
    BY <1>2 DEF Expects
  <1>5. Borne(ps, q) /\ Staffed(q)
    BY <1>2 DEF Orderly, Borne, Staffed
  <1>6. Heeded(ps, q, acks)
    BY <1>3, <1>4 DEF Heeded
  <1>. QED  BY <1>5, <1>6 DEF q

LEMMA ForwardOrderly ==
    ASSUME Safe, Orderly, NEW o \in Order, request[o].status \in Undecided,
           NEW approved \in BOOLEAN, NEW automatic \in BOOLEAN, NEW from, NEW to,
           Forward(o, from, to, Onward(request[o], approved, automatic)),
           UNCHANGED <<applied, results>>
    PROVE  approved => Settles
  <1>. DEFINE n == Onward(request[o], approved, automatic)
              m == Awaited(o, n)
              go == Turned(n, "InTransit")
              no == Turned(n, "BlockedComms")
              sent == [request EXCEPT ![o] = go]
              unsent == [request EXCEPT ![o] = no]
  <1>1. request[o] \in Request /\ Good(o, request[o], Heard) /\ acks \in [Order -> Ack]
        /\ pending \in SUBSET Message
    BY SafeFacts DEF Safe, DataTypeOK, WiresTypeOK
  <1>2. approved => Passed(o, request[o], n, go, "InTransit", Heard)
    BY <1>1, OnwardGood
  <1>3. approved => Passed(o, request[o], n, no, "BlockedComms", Heard)
    BY <1>1, OnwardGood
  <1>4. SUFFICES ASSUME approved
                 PROVE  Settles
    OBVIOUS
  <1>5. /\ m \in Message /\ m \in {Ask(o, request[o].step + 1), Command(o)}
        /\ m.of = o /\ m.leg # "ack"
        /\ Good(o, go, Heard) /\ Grows(request[o], go) /\ go.status = "InTransit"
        /\ Awaited(o, go) = m
        /\ no.status = "BlockedComms"
    <2>1. /\ m \in Message /\ m \in {Ask(o, request[o].step + 1), Command(o)}
          /\ Good(o, go, Heard) /\ Grows(request[o], go) /\ go.status = "InTransit"
          /\ Awaited(o, go) = m
      BY <1>2, <1>4 DEF Passed
    <2>2. no.status = "BlockedComms"
      BY <1>3, <1>4 DEF Passed
    <2>3. m.of = o /\ m.leg # "ack"
      BY <2>1, Distinct
    <2>. QED  BY <2>1, <2>2, <2>3
  <1>6. ~Inside(o) /\ request[o].status \notin {"None", "Approved", "InTransit"}
    BY SafeFacts DEF Undecided, Waiting
  <1>7. \/ Post(m, sent, unsent, acks)
        \/ request' = unsent /\ UNCHANGED <<wires, queue, acks, game>>
    BY DEF Forward
  <1>8. \A p \in pending : p.of = o => p.leg = "ack"
    <2>1. \A p \in pending : p.of = o => Expects(p, request[o], acks[o])
      BY DEF Orderly, Heeded
    <2>. QED  BY <1>6, <2>1 DEF Expects, Awaits
  <1>9. m \notin pending /\ Command(o) \notin pending
    BY <1>5, <1>8, Distinct
  <1>. HIDE DEF n, m, go, no
  <1>10. CASE request' = unsent /\ UNCHANGED <<wires, queue, acks, game>>
    <2>1. no.status # "InTransit" /\ (Executable(o) => no.status \notin NotForOrders)
      BY <1>5 DEF NotForOrders
    <2>2. Orderly'
      BY <1>10, <2>1, ChangeOrderly
    <2>. QED  BY <1>10, <2>2 DEF Settles
  <1>11. CASE Post(m, sent, unsent, acks)
    <2>. DEFINE ms == {m}
    <2>1. \A p \in Order : Command(p) \in ms => p = o
      BY <1>5, Distinct
    <2>. HIDE DEF ms
    <2>2. MaySend(ms, sent)
      BY <1>5, <1>6, <2>1, ChangeMaySend
    <2>3. \A p \in Order : m = Command(p) => ~Inside(p)
      BY <1>6, <2>1 DEF ms
    <2>. DEFINE ps == pending \cup {m}
    <2>4. pending \subseteq ps /\ m \in ps /\ \A p \in ps \ pending : p.of = o /\ Awaits(p, go)
      BY <1>5 DEF Awaits
    <2>5. "InTransit" \notin NotForOrders /\ "BlockedComms" \notin NotForOrders
      BY DEF NotForOrders
    <2>. HIDE DEF ps
    <2>6. Heeded(ps, sent, acks) /\ Borne(ps, sent) /\ Staffed(sent)
      BY <1>5, <1>6, <1>9, <2>4, <2>5, StillWanted
    <2>7. PICK qs : qs = pending
      OBVIOUS
    <2>8. Heeded(qs, unsent, acks) /\ Borne(qs, unsent) /\ Staffed(unsent)
      BY <1>5, <1>6, <1>9, <2>5, <2>7, StillWanted
    <2>9. PICK s, u, a, x : s = sent /\ u = unsent /\ a = acks /\ x = m
      OBVIOUS
    <2>. HIDE DEF sent, unsent
    <2>10. /\ MaySend({x}, s) /\ a \in [Order -> Ack] /\ Post(x, s, u, a) /\ x \in Message
           /\ x \notin pending
           /\ Heeded(pending \cup {x}, s, a) /\ Borne(pending \cup {x}, s) /\ Staffed(s)
           /\ Heeded(pending, u, a) /\ Borne(pending, u) /\ Staffed(u)
           /\ x.leg # "ack" /\ \A p \in Order : x = Command(p) => ~Inside(p)
      BY <1>1, <1>5, <1>9, <1>11, <2>2, <2>3, <2>6, <2>7, <2>8, <2>9 DEF ms, ps
    <2>11. \A p \in Order : /\ a[p].known = acks[p].known /\ a[p].received = acks[p].received
                            /\ a[p] = acks[p] \/ a[p].known
      BY <2>9
    <2>12. \/ broken'
           \/ /\ UNCHANGED game /\ Orderly'
              /\ \A p \in Order : acks'[p] = a[p] \/ acks'[p].received
      BY <2>10, <2>11, PostOrderly
    <2>. QED  BY <2>9, <2>12 DEF Settles
  <1>. QED  BY <1>7, <1>10, <1>11

LEMMA AdvanceOrderly ==
    ASSUME Safe, Orderly, NEW o \in Order, request[o].status \in Undecided,
           NEW approved \in BOOLEAN, NEW automatic \in BOOLEAN,
           Advance(o, approved, automatic), UNCHANGED <<applied, results>>
    PROVE  Settles
  <1>. DEFINE r == request[o]
              denied == Turned(Said(r, approved, automatic), "Denied")
              next == Onward(r, approved, automatic)
              done == Turned(next, "ApprovedNoExecutor")
  <1>1. r \in Request /\ Good(o, r, Heard)
    BY SafeFacts
  <1>2. ~approved => denied.status = "Denied"
    BY <1>1, DeniedGood
  <1>3. approved => done.status = "ApprovedNoExecutor"
    <2>1. approved => Passed(o, r, next, done, "ApprovedNoExecutor", Heard)
      BY <1>1, OnwardGood
    <2>. QED  BY <2>1 DEF Passed
  <1>4. \/ /\ ~approved /\ request' = [request EXCEPT ![o] = denied]
           /\ UNCHANGED <<wires, queue, acks, game>>
        \/ approved /\ \E to : Forward(o, Decider(r), to, next)
        \/ /\ approved /\ request' = [request EXCEPT ![o] = done] /\ ~Executable(o)
           /\ UNCHANGED <<wires, queue, acks, game>>
    BY DEF Advance, Said, Onward
  <1>5. ASSUME NEW to, approved, Forward(o, Decider(r), to, next)
        PROVE  Settles
    BY <1>5, ForwardOrderly
  <1>. HIDE DEF denied, next, done
  <1>6. ASSUME NEW s, s.status # "InTransit", Executable(o) => s.status \notin NotForOrders,
               request' = [request EXCEPT ![o] = s], UNCHANGED <<wires, queue, acks, game>>
        PROVE  Settles
    BY <1>6, ChangeOrderly DEF Settles
  <1>7. CASE /\ ~approved /\ request' = [request EXCEPT ![o] = denied]
             /\ UNCHANGED <<wires, queue, acks, game>>
    <2>1. denied.status # "InTransit" /\ denied.status \notin NotForOrders
      BY <1>2, <1>7 DEF NotForOrders
    <2>. QED  BY <1>6, <1>7, <2>1
  <1>8. CASE /\ approved /\ request' = [request EXCEPT ![o] = done] /\ ~Executable(o)
             /\ UNCHANGED <<wires, queue, acks, game>>
    <2>1. done.status # "InTransit"
      BY <1>3, <1>8
    <2>. QED  BY <1>6, <1>8, <2>1
  <1>. QED  BY <1>4, <1>5, <1>7, <1>8

\* A message is sent for requests that stay as they are, unless it goes.
LEMMA FreshOrderly ==
    ASSUME Safe, Orderly, NEW o \in Order, Fresh(o)
    PROVE  /\ request[o] = NoRequest /\ ~Inside(o) /\ Command(o) \notin pending
           /\ \A chain \in Chains[o] : chain # <<>> => Ask(o, 1) \notin pending
           /\ acks \in [Order -> Ack] /\ pending \in SUBSET Message
  <1>1. \A m \in pending : record[m] # "None"
    BY DEF Safe, Booked, DataTypeOK, WiresTypeOK
  <1>2. ASSUME NEW chain \in Chains[o], chain # <<>>
        PROVE  Ask(o, 1) \in Asks(o)
    <2>1. chain \in Seq(Role) /\ Len(chain) \in Nat
      BY ChainFacts
    <2>2. 1 \in 1..Len(chain)
      BY <1>2, <2>1, EmptySeq
    <2>. QED  BY <2>2 DEF Asks
  <1>. QED  BY <1>1, <1>2, FreshFacts DEF Fresh, Safe, DataTypeOK, WiresTypeOK

LEMMA SubmitDirectOrderly ==
    ASSUME Safe, Orderly, NEW o \in Order, Fresh(o), <<>> \in Chains[o],
           Post(Command(o), request, request, acks), UNCHANGED <<applied, results>>
    PROVE  Settles
  <1>1. /\ Command(o) \in Message /\ request[o] = NoRequest /\ ~Inside(o)
        /\ acks \in [Order -> Ack] /\ Command(o) \notin pending
    BY CommandMessage, FreshOrderly
  <1>2. MaySend({Command(o)}, request)
    <2>1. \A p \in Order : Grows(request[p], request[p])
      BY SafeFacts, GrowsSelf
    <2>2. \A p \in Order : Command(p) \in {Command(o)} => p = o
      BY Distinct
    <2>. QED  BY <2>1, <2>2 DEF MaySend, Safe, DataTypeOK, RequestsGood, Booked
  <1>3. \A p \in Order : Command(o) = Command(p) => ~Inside(p)
    BY <1>1, Distinct
  <1>4. Heeded(pending \cup {Command(o)}, request, acks) /\ Heeded(pending, request, acks)
    BY <1>1, Distinct DEF Orderly, Heeded, Expects, NoRequest
  <1>5. /\ Borne(pending, request) /\ Staffed(request) /\ Borne(pending \cup {Command(o)}, request)
    BY DEF Orderly, Borne
  <1>6. PICK m, s, a : m = Command(o) /\ s = request /\ a = acks
    OBVIOUS
  <1>7. /\ MaySend({m}, s) /\ Post(m, s, s, a) /\ a \in [Order -> Ack] /\ m \in Message
        /\ Heeded(pending \cup {m}, s, a) /\ Borne(pending \cup {m}, s) /\ Staffed(s)
        /\ Heeded(pending, s, a) /\ Borne(pending, s) /\ m \notin pending
        /\ m.leg # "ack" /\ \A p \in Order : m = Command(p) => ~Inside(p)
    BY <1>1, <1>2, <1>3, <1>4, <1>5, <1>6, Distinct
  <1>8. \A p \in Order : /\ a[p].known = acks[p].known /\ a[p].received = acks[p].received
                         /\ a[p] = acks[p] \/ a[p].known
    BY <1>6
  <1>9. \/ broken'
        \/ /\ UNCHANGED game /\ Orderly'
           /\ \A p \in Order : acks'[p] = a[p] \/ acks'[p].received
    BY <1>7, <1>8, PostOrderly
  <1>. QED  BY <1>6, <1>9 DEF Settles

LEMMA SubmitAskOrderly ==
    ASSUME Safe, Orderly, NEW o \in Order, Fresh(o), NEW chain \in Chains[o], chain # <<>>,
           Post(Ask(o, 1), [request EXCEPT ![o] = Asking(chain)], request, acks),
           UNCHANGED <<applied, results>>
    PROVE  Settles
  <1>. DEFINE s == Asking(chain)
              sent == [request EXCEPT ![o] = s]
  <1>1. /\ Ask(o, 1) \in Message /\ request[o] = NoRequest /\ ~Inside(o)
        /\ acks \in [Order -> Ack] /\ Ask(o, 1) \notin pending /\ Command(o) \notin pending
        /\ Good(o, s, Heard) /\ Grows(request[o], s) /\ s.status = "InTransit"
        /\ Awaited(o, s) = Ask(o, 1)
    BY FreshOrderly, AskingGood
  <1>. HIDE DEF s
  <1>. DEFINE ms == {Ask(o, 1)}
              ps == pending \cup {Ask(o, 1)}
  <1>2. Ask(o, 1) \in ms /\ \A p \in Order : Command(p) \notin ms
    BY Distinct
  <1>3. pending \subseteq ps /\ Ask(o, 1) \in ps
        /\ \A n \in ps \ pending : n.of = o /\ Awaits(n, s)
    BY <1>1, Distinct DEF Awaits
  <1>. HIDE DEF ms, ps
  <1>4. MaySend(ms, sent)
    BY <1>1, <1>2, ChangeMaySend
  <1>5. Heeded(ps, sent, acks) /\ Borne(ps, sent) /\ Staffed(sent)
    <2>1. /\ request[o].status # "InTransit" /\ s.status \notin NotForOrders
          /\ Awaited(o, s) \in ps
      BY <1>1, <1>3 DEF NoRequest, NotForOrders
    <2>. QED  BY <1>1, <1>3, <2>1, StillWanted
  <1>6. Heeded(pending, request, acks) /\ Borne(pending, request) /\ Staffed(request)
    BY DEF Orderly
  <1>7. PICK m, q, u, a : m = Ask(o, 1) /\ q = sent /\ u = request /\ a = acks
    OBVIOUS
  <1>8. /\ MaySend({m}, q) /\ a \in [Order -> Ack] /\ m \in Message
        /\ Heeded(pending \cup {m}, q, a) /\ Borne(pending \cup {m}, q) /\ Staffed(q)
        /\ Heeded(pending, u, a) /\ Borne(pending, u) /\ Staffed(u) /\ m \notin pending
        /\ m.leg # "ack" /\ \A p \in Order : m = Command(p) => ~Inside(p)
    BY <1>1, <1>2, <1>4, <1>5, <1>6, <1>7, Distinct DEF ms, ps
  <1>9. Post(m, q, u, a)
    BY <1>7 DEF s
  <1>10. \A p \in Order : /\ a[p].known = acks[p].known /\ a[p].received = acks[p].received
                          /\ a[p] = acks[p] \/ a[p].known
    BY <1>7
  <1>11. \/ broken'
         \/ /\ UNCHANGED game /\ Orderly'
            /\ \A p \in Order : acks'[p] = a[p] \/ acks'[p].received
    BY <1>8, <1>9, <1>10, PostOrderly
  <1>. QED  BY <1>7, <1>11 DEF Settles

LEMMA SubmitOrderly ==
    ASSUME Safe, Orderly, NEW o \in Order, Submit(o) \/ SubmitSatellite(o)
    PROVE  Settles
  <1>1. Fresh(o) /\ UNCHANGED <<applied, results>>
    BY DEF Submit, SubmitSatellite
  <1>2. CASE Submit(o)
    <2>1. PICK chain \in Chains[o] :
              IF chain = <<>> THEN Post(Command(o), request, request, acks)
              ELSE Post(Ask(o, 1), [request EXCEPT ![o] = Asking(chain)], request, acks)
      BY <1>2 DEF Submit
    <2>2. CASE chain = <<>>
      BY <1>1, <2>1, <2>2, SubmitDirectOrderly
    <2>3. CASE chain # <<>>
      BY <1>1, <2>1, <2>3, SubmitAskOrderly
    <2>. QED  BY <2>2, <2>3
  <1>3. CASE SubmitSatellite(o)
    <2>1. PICK chain \in Chains[o] :
              Post(Ask(o, 1), [request EXCEPT ![o] = Asking(chain)], request, acks)
      BY <1>3 DEF SubmitSatellite
    <2>2. chain # <<>>
      BY <1>3, FlowAssumption DEF SubmitSatellite
    <2>. QED  BY <1>1, <2>1, <2>2, SubmitAskOrderly
  <1>. QED  BY <1>2, <1>3

LEMMA DecideOrderly ==
    ASSUME Safe, Orderly, NEW o \in Order, NEW approved \in BOOLEAN, Decide(o, approved)
    PROVE  Settles
  <1>1. /\ request[o].status \in Undecided /\ UNCHANGED <<applied, results>>
        /\ Advance(o, approved, FALSE) /\ FALSE \in BOOLEAN
    BY DEF Decide, MayDecide, Undecided
  <1>2. PICK automatic \in BOOLEAN : Advance(o, approved, automatic)
    BY <1>1
  <1>. QED  BY <1>1, <1>2, AdvanceOrderly

LEMMA VacantOrderly ==
    ASSUME Safe, Orderly, NEW o \in Order, Vacant(o)
    PROVE  Settles
  <1>1. UNCHANGED <<applied, results>> /\ request[o].status \in Undecided
        /\ (request[o].status = "PendingExternal" => ~Executable(o))
    BY DEF Vacant, Undecided, Waiting, Orderly, Staffed, NotForOrders
  <1>2. \/ \E state \in Undecided \cup {"ApprovedNoExecutor", "DeniedExternal"} :
              /\ request' = [request EXCEPT ![o] = Turned(request[o], state)]
              /\ state \notin NotForOrders \/ ~Executable(o)
              /\ UNCHANGED <<wires, queue, acks, game>>
        \/ \E approved, automatic \in BOOLEAN : Advance(o, approved, automatic)
    BY <1>1 DEF Vacant, Undecided, Waiting, NotForOrders
  <1>3. ASSUME NEW state \in Undecided \cup {"ApprovedNoExecutor", "DeniedExternal"},
               request' = [request EXCEPT ![o] = Turned(request[o], state)],
               state \notin NotForOrders \/ ~Executable(o),
               UNCHANGED <<wires, queue, acks, game>>
        PROVE  Settles
    <2>1. state \in States /\ state # "InTransit"
      BY DEF States, Undecided, Waiting, Final
    <2>2. Turned(request[o], state).status = state
      BY <2>1, SafeFacts, TurnedFacts
    <2>3. PICK s : s = Turned(request[o], state)
      OBVIOUS
    <2>4. /\ s.status # "InTransit" /\ (Executable(o) => s.status \notin NotForOrders)
          /\ request' = [request EXCEPT ![o] = s]
      BY <1>3, <2>1, <2>2, <2>3
    <2>. QED  BY <1>1, <1>3, <2>4, ChangeOrderly DEF Settles
  <1>. QED  BY <1>1, <1>2, <1>3, AdvanceOrderly

LEMMA SendAckOrderly ==
    ASSUME Safe, Orderly, NEW o \in Order, SendAck(o)
    PROVE  Settles
  <1>. DEFINE made == acks[o].made + 1
              m == Reply(o, made)
              tried == [acks EXCEPT ![o] = [@ EXCEPT !.made = made, !.left = RetryTicks]]
  <1>1. Post(m, request, request, tried) /\ UNCHANGED <<applied, results>>
    BY DEF SendAck
  <1>2. /\ acks[o] \in Ack /\ acks[o].made < MaxAttempts /\ acks[o].known /\ ~Answering(o)
        /\ acks \in [Order -> Ack]
    BY SafeFacts DEF SendAck, AckDue, Safe, DataTypeOK
  <1>3. made \in 1..MaxAttempts
    BY <1>2, FlowAssumption DEF Ack
  <1>4. m \in Message /\ m \in Replies(o) /\ m.of = o /\ m.leg = "ack"
    BY <1>3, ReplyMessage, Distinct DEF Replies
  <1>5. m \notin pending
    BY <1>2, <1>4 DEF Answering
  <1>6. RetryTicks \in 0..RetryTicks /\ made \in 0..MaxAttempts
    BY <1>3, FlowAssumption
  <1>7. /\ tried \in [Order -> Ack] /\ tried[o].known /\ tried[o].known = acks[o].known
        /\ tried[o].received = acks[o].received
        /\ \A p \in Order : p # o => tried[p] = acks[p]
    <2>1. LET a == [acks[o] EXCEPT !.made = made, !.left = RetryTicks]
          IN  a \in Ack /\ a.known = acks[o].known /\ a.received = acks[o].received
      BY <1>2, <1>6 DEF Ack
    <2>. QED  BY <1>2, <2>1
  <1>8. (\A p \in Order : m # Command(p)) /\ \A p, i : m # Ask(p, i)
    BY Distinct
  <1>. HIDE DEF made, tried, m
  <1>9. MaySend({m}, request)
    <2>1. \A p \in Order : Grows(request[p], request[p])
      BY SafeFacts, GrowsSelf
    <2>. QED  BY <1>8, <2>1 DEF MaySend, Safe, DataTypeOK, RequestsGood, Booked
  <1>10. /\ Heeded(pending, request, tried) /\ Borne(pending, request) /\ Staffed(request)
         /\ Borne(pending \cup {m}, request)
    <2>1. \A n \in pending : n.of \in Order
      BY MessageFacts DEF Safe, DataTypeOK, WiresTypeOK
    <2>2. \A p \in Order : tried[p].known = acks[p].known
      BY <1>7
    <2>. QED  BY <2>1, <2>2 DEF Orderly, Heeded, Expects, Borne
  <1>11. Heeded(pending \cup {m}, request, tried)
    BY <1>4, <1>7, <1>10 DEF Heeded, Expects
  <1>12. PICK n, s, a : n = m /\ s = request /\ a = tried
    OBVIOUS
  <1>13. /\ MaySend({n}, s) /\ Post(n, s, s, a) /\ a \in [Order -> Ack] /\ n \in Message
         /\ Heeded(pending \cup {n}, s, a) /\ Borne(pending \cup {n}, s) /\ Staffed(s)
         /\ Heeded(pending, s, a) /\ Borne(pending, s) /\ n \notin pending
         /\ acks[n.of].known /\ \A p \in Order : n # Command(p)
    BY <1>1, <1>2, <1>4, <1>5, <1>7, <1>8, <1>9, <1>10, <1>11, <1>12
  <1>14. \A p \in Order : /\ a[p].known = acks[p].known /\ a[p].received = acks[p].received
                          /\ a[p] = acks[p] \/ a[p].known
    BY <1>2, <1>7, <1>12
  <1>15. \/ broken'
         \/ /\ UNCHANGED game /\ Orderly'
            /\ \A p \in Order : acks'[p] = a[p] \/ acks'[p].received
    BY <1>1, <1>13, <1>14, PostOrderly
  <1>16. AtHand(o) => broken' \/ acks'[o].received
    <2>. SUFFICES ASSUME AtHand(o), ~broken'
                  PROVE  acks'[o].received
      OBVIOUS
    <2>1. n \in Near
      BY <1>4, <1>12 DEF AtHand
    <2>2. HandedOver(n, s, a)
      BY <1>13, <2>1 DEF Post, Accepted, NoRoute, Unrecorded, Abort
    <2>3. acks' = Received(n, a)
      BY <2>2 DEF HandedOver, Arrive
    <2>4. acks' = [a EXCEPT ![o].received = TRUE]
      BY <1>4, <1>12, <2>3 DEF Received
    <2>. QED  BY <1>13, <2>4 DEF Ack
  <1>17. \A p \in Order : p # o => a[p] = acks[p]
    BY <1>7, <1>12
  <1>. QED  BY <1>15, <1>16, <1>17 DEF Settles

\* Requests, messages and the simulation rest.
LEMMA StillOrderly ==
    ASSUME Orderly, UNCHANGED <<request, wires, queue, applied>>, results' \subseteq results,
           \A o \in Order : /\ acks[o].known => acks'[o].known
                            /\ acks'[o].known => o \in applied
                            /\ acks'[o].received => acks[o].received
                            /\ ~acks'[o].known => acks'[o].made = 0 /\ acks'[o].left = 0,
           pending \subseteq Message
    PROVE  Orderly'
  <1>1. UNCHANGED <<pending, record, verdict, queue>> /\ Heard' = Heard
    BY DEF wires, Heard
  <1>2. Heeded(pending, request, acks)'
    <2>1. \A n \in pending : n.of \in Order /\ Expects(n, request[n.of], acks[n.of])
      BY MessageFacts DEF Orderly, Heeded
    <2>2. \A n \in pending : Expects(n, request[n.of], acks'[n.of])
      BY <2>1 DEF Expects
    <2>. QED  BY <1>1, <2>2 DEF Heeded, Expects, Awaits, Awaited
  <1>3. Borne(pending, request)' /\ Staffed(request)'
    BY <1>1 DEF Orderly, Borne, Staffed, Awaited
  <1>4. Grounded'
    BY <1>1 DEF Orderly, Grounded
  <1>. QED  BY <1>1, <1>2, <1>3, <1>4 DEF Orderly, Inside

LEMMA AcksWaitFacts ==
    ASSUME acks \in [Order -> Ack], AcksWait
    PROVE  \A o \in Order : /\ acks'[o].known = acks[o].known
                            /\ acks'[o].received = acks[o].received
                            /\ acks'[o].made = acks[o].made
                            /\ acks[o].left = 0 => acks'[o].left = 0
  <1>. SUFFICES ASSUME NEW o \in Order
                PROVE  /\ acks'[o].known = acks[o].known
                       /\ acks'[o].received = acks[o].received
                       /\ acks'[o].made = acks[o].made
                       /\ acks[o].left = 0 => acks'[o].left = 0
    OBVIOUS
  <1>. DEFINE left == IF acks[o].left = 0 THEN 0 ELSE acks[o].left - 1
  <1>1. acks'[o] = [acks[o] EXCEPT !.left = left] /\ (acks[o].left = 0 => left = 0)
    BY DEF AcksWait
  <1>. HIDE DEF left
  <1>. QED  BY <1>1 DEF Ack

LEMMA StepOrderly ==
    ASSUME Safe, Orderly, Step
    PROVE  Orderly'
  <1>1. /\ UNCHANGED <<pending, record, verdict>> /\ acks \in [Order -> Ack]
        /\ pending \subseteq Message /\ request \in [Order -> Request]
    BY DEF Step, wires, Safe, DataTypeOK, WiresTypeOK
  <1>2. PICK due \in SUBSET {o \in Order : queue[o] > 0} :
            /\ queue' = [o \in Order |-> IF o \in due THEN 0 ELSE queue[o]]
            /\ applied' = applied \cup due
            /\ results' = results \cup due
    BY DEF Step, ApplyOrders
  <1>3. \A o \in Order : /\ acks'[o].known = acks[o].known
                         /\ acks'[o].received = acks[o].received
                         /\ acks'[o].made = acks[o].made
                         /\ acks[o].left = 0 => acks'[o].left = 0
    BY <1>1, AcksWaitFacts DEF Step
  <1>4. \A o \in Order : /\ request'[o].status = request[o].status
                         /\ request'[o].step = request[o].step
                         /\ request'[o].steps = request[o].steps
    <2>1. CASE request' = request
      BY <2>1
    <2>2. CASE request' = [o \in Order |->
                   [request[o] EXCEPT !.left = IF @ = 0 THEN 0 ELSE @ - 1]]
      BY <1>1, <2>2 DEF Request
    <2>. QED  BY <2>1, <2>2 DEF Step
  <1>5. Heard' = Heard
    BY <1>1 DEF Heard
  <1>6. Heeded(pending, request, acks)'
    <2>1. \A n \in pending : n.of \in Order /\ Expects(n, request[n.of], acks[n.of])
      BY <1>1, MessageFacts DEF Orderly, Heeded
    <2>2. \A n \in pending : Expects(n, request'[n.of], acks'[n.of])
      BY <1>3, <1>4, <2>1 DEF Expects, Awaits, Awaited
    <2>. QED  BY <1>1, <2>2 DEF Heeded, Expects, Awaits, Awaited
  <1>7. Borne(pending, request)' /\ Staffed(request)'
    BY <1>1, <1>4 DEF Orderly, Borne, Staffed, Awaited
  <1>8. Grounded'
    <2>1. \A o \in Order : /\ acks'[o].known \/ o \in results' => o \in applied'
                           /\ acks'[o].received => acks'[o].known
                                /\ \E m \in Replies(o) : m \in Heard
                           /\ ~acks'[o].known => acks'[o].made = 0 /\ acks'[o].left = 0
      BY <1>2, <1>3 DEF Orderly, Grounded
    <2>. QED  BY <1>5, <2>1 DEF Grounded
  <1>9. \A o \in Order : Inside(o)' => Inside(o)
    <2>1. queue \in [Order -> Nat]
      BY DEF Safe, DataTypeOK
    <2>. QED  BY <1>2, <2>1 DEF Inside
  <1>. QED  BY <1>1, <1>6, <1>7, <1>8, <1>9 DEF Orderly

\* The event store that failed once is not trusted again.
LEMMA PostBroken ==
    ASSUME broken, NEW m, NEW sent, NEW unsent, NEW answers, Post(m, sent, unsent, answers)
    PROVE  broken'
  BY DEF Post, Accepted, HandedOver, NoRoute, Unrecorded, Abort, game

LEMMA AdvanceBroken ==
    ASSUME broken, NEW o, NEW approved \in BOOLEAN, NEW automatic \in BOOLEAN,
           Advance(o, approved, automatic)
    PROVE  broken'
  <1>1. ASSUME NEW from, NEW to, NEW r, Forward(o, from, to, r)
        PROVE  broken'
    <2>1. CASE UNCHANGED game
      BY <2>1 DEF game
    <2>2. CASE \E m, s, u : Post(m, s, u, acks)
      <3>1. PICK m, s, u, a : Post(m, s, u, a)
        BY <2>2
      <3>. QED  BY <3>1, PostBroken
    <2>. QED  BY <1>1, <2>1, <2>2 DEF Forward
  <1>2. CASE UNCHANGED game
    BY <1>2 DEF game
  <1>. QED  BY <1>1, <1>2 DEF Advance

LEMMA BrokenStays ==
    ASSUME broken, [Next]_vars
    PROVE  broken'
  <1>1. ASSUME NEW m, NEW s, NEW u, NEW a, Post(m, s, u, a)
        PROVE  broken'
    BY <1>1, PostBroken
  <1>2. ASSUME NEW o \in Order, Submit(o) \/ SubmitSatellite(o) \/ SendAck(o)
        PROVE  broken'
    <2>1. \E m, s, u, a : Post(m, s, u, a)
      BY <1>2 DEF Submit, SubmitSatellite, SendAck
    <2>. QED  BY <1>1, <2>1
  <1>3. ASSUME NEW o \in Order, Vacant(o) \/ \E approved \in BOOLEAN : Decide(o, approved)
        PROVE  broken'
    <2>1. UNCHANGED game \/ \E approved, automatic \in BOOLEAN : Advance(o, approved, automatic)
      BY <1>3 DEF Vacant, Decide
    <2>. QED  BY <2>1, AdvanceBroken DEF game
  <1>4. CASE Users
    BY <1>2, <1>3, <1>4 DEF Users, Sit, Leave, UpdateAuthority, Pause, Resume, Others
  <1>5. CASE Wires
    BY <1>5 DEF Wires, PacketEvent, RadioEvent, DeliveryUnrecorded, UnheardEvent, Abort, game
  <1>6. CASE Loop
    <2>1. CASE BeginTick \/ Step \/ Proceed \/ CloseWindow \/ FinishTick
      BY <2>1 DEF BeginTick, Step, Proceed, CloseWindow, FinishTick, game
    <2>2. CASE \E o \in Order : RecordResult(o)
      BY <2>2 DEF RecordResult, game
    <2>3. CASE \E m \in Message : FinishReporting(m)
      BY <2>3 DEF FinishReporting, Abort, game
    <2>. QED  BY <1>2, <1>3, <1>6, <2>1, <2>2, <2>3 DEF Loop
  <1>7. CASE UNCHANGED vars
    BY <1>7 DEF vars
  <1>. QED  BY <1>4, <1>5, <1>6, <1>7 DEF Next

--------------------------------------------------------------------------------
(* The host, and the replies that need not travel.                          *)

\* While the event store works the loop stops between two ticks only, and the
\* roles are those of the scenario unless somebody edits them.
HostKeeps ==
    /\ ~Edits => present = Role
    /\ ~Mission => mission = "active"
    /\ phase = "idle" \/ Running
    /\ phase # "deaf"

\* An order whose reply is at hand is answered in the tick that applies it.
AnsweredAtHand(o) ==
    \/ acks[o].received
    \/ o \in results /\ ~acks[o].known /\ phase \in {"air", "record"} /\ mission # "over"
    \/ /\ acks[o].known /\ acks[o].made = 0 /\ acks[o].left = 0
       /\ phase \in {"record", "report", "acks"}

NearAnswered == \A o \in Order : ~Edits /\ AtHand(o) /\ o \in applied => AnsweredAtHand(o)

Tracked == broken \/ (Orderly /\ HostKeeps /\ NearAnswered)

LEMMA SettlesTracked ==
    ASSUME HostKeeps, NearAnswered, Settles, UNCHANGED <<clock, seats, applied, results>>
    PROVE  Tracked'
  <1>1. UNCHANGED <<mission, phase, present, applied, results>>
    BY DEF clock, seats
  <1>2. CASE broken'
    BY <1>2 DEF Tracked
  <1>3. CASE /\ UNCHANGED game /\ Orderly'
             /\ \A o \in Order : acks'[o] = acks[o] \/ acks'[o].received \/ ~AtHand(o)
    <2>1. HostKeeps'
      BY <1>1, <1>3 DEF HostKeeps, game, Running
    <2>2. NearAnswered'
      BY <1>1, <1>3 DEF NearAnswered, AnsweredAtHand, AtHand
    <2>. QED  BY <1>3, <2>1, <2>2 DEF Tracked
  <1>. QED  BY <1>2, <1>3 DEF Settles

\* Steps that move no message and no request, nor change an acknowledgement.
LEMMA UsersTracked ==
    ASSUME Safe, Orderly, HostKeeps, NearAnswered, Users
    PROVE  Tracked'
  <1>1. ASSUME NEW o \in Order, Submit(o) \/ SubmitSatellite(o)
        PROVE  Tracked'
    <2>1. UNCHANGED <<clock, seats, applied, results>>
      BY <1>1 DEF Submit, SubmitSatellite
    <2>. QED  BY <1>1, <2>1, SubmitOrderly, SettlesTracked
  <1>2. ASSUME NEW o \in Order, NEW approved \in BOOLEAN, Decide(o, approved)
        PROVE  Tracked'
    <2>1. UNCHANGED <<clock, seats, applied, results>>
      BY <1>2 DEF Decide
    <2>. QED  BY <1>2, <2>1, DecideOrderly, SettlesTracked
  <1>3. ASSUME phase = "idle", UNCHANGED <<clock, Others>>, ~Edits => present' = present
        PROVE  Tracked'
    <2>1. UNCHANGED <<request, wires, queue, applied, results, acks, mission, phase>>
          /\ pending \subseteq Message
      BY <1>3 DEF Others, world, clock, Safe, DataTypeOK, WiresTypeOK
    <2>2. Orderly'
      BY <2>1, StillOrderly DEF Orderly, Grounded
    <2>3. HostKeeps'
      BY <1>3, <2>1 DEF HostKeeps
    <2>4. NearAnswered'
      BY <1>3, <2>1 DEF NearAnswered, AnsweredAtHand, AtHand
    <2>. QED  BY <2>2, <2>3, <2>4 DEF Tracked
  <1>4. CASE \/ \E r \in Role : Sit(r) \/ Leave(r)
             \/ \E roles \in SUBSET Role : UpdateAuthority(roles)
             \/ Pause \/ Resume
    BY <1>3, <1>4 DEF Sit, Leave, UpdateAuthority, Pause, Resume, Idle, seats
  <1>. QED  BY <1>1, <1>2, <1>4 DEF Users

LEMMA WiresTracked ==
    ASSUME Safe, Orderly, HostKeeps, NearAnswered, Wires
    PROVE  Tracked'
  <1>1. PICK m \in Message : \/ PacketEvent(m) \/ RadioEvent(m)
                             \/ DeliveryUnrecorded(m) \/ UnheardEvent(m)
    BY DEF Wires
  <1>2. CASE DeliveryUnrecorded(m)
    BY <1>2 DEF DeliveryUnrecorded, Tracked
  <1>3. ~UnheardEvent(m)
    BY DEF UnheardEvent, HostKeeps
  <1>4. CASE PacketEvent(m) \/ RadioEvent(m)
    <2>1. UNCHANGED <<clock, seats, applied, results>> /\ Happens(m)
      BY <1>4 DEF PacketEvent, RadioEvent, Happens
    <2>2. (Noted(m) /\ UNCHANGED game) \/ broken'
      BY <1>4 DEF PacketEvent, RadioEvent, Abort
    <2>3. CASE Noted(m) /\ UNCHANGED game
      <3>1. Settles
        BY <2>1, <2>3, NotedOrderly DEF Settles
      <3>. QED  BY <2>1, <3>1, SettlesTracked
    <2>. QED  BY <2>2, <2>3 DEF Tracked
  <1>. QED  BY <1>1, <1>2, <1>3, <1>4

\* A tick that begins, goes on or ends with nothing in the orders' way.
LEMMA TickTracked ==
    ASSUME Safe, Orderly, HostKeeps, NearAnswered,
           BeginTick \/ Proceed \/ CloseWindow \/ FinishTick
    PROVE  Tracked'
  <1>1. /\ UNCHANGED <<seats, request, wires, queue, applied, results, broken>>
        /\ acks \in [Order -> Ack] /\ pending \subseteq Message
    BY DEF BeginTick, Proceed, CloseWindow, FinishTick, Elsewhere, world, game, Safe, DataTypeOK,
           WiresTypeOK
  <1>2. \A o \in Order : /\ acks'[o].known = acks[o].known
                         /\ acks'[o].received = acks[o].received
                         /\ acks'[o].made = acks[o].made
                         /\ acks[o].left = 0 => acks'[o].left = 0
    BY <1>1, AcksWaitFacts DEF BeginTick, Proceed, CloseWindow, FinishTick, Elsewhere
  <1>3. Orderly'
    <2>1. \A o \in Order : /\ acks[o].known => acks'[o].known
                           /\ acks'[o].known => o \in applied
                           /\ acks'[o].received => acks[o].received
                           /\ ~acks'[o].known => acks'[o].made = 0 /\ acks'[o].left = 0
      BY <1>2 DEF Orderly, Grounded
    <2>. QED  BY <1>1, <2>1, StillOrderly
  <1>4. HostKeeps'
    <2>1. ~Mission => mission' = "active"
      BY DEF HostKeeps, BeginTick, Proceed, CloseWindow, FinishTick, GoTo, Stop, EndTick, Over
    <2>2. phase' # "deaf"
      BY DEF BeginTick, Proceed, CloseWindow, FinishTick, GoTo, Stop, EndTick
    <2>3. phase' = "idle" \/ Running'
      BY DEF HostKeeps, BeginTick, Proceed, CloseWindow, FinishTick, GoTo, Stop, EndTick, Idle,
             Running, game
    <2>. QED  BY <1>1, <2>1, <2>2, <2>3 DEF HostKeeps, seats
  <1>5. ASSUME NEW o \in Order, ~Edits, AtHand(o), o \in applied, ~acks[o].received
        PROVE  AnsweredAtHand(o)'
    <2>1. \/ /\ o \in results /\ ~acks[o].known
             /\ phase \in {"air", "record"} /\ mission # "over"
          \/ /\ acks[o].known /\ acks[o].made = 0 /\ acks[o].left = 0
             /\ phase \in {"record", "report", "acks"}
      BY <1>5 DEF NearAnswered, AnsweredAtHand
    <2>2. Proceed /\ Running
      BY <2>1 DEF BeginTick, CloseWindow, FinishTick, Idle, HostKeeps
    <2>3. ~Answering(o)
      BY <1>5 DEF AtHand, Answering, Safe, Booked
    <2>4. 0 < MaxAttempts
      BY FlowAssumption
    <2>5. CASE phase = "acks"
      <3>1. AckDue(o)
        BY <1>5, <2>1, <2>3, <2>4, <2>5 DEF AckDue
      <3>. QED  BY <2>2, <2>5, <3>1 DEF Proceed
    <2>6. CASE phase = "air"
      <3>1. phase' = "record" /\ mission' = mission
        BY <2>1, <2>2, <2>6 DEF Proceed, GoTo
      <3>. QED  BY <1>1, <1>2, <2>1, <2>6, <3>1 DEF AnsweredAtHand
    <2>7. CASE phase \in {"record", "report"}
      <3>1. phase' \in {"report", "acks"} /\ (phase = "record" => results = {})
        BY <2>2, <2>7 DEF Proceed, GoTo
      <3>2. acks[o].known /\ acks[o].made = 0 /\ acks[o].left = 0
        BY <2>1, <2>7, <3>1
      <3>. QED  BY <1>2, <3>1, <3>2 DEF AnsweredAtHand
    <2>. QED  BY <2>1, <2>5, <2>6, <2>7
  <1>6. NearAnswered'
    <2>1. \A o \in Order : acks[o].received => acks'[o].received
      BY <1>2
    <2>. QED  BY <1>1, <1>5, <2>1 DEF NearAnswered, AnsweredAtHand, AtHand
  <1>. QED  BY <1>3, <1>4, <1>6 DEF Tracked

LEMMA StepTracked ==
    ASSUME Safe, Orderly, HostKeeps, NearAnswered, StepsBeforeEnd, Step
    PROVE  Tracked'
  <1>1. Orderly'
    BY StepOrderly
  <1>2. /\ UNCHANGED <<game, seats>> /\ phase = "step" /\ phase' \in {"air", "record"}
        /\ mission = "active" /\ mission' \in {"active", "ending"}
        /\ ~Mission => mission' = "active"
    BY DEF Step, StepsBeforeEnd
  <1>3. HostKeeps'
    BY <1>2 DEF HostKeeps, game, seats, Running
  <1>4. PICK due \in SUBSET {o \in Order : queue[o] > 0} :
            applied' = applied \cup due /\ results' = results \cup due
    BY DEF Step, ApplyOrders
  <1>5. \A o \in Order : /\ acks[o].received => acks'[o].received
                         /\ acks'[o].known = acks[o].known
    BY AcksWaitFacts DEF Step, Safe, DataTypeOK
  <1>6. ASSUME NEW o \in Order, ~Edits, AtHand(o), o \in applied'
        PROVE  AnsweredAtHand(o)'
    <2>1. CASE o \in due
      <3>1. o \notin applied
        BY <2>1 DEF Safe, DataTypeOK, EnteredOnce
      <3>2. ~acks'[o].known
        BY <1>5, <3>1 DEF Orderly, Grounded
      <3>. QED  BY <1>2, <1>4, <2>1, <3>2 DEF AnsweredAtHand
    <2>2. CASE o \in applied
      <3>1. acks[o].received
        BY <1>2, <1>6, <2>2 DEF NearAnswered, AnsweredAtHand
      <3>. QED  BY <1>5, <3>1 DEF AnsweredAtHand
    <2>. QED  BY <1>4, <1>6, <2>1, <2>2
  <1>7. NearAnswered'
    BY <1>6 DEF NearAnswered, AtHand, AnsweredAtHand
  <1>. QED  BY <1>1, <1>3, <1>7 DEF Tracked

LEMMA RecordResultTracked ==
    ASSUME Safe, Orderly, HostKeeps, NearAnswered, NEW o \in Order, RecordResult(o)
    PROVE  Tracked'
  <1>1. /\ UNCHANGED <<game, seats, request, wires, queue, applied>> /\ phase = "record"
        /\ o \in results /\ results' = results \ {o} /\ o \in applied
        /\ acks \in [Order -> Ack] /\ pending \subseteq Message
    BY DEF RecordResult, Safe, DataTypeOK, WiresTypeOK, Orderly, Grounded
  <1>2. \/ UNCHANGED <<acks, clock>> /\ (~Submission(o) \/ acks[o].known)
        \/ acks' = [acks EXCEPT ![o].known = TRUE] /\ UNCHANGED clock /\ Submission(o)
        \/ /\ Issuer[o] \notin present /\ phase' = "idle"
           /\ UNCHANGED <<acks, mission>>
    BY DEF RecordResult
  <1>3. \A p \in Order : /\ acks'[p].received = acks[p].received
                         /\ acks'[p].made = acks[p].made /\ acks'[p].left = acks[p].left
                         /\ acks'[p].known = acks[p].known \/ (p = o /\ acks'[p].known)
    BY <1>1, <1>2 DEF Ack
  <1>4. Orderly'
    <2>1. \A p \in Order : /\ acks[p].known => acks'[p].known
                           /\ acks'[p].known => p \in applied
                           /\ acks'[p].received => acks[p].received
                           /\ ~acks'[p].known => acks'[p].made = 0 /\ acks'[p].left = 0
      BY <1>1, <1>3 DEF Orderly, Grounded
    <2>. QED  BY <1>1, <2>1, StillOrderly
  <1>5. HostKeeps'
    BY <1>1, <1>2 DEF HostKeeps, game, seats, clock, Running
  <1>6. ASSUME NEW p \in Order, ~Edits, AtHand(p), p \in applied, ~acks[p].received
        PROVE  AnsweredAtHand(p)'
    <2>1. Issuer[o] \in present
      BY <1>6, FlowAssumption DEF HostKeeps
    <2>2. phase' = "record" /\ mission' = mission
      BY <1>1, <1>2, <2>1 DEF clock
    <2>3. \/ p \in results /\ ~acks[p].known /\ mission # "over"
          \/ acks[p].known /\ acks[p].made = 0 /\ acks[p].left = 0
      BY <1>6 DEF NearAnswered, AnsweredAtHand
    <2>4. CASE acks[p].known
      BY <1>3, <2>2, <2>3, <2>4 DEF AnsweredAtHand
    <2>5. CASE ~acks[p].known /\ p # o
      BY <1>1, <1>3, <2>2, <2>3, <2>5 DEF AnsweredAtHand
    <2>6. CASE ~acks[p].known /\ p = o
      <3>1. record[Command(o)] # "None"
        BY <1>1 DEF Safe, EnteredOnce, Inside
      <3>2. Submission(o)
        BY <1>6, <2>6, <3>1 DEF Submission, Fresh, AtHand
      <3>3. acks'[o].known
        BY <1>1, <1>2, <2>1, <2>6, <3>2 DEF Ack
      <3>4. acks'[o].made = 0 /\ acks'[o].left = 0
        BY <1>3, <2>6 DEF Orderly, Grounded
      <3>. QED  BY <2>2, <2>6, <3>3, <3>4 DEF AnsweredAtHand
    <2>. QED  BY <2>4, <2>5, <2>6
  <1>7. NearAnswered'
    BY <1>1, <1>3, <1>6 DEF NearAnswered, AtHand, AnsweredAtHand
  <1>. QED  BY <1>4, <1>5, <1>7 DEF Tracked

LEMMA LoopTracked ==
    ASSUME Safe, Orderly, HostKeeps, NearAnswered, StepsBeforeEnd, Loop
    PROVE  Tracked'
  <1>1. ASSUME NEW o \in Order, Vacant(o) \/ SendAck(o)
        PROVE  Tracked'
    <2>1. UNCHANGED <<clock, seats, applied, results>>
      BY <1>1 DEF Vacant, SendAck
    <2>. QED  BY <1>1, <2>1, VacantOrderly, SendAckOrderly, SettlesTracked
  <1>2. ASSUME NEW m \in Message, FinishReporting(m)
        PROVE  Tracked'
    <2>1. UNCHANGED <<clock, seats, applied, results>>
      BY <1>2 DEF FinishReporting, world
    <2>. QED  BY <1>2, <2>1, FinishReportingOrderly, SettlesTracked
  <1>. QED  BY <1>1, <1>2, StepTracked, RecordResultTracked, TickTracked DEF Loop

LEMMA InitTracked == Init => Tracked
  <1>. SUFFICES ASSUME Init
                PROVE  Orderly /\ HostKeeps /\ NearAnswered
    BY DEF Tracked
  <1>1. /\ request = [o \in Order |-> NoRequest] /\ pending = {} /\ results = {} /\ applied = {}
        /\ verdict = [m \in Message |-> "Unsent"] /\ acks = [o \in Order |-> NoAck]
        /\ queue = [o \in Order |-> 0]
    BY DEF Init, Network!Init
  <1>2. Orderly
    <2>1. \A m \in Near : verdict[m] = "Unsent"
      BY <1>1, NearAssumption
    <2>2. Heeded(pending, request, acks) /\ Borne(pending, request) /\ Staffed(request)
      BY <1>1 DEF Heeded, Borne, Staffed, NoRequest, NotForOrders
    <2>3. Grounded
      BY <1>1 DEF Grounded, NoAck
    <2>. QED  BY <1>1, <2>1, <2>2, <2>3 DEF Orderly, Inside
  <1>3. HostKeeps
    BY DEF Init, HostKeeps
  <1>. QED  BY <1>1, <1>2, <1>3 DEF NearAnswered

LEMMA StepIsTracked == IInv /\ Tracked /\ [Next]_vars => Tracked'
  <1>. SUFFICES ASSUME IInv, Tracked, [Next]_vars
                PROVE  Tracked'
    OBVIOUS
  <1>1. CASE broken
    BY <1>1, BrokenStays DEF Tracked
  <1>2. CASE Orderly /\ HostKeeps /\ NearAnswered
    <2>1. Safe /\ StepsBeforeEnd
      BY DEF IInv
    <2>2. CASE Users
      BY <1>2, <2>1, <2>2, UsersTracked
    <2>3. CASE Wires
      BY <1>2, <2>1, <2>3, WiresTracked
    <2>4. CASE Loop
      BY <1>2, <2>1, <2>4, LoopTracked
    <2>5. CASE UNCHANGED vars
      <3>1. /\ UNCHANGED <<request, wires, queue, applied, results, acks>>
            /\ UNCHANGED <<status, mission, phase, present>> /\ pending \subseteq Message
        BY <2>1, <2>5 DEF vars, wires, Safe, DataTypeOK, WiresTypeOK
      <3>2. Orderly'
        BY <1>2, <3>1, StillOrderly DEF Orderly, Grounded
      <3>3. HostKeeps' /\ NearAnswered'
        BY <1>2, <3>1 DEF HostKeeps, Running, NearAnswered, AnsweredAtHand, AtHand
      <3>. QED  BY <3>2, <3>3 DEF Tracked
    <2>. QED  BY <2>2, <2>3, <2>4, <2>5 DEF Next
  <1>. QED  BY <1>1, <1>2 DEF Tracked

LEMMA TrackedAlways == Spec => [](IInv /\ Tracked)
  <1>1. Init => Tracked
    BY InitTracked
  <1>. QED  BY <1>1, Invariance, StepIsTracked, PTL DEF Spec


LEMMA StateTold ==
    ASSUME NEW m
    PROVE  /\ MessageState(m) \in {"AwaitingExecution", "Expired", "Dropped"} \cup Open
           /\ record[m] \in Told => MessageState(m) = "AwaitingExecution"
           /\ record[m] \in Open => MessageState(m) \in Open
  BY DEF MessageState, Told, Open

\* What the issuer is told before a reply comes is true of the order.
LEMMA OutlookFacts ==
    ASSUME Safe, Orderly, NEW o \in Order, Submission(o)
    PROVE  /\ Outlook(o) \in {"AwaitingAuthority", "AwaitingExecution", "Expired", "Dropped",
                              "Denied"} \cup Open
           /\ Outlook(o) # "AwaitingExecution" => ~Inside(o)
           /\ Outlook(o) \in {"Expired", "Dropped", "Denied"} =>
                  /\ \A m \in pending : m.of # o
                  /\ request[o].status \notin Undecided
  <1>. DEFINE r == request[o]
  <1>1. /\ r.status \in States \cup {"None"} /\ r.status \notin NotForOrders
    <2>1. r \in Request
      BY DEF Safe, DataTypeOK
    <2>2. Executable(o)
      BY DEF Submission, Executable
    <2>. QED  BY <2>1, <2>2, StateFacts DEF Orderly, Staffed
  <1>2. Inside(o) => r.status \in {"None", "Approved"} /\ record[Command(o)] \in Told
    BY DEF Safe, EnteredOnce, Orderly
  <1>3. ASSUME NEW m \in pending, m.of = o, ~Inside(o)
        PROVE  \/ r.status = "InTransit"
               \/ m = Command(o) /\ r.status = "None"
    <2>1. Expects(m, r, acks[o])
      BY <1>3 DEF Orderly, Heeded
    <2>2. ~acks[o].known
      BY <1>3 DEF Orderly, Grounded, Inside
    <2>. QED  BY <1>3, <2>1, <2>2 DEF Expects, Awaits
  <1>4. CASE r.status = "None"
    <2>1. Outlook(o) = MessageState(Bearer(o))
      BY <1>4 DEF Outlook, Waiting
    <2>2. Inside(o) => Outlook(o) = "AwaitingExecution"
      BY <1>2, <2>1, StateTold DEF Bearer, Told
    <2>3. ASSUME Outlook(o) \in {"Expired", "Dropped", "Denied"}, Command(o) \in pending
          PROVE  FALSE
      <3>1. record[Command(o)] \in Open
        BY <2>3 DEF Orderly
      <3>2. Bearer(o) = Command(o)
        BY <3>1 DEF Bearer, Open
      <3>. QED  BY <2>1, <2>3, <3>1, <3>2, StateTold DEF Open
    <2>. QED  BY <1>3, <1>4, <2>1, <2>2, <2>3, StateTold DEF Undecided, Waiting
  <1>5. CASE r.status = "InTransit"
    <2>1. Outlook(o) = MessageState(Awaited(o, r))
      BY <1>5 DEF Outlook, Waiting
    <2>2. record[Awaited(o, r)] \in Open
      BY <1>5 DEF Orderly, Borne
    <2>. QED  BY <1>2, <1>5, <2>1, <2>2, StateTold DEF Open
  <1>6. CASE r.status \in Undecided
    <2>1. Outlook(o) = "AwaitingAuthority"
      BY <1>6 DEF Outlook, Undecided, Waiting
    <2>. QED  BY <1>2, <1>6, <2>1 DEF Undecided, Waiting
  <1>7. CASE r.status = "Approved"
    BY <1>7 DEF Outlook, Waiting
  <1>8. CASE r.status \in {"Denied", "BlockedComms"}
    <2>1. Outlook(o) \in {"Expired", "Dropped", "Denied"}
      BY <1>8 DEF Outlook, Waiting
    <2>2. \A m \in pending : m.of # o
      BY <1>2, <1>3, <1>8
    <2>. QED  BY <1>2, <1>8, <2>1, <2>2 DEF Undecided, Waiting
  <1>. QED  BY <1>1, <1>4, <1>5, <1>6, <1>7, <1>8 DEF States, Final, NotForOrders

LEMMA TrackedHonest ==
    ASSUME IInv, Tracked, RepliesTravel
    PROVE  ReceiptsAreHonest
  <1>. SUFFICES ASSUME Idle, ~broken, NEW o \in Order, Submission(o)
                PROVE  /\ Receipt(o) = "Executed" => o \in applied /\ \E m \in Replies(o) : Reached(m)
                       /\ Receipt(o) \in {"Dropped", "Expired", "Denied", "Rejected"} =>
                              /\ o \notin applied
                              /\ Over \/ /\ \A m \in pending : m.of # o
                                         /\ queue[o] = 0
                                         /\ request[o].status \notin {"PendingHuman"} \cup Waiting
    BY DEF ReceiptsAreHonest
  <1>1. Safe /\ Orderly /\ HostKeeps /\ NearAnswered
    BY DEF Tracked, IInv
  <1>2. /\ Outlook(o) \in {"AwaitingAuthority", "AwaitingExecution", "Expired", "Dropped",
                              "Denied"} \cup Open
        /\ Outlook(o) # "AwaitingExecution" => ~Inside(o)
        /\ Outlook(o) \in {"Expired", "Dropped", "Denied"} =>
               /\ \A m \in pending : m.of # o
               /\ request[o].status \notin Undecided
    BY <1>1, OutlookFacts
  <1>3. ASSUME Receipt(o) = "Executed"
        PROVE  o \in applied /\ \E m \in Replies(o) : Reached(m)
    <2>1. acks[o].received
      BY <1>2, <1>3 DEF Receipt, Open
    <2>2. PICK m \in Replies(o) : m \in Heard
      BY <1>1, <2>1 DEF Orderly, Grounded
    <2>3. Reached(m)
      BY <2>2 DEF Heard, Reached, Told
    <2>. QED  BY <1>1, <2>1, <2>2, <2>3 DEF Orderly, Grounded
  <1>4. ~Inside(o) => o \notin applied /\ queue[o] = 0
    BY <1>1 DEF Inside, Safe, DataTypeOK
  <1>5. ASSUME Receipt(o) \in {"Dropped", "Expired", "Denied"}
        PROVE  /\ o \notin applied
               /\ \A m \in pending : m.of # o
               /\ queue[o] = 0
               /\ request[o].status \notin {"PendingHuman"} \cup Waiting
    <2>1. Outlook(o) = Receipt(o)
      BY <1>5 DEF Receipt
    <2>. QED  BY <1>2, <1>4, <1>5, <2>1 DEF Undecided
  <1>6. ASSUME Receipt(o) = "Rejected"
        PROVE  o \notin applied /\ Over
    <2>1. /\ ~acks[o].received /\ Over
          /\ Outlook(o) = "AwaitingExecution" => Replies(o) \subseteq Near
      BY <1>2, <1>6 DEF Receipt, Open
    <2>2. CASE Outlook(o) # "AwaitingExecution"
      BY <1>2, <1>4, <2>1, <2>2
    <2>3. CASE Outlook(o) = "AwaitingExecution"
      <3>1. AtHand(o)
        BY <2>1, <2>3 DEF AtHand, Submission
      <3>2. Mission
        BY <1>1, <2>1 DEF HostKeeps, Over
      <3>3. ~Edits
        BY <3>1, <3>2 DEF RepliesTravel, AtHand
      <3>4. ~AnsweredAtHand(o)
        BY <2>1 DEF AnsweredAtHand, Idle
      <3>. QED  BY <1>1, <2>1, <3>1, <3>3, <3>4 DEF NearAnswered
    <2>. QED  BY <2>2, <2>3
  <1>. QED  BY <1>3, <1>5, <1>6

--------------------------------------------------------------------------------
(* Theorems.                                                                *)

\* Every variable keeps its type; among the rest, nobody holds the seat of a
\* role that the authority definition does not have.
THEOREM TypeCorrect == Spec => []TypeOK
  <1>1. IInv => TypeOK
    BY TypeParts DEF IInv, Safe
  <1>. QED  BY <1>1, Invariance, PTL

LEMMA VouchedIfEntered == IInv => OnlyVouchedOrders
  <1>. SUFFICES ASSUME IInv
                PROVE  OnlyVouchedOrders
    OBVIOUS
  <1>1. Safe
    BY DEF IInv
  <1>2. \A m \in Heard : Reached(m)
    BY DEF Heard, Reached, Told
  <1>3. ASSUME NEW o \in Order, Inside(o)
        PROVE  /\ Reached(Command(o))
               /\ request[o].steps \in Chains[o]
               /\ Len(request[o].decisions) = Len(request[o].steps)
               /\ \A i \in 1..Len(request[o].steps) :
                      /\ Reached(Ask(o, i))
                      /\ request[o].decisions[i].role = request[o].steps[i]
                      /\ request[o].decisions[i].approved
    <2>1. Command(o) \in Heard /\ record[Command(o)] # "None"
          /\ request[o].status \in {"None", "Approved"}
      BY <1>1, <1>3 DEF Safe, EnteredOnce
    <2>2. Good(o, request[o], Heard) /\ request[o] \in Request
      BY <1>1, SafeFacts
    <2>3. Reached(Command(o))
      BY <1>2, <2>1
    <2>4. CASE request[o].status = "None"
      <3>1. request[o] = NoRequest
        BY <1>1, <2>4, SafeFacts
      <3>2. <<>> \in Chains[o]
        BY <1>1, <2>1, <2>4 DEF Safe, Booked
      <3>3. request[o].steps = <<>> /\ request[o].decisions = <<>> /\ Len(request[o].steps) = 0
        BY <3>1, EmptySeq DEF NoRequest
      <3>. QED  BY <2>3, <3>2, <3>3
    <2>5. CASE request[o].status = "Approved"
      <3>1. OnItsChain(o, request[o])
        BY <2>2, <2>5 DEF Good, Legal, NoRequest
      <3>2. Len(request[o].steps) \in Nat /\ Len(request[o].decisions) = Len(request[o].steps)
        BY <2>2, <2>5, <3>1, RequestFacts DEF OnItsChain
      <3>3. \A i \in 1..Len(request[o].decisions) : Reached(Ask(o, i))
        BY <1>2, <2>2 DEF Good, Asked
      <3>. QED  BY <2>3, <2>5, <3>1, <3>2, <3>3 DEF OnItsChain
    <2>. QED  BY <2>1, <2>4, <2>5
  <1>4. \A o \in Order : queue[o] <= IF o \in applied THEN 0 ELSE 1
    BY <1>1 DEF Safe, EnteredOnce
  <1>5. \A o \in applied \cup {p \in Order : queue[p] > 0} : o \in Order /\ Inside(o)
    BY <1>1 DEF Safe, DataTypeOK, Inside
  <1>. QED  BY <1>3, <1>4, <1>5 DEF OnlyVouchedOrders

\* An order is in the simulation, at most once, only after the chain of command
\* of its request, or of one that needs no decision, was gone through to its end.
THEOREM OrdersAreVouched == Spec => []OnlyVouchedOrders
  BY Invariance, VouchedIfEntered, PTL

LEMMA GrownDecisions ==
    ASSUME NEW r \in Request, NEW s \in Request, Grows(r, s)
    PROVE  SubSeq(s.decisions, 1, Len(r.decisions)) = r.decisions
  <1>. DEFINE d == r.decisions
              e == s.decisions
  <1>1. d \in Seq(Decision) /\ e \in Seq(Decision) /\ Len(d) \in Nat /\ Len(e) \in Nat
    BY RequestFacts
  <1>2. Len(e) >= Len(d) /\ \A i \in 1..Len(d) : e[i] = d[i]
    BY DEF Grows
  <1>. HIDE DEF d, e
  <1>3. \A i \in 1..Len(d) : e[i] \in Decision
    BY <1>1, <1>2, LenProperties
  <1>4. SubSeq(e, 1, Len(d)) \in Seq(Decision)
    BY <1>1, <1>3, SubSeqProperties
  <1>5. Len(SubSeq(e, 1, Len(d))) = Len(d)
    <2>1. 1 \in Int /\ Len(d) \in Int /\ (Len(d) < 1 => Len(d) = 0)
      BY <1>1
    <2>2. Len(SubSeq(e, 1, Len(d))) = IF 1 <= Len(d) THEN Len(d) - 1 + 1 ELSE 0
      BY <1>3, <2>1, SubSeqProperties
    <2>. QED  BY <1>1, <2>1, <2>2
  <1>6. \A i \in 1..Len(d) : SubSeq(e, 1, Len(d))[i] = d[i]
    <2>1. \A i \in 1..(Len(d) - 1 + 1) : SubSeq(e, 1, Len(d))[i] = e[1 + i - 1]
      BY <1>1, <1>3, SubSeqProperties
    <2>. QED  BY <1>1, <1>2, <2>1
  <1>. QED  BY <1>1, <1>4, <1>5, <1>6, SeqEqual DEF d, e

\* A request that came to its end keeps it, and no step takes a decision back,
\* of whichever delivery, failure, time or person it is.
THEOREM DecisionsStandHolds == Spec => DecisionsStand
  <1>1. IInv /\ IInv' /\ [Next]_vars =>
          [\A o \in Order :
              /\ request[o].status \in Final => request'[o] = request[o]
              /\ Len(request'[o].decisions) >= Len(request[o].decisions)
              /\ SubSeq(request'[o].decisions, 1, Len(request[o].decisions))
                     = request[o].decisions]_vars
    <2>. SUFFICES ASSUME IInv, IInv', [Next]_vars, NEW o \in Order
                  PROVE  /\ request[o].status \in Final => request'[o] = request[o]
                         /\ Len(request'[o].decisions) >= Len(request[o].decisions)
                         /\ SubSeq(request'[o].decisions, 1, Len(request[o].decisions))
                                = request[o].decisions
      OBVIOUS
    <2>1. Grows(request[o], request'[o])
      BY SafeNext DEF IInv
    <2>2. request[o] \in Request /\ request'[o] \in Request
      BY DEF IInv, Safe, DataTypeOK
    <2>. QED  BY <2>1, <2>2, GrownDecisions DEF Grows
  <1>. QED  BY <1>1, Invariance, PTL DEF Spec, DecisionsStand

\* Once the mission has ended no step queues an order or applies one, neither a
\* late delivery nor what the last tick had left to do.
THEOREM NothingAfterTheEndHolds == Spec => NothingAfterTheEnd
  <1>1. IInv /\ [Next]_vars =>
          [Over => /\ \A o \in Order : queue'[o] <= queue[o]
                   /\ applied' = applied]_vars
    <2>. SUFFICES ASSUME IInv, Next, Over
                  PROVE  applied' = applied /\ \A o \in Order : queue'[o] <= queue[o]
      BY DEF vars
    <2>1. queue \in [Order -> Nat]
      BY DEF IInv, Safe, DataTypeOK
    <2>2. applied' = applied /\ \A o \in Order : queue'[o] = queue[o]
      <3>1. CASE Users
        BY <3>1, UsersHost DEF IInv, Outside
      <3>2. CASE Wires
        BY <3>2, WiresHost DEF IInv, Outside
      <3>3. CASE Loop
        BY <3>3, LoopHost DEF IInv
      <3>. QED  BY <3>1, <3>2, <3>3 DEF Next
    <2>. QED  BY <2>1, <2>2
  <1>. QED  BY <1>1, Invariance, PTL DEF Spec, NothingAfterTheEnd

\* What the issuer of an order reads is true and stays so, where no issuer whose
\* role the host may remove sits aboard the unit of a mission that ends.
THEOREM ReceiptsAreHonestHolds ==
    ASSUME RepliesTravel
    PROVE  Spec => []ReceiptsAreHonest
  <1>1. IInv /\ Tracked => ReceiptsAreHonest
    BY TrackedHonest
  <1>. QED  BY <1>1, Invariance, TrackedAlways, PTL

================================================================================
