------------------------------- MODULE Logistics -------------------------------
(***************************************************************************)
(* Finite stocks in the field (sim-core/src/logistics.rs): units that      *)
(* burn fuel, berth at facilities, are serviced from stock there, carry    *)
(* cargo between facilities and pass fuel to each other under way.         *)
(*                                                                         *)
(* A frame is the kernel's: tasks are delivered, guide_units visits every  *)
(* unit, everything moves, and advance burns fuel, visits every unit for   *)
(* service and settles the lost ones.  Distances, weather, runway and mass *)
(* limits are choices made at the visit that evaluates them.  Quantities   *)
(* are small numbers; a frame moves up to Rate of a good through a pump.   *)
(***************************************************************************)
EXTENDS Integers, FiniteSets, FiniteSetsExt

CONSTANTS
    Nil,
    Fleet,          \* sets of units a game may be configured with
    Id,             \* Id[u]: a number; guidance and settling go by it
    Air,            \* units that fly; the others are ships
    Facility,       \* ids with a stock; a supply ship is also a unit
    Carrier,        \* facilities that ships replenish without berthing
    Good,           \* what is stocked; "fuel" among it
    Interface,      \* ways to pass fuel; "Underway" among them
    Compatible,     \* pairs of a unit and a facility that can berth it
    Delivers,       \* pairs of a unit and a facility it can bring cargo to
    Homes,          \* Homes[u]: home and alternates
    Aboard,         \* Aboard[u]: initial_facility or Nil
    Full,           \* Full[u][g]: capacity of the unit itself
    Fuel,           \* Fuel[u]: fuel_kg at the start
    Reserve, MinDeparture, Hold,
    Stations,       \* Stations[u][i]: stations of the unit's outlet i
    Intake,         \* Intake[u]: interfaces the unit can receive through
    Capacity, Opening,          \* of facilities, per good
    Parking, MoveSlots, ServiceSlots, CargoSlots,
    MoveTicks, ConnectTicks, DisconnectTicks,
    Rate,           \* what flows through one pump in a frame
    SharedRate,     \* what a donor's pumps deliver together in a frame
    Uncharted,      \* units that can get outside the table of their fuel flow
    Tasks,          \* bound: Tasks[u]: kinds of tasks that are delivered to u
    MaxOrders,      \* bound: tasks delivered in a behaviour
    Targets,        \* bound: units and facilities that combat hits
    MaxHits         \* bound: rounds, hits and losses by combat in a behaviour

AnyUnit == UNION Fleet

\* Configuration::validate, of quantities, homes and refuelling interfaces.
ValidLogistics ==
    /\ \A f \in Facility :
          /\ Parking[f] > 0 /\ MoveSlots[f] > 0 /\ ServiceSlots[f] > 0
          /\ \A g \in Good : 0 <= Opening[f][g] /\ Opening[f][g] <= Capacity[f][g]
    /\ \A u \in AnyUnit :
          /\ 0 <= Reserve[u] /\ Reserve[u] <= MinDeparture[u]
          /\ MinDeparture[u] <= Full[u]["fuel"]
          /\ 0 <= Fuel[u] /\ Fuel[u] <= Full[u]["fuel"]
          /\ \A f \in Homes[u] \cup ({Aboard[u]} \ {Nil}) : <<u, f>> \in Compatible
          /\ \A i \in Interface :
                i \in Intake[u] \/ Stations[u][i] > 0 => (i = "Underway" <=> u \notin Air)

Goods == [Good -> Nat]
CargoTask == [source : Facility, destination : Facility, left : Goods]

\* What validate does not ask for, and parking capacities need: a place for every unit
\* that starts berthed, and that no ship departs without fuel.  One that runs dry on
\* its way keeps the facility it was bound for, and may depart as soon as it has the
\* minimum, so with a minimum of 0 at once, without the berth that command asks for.
BerthsSuffice ==
    \A fleet \in Fleet, f \in Facility :
        Cardinality({u \in fleet : Aboard[u] = f}) <= Parking[f]

DeparturesNeedFuel == \A u \in AnyUnit \ Air : MinDeparture[u] > 0

Provisioned == BerthsSuffice /\ DeparturesNeedFuel

ASSUME LogisticsAssumption ==
    /\ "fuel" \in Good /\ "Underway" \in Interface
    /\ IsFiniteSet(Good) /\ IsFiniteSet(Facility)
    /\ \A fleet \in Fleet : IsFiniteSet(fleet)
    /\ Full \in [AnyUnit -> Goods]
    /\ Fuel \in [AnyUnit -> Nat] /\ Reserve \in [AnyUnit -> Nat]
    /\ MinDeparture \in [AnyUnit -> Nat] /\ Hold \in [AnyUnit -> Nat]
    /\ Stations \in [AnyUnit -> [Interface -> Nat]]
    /\ Aboard \in [AnyUnit -> Facility \cup {Nil}]
    /\ Capacity \in [Facility -> Goods] /\ Opening \in [Facility -> Goods]
    /\ Parking \in [Facility -> Nat]
    /\ Rate \in Nat /\ SharedRate \in Nat /\ MaxOrders \in Nat /\ MaxHits \in Nat
    /\ Nil \notin AnyUnit \cup Facility \cup Interface /\ Nil \notin CargoTask
    /\ Carrier \subseteq Facility
    /\ Compatible \subseteq Delivers /\ Delivers \subseteq AnyUnit \X Facility
    /\ ValidLogistics

VARIABLES
    unit,       \* unit[u]: UnitRuntime of a configured unit
    stock,      \* stock[f][g]: what the facility may still give away
    destroyed,  \* units and facilities that combat reports destroyed
    stage,      \* where the frame is: "idle", "guide", "serve" or "settle"
    todo,       \* units the stage has still to visit
    used,       \* slots taken and pump work done in this frame
    orders,     \* tasks delivered so far
    hits        \* what combat did so far

logisticsVars == <<unit, stock, destroyed, stage, todo, used, orders, hits>>

Units == DOMAIN unit

--------------------------------------------------------------------------------
Berthed == {"Queued", "Servicing", "Ready", "Loading", "Unloading", "Departing"}
Lost    == {"Destroyed", "Unavailable"}
Coupled == {"Connecting", "Transferring", "Disconnecting", "Replenishing"}

Receiving == {"Rendezvous", "Connecting", "Transferring"}

Nothing == [g \in Good |-> 0]
Empty(s) == s = Nothing

Least(a, b) == IF a <= b THEN a ELSE b
Positive(n) == IF n > 0 THEN n ELSE 0
Plus(a, b)  == [g \in Good |-> a[g] + b[g]]
Less(a, b)  == [g \in Good |-> a[g] - b[g]]

\* The sum of f over S.
Total(f, S) == MapThenSumSet(LAMBDA x : f[x], S)
Mass(s)     == Total(s, Good)

\* What a pump moves in one frame from `from` into the space `space`.
Flow(from, space) == [g \in Good |-> Least(Rate, Least(from[g], Positive(space[g])))]

\* Goods reserved at f: taken from its stock, not loaded yet.
Reserved(f) ==
    [g \in Good |-> Total([u \in Units |->
                             IF unit[u].task # Nil /\ unit[u].task.source = f
                             THEN unit[u].task.left[g] ELSE 0], Units)]

Phase(u) == unit[u].phase
Room(u)  == Less(Full[u], unit[u].store)

\* release_reservation
Returned(u) ==
    IF unit[u].task = Nil THEN stock
    ELSE [stock EXCEPT ![unit[u].task.source] = Plus(@, unit[u].task.left)]

\* Mutant: the goods go back to the depot and stay on the task.
TaskKept(u) ==
    [v \in Units |-> IF unit[v].partner = u
                    THEN [unit[v] EXCEPT !.phase = "Disconnecting", !.timer = 0]
                    ELSE unit[v]]

\* Everybody as u leaves them behind: u has no task any more and whoever takes
\* fuel from u has to disconnect, whatever it is doing (disconnect_donor).
Parted(u) ==
    [v \in Units |-> IF v = u THEN [unit[u] EXCEPT !.task = Nil]
                    ELSE IF unit[v].partner = u
                    THEN [unit[v] EXCEPT !.phase = "Disconnecting", !.timer = 0]
                    ELSE unit[v]]

OnLostCarrier(u) ==
    Phase(u) \in Berthed /\ unit[u].at \in Carrier \cap destroyed

Occupied(f) == Cardinality({v \in Units : unit[v].at = f /\ Phase(v) \in Berthed})

--------------------------------------------------------------------------------
(* Tasks, delivered between two frames.                                     *)

Tasked(u, kind) ==
    /\ stage = "idle"
    /\ kind \in Tasks[u]
    /\ orders < MaxOrders
    /\ orders' = orders + 1
    /\ Phase(u) \notin Lost
    /\ UNCHANGED <<destroyed, stage, todo, used, hits>>

Uncoupled(u) == Phase(u) \notin Coupled

Return(u, f) ==
    /\ Tasked(u, "return") /\ Uncoupled(u)
    /\ <<u, f>> \in Compatible
    /\ ~(unit[u].at # Nil /\ Phase(u) \in Berthed \ {"Departing"})
    /\ stock' = Returned(u)
    /\ unit' = [Parted(u) EXCEPT ![u].phase = "Returning", ![u].at = f,
                    ![u].partner = Nil, ![u].timer = 0, ![u].support = Nil]

Depart(u) ==
    /\ Tasked(u, "depart")
    /\ Phase(u) \in {"Queued", "Servicing", "Ready", "Immobilized"}
    /\ unit[u].at # Nil
    /\ unit[u].store["fuel"] >= MinDeparture[u]
    /\ unit' = [unit EXCEPT ![u].phase = "Departing", ![u].timer = 0]
    /\ UNCHANGED stock

Support(u, i) ==
    /\ Tasked(u, "support")
    /\ Phase(u) = "Deployed"
    /\ Stations[u][i] > 0
    /\ unit' = [unit EXCEPT ![u].support = i]
    /\ UNCHANGED stock

Refuel(u, d, i, amount) ==
    /\ Tasked(u, "refuel")
    /\ u # d /\ amount > 0
    /\ \/ Phase(u) = "Deployed"
       \/ Phase(u) = "Immobilized" /\ i = "Underway"
    /\ Phase(d) = "Deployed" /\ unit[d].support = i
    /\ i \in Intake[u]
    /\ unit' = [unit EXCEPT ![u].phase = "Rendezvous", ![u].partner = d,
                    ![u].due = amount, ![u].asked = i, ![u].station = Nil,
                    ![u].timer = 0]
    /\ UNCHANGED stock

Cargo(u, from, to, manifest) ==
    /\ Tasked(u, "cargo") /\ Uncoupled(u)
    /\ from # to
    /\ Mass(manifest) > 0 /\ Mass(manifest) <= Hold[u]
    /\ <<u, from>> \in Compatible /\ <<u, to>> \in Delivers
    /\ unit[u].task = Nil /\ Empty(unit[u].cargo)
    /\ \A g \in Good : manifest[g] <= stock[from][g]
    /\ stock' = [stock EXCEPT ![from] = Less(@, manifest)]
    /\ unit' = [Parted(u) EXCEPT
                    ![u].task = [source |-> from, destination |-> to, left |-> manifest],
                    ![u].phase = "Returning", ![u].at = from, ![u].timer = 0,
                    ![u].support = Nil, ![u].partner = Nil]

\* What Cancel makes of a unit that has given up its task and its receivers.
Stopped(u, r) ==
    IF r.phase = "Replenishing" THEN [r EXCEPT !.leg = 2, !.timer = 0]
    ELSE IF r.phase \in {"Connecting", "Transferring", "Rendezvous"}
    THEN [r EXCEPT !.phase = "Disconnecting", !.timer = 0]
    ELSE IF r.at # Nil /\ r.phase \in {"Loading", "Unloading", "Departing"}
    THEN [r EXCEPT !.phase = "Queued", !.timer = 0]
    ELSE IF r.phase \in {"Returning", "Approach"}
    THEN [r EXCEPT !.phase = "Deployed", !.at = Nil]
    ELSE r

\* Mutant: the reservation is given back and kept.
CancelTwice(u) ==
    /\ Tasked(u, "cancel")
    /\ stock' = Returned(u)
    /\ unit' = [TaskKept(u) EXCEPT ![u] = Stopped(u, [@ EXCEPT !.support = Nil])]

Cancel(u) ==
    /\ Tasked(u, "cancel")
    /\ stock' = Returned(u)
    /\ unit' = [Parted(u) EXCEPT ![u] = Stopped(u, [@ EXCEPT !.support = Nil])]

--------------------------------------------------------------------------------
(* Combat, between two frames.                                              *)

Hit ==
    /\ stage = "idle"
    /\ hits < MaxHits
    /\ hits' = hits + 1
    /\ UNCHANGED <<stock, stage, todo, used, orders>>

\* A round is fired or a hit point lost; the last hit point is the unit.
Wear(u, g) ==
    /\ Hit /\ u \in Targets
    /\ g # "fuel" /\ unit[u].store[g] > 0
    /\ unit' = [unit EXCEPT ![u].store[g] = @ - 1]
    /\ destroyed' = IF g = "repairs" /\ unit[u].store[g] = 1
                    THEN destroyed \cup {u} ELSE destroyed

DestroyTarget(x) ==
    /\ Hit
    /\ x \in Targets \ destroyed
    /\ destroyed' = destroyed \cup {x}
    /\ UNCHANGED unit

--------------------------------------------------------------------------------
(* guide_units: one visit per unit, in the order of their ids.              *)

Visit(here, u) ==
    /\ stage = here /\ u \in todo
    /\ todo' = todo \ {u}
    /\ here # "serve" => \A v \in todo : Id[u] <= Id[v]
    /\ UNCHANGED <<destroyed, stage, orders, hits>>

IsLost(u) == u \in destroyed \/ OnLostCarrier(u)

RunDry(u) == u \notin Air /\ Phase(u) = "Deployed" /\ unit[u].store["fuel"] = 0

AtReserve(u) ==
    /\ Phase(u) = "Deployed"
    /\ unit[u].store["fuel"] <= Reserve[u]
    /\ u \in Air \/ unit[u].store["fuel"] > 0

\* The other units are left as they are.
BeginFrame ==
    /\ stage = "idle"
    /\ stage' = "guide" /\ todo' = {u \in Units : IsLost(u) \/ RunDry(u) \/ AtReserve(u)}
    /\ UNCHANGED <<unit, stock, destroyed, used, orders, hits>>

LoseUnit(u) ==
    /\ Visit("guide", u)
    /\ IsLost(u)
    /\ stock' = Returned(u)
    /\ unit' = [Parted(u) EXCEPT ![u].phase = "Destroyed", ![u].cargo = Nothing]
    /\ UNCHANGED used

\* A ship without fuel stops; it is not sent home by its reserve any more.
Immobilize(u) ==
    /\ Visit("guide", u)
    /\ ~IsLost(u)
    /\ RunDry(u)
    /\ unit' = [unit EXCEPT ![u].phase = "Immobilized"]
    /\ UNCHANGED <<stock, used>>

\* Reserve reached: return to the first facility that is open.
ReturnOnReserve(u, f) ==
    /\ Visit("guide", u)
    /\ ~IsLost(u) /\ AtReserve(u)
    /\ f \in Homes[u] \ destroyed
    /\ unit' = [v \in Units |->
                  IF v = u THEN [unit[u] EXCEPT !.phase = "Returning", !.at = f,
                                                !.support = Nil]
                  ELSE Parted(u)[v]]
    /\ UNCHANGED <<stock, used>>

\* Nothing to decide, or no home is open.
FlyOn(u) ==
    /\ Visit("guide", u)
    /\ ~IsLost(u)
    /\ ~RunDry(u)
    /\ UNCHANGED <<unit, stock, used>>

--------------------------------------------------------------------------------
(* advance: fuel first, for every unit.                                     *)

Burns(u) ==
    /\ Phase(u) \notin Berthed \cup Lost \cup {"Immobilized"}
    /\ ~(/\ u \notin Air /\ unit[u].store["fuel"] = 0
         /\ Phase(u) \in {"Rendezvous", "Connecting", "Transferring", "Disconnecting"})

Burnt(u, thirsty, astray) ==
    LET left == IF u \in thirsty \ astray THEN Positive(unit[u].store["fuel"] - 1)
                                          ELSE unit[u].store["fuel"]
        r == [unit[u] EXCEPT !.store["fuel"] = left]
    IN  IF left = 0
        THEN [r EXCEPT !.phase = IF u \in Air THEN "Destroyed" ELSE "Immobilized",
                       !.support = Nil]
        ELSE IF u \in astray THEN [r EXCEPT !.phase = "Unavailable"] ELSE r

\* Phases that advance has something to do for.
Served == (Berthed \ {"Ready"}) \cup {"Returning", "Approach", "Rendezvous"} \cup Coupled

\* A full berth with damage queues again; the others burn, or are outside the
\* table their fuel is computed from.
BurnFuel ==
    /\ stage = "guide" /\ todo = {}
    /\ stage' = "serve"
    /\ \E thirsty \in SUBSET {u \in Units : Burns(u)},
          astray \in SUBSET {u \in Units \cap Uncharted : Burns(u)} :
          unit' = [u \in Units |->
                     IF Burns(u) THEN Burnt(u, thirsty, astray)
                     ELSE IF Phase(u) = "Ready" /\ "repairs" \in Good
                             /\ Room(u)["repairs"] > 0
                     THEN [unit[u] EXCEPT !.phase = "Queued"] ELSE unit[u]]
    /\ todo' = {u \in Units : unit'[u].phase \in Served}
    /\ UNCHANGED <<stock, destroyed, used, orders, hits>>

--------------------------------------------------------------------------------
(* advance: one visit per unit, sharing slots, stations and pumps.          *)

NoneUsed == [x \in Facility \cup AnyUnit |-> [move |-> 0, service |-> 0, pump |-> 0]]

\* Held up: out of reach, closed by weather or damage, over a limit, no slot free.
Wait(u) ==
    /\ Visit("serve", u)
    /\ Phase(u) \notin Receiving \cup {"Disconnecting"}
    /\ UNCHANGED <<unit, stock, used>>

TakeMoveSlot(f) ==
    /\ f \notin destroyed
    /\ used[f].move < MoveSlots[f]
    /\ used' = [used EXCEPT ![f].move = @ + 1]

Meets(u, x) == u \notin destroyed /\ x \notin destroyed

Arrived(r) == IF r.task # Nil THEN "Loading"
              ELSE IF ~Empty(r.cargo) THEN "Unloading" ELSE "Queued"

FindsBerth(f) == Occupied(f) < Parking[f]

\* A ship with cargo replenishes a carrier alongside.
Alongside(u) == u \notin Air /\ unit[u].at \in Carrier /\ ~Empty(unit[u].cargo)

Recover(u) ==
    /\ Visit("serve", u)
    /\ Phase(u) \in {"Returning", "Approach"}
    /\ ~Alongside(u)
    /\ FindsBerth(unit[u].at)
    /\ TakeMoveSlot(unit[u].at)
    /\ unit' = [unit EXCEPT ![u] =
                  IF @.timer + 1 >= MoveTicks
                  THEN [@ EXCEPT !.phase = Arrived(unit[u]), !.timer = 0]
                  ELSE [unit[u] EXCEPT !.phase = "Approach", !.timer = @ + 1]]
    /\ UNCHANGED stock

ComeAlongside(u) ==
    /\ Visit("serve", u)
    /\ Phase(u) \in {"Returning", "Approach"}
    /\ Alongside(u) /\ Meets(u, unit[u].at)
    /\ unit' = [unit EXCEPT ![u].phase = "Replenishing", ![u].leg = 0, ![u].timer = 0]
    /\ UNCHANGED <<stock, used>>

Leave(u) ==
    /\ Visit("serve", u)
    /\ Phase(u) = "Departing"
    /\ TakeMoveSlot(unit[u].at)
    /\ unit' = [unit EXCEPT ![u] =
                  IF @.timer + 1 >= MoveTicks
                  THEN [@ EXCEPT !.phase = "Deployed", !.at = Nil, !.timer = 0]
                  ELSE [unit[u] EXCEPT !.timer = @ + 1]]
    /\ UNCHANGED stock

TakeServiceSlot(f) ==
    /\ f \notin destroyed
    /\ used[f].service < ServiceSlots[f]
    /\ used' = [used EXCEPT ![f].service = @ + 1]

Load(u) ==
    /\ Visit("serve", u)
    /\ Phase(u) = "Loading" /\ unit[u].task # Nil
    /\ TakeServiceSlot(unit[u].at)
    /\ LET moved == Flow(unit[u].task.left, unit[u].task.left)
           left  == Less(unit[u].task.left, moved)
           r     == [unit[u] EXCEPT !.cargo = Plus(@, moved)]
       IN  unit' = [unit EXCEPT ![u] =
                      IF Empty(left)
                      THEN [r EXCEPT !.phase = "Returning", !.at = r.task.destination,
                                     !.timer = 0, !.task = Nil]
                      ELSE [r EXCEPT !.task.left = left]]
    /\ UNCHANGED stock

\* Room for deliveries: goods reserved here may come back.
Space(f) == Less(Less(Capacity[f], Reserved(f)), stock[f])

Unload(u) ==
    /\ Visit("serve", u)
    /\ Phase(u) = "Unloading"
    /\ TakeServiceSlot(unit[u].at)
    /\ LET f     == unit[u].at
           moved == Flow(unit[u].cargo, Space(f))
           r     == [unit[u] EXCEPT !.cargo = Less(@, moved)]
       IN  /\ stock' = [stock EXCEPT ![f] = Plus(@, moved)]
           /\ unit' = [unit EXCEPT ![u] = IF Empty(r.cargo)
                                          THEN [r EXCEPT !.phase = "Queued"] ELSE r]

\* Fuel, rounds and repairs at once, as far as the stock goes.
Turnaround(u) ==
    /\ Visit("serve", u)
    /\ Phase(u) \in {"Queued", "Servicing"}
    /\ TakeServiceSlot(unit[u].at)
    /\ LET f     == unit[u].at
           moved == Flow(stock[f], Room(u))
           r     == [unit[u] EXCEPT !.store = Plus(@, moved)]
       IN  /\ stock' = [stock EXCEPT ![f] = Less(@, moved)]
           /\ unit' = [unit EXCEPT ![u] = [r EXCEPT !.phase =
                          IF r.store = Full[u] THEN "Ready" ELSE "Servicing"]]

TakeCargoSlot(f) ==
    /\ used[f].service < CargoSlots[f]
    /\ used' = [used EXCEPT ![f].service = @ + 1]

\* Replenishing a carrier: connect, pump, separate.  Out of the envelope the
\* ship separates; that too waits for a slot.
Replenish(u, meets) ==
    /\ Visit("serve", u)
    /\ Phase(u) = "Replenishing"
    /\ meets => Meets(u, unit[u].at)
    /\ TakeCargoSlot(unit[u].at)
    /\ LET f     == unit[u].at
           r     == IF unit[u].leg < 2 /\ ~meets
                    THEN [unit[u] EXCEPT !.leg = 2, !.timer = 0] ELSE unit[u]
           moved == Flow(r.cargo, Space(f))
           rest  == Less(r.cargo, moved)
           timed == [r EXCEPT !.timer = @ + 1]
       IN  \/ /\ r.leg = 0
              /\ unit' = [unit EXCEPT ![u] = IF timed.timer >= ConnectTicks
                            THEN [timed EXCEPT !.leg = 1, !.timer = 0] ELSE timed]
              /\ UNCHANGED stock
           \/ /\ r.leg = 1
              /\ stock' = [stock EXCEPT ![f] = Plus(@, moved)]
              /\ unit' = [unit EXCEPT ![u] =
                            IF Empty(rest)
                            THEN [r EXCEPT !.cargo = rest, !.leg = 2, !.timer = 0]
                            ELSE [r EXCEPT !.cargo = rest]]
           \/ /\ r.leg = 2
              /\ unit' = [unit EXCEPT ![u] = IF timed.timer >= DisconnectTicks
                            THEN [timed EXCEPT !.phase = "Deployed", !.at = Nil,
                                               !.timer = 0] ELSE timed]
              /\ UNCHANGED stock

\* The envelope broke while no slot was free.
BreakOff(u) ==
    /\ Visit("serve", u)
    /\ Phase(u) = "Replenishing" /\ unit[u].leg < 2
    /\ used[unit[u].at].service >= CargoSlots[unit[u].at]
    /\ unit' = [unit EXCEPT ![u].leg = 2, ![u].timer = 0]
    /\ UNCHANGED <<stock, used>>

--------------------------------------------------------------------------------
(* Fuel from one unit to another.                                           *)

Donor(u) == unit[u].partner

TakenStations(u) ==
    {unit[v].station : v \in {w \in Units \ {u} : unit[w].partner = Donor(u)}} \ {Nil}

FreeStations(u) == (1..Stations[Donor(u)][unit[u].asked]) \ TakenStations(u)

Supported(u) == unit[Donor(u)].support = unit[u].asked

\* Support ended or changed, or the two are out of the envelope.
Separate(u) ==
    /\ Visit("serve", u)
    /\ Phase(u) \in Receiving
    /\ Supported(u) => Phase(u) # "Rendezvous"
    /\ unit' = [unit EXCEPT ![u].phase = "Disconnecting", ![u].timer = 0]
    /\ UNCHANGED <<stock, used>>

KeepRendezvous(u) ==
    /\ Visit("serve", u)
    /\ Phase(u) = "Rendezvous" /\ Supported(u)
    /\ UNCHANGED <<unit, stock, used>>

InReach(u) == Supported(u) /\ Phase(Donor(u)) = "Deployed" /\ Meets(u, Donor(u))

\* Mutant: any station of the donor will do.
AnyStation(u) == IF unit[u].station # Nil THEN unit[u].station ELSE 1

\* The station the unit has, or the first that is free.
StationFor(u) == IF unit[u].station # Nil THEN unit[u].station
                 ELSE CHOOSE n \in FreeStations(u) : \A m \in FreeStations(u) : n <= m

Connect(u) ==
    /\ Visit("serve", u)
    /\ Phase(u) \in {"Rendezvous", "Connecting"}
    /\ InReach(u)
    /\ unit[u].station # Nil \/ FreeStations(u) # {}
    /\ LET waited == IF Phase(u) = "Rendezvous" THEN 1 ELSE unit[u].timer + 1
           ready  == waited >= ConnectTicks
       IN  unit' = [unit EXCEPT ![u].phase = IF ready THEN "Transferring" ELSE "Connecting",
                        ![u].timer = IF ready THEN 0 ELSE waited,
                        ![u].station = StationFor(u)]
    /\ UNCHANGED <<stock, used>>

\* A supply ship gives from its stock, an aircraft from its own tank.
Available(d, i) ==
    IF i = "Underway" THEN IF d \in Facility THEN stock[d]["fuel"] ELSE 0
    ELSE Positive(unit[d].store["fuel"] - Reserve[d])

Pump(u) ==
    /\ Visit("serve", u)
    /\ Phase(u) = "Transferring"
    /\ InReach(u)
    /\ LET d      == Donor(u)
           share  == Least(Rate, Positive(SharedRate - used[d].pump))
           amount == Least(Least(share, unit[u].due),
                           Least(Room(u)["fuel"], Available(d, unit[u].asked)))
           done   == \/ amount = 0 \/ amount = unit[u].due
                     \/ amount = Room(u)["fuel"]
                     \/ amount = Available(d, unit[u].asked)
           r      == [unit[u] EXCEPT !.store["fuel"] = @ + amount, !.due = @ - amount]
       IN  /\ used' = [used EXCEPT ![d].pump = @ + share]
           /\ IF unit[u].asked = "Underway"
              THEN /\ stock' = IF amount = 0 THEN stock
                               ELSE [stock EXCEPT ![d]["fuel"] = @ - amount]
                   /\ unit' = [unit EXCEPT ![u] = IF done
                                 THEN [r EXCEPT !.phase = "Disconnecting", !.timer = 0] ELSE r]
              ELSE /\ UNCHANGED stock
                   /\ unit' = [unit EXCEPT
                                 ![u] = IF done
                                        THEN [r EXCEPT !.phase = "Disconnecting", !.timer = 0]
                                        ELSE r,
                                 ![d].store["fuel"] = @ - amount]

\* Mutant: every frame starts the separation anew.
NeverDone(u) ==
    /\ Visit("serve", u)
    /\ Phase(u) = "Disconnecting"
    /\ unit' = [unit EXCEPT ![u].timer = 0]
    /\ UNCHANGED <<stock, used>>

Disconnect(u) ==
    /\ Visit("serve", u)
    /\ Phase(u) = "Disconnecting"
    /\ unit' = [unit EXCEPT ![u] =
                  IF @.timer + 1 >= DisconnectTicks
                  THEN [@ EXCEPT !.phase = "Deployed", !.partner = Nil,
                                 !.station = Nil, !.asked = Nil, !.timer = 0]
                  ELSE [unit[u] EXCEPT !.timer = @ + 1]]
    /\ UNCHANGED <<stock, used>>

--------------------------------------------------------------------------------
(* The end of advance: lost units give up tasks and receivers, every frame.  *)

Settling ==
    /\ stage = "serve" /\ todo = {}
    /\ stage' = "settle" /\ todo' = {u \in Units : Phase(u) \in Lost}
    /\ used' = NoneUsed
    /\ UNCHANGED <<unit, stock, destroyed, orders, hits>>

SettleLost(u) ==
    /\ Visit("settle", u)
    /\ IF Phase(u) \in Lost
       THEN stock' = Returned(u) /\ unit' = Parted(u)
       ELSE UNCHANGED <<stock, unit>>
    /\ UNCHANGED used

EndFrame ==
    /\ stage = "settle" /\ todo = {}
    /\ stage' = "idle"
    /\ destroyed' = destroyed \cup {u \in Units : Phase(u) = "Destroyed"}
    /\ UNCHANGED <<unit, stock, todo, used, orders, hits>>

--------------------------------------------------------------------------------
Configured(u) ==
    [phase |-> IF Aboard[u] = Nil THEN "Deployed" ELSE "Queued",
     at |-> Aboard[u], partner |-> Nil, station |-> Nil, asked |-> Nil,
     support |-> Nil, due |-> 0, timer |-> 0, leg |-> 0, task |-> Nil,
     cargo |-> Nothing, store |-> [Full[u] EXCEPT !["fuel"] = Fuel[u]]]

LogisticsInit ==
    /\ \E fleet \in Fleet : unit = [u \in fleet |-> Configured(u)]
    /\ stock = Opening
    /\ destroyed = {} /\ stage = "idle" /\ todo = {} /\ used = NoneUsed /\ orders = 0
    /\ hits = 0

Manifests == {[Nothing EXCEPT ![g] = n] : g \in Good, n \in 1..Rate + 1}

Tasking ==
    \E u \in Units :
        \/ Depart(u) \/ Cancel(u)
        \/ \E f \in Facility : Return(u, f)
        \/ \E i \in Interface : Support(u, i)
        \/ \E d \in Units, i \in Interface, n \in 1..Rate + 1 : Refuel(u, d, i, n)
        \/ \E from, to \in Facility, m \in Manifests : Cargo(u, from, to, m)

Combat ==
    \/ \E u \in Units, g \in Good : Wear(u, g)
    \/ \E x \in Units \cup Facility : DestroyTarget(x)

Guide == \E u \in todo :
    LoseUnit(u) \/ Immobilize(u) \/ FlyOn(u) \/ \E f \in Facility : ReturnOnReserve(u, f)

Serve == \E u \in todo :
    \/ Wait(u) \/ Recover(u) \/ ComeAlongside(u) \/ Leave(u)
    \/ Load(u) \/ Unload(u) \/ Turnaround(u)
    \/ \E meets \in BOOLEAN : Replenish(u, meets)
    \/ BreakOff(u)
    \/ Separate(u) \/ KeepRendezvous(u) \/ Connect(u) \/ Pump(u) \/ Disconnect(u)

Frame ==
    \/ BeginFrame \/ Guide \/ BurnFuel \/ Serve
    \/ Settling \/ (\E u \in todo : SettleLost(u)) \/ EndFrame

LogisticsNext == Tasking \/ Combat \/ Frame

\* The game runs: its frames go on.
Fairness == WF_logisticsVars(Frame)

LogisticsSpec == LogisticsInit /\ [][LogisticsNext]_logisticsVars /\ Fairness

--------------------------------------------------------------------------------
Phases ==
    {"Deployed", "Returning", "Approach", "Queued", "Servicing", "Ready", "Departing",
     "Rendezvous", "Connecting", "Transferring", "Disconnecting", "Loading",
     "Unloading", "Replenishing", "Immobilized", "Destroyed", "Unavailable"}

Runtime ==
    [phase : Phases, at : Facility \cup {Nil}, partner : AnyUnit \cup {Nil},
     station : Nat \cup {Nil}, asked : Interface \cup {Nil},
     support : Interface \cup {Nil}, due : Nat, timer : Nat, leg : 0..2,
     task : CargoTask \cup {Nil},
     cargo : Goods, store : Goods]

\* Types; whoever is berthed or bound for a berth has a facility, and whoever
\* takes fuel from somebody has a partner.
LogisticsTypeOK ==
    /\ Units \subseteq AnyUnit
    /\ unit \in [Units -> Runtime]
    /\ stock \in [Facility -> Goods]
    /\ destroyed \subseteq AnyUnit \cup Facility
    /\ stage \in {"idle", "guide", "serve", "settle"}
    /\ todo \subseteq Units
    /\ used \in [Facility \cup AnyUnit -> [move : Nat, service : Nat, pump : Nat]]
    /\ orders \in 0..MaxOrders /\ hits \in 0..MaxHits
    /\ \A u \in Units :
          /\ Phase(u) \in Berthed \cup {"Returning", "Approach", "Replenishing"}
                => unit[u].at # Nil
          /\ Phase(u) \in Receiving => /\ unit[u].partner \in Units \ {u}
                                       /\ unit[u].asked # Nil

\* Everything there is of a good: in stock, reserved, in a hold, in a unit.
Existing(g) ==
      Total([f \in Facility |-> stock[f][g] + Reserved(f)[g]], Facility)
    + Total([u \in Units |-> unit[u].cargo[g] + unit[u].store[g]], Units)

\* Goods are moved, used up or lost, and never made: not by a cancelled
\* reservation, a transfer that breaks off, or a pump that serves two receivers.
NothingFromNothing == [][\A g \in Good : Existing(g)' <= Existing(g)]_logisticsVars

\* Nothing is given out twice, however landings, loading, servicing, cancelled
\* departures and lost units follow each other: a facility never holds more than
\* it has room for, the goods that are reserved there and may come back counted,
\* nor does a unit; no more units are berthed than there are parking places; two
\* receivers never hold the same station of a donor, not even while one of them
\* is still disconnecting from it.
WithinLimits ==
    /\ \A f \in Facility :
          /\ \A g \in Good : stock[f][g] + Reserved(f)[g] <= Capacity[f][g]
          /\ Occupied(f) <= Parking[f]
    /\ \A u \in Units, g \in Good : unit[u].store[g] <= Full[u][g]
    /\ \A u, v \in Units :
          /\ u # v
          /\ unit[u].partner # Nil /\ unit[u].partner = unit[v].partner
          /\ unit[u].asked = unit[v].asked
          /\ unit[u].station # Nil
          => unit[u].station # unit[v].station

LostPartner(u) ==
    \/ unit[u].partner \in destroyed
    \/ unit[u].partner \in Units /\ (IsLost(unit[u].partner) \/ Phase(unit[u].partner) \in Lost)

\* A separation from a unit that still exists comes to its end: the receiver is
\* tasked, sent home or lost again, and its station free for the next one.
SeparationEnds ==
    \A u \in AnyUnit :
        []<>(u \in Units => Phase(u) # "Disconnecting" \/ LostPartner(u))

\* Not checked by a run, TLC refutes it in the instance of LogisticsField.cfg: every
\* separation comes to its end.  A lost donor is disconnected anew in every frame.
Separates ==
    \A u \in AnyUnit : []<>(u \in Units => Phase(u) # "Disconnecting")

================================================================================
