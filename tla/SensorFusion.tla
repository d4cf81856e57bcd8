------------------------------ MODULE SensorFusion ------------------------------
(***************************************************************************)
(* What platforms know of their contacts: the estimates each one keeps     *)
(* (crates/sim-core/src/sensing.rs, Runtime), the reports by which they    *)
(* share them over campaign links (update_reports of sim-core/src/lib.rs)  *)
(* and over a scenario's subscriptions (server/src/sensor_reports.rs).     *)
(*                                                                         *)
(* A sighting is a measurement of a target by a platform's own sensor, a   *)
(* position or a passive bearing.  An estimate is made of sightings and    *)
(* carries some of them along as evidence when it is reported, so that it  *)
(* can be recognised when it comes back.  Positions, covariances and       *)
(* classification are left out: which estimate a measurement falls on,     *)
(* and whether bearings meet in a point, is left open within what the      *)
(* times of both allow.                                                    *)
(*                                                                         *)
(* A tick senses, hears what the links delivered, broadcasts over them,    *)
(* hears what the subscriptions delivered and then serves these.  Messages *)
(* are reliable ones (MessageDelivery): each is delivered at most once, in *)
(* a later tick, in any order or never, and settles some time after.       *)
(***************************************************************************)
EXTENDS Integers, FiniteSets, FiniteSetsExt, Functions

CONSTANTS
    Platform,      \* platforms of one side
    Target,        \* what they look for
    Fixes,         \* Fixes[u]: targets that u's sensors may fix
    Hears,         \* Hears[u]: targets whose emissions u may take a bearing of
    Links,         \* sets of campaign links <<from, to>> considered
    Route,         \* subscriptions of games without campaign links
    Expiry,        \* model.track_expiry_ticks
    BearingExpiry, \* 30 ticks
    Together,      \* 5 ticks: the most between bearings of one fix
    Interval,      \* model.report_interval_ticks
    Relay,         \* 120 ticks: a friend's state older than that is not passed on
    Pace,          \* interval_ticks of the subscriptions
    Kept,          \* 256 sightings kept with an estimate
    Sent,          \* 8 sightings sent along with it
    MaxTick, MaxSightings    \* bounds of the instance

ASSUME FusionAssumption ==
    /\ Route \subseteq Platform \X Platform /\ Links \subseteq SUBSET (Platform \X Platform)
    /\ {Expiry, BearingExpiry, Together, Relay, MaxTick, MaxSightings} \subseteq Nat
    /\ {Interval, Pace, Kept, Sent} \subseteq Nat \ {0}

VARIABLES
    links,      \* the links of this game, none without campaign rules
    tick,       \* SimClock
    phase,      \* "idle", "sense", "hear", "serve"
    sightings,  \* everything ever measured
    known,      \* known[u]: u's part of the Runtime
    friends,    \* friends[u][v]: when the state of v that u knows was observed
    weather,    \* weather[u][v]: the same of v's weather report, 0 without one
    wire,       \* reports not delivered yet
    unsettled,  \* routes with a delivered report that is not acknowledged yet
    attempts,   \* last_attempt of sensor_reports.rs
    latest      \* latest[u][i]: the newest report of source i u ever accepted

fusionVars == <<links, tick, phase, sightings, known, friends, weather, wire, unsettled,
          attempts, latest>>

Ticks == 0..MaxTick
Noting(f, i, x) == [j \in DOMAIN f \cup {i} |-> IF j = i THEN x ELSE f[j]]
Fresh(t) == tick - t <= Expiry

--------------------------------------------------------------------------------
(* One platform's Runtime: its estimates, the newest report accepted from  *)
(* each source track, when each sighting it has was first heard of, and    *)
(* its bearings.  `next' numbers its estimates.                            *)

Ignorant == [tracks |-> {}, heads |-> [i \in {} |-> 0], seen |-> [o \in {} |-> 0],
             bearings |-> {}, next |-> 1]

\* The n of `obs' heard of last; the order among equals is that of the ids.
Later(r, o, p) ==
    LET at(q) == IF q \in DOMAIN r.seen THEN r.seen[q] ELSE -1
    IN  at(o) > at(p) \/ (at(o) = at(p) /\ o.at > p.at)
Newest(r, obs, n) ==
    IF Cardinality(obs) <= n THEN obs
    ELSE CHOOSE part \in kSubset(n, obs) :
            \A o \in part, p \in obs \ part : ~ Later(r, p, o)

\* Mutant: what was seen already counts again unless an estimate holds all of it.
NewsIfNotHeld(r, c, local) ==
    /\ c.observed <= tick /\ Fresh(c.observed)
    /\ local \/ c.id \notin DOMAIN r.heads \/ r.heads[c.id] < c.observed
    /\ \A e \in r.tracks : ~ c.obs \subseteq e.obs

\* A measurement c is taken if it is fresh, newer than what its source reported
\* before, and brings a sighting that is news here.  (`made', not in the code, is all
\* it was ever made of; `obs' the evidence that comes along.)
IsNews(r, c, local) ==
    /\ c.observed <= tick /\ Fresh(c.observed)
    /\ c.observed <= c.estimated /\ c.estimated <= tick
    /\ local \/ c.id \notin DOMAIN r.heads \/ r.heads[c.id] < c.observed
    /\ ~ c.obs \subseteq DOMAIN r.seen
    /\ \A e \in r.tracks : ~ c.obs \subseteq e.obs

\* What a measurement may be associated with: an estimate that does not run ahead
\* of it, or none, if none is near, two are as likely, or they cannot be the same.
Candidates(r, c) == {e \in r.tracks : e.predicted <= c.estimated}

Taken(r, c) ==
    [r EXCEPT !.heads = Noting(r.heads, c.id, c.observed),
              !.seen  = [o \in DOMAIN r.seen \cup c.obs |->
                            IF o \in DOMAIN r.seen THEN r.seen[o] ELSE c.observed]]

Fused(r, c, local, e) ==
    [Taken(r, c) EXCEPT
        !.tracks = (@ \ {e}) \cup
            {[e EXCEPT !.obs = Newest(Taken(r, c), e.obs \cup c.obs, Kept),
                       !.made = @ \cup c.made,
                       !.observed = c.observed,
                       !.predicted = c.estimated,
                       !.local = IF local THEN tick ELSE @]}]

Opened(r, c, local, u) ==
    [Taken(r, c) EXCEPT
        !.next = @ + 1,
        !.tracks = @ \cup {[id |-> [at |-> u, n |-> r.next], obs |-> c.obs, made |-> c.made,
                            observed |-> c.observed, predicted |-> c.estimated,
                            local |-> IF local THEN tick ELSE 0]}]

\* Runtime::receive: the states it may leave u's part in.
Received(u, r, c, local) ==
    IF ~ IsNews(r, c, local) THEN {r}
    ELSE {Opened(r, c, local, u)} \cup {Fused(r, c, local, e) : e \in Candidates(r, c)}

\* Two bearings of one receiver at its latest time cannot be told apart.
Ambiguous(list, b) ==
    \E o \in list :
        /\ \A p \in list : p.by = o.by => p.at <= o.at
        /\ o.at - b.at \in (-Together)..Together
        /\ \E p \in list : p # o /\ p.by = o.by /\ p.at = o.at

Fix(b, far, list) ==
    LET usable(s) == {o \in list : o.by = s /\ o.at - b.at \in (-Together)..Together}
        contributors == {b} \cup {CHOOSE o \in usable(s) :
                                      \A p \in usable(s) : p.at <= o.at : s \in far}
        last == Max({o.at : o \in contributors})
    IN  [id |-> [fix |-> b, of |-> contributors], obs |-> contributors, made |-> contributors,
         observed |-> last, estimated |-> last]

\* Runtime::receive_bearing: `far' are the receivers far enough from this one whose
\* bearings meet it in a point.
ReceivedBearing(u, r, b) ==
    IF b.at > tick \/ tick - b.at > BearingExpiry \/ b \in r.bearings THEN {r}
    ELSE LET heard   == [r EXCEPT !.bearings = @ \cup {b}]
             sources == {o.by : o \in {p \in r.bearings :
                             p.by # b.by /\ p.at - b.at \in (-Together)..Together}}
         IN  IF Ambiguous(heard.bearings, b) THEN {heard}
             ELSE {heard} \cup
                  UNION {Received(u, heard, Fix(b, far, heard.bearings), FALSE) :
                             far \in SUBSET sources \ {{}}}

\* The states that a report's bearings or estimates may lead to from those of `from',
\* in whatever order the report lists them.
IsBearing(i) == "kind" \in DOMAIN i
Heard(u, r, i) == IF IsBearing(i) THEN ReceivedBearing(u, r, i) ELSE Received(u, r, i, FALSE)
After(u, from, items) ==
    LET after[done \in SUBSET items] ==
            IF done = {} THEN from
            ELSE UNION {UNION {Heard(u, r, i) : r \in after[done \ {i}]} : i \in done}
    IN  after[items]

\* Mutant: a watermark goes a tick before the reports it stops.
PrunedEarly(r, t) ==
    [r EXCEPT !.heads = Restrict(@, {i \in DOMAIN @ : t - @[i] < Expiry}),
              !.seen  = Restrict(@, {o \in DOMAIN @ : t - @[o] <= Expiry}),
              !.tracks = {e \in @ : t - e.observed <= Expiry},
              !.bearings = {b \in @ : t - b.at <= BearingExpiry}]

\* What Runtime::observe drops when the tick begins.
Pruned(r, t) ==
    [r EXCEPT !.heads = Restrict(@, {i \in DOMAIN @ : t - @[i] <= Expiry}),
              !.seen  = Restrict(@, {o \in DOMAIN @ : t - @[o] <= Expiry}),
              !.tracks = {e \in @ : t - e.observed <= Expiry},
              !.bearings = {b \in @ : t - b.at <= BearingExpiry}]

\* Mutant: a report is dated when its estimate was predicted to.
ReportedAsCurrent(r, e) == [id |-> e.id, obs |-> Newest(r, e.obs, Sent), made |-> e.made,
                            observed |-> tick, estimated |-> tick]

\* Runtime::tracks_for, current_tracks and current_bearings.
AsReport(r, e) == [id |-> e.id, obs |-> Newest(r, e.obs, Sent), made |-> e.made,
                   observed |-> e.observed, estimated |-> tick]
TracksFor(u)  == {AsReport(known[u], e) : e \in {f \in known[u].tracks : Fresh(f.observed)}}
CurrentTracks(u) ==
    {c \in TracksFor(u) : \E e \in known[u].tracks : e.id = c.id /\ e.local = tick}
CurrentBearings(u) == {b \in known[u].bearings : b.at = tick}

--------------------------------------------------------------------------------
(* The tick.                                                               *)

NoFriends == [v \in Platform |-> 0]

FusionInit ==
    /\ links \in Links
    /\ tick = 0 /\ phase = "idle" /\ sightings = {}
    /\ known = [u \in Platform |-> Ignorant]
    /\ friends = [u \in Platform |-> NoFriends] /\ weather = [u \in Platform |-> NoFriends]
    /\ wire = {} /\ unsettled = {}
    /\ attempts = [r \in Route |-> [k \in {} |-> 0]]
    /\ latest = [u \in Platform |-> [i \in {} |-> 0]]

\* u's part of the Runtime becomes r.
Learn(u, r) ==
    /\ known' = [known EXCEPT ![u] = r]
    /\ latest' = [latest EXCEPT ![u] =
           [i \in DOMAIN @ \cup DOMAIN r.heads |->
               Max({@[j] : j \in DOMAIN @ \cap {i}} \cup {r.heads[j] : j \in DOMAIN r.heads \cap {i}})]]

Begin ==
    /\ phase = "idle" /\ tick < MaxTick
    /\ tick' = tick + 1
    /\ phase' = "sense"
    /\ known' = [u \in Platform |-> Pruned(known[u], tick')]
    /\ weather' = [u \in Platform |-> [v \in Platform |->
                       IF tick' - weather[u][v] <= Expiry THEN weather[u][v] ELSE 0]]
    /\ UNCHANGED <<links, sightings, friends, wire, unsettled, attempts, latest>>

\* A sensor of u detects x, in the part of observe after the pruning.
Sense(u, x, kind) ==
    LET o == [by |-> u, of |-> x, at |-> tick, kind |-> kind]
        c == [id |-> o, obs |-> {o}, made |-> {o}, observed |-> tick, estimated |-> tick]
    IN  /\ phase = "sense"
        /\ o \notin sightings /\ Cardinality(sightings) < MaxSightings
        /\ sightings' = sightings \cup {o}
        /\ \E r \in IF kind = "fix" THEN Received(u, known[u], c, TRUE)
                    ELSE ReceivedBearing(u, known[u], o) : Learn(u, r)
        /\ UNCHANGED <<links, tick, phase, friends, weather, wire, unsettled, attempts>>

Detect(u, x)     == x \in Fixes[u]  /\ Sense(u, x, "fix")
TakeBearing(u, x) == x \in Hears[u] /\ Sense(u, x, "bearing")

\* The events of a tick for the reports of the links, then for the subscriptions.
Hearing(m) == IF links # {} THEN phase \in {"sense", "hear"} ELSE phase = "serve"

Deliver(m) ==
    LET u == m.to
        newer(old, t) == IF t > old THEN t ELSE old
    IN  /\ Hearing(m) /\ m.at < tick
        /\ phase' = IF links # {} THEN "hear" ELSE phase
        /\ friends' = [friends EXCEPT ![u] =
                [v \in Platform |-> IF v = u THEN 0 ELSE newer(@[v], m.friends[v])]]
        /\ weather' = IF m.weather THEN [weather EXCEPT ![u][m.from] = newer(@, m.at)]
                      ELSE weather
        /\ \E r \in After(u, After(u, {known[u]}, m.bearings), m.tracks) : Learn(u, r)
        /\ wire' = wire \ {m}
        /\ unsettled' = unsettled \cup {<<m.from, m.to>>}
        /\ UNCHANGED <<links, tick, sightings, attempts>>

\* A report expires, is dropped or never acknowledged.
LoseReport(m) ==
    /\ Hearing(m) /\ m.at < tick
    /\ wire' = wire \ {m}
    /\ phase' = IF links # {} THEN "hear" ELSE phase
    /\ UNCHANGED <<links, tick, sightings, known, friends, weather, unsettled, attempts, latest>>

\* All delivered reports of a route are acknowledged, or given up.
Settle(p) ==
    /\ Hearing(p)
    /\ unsettled' = unsettled \ {p}
    /\ phase' = IF links # {} THEN "hear" ELSE phase
    /\ UNCHANGED <<links, tick, sightings, known, friends, weather, wire, attempts, latest>>

Pending(p) == p \in unsettled \/ \E m \in wire : p = <<m.from, m.to>>

LinkReport(p) ==
    LET u == p[1]
    IN  [from |-> u, to |-> p[2], at |-> tick, weather |-> TRUE,
         tracks |-> TracksFor(u), bearings |-> CurrentBearings(u),
         friends |-> [v \in Platform |-> IF v = u THEN tick
                                     ELSE IF tick - friends[u][v] < Relay THEN friends[u][v] ELSE 0]]

\* The sending part of update_reports: every link that nothing is pending on gets a
\* report, unless a command occupies it or the network refuses it.
Broadcast ==
    /\ phase \in {"sense", "hear"}
    /\ phase' = "serve"
    /\ IF tick = 1 \/ tick % Interval = 0
       THEN \E out \in SUBSET {p \in links : ~ Pending(p)} :
                wire' = wire \cup {LinkReport(p) : p \in out}
       ELSE wire' = wire
    /\ UNCHANGED <<links, tick, sightings, known, friends, weather, unsettled, attempts, latest>>

\* What is due on subscription p, by the key its last attempt is remembered under.
Note(p, tracks, bearings, air) ==
    [from |-> p[1], to |-> p[2], at |-> tick, weather |-> air,
     tracks |-> tracks, bearings |-> bearings, friends |-> NoFriends]
Paced(a, k) == k \in DOMAIN a => tick - a[k] >= Pace
Due(p, a) ==
    {[key |-> c.id, note |-> Note(p, {c}, {}, FALSE)] :
        c \in {d \in CurrentTracks(p[1]) : Paced(a, d.id)}}
    \cup {d \in {[key |-> [air |-> p[1]], note |-> Note(p, {}, {}, TRUE)]} : Paced(a, d.key)}
    \cup {[key |-> b, note |-> Note(p, {}, {b}, FALSE)] :
        b \in CurrentBearings(p[1]) \ DOMAIN a}

\* send_current_reports: a subscription whose last batch has not settled waits; what
\* is due is paced whether or not it can be sent.
SendCurrentReports ==
    LET recent(p) == Restrict(attempts[p], {k \in DOMAIN attempts[p] : Fresh(attempts[p][k])})
        due == [p \in Route |-> IF links # {} \/ Pending(p) THEN {} ELSE Due(p, recent(p))]
    IN  /\ phase = "serve"
        /\ phase' = "idle"
        /\ attempts' = [p \in Route |->
               [k \in DOMAIN recent(p) \cup {d.key : d \in due[p]} |->
                   IF k \in {d.key : d \in due[p]} THEN tick ELSE recent(p)[k]]]
        /\ \E out \in SUBSET UNION {{d.note : d \in due[p]} : p \in Route} :
               wire' = wire \cup out
        /\ UNCHANGED <<links, tick, sightings, known, friends, weather, unsettled, latest>>

FusionNext ==
    \/ Begin
    \/ \E u \in Platform, x \in Target : Detect(u, x) \/ TakeBearing(u, x)
    \/ \E m \in wire : Deliver(m) \/ LoseReport(m)
    \/ \E p \in unsettled : Settle(p)
    \/ Broadcast
    \/ SendCurrentReports

FusionSpec == FusionInit /\ [][FusionNext]_fusionVars

--------------------------------------------------------------------------------
(* Properties.                                                             *)

\* Passing a contact on, predicting it and fusing it do not make it look seen later
\* than it was: the observation time of an estimate, by which it expires and may be
\* engaged, is that of one of the sightings it was made of, at every platform and in
\* every report on the way (observed_tick, as opposed to estimate_tick).  That one may
\* be gone from the evidence, of which a platform keeps some and sends some along.
FreshnessIsEarned ==
    /\ \A u \in Platform : \A e \in known[u].tracks :
           \E o \in e.made \cap sightings : o.at = e.observed
    /\ \A m \in wire : \A c \in m.tracks :
           \E o \in c.made \cap sightings : o.at = c.observed

\* A report of a source track is never taken after a newer one, not even when the
\* memory of the newer one has been dropped (report_heads and its pruning).
OlderNeverReplacesNewer ==
    [][\A u \in Platform : \A i \in DOMAIN known'[u].heads \cap DOMAIN latest[u] :
          \/ i \in DOMAIN known[u].heads /\ known'[u].heads[i] = known[u].heads[i]
          \/ known'[u].heads[i] > latest[u][i]]_fusionVars

\* A report made of nothing but fixes by the recipient's own sensors, none of them
\* expired, is not taken for news when it comes back over others (seen_observations).
\* A bearing becomes evidence only in a fix with others, which may be news.
OwnSightingsAreNoNews ==
    [][\A m \in wire \ wire' : \A c \in m.tracks :
          (\A o \in c.obs : o.by = m.to /\ o.kind = "fix" /\ Fresh(o.at)) =>
              (c.id \in DOMAIN known'[m.to].heads =>
                  /\ c.id \in DOMAIN known[m.to].heads
                  /\ known'[m.to].heads[c.id] = known[m.to].heads[c.id])]_fusionVars

\* Not checked by a run, TLC refutes it in the instance of Fusion.cfg: "Out-of-order
\* data never rewinds a newer estimate", the comment of receive.
EstimatesAreNotRewound ==
    [][\A u \in Platform : \A e \in known[u].tracks, f \in known'[u].tracks :
          e.id = f.id => f.observed >= e.observed]_fusionVars

================================================================================
