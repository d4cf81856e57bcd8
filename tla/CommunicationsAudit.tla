-------------------------- MODULE CommunicationsAudit --------------------------
(***************************************************************************)
(* The communications archive: what the terminals of a game observe of     *)
(* its messages, how it is committed with the game, read page by page, and *)
(* forgotten after some days (crates/server/src/audit.rs, the archive of   *)
(* storage.rs, list_network_events of main.rs and sim-core/src/audit.rs).  *)
(*                                                                         *)
(* There are two archives.  communications_audit holds every observation,  *)
(* numbered for each role whose terminal made it; network_events holds the *)
(* life of each C2 record, and network_messages its body.  Cleanup forgets *)
(* the old history of messages that nothing is going on with, and raises   *)
(* a floor in the same transaction, by which a reader with an older cursor *)
(* is told that something is missing.                                      *)
(*                                                                         *)
(* One game, one fragment on one hop per message.  A committed observation *)
(* is a row of a sequence in the order of (boundary, ordinal); a forgotten *)
(* row stays in the sequence with kept = FALSE, for the properties only.   *)
(* Contents, times and the reader's filters are left out.                  *)
(***************************************************************************)
EXTENDS Integers, Sequences, FiniteSets, SequencesExt

CONSTANTS
    Role,
    Unit,          \* terminals
    At,            \* At[r]: location_unit_id of role r
    Nowhere,       \* of an observation at a device of no terminal
    Message,
    C2,            \* messages with a record of their own; the others are internal
    Private,       \* records their recipient does not see before delivery
    Author,        \* Author[m]: origin_role_id
    From, To,      \* From[m], To[m]: terminals
    Late,          \* of an upgraded game: a closed message with a packet in the air
    Days,          \* COMMUNICATIONS_ARCHIVE_RETENTION_DAYS, set and not 0
    Batch,         \* 1,000 rows in the code
    Limit,         \* page size of a reader
    Capacity,      \* 10,000 observations in the code
    MaxDay,        \* bound on time
    MaxObserved,   \* bound on observations at terminals with a role
    Scenes         \* \subseteq {"durable", "upgraded", "volatile"}

ASSUME AuditAssumption ==
    /\ At \in [Role -> Unit] /\ Nowhere \notin Unit
    /\ {From, To} \subseteq [Message -> Unit] /\ Author \in [Message -> Role]
    /\ Private \subseteq C2 /\ C2 \subseteq Message /\ Late \subseteq C2
    /\ IsFiniteSet(Role) /\ IsFiniteSet(Late)
    /\ {Days, Batch, Limit, Capacity} \subseteq Nat \ {0}
    /\ {MaxDay, MaxObserved} \subseteq Nat
    /\ Scenes \subseteq {"durable", "upgraded", "volatile"}

VARIABLES
    scene,
    run,         \* [phase, open, air]: what snapshots hold of the messages
    tagged,      \* messages whose packet has a context: audit.packets
    pending,     \* observations since the last commit, drained or not
    lifecycle,   \* network_message_events
    heads,       \* heads[r]: the last sequence given to role r
    failed,      \* durability.failed
    db,          \* the committed archive, and run and tagged with it
    buffer,      \* without a database: [rows, floors]
    today,
    asked        \* a reader between two queries of list_network_events

vars == <<scene, run, tagged, pending, lifecycle, heads, failed, db, buffer,
          today, asked>>

Durable == scene # "volatile"
Key     == {"message", "packet"} \X Message

\* Context::message_id, or the packet alone when its context is lost.
KeyOf(m) == IF m \in tagged THEN <<"message", m>> ELSE <<"packet", m>>

Observed == FoldFunction(LAMBDA a, b : a + b, Len(pending), heads)

--------------------------------------------------------------------------------
(* What the simulation observes.                                           *)

\* A frame has the games to itself, from here to its commit.
Observe(key, unit) ==
    /\ Observed < MaxObserved
    /\ asked = {}
    /\ pending' = Append(pending, [key |-> key, terminal |-> unit])

\* A transition of a C2 record enters network_message_events.
Tell(m, delivered) ==
    lifecycle' = IF m \in C2
                 THEN Append(lifecycle, [message |-> m, delivered |-> delivered])
                 ELSE lifecycle

Rest == <<scene, heads, failed, db, buffer, today, asked>>

Accept(m) ==
    /\ ~failed /\ run.phase[m] = "new"
    /\ run' = [run EXCEPT !.phase[m] = "sent", !.open = @ \cup {m}]
    /\ Observe(<<"message", m>>, From[m])
    /\ Tell(m, FALSE)
    /\ UNCHANGED <<tagged, Rest>>

\* An id that was used before.
Repeat(m) ==
    /\ ~failed /\ run.phase[m] # "new"
    /\ Observe(<<"message", m>>, From[m])
    /\ UNCHANGED <<run, tagged, lifecycle, Rest>>

Schedule(m) ==
    /\ ~failed /\ m \in run.open \ run.air
    /\ run' = [run EXCEPT !.air = @ \cup {m}]
    /\ tagged' = tagged \cup {m}
    /\ Observe(<<"message", m>>, From[m])
    /\ UNCHANGED <<lifecycle, Rest>>

\* A terminal event of a packet ends its correlation.
Arrive(m) ==
    /\ ~failed /\ m \in run.air
    /\ Observe(KeyOf(m), To[m])
    /\ tagged' = tagged \ {m}
    /\ LET first == m \in run.open /\ run.phase[m] = "sent" IN
       /\ run' = [run EXCEPT !.air = @ \ {m},
                             !.phase[m] = IF first THEN "delivered" ELSE @]
       /\ IF first THEN Tell(m, TRUE) ELSE UNCHANGED lifecycle
    /\ UNCHANGED Rest

Vanish(m) ==
    /\ ~failed /\ m \in run.air
    /\ \E unit \in {From[m], To[m], Nowhere} : Observe(KeyOf(m), unit)
    /\ tagged' = tagged \ {m}
    /\ run' = [run EXCEPT !.air = @ \ {m}]
    /\ UNCHANGED <<lifecycle, Rest>>

\* The transport acknowledges, expires or gives up a message; what is in the
\* air of it flies on.
Retire(m) ==
    /\ ~failed /\ m \in run.open
    /\ run' = [run EXCEPT !.open = @ \ {m}, !.phase[m] = "closed"]
    /\ Observe(<<"message", m>>, From[m])
    /\ Tell(m, run.phase[m] = "delivered")
    /\ UNCHANGED <<tagged, Rest>>

--------------------------------------------------------------------------------
(* Committing it.                                                          *)

\* audit::prepare: every role at the terminal gets the next of its numbers.
Prepare(events) ==
    LET Made(i, r) == Cardinality({j \in 1..i : events[j].terminal = At[r]})
    IN  [numbers |-> [i \in DOMAIN events |-> [r \in Role |->
                          IF events[i].terminal = At[r] THEN heads[r] + Made(i, r)
                          ELSE 0]],
         heads   |-> [r \in Role |-> heads[r] + Made(Len(events), r)]]

\* AuditBatch::prepare
AuditRecords(projection) ==
    [i \in DOMAIN pending |->
        [key |-> pending[i].key, numbers |-> projection.numbers[i],
         day |-> today, kept |-> TRUE]]

LifecycleRecords ==
    [i \in DOMAIN lifecycle |->
        [message |-> lifecycle[i].message, delivered |-> lifecycle[i].delivered,
         day |-> today, kept |-> TRUE]]

\* A body is stored once, however many of its records are.
Bodies == {lifecycle[i].message : i \in DOMAIN lifecycle}

\* The transaction of commit_cycle.
Stored ==
    LET projection == Prepare(pending)
    IN  [db EXCEPT !.run = run, !.tagged = tagged, !.heads = projection.heads,
                   !.audit = @ \o AuditRecords(projection),
                   !.events = @ \o LifecycleRecords,
                   !.bodies = @ \cup Bodies]

Flushed == pending' = <<>> /\ lifecycle' = <<>>

\* The heads are published and the buffers cleared after the transaction.
Commit ==
    /\ Durable /\ ~failed /\ pending # <<>>
    /\ db' = Stored
    /\ heads' = Stored.heads
    /\ Flushed
    /\ UNCHANGED <<scene, run, tagged, failed, buffer, today, asked>>

\* The backup becomes the memory again, without its audit; whether or not the
\* transaction was committed.
CommitFails ==
    /\ Durable /\ ~failed /\ pending # <<>>
    /\ db' \in {db, Stored}
    /\ failed' = TRUE
    /\ run' = db.run /\ tagged' = {} /\ heads' = [r \in Role |-> 0]
    /\ Flushed
    /\ UNCHANGED <<scene, buffer, today, asked>>

\* Mutant: recovery counts the rows that are left.
HeadsOfRows == [r \in Role |-> Max({0} \cup
    {db.audit[i].numbers[r] : i \in {j \in DOMAIN db.audit : db.audit[j].kept}})]

\* Store::load_audit
LoadedHeads == db.heads

\* A crash, at any time, and recovery: the journal is replayed without writing
\* history again.
Restart ==
    /\ Durable
    /\ run' = db.run /\ tagged' = db.tagged /\ heads' = LoadedHeads
    /\ Flushed
    /\ failed' = FALSE
    /\ asked' = {}
    /\ UNCHANGED <<scene, db, buffer, today>>

\* Without a database: flush_volatile, with its bounded buffer.
FlushVolatile ==
    /\ ~Durable /\ pending # <<>>
    /\ LET projection == Prepare(pending)
           Given(i) == {<<r, projection.numbers[i][r]>> :
                              r \in {q \in Role : pending[i].terminal = At[q]}}
           rows == buffer.rows \o FlattenSeq([i \in DOMAIN pending |->
                                                 SetToSeq(Given(i))])
           excess == Max({0, Len(rows) - Capacity})
       IN  /\ buffer' = [rows |-> SubSeq(rows, excess + 1, Len(rows)),
                         floors |-> [r \in Role |-> Max({buffer.floors[r]} \cup
                             {rows[i][2] : i \in {j \in 1..excess : rows[j][1] = r}})]]
           /\ heads' = projection.heads
    /\ pending' = <<>>
    /\ UNCHANGED <<scene, run, tagged, lifecycle, failed, db, today, asked>>

--------------------------------------------------------------------------------
(* Forgetting it.                                                          *)

\* Simulation::active_audit_messages: with the transport, or in the air.
Tracked == {<<"message", m>> : m \in run.open \cup tagged}

\* audit::active_messages
Active == Tracked \cup {<<"packet", m>> : m \in tagged}

\* Mutant: an upgraded game never counts as drained.
OnlyNewGames == scene # "upgraded"

\* Packets of before the upgrade have no context: wait until the air is clear.
RetentionSafe == scene = "upgraded" => run.air = {}

Rows(key)  == {i \in DOMAIN db.audit : db.audit[i].kept /\ db.audit[i].key = key}
Lives(key) == {i \in DOMAIN db.events : /\ db.events[i].kept
                                        /\ key = <<"message", db.events[i].message>>}

Recent(day) == day >= today - Days

\* Mutant: each archive looks only at its own rows.
QuietInAudit(key) == key \notin Active /\ \A i \in Rows(key) : ~Recent(db.audit[i].day)

\* Nothing is going on, and nothing has been in either archive for some days.
Quiet(key) ==
    /\ key \notin Active
    /\ \A i \in Rows(key)  : ~Recent(db.audit[i].day)
    /\ \A i \in Lives(key) : ~Recent(db.events[i].day)

Lowest(n, S) == {i \in S : Cardinality({j \in S : j < i}) < n}

\* Mutant: a floor is set once.
FirstRaised(floor, removed) ==
    IF floor # 0 THEN floor ELSE Max({0} \cup removed)

Raised(floor, removed) == Max({floor} \cup removed)

Forget(row) == [row EXCEPT !.kept = FALSE, !.day = 0]

\* network_message_visible
Visible(life, r) ==
    \/ Author[life.message] = r
    \/ To[life.message] = At[r] /\ (life.message \in Private => life.delivered)

\* One batch of Store::cleanup_audit, in one transaction under the gate.
Cleaned ==
    LET old   == {i \in DOMAIN db.audit : db.audit[i].kept /\ Quiet(db.audit[i].key)}
        gone  == Lowest(Batch, old)
        past  == {i \in DOMAIN db.events :
                     db.events[i].kept /\ Quiet(<<"message", db.events[i].message>>)}
        ended == Lowest(Batch - Cardinality(gone), past)
        audit == [i \in DOMAIN db.audit |->
                     IF i \in gone THEN Forget(db.audit[i]) ELSE db.audit[i]]
        events == [i \in DOMAIN db.events |->
                     IF i \in ended THEN Forget(db.events[i]) ELSE db.events[i]]
        bare(m) == /\ <<"message", m>> \notin Active
                   /\ Lives(<<"message", m>>) \subseteq ended
                   /\ Rows(<<"message", m>>) \subseteq gone
        free  == IF Cardinality(gone) = Batch THEN {} ELSE {m \in db.bodies : bare(m)}
        count == Min({Batch, Cardinality(free)})
    IN  {[db EXCEPT
            !.audit = audit, !.events = events, !.bodies = @ \ bodies,
            !.floors = [r \in Role |->
                Raised(@[r], {db.audit[i].numbers[r] : i \in gone})],
            !.lifecycleFloors = [r \in Role |->
                Raised(@[r], {i \in ended : Visible(db.events[i], r)})]]
         : bodies \in kSubset(count, free)}

Sweep ==
    /\ Durable /\ ~failed /\ RetentionSafe /\ pending = <<>>
    /\ db' \in Cleaned \ {db}
    /\ asked' = {[a EXCEPT !.late = TRUE] : a \in asked}
    /\ UNCHANGED <<scene, run, tagged, pending, lifecycle, heads, failed, buffer, today>>

--------------------------------------------------------------------------------
(* Reading it.                                                             *)

Numbers(r) ==
    IF Durable
    THEN {db.audit[i].numbers[r] : i \in {j \in DOMAIN db.audit : db.audit[j].kept}} \ {0}
    ELSE {buffer.rows[i][2] : i \in {j \in DOMAIN buffer.rows : buffer.rows[j][1] = r}}

Numbered(r)  == IF Durable THEN db.heads[r] ELSE heads[r]
Floor(r) == IF Durable THEN db.floors[r] ELSE buffer.floors[r]

\* Store::audit_page, and list without a database.  Both are atomic: the one
\* under the lock of the client and of the games, the other in memory.
AuditPage(r, cursor) ==
    LET matching == {n \in Numbers(r) : n > cursor}
        events   == Lowest(Limit, matching)
    IN  [events    |-> events,
         next      |-> IF events # matching THEN Max(events) ELSE 0,
         truncated |-> cursor < Floor(r)]

\* list_network_events asks for the floor, and then for the rows: cleanup needs
\* the games for reading only, as it does.  `late' tells the properties of it.
AskFloor(r, cursor) ==
    /\ Durable /\ pending = <<>> /\ asked = {}
    /\ asked' = {[role |-> r, cursor |-> cursor, late |-> FALSE,
                  truncated |-> cursor < db.lifecycleFloors[r]]}
    /\ UNCHANGED <<scene, run, tagged, pending, lifecycle, heads, failed, db, buffer, today>>

HistoryPage(r, cursor) ==
    {i \in DOMAIN db.events : i > cursor /\ db.events[i].kept /\ Visible(db.events[i], r)}

Answer ==
    /\ asked # {}
    /\ asked' = {}
    /\ UNCHANGED <<scene, run, tagged, pending, lifecycle, heads, failed, db, buffer, today>>

NewDay ==
    /\ Durable /\ today < MaxDay /\ pending = <<>> /\ asked = {}
    /\ today' = today + 1
    /\ UNCHANGED <<scene, run, tagged, pending, lifecycle, heads, failed, db, buffer, asked>>

--------------------------------------------------------------------------------
NoFloors == [r \in Role |-> 0]

\* A new game; or one that ran before there was an audit, whose C2 records are
\* there and whose late packets nobody can tell any more.
Init ==
    /\ scene \in Scenes
    /\ LET late == IF scene = "upgraded" THEN Late ELSE {} IN
       /\ run = [phase |-> [m \in Message |-> IF m \in late THEN "closed" ELSE "new"],
                 open  |-> {}, air |-> late]
       /\ db = [run |-> run, tagged |-> {}, heads |-> NoFloors, audit |-> <<>>,
                events |-> [i \in DOMAIN SetToSeq(late) |->
                    [message |-> SetToSeq(late)[i], delivered |-> FALSE,
                     day |-> 0, kept |-> TRUE]],
                bodies |-> late, floors |-> NoFloors, lifecycleFloors |-> NoFloors]
    /\ tagged = {} /\ pending = <<>> /\ lifecycle = <<>>
    /\ heads = NoFloors /\ failed = FALSE
    /\ buffer = [rows |-> <<>>, floors |-> NoFloors]
    /\ today = 0 /\ asked = {}

Simulation == \E m \in Message : \/ Accept(m) \/ Repeat(m) \/ Schedule(m)
                                 \/ Arrive(m) \/ Vanish(m) \/ Retire(m)

Next ==
    \/ Simulation
    \/ Commit \/ CommitFails \/ Restart \/ FlushVolatile
    \/ Sweep \/ NewDay
    \/ \E r \in Role, cursor \in 0..Len(db.events) : AskFloor(r, cursor)
    \/ Answer

\* Frames end.  The maintenance loop runs every minute, paused games included;
\* the gate it needs is a fair mutex, which frames and requests give back, and a
\* server that serves at all is up for a minute.
Spec == Init /\ [][Next]_vars /\ WF_vars(Commit \/ CommitFails) /\ SF_vars(Sweep)

--------------------------------------------------------------------------------
(* Properties.                                                             *)

\* A role that reads on from its cursor gets every observation committed at its
\* terminal up to the next cursor, or is told that something is missing; and
\* so it is with the records it may see, unless cleanup ran while they were read.
GapsAreTold ==
    /\ \A r \in Role : \A cursor \in 0..Numbered(r) :
           LET page == AuditPage(r, cursor)
               upto == IF page.next = 0 THEN Numbered(r) ELSE page.next
           IN  page.truncated \/ (cursor + 1)..upto \subseteq page.events
    /\ \A a \in asked :
           \/ a.truncated \/ a.late
           \/ \A i \in (a.cursor + 1)..Len(db.events) :
                  Visible(db.events[i], a.role) => i \in HistoryPage(a.role, a.cursor)

\* Not checked by a run, TLC refutes it in the instance of Audit.cfg: the same
\* without the exception.
HistoryGapsAreTold ==
    \A a \in asked :
        \/ a.truncated
        \/ \A i \in (a.cursor + 1)..Len(db.events) :
               Visible(db.events[i], a.role) => i \in HistoryPage(a.role, a.cursor)

\* A sequence number, once committed to a role, names the same observation for
\* ever, whatever failed, crashed or was forgotten since, and none is skipped.
NumbersAreNotReused ==
    \A r \in Role :
        LET given == {i \in DOMAIN db.audit : db.audit[i].numbers[r] # 0}
        IN  /\ {db.audit[i].numbers[r] : i \in given} = 1..db.heads[r]
            /\ Cardinality(given) = db.heads[r]

\* What a key is about still goes on, in the game or in the days kept.
GoesOn(key) ==
    \/ key[2] \in run.air
    \/ key[1] = "message" /\ key[2] \in run.open
    \/ \E i \in Rows(key)  : Recent(db.audit[i].day)
    \/ \E i \in Lives(key) : Recent(db.events[i].day)

\* Nothing is forgotten of a message that goes on or has its packet in the air,
\* nor of one that either archive saw in the days kept; and a body stays while
\* either archive has a row of its message.
OnlyDeadHistoryGoes ==
    [][/\ \A i \in DOMAIN db.audit :
             db.audit[i].kept /\ ~db'.audit[i].kept => ~GoesOn(db.audit[i].key)
       /\ \A i \in DOMAIN db.events :
             db.events[i].kept /\ ~db'.events[i].kept
                 => ~GoesOn(<<"message", db.events[i].message>>)
       /\ \A m \in db.bodies \ db'.bodies :
             Rows(<<"message", m>>)' = {} /\ Lives(<<"message", m>>)' = {}]_vars

\* Old history goes, sooner or later, of a game that is not failed.
Stale(key) == Rows(key) \cup Lives(key) # {} /\ Quiet(key) /\ run.air = {}

HistoryIsCleared == <>[]~failed => []<>(\A key \in Key : ~Stale(key))

================================================================================
