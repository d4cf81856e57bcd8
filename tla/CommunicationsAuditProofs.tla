---------------------- MODULE CommunicationsAuditProofs ----------------------
(***************************************************************************)
(* Theorems about CommunicationsAudit, for any roles, messages, page and   *)
(* batch sizes, retention, capacity and scenes.                            *)
(***************************************************************************)
EXTENDS CommunicationsAudit, FiniteSetTheorems, SequenceTheorems,
    WellFoundedInduction, TLAPS

Phase       == {"new", "sent", "delivered", "closed"}
Runs        == [phase : [Message -> Phase], open : SUBSET Message, air : SUBSET Message]
Numbering   == [Role -> Nat]
Observation == [key : Key, terminal : Unit \cup {Nowhere}]
AuditRow    == [key : Key, numbers : Numbering, day : Nat, kept : BOOLEAN]
Life        == [message : Message, delivered : BOOLEAN]
LifeRow     == [message : Message, delivered : BOOLEAN, day : Nat, kept : BOOLEAN]
Archive     == [run : Runs, tagged : SUBSET Message, heads : Numbering,
                audit : Seq(AuditRow), events : Seq(LifeRow), bodies : SUBSET Message,
                floors : Numbering, lifecycleFloors : Numbering]
Buffer      == [rows : Seq(Role \X Nat), floors : Numbering]
Question    == [role : Role, cursor : Nat, late : BOOLEAN, truncated : BOOLEAN]

TypeOK ==
    /\ scene \in Scenes /\ run \in Runs /\ tagged \subseteq Message
    /\ pending \in Seq(Observation) /\ lifecycle \in Seq(Life)
    /\ heads \in Numbering /\ failed \in BOOLEAN /\ db \in Archive
    /\ buffer \in Buffer /\ today \in Nat /\ asked \subseteq Question

\* A server that is up gives the numbers after those committed.
HeadsAgree == Durable /\ ~failed => heads = db.heads

\* The numbers of a role are given without gap and each to one row.
NumberedTo(audit, last, r) ==
    /\ \A i \in DOMAIN audit : audit[i].numbers[r] <= last[r]
    /\ \A n \in 1..last[r] : \E i \in DOMAIN audit : audit[i].numbers[r] = n
    /\ \A i, j \in DOMAIN audit :
           audit[i].numbers[r] # 0 /\ audit[i].numbers[r] = audit[j].numbers[r] => i = j

NumbersGiven == \A r \in Role : NumberedTo(db.audit, db.heads, r)

\* What is forgotten is below the floor of everybody who could have read it.
AuditFloored ==
    \A r \in Role : \A i \in DOMAIN db.audit :
        ~db.audit[i].kept => db.audit[i].numbers[r] <= db.floors[r]

LifeFloored ==
    \A r \in Role : \A i \in DOMAIN db.events :
        ~db.events[i].kept /\ Visible(db.events[i], r) => i <= db.lifecycleFloors[r]

\* Without a database: what is not in the buffer is below the floor.
BufferFloored ==
    ~Durable => \A r \in Role :
        /\ \A k \in DOMAIN buffer.rows :
               buffer.rows[k][1] = r => buffer.rows[k][2] <= heads[r]
        /\ \A n \in 1..heads[r] : \/ n <= buffer.floors[r]
                                  \/ \E k \in DOMAIN buffer.rows : buffer.rows[k] = <<r, n>>

\* A game that was audited from its beginning knows its packets in the air.
Correlated ==
    scene # "upgraded" => /\ db.run.air = db.tagged
                          /\ ~failed => run.air = tagged

\* While a reader is between its two queries nothing is observed, and no row it
\* must be told of is forgotten but by a cleanup.
Undisturbed ==
    /\ asked # {} => pending = <<>>
    /\ \A a \in asked :
           \/ a.truncated \/ a.late
           \/ \A i \in DOMAIN db.events :
                  i > a.cursor /\ Visible(db.events[i], a.role) => db.events[i].kept

IInv == /\ TypeOK /\ HeadsAgree /\ NumbersGiven /\ AuditFloored /\ LifeFloored
        /\ BufferFloored /\ Correlated /\ Undisturbed

--------------------------------------------------------------------------------
(* Numbers: least elements, maxima, and the order of a finite set.         *)


\* A set of natural numbers that is not empty has a least element.
LEMMA LeastElement ==
    ASSUME NEW S, S \subseteq Nat, S # {}
    PROVE  \E n \in S : \A m \in S : n <= m
<1> DEFINE R == OpToRel(<, Nat)
<1>1. IsWellFoundedOn(R, Nat)
  BY NatLessThanWellFounded
<1>2. \A m, k \in Nat : m < k => <<m, k>> \in R
  BY DEF OpToRel
<1> HIDE DEF R
<1>3. PICK n \in S : \A m \in S : ~ (<<m, n>> \in R)
  BY <1>1, WFMin
<1>4. ASSUME NEW m \in S PROVE n <= m
  <2>1. m \in Nat /\ n \in Nat
    OBVIOUS
  <2>2. ~ (m < n)
    BY <1>2, <1>3, <2>1
  <2> QED BY <2>1, <2>2
<1> QED BY <1>4

\* The maximum of a set of natural numbers with a bound.
LEMMA Maximum ==
    ASSUME NEW S, S \subseteq Nat, S # {}, NEW b \in Nat, \A y \in S : y <= b
    PROVE  Max(S) \in S /\ \A y \in S : y <= Max(S)
<1> DEFINE Upper == {n \in Nat : \A y \in S : y <= n}
<1>1. PICK u \in Upper : \A n \in Upper : u <= n
  <2>1. b \in Upper
    OBVIOUS
  <2>2. Upper \subseteq Nat /\ Upper # {}
    BY <2>1
  <2> HIDE DEF Upper
  <2> QED BY <2>2, LeastElement
<1>2. u \in Nat /\ \A y \in S : y \in Nat /\ y <= u
  BY <1>1
<1>3. u \in S
  <2> SUFFICES ASSUME u \notin S PROVE FALSE
    OBVIOUS
  <2>1. \A y \in S : y < u
    BY <1>2
  <2>2. PICK y \in S : TRUE
    OBVIOUS
  <2>3. u - 1 \in Upper
    BY <1>2, <2>1, <2>2
  <2> QED BY <1>1, <1>2, <2>3
<1>4. \E x \in S : \A y \in S : x >= y
  BY <1>2, <1>3
<1>5. Max(S) \in S /\ \A y \in S : Max(S) >= y
  BY <1>4 DEF Max
<1> QED BY <1>5

\* What raising a floor yields.
LEMMA RaisedFacts ==
    ASSUME NEW floor \in Nat, NEW b \in Nat,
           NEW removed, removed \subseteq Nat, \A y \in removed : y <= b
    PROVE  /\ Max({floor} \cup removed) \in Nat
           /\ floor <= Max({floor} \cup removed)
           /\ \A y \in removed : y <= Max({floor} \cup removed)
<1>1. PICK c \in Nat : floor <= c /\ b <= c
  <2>1. CASE floor <= b
    BY <2>1
  <2>2. CASE b <= floor
    BY <2>2
  <2> QED BY <2>1, <2>2
<1>2. PICK S : S = {floor} \cup removed
  OBVIOUS
<1>3. S \subseteq Nat /\ S # {} /\ \A y \in S : y <= c
  BY <1>1, <1>2
<1>4. Max(S) \in S /\ \A y \in S : y <= Max(S)
  BY <1>3, Maximum
<1> QED BY <1>2, <1>3, <1>4

\* The lowest members of a set: no gaps, and not none of some.
LEMMA LowestFacts ==
    ASSUME NEW S, S \subseteq Nat, NEW b \in Nat, \A y \in S : y <= b,
           NEW n \in Nat \ {0}
    PROVE  /\ Lowest(n, S) \subseteq S
           /\ \A i \in Lowest(n, S), j \in S : j <= i => j \in Lowest(n, S)
           /\ S # {} => Lowest(n, S) # {}
<1> DEFINE Below(i) == {j \in S : j < i}
<1>1. IsFiniteSet(S)
  BY FS_BoundedSetOfNaturals
<1>2. \A i \in S : IsFiniteSet(Below(i)) /\ Cardinality(Below(i)) \in Nat
  BY <1>1, FS_Subset, FS_CardinalityType
<1>3. Lowest(n, S) = {i \in S : Cardinality(Below(i)) < n}
  BY DEF Lowest
<1>4. ASSUME NEW i \in Lowest(n, S), NEW j \in S, j <= i
      PROVE  j \in Lowest(n, S)
  <2>1. i \in S
    BY <1>3
  <2>2. Below(j) \subseteq Below(i)
    <3>1. \A k \in S : k \in Nat
      OBVIOUS
    <3>2. \A k \in S : k < j => k < i
      BY <2>1, <3>1, <1>4
    <3> QED BY <3>2
  <2>3. Cardinality(Below(j)) <= Cardinality(Below(i))
    <3> HIDE DEF Below
    <3> QED BY <1>2, <2>1, <2>2, FS_Subset
  <2> QED BY <1>2, <1>3, <2>1, <2>3
<1>5. ASSUME S # {} PROVE Lowest(n, S) # {}
  <2>1. PICK i \in S : \A j \in S : i <= j
    BY <1>5, LeastElement
  <2>2. Below(i) = {}
    <3>1. \A j \in S : j \in Nat
      OBVIOUS
    <3>2. \A j \in S : ~ (j < i)
      BY <2>1, <3>1
    <3> QED BY <3>2
  <2>3. Cardinality(Below(i)) = 0
    <3> HIDE DEF Below
    <3> QED BY <2>2, FS_EmptySet
  <2> QED BY <1>3, <2>1, <2>3
<1> QED BY <1>3, <1>4, <1>5

--------------------------------------------------------------------------------
(* What audit::prepare numbers: ranks.                                      *)

\* How many of the first i events are for role r.
Seen(events, r, i) == Cardinality({j \in 1..i : events[j].terminal = At[r]})

LEMMA SeenStep ==
    ASSUME NEW events, NEW r
    PROVE  /\ \A i \in Nat : Seen(events, r, i) \in Nat
           /\ Seen(events, r, 0) = 0
           /\ \A i \in Nat \ {0} : Seen(events, r, i) =
                  IF events[i].terminal = At[r] THEN Seen(events, r, i - 1) + 1
                                                ELSE Seen(events, r, i - 1)
<1> DEFINE For(i) == {j \in 1..i : events[j].terminal = At[r]}
<1>1. \A i \in Nat : Seen(events, r, i) = Cardinality(For(i))
  BY DEF Seen
<1>2. ASSUME NEW i \in Nat PROVE IsFiniteSet(For(i)) /\ Cardinality(For(i)) \in Nat
  <2>1. IsFiniteSet(1..i) /\ For(i) \subseteq 1..i
    BY FS_Interval
  <2> HIDE DEF For
  <2> QED BY <2>1, FS_Subset, FS_CardinalityType
<1>3. Cardinality(For(0)) = 0
  <2>1. For(0) = {}
    OBVIOUS
  <2> HIDE DEF For
  <2> QED BY <2>1, FS_EmptySet
<1>4. ASSUME NEW i \in Nat \ {0}
      PROVE  Cardinality(For(i)) = IF events[i].terminal = At[r]
                                   THEN Cardinality(For(i - 1)) + 1
                                   ELSE Cardinality(For(i - 1))
  <2>1. CASE events[i].terminal = At[r]
    <3>1. For(i) = For(i - 1) \cup {i} /\ i \notin For(i - 1)
      BY <2>1
    <3>2. IsFiniteSet(For(i - 1))
      BY <1>2
    <3> HIDE DEF For
    <3> QED BY <2>1, <3>1, <3>2, FS_AddElement
  <2>2. CASE events[i].terminal # At[r]
    <3>1. For(i) = For(i - 1)
      BY <2>2
    <3> HIDE DEF For
    <3> QED BY <2>2, <3>1
  <2> QED BY <2>1, <2>2
<1> HIDE DEF For
<1> QED BY <1>1, <1>2, <1>3, <1>4

LEMMA SeenGrows ==
    ASSUME NEW events, NEW r, NEW i \in Nat, NEW k \in Nat, i <= k
    PROVE  Seen(events, r, i) <= Seen(events, r, k)
<1> DEFINE For(n) == {j \in 1..n : events[j].terminal = At[r]}
<1>1. For(i) \subseteq For(k)
  <2>1. 1..i \subseteq 1..k
    OBVIOUS
  <2> QED BY <2>1
<1>2. IsFiniteSet(For(k))
  <2>1. IsFiniteSet(1..k) /\ For(k) \subseteq 1..k
    BY FS_Interval
  <2> HIDE DEF For
  <2> QED BY <2>1, FS_Subset
<1>3. Seen(events, r, i) = Cardinality(For(i)) /\ Seen(events, r, k) = Cardinality(For(k))
  BY DEF Seen
<1> HIDE DEF For
<1> QED BY <1>1, <1>2, <1>3, FS_Subset

\* Two events of one role have different ranks.
LEMMA RanksDiffer ==
    ASSUME NEW events, NEW r, NEW i \in Nat \ {0}, NEW k \in Nat \ {0}, i < k,
           events[k].terminal = At[r]
    PROVE  Seen(events, r, i) < Seen(events, r, k)
<1>1. Seen(events, r, i) <= Seen(events, r, k - 1)
  BY SeenGrows
<1>2. /\ Seen(events, r, k) = Seen(events, r, k - 1) + 1
      /\ Seen(events, r, i) \in Nat /\ Seen(events, r, k - 1) \in Nat
  <2>1. k - 1 \in Nat /\ i \in Nat /\ k \in Nat \ {0}
    OBVIOUS
  <2> QED BY <2>1, SeenStep
<1> QED BY <1>1, <1>2

\* No rank is left out: the first event by which n were seen is the n-th.
LEMMA RanksFill ==
    ASSUME NEW events, NEW r, NEW last \in Nat, NEW n \in 1..Seen(events, r, last)
    PROVE  \E i \in 1..last : events[i].terminal = At[r] /\ Seen(events, r, i) = n
<1> DEFINE Enough == {i \in Nat : n <= Seen(events, r, i)}
<1>1. PICK i \in Enough : \A k \in Enough : i <= k
  <2>1. last \in Enough
    OBVIOUS
  <2>2. Enough \subseteq Nat /\ Enough # {}
    BY <2>1
  <2> HIDE DEF Enough
  <2> QED BY <2>2, LeastElement
<1>2. n \in Nat /\ n > 0
  BY SeenStep
<1>3. i # 0 /\ i \in Nat
  BY <1>1, <1>2, SeenStep
<1>4. i <= last
  <2>1. last \in Enough
    OBVIOUS
  <2> HIDE DEF Enough
  <2> QED BY <1>1, <2>1
<1>5. i - 1 \notin Enough
  BY <1>1, <1>3
<1>6. /\ Seen(events, r, i) \in Nat /\ Seen(events, r, i - 1) \in Nat
      /\ Seen(events, r, i) = IF events[i].terminal = At[r]
                              THEN Seen(events, r, i - 1) + 1
                              ELSE Seen(events, r, i - 1)
  <2>1. i - 1 \in Nat /\ i \in Nat \ {0}
    BY <1>3
  <2> QED BY <2>1, SeenStep
<1>7. n <= Seen(events, r, i) /\ ~ (n <= Seen(events, r, i - 1))
  BY <1>1, <1>3, <1>5
<1>8. events[i].terminal = At[r] /\ Seen(events, r, i) = n
  BY <1>2, <1>6, <1>7
<1>9. i \in 1..last
  BY <1>3, <1>4
<1> QED BY <1>8, <1>9

--------------------------------------------------------------------------------
(* Sequences: a set laid out, and a sequence of sequences joined.          *)

LEMMA LaidOut ==
    ASSUME NEW S, IsFiniteSet(S)
    PROVE  /\ SetToSeq(S) \in Seq(S)
           /\ \A x \in S : \E k \in 1..Len(SetToSeq(S)) : SetToSeq(S)[k] = x
<1>1. Cardinality(S) \in Nat /\ ExistsBijection(1..Cardinality(S), S)
  BY FS_CardinalityType
<1>2. PICK n \in Nat : n = Cardinality(S)
  BY <1>1
<1>3. \E f \in [1..n -> S] : IsInjective(f)
  BY <1>1, <1>2 DEF ExistsBijection, Bijection, Injection
<1>4. PICK f : f = SetToSeq(S)
  OBVIOUS
<1>5. f \in [1..n -> S] /\ IsInjective(f)
  BY <1>2, <1>3, <1>4 DEF SetToSeq
<1>6. f \in Injection(1..n, S)
  BY <1>5 DEF Injection
<1>7. Cardinality(1..n) = Cardinality(S) /\ IsFiniteSet(1..n)
  BY <1>2, FS_Interval
<1>8. f \in Surjection(1..n, S)
  BY <1>6, <1>7, FS_Injection
<1>9. f \in Seq(S) /\ Len(f) = n
  BY <1>5
<1> QED BY <1>4, <1>8, <1>9 DEF Surjection

\* The joined prefixes of a sequence of sequences.
Joins(ss, n, X) == {f \in [1..n -> Seq(X)] :
    \A i \in 1..n : f[i] = IF i = 1 THEN ss[i] ELSE f[i - 1] \o ss[i]}

\* They exist, by the least prefix that has none.
LEMMA JoinsExist ==
    ASSUME NEW X, NEW ss \in Seq(Seq(X)), NEW n \in 1..Len(ss)
    PROVE  Joins(ss, n, X) # {}
<1> DEFINE Without == {i \in 1..Len(ss) : Joins(ss, i, X) = {}}
<1> SUFFICES ASSUME Without # {} PROVE FALSE
  OBVIOUS
<1>1. PICK m \in Without : \A i \in Without : m <= i
  <2>1. Without \subseteq Nat
    OBVIOUS
  <2> HIDE DEF Without
  <2> QED BY <2>1, LeastElement
<1>2. m \in 1..Len(ss) /\ Joins(ss, m, X) = {}
  BY <1>1
<1>3. ss[m] \in Seq(X)
  BY <1>2
<1>4. CASE m = 1
  <2>1. PICK f : f = [i \in 1..1 |-> ss[1]]
    OBVIOUS
  <2>2. f \in Joins(ss, 1, X)
    BY <1>3, <1>4, <2>1 DEF Joins
  <2> QED BY <1>2, <1>4, <2>2
<1>5. CASE m # 1
  <2>1. m - 1 \in 1..Len(ss) /\ ~ (m <= m - 1)
    BY <1>2, <1>5
  <2>2. Joins(ss, m - 1, X) # {}
    BY <1>1, <2>1
  <2>3. PICK f \in [1..(m - 1) -> Seq(X)] :
            \A i \in 1..(m - 1) : f[i] = IF i = 1 THEN ss[i] ELSE f[i - 1] \o ss[i]
    BY <2>2 DEF Joins
  <2>4. PICK g : g = [i \in 1..m |-> IF i = m THEN f[m - 1] \o ss[m] ELSE f[i]]
    OBVIOUS
  <2>5. f[m - 1] \in Seq(X)
    BY <2>1, <2>3
  <2>6. f[m - 1] \o ss[m] \in Seq(X)
    BY <1>3, <2>5
  <2>7. \A i \in 1..m : i # m => i \in 1..(m - 1) /\ g[i] = f[i]
    BY <1>2, <2>4
  <2>8. g \in [1..m -> Seq(X)]
    BY <2>4, <2>6, <2>7
  <2>9. ASSUME NEW i \in 1..m
        PROVE  g[i] = IF i = 1 THEN ss[i] ELSE g[i - 1] \o ss[i]
    <3>1. CASE i = m
      <4>1. g[m] = f[m - 1] \o ss[m]
        <5>1. m \in 1..m
          BY <1>2
        <5> QED BY <2>4, <5>1
      <4>2. g[m - 1] = f[m - 1]
        BY <1>2, <2>1, <2>7
      <4> QED BY <1>5, <3>1, <4>1, <4>2
    <3>2. CASE i # m
      <4>1. i \in 1..(m - 1) /\ g[i] = f[i]
        BY <3>2, <2>7
      <4>2. f[i] = IF i = 1 THEN ss[i] ELSE f[i - 1] \o ss[i]
        BY <2>3, <4>1
      <4>3. i # 1 => g[i - 1] = f[i - 1]
        <5> SUFFICES ASSUME i # 1 PROVE g[i - 1] = f[i - 1]
          OBVIOUS
        <5>1. i - 1 \in 1..m /\ i - 1 # m
          BY <1>2
        <5> QED BY <2>7, <5>1
      <4> QED BY <4>1, <4>2, <4>3
    <3> QED BY <3>1, <3>2
  <2>10. g \in Joins(ss, m, X)
    BY <2>8, <2>9 DEF Joins
  <2> QED BY <1>2, <2>10
<1> QED BY <1>4, <1>5

LEMMA Appended ==
    ASSUME NEW X, NEW s \in Seq(X), NEW t \in Seq(X), NEW q, q = s \o t
    PROVE  /\ Len(s) \in Nat /\ Len(t) \in Nat
           /\ q \in Seq(X) /\ Len(q) = Len(s) + Len(t)
           /\ \A k \in 1..Len(s) : k \in 1..Len(q) /\ q[k] = s[k]
           /\ \A k \in 1..Len(t) : Len(s) + k \in 1..Len(q) /\ q[Len(s) + k] = t[k]
<1>1. Len(s) \in Nat /\ Len(t) \in Nat
  OBVIOUS
<1>2. /\ q \in Seq(X) /\ Len(q) = Len(s) + Len(t)
      /\ \A k \in 1..(Len(s) + Len(t)) :
             q[k] = IF k <= Len(s) THEN s[k] ELSE t[k - Len(s)]
  BY ConcatProperties
<1>3. ASSUME NEW k \in 1..Len(s) PROVE k \in 1..Len(q) /\ q[k] = s[k]
  BY <1>1, <1>2
<1>4. ASSUME NEW k \in 1..Len(t) PROVE Len(s) + k \in 1..Len(q) /\ q[Len(s) + k] = t[k]
  <2>1. PICK m \in Nat, n \in Nat : m = Len(s) /\ n = Len(t)
    BY <1>1
  <2>2. m + k \in 1..(m + n) /\ ~ (m + k <= m) /\ m + k - m = k
    BY ONLY <2>1, <1>4
  <2> QED BY <1>2, <2>1, <2>2
<1> QED BY <1>1, <1>2, <1>3, <1>4

\* Whatever is in one of the sequences is in the joined one, and nothing else.
LEMMA Joined ==
    ASSUME NEW X, NEW ss \in Seq(Seq(X)), Len(ss) > 0
    PROVE  /\ FlattenSeq(ss) \in Seq(X)
           /\ \A i \in 1..Len(ss) : \A k \in 1..Len(ss[i]) :
                  \E m \in 1..Len(FlattenSeq(ss)) : FlattenSeq(ss)[m] = ss[i][k]
<1>1. PICK last \in Nat : last = Len(ss) /\ last \in 1..last
  OBVIOUS
<1>2. PICK h \in [1..last -> Seq(X)] :
          \A i \in 1..last : h[i] = IF i = 1 THEN ss[i] ELSE h[i - 1] \o ss[i]
  <2>1. Joins(ss, last, X) # {}
    BY <1>1, JoinsExist
  <2> QED BY <2>1 DEF Joins
<1>3. h = [i \in 1..last |-> IF i = 1 THEN ss[i] ELSE h[i - 1] \o ss[i]]
  BY <1>2
<1>4. PICK g : g = CHOOSE f : f = [i \in 1..last |-> IF i = 1 THEN ss[i] ELSE f[i - 1] \o ss[i]]
  OBVIOUS
<1>5. g = [i \in 1..last |-> IF i = 1 THEN ss[i] ELSE g[i - 1] \o ss[i]]
  BY <1>3, <1>4
<1>6. FlattenSeq(ss) = g[last]
  BY <1>1, <1>4 DEF FlattenSeq
<1>7. \A i \in 1..last : ss[i] \in Seq(X)
  BY <1>1
<1> DEFINE Holds(s, i) == \A k \in 1..Len(ss[i]) : \E m \in 1..Len(s) : s[m] = ss[i][k]
           Fine == {n \in 1..last : g[n] \in Seq(X) /\ \A i \in 1..n : Holds(g[n], i)}
           Odd == (1..last) \ Fine
<1>8. Odd = {}
  <2> SUFFICES ASSUME Odd # {} PROVE FALSE
    OBVIOUS
  <2>1. PICK n \in Odd : \A i \in Odd : n <= i
    <3>1. Odd \subseteq Nat
      OBVIOUS
    <3> HIDE DEF Odd
    <3> QED BY <3>1, LeastElement
  <2>2. n \in 1..last /\ ss[n] \in Seq(X)
    BY <1>7, <2>1
  <2>3. g[n] = IF n = 1 THEN ss[n] ELSE g[n - 1] \o ss[n]
    BY <1>5, <2>2
  <2>4. CASE n = 1
    <3>1. g[n] = ss[n]
      BY <2>3, <2>4
    <3>2. Holds(g[n], n)
      BY <3>1
    <3>3. \A i \in 1..n : i = n
      BY <2>4
    <3> HIDE DEF Holds
    <3>4. g[n] \in Seq(X) /\ \A i \in 1..n : Holds(g[n], i)
      BY <2>2, <3>1, <3>2, <3>3
    <3> QED BY <2>1, <3>4
  <2>5. CASE n # 1
    <3>1. n - 1 \in 1..last /\ ~ (n <= n - 1)
      BY <2>2, <2>5
    <3>2. n - 1 \notin Odd
      BY <2>1, <3>1
    <3>3. g[n - 1] \in Seq(X) /\ \A i \in 1..(n - 1) : Holds(g[n - 1], i)
      BY <3>1, <3>2
    <3>4. PICK s \in Seq(X), t \in Seq(X) :
              /\ s = g[n - 1] /\ t = ss[n] /\ g[n] = s \o t
      BY <2>2, <2>3, <2>5, <3>3
    <3> HIDE DEF Odd, Fine
    <3>5. PICK q : q = g[n]
      OBVIOUS
    <3>6. /\ q \in Seq(X)
          /\ \A k \in 1..Len(s) : k \in 1..Len(q) /\ q[k] = s[k]
          /\ \A k \in 1..Len(t) : Len(s) + k \in 1..Len(q) /\ q[Len(s) + k] = t[k]
      <4>1. s \in Seq(X) /\ t \in Seq(X) /\ q = s \o t
        BY <3>4, <3>5
      <4> QED BY ONLY <4>1, Appended
    <3>7. ASSUME NEW i \in 1..n PROVE Holds(q, i)
      <4>1. CASE i = n
        BY <3>4, <3>6, <4>1
      <4>2. CASE i # n
        <5>1. i \in 1..(n - 1)
          BY <2>2, <4>2
        <5>2. Holds(s, i)
          BY <3>3, <3>4, <5>1
        <5> QED BY <3>6, <5>2
      <4> QED BY <4>1, <4>2
    <3> USE DEF Odd, Fine
    <3> HIDE DEF Holds
    <3> QED BY <2>1, <3>5, <3>6, <3>7
  <2> QED BY <2>4, <2>5
<1>9. last \in Fine
  <2> HIDE DEF Fine
  <2> QED BY <1>1, <1>8
<1>10. g[last] \in Seq(X) /\ \A i \in 1..last : Holds(g[last], i)
  BY <1>9
<1>11. PICK joined : joined = g[last]
  OBVIOUS
<1>12. /\ joined \in Seq(X)
       /\ \A i \in 1..last : \A k \in 1..Len(ss[i]) :
              \E m \in 1..Len(joined) : joined[m] = ss[i][k]
  BY <1>10, <1>11
<1>13. Len(ss) = last /\ FlattenSeq(ss) = joined
  BY <1>1, <1>6, <1>11
<1> QED BY ONLY <1>12, <1>13

--------------------------------------------------------------------------------
(* Observing and committing.                                               *)

LEMMA ConstantFacts ==
    /\ \A r \in Role : At[r] \in Unit
    /\ \A m \in Message : From[m] \in Unit /\ To[m] \in Unit
    /\ Days \in Nat /\ Batch \in Nat \ {0} /\ Limit \in Nat \ {0} /\ Capacity \in Nat \ {0}
    /\ Late \subseteq Message /\ IsFiniteSet(Role) /\ IsFiniteSet(Late)
  BY AuditAssumption

LEMMA KeyFacts ==
    /\ \A m \in Message : <<"message", m>> \in Key /\ <<"packet", m>> \in Key
    /\ \A m \in Message : KeyOf(m) \in Key
    /\ \A key \in Key : \E m \in Message : key = <<"message", m>> \/ key = <<"packet", m>>
  BY DEF Key, KeyOf

\* audit::prepare, by ranks.
LEMMA Prepared ==
    ASSUME heads \in Numbering, pending \in Seq(Observation),
           NEW q, q = Prepare(pending), NEW last \in Nat, last = Len(pending)
    PROVE  /\ q.heads \in Numbering /\ q.numbers \in [1..last -> Numbering]
           /\ \A r \in Role : q.heads[r] = heads[r] + Seen(pending, r, last)
           /\ \A r \in Role : \A i \in 1..last : q.numbers[i][r] =
                  IF pending[i].terminal = At[r] THEN heads[r] + Seen(pending, r, i) ELSE 0
<1>1. DOMAIN pending = 1..last
  OBVIOUS
<1>2. q = [numbers |-> [i \in 1..last |-> [r \in Role |->
               IF pending[i].terminal = At[r] THEN heads[r] + Seen(pending, r, i) ELSE 0]],
           heads |-> [r \in Role |-> heads[r] + Seen(pending, r, last)]]
  BY <1>1 DEF Prepare, Seen
<1>3. /\ \A r \in Role : heads[r] + Seen(pending, r, last) \in Nat
      /\ \A r \in Role, i \in 1..last : heads[r] + Seen(pending, r, i) \in Nat
  <2>1. \A r \in Role : heads[r] \in Nat
    BY DEF Numbering
  <2>2. \A r \in Role : Seen(pending, r, last) \in Nat
    BY SeenStep
  <2>3. \A r \in Role, i \in 1..last : Seen(pending, r, i) \in Nat
    <3> TAKE r \in Role, i \in 1..last
    <3>1. i \in Nat
      OBVIOUS
    <3> QED BY <3>1, SeenStep
  <2> QED BY <2>1, <2>2, <2>3
<1>4. q.heads = [r \in Role |-> heads[r] + Seen(pending, r, last)]
  BY <1>2
<1>5. q.numbers = [i \in 1..last |-> [r \in Role |->
          IF pending[i].terminal = At[r] THEN heads[r] + Seen(pending, r, i) ELSE 0]]
  BY <1>2
<1>6. q.heads \in Numbering
  BY <1>3, <1>4 DEF Numbering
<1>7. q.numbers \in [1..last -> Numbering]
  BY <1>3, <1>5 DEF Numbering
<1> QED BY <1>4, <1>5, <1>6, <1>7

\* Every role is given the numbers after its head, each to one observation.
LEMMA PrepareGives ==
    ASSUME heads \in Numbering, pending \in Seq(Observation),
           NEW q, q = Prepare(pending), NEW r \in Role,
           NEW last \in Nat, last = Len(pending)
    PROVE  /\ heads[r] <= q.heads[r]
           /\ \A i \in 1..last : /\ q.numbers[i][r] <= q.heads[r]
                                 /\ q.numbers[i][r] # 0 => heads[r] < q.numbers[i][r]
           /\ \A n \in Nat : heads[r] < n /\ n <= q.heads[r] =>
                  \E i \in 1..last : pending[i].terminal = At[r] /\ q.numbers[i][r] = n
           /\ \A i, j \in 1..last :
                  q.numbers[i][r] # 0 /\ q.numbers[i][r] = q.numbers[j][r] => i = j
<1>1. /\ q.heads[r] = heads[r] + Seen(pending, r, last)
      /\ \A i \in 1..last : q.numbers[i][r] =
             IF pending[i].terminal = At[r] THEN heads[r] + Seen(pending, r, i) ELSE 0
  BY Prepared
<1>2. heads[r] \in Nat /\ Seen(pending, r, last) \in Nat
  BY SeenStep DEF Numbering
<1>3. \A i \in 1..last : /\ Seen(pending, r, i) \in Nat
                         /\ Seen(pending, r, i) <= Seen(pending, r, last)
  <2> TAKE i \in 1..last
  <2>1. i \in Nat /\ i <= last
    OBVIOUS
  <2>2. Seen(pending, r, i) <= Seen(pending, r, last)
    BY <2>1, SeenGrows
  <2> QED BY <2>1, <2>2, SeenStep
<1>4. ASSUME NEW i \in 1..last, pending[i].terminal = At[r]
      PROVE  Seen(pending, r, i) > 0
  <2>1. i - 1 \in Nat /\ i \in Nat \ {0}
    OBVIOUS
  <2>2. /\ Seen(pending, r, i) = Seen(pending, r, i - 1) + 1
        /\ Seen(pending, r, i - 1) \in Nat
    BY <1>4, <2>1, SeenStep
  <2> QED BY <2>2
<1>5. ASSUME NEW i \in 1..last
      PROVE  /\ q.numbers[i][r] <= q.heads[r]
             /\ q.numbers[i][r] # 0 => heads[r] < q.numbers[i][r]
  BY <1>1, <1>2, <1>3, <1>4
<1>6. ASSUME NEW n \in Nat, heads[r] < n, n <= q.heads[r]
      PROVE  \E i \in 1..last : pending[i].terminal = At[r] /\ q.numbers[i][r] = n
  <2>1. n - heads[r] \in 1..Seen(pending, r, last)
    BY <1>1, <1>2, <1>6
  <2>2. PICK i \in 1..last : /\ pending[i].terminal = At[r]
                             /\ Seen(pending, r, i) = n - heads[r]
    BY <2>1, RanksFill
  <2> QED BY <1>1, <1>2, <2>2
<1>7. ASSUME NEW i \in 1..last, NEW j \in 1..last,
             q.numbers[i][r] # 0, q.numbers[i][r] = q.numbers[j][r]
      PROVE  i = j
  <2>1. pending[i].terminal = At[r] /\ pending[j].terminal = At[r]
    BY <1>1, <1>7
  <2>2. Seen(pending, r, i) = Seen(pending, r, j)
    BY <1>1, <1>2, <1>3, <1>7, <2>1
  <2>3. ~ (i < j)
    BY <1>3, <2>1, <2>2, RanksDiffer
  <2>4. ~ (j < i)
    BY <1>3, <2>1, <2>2, RanksDiffer
  <2> QED BY <2>3, <2>4
<1> QED BY <1>1, <1>2, <1>5, <1>6, <1>7

\* Rows put behind those there are.
LEMMA Behind ==
    ASSUME NEW X, NEW s \in Seq(X), NEW t \in Seq(X)
    PROVE  /\ s \o t \in Seq(X) /\ DOMAIN (s \o t) = 1..(Len(s) + Len(t))
           /\ DOMAIN s = 1..Len(s) /\ Len(s) \in Nat /\ Len(t) \in Nat
           /\ \A i \in DOMAIN s : i \in DOMAIN (s \o t) /\ (s \o t)[i] = s[i]
           /\ \A i \in DOMAIN (s \o t) \ DOMAIN s :
                  i - Len(s) \in DOMAIN t /\ (s \o t)[i] = t[i - Len(s)]
           /\ \A i \in DOMAIN t :
                  Len(s) + i \in DOMAIN (s \o t) /\ (s \o t)[Len(s) + i] = t[i]
<1>1. PICK q : q = s \o t
  OBVIOUS
<1>2. PICK m \in Nat, n \in Nat : m = Len(s) /\ n = Len(t)
  OBVIOUS
<1>3. /\ q \in Seq(X) /\ Len(q) = m + n
      /\ \A i \in 1..(m + n) : q[i] = IF i <= m THEN s[i] ELSE t[i - m]
  BY <1>1, <1>2, ConcatProperties
<1>4. DOMAIN s = 1..m /\ DOMAIN t = 1..n /\ DOMAIN q = 1..(m + n)
  BY <1>2, <1>3
<1>5. \A i \in 1..m : i \in 1..(m + n) /\ q[i] = s[i]
  BY <1>3
<1>6. \A i \in (1..(m + n)) \ (1..m) : i - m \in 1..n /\ q[i] = t[i - m]
  BY <1>3
<1>7. ASSUME NEW i \in 1..n PROVE m + i \in 1..(m + n) /\ q[m + i] = t[i]
  <2>1. m + i \in 1..(m + n) /\ ~ (m + i <= m) /\ m + i - m = i
    OBVIOUS
  <2> QED BY <1>3, <2>1
<1> QED BY <1>1, <1>2, <1>3, <1>4, <1>5, <1>6, <1>7

\* The rows of a boundary carry the numbers on.
LEMMA NumberedOn ==
    ASSUME NEW audit \in Seq(AuditRow), NEW rows \in Seq(AuditRow),
           NEW last \in Numbering, NEW next \in Numbering, NEW r \in Role,
           NumberedTo(audit, last, r), last[r] <= next[r],
           \A i \in DOMAIN rows : /\ rows[i].numbers[r] <= next[r]
                                  /\ rows[i].numbers[r] # 0 => last[r] < rows[i].numbers[r],
           \A n \in Nat : last[r] < n /\ n <= next[r] =>
               \E i \in DOMAIN rows : rows[i].numbers[r] = n,
           \A i, j \in DOMAIN rows :
               rows[i].numbers[r] # 0 /\ rows[i].numbers[r] = rows[j].numbers[r] => i = j
    PROVE  NumberedTo(audit \o rows, next, r)
<1>1. PICK all : all = audit \o rows
  OBVIOUS
<1>2. PICK m \in Nat : m = Len(audit)
  OBVIOUS
<1>3. /\ all \in Seq(AuditRow)
      /\ \A i \in DOMAIN audit : i \in DOMAIN all /\ all[i] = audit[i]
      /\ \A i \in DOMAIN all \ DOMAIN audit : i - m \in DOMAIN rows /\ all[i] = rows[i - m]
      /\ \A i \in DOMAIN rows : m + i \in DOMAIN all /\ all[m + i] = rows[i]
  BY <1>1, <1>2, Behind
<1>4. /\ last[r] \in Nat /\ next[r] \in Nat
      /\ \A i \in DOMAIN audit : audit[i].numbers[r] \in Nat
      /\ \A i \in DOMAIN rows : rows[i].numbers[r] \in Nat
  <2>1. last[r] \in Nat /\ next[r] \in Nat
    BY DEF Numbering
  <2>2. \A row \in AuditRow : row.numbers[r] \in Nat
    BY DEF AuditRow, Numbering
  <2>3. /\ \A i \in DOMAIN audit : audit[i] \in AuditRow
        /\ \A i \in DOMAIN rows : rows[i] \in AuditRow
    OBVIOUS
  <2> QED BY <2>1, <2>2, <2>3
<1>5. /\ \A i \in DOMAIN audit : audit[i].numbers[r] <= last[r]
      /\ \A n \in 1..last[r] : \E i \in DOMAIN audit : audit[i].numbers[r] = n
      /\ \A i, j \in DOMAIN audit :
             audit[i].numbers[r] # 0 /\ audit[i].numbers[r] = audit[j].numbers[r] => i = j
  BY DEF NumberedTo
<1>6. ASSUME NEW i \in DOMAIN all PROVE all[i].numbers[r] <= next[r]
  <2>1. CASE i \in DOMAIN audit
    BY <1>3, <1>4, <1>5, <2>1
  <2>2. CASE i \notin DOMAIN audit
    BY <1>3, <2>2
  <2> QED BY <2>1, <2>2
<1>7. ASSUME NEW n \in 1..next[r] PROVE \E i \in DOMAIN all : all[i].numbers[r] = n
  <2>1. CASE n <= last[r]
    <3>1. n \in 1..last[r]
      BY <1>4, <2>1
    <3>2. PICK i \in DOMAIN audit : audit[i].numbers[r] = n
      BY <1>5, <3>1
    <3> QED BY <1>3, <3>2
  <2>2. CASE last[r] < n
    <3>1. n \in Nat /\ n <= next[r]
      BY <1>4
    <3>2. PICK i \in DOMAIN rows : rows[i].numbers[r] = n
      BY <2>2, <3>1
    <3> QED BY <1>3, <3>2
  <2> QED BY <1>4, <2>1, <2>2
<1>8. ASSUME NEW i \in DOMAIN all, NEW j \in DOMAIN all,
             all[i].numbers[r] # 0, all[i].numbers[r] = all[j].numbers[r]
      PROVE  i = j
  <2>1. CASE i \in DOMAIN audit /\ j \in DOMAIN audit
    BY <1>3, <1>5, <1>8, <2>1
  <2>2. CASE i \in DOMAIN audit /\ j \notin DOMAIN audit
    <3>1. j - m \in DOMAIN rows /\ all[j] = rows[j - m] /\ all[i] = audit[i]
      BY <1>3, <2>2
    <3>2. audit[i].numbers[r] <= last[r] /\ last[r] < rows[j - m].numbers[r]
      BY <1>5, <1>8, <2>2, <3>1
    <3> QED BY <1>4, <1>8, <2>2, <3>1, <3>2
  <2>3. CASE i \notin DOMAIN audit /\ j \in DOMAIN audit
    <3>1. i - m \in DOMAIN rows /\ all[i] = rows[i - m] /\ all[j] = audit[j]
      BY <1>3, <2>3
    <3>2. audit[j].numbers[r] <= last[r] /\ last[r] < rows[i - m].numbers[r]
      BY <1>5, <1>8, <2>3, <3>1
    <3> QED BY <1>4, <1>8, <2>3, <3>1, <3>2
  <2>4. CASE i \notin DOMAIN audit /\ j \notin DOMAIN audit
    <3>1. /\ i - m \in DOMAIN rows /\ all[i] = rows[i - m]
          /\ j - m \in DOMAIN rows /\ all[j] = rows[j - m]
      BY <1>3, <2>4
    <3>2. i - m = j - m
      BY <1>8, <3>1
    <3>3. i \in Int /\ j \in Int
      BY <1>3
    <3> QED BY <3>2, <3>3
  <2> QED BY <2>1, <2>2, <2>3, <2>4
<1> QED BY <1>1, <1>6, <1>7, <1>8 DEF NumberedTo

\* The archive's parts.
LEMMA ArchiveFacts ==
    ASSUME NEW a \in Archive
    PROVE  /\ a.run \in Runs /\ a.tagged \subseteq Message /\ a.heads \in Numbering
           /\ a.audit \in Seq(AuditRow) /\ a.events \in Seq(LifeRow)
           /\ a.bodies \subseteq Message
           /\ a.floors \in Numbering /\ a.lifecycleFloors \in Numbering
  BY DEF Archive

\* Where a boundary is committed: what the archive is then.
LEMMA StoredFacts ==
    ASSUME TypeOK
    PROVE  /\ Stored \in Archive
           /\ Stored.run = run /\ Stored.tagged = tagged
           /\ Stored.heads = Prepare(pending).heads
           /\ Stored.audit = db.audit \o AuditRecords(Prepare(pending))
           /\ Stored.events = db.events \o LifecycleRecords
           /\ Stored.bodies = db.bodies \cup Bodies
           /\ Stored.floors = db.floors /\ Stored.lifecycleFloors = db.lifecycleFloors
           /\ AuditRecords(Prepare(pending)) \in Seq(AuditRow)
           /\ LifecycleRecords \in Seq(LifeRow)
<1>1. PICK q : q = Prepare(pending)
  OBVIOUS
<1>2. PICK last \in Nat : last = Len(pending) /\ DOMAIN pending = 1..last
  BY DEF TypeOK
<1>3. /\ heads \in Numbering /\ pending \in Seq(Observation) /\ lifecycle \in Seq(Life)
      /\ db \in Archive /\ run \in Runs /\ tagged \subseteq Message /\ today \in Nat
  BY DEF TypeOK
<1>4. q.heads \in Numbering /\ q.numbers \in [1..last -> Numbering]
  BY <1>1, <1>2, <1>3, Prepared
<1>5. PICK rows : rows = AuditRecords(q)
  OBVIOUS
<1>6. rows \in Seq(AuditRow)
  <2>1. \A i \in 1..last : pending[i].key \in Key
    <3>1. \A i \in 1..last : pending[i] \in Observation
      BY <1>2, <1>3
    <3> QED BY <3>1 DEF Observation
  <2>2. rows = [i \in 1..last |-> [key |-> pending[i].key, numbers |-> q.numbers[i],
                                   day |-> today, kept |-> TRUE]]
    BY <1>2, <1>5 DEF AuditRecords
  <2>3. \A i \in 1..last : rows[i] \in AuditRow
    BY <1>3, <1>4, <2>1, <2>2 DEF AuditRow
  <2> QED BY <2>2, <2>3
<1>7. LifecycleRecords \in Seq(LifeRow)
  <2>1. PICK n \in Nat : n = Len(lifecycle) /\ DOMAIN lifecycle = 1..n
    BY <1>3
  <2>2. \A i \in 1..n : lifecycle[i].message \in Message /\ lifecycle[i].delivered \in BOOLEAN
    <3>1. \A i \in 1..n : lifecycle[i] \in Life
      BY <1>3, <2>1
    <3> QED BY <3>1 DEF Life
  <2>3. LifecycleRecords =
            [i \in 1..n |-> [message |-> lifecycle[i].message,
                             delivered |-> lifecycle[i].delivered,
                             day |-> today, kept |-> TRUE]]
    BY <2>1 DEF LifecycleRecords
  <2>4. \A i \in 1..n : LifecycleRecords[i] \in LifeRow
    BY <1>3, <2>2, <2>3 DEF LifeRow
  <2> QED BY <2>3, <2>4
<1>8. Bodies \subseteq Message
  <2>1. \A i \in DOMAIN lifecycle : lifecycle[i] \in Life
    BY <1>3
  <2>2. \A i \in DOMAIN lifecycle : lifecycle[i].message \in Message
    BY <2>1 DEF Life
  <2> QED BY <2>2 DEF Bodies
<1>9. PICK lives : lives = LifecycleRecords
  OBVIOUS
<1>10. PICK bodies : bodies = Bodies
  OBVIOUS
<1>11. Stored = [db EXCEPT !.run = run, !.tagged = tagged, !.heads = q.heads,
                           !.audit = @ \o rows, !.events = @ \o lives,
                           !.bodies = @ \cup bodies]
  BY <1>1, <1>5, <1>9, <1>10 DEF Stored
<1>12. db.audit \o rows \in Seq(AuditRow) /\ db.events \o lives \in Seq(LifeRow)
  <2>1. db.audit \in Seq(AuditRow) /\ db.events \in Seq(LifeRow)
    BY <1>3, ArchiveFacts
  <2> QED BY <1>6, <1>7, <1>9, <2>1, ConcatProperties
<1>13. PICK audit, events : audit = db.audit \o rows /\ events = db.events \o lives
  OBVIOUS
<1>14. Stored = [db EXCEPT !.run = run, !.tagged = tagged, !.heads = q.heads,
                           !.audit = audit, !.events = events,
                           !.bodies = @ \cup bodies]
  BY <1>3, <1>11, <1>13 DEF Archive
<1>15. Stored \in Archive
  BY <1>3, <1>4, <1>8, <1>10, <1>12, <1>13, <1>14 DEF Archive
<1>16. /\ Stored.run = run /\ Stored.tagged = tagged /\ Stored.heads = q.heads
       /\ Stored.audit = audit /\ Stored.events = events
       /\ Stored.bodies = db.bodies \cup bodies
       /\ Stored.floors = db.floors /\ Stored.lifecycleFloors = db.lifecycleFloors
  BY <1>3, <1>14 DEF Archive
<1> QED BY <1>1, <1>5, <1>6, <1>7, <1>9, <1>10, <1>13, <1>15, <1>16

\* A commit carries the numbers on.
LEMMA StoredNumbers ==
    ASSUME TypeOK, NumbersGiven, heads = db.heads, NEW r \in Role
    PROVE  NumberedTo(Stored.audit, Stored.heads, r)
<1>1. PICK q, rows : q = Prepare(pending) /\ rows = AuditRecords(q)
  OBVIOUS
<1>2. PICK last \in Nat : last = Len(pending) /\ DOMAIN pending = 1..last
  BY DEF TypeOK
<1>3. /\ heads \in Numbering /\ pending \in Seq(Observation)
      /\ db.audit \in Seq(AuditRow) /\ db.heads \in Numbering
  BY ArchiveFacts DEF TypeOK
<1>4. Stored.audit = db.audit \o rows /\ Stored.heads = q.heads /\ rows \in Seq(AuditRow)
  BY <1>1, StoredFacts
<1>5. q.heads \in Numbering
  BY <1>1, <1>2, <1>3, Prepared
<1>6. DOMAIN rows = 1..last /\ \A i \in 1..last : rows[i].numbers = q.numbers[i]
  BY <1>1, <1>2 DEF AuditRecords
<1>7. /\ heads[r] <= q.heads[r]
      /\ \A i \in 1..last : /\ q.numbers[i][r] <= q.heads[r]
                            /\ q.numbers[i][r] # 0 => heads[r] < q.numbers[i][r]
      /\ \A n \in Nat : heads[r] < n /\ n <= q.heads[r] =>
             \E i \in 1..last : pending[i].terminal = At[r] /\ q.numbers[i][r] = n
      /\ \A i, j \in 1..last :
             q.numbers[i][r] # 0 /\ q.numbers[i][r] = q.numbers[j][r] => i = j
  <2>1. /\ heads \in Numbering /\ pending \in Seq(Observation) /\ q = Prepare(pending)
        /\ r \in Role /\ last \in Nat /\ last = Len(pending)
    BY <1>1, <1>2, <1>3
  <2> QED BY ONLY <2>1, PrepareGives
<1>8. NumberedTo(db.audit, db.heads, r)
  BY DEF NumbersGiven
<1>9. NumberedTo(db.audit \o rows, q.heads, r)
  <2>1. \A i \in DOMAIN rows : /\ rows[i].numbers[r] <= q.heads[r]
                               /\ rows[i].numbers[r] # 0 => db.heads[r] < rows[i].numbers[r]
    BY <1>6, <1>7
  <2>2. \A n \in Nat : db.heads[r] < n /\ n <= q.heads[r] =>
            \E i \in DOMAIN rows : rows[i].numbers[r] = n
    BY <1>6, <1>7
  <2>3. \A i, j \in DOMAIN rows :
            rows[i].numbers[r] # 0 /\ rows[i].numbers[r] = rows[j].numbers[r] => i = j
    BY <1>6, <1>7
  <2> QED BY <1>3, <1>4, <1>5, <1>7, <1>8, <2>1, <2>2, <2>3, NumberedOn
<1> QED BY <1>4, <1>9

--------------------------------------------------------------------------------
(* Forgetting.                                                              *)

ForgetAll(rows, gone) == [i \in DOMAIN rows |-> IF i \in gone THEN Forget(rows[i]) ELSE rows[i]]

\* What one batch does to the archive.
Batched(gone, ended, bodies) ==
    /\ gone \subseteq {i \in DOMAIN db.audit : db.audit[i].kept /\ Quiet(db.audit[i].key)}
    /\ ended \subseteq {i \in DOMAIN db.events :
           db.events[i].kept /\ Quiet(<<"message", db.events[i].message>>)}
    /\ bodies \subseteq db.bodies
    /\ \A m \in bodies : /\ Lives(<<"message", m>>) \subseteq ended
                         /\ Rows(<<"message", m>>) \subseteq gone
    /\ db' = [db EXCEPT
           !.audit = ForgetAll(@, gone), !.events = ForgetAll(@, ended),
           !.bodies = @ \ bodies,
           !.floors = [r \in Role |-> Raised(@[r], {db.audit[i].numbers[r] : i \in gone})],
           !.lifecycleFloors = [r \in Role |->
               Raised(@[r], {i \in ended : Visible(db.events[i], r)})]]

LEMMA SweepBatches ==
    ASSUME Sweep
    PROVE  \E gone, ended, bodies : Batched(gone, ended, bodies)
<1> DEFINE old == {i \in DOMAIN db.audit : db.audit[i].kept /\ Quiet(db.audit[i].key)}
           gone == Lowest(Batch, old)
           past == {i \in DOMAIN db.events :
                        db.events[i].kept /\ Quiet(<<"message", db.events[i].message>>)}
           ended == Lowest(Batch - Cardinality(gone), past)
           bare(m) == /\ <<"message", m>> \notin Active
                      /\ Lives(<<"message", m>>) \subseteq ended
                      /\ Rows(<<"message", m>>) \subseteq gone
           free  == IF Cardinality(gone) = Batch THEN {} ELSE {m \in db.bodies : bare(m)}
           count == Min({Batch, Cardinality(free)})
<1>1. db' \in Cleaned
  BY DEF Sweep
<1>2. PICK bodies \in kSubset(count, free) :
          db' = [db EXCEPT
              !.audit = ForgetAll(@, gone), !.events = ForgetAll(@, ended),
              !.bodies = @ \ bodies,
              !.floors = [r \in Role |-> Raised(@[r], {db.audit[i].numbers[r] : i \in gone})],
              !.lifecycleFloors = [r \in Role |->
                  Raised(@[r], {i \in ended : Visible(db.events[i], r)})]]
  BY <1>1 DEF Cleaned, ForgetAll
<1>3. gone \subseteq old /\ ended \subseteq past
  BY DEF Lowest
<1>4. free \subseteq {m \in db.bodies : bare(m)}
  OBVIOUS
<1>5. bodies \subseteq free
  BY <1>2 DEF kSubset
<1>6. bodies \subseteq db.bodies
  BY <1>4, <1>5
<1>7. \A m \in bodies : /\ Lives(<<"message", m>>) \subseteq ended
                        /\ Rows(<<"message", m>>) \subseteq gone
  BY <1>4, <1>5
<1>8. Batched(gone, ended, bodies)
  <2> HIDE DEF gone, ended
  <2> QED BY <1>2, <1>3, <1>6, <1>7 DEF Batched
<1> QED BY <1>8

LEMMA ForgetAudit ==
    ASSUME NEW rows \in Seq(AuditRow), NEW gone, NEW left, left = ForgetAll(rows, gone)
    PROVE  /\ left \in Seq(AuditRow) /\ DOMAIN left = DOMAIN rows
           /\ \A i \in DOMAIN rows :
                  /\ left[i].key = rows[i].key /\ left[i].numbers = rows[i].numbers
                  /\ i \in gone => ~left[i].kept
                  /\ i \notin gone => left[i] = rows[i]
<1>1. PICK n \in Nat : n = Len(rows) /\ DOMAIN rows = 1..n
  OBVIOUS
<1>2. \A i \in 1..n : rows[i] \in AuditRow
  BY <1>1
<1>3. left = [i \in 1..n |-> IF i \in gone THEN Forget(rows[i]) ELSE rows[i]]
  BY <1>1 DEF ForgetAll
<1>4. \A row \in AuditRow : /\ Forget(row) \in AuditRow /\ ~Forget(row).kept
                            /\ Forget(row).key = row.key /\ Forget(row).numbers = row.numbers
  BY DEF AuditRow, Forget
<1>5. \A i \in 1..n : left[i] \in AuditRow
  BY <1>2, <1>3, <1>4
<1>6. left \in Seq(AuditRow) /\ DOMAIN left = 1..n
  BY <1>3, <1>5
<1> QED BY <1>1, <1>2, <1>3, <1>4, <1>6

LEMMA ForgetLives ==
    ASSUME NEW rows \in Seq(LifeRow), NEW gone, NEW left, left = ForgetAll(rows, gone)
    PROVE  /\ left \in Seq(LifeRow) /\ DOMAIN left = DOMAIN rows
           /\ \A i \in DOMAIN rows :
                  /\ left[i].message = rows[i].message
                  /\ left[i].delivered = rows[i].delivered
                  /\ i \in gone => ~left[i].kept
                  /\ i \notin gone => left[i] = rows[i]
<1>1. PICK n \in Nat : n = Len(rows) /\ DOMAIN rows = 1..n
  OBVIOUS
<1>2. \A i \in 1..n : rows[i] \in LifeRow
  BY <1>1
<1>3. left = [i \in 1..n |-> IF i \in gone THEN Forget(rows[i]) ELSE rows[i]]
  BY <1>1 DEF ForgetAll
<1>4. \A row \in LifeRow : /\ Forget(row) \in LifeRow /\ ~Forget(row).kept
                           /\ Forget(row).message = row.message
                           /\ Forget(row).delivered = row.delivered
  BY DEF LifeRow, Forget
<1>5. \A i \in 1..n : left[i] \in LifeRow
  BY <1>2, <1>3, <1>4
<1>6. left \in Seq(LifeRow) /\ DOMAIN left = 1..n
  BY <1>3, <1>5
<1> QED BY <1>1, <1>2, <1>3, <1>4, <1>6

\* The floors that a batch leaves are above what it forgets, and no lower than before.
LEMMA FloorsRaised ==
    ASSUME TypeOK, NumbersGiven, NEW gone, gone \subseteq DOMAIN db.audit,
           NEW ended, ended \subseteq DOMAIN db.events, NEW r \in Role
    PROVE  LET floor == Raised(db.floors[r], {db.audit[i].numbers[r] : i \in gone})
               past  == Raised(db.lifecycleFloors[r],
                               {i \in ended : Visible(db.events[i], r)})
           IN  /\ floor \in Nat /\ db.floors[r] <= floor
               /\ \A i \in gone : db.audit[i].numbers[r] <= floor
               /\ past \in Nat /\ db.lifecycleFloors[r] <= past
               /\ \A i \in ended : Visible(db.events[i], r) => i <= past
<1>1. /\ db.audit \in Seq(AuditRow) /\ db.events \in Seq(LifeRow)
      /\ db.heads[r] \in Nat /\ db.floors[r] \in Nat /\ db.lifecycleFloors[r] \in Nat
  BY ArchiveFacts DEF TypeOK, Numbering
<1>2. PICK removed : removed = {db.audit[i].numbers[r] : i \in gone}
  OBVIOUS
<1>3. \A i \in DOMAIN db.audit : /\ db.audit[i].numbers[r] \in Nat
                                 /\ db.audit[i].numbers[r] <= db.heads[r]
  <2>1. \A i \in DOMAIN db.audit : db.audit[i] \in AuditRow
    BY <1>1
  <2> QED BY <2>1 DEF NumbersGiven, NumberedTo, AuditRow, Numbering
<1>4. removed \subseteq Nat /\ \A y \in removed : y <= db.heads[r]
  BY <1>2, <1>3
<1>5. PICK floor : floor = Raised(db.floors[r], removed)
  OBVIOUS
<1>6. /\ floor \in Nat /\ db.floors[r] <= floor
      /\ \A y \in removed : y <= floor
  BY <1>1, <1>4, <1>5, RaisedFacts DEF Raised
<1>7. PICK seen : seen = {i \in ended : Visible(db.events[i], r)}
  OBVIOUS
<1>8. PICK n \in Nat : n = Len(db.events) /\ DOMAIN db.events = 1..n
  BY <1>1
<1>9. seen \subseteq Nat /\ \A y \in seen : y <= n
  BY <1>7, <1>8
<1>10. PICK past : past = Raised(db.lifecycleFloors[r], seen)
  OBVIOUS
<1>11. /\ past \in Nat /\ db.lifecycleFloors[r] <= past
       /\ \A y \in seen : y <= past
  BY <1>1, <1>9, <1>10, RaisedFacts DEF Raised
<1> QED BY <1>2, <1>5, <1>6, <1>7, <1>10, <1>11

\* What a batch leaves.
LEMMA BatchedFacts ==
    ASSUME TypeOK, NumbersGiven, NEW gone, NEW ended, NEW bodies,
           Batched(gone, ended, bodies)
    PROVE  /\ db' \in Archive
           /\ db'.run = db.run /\ db'.tagged = db.tagged /\ db'.heads = db.heads
           /\ db'.audit = ForgetAll(db.audit, gone)
           /\ db'.events = ForgetAll(db.events, ended)
           /\ db'.bodies = db.bodies \ bodies
           /\ \A r \in Role :
                  /\ db.floors[r] <= db'.floors[r]
                  /\ \A i \in gone : db.audit[i].numbers[r] <= db'.floors[r]
                  /\ db.lifecycleFloors[r] <= db'.lifecycleFloors[r]
                  /\ \A i \in ended : Visible(db.events[i], r) => i <= db'.lifecycleFloors[r]
<1>1. db \in Archive /\ db.audit \in Seq(AuditRow) /\ db.events \in Seq(LifeRow)
  BY ArchiveFacts DEF TypeOK
<1>2. gone \subseteq DOMAIN db.audit /\ ended \subseteq DOMAIN db.events
  BY DEF Batched
<1>3. PICK floors, past :
          /\ floors = [r \in Role |-> Raised(db.floors[r], {db.audit[i].numbers[r] : i \in gone})]
          /\ past = [r \in Role |-> Raised(db.lifecycleFloors[r],
                                           {i \in ended : Visible(db.events[i], r)})]
  OBVIOUS
<1>4. PICK audit, events : /\ audit = ForgetAll(db.audit, gone)
                           /\ events = ForgetAll(db.events, ended)
  OBVIOUS
<1>5. db' = [db EXCEPT !.audit = ForgetAll(@, gone), !.events = ForgetAll(@, ended),
                       !.bodies = @ \ bodies,
                       !.floors = [r \in Role |->
                           Raised(@[r], {db.audit[i].numbers[r] : i \in gone})],
                       !.lifecycleFloors = [r \in Role |->
                           Raised(@[r], {i \in ended : Visible(db.events[i], r)})]]
  BY DEF Batched
<1>6. db' = [db EXCEPT !.audit = audit, !.events = events, !.bodies = @ \ bodies,
                       !.floors = floors, !.lifecycleFloors = past]
  BY <1>1, <1>3, <1>4, <1>5 DEF Archive
<1>7. audit \in Seq(AuditRow) /\ events \in Seq(LifeRow)
  BY <1>1, <1>4, ForgetAudit, ForgetLives
<1>8. \A r \in Role :
          /\ floors[r] \in Nat /\ db.floors[r] <= floors[r]
          /\ \A i \in gone : db.audit[i].numbers[r] <= floors[r]
          /\ past[r] \in Nat /\ db.lifecycleFloors[r] <= past[r]
          /\ \A i \in ended : Visible(db.events[i], r) => i <= past[r]
  BY <1>2, <1>3, FloorsRaised
<1>9. floors \in Numbering /\ past \in Numbering
  BY <1>3, <1>8 DEF Numbering
<1>10. db' \in Archive
  BY <1>1, <1>6, <1>7, <1>9 DEF Archive
<1>11. /\ db'.run = db.run /\ db'.tagged = db.tagged /\ db'.heads = db.heads
       /\ db'.audit = audit /\ db'.events = events /\ db'.bodies = db.bodies \ bodies
       /\ db'.floors = floors /\ db'.lifecycleFloors = past
  BY <1>1, <1>6 DEF Archive
<1> QED BY <1>4, <1>8, <1>10, <1>11

--------------------------------------------------------------------------------
(* The archive of a game without a database.                               *)

\* The pairs that a volatile game may have in its buffer.
Pairs(last) == {p \in Role \X Nat : p[2] <= last[p[1]]}

\* What FlushVolatile joins: for each observation, the numbers it was given.
GivenBy(q, i) == {<<r, q.numbers[i][r]>> : r \in {s \in Role : pending[i].terminal = At[s]}}

PartsGiven(q) == [i \in DOMAIN pending |-> SetToSeq(GivenBy(q, i))]

Gives(q, joined) ==
    /\ joined \in Seq(Pairs(q.heads))
    /\ \A r \in Role : \A n \in Nat : heads[r] < n /\ n <= q.heads[r] =>
           \E k \in 1..Len(joined) : joined[k] = <<r, n>>

LEMMA Parts ==
    ASSUME TypeOK, pending # <<>>
    PROVE  Gives(Prepare(pending), FlattenSeq(PartsGiven(Prepare(pending))))
<1> PICK q : q = Prepare(pending)
  OBVIOUS
<1> PICK parts : parts = PartsGiven(q)
  OBVIOUS
<1>0. parts = [i \in DOMAIN pending |-> SetToSeq(GivenBy(q, i))]
  BY DEF PartsGiven
<1>1. PICK last \in Nat : last = Len(pending) /\ DOMAIN pending = 1..last /\ last > 0
  BY EmptySeq DEF TypeOK
<1>2. heads \in Numbering /\ pending \in Seq(Observation)
  BY DEF TypeOK
<1>3. q.numbers \in [1..last -> Numbering] /\ q.heads \in Numbering
  BY <1>1, <1>2, Prepared
<1>4. ASSUME NEW r \in Role
      PROVE  /\ \A i \in 1..last : q.numbers[i][r] <= q.heads[r]
             /\ \A n \in Nat : heads[r] < n /\ n <= q.heads[r] =>
                    \E i \in 1..last : pending[i].terminal = At[r] /\ q.numbers[i][r] = n
  <2>1. /\ heads \in Numbering /\ pending \in Seq(Observation) /\ q = Prepare(pending)
        /\ r \in Role /\ last \in Nat /\ last = Len(pending)
    BY <1>1, <1>2
  <2> QED BY ONLY <2>1, PrepareGives
<1>5. PICK X : X = Pairs(q.heads)
  OBVIOUS
<1>6. ASSUME NEW i \in 1..last
      PROVE  GivenBy(q, i) \subseteq X /\ IsFiniteSet(GivenBy(q, i))
  <2>1. GivenBy(q, i) \subseteq X
    <3>1. \A r \in Role : q.numbers[i][r] \in Nat /\ q.numbers[i][r] <= q.heads[r]
      BY <1>3, <1>4 DEF Numbering
    <3> QED BY <1>5, <3>1 DEF GivenBy, Pairs
  <2>2. PICK S : S = {s \in Role : pending[i].terminal = At[s]}
    OBVIOUS
  <2>3. IsFiniteSet(S)
    BY <2>2, ConstantFacts, FS_Subset
  <2>4. PICK f : f = [r \in S |-> <<r, q.numbers[i][r]>>]
    OBVIOUS
  <2>5. f \in Surjection(S, GivenBy(q, i))
    BY <2>2, <2>4 DEF Surjection, GivenBy
  <2>6. IsFiniteSet(GivenBy(q, i))
    BY <2>3, <2>5, FS_Surjection
  <2> QED BY <2>1, <2>6
<1>7. ASSUME NEW i \in 1..last
      PROVE  /\ parts[i] \in Seq(X)
             /\ \A x \in GivenBy(q, i) : \E k \in 1..Len(parts[i]) : parts[i][k] = x
  <2>1. PICK S : S = GivenBy(q, i)
    OBVIOUS
  <2>2. parts[i] = SetToSeq(S)
    BY <1>0, <1>1, <2>1
  <2>3. /\ SetToSeq(S) \in Seq(S)
        /\ \A x \in S : \E k \in 1..Len(SetToSeq(S)) : SetToSeq(S)[k] = x
    BY <1>6, <2>1, LaidOut
  <2>4. PICK s : s = parts[i]
    OBVIOUS
  <2>5. /\ s \in Seq(S) /\ S \subseteq X
        /\ \A x \in S : \E k \in 1..Len(s) : s[k] = x
    BY <1>6, <2>1, <2>2, <2>3, <2>4
  <2>6. s \in Seq(X)
    BY ONLY <2>5
  <2> QED BY ONLY <2>1, <2>4, <2>5, <2>6
<1>8. parts \in Seq(Seq(X)) /\ Len(parts) = last
  <2>1. parts = [i \in 1..last |-> parts[i]]
    BY <1>0, <1>1
  <2> QED BY <1>7, <2>1
<1>9. PICK joined : joined = FlattenSeq(parts)
  OBVIOUS
<1>10. /\ joined \in Seq(X)
       /\ \A i \in 1..last : \A k \in 1..Len(parts[i]) :
              \E m \in 1..Len(joined) : joined[m] = parts[i][k]
  <2>1. parts \in Seq(Seq(X)) /\ Len(parts) > 0
    BY <1>1, <1>8
  <2>2. /\ FlattenSeq(parts) \in Seq(X)
        /\ \A i \in 1..Len(parts) : \A k \in 1..Len(parts[i]) :
               \E m \in 1..Len(FlattenSeq(parts)) : FlattenSeq(parts)[m] = parts[i][k]
    BY ONLY <2>1, Joined
  <2> QED BY <1>8, <1>9, <2>2
<1>11. ASSUME NEW r \in Role, NEW n \in Nat, heads[r] < n, n <= q.heads[r]
       PROVE  \E k \in 1..Len(joined) : joined[k] = <<r, n>>
  <2>1. PICK i \in 1..last : pending[i].terminal = At[r] /\ q.numbers[i][r] = n
    BY <1>4, <1>11
  <2>2. <<r, n>> \in GivenBy(q, i)
    BY <2>1 DEF GivenBy
  <2>3. PICK k \in 1..Len(parts[i]) : parts[i][k] = <<r, n>>
    BY <1>7, <2>2
  <2>4. PICK m \in 1..Len(joined) : joined[m] = parts[i][k]
    BY ONLY <1>10, <2>3, i \in 1..last
  <2> QED BY ONLY <2>3, <2>4
<1>12. Gives(q, joined)
  BY ONLY <1>5, <1>10, <1>11 DEF Gives
<1> QED BY ONLY <1>9, <1>12, q = Prepare(pending), parts = PartsGiven(q)

\* What is over the capacity is cut off at the front, and told by the floors.
LEMMA FlushFacts ==
    ASSUME TypeOK, BufferFloored, FlushVolatile
    PROVE  /\ heads' \in Numbering /\ buffer' \in Buffer
           /\ \A r \in Role :
                  /\ \A k \in DOMAIN buffer'.rows :
                         buffer'.rows[k][1] = r => buffer'.rows[k][2] <= heads'[r]
                  /\ \A n \in 1..heads'[r] :
                         \/ n <= buffer'.floors[r]
                         \/ \E k \in DOMAIN buffer'.rows : buffer'.rows[k] = <<r, n>>
<1> DEFINE q == Prepare(pending)
           joined == FlattenSeq([i \in DOMAIN pending |-> SetToSeq(GivenBy(q, i))])
           rows == buffer.rows \o joined
           excess == Max({0, Len(rows) - Capacity})
           kept == SubSeq(rows, excess + 1, Len(rows))
           floors == [r \in Role |-> Max({buffer.floors[r]} \cup
                         {rows[i][2] : i \in {j \in 1..excess : rows[j][1] = r}})]
<1>1. q = Prepare(pending)
  OBVIOUS
<1>2. joined = FlattenSeq([i \in DOMAIN pending |-> SetToSeq(GivenBy(q, i))])
  OBVIOUS
<1>3. rows = buffer.rows \o joined
  OBVIOUS
<1>4. excess = Max({0, Len(rows) - Capacity})
  OBVIOUS
<1>5. kept = SubSeq(rows, excess + 1, Len(rows))
  OBVIOUS
<1>6. floors = [r \in Role |-> Max({buffer.floors[r]} \cup
                   {rows[i][2] : i \in {j \in 1..excess : rows[j][1] = r}})]
  OBVIOUS
<1>7. /\ buffer' = [rows |-> kept, floors |-> floors] /\ heads' = q.heads
      /\ pending # <<>> /\ ~Durable
  BY DEF FlushVolatile, GivenBy
<1> HIDE DEF q, joined, rows, excess, kept, floors
<1>8. heads \in Numbering /\ buffer.rows \in Seq(Role \X Nat) /\ buffer.floors \in Numbering
  BY DEF TypeOK, Buffer
<1>9. q.heads \in Numbering /\ \A r \in Role : heads[r] <= q.heads[r]
  <2>1. PICK last \in Nat : last = Len(pending)
    BY DEF TypeOK
  <2>2. pending \in Seq(Observation)
    BY DEF TypeOK
  <2> QED BY <1>1, <1>8, <2>1, <2>2, Prepared, PrepareGives
<1>10. PICK X : X = Pairs(q.heads)
  OBVIOUS
<1>11. /\ joined \in Seq(X)
       /\ \A r \in Role : \A n \in Nat : heads[r] < n /\ n <= q.heads[r] =>
              \E k \in 1..Len(joined) : joined[k] = <<r, n>>
  <2>1. joined = FlattenSeq(PartsGiven(q))
    BY ONLY <1>2 DEF PartsGiven
  <2>2. Gives(Prepare(pending), FlattenSeq(PartsGiven(Prepare(pending))))
    BY <1>7, Parts
  <2>3. Gives(q, joined)
    BY ONLY <1>1, <2>1, <2>2
  <2> QED BY ONLY <1>10, <2>3 DEF Gives
<1>12. buffer.rows \in Seq(X)
  <2>1. PICK m \in Nat : m = Len(buffer.rows) /\ DOMAIN buffer.rows = 1..m
    BY <1>8
  <2>2. ASSUME NEW k \in 1..m PROVE buffer.rows[k] \in X
    <3> buffer.rows[k] \in Role \X Nat
      BY <1>8, <2>1
    <3>1. PICK r \in Role, n \in Nat : buffer.rows[k] = <<r, n>>
      OBVIOUS
    <3>2. n <= heads[r]
      BY <1>7, <2>1, <3>1 DEF BufferFloored
    <3>3. n <= q.heads[r]
      BY <1>8, <1>9, <3>2 DEF Numbering
    <3> QED BY <1>10, <3>1, <3>3 DEF Pairs
  <2> QED BY <1>8, <2>1, <2>2
<1>13. PICK m \in Nat : m = Len(buffer.rows)
  BY <1>8
<1>14. /\ rows \in Seq(X) /\ Len(rows) = m + Len(joined)
       /\ DOMAIN buffer.rows = 1..m
       /\ \A i \in 1..m : i \in 1..Len(rows) /\ rows[i] = buffer.rows[i]
       /\ \A i \in 1..Len(joined) : m + i \in 1..Len(rows) /\ rows[m + i] = joined[i]
  BY <1>3, <1>11, <1>12, <1>13, Behind
<1>15. PICK size \in Nat : size = Len(rows)
  BY <1>14
<1>16. excess \in 0..size
  <2>1. PICK x \in Int : x = size - Capacity /\ x <= size
    BY ConstantFacts
  <2>2. excess = Max({0, x})
    BY <1>4, <1>15, <2>1
  <2>3. \E y \in {0, x} : \A z \in {0, x} : y >= z
    <3>1. CASE x <= 0
      BY <2>1, <3>1
    <3>2. CASE 0 <= x
      BY <2>1, <3>2
    <3> QED BY <2>1, <3>1, <3>2
  <2>4. Max({0, x}) \in {0, x} /\ \A z \in {0, x} : Max({0, x}) >= z
    BY <2>3 DEF Max
  <2> QED BY <2>1, <2>2, <2>4
<1>17. /\ kept \in Seq(X) /\ Len(kept) = size - excess
       /\ \A i \in 1..(size - excess) : kept[i] = rows[excess + i]
  <2>1. PICK a \in Int : a = excess + 1
    BY <1>16
  <2>2. \A i \in a..size : rows[i] \in X
    BY <1>14, <1>15, <1>16, <2>1
  <2>3. kept = SubSeq(rows, a, size)
    BY <1>5, <1>15, <2>1
  <2>4. /\ SubSeq(rows, a, size) \in Seq(X)
        /\ Len(SubSeq(rows, a, size)) = IF a <= size THEN size - a + 1 ELSE 0
        /\ \A i \in 1..(size - a + 1) : SubSeq(rows, a, size)[i] = rows[a + i - 1]
    BY <2>2, SubSeqProperties
  <2>5. \A i \in 1..(size - excess) : i \in 1..(size - a + 1) /\ a + i - 1 = excess + i
    BY <1>16, <2>1
  <2> QED BY <1>16, <2>1, <2>3, <2>4, <2>5
<1>18. ASSUME NEW r \in Role
       PROVE  /\ floors[r] \in Nat /\ buffer.floors[r] <= floors[r]
              /\ \A i \in 1..excess : rows[i][1] = r => rows[i][2] <= floors[r]
  <2>1. PICK removed : removed = {rows[i][2] : i \in {j \in 1..excess : rows[j][1] = r}}
    OBVIOUS
  <2>2. \A i \in 1..excess : rows[i] \in X
    BY <1>14, <1>15, <1>16
  <2>3. \A i \in 1..excess : rows[i][2] \in Nat /\ rows[i][2] <= q.heads[rows[i][1]]
    BY <1>10, <2>2 DEF Pairs
  <2>4. removed \subseteq Nat /\ \A y \in removed : y <= q.heads[r]
    BY <2>1, <2>3
  <2>5. floors[r] = Max({buffer.floors[r]} \cup removed)
    BY <1>6, <2>1
  <2>6. buffer.floors[r] \in Nat /\ q.heads[r] \in Nat
    BY <1>8, <1>9 DEF Numbering
  <2>7. /\ floors[r] \in Nat /\ buffer.floors[r] <= floors[r]
        /\ \A y \in removed : y <= floors[r]
    BY <2>4, <2>5, <2>6, RaisedFacts
  <2> QED BY <2>1, <2>7
<1>19. floors \in Numbering
  BY <1>6, <1>18 DEF Numbering
<1>20. kept \in Seq(Role \X Nat)
  BY <1>10, <1>17 DEF Pairs
<1>21. buffer' \in Buffer
  BY <1>7, <1>19, <1>20 DEF Buffer
<1>22. ASSUME NEW r \in Role, NEW k \in DOMAIN kept, kept[k][1] = r
       PROVE  kept[k][2] <= q.heads[r]
  <2>1. kept[k] \in X
    BY <1>17
  <2> QED BY <1>10, <1>22, <2>1 DEF Pairs
<1>23. ASSUME NEW r \in Role, NEW k \in 1..size, NEW n \in Nat, rows[k] = <<r, n>>
       PROVE  n <= floors[r] \/ \E i \in DOMAIN kept : kept[i] = <<r, n>>
  <2>1. CASE k <= excess
    <3>1. k \in 1..excess /\ rows[k][1] = r /\ rows[k][2] = n
      BY <1>16, <1>23, <2>1
    <3> QED BY <1>18, <3>1
  <2>2. CASE excess < k
    <3>1. k - excess \in 1..(size - excess) /\ excess + (k - excess) = k
      BY <1>16, <2>2
    <3>2. kept[k - excess] = rows[k] /\ k - excess \in DOMAIN kept
      BY <1>17, <3>1
    <3> QED BY <1>23, <3>2
  <2> QED BY <1>16, <2>1, <2>2
<1>24. ASSUME NEW r \in Role, NEW n \in 1..q.heads[r]
       PROVE  n <= floors[r] \/ \E i \in DOMAIN kept : kept[i] = <<r, n>>
  <2>1. heads[r] \in Nat /\ q.heads[r] \in Nat /\ buffer.floors[r] \in Nat
    BY <1>8, <1>9 DEF Numbering
  <2>2. CASE n <= heads[r]
    <3>1. n \in 1..heads[r]
      BY <2>1, <2>2
    <3>2. n <= buffer.floors[r] \/ \E k \in 1..m : buffer.rows[k] = <<r, n>>
      BY <1>7, <1>14, <3>1 DEF BufferFloored
    <3>3. CASE n <= buffer.floors[r]
      BY <1>18, <2>1, <3>3
    <3>4. CASE \E k \in 1..m : buffer.rows[k] = <<r, n>>
      BY <1>14, <1>15, <1>23, <3>4
    <3> QED BY <3>2, <3>3, <3>4
  <2>3. CASE heads[r] < n
    <3>1. n \in Nat /\ n <= q.heads[r]
      BY <2>1
    <3>2. PICK k \in 1..Len(joined) : joined[k] = <<r, n>>
      BY <1>11, <2>3, <3>1
    <3>3. m + k \in 1..size /\ rows[m + k] = <<r, n>>
      BY <1>14, <1>15, <3>2
    <3> QED BY <1>23, <3>1, <3>3
  <2> QED BY <2>1, <2>2, <2>3
<1> QED BY <1>7, <1>9, <1>21, <1>22, <1>24

--------------------------------------------------------------------------------
(* The invariant.                                                           *)

LEMMA InitInv == Init => IInv
<1> SUFFICES ASSUME Init PROVE IInv
  OBVIOUS
<1>1. PICK late : late = IF scene = "upgraded" THEN Late ELSE {}
  OBVIOUS
<1>2. late \subseteq Message /\ IsFiniteSet(late)
  BY <1>1, ConstantFacts, FS_EmptySet
<1>3. PICK s : s = SetToSeq(late)
  OBVIOUS
<1>4. s \in Seq(late)
  BY <1>2, <1>3, LaidOut
<1>5. PICK n \in Nat : n = Len(s) /\ DOMAIN s = 1..n
  BY <1>4
<1>6. PICK lives : lives = [i \in 1..n |-> [message |-> s[i], delivered |-> FALSE,
                                           day |-> 0, kept |-> TRUE]]
  OBVIOUS
<1>7. /\ run = [phase |-> [m \in Message |-> IF m \in late THEN "closed" ELSE "new"],
                open  |-> {}, air |-> late]
      /\ db = [run |-> run, tagged |-> {}, heads |-> NoFloors, audit |-> <<>>,
               events |-> lives, bodies |-> late, floors |-> NoFloors,
               lifecycleFloors |-> NoFloors]
  BY <1>1, <1>3, <1>5, <1>6 DEF Init
<1>8. /\ scene \in Scenes /\ tagged = {} /\ pending = <<>> /\ lifecycle = <<>>
      /\ heads = NoFloors /\ failed = FALSE /\ buffer = [rows |-> <<>>, floors |-> NoFloors]
      /\ today = 0 /\ asked = {}
  BY DEF Init
<1>9. \A i \in 1..n : s[i] \in Message
  BY <1>2, <1>4, <1>5
<1>10. \A i \in 1..n : lives[i] \in LifeRow /\ lives[i].kept
  BY <1>6, <1>9 DEF LifeRow
<1>11. lives \in Seq(LifeRow) /\ DOMAIN lives = 1..n
  BY <1>6, <1>10
<1>12. NoFloors \in Numbering /\ \A r \in Role : NoFloors[r] = 0
  BY DEF NoFloors, Numbering
<1>13. run \in Runs
  BY <1>2, <1>7 DEF Runs, Phase
<1>14. /\ <<>> \in Seq(AuditRow) /\ <<>> \in Seq(Observation) /\ <<>> \in Seq(Life)
       /\ <<>> \in Seq(Role \X Nat)
  BY EmptySeq
<1>15. db \in Archive
  BY <1>2, <1>7, <1>11, <1>12, <1>13, <1>14 DEF Archive
<1>16. buffer \in Buffer
  BY <1>8, <1>12, <1>14 DEF Buffer
<1>17. TypeOK
  BY <1>8, <1>12, <1>13, <1>14, <1>15, <1>16 DEF TypeOK
<1>18. /\ db.heads = NoFloors /\ db.audit = <<>> /\ db.events = lives
       /\ db.run = run /\ db.tagged = {} /\ run.air = late
  BY <1>7
<1>19. HeadsAgree
  BY <1>8, <1>18 DEF HeadsAgree
<1>20. DOMAIN db.audit = {}
  BY <1>18
<1>21. NumbersGiven
  BY <1>12, <1>18, <1>20 DEF NumbersGiven, NumberedTo
<1>22. AuditFloored
  BY <1>20 DEF AuditFloored
<1>23. LifeFloored
  BY <1>10, <1>11, <1>18 DEF LifeFloored
<1>24. BufferFloored
  <2>1. DOMAIN buffer.rows = {}
    BY <1>8
  <2> QED BY <1>8, <1>12, <2>1 DEF BufferFloored
<1>25. Correlated
  BY <1>1, <1>8, <1>18 DEF Correlated
<1>26. Undisturbed
  BY <1>8 DEF Undisturbed
<1> QED BY <1>17, <1>19, <1>21, <1>22, <1>23, <1>24, <1>25, <1>26 DEF IInv

Observes(m) == Accept(m) \/ Repeat(m) \/ Schedule(m) \/ Arrive(m) \/ Vanish(m) \/ Retire(m)

\* What an observation leaves of the simulation.
LEMMA ObserveFacts ==
    ASSUME TypeOK, Correlated, NEW m \in Message, Observes(m)
    PROVE  /\ run' \in Runs /\ tagged' \subseteq Message
           /\ pending' \in Seq(Observation) /\ lifecycle' \in Seq(Life)
           /\ UNCHANGED Rest /\ asked = {} /\ ~failed
           /\ scene # "upgraded" => run'.air = tagged'
<1>1. /\ run \in Runs /\ tagged \subseteq Message /\ pending \in Seq(Observation)
      /\ lifecycle \in Seq(Life)
  BY DEF TypeOK
<1>2. /\ From[m] \in Unit \cup {Nowhere} /\ To[m] \in Unit \cup {Nowhere}
      /\ <<"message", m>> \in Key /\ KeyOf(m) \in Key
  BY ConstantFacts, KeyFacts
<1>3. ASSUME NEW key \in Key, NEW unit \in Unit \cup {Nowhere}, Observe(key, unit)
      PROVE  pending' \in Seq(Observation) /\ asked = {}
  <2>1. [key |-> key, terminal |-> unit] \in Observation
    BY DEF Observation
  <2> QED BY <1>1, <1>3, <2>1 DEF Observe
<1>4. ASSUME NEW delivered \in BOOLEAN, Tell(m, delivered)
      PROVE  lifecycle' \in Seq(Life)
  <2>1. [message |-> m, delivered |-> delivered] \in Life
    BY DEF Life
  <2> QED BY <1>1, <1>4, <2>1 DEF Tell
<1>5. scene # "upgraded" /\ ~failed => run.air = tagged
  BY DEF Correlated
<1>6. CASE Accept(m)
  <2>1. run' \in Runs /\ run'.air = run.air
    BY <1>1, <1>6 DEF Accept, Runs, Phase
  <2>2. /\ Observe(<<"message", m>>, From[m]) /\ Tell(m, FALSE)
        /\ tagged' = tagged /\ UNCHANGED Rest /\ ~failed
    BY <1>6 DEF Accept
  <2> QED BY <1>1, <1>2, <1>3, <1>4, <1>5, <2>1, <2>2
<1>7. CASE Repeat(m)
  <2>1. /\ Observe(<<"message", m>>, From[m]) /\ run' = run /\ lifecycle' = lifecycle
        /\ tagged' = tagged /\ UNCHANGED Rest /\ ~failed
    BY <1>7 DEF Repeat
  <2> QED BY <1>1, <1>2, <1>3, <1>5, <2>1
<1>8. CASE Schedule(m)
  <2>1. run' \in Runs /\ run'.air = run.air \cup {m}
    BY <1>1, <1>8 DEF Schedule, Runs
  <2>2. /\ Observe(<<"message", m>>, From[m]) /\ lifecycle' = lifecycle
        /\ tagged' = tagged \cup {m} /\ UNCHANGED Rest /\ ~failed
    BY <1>8 DEF Schedule
  <2> QED BY <1>1, <1>2, <1>3, <1>5, <2>1, <2>2
<1>9. CASE Arrive(m)
  <2>1. run' \in Runs /\ run'.air = run.air \ {m}
    BY <1>1, <1>9 DEF Arrive, Runs, Phase
  <2>2. /\ Observe(KeyOf(m), To[m]) /\ tagged' = tagged \ {m} /\ UNCHANGED Rest /\ ~failed
        /\ Tell(m, TRUE) \/ lifecycle' = lifecycle
    BY <1>9 DEF Arrive
  <2>3. lifecycle' \in Seq(Life)
    BY <1>1, <1>4, <2>2
  <2> QED BY <1>1, <1>2, <1>3, <1>5, <2>1, <2>2, <2>3
<1>10. CASE Vanish(m)
  <2>1. run' \in Runs /\ run'.air = run.air \ {m}
    BY <1>1, <1>10 DEF Vanish, Runs
  <2>2. PICK unit \in {From[m], To[m], Nowhere} : Observe(KeyOf(m), unit)
    BY <1>10 DEF Vanish
  <2>3. /\ tagged' = tagged \ {m} /\ lifecycle' = lifecycle /\ UNCHANGED Rest /\ ~failed
    BY <1>10 DEF Vanish
  <2>4. unit \in Unit \cup {Nowhere}
    BY <1>2
  <2> QED BY <1>1, <1>2, <1>3, <1>5, <2>1, <2>2, <2>3, <2>4
<1>11. CASE Retire(m)
  <2>1. run' \in Runs /\ run'.air = run.air
    BY <1>1, <1>11 DEF Retire, Runs, Phase
  <2>2. /\ Observe(<<"message", m>>, From[m]) /\ Tell(m, run.phase[m] = "delivered")
        /\ tagged' = tagged /\ UNCHANGED Rest /\ ~failed
    BY <1>11 DEF Retire
  <2>3. (run.phase[m] = "delivered") \in BOOLEAN
    OBVIOUS
  <2>4. lifecycle' \in Seq(Life)
    BY <1>4, <2>2, <2>3
  <2> QED BY <1>1, <1>2, <1>3, <1>5, <2>1, <2>2, <2>4
<1> QED BY <1>6, <1>7, <1>8, <1>9, <1>10, <1>11 DEF Observes

\* A committed boundary: its rows are kept and numbered on.
LEMMA CommitArchive ==
    ASSUME TypeOK, NumbersGiven, AuditFloored, LifeFloored, heads = db.heads, db' = Stored
    PROVE  db' \in Archive /\ NumbersGiven' /\ AuditFloored' /\ LifeFloored'
<1>1. PICK rows, lives : rows = AuditRecords(Prepare(pending)) /\ lives = LifecycleRecords
  OBVIOUS
<1>2. /\ db' \in Archive /\ db'.heads = Stored.heads
      /\ db'.audit = db.audit \o rows /\ db'.events = db.events \o lives
      /\ db'.floors = db.floors /\ db'.lifecycleFloors = db.lifecycleFloors
      /\ rows \in Seq(AuditRow) /\ lives \in Seq(LifeRow)
  BY <1>1, StoredFacts
<1>3. db.audit \in Seq(AuditRow) /\ db.events \in Seq(LifeRow)
  BY ArchiveFacts DEF TypeOK
<1>4. \A i \in DOMAIN rows : rows[i].kept
  BY <1>1 DEF AuditRecords
<1>5. \A i \in DOMAIN lives : lives[i].kept
  BY <1>1 DEF LifecycleRecords
<1>6. ASSUME NEW i \in DOMAIN db'.audit, ~db'.audit[i].kept
      PROVE  i \in DOMAIN db.audit /\ db'.audit[i] = db.audit[i]
  <2>1. CASE i \in DOMAIN db.audit
    BY <1>2, <1>3, <2>1, Behind
  <2>2. CASE i \notin DOMAIN db.audit
    <3>1. /\ i - Len(db.audit) \in DOMAIN rows
          /\ db'.audit[i] = rows[i - Len(db.audit)]
      BY <1>2, <1>3, <2>2, Behind
    <3> QED BY <1>4, <1>6, <3>1
  <2> QED BY <2>1, <2>2
<1>7. ASSUME NEW i \in DOMAIN db'.events, ~db'.events[i].kept
      PROVE  i \in DOMAIN db.events /\ db'.events[i] = db.events[i]
  <2>1. CASE i \in DOMAIN db.events
    BY <1>2, <1>3, <2>1, Behind
  <2>2. CASE i \notin DOMAIN db.events
    <3>1. /\ i - Len(db.events) \in DOMAIN lives
          /\ db'.events[i] = lives[i - Len(db.events)]
      BY <1>2, <1>3, <2>2, Behind
    <3> QED BY <1>5, <1>7, <3>1
  <2> QED BY <2>1, <2>2
<1>8. AuditFloored'
  BY <1>2, <1>6 DEF AuditFloored
<1>9. LifeFloored'
  BY <1>2, <1>7 DEF LifeFloored, Visible
<1>10. NumbersGiven'
  <2>1. \A r \in Role : NumberedTo(Stored.audit, Stored.heads, r)
    BY StoredNumbers
  <2> QED BY <2>1 DEF NumbersGiven, NumberedTo
<1> QED BY <1>2, <1>8, <1>9, <1>10

\* A batch: what it forgets is below the floors it leaves.
LEMMA SweepArchive ==
    ASSUME TypeOK, NumbersGiven, AuditFloored, LifeFloored,
           NEW gone, NEW ended, NEW bodies, Batched(gone, ended, bodies)
    PROVE  NumbersGiven' /\ AuditFloored' /\ LifeFloored'
<1>1. db.audit \in Seq(AuditRow) /\ db.events \in Seq(LifeRow)
  BY ArchiveFacts DEF TypeOK
<1>2. /\ db'.heads = db.heads
      /\ db'.audit = ForgetAll(db.audit, gone) /\ db'.events = ForgetAll(db.events, ended)
      /\ \A r \in Role :
             /\ db.floors[r] <= db'.floors[r]
             /\ \A i \in gone : db.audit[i].numbers[r] <= db'.floors[r]
             /\ db.lifecycleFloors[r] <= db'.lifecycleFloors[r]
             /\ \A i \in ended : Visible(db.events[i], r) => i <= db'.lifecycleFloors[r]
  BY BatchedFacts
<1>3. db \in Archive /\ db' \in Archive
  BY BatchedFacts DEF TypeOK
<1>4. /\ DOMAIN db'.audit = DOMAIN db.audit
      /\ \A i \in DOMAIN db.audit : /\ db'.audit[i].numbers = db.audit[i].numbers
                                    /\ i \notin gone => db'.audit[i] = db.audit[i]
  BY <1>1, <1>2, ForgetAudit
<1>5. /\ DOMAIN db'.events = DOMAIN db.events
      /\ \A i \in DOMAIN db.events : /\ db'.events[i].message = db.events[i].message
                                     /\ db'.events[i].delivered = db.events[i].delivered
                                     /\ i \notin ended => db'.events[i] = db.events[i]
  BY <1>1, <1>2, ForgetLives
<1>6. \A r \in Role : /\ db.floors[r] \in Nat /\ db'.floors[r] \in Nat
                      /\ db.lifecycleFloors[r] \in Nat /\ db'.lifecycleFloors[r] \in Nat
  BY <1>3, ArchiveFacts DEF Numbering
<1>7. NumbersGiven'
  BY <1>2, <1>4 DEF NumbersGiven, NumberedTo
<1>8. AuditFloored'
  <2> SUFFICES ASSUME NEW r \in Role, NEW i \in DOMAIN db'.audit, ~db'.audit[i].kept
               PROVE  db'.audit[i].numbers[r] <= db'.floors[r]
    BY DEF AuditFloored
  <2>1. CASE i \in gone
    BY <1>2, <1>4, <2>1
  <2>2. CASE i \notin gone
    <3>1. db.audit[i].numbers[r] <= db.floors[r] /\ db'.audit[i] = db.audit[i]
      BY <1>4, <2>2 DEF AuditFloored
    <3>2. db.audit[i].numbers[r] \in Nat
      <4>1. db.audit[i] \in AuditRow
        BY <1>1, <1>4
      <4> QED BY <4>1 DEF AuditRow, Numbering
    <3> QED BY <1>2, <1>6, <3>1, <3>2
  <2> QED BY <2>1, <2>2
<1>9. LifeFloored'
  <2> SUFFICES ASSUME NEW r \in Role, NEW i \in DOMAIN db'.events,
                      ~db'.events[i].kept, Visible(db'.events[i], r)
               PROVE  i <= db'.lifecycleFloors[r]
    BY DEF LifeFloored
  <2>1. Visible(db.events[i], r)
    BY <1>5 DEF Visible
  <2>2. i \in Nat
    BY <1>1, <1>5
  <2>3. CASE i \in ended
    BY <1>2, <2>1, <2>3
  <2>4. CASE i \notin ended
    <3>1. i <= db.lifecycleFloors[r]
      BY <1>5, <2>1, <2>4 DEF LifeFloored
    <3> QED BY <1>2, <1>6, <2>2, <3>1
  <2> QED BY <2>3, <2>4
<1> QED BY <1>7, <1>8, <1>9

\* An observation leaves what is committed, and no reader is there.
LEMMA ObserveInv ==
    ASSUME IInv, NEW m \in Message, Observes(m)
    PROVE  IInv'
<1>1. /\ run' \in Runs /\ tagged' \subseteq Message
      /\ pending' \in Seq(Observation) /\ lifecycle' \in Seq(Life)
      /\ UNCHANGED <<scene, heads, failed, db, buffer, today, asked>>
      /\ asked = {} /\ ~failed
      /\ scene # "upgraded" => run'.air = tagged'
  BY ObserveFacts DEF IInv, Rest
<1>2. TypeOK'
  BY <1>1 DEF IInv, TypeOK
<1>3. HeadsAgree' /\ NumbersGiven' /\ AuditFloored' /\ LifeFloored' /\ BufferFloored'
  BY <1>1 DEF IInv, HeadsAgree, Durable, NumbersGiven, AuditFloored, LifeFloored, Visible,
              BufferFloored
<1>4. Correlated'
  BY <1>1 DEF IInv, Correlated
<1>5. Undisturbed'
  BY <1>1 DEF Undisturbed
<1> QED BY <1>2, <1>3, <1>4, <1>5 DEF IInv

LEMMA CommitInv ==
    ASSUME IInv, Commit
    PROVE  IInv'
<1>1. /\ ~failed /\ Durable /\ pending # <<>> /\ db' = Stored /\ heads' = Stored.heads
      /\ pending' = <<>> /\ lifecycle' = <<>>
      /\ UNCHANGED <<scene, run, tagged, failed, buffer, today, asked>>
  BY DEF Commit, Flushed
<1>2. heads = db.heads
  BY <1>1 DEF IInv, HeadsAgree
<1>3. db' \in Archive /\ NumbersGiven' /\ AuditFloored' /\ LifeFloored'
  BY <1>1, <1>2, CommitArchive DEF IInv
<1>4. <<>> \in Seq(Observation) /\ <<>> \in Seq(Life)
  BY EmptySeq
<1>5. db'.heads \in Numbering /\ heads' = db'.heads
  BY <1>1, <1>3, ArchiveFacts
<1>6. TypeOK'
  BY <1>1, <1>3, <1>4, <1>5 DEF IInv, TypeOK
<1>7. HeadsAgree'
  BY <1>5 DEF HeadsAgree
<1>8. BufferFloored'
  BY <1>1 DEF BufferFloored, Durable
<1>9. Correlated'
  <2>1. db'.run = run /\ db'.tagged = tagged
    BY <1>1, StoredFacts DEF IInv
  <2> QED BY <1>1, <2>1 DEF IInv, Correlated
<1>10. Undisturbed'
  <2>1. asked = {}
    BY <1>1 DEF IInv, Undisturbed
  <2> QED BY <1>1, <2>1 DEF Undisturbed
<1> QED BY <1>3, <1>6, <1>7, <1>8, <1>9, <1>10 DEF IInv

\* Whether or not the transaction was committed.
LEMMA CommitFailsInv ==
    ASSUME IInv, CommitFails
    PROVE  IInv'
<1>1. /\ ~failed /\ Durable /\ pending # <<>> /\ db' \in {db, Stored} /\ failed' = TRUE
      /\ run' = db.run /\ tagged' = {} /\ heads' = [r \in Role |-> 0]
      /\ pending' = <<>> /\ lifecycle' = <<>>
      /\ UNCHANGED <<scene, buffer, today, asked>>
  BY DEF CommitFails, Flushed
<1>2. heads = db.heads
  BY <1>1 DEF IInv, HeadsAgree
<1>3. db' \in Archive /\ NumbersGiven' /\ AuditFloored' /\ LifeFloored'
  <2>1. CASE db' = Stored
    BY <1>2, <2>1, CommitArchive DEF IInv
  <2>2. CASE db' = db
    BY <2>2 DEF IInv, TypeOK, NumbersGiven, AuditFloored, LifeFloored, Visible
  <2> QED BY <1>1, <2>1, <2>2
<1>4. <<>> \in Seq(Observation) /\ <<>> \in Seq(Life)
  BY EmptySeq
<1>5. heads' \in Numbering /\ run' \in Runs
  BY <1>1, ArchiveFacts DEF IInv, TypeOK, Numbering
<1>6. TypeOK'
  BY <1>1, <1>3, <1>4, <1>5 DEF IInv, TypeOK
<1>7. HeadsAgree'
  BY <1>1 DEF HeadsAgree
<1>8. BufferFloored'
  BY <1>1 DEF BufferFloored, Durable
<1>9. Correlated'
  <2>1. Stored.run = run /\ Stored.tagged = tagged
    BY StoredFacts DEF IInv
  <2> QED BY <1>1, <2>1 DEF IInv, Correlated
<1>10. Undisturbed'
  <2>1. asked = {}
    BY <1>1 DEF IInv, Undisturbed
  <2> QED BY <1>1, <2>1 DEF Undisturbed
<1> QED BY <1>3, <1>6, <1>7, <1>8, <1>9, <1>10 DEF IInv

\* Recovery takes all that it needs from what is committed.
LEMMA RestartInv ==
    ASSUME IInv, Restart
    PROVE  IInv'
<1>1. /\ Durable /\ run' = db.run /\ tagged' = db.tagged /\ heads' = db.heads
      /\ pending' = <<>> /\ lifecycle' = <<>> /\ failed' = FALSE /\ asked' = {}
      /\ UNCHANGED <<scene, db, buffer, today>>
  BY DEF Restart, Flushed, LoadedHeads
<1>2. <<>> \in Seq(Observation) /\ <<>> \in Seq(Life)
  BY EmptySeq
<1>3. db \in Archive /\ db.heads \in Numbering /\ db.run \in Runs /\ db.tagged \subseteq Message
  BY ArchiveFacts DEF IInv, TypeOK
<1>4. TypeOK'
  BY <1>1, <1>2, <1>3 DEF IInv, TypeOK
<1>5. NumbersGiven' /\ AuditFloored' /\ LifeFloored'
  BY <1>1 DEF IInv, NumbersGiven, AuditFloored, LifeFloored, Visible
<1>6. HeadsAgree' /\ BufferFloored' /\ Undisturbed' /\ Correlated'
  BY <1>1 DEF IInv, HeadsAgree, BufferFloored, Durable, Undisturbed, Correlated
<1> QED BY <1>4, <1>5, <1>6 DEF IInv

LEMMA FlushInv ==
    ASSUME IInv, FlushVolatile
    PROVE  IInv'
<1>1. /\ ~Durable /\ pending # <<>> /\ pending' = <<>>
      /\ UNCHANGED <<scene, run, tagged, lifecycle, failed, db, today, asked>>
  BY DEF FlushVolatile
<1>2. /\ heads' \in Numbering /\ buffer' \in Buffer
      /\ \A r \in Role :
             /\ \A k \in DOMAIN buffer'.rows :
                    buffer'.rows[k][1] = r => buffer'.rows[k][2] <= heads'[r]
             /\ \A n \in 1..heads'[r] :
                    \/ n <= buffer'.floors[r]
                    \/ \E k \in DOMAIN buffer'.rows : buffer'.rows[k] = <<r, n>>
  BY FlushFacts DEF IInv
<1>3. <<>> \in Seq(Observation)
  BY EmptySeq
<1>4. TypeOK'
  BY <1>1, <1>2, <1>3 DEF IInv, TypeOK
<1>5. BufferFloored'
  BY <1>2 DEF BufferFloored
<1>6. HeadsAgree' /\ NumbersGiven' /\ AuditFloored' /\ LifeFloored' /\ Correlated'
  BY <1>1 DEF IInv, HeadsAgree, Durable, NumbersGiven, AuditFloored, LifeFloored, Visible,
              Correlated
<1>7. Undisturbed'
  <2>1. asked = {}
    BY <1>1 DEF IInv, Undisturbed
  <2> QED BY <1>1, <2>1 DEF Undisturbed
<1> QED BY <1>4, <1>5, <1>6, <1>7 DEF IInv

\* A cleanup tells the readers it meets.
LEMMA SweepInv ==
    ASSUME IInv, Sweep
    PROVE  IInv'
<1>1. /\ Durable /\ ~failed /\ pending = <<>>
      /\ asked' = {[a EXCEPT !.late = TRUE] : a \in asked}
      /\ UNCHANGED <<scene, run, tagged, pending, lifecycle, heads, failed, buffer, today>>
  BY DEF Sweep
<1>2. PICK gone, ended, bodies : Batched(gone, ended, bodies)
  BY SweepBatches
<1>3. db' \in Archive /\ db'.run = db.run /\ db'.tagged = db.tagged /\ db'.heads = db.heads
  BY <1>2, BatchedFacts DEF IInv
<1>4. NumbersGiven' /\ AuditFloored' /\ LifeFloored'
  BY <1>2, SweepArchive DEF IInv
<1>5. \A a \in asked' : a \in Question /\ a.late
  <2>1. \A a \in Question : /\ [a EXCEPT !.late = TRUE] \in Question
                            /\ [a EXCEPT !.late = TRUE].late
    BY DEF Question
  <2> QED BY <1>1, <2>1 DEF IInv, TypeOK
<1>6. TypeOK'
  BY <1>1, <1>3, <1>5 DEF IInv, TypeOK
<1>7. HeadsAgree' /\ BufferFloored' /\ Correlated'
  BY <1>1, <1>3 DEF IInv, HeadsAgree, BufferFloored, Durable, Correlated
<1>8. Undisturbed'
  BY <1>1, <1>5 DEF Undisturbed
<1> QED BY <1>4, <1>6, <1>7, <1>8 DEF IInv

\* A reader asks for the floor: every row it may see above it is there.
LEMMA AskInv ==
    ASSUME IInv, NEW r \in Role, NEW cursor \in 0..Len(db.events), AskFloor(r, cursor)
    PROVE  IInv'
<1>1. PICK question : question = [role |-> r, cursor |-> cursor, late |-> FALSE,
                                  truncated |-> cursor < db.lifecycleFloors[r]]
  OBVIOUS
<1>2. /\ pending = <<>> /\ asked' = {question}
      /\ UNCHANGED <<scene, run, tagged, pending, lifecycle, heads, failed, db, buffer, today>>
  BY <1>1 DEF AskFloor
<1>3. db.events \in Seq(LifeRow) /\ db.lifecycleFloors[r] \in Nat
  BY ArchiveFacts DEF IInv, TypeOK, Numbering
<1>4. question \in Question
  BY <1>1, <1>3 DEF Question
<1>5. TypeOK'
  BY <1>2, <1>4 DEF IInv, TypeOK
<1>6. /\ HeadsAgree' /\ NumbersGiven' /\ AuditFloored' /\ LifeFloored' /\ BufferFloored'
      /\ Correlated'
  BY <1>2 DEF IInv, HeadsAgree, Durable, NumbersGiven, AuditFloored, LifeFloored, Visible,
              BufferFloored, Correlated
<1>7. ASSUME ~question.truncated, NEW i \in DOMAIN db.events, i > question.cursor,
             Visible(db.events[i], question.role)
      PROVE  db.events[i].kept
  <2>1. i \in Nat /\ cursor \in Nat /\ i > cursor /\ ~ (cursor < db.lifecycleFloors[r])
    <3>1. question.cursor = cursor /\ question.truncated = (cursor < db.lifecycleFloors[r])
      BY <1>1
    <3>2. ~ (cursor < db.lifecycleFloors[r])
      BY <1>7, <3>1
    <3>3. i \in Nat /\ cursor \in Nat
      BY <1>3
    <3> QED BY <1>7, <3>1, <3>2, <3>3
  <2>2. ~ (i <= db.lifecycleFloors[r])
    BY <1>3, <2>1
  <2>3. Visible(db.events[i], r)
    BY <1>1, <1>7
  <2> QED BY <2>2, <2>3 DEF IInv, LifeFloored
<1>8. Undisturbed'
  BY <1>2, <1>7 DEF Undisturbed, Visible
<1> QED BY <1>5, <1>6, <1>8 DEF IInv

LEMMA RestInv ==
    ASSUME IInv, Answer \/ NewDay \/ UNCHANGED vars
    PROVE  IInv'
<1>1. /\ UNCHANGED <<scene, run, tagged, pending, lifecycle, heads, failed, db, buffer>>
      /\ asked' \subseteq asked /\ today' \in Nat
  BY DEF IInv, TypeOK, Answer, NewDay, vars
<1>2. TypeOK'
  BY <1>1 DEF IInv, TypeOK
<1>3. /\ HeadsAgree' /\ NumbersGiven' /\ AuditFloored' /\ LifeFloored' /\ BufferFloored'
      /\ Correlated' /\ Undisturbed'
  BY <1>1 DEF IInv, HeadsAgree, Durable, NumbersGiven, AuditFloored, LifeFloored, Visible,
              BufferFloored, Correlated, Undisturbed
<1> QED BY <1>2, <1>3 DEF IInv

LEMMA StepInv == IInv /\ [Next]_vars => IInv'
<1> SUFFICES ASSUME IInv, [Next]_vars PROVE IInv'
  OBVIOUS
<1>1. CASE Simulation
  BY <1>1, ObserveInv DEF Simulation, Observes
<1>2. CASE Commit
  BY <1>2, CommitInv
<1>3. CASE CommitFails
  BY <1>3, CommitFailsInv
<1>4. CASE Restart
  BY <1>4, RestartInv
<1>5. CASE FlushVolatile
  BY <1>5, FlushInv
<1>6. CASE Sweep
  BY <1>6, SweepInv
<1>7. CASE \E r \in Role, cursor \in 0..Len(db.events) : AskFloor(r, cursor)
  BY <1>7, AskInv
<1>8. CASE Answer \/ NewDay \/ UNCHANGED vars
  BY <1>8, RestInv
<1> QED BY <1>1, <1>2, <1>3, <1>4, <1>5, <1>6, <1>7, <1>8 DEF Next

LEMMA Invariance == Spec => []IInv
  BY InitInv, StepInv, PTL DEF Spec

--------------------------------------------------------------------------------
(* What the properties follow from.                                        *)

\* Numbers given to a role without gap and each to one row are as many rows.
LEMMA GivenAreCounted ==
    ASSUME IInv
    PROVE  NumbersAreNotReused
<1> SUFFICES ASSUME NEW r \in Role, NEW given,
                    given = {i \in DOMAIN db.audit : db.audit[i].numbers[r] # 0}
             PROVE  /\ {db.audit[i].numbers[r] : i \in given} = 1..db.heads[r]
                    /\ Cardinality(given) = db.heads[r]
  BY DEF NumbersAreNotReused
<1>1. db.heads[r] \in Nat /\ \A i \in DOMAIN db.audit : db.audit[i].numbers[r] \in Nat
  <2>1. db.heads \in Numbering /\ db.audit \in Seq(AuditRow)
    BY ArchiveFacts DEF IInv, TypeOK
  <2>2. \A i \in DOMAIN db.audit : db.audit[i] \in AuditRow
    BY <2>1
  <2> QED BY <2>1, <2>2 DEF AuditRow, Numbering
<1>2. /\ \A i \in DOMAIN db.audit : db.audit[i].numbers[r] <= db.heads[r]
      /\ \A n \in 1..db.heads[r] : \E i \in DOMAIN db.audit : db.audit[i].numbers[r] = n
      /\ \A i, j \in DOMAIN db.audit :
             db.audit[i].numbers[r] # 0 /\ db.audit[i].numbers[r] = db.audit[j].numbers[r]
                 => i = j
  BY DEF IInv, NumbersGiven, NumberedTo
<1>3. \A i \in given : db.audit[i].numbers[r] \in 1..db.heads[r]
  BY <1>1, <1>2
<1>4. \A n \in 1..db.heads[r] : \E i \in given : db.audit[i].numbers[r] = n
  <2> TAKE n \in 1..db.heads[r]
  <2>1. PICK i \in DOMAIN db.audit : db.audit[i].numbers[r] = n
    BY <1>2
  <2>2. n # 0
    BY <1>1
  <2> QED BY <2>1, <2>2
<1>5. {db.audit[i].numbers[r] : i \in given} = 1..db.heads[r]
  BY <1>3, <1>4
<1>6. PICK h \in Nat : h = db.heads[r]
  BY <1>1
<1>7. PICK f : f = [i \in given |-> db.audit[i].numbers[r]]
  OBVIOUS
<1>8. f \in Injection(given, 1..h)
  BY <1>2, <1>3, <1>6, <1>7 DEF Injection, IsInjective
<1>9. f \in Surjection(given, 1..h)
  BY <1>3, <1>4, <1>6, <1>7 DEF Surjection
<1>10. IsFiniteSet(1..h) /\ Cardinality(1..h) = h
  BY FS_Interval
<1>11. Cardinality(given) = h
  BY <1>8, <1>9, <1>10, FS_Injection
<1> QED BY <1>5, <1>6, <1>11

\* What a page is taken from: all the numbers above the floor.
LEMMA NumbersAboveFloor ==
    ASSUME IInv, NEW r \in Role
    PROVE  /\ Numbers(r) \subseteq Nat /\ Numbered(r) \in Nat /\ Floor(r) \in Nat
           /\ \A n \in Numbers(r) : n <= Numbered(r)
           /\ \A n \in 1..Numbered(r) : n <= Floor(r) \/ n \in Numbers(r)
<1>1. CASE Durable
  <2>1. /\ db.heads \in Numbering /\ db.floors \in Numbering /\ db.audit \in Seq(AuditRow)
    BY ArchiveFacts DEF IInv, TypeOK
  <2>2. \A i \in DOMAIN db.audit : db.audit[i] \in AuditRow
    BY <2>1
  <2>3. \A i \in DOMAIN db.audit : db.audit[i].numbers[r] \in Nat
    BY <2>2 DEF AuditRow, Numbering
  <2>4. NumberedTo(db.audit, db.heads, r)
    BY DEF IInv, NumbersGiven
  <2>5. Numbered(r) = db.heads[r] /\ Floor(r) = db.floors[r]
    BY <1>1 DEF Numbered, Floor
  <2>6. Numbers(r) = {db.audit[i].numbers[r] :
                         i \in {j \in DOMAIN db.audit : db.audit[j].kept}} \ {0}
    BY <1>1 DEF Numbers
  <2>7. ASSUME NEW n \in 1..db.heads[r] PROVE n <= db.floors[r] \/ n \in Numbers(r)
    <3>1. PICK i \in DOMAIN db.audit : db.audit[i].numbers[r] = n
      BY <2>4 DEF NumberedTo
    <3>2. n # 0
      BY <2>1 DEF Numbering
    <3>3. CASE db.audit[i].kept
      BY <2>6, <3>1, <3>2, <3>3
    <3>4. CASE ~db.audit[i].kept
      BY <3>1, <3>4 DEF IInv, AuditFloored
    <3> QED BY <3>3, <3>4
  <2>8. Numbered(r) \in Nat /\ Floor(r) \in Nat
    BY <2>1, <2>5 DEF Numbering
  <2>9. Numbers(r) \subseteq Nat /\ \A n \in Numbers(r) : n <= Numbered(r)
    BY <2>3, <2>4, <2>5, <2>6 DEF NumberedTo
  <2> QED BY <2>5, <2>7, <2>8, <2>9
<1>2. CASE ~Durable
  <2>1. /\ heads \in Numbering /\ buffer.floors \in Numbering
        /\ buffer.rows \in Seq(Role \X Nat)
    BY DEF IInv, TypeOK, Buffer
  <2>2. Numbered(r) = heads[r] /\ Floor(r) = buffer.floors[r]
    BY <1>2 DEF Numbered, Floor
  <2>3. Numbers(r) = {buffer.rows[i][2] :
                         i \in {j \in DOMAIN buffer.rows : buffer.rows[j][1] = r}}
    BY <1>2 DEF Numbers
  <2>4. \A k \in DOMAIN buffer.rows : buffer.rows[k] \in Role \X Nat
    BY <2>1
  <2>5. /\ \A k \in DOMAIN buffer.rows :
               buffer.rows[k][1] = r => buffer.rows[k][2] <= heads[r]
        /\ \A n \in 1..heads[r] : \/ n <= buffer.floors[r]
                                  \/ \E k \in DOMAIN buffer.rows : buffer.rows[k] = <<r, n>>
    BY <1>2 DEF IInv, BufferFloored
  <2>6. ASSUME NEW n \in 1..heads[r] PROVE n <= buffer.floors[r] \/ n \in Numbers(r)
    <3>1. CASE \E k \in DOMAIN buffer.rows : buffer.rows[k] = <<r, n>>
      <4>1. PICK k \in DOMAIN buffer.rows : buffer.rows[k] = <<r, n>>
        BY <3>1
      <4>2. buffer.rows[k][1] = r /\ buffer.rows[k][2] = n
        BY <4>1
      <4> QED BY <2>3, <4>2
    <3> QED BY <2>5, <3>1
  <2>7. Numbered(r) \in Nat /\ Floor(r) \in Nat
    BY <2>1, <2>2 DEF Numbering
  <2>8. Numbers(r) \subseteq Nat /\ \A n \in Numbers(r) : n <= Numbered(r)
    BY <2>2, <2>3, <2>4, <2>5
  <2> QED BY <2>2, <2>6, <2>7, <2>8
<1> QED BY <1>1, <1>2

\* One page of observations.
LEMMA PagesHaveNoGaps ==
    ASSUME IInv, NEW r \in Role, NEW cursor \in 0..Numbered(r), NEW page,
           page = AuditPage(r, cursor), ~page.truncated,
           NEW upto, upto = IF page.next = 0 THEN Numbered(r) ELSE page.next
    PROVE  (cursor + 1)..upto \subseteq page.events
<1>1. /\ Numbers(r) \subseteq Nat /\ Numbered(r) \in Nat /\ Floor(r) \in Nat
      /\ \A n \in Numbers(r) : n <= Numbered(r)
      /\ \A n \in 1..Numbered(r) : n <= Floor(r) \/ n \in Numbers(r)
  BY NumbersAboveFloor
<1>2. PICK matching : matching = {n \in Numbers(r) : n > cursor}
  OBVIOUS
<1>3. PICK events : events = Lowest(Limit, matching)
  OBVIOUS
<1>4. /\ page.events = events
      /\ page.next = IF events # matching THEN Max(events) ELSE 0
      /\ page.truncated = (cursor < Floor(r))
  BY <1>2, <1>3 DEF AuditPage
<1>5. cursor \in Nat /\ ~ (cursor < Floor(r))
  <2>1. cursor \in Nat
    BY <1>1
  <2>2. ~ (cursor < Floor(r))
    BY <1>4
  <2> QED BY <2>1, <2>2
<1>6. PICK top \in Nat : top = Numbered(r)
  BY <1>1
<1>7. matching \subseteq Nat /\ \A n \in matching : n <= top
  BY <1>1, <1>2, <1>6
<1>8. /\ events \subseteq matching
      /\ \A i \in events, j \in matching : j <= i => j \in events
      /\ matching # {} => events # {}
  BY <1>3, <1>7, ConstantFacts, LowestFacts
<1>9. ASSUME NEW n \in Nat, cursor < n, n <= top PROVE n \in matching
  <2>1. n \in 1..Numbered(r) /\ ~ (n <= Floor(r))
    BY <1>1, <1>5, <1>6, <1>9
  <2> QED BY <1>1, <1>2, <1>9, <2>1
<1>10. CASE events = matching
  <2>1. upto = top
    BY <1>4, <1>6, <1>10
  <2> QED BY <1>4, <1>5, <1>9, <1>10, <2>1
<1>11. CASE events # matching
  <2>1. events # {} /\ events \subseteq Nat /\ \A n \in events : n <= top
    BY <1>7, <1>8, <1>11
  <2>2. PICK last : last = Max(events)
    OBVIOUS
  <2>3. last \in events
    BY <1>6, <2>1, <2>2, Maximum
  <2>4. last \in Nat /\ last <= top /\ cursor < last
    BY <1>2, <1>7, <1>8, <2>3
  <2>5. upto = last
    BY <1>4, <1>5, <1>11, <2>2, <2>4
  <2>6. ASSUME NEW n \in (cursor + 1)..last PROVE n \in events
    <3>1. n \in Nat /\ cursor < n /\ n <= last /\ n <= top
      BY <1>5, <2>4
    <3>2. n \in matching
      BY <1>9, <3>1
    <3> QED BY <1>8, <2>3, <3>1, <3>2
  <2> QED BY <1>4, <2>5, <2>6
<1> QED BY <1>10, <1>11

LEMMA GapsTold ==
    ASSUME IInv
    PROVE  GapsAreTold
<1>1. ASSUME NEW r \in Role, NEW cursor \in 0..Numbered(r)
      PROVE  LET page == AuditPage(r, cursor)
                 upto == IF page.next = 0 THEN Numbered(r) ELSE page.next
             IN  page.truncated \/ (cursor + 1)..upto \subseteq page.events
  BY PagesHaveNoGaps
<1>2. ASSUME NEW a \in asked, ~a.truncated, ~a.late,
             NEW i \in (a.cursor + 1)..Len(db.events), Visible(db.events[i], a.role)
      PROVE  i \in HistoryPage(a.role, a.cursor)
  <2>1. db.events \in Seq(LifeRow) /\ a.cursor \in Nat
    BY ArchiveFacts DEF IInv, TypeOK, Question
  <2>2. i \in DOMAIN db.events /\ i > a.cursor
    BY <2>1
  <2>3. db.events[i].kept
    BY <1>2, <2>2 DEF IInv, Undisturbed
  <2> QED BY <1>2, <2>2, <2>3 DEF HistoryPage
<1> QED BY <1>1, <1>2 DEF GapsAreTold

\* What is quiet, of a game whose packets in the air are known, is over.
LEMMA QuietIsOver ==
    ASSUME IInv, RetentionSafe, ~failed, NEW key \in Key, Quiet(key)
    PROVE  ~GoesOn(key)
<1>1. PICK m \in Message : key = <<"message", m>> \/ key = <<"packet", m>>
  BY KeyFacts
<1>2. key \notin Active
  BY DEF Quiet
<1>3. m \notin tagged
  BY <1>1, <1>2 DEF Active, Tracked
<1>4. m \notin run.air
  <2>1. CASE scene = "upgraded"
    BY <2>1 DEF RetentionSafe
  <2>2. CASE scene # "upgraded"
    BY <1>3, <2>2 DEF IInv, Correlated
  <2> QED BY <2>1, <2>2
<1>5. ~ (key[1] = "message" /\ key[2] \in run.open)
  BY <1>1, <1>2 DEF Active, Tracked
<1>6. key[2] = m
  BY <1>1
<1> QED BY <1>4, <1>5, <1>6 DEF GoesOn, Quiet

OnlyTheDead ==
    /\ \A i \in DOMAIN db.audit :
           db.audit[i].kept /\ ~db'.audit[i].kept => ~GoesOn(db.audit[i].key)
    /\ \A i \in DOMAIN db.events :
           db.events[i].kept /\ ~db'.events[i].kept
               => ~GoesOn(<<"message", db.events[i].message>>)
    /\ \A m \in db.bodies \ db'.bodies :
           Rows(<<"message", m>>)' = {} /\ Lives(<<"message", m>>)' = {}

LEMMA SweepForgetsTheDead ==
    ASSUME IInv, Sweep
    PROVE  OnlyTheDead
<1>1. PICK gone, ended, bodies : Batched(gone, ended, bodies)
  BY SweepBatches
<1>2. db.audit \in Seq(AuditRow) /\ db.events \in Seq(LifeRow)
  BY ArchiveFacts DEF IInv, TypeOK
<1>3. /\ db'.audit = ForgetAll(db.audit, gone) /\ db'.events = ForgetAll(db.events, ended)
      /\ db'.bodies = db.bodies \ bodies
  BY <1>1, BatchedFacts DEF IInv
<1>4. /\ DOMAIN db'.audit = DOMAIN db.audit
      /\ \A i \in DOMAIN db.audit : /\ db'.audit[i].key = db.audit[i].key
                                    /\ i \in gone => ~db'.audit[i].kept
                                    /\ i \notin gone => db'.audit[i] = db.audit[i]
  BY <1>2, <1>3, ForgetAudit
<1>5. /\ DOMAIN db'.events = DOMAIN db.events
      /\ \A i \in DOMAIN db.events : /\ db'.events[i].message = db.events[i].message
                                     /\ i \in ended => ~db'.events[i].kept
                                     /\ i \notin ended => db'.events[i] = db.events[i]
  BY <1>2, <1>3, ForgetLives
<1>6. RetentionSafe /\ ~failed
  BY DEF Sweep
<1>7. ASSUME NEW i \in DOMAIN db.audit, db.audit[i].kept, ~db'.audit[i].kept
      PROVE  ~GoesOn(db.audit[i].key)
  <2>1. i \in gone
    BY <1>4, <1>7
  <2>2. Quiet(db.audit[i].key)
    BY <1>1, <2>1 DEF Batched
  <2>3. db.audit[i].key \in Key
    <3>1. db.audit[i] \in AuditRow
      BY <1>2
    <3> QED BY <3>1 DEF AuditRow
  <2> QED BY <1>6, <2>2, <2>3, QuietIsOver
<1>8. ASSUME NEW i \in DOMAIN db.events, db.events[i].kept, ~db'.events[i].kept
      PROVE  ~GoesOn(<<"message", db.events[i].message>>)
  <2>1. i \in ended
    BY <1>5, <1>8
  <2>2. Quiet(<<"message", db.events[i].message>>)
    BY <1>1, <2>1 DEF Batched
  <2>3. <<"message", db.events[i].message>> \in Key
    <3>1. db.events[i] \in LifeRow
      BY <1>2
    <3> QED BY <3>1, KeyFacts DEF LifeRow
  <2> QED BY <1>6, <2>2, <2>3, QuietIsOver
<1>9. ASSUME NEW m \in db.bodies \ db'.bodies
      PROVE  Rows(<<"message", m>>)' = {} /\ Lives(<<"message", m>>)' = {}
  <2>1. m \in bodies
    BY <1>3
  <2>2. Lives(<<"message", m>>) \subseteq ended /\ Rows(<<"message", m>>) \subseteq gone
    BY <1>1, <2>1 DEF Batched
  <2>3. ASSUME NEW i \in DOMAIN db'.audit, db'.audit[i].kept,
               db'.audit[i].key = <<"message", m>>
        PROVE  FALSE
    <3>1. i \notin gone /\ i \in DOMAIN db.audit /\ db'.audit[i] = db.audit[i]
      BY <1>4, <2>3
    <3>2. i \in Rows(<<"message", m>>)
      BY <2>3, <3>1 DEF Rows
    <3> QED BY <2>2, <3>1, <3>2
  <2>4. ASSUME NEW i \in DOMAIN db'.events, db'.events[i].kept,
               <<"message", m>> = <<"message", db'.events[i].message>>
        PROVE  FALSE
    <3>1. i \notin ended /\ i \in DOMAIN db.events /\ db'.events[i] = db.events[i]
      BY <1>5, <2>4
    <3>2. i \in Lives(<<"message", m>>)
      BY <2>4, <3>1 DEF Lives
    <3> QED BY <2>2, <3>1, <3>2
  <2> QED BY <2>3, <2>4 DEF Rows, Lives
<1> QED BY <1>7, <1>8, <1>9 DEF OnlyTheDead

\* A commit forgets nothing.
LEMMA CommitForgetsNothing ==
    ASSUME TypeOK, db' = Stored
    PROVE  OnlyTheDead
<1>1. /\ db'.audit = db.audit \o AuditRecords(Prepare(pending))
      /\ db'.events = db.events \o LifecycleRecords
      /\ db'.bodies = db.bodies \cup Bodies
      /\ AuditRecords(Prepare(pending)) \in Seq(AuditRow) /\ LifecycleRecords \in Seq(LifeRow)
  BY StoredFacts
<1>2. db.audit \in Seq(AuditRow) /\ db.events \in Seq(LifeRow)
  BY ArchiveFacts DEF TypeOK
<1>3. \A i \in DOMAIN db.audit : db'.audit[i] = db.audit[i]
  BY <1>1, <1>2, Behind
<1>4. \A i \in DOMAIN db.events : db'.events[i] = db.events[i]
  BY <1>1, <1>2, Behind
<1>5. db.bodies \ db'.bodies = {}
  BY <1>1
<1> QED BY <1>3, <1>4, <1>5 DEF OnlyTheDead

LEMMA StepForgetsTheDead == IInv /\ [Next]_vars => [OnlyTheDead]_vars
<1> SUFFICES ASSUME IInv, [Next]_vars PROVE [OnlyTheDead]_vars
  OBVIOUS
<1>1. CASE Sweep
  BY <1>1, SweepForgetsTheDead
<1>2. CASE db' = Stored
  BY <1>2, CommitForgetsNothing DEF IInv
<1>3. CASE db' = db
  <2>1. OnlyTheDead
    BY <1>3 DEF OnlyTheDead
  <2> QED BY <2>1
<1>4. db' = db \/ db' = Stored \/ Sweep
  <2>1. CASE Simulation
    <3>1. PICK m \in Message : Observes(m)
      BY <2>1 DEF Simulation, Observes
    <3>2. UNCHANGED Rest
      BY <3>1, ObserveFacts DEF IInv
    <3> QED BY <3>2 DEF Rest
  <2> QED BY <2>1 DEF Next, Commit, CommitFails, Restart, FlushVolatile, NewDay, AskFloor,
              Answer, vars
<1> QED BY <1>1, <1>2, <1>3, <1>4

--------------------------------------------------------------------------------
(* Theorems.                                                                *)

\* Every variable keeps its type, whatever fails, crashes, fills up or is forgotten.
THEOREM TypeCorrect == Spec => []TypeOK
  BY Invariance, PTL DEF IInv

\* audit::prepare and recovery number the observations of a role without gap and
\* never twice, after failed commits, crashes and cleanups.
THEOREM NumbersAreNotReusedHolds == Spec => []NumbersAreNotReused
  BY Invariance, GivenAreCounted, PTL

\* Whoever reads on from a cursor, page by page, gets every observation or is told;
\* with a database and without one, for any capacity, page and batch.
THEOREM GapsAreToldHolds == Spec => []GapsAreTold
  BY Invariance, GapsTold, PTL

\* Cleanup forgets nothing that goes on, and no body before its rows.
THEOREM OnlyDeadHistoryGoesHolds == Spec => OnlyDeadHistoryGoes
<1>1. IInv /\ [Next]_vars => [OnlyTheDead]_vars
  BY StepForgetsTheDead
<1>2. Spec => [][OnlyTheDead]_vars
  BY <1>1, Invariance, PTL DEF Spec
<1> QED BY <1>2 DEF OnlyDeadHistoryGoes, OnlyTheDead

==============================================================================
