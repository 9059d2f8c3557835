----------------------- MODULE DecisionAssemblyProofs -----------------------
(***************************************************************************)
(* Theorems about the assembly of a decision, for every set of capsules,   *)
(* obligations and problems, every limit and every weight.                 *)
(*                                                                         *)
(* On(a, D) is the evaluation as it is for arm a with the disputes D.  The *)
(* trial of an arm and the evaluation of the contract that is served are   *)
(* two runs of it; that they dispute the same pairs (OneMatching) is why   *)
(* what passed its trial is not refused for its size later.                *)
(***************************************************************************)
EXTENDS DecisionAssembly, FiniteSetTheorems, WellFoundedInduction, TLAPS

On(a, D) == INSTANCE SelectionEvaluation WITH arm <- a, disputed <- D

-----------------------------------------------------------------------------
(* A set of numbers has a least element.                                   *)
LEMMA LeastNatural ==
  ASSUME NEW T \in SUBSET Nat, T # {}
  PROVE  \E x \in T : \A y \in T : x =< y
  <1> DEFINE Less == {p \in Nat \X Nat : p[1] < p[2]}
  <1>1. IsWellFoundedOn(Less, Nat)
    BY NatLessThanWellFounded DEF OpToRel
  <1>2. \A x, y \in Nat : x < y => <<x, y>> \in Less
    OBVIOUS
  <1> HIDE DEF Less
  <1>3. PICK x \in T : \A y \in T : <<y, x>> \notin Less
    BY <1>1, WFMin
  <1>4. \A y \in T : ~(y < x)
    BY <1>2, <1>3
  <1> QED
    BY <1>4

(* A set of pairs that is not empty has a pair that no other is earlier    *)
(* than.                                                                   *)
LEMMA EarliestPair ==
  ASSUME NEW T \in SUBSET (Nat \X Nat), T # {}
  PROVE  \E p \in T : \A q \in T : ~Earlier(q, p)
  <1>1. PICK n \in Nat : /\ \E p \in T : p[1] = n
                         /\ \A q \in T : n =< q[1]
    <2> DEFINE N == {n \in Nat : \E p \in T : p[1] = n}
    <2>1. N \in SUBSET Nat /\ N # {} /\ \A q \in T : q[1] \in N
      OBVIOUS
    <2>2. PICK n \in N : \A m \in N : n =< m
      BY <2>1, LeastNatural
    <2> QED
      BY <2>1, <2>2
  <1> DEFINE U == {p \in T : p[1] = n}
             Named == {p \in U : p \in problem.conflicts}
             V == IF Named = {} THEN U ELSE Named
             M == {m \in Nat : \E p \in V : p[2] = m}
  <1>2. M \in SUBSET Nat /\ M # {} /\ \A q \in V : q[2] \in M
    BY <1>1
  <1>3. PICK m \in M : \A k \in M : m =< k
    <2> HIDE DEF M
    <2> QED
      BY <1>2, LeastNatural
  <1>4. PICK p \in V : p[2] = m
    BY <1>3
  <1>5. \A q \in V : p[2] =< q[2] /\ q[2] \in Nat /\ p[2] \in Nat
    BY <1>2, <1>3, <1>4
  <1>6. p \in T /\ p[1] = n
    BY <1>4
  <1>7. ASSUME NEW q \in T, Earlier(q, p)
        PROVE  FALSE
    <2>1. q[1] = n
      BY <1>1, <1>6, <1>7 DEF Earlier
    <2>2. q \in U
      BY <2>1
    <2>3. CASE Named = {}
      <3>1. V = U /\ p \notin problem.conflicts /\ q \notin problem.conflicts
        BY <1>4, <2>2, <2>3
      <3> QED
        BY <1>5, <1>6, <1>7, <2>1, <2>2, <3>1 DEF Earlier
    <2>4. CASE Named # {}
      <3>1. V = Named /\ p \in problem.conflicts
        BY <1>4, <2>4
      <3>2. q \in problem.conflicts
        BY <1>6, <1>7, <2>1, <3>1 DEF Earlier
      <3>3. q \in V
        BY <2>2, <3>1, <3>2
      <3> QED
        BY <1>5, <1>6, <1>7, <2>1, <3>1, <3>2, <3>3 DEF Earlier
    <2> QED
      BY <2>3, <2>4
  <1> QED
    BY <1>6, <1>7

(* Two pairs of numbers are the same or one of them is earlier.            *)
LEMMA EarlierTotal ==
  ASSUME NEW p \in Nat \X Nat, NEW q \in Nat \X Nat
  PROVE  p = q \/ Earlier(p, q) \/ Earlier(q, p)
  BY DEF Earlier

-----------------------------------------------------------------------------
(* The pairs P are disputed one by one, each time the earliest of those    *)
(* that meet no pair disputed so far.  D is what is disputed then: no two  *)
(* pairs of D meet, and a pair that is earlier than one of D is blocked by *)
(* one that is earlier still.                                              *)
Meets(p, q) == {p[1], p[2]} \cap {q[1], q[2]} # {}
Before(p, q) == p = q \/ Earlier(p, q)

Matching(P, D) ==
  /\ D \subseteq P
  /\ \A p, q \in D : Meets(p, q) => p = q
  /\ \A q \in P : (\E r \in D : Earlier(q, r)) => \E r \in D : Meets(r, q) /\ Before(r, q)

(* No pair is left that meets none of D.                                   *)
Maximal(P, D) == \A q \in P : \E r \in D : Meets(r, q)

(* Half of OneMatching: a pair of D that E lacks has an earlier one like   *)
(* it, in one of the two.                                                  *)
LEMMA EarlierDifference ==
  ASSUME NEW P \in SUBSET (Nat \X Nat), NEW D, NEW E,
         Matching(P, D), Matching(P, E), Maximal(P, E),
         NEW p \in D \ E
  PROVE  \E q \in (D \ E) \cup (E \ D) : Earlier(q, p)
  <1>1. p \in P /\ p \in Nat \X Nat /\ E \subseteq P
    BY DEF Matching
  <1>2. PICK r \in E : Meets(r, p)
    BY <1>1 DEF Maximal
  <1>3. r # p /\ r \in Nat \X Nat
    BY <1>1, <1>2
  <1>4. ASSUME NEW x \in E, Meets(x, p)
        PROVE  x \notin D
    <2>1. x \in D => x = p
      BY <1>4 DEF Matching
    <2> QED
      BY <2>1
  <1>5. CASE Earlier(r, p)
    BY <1>2, <1>4, <1>5
  <1>6. CASE Earlier(p, r)
    <2>1. PICK x \in E : Meets(x, p) /\ Before(x, p)
      BY <1>1, <1>2, <1>6 DEF Matching
    <2> QED
      BY <1>4, <2>1 DEF Before
  <1> QED
    BY <1>1, <1>3, <1>5, <1>6, EarlierTotal

(* However the disputes went, they end at the same set.                    *)
LEMMA OneMatching ==
  ASSUME NEW P \in SUBSET (Nat \X Nat), NEW D, NEW E,
         Matching(P, D), Maximal(P, D), Matching(P, E), Maximal(P, E)
  PROVE  D = E
  <1> DEFINE T == (D \ E) \cup (E \ D)
  <1> SUFFICES ASSUME T # {} PROVE FALSE
    OBVIOUS
  <1>1. T \in SUBSET (Nat \X Nat)
    BY DEF Matching
  <1>2. PICK p \in T : \A q \in T : ~Earlier(q, p)
    <2> HIDE DEF T
    <2> QED
      BY <1>1, EarliestPair
  <1>3. CASE p \in D \ E
    BY <1>2, <1>3, EarlierDifference
  <1>4. CASE p \in E \ D
    BY <1>2, <1>4, EarlierDifference
  <1> QED
    BY <1>2, <1>3, <1>4

(* Disputing the earliest pair that is open keeps a matching.              *)
LEMMA MatchingStep ==
  ASSUME NEW P \in SUBSET (Nat \X Nat), NEW D, Matching(P, D),
         NEW p \in P, \A r \in D : ~Meets(r, p),
         \A q \in P : Earlier(q, p) => \E r \in D : Meets(r, q)
  PROVE  Matching(P, D \cup {p})
  <1> DEFINE E == D \cup {p}
  <1>1. E \subseteq P
    BY DEF Matching
  <1>2. \A x, y \in E : Meets(x, y) => x = y
    BY DEF Matching, Meets
  <1>3. ASSUME NEW q \in P, NEW r \in E, Earlier(q, r)
        PROVE  \E x \in E : Meets(x, q) /\ Before(x, q)
    <2>1. CASE r \in D
      BY <1>3, <2>1 DEF Matching
    <2>2. CASE r = p
      <3>1. PICK x \in D : Meets(x, q)
        BY <1>3, <2>2
      <3>2. x \in P /\ q \in Nat \X Nat /\ x \in Nat \X Nat
        BY DEF Matching
      <3>3. CASE Earlier(q, x)
        BY <3>3 DEF Matching
      <3> QED
        BY <3>1, <3>2, <3>3, EarlierTotal DEF Before
    <2> QED
      BY <2>1, <2>2
  <1> QED
    BY <1>1, <1>2, <1>3 DEF Matching

-----------------------------------------------------------------------------
(* The component of a candidate is the least closed set that holds it.     *)
LEMMA ComponentLeast ==
  ASSUME NEW c \in Source
  PROVE  /\ c \in Component(c) /\ Component(c) \subseteq Source
         /\ Closed(Component(c))
         /\ \A S \in SUBSET Source : c \in S /\ Closed(S) => Component(c) \subseteq S
  BY DEF Component, Closed

(* Retrieval takes whole components, which stay within one lane.           *)
LEMMA ComponentLane ==
  ASSUME RelationsHold, NEW c \in Source, NEW d \in Component(c)
  PROVE  d \in Source /\ Facts(d).lane = Facts(c).lane
  <1> DEFINE S == {e \in Source : Facts(e).lane = Facts(c).lane}
  <1>1. Closed(S)
    BY DEF Closed, Linked, RelationsHold
  <1> QED
    BY <1>1 DEF Component

LEMMA ClosedUnion ==
  ASSUME NEW S, NEW T, Closed(S), Closed(T)
  PROVE  Closed(S \cup T)
  BY DEF Closed

LEMMA ProtectedClosed ==
  /\ Protected \subseteq Source /\ ProtectedSeeds \subseteq Protected
  /\ Closed(Protected)
  <1>1. ProtectedSeeds \subseteq Source
    BY DEF ProtectedSeeds
  <1>2. \A c \in Protected : \E s \in ProtectedSeeds : c \in Component(s)
    BY DEF Protected
  <1>3. \A s \in ProtectedSeeds : Component(s) \subseteq Protected
    BY DEF Protected
  <1>4. Closed(Protected)
    <2> SUFFICES ASSUME NEW c \in Protected, NEW d \in Source, Linked(c, d)
                 PROVE  d \in Protected
      BY DEF Closed
    <2>1. PICK s \in ProtectedSeeds : c \in Component(s)
      BY <1>2
    <2>2. d \in Component(s)
      BY <1>1, <2>1, ComponentLeast DEF Closed
    <2> QED
      BY <1>3, <2>2
  <1> QED
    BY <1>1, <1>2, <1>3, <1>4, ComponentLeast

LEMMA InLaneFinite ==
  ASSUME NEW S, S \subseteq Capsules, NEW l
  PROVE  /\ IsFiniteSet(InLane(S, l)) /\ Cardinality(InLane(S, l)) \in Nat
         /\ \A T \in SUBSET S : Cardinality(InLane(T, l)) =< Cardinality(InLane(S, l))
  <1>1. IsFiniteSet(Capsules)
    BY RetrievalAssumption
  <1>2. InLane(S, l) \subseteq Capsules
    BY DEF InLane
  <1>3. IsFiniteSet(InLane(S, l))
    BY <1>1, <1>2, FS_Subset
  <1>4. \A T \in SUBSET S : InLane(T, l) \subseteq InLane(S, l)
    BY DEF InLane
  <1> QED
    BY <1>3, <1>4, FS_Subset, FS_CardinalityType

-----------------------------------------------------------------------------
(* What retrieval owes the evaluator of the arm under evaluation.          *)
Retained(K) ==
  /\ K \subseteq Source /\ Closed(K) /\ ProtectedSeeds \subseteq K
  /\ \A l \in Lanes : Cardinality(InLane(K, l)) =< LaneLimit[l]

LEMMA SourceSame ==
  ASSUME UNCHANGED <<problem, arm>>
  PROVE  /\ \A c : Facts(c)' = Facts(c) /\ Disposition(c)' = Disposition(c)
         /\ \A c : Live(c)' = Live(c) /\ Guarding(c)' = Guarding(c)
         /\ \A c, d : Linked(c, d)' = Linked(c, d)
         /\ Source' = Source /\ ProtectedSeeds' = ProtectedSeeds
         /\ RelationsHold' = RelationsHold
         /\ \A S : Closed(S)' = Closed(S)
         /\ \A S, l : InLane(S, l)' = InLane(S, l)
  <1>1. \A c : Facts(c)' = Facts(c) /\ Disposition(c)' = Disposition(c)
    BY DEF Facts, Disposition
  <1>2. \A c : Live(c)' = Live(c) /\ Guarding(c)' = Guarding(c)
    BY <1>1 DEF Live, Guarding, Applicable, AuditOnly
  <1>3. \A c, d : Linked(c, d)' = Linked(c, d)
    BY DEF Linked, Relations
  <1>4. Source' = Source
    BY <1>1 DEF Source
  <1>5. ProtectedSeeds' = ProtectedSeeds
    BY <1>1, <1>2, <1>4 DEF ProtectedSeeds
  <1>6. RelationsHold' = RelationsHold
    BY <1>1, <1>4 DEF RelationsHold, Relations
  <1>7. \A S : Closed(S)' = Closed(S)
    BY <1>3, <1>4 DEF Closed
  <1>8. \A S, l : InLane(S, l)' = InLane(S, l)
    BY <1>1 DEF InLane
  <1> QED
    BY <1>1, <1>2, <1>3, <1>4, <1>5, <1>6, <1>7, <1>8

LEMMA RetainedNext ==
  ASSUME NEW K, Retained(K), UNCHANGED <<problem, arm>>, kept'[arm] = K
  PROVE  Retained(kept[arm])'
  BY SourceSame DEF Retained

(* Protecting what must be seen.                                           *)
LEMMA ProtectStep ==
  ASSUME TypeOK, Protect
  PROVE  Retained(kept[arm])' /\ RelationsHold' /\ (pool \subseteq InLane(Source, lane))'
  <1>1. UNCHANGED <<problem, arm>> /\ kept'[arm'] = Protected
    BY DEF Protect, TypeOK
  <1>2. Retained(Protected)
    <2>1. \A l \in Lanes : /\ Cardinality(InLane(Protected, l)) \in Nat
                           /\ Cardinality(InLane(Protected, l)) =< LaneLimit[l]
      <3>1. Protected \subseteq Capsules
        BY ProtectedClosed DEF Source
      <3>2. \A l \in Lanes : Cardinality(InLane(Protected, l)) \in Nat
        BY <3>1, InLaneFinite
      <3>3. \A l \in Lanes : ~(Cardinality(InLane(Protected, l)) > LaneLimit[l])
        BY DEF Protect, Overflow
      <3>4. \A l \in Lanes : LaneLimit[l] \in Nat
        BY RetrievalAssumption
      <3> QED
        BY <3>2, <3>3, <3>4
    <2> QED
      BY <2>1, ProtectedClosed DEF Retained
  <1>3. Retained(kept[arm])'
    BY <1>1, <1>2, RetainedNext
  <1>4. pool' \subseteq InLane(Source, lane')
    BY DEF Protect, Unseen, InLane
  <1> QED
    BY <1>1, <1>2, <1>3, <1>4, SourceSame DEF Protect

(* One look at a seed: its component fits the lane or is passed over.      *)
LEMMA TakeStep ==
  ASSUME TypeOK, Retained(kept[arm]), RelationsHold, pool \subseteq InLane(Source, lane),
         NEW c \in pool, TakeComponent(c), UNCHANGED <<problem, arm, lane>>
  PROVE  Retained(kept[arm])' /\ RelationsHold' /\ (pool \subseteq InLane(Source, lane))'
  <1> DEFINE K == kept[arm]
             whole == Component(c)
  <1>1. c \in Source /\ Facts(c).lane = lane /\ lane \in Lanes /\ kept \in [Arms -> SUBSET Capsules]
        /\ arm \in Arms
    BY DEF InLane, TypeOK
  <1>2. pool' \subseteq pool
    BY DEF TakeComponent
  <1>3. CASE Fits(whole)
    <2>1. kept'[arm] = K \cup whole
      BY <1>1, <1>3 DEF TakeComponent
    <2>2. K \cup whole \subseteq Source /\ Closed(K \cup whole) /\ ProtectedSeeds \subseteq K \cup whole
      BY <1>1, ComponentLeast, ClosedUnion DEF Retained
    <2>3. ASSUME NEW l \in Lanes, l # lane
          PROVE  InLane(K \cup whole, l) = InLane(K, l)
      BY <1>1, <2>3, ComponentLane DEF InLane
    <2>4. \A l \in Lanes : Cardinality(InLane(K \cup whole, l)) =< LaneLimit[l]
      BY <1>3, <2>3 DEF Fits, Retained
    <2>5. Retained(K \cup whole)
      BY <2>2, <2>4 DEF Retained
    <2> QED
      BY <1>2, <2>1, <2>5, RetainedNext, SourceSame
  <1>4. CASE ~Fits(whole)
    <2>1. kept'[arm] = K
      BY <1>4 DEF TakeComponent
    <2> QED
      BY <1>2, <2>1, RetainedNext, SourceSame
  <1> QED
    BY <1>3, <1>4

(* Turning to the next pool.                                               *)
LEMMA PoolStep ==
  ASSUME TypeOK, Retained(kept[arm]), RelationsHold, NextPool
  PROVE  Retained(kept[arm])' /\ RelationsHold' /\ (pool \subseteq InLane(Source, lane))'
  <1>1. UNCHANGED <<problem, arm, kept>>
    BY DEF NextPool
  <1>2. pool' \subseteq InLane(Source, lane')
    BY DEF NextPool, UnseenAudit, Unseen, InLane
  <1> QED
    BY <1>1, <1>2, RetainedNext, SourceSame

-----------------------------------------------------------------------------
(* What is prepared and eligible follows from the problem, the arm and     *)
(* what retrieval kept for it.                                             *)
LEMMA EligibleSame ==
  ASSUME UNCHANGED <<problem, arm, kept>>
  PROVE  /\ Prepared' = Prepared /\ Rehydrations' = Rehydrations
         /\ SupersessionValid' = SupersessionValid
         /\ Current' = Current /\ Eligible' = Eligible
         /\ \A c : BaseSurface(c)' = BaseSurface(c) /\ Satisfied(c)' = Satisfied(c)
         /\ \A c, d : Conflict(c, d)' = Conflict(c, d) /\ Shared(c, d)' = Shared(c, d)
         /\ \A p, q : Earlier(p, q)' = Earlier(p, q)
  <1>1. /\ \A c : Facts(c)' = Facts(c) /\ Disposition(c)' = Disposition(c)
        /\ \A c : Applicable(c)' = Applicable(c)
        /\ Universe' = Universe
    BY SourceSame DEF Universe, Applicable
  <1>2. \A spec : Status(spec)' = Status(spec)
    BY DEF Status, Usable
  <1>3. \A c, status : Some(c, status)' = Some(c, status)
    BY <1>1, <1>2 DEF Some
  <1>4. \A c : Satisfied(c)' = Satisfied(c)
    BY <1>3 DEF Satisfied
  <1>5. \A c : Unprobed(c)' = Unprobed(c)
    BY <1>1 DEF Unprobed
  <1>6. \A c : Servable(c)' = Servable(c) /\ Archived(c)' = Archived(c)
    BY <1>1 DEF Servable, Archived
  <1>7. Prepared' = Prepared /\ Rehydrations' = Rehydrations
    BY <1>1, <1>6 DEF Prepared, Rehydrations
  <1>8. \A c : BaseSurface(c)' = BaseSurface(c)
    BY <1>1, <1>3, <1>5 DEF BaseSurface
  <1>9. \A c, d : Superseding(c, d)' = Superseding(c, d)
    BY <1>7 DEF Superseding
  <1>10. SupersessionValid' = SupersessionValid
    BY <1>1, <1>7, <1>9 DEF SupersessionValid
  <1>11. Superseded' = Superseded
    BY <1>7, <1>9 DEF Superseded
  <1>12. Current' = Current
    BY <1>7, <1>11 DEF Current
  <1>13. \A c, d : Conflict(c, d)' = Conflict(c, d) /\ Contend(c, d)' = Contend(c, d)
    BY <1>8 DEF Conflict, Contend
  <1>14. Outranked' = Outranked
    BY <1>1, <1>12, <1>13 DEF Outranked
  <1>15. Eligible' = Eligible
    BY <1>12, <1>14 DEF Eligible
  <1>16. \A c, d : Shared(c, d)' = Shared(c, d)
    BY <1>1 DEF Shared
  <1>17. \A p, q : Earlier(p, q)' = Earlier(p, q)
    BY DEF Earlier
  <1> QED
    BY <1>4, <1>7, <1>8, <1>10, <1>12, <1>13, <1>15, <1>16, <1>17

(* What is shown and how follows from that and from the disputes.          *)
LEMMA SurfaceSame ==
  ASSUME UNCHANGED <<problem, arm, kept, disputed>>
  PROVE  /\ \A c : Disputed(c)' = Disputed(c) /\ Surface(c)' = Surface(c)
         /\ Mandatory' = Mandatory /\ Disputes' = Disputes /\ Unresolved' = Unresolved
         /\ \A c, o : Covers(c, o)' = Covers(c, o)
  <1>1. \A c : Disputed(c)' = Disputed(c)
    BY DEF Disputed
  <1>2. \A c : Surface(c)' = Surface(c)
    BY <1>1, EligibleSame DEF Surface
  <1>3. Mandatory' = Mandatory
    BY <1>1, EligibleSame DEF Mandatory
  <1>4. Disputes' = Disputes
    BY <1>2, EligibleSame, SourceSame DEF Disputes
  <1>5. Unresolved' = Unresolved
    BY EligibleSame DEF Unresolved
  <1>6. \A c, o : Covers(c, o)' = Covers(c, o)
    BY <1>2, EligibleSame, SourceSame DEF Covers
  <1> QED
    BY <1>1, <1>2, <1>3, <1>4, <1>5, <1>6

LEMMA CostSame ==
  ASSUME UNCHANGED <<problem, arm, kept, served>>
  PROVE  \A S : Cost(S)' = Cost(S)
  <1>1. \A c : Bytes(c)' = Bytes(c)
    BY DEF Bytes, Facts
  <1>2. \A c : Part(c)' = Part(c)
    BY <1>1 DEF Part
  <1>3. \A S : Size(S)' = Size(S)
    BY <1>2 DEF Size
  <1>4. Frame' = Frame /\ RefsBytes' = RefsBytes
    BY EligibleSame DEF Frame, RefsBytes
  <1> QED
    BY <1>3, <1>4 DEF Cost

-----------------------------------------------------------------------------
(* More capsules cost more.                                                *)
LEMMA SizeGrows ==
  ASSUME problem \in Problems, NEW T \in SUBSET Capsules, NEW S \in SUBSET T
  PROVE  Size(S) \in Nat /\ Size(T) \in Nat /\ Size(S) =< Size(T)
  <1> DEFINE part == [c \in T |-> Part(c)]
             Parts == {part[c] : c \in T}
  <1>1. \A c \in T : Bytes(c) \in Nat
    BY ProblemsAssumption DEF RequestParsed, CapsuleParsed, Bytes, Facts
  <1>2. ASSUME NEW c \in T
        PROVE  IsFiniteSet(Part(c))
    <2>1. IsFiniteSet({c})
      BY FS_Singleton
    <2>2. IsFiniteSet(1 .. Bytes(c))
      BY <1>1, FS_Interval
    <2> QED
      BY <2>1, <2>2, FS_Product DEF Part
  <1>3. IsFiniteSet(T)
    BY RetrievalAssumption, FS_Subset
  <1>4. part \in Surjection(T, Parts)
    BY DEF Surjection
  <1>5. IsFiniteSet(Parts)
    BY <1>3, <1>4, FS_Surjection
  <1>6. IsFiniteSet(UNION Parts)
    BY <1>2, <1>5, FS_UNION
  <1>7. UNION Parts = UNION {Part(c) : c \in T}
    OBVIOUS
  <1>8. UNION {Part(c) : c \in S} \subseteq UNION Parts
    OBVIOUS
  <1> QED
    BY <1>6, <1>7, <1>8, FS_Subset, FS_CardinalityType DEF Size

-----------------------------------------------------------------------------
(* The same for an arm that is not under evaluation any more: what was     *)
(* found of it stands while its candidates are kept.                       *)
LEMMA OnSame ==
  ASSUME NEW a, NEW D, problem' = problem, kept'[a] = kept[a]
  PROVE  /\ On(a, D)!Source' = On(a, D)!Source
         /\ On(a, D)!ProtectedSeeds' = On(a, D)!ProtectedSeeds
         /\ \A S, l : On(a, D)!InLane(S, l)' = On(a, D)!InLane(S, l)
         /\ \A S : On(a, D)!Closed(S)' = On(a, D)!Closed(S)
         /\ On(a, D)!SupersessionValid' = On(a, D)!SupersessionValid
         /\ On(a, D)!Mandatory' = On(a, D)!Mandatory
         /\ On(a, D)!Disputes' = On(a, D)!Disputes
  <1>1. /\ \A c : On(a, D)!Facts(c)' = On(a, D)!Facts(c)
        /\ \A c : On(a, D)!Disposition(c)' = On(a, D)!Disposition(c)
    BY DEF On!Facts, On!Disposition
  <1>2. /\ \A c : On(a, D)!Applicable(c)' = On(a, D)!Applicable(c)
        /\ \A c : On(a, D)!AuditOnly(c)' = On(a, D)!AuditOnly(c)
        /\ \A c : On(a, D)!Live(c)' = On(a, D)!Live(c)
        /\ \A c : On(a, D)!Guarding(c)' = On(a, D)!Guarding(c)
    BY <1>1 DEF On!Live, On!Guarding, On!Applicable, On!AuditOnly
  <1>3. On(a, D)!Source' = On(a, D)!Source
    BY <1>1 DEF On!Source
  <1>4. On(a, D)!ProtectedSeeds' = On(a, D)!ProtectedSeeds
    BY <1>1, <1>2, <1>3 DEF On!ProtectedSeeds
  <1>5. /\ \A S, l : On(a, D)!InLane(S, l)' = On(a, D)!InLane(S, l)
        /\ \A S : On(a, D)!Closed(S)' = On(a, D)!Closed(S)
    BY <1>1, <1>3 DEF On!InLane, On!Closed, On!Linked, On!Relations
  <1>6. \A c, st : On(a, D)!Some(c, st)' = On(a, D)!Some(c, st)
    BY <1>1 DEF On!Some, On!Status, On!Usable
  <1>7. /\ \A c : On(a, D)!Unprobed(c)' = On(a, D)!Unprobed(c)
        /\ \A c : On(a, D)!Servable(c)' = On(a, D)!Servable(c)
        /\ \A c : On(a, D)!Archived(c)' = On(a, D)!Archived(c)
        /\ On(a, D)!Universe' = On(a, D)!Universe
    BY <1>1, <1>2 DEF On!Unprobed, On!Servable, On!Archived, On!Universe
  <1>8. On(a, D)!Prepared' = On(a, D)!Prepared
    BY <1>7 DEF On!Prepared
  <1>9. \A c : On(a, D)!BaseSurface(c)' = On(a, D)!BaseSurface(c)
    BY <1>1, <1>6, <1>7 DEF On!BaseSurface
  <1>10. \A c, d : On(a, D)!Superseding(c, d)' = On(a, D)!Superseding(c, d)
    BY <1>8 DEF On!Superseding
  <1>11. On(a, D)!SupersessionValid' = On(a, D)!SupersessionValid
    BY <1>1, <1>8, <1>10 DEF On!SupersessionValid
  <1>12. On(a, D)!Current' = On(a, D)!Current
    BY <1>8, <1>10 DEF On!Current, On!Superseded
  <1>13. /\ \A c, d : On(a, D)!Contend(c, d)' = On(a, D)!Contend(c, d)
         /\ \A c, d : On(a, D)!Conflict(c, d)' = On(a, D)!Conflict(c, d)
         /\ \A c, d : On(a, D)!Shared(c, d)' = On(a, D)!Shared(c, d)
    BY <1>1, <1>9 DEF On!Contend, On!Conflict, On!Shared
  <1>14. On(a, D)!Eligible' = On(a, D)!Eligible
    BY <1>1, <1>7, <1>12, <1>13 DEF On!Eligible, On!Outranked
  <1>15. /\ \A c : On(a, D)!Disputed(c)' = On(a, D)!Disputed(c)
         /\ \A c : On(a, D)!Surface(c)' = On(a, D)!Surface(c)
    BY <1>9 DEF On!Disputed, On!Surface
  <1>16. /\ On(a, D)!Mandatory' = On(a, D)!Mandatory
         /\ On(a, D)!Disputes' = On(a, D)!Disputes
    BY <1>1, <1>9, <1>13, <1>14, <1>15 DEF On!Mandatory, On!Disputes
  <1> QED
    BY <1>3, <1>4, <1>5, <1>11, <1>16

(* For the arm under evaluation it is the evaluation.                      *)
LEMMA OnHere ==
  ASSUME NEW D
  PROVE  /\ On(arm, D)!Source = Source
         /\ On(arm, D)!ProtectedSeeds = ProtectedSeeds
         /\ \A S, l : On(arm, D)!InLane(S, l) = InLane(S, l)
         /\ \A S : On(arm, D)!Closed(S) = Closed(S)
         /\ On(arm, D)!SupersessionValid = SupersessionValid
         /\ On(arm, D)!Eligible = Eligible
         /\ \A c : On(arm, D)!Facts(c) = Facts(c)
         /\ \A c : On(arm, D)!BaseSurface(c) = BaseSurface(c)
         /\ \A c, d : On(arm, D)!Conflict(c, d) = Conflict(c, d)
         /\ \A c, d : On(arm, D)!Shared(c, d) = Shared(c, d)
  <1>1. /\ \A c : On(arm, D)!Facts(c) = Facts(c)
        /\ \A c : On(arm, D)!Disposition(c) = Disposition(c)
    BY DEF On!Facts, Facts, On!Disposition, Disposition
  <1>2. /\ \A c : On(arm, D)!Applicable(c) = Applicable(c)
        /\ \A c : On(arm, D)!AuditOnly(c) = AuditOnly(c)
        /\ \A c : On(arm, D)!Live(c) = Live(c)
        /\ \A c : On(arm, D)!Guarding(c) = Guarding(c)
    BY <1>1 DEF On!Live, Live, On!Guarding, Guarding, On!Applicable,
           Applicable, On!AuditOnly, AuditOnly
  <1>3. On(arm, D)!Source = Source
    BY <1>1 DEF On!Source, Source
  <1>4. On(arm, D)!ProtectedSeeds = ProtectedSeeds
    BY <1>1, <1>2, <1>3 DEF On!ProtectedSeeds, ProtectedSeeds
  <1>5. /\ \A S, l : On(arm, D)!InLane(S, l) = InLane(S, l)
        /\ \A S : On(arm, D)!Closed(S) = Closed(S)
    BY <1>1, <1>3 DEF On!InLane, InLane, On!Closed, Closed, On!Linked, Linked,
           On!Relations, Relations
  <1>6. \A c, st : On(arm, D)!Some(c, st) = Some(c, st)
    BY <1>1 DEF On!Some, Some, On!Status, Status, On!Usable, Usable
  <1>7. /\ \A c : On(arm, D)!Unprobed(c) = Unprobed(c)
        /\ \A c : On(arm, D)!Servable(c) = Servable(c)
        /\ \A c : On(arm, D)!Archived(c) = Archived(c)
        /\ On(arm, D)!Universe = Universe
    BY <1>1, <1>2 DEF On!Unprobed, Unprobed, On!Servable, Servable,
           On!Archived, Archived, On!Universe, Universe
  <1>8. On(arm, D)!Prepared = Prepared
    BY <1>7 DEF On!Prepared, Prepared
  <1>9. \A c : On(arm, D)!BaseSurface(c) = BaseSurface(c)
    BY <1>1, <1>6, <1>7 DEF On!BaseSurface, BaseSurface
  <1>10. \A c, d : On(arm, D)!Superseding(c, d) = Superseding(c, d)
    BY <1>8 DEF On!Superseding, Superseding
  <1>11. On(arm, D)!SupersessionValid = SupersessionValid
    BY <1>1, <1>8, <1>10 DEF On!SupersessionValid, SupersessionValid
  <1>12. On(arm, D)!Current = Current
    BY <1>8, <1>10 DEF On!Current, Current, On!Superseded, Superseded
  <1>13. /\ \A c, d : On(arm, D)!Contend(c, d) = Contend(c, d)
         /\ \A c, d : On(arm, D)!Conflict(c, d) = Conflict(c, d)
         /\ \A c, d : On(arm, D)!Shared(c, d) = Shared(c, d)
    BY <1>1, <1>9 DEF On!Contend, Contend, On!Conflict, Conflict, On!Shared,
           Shared
  <1>14. On(arm, D)!Eligible = Eligible
    BY <1>1, <1>7, <1>12, <1>13 DEF On!Eligible, Eligible, On!Outranked,
           Outranked
  <1> QED
    BY <1>1, <1>3, <1>4, <1>5, <1>9, <1>11, <1>13, <1>14

-----------------------------------------------------------------------------
(* The pairs to dispute, before any is disputed.                           *)
Pairs ==
  {p \in Eligible \X Eligible :
     /\ p[1] < p[2] /\ Conflict(p[1], p[2])
     /\ Facts(p[1]).authority = Facts(p[2]).authority
     /\ BaseSurface(p[1]) = "use_now" /\ BaseSurface(p[2]) = "use_now"
     /\ Shared(p[1], p[2]) # {}}
PairsOn(a) == On(a, {})!Disputes

LEMMA PairsHere == PairsOn(arm) = Pairs
  <1>1. \A c : On(arm, {})!Surface(c) = BaseSurface(c)
    BY OnHere DEF On!Surface, On!Disputed
  <1> QED
    BY <1>1, OnHere DEF PairsOn, Pairs, On!Disputes

LEMMA MandatoryHere == On(arm, disputed)!Mandatory = Mandatory
  <1>1. \A c : On(arm, disputed)!Disputed(c) = Disputed(c)
    BY DEF On!Disputed, Disputed
  <1> QED
    BY <1>1, OnHere DEF On!Mandatory, Mandatory

LEMMA PairsSame ==
  ASSUME UNCHANGED <<problem, arm, kept>>
  PROVE  Pairs' = Pairs
  BY EligibleSame, SourceSame DEF Pairs

LEMMA EligibleType ==
  ASSUME TypeOK
  PROVE  /\ Eligible \subseteq kept[arm] /\ kept[arm] \subseteq Capsules
         /\ Eligible \subseteq Prepared /\ Mandatory \subseteq Eligible
         /\ Pairs \in SUBSET (Nat \X Nat)
  <1>1. kept[arm] \subseteq Capsules
    BY DEF TypeOK
  <1>2. Eligible \subseteq Prepared /\ Prepared \subseteq kept[arm] /\ Mandatory \subseteq Eligible
    BY DEF Eligible, Current, Prepared, Universe, Mandatory
  <1>3. Pairs \subseteq Eligible \X Eligible
    BY DEF Pairs
  <1> QED
    BY <1>1, <1>2, <1>3, RetrievalAssumption

(* A pair is open when none of the disputed meets it.                      *)
LEMMA OpenPairs ==
  Disputes = {p \in Pairs : \A r \in disputed : ~Meets(r, p)}
  <1>1. \A c : Surface(c) = "use_now" <=> ~Disputed(c) /\ BaseSurface(c) = "use_now"
    BY DEF Surface
  <1>2. \A p : (~Disputed(p[1]) /\ ~Disputed(p[2])) <=> \A r \in disputed : ~Meets(r, p)
    BY DEF Disputed, Meets
  <1> QED
    BY <1>1, <1>2 DEF Disputes, Pairs

(* Disputing one more pair.                                                *)
LEMMA DisputeStep ==
  ASSUME TypeOK, Matching(Pairs, disputed), Dispute
  PROVE  Matching(Pairs, disputed)'
  <1>1. PICK p \in Disputes : ~(\E q \in Disputes : Earlier(q, p)) /\ disputed' = disputed \cup {p}
    BY DEF Dispute
  <1>2. p \in Pairs /\ \A r \in disputed : ~Meets(r, p)
    BY OpenPairs
  <1>3. \A q \in Pairs : Earlier(q, p) => \E r \in disputed : Meets(r, q)
    BY <1>1, OpenPairs
  <1>4. Matching(Pairs, disputed \cup {p})
    BY <1>2, <1>3, EligibleType, MatchingStep
  <1>5. UNCHANGED <<problem, arm, kept>>
    BY DEF Dispute, retrieval
  <1> QED
    BY <1>1, <1>4, <1>5, PairsSame, EligibleSame DEF Matching, Before, Meets

-----------------------------------------------------------------------------
(* The inductive invariant.                                                *)

(* An arm that has passed its trial, whatever is evaluated now: another    *)
(* evaluation of it keeps the same candidates, accepts the supersessions   *)
(* and has the same number of capsules that may not be dropped.            *)
KeptWell(a) ==
  /\ kept[a] \subseteq On(a, {})!Source /\ On(a, {})!Closed(kept[a])
  /\ On(a, {})!ProtectedSeeds \subseteq kept[a]
  /\ \A l \in Lanes : Cardinality(On(a, {})!InLane(kept[a], l)) =< LaneLimit[l]
Passed(a) ==
  /\ KeptWell(a) /\ On(a, {})!SupersessionValid
  /\ \E D : /\ Matching(PairsOn(a), D) /\ Maximal(PairsOn(a), D)
            /\ Cardinality(On(a, D)!Mandatory) =< SelectedLimit

(* Every arm goes through its trial once and only an arm that has passed   *)
(* is served.                                                              *)
ArmInv ==
  /\ arm \in problem.arms /\ (served # NoArm => served = arm)
  /\ \A a \in tried : Passed(a)
  /\ served = NoArm /\ phase \notin {"assign", "refused"} => arm \notin tried
  /\ phase \in {"retrieve", "fill", "audit", "retrieved", "assign"} => served = NoArm
  /\ phase \in {"compile", "rendered", "served"} => served # NoArm
  /\ served # NoArm => problem.direct \/ served \in tried
  /\ phase = "assign" => problem.arms \subseteq tried

(* From the first protection on, what is kept of the arm is closed.        *)
RetrievalInv ==
  /\ phase \in {"fill", "audit"} => RelationsHold /\ pool \subseteq InLane(Source, lane)
  /\ phase \notin {"retrieve", "assign", "refused"} => Retained(kept[arm])

(* The disputes are settled before anything is selected, what may not be   *)
(* dropped is selected first, and what the hard pass leaves out stays out  *)
(* for good.                                                               *)
Exhausted ==
  \A c \in Eligible \ selected :
    (\E o \in Hard : Covers(c, o) /\ ~\E d \in selected : Covers(d, o)) => ~Affordable(c)
EvaluationInv ==
  /\ phase = "dispute" \/ Selected => SupersessionValid /\ Matching(Pairs, disputed)
  /\ phase = "dispute" => selected = {}
  /\ Selected => Disputes = {} /\ Mandatory \subseteq selected /\ selected \subseteq Eligible
  /\ PicksFit
  /\ Selected /\ phase # "hard" => Exhausted

IInv ==
  /\ TypeOK /\ ArmInv /\ RetrievalInv /\ EvaluationInv
  /\ LateRefusalsAreKnown

LEMMA PassedSame ==
  ASSUME NEW a, Passed(a), problem' = problem, kept'[a] = kept[a]
  PROVE  Passed(a)'
  <1>1. PairsOn(a)' = PairsOn(a)
    BY OnSame DEF PairsOn
  <1>2. KeptWell(a)' /\ On(a, {})!SupersessionValid'
    BY OnSame DEF KeptWell, Passed
  <1>3. PICK D : /\ Matching(PairsOn(a), D) /\ Maximal(PairsOn(a), D)
                 /\ Cardinality(On(a, D)!Mandatory) =< SelectedLimit
    BY DEF Passed
  <1>4. On(a, D)!Mandatory' = On(a, D)!Mandatory
    BY OnSame
  <1>5. \A p, q : Earlier(p, q)' = Earlier(p, q)
    BY DEF Earlier
  <1>6. Matching(PairsOn(a), D)' /\ Maximal(PairsOn(a), D)'
    BY <1>1, <1>3, <1>5 DEF Matching, Maximal, Before, Meets
  <1> QED
    BY <1>2, <1>3, <1>4, <1>6 DEF Passed

(* The trial that has just ended was passed.                               *)
LEMMA TrialPassed ==
  ASSUME TypeOK, Retained(kept[arm]), EvaluationInv, Selected
  PROVE  Passed(arm)
  <1>1. KeptWell(arm)
    BY OnHere DEF KeptWell, Retained
  <1>2. On(arm, {})!SupersessionValid
    BY OnHere DEF EvaluationInv
  <1>3. Matching(PairsOn(arm), disputed) /\ Maximal(PairsOn(arm), disputed)
    BY PairsHere, OpenPairs DEF EvaluationInv, Maximal
  <1>4. Cardinality(On(arm, disputed)!Mandatory) =< SelectedLimit
    <2>1. selected \subseteq Capsules /\ IsFiniteSet(Capsules)
      BY RetrievalAssumption DEF TypeOK
    <2>2. IsFiniteSet(selected) /\ Mandatory \in SUBSET selected
      BY <2>1, FS_Subset DEF EvaluationInv
    <2>3. /\ Cardinality(Mandatory) =< Cardinality(selected)
          /\ Cardinality(Mandatory) \in Nat /\ Cardinality(selected) \in Nat
      BY <2>2, FS_Subset, FS_CardinalityType
    <2>4. Cardinality(selected) =< SelectedLimit
      BY DEF EvaluationInv, PicksFit
    <2> QED
      BY <2>3, <2>4, MandatoryHere, RetrievalAssumption
  <1> QED
    BY <1>1, <1>2, <1>3, <1>4 DEF Passed

(* Only the candidates of the arm on trial change.                         *)
LEMMA KeptStays ==
  ASSUME TypeOK, ArmInv, [Next]_vars, NEW a \in tried
  PROVE  problem' = problem /\ kept'[a] = kept[a]
  <1>1. kept \in [Arms -> SUBSET Capsules] /\ a \in Arms
    BY ProblemsAssumption DEF TypeOK, RequestParsed
  <1>2. CASE Retrieve
    <2>1. phase \in {"retrieve", "fill", "audit"}
      BY <1>2 DEF Retrieve, Protect, RefuseSource, TakeSeed, TakeAudit, NextPool
    <2>2. a # arm
      BY <2>1 DEF ArmInv
    <2> QED
      BY <1>1, <1>2, <2>2 DEF Retrieve, Protect, RefuseSource, TakeSeed, TakeAudit, NextPool,
                             TakeComponent
  <1>3. CASE Evaluate
    BY <1>3 DEF Evaluate, Prepare, Dispute, SelectMandatory, SelectPass, SelectWay, NextPass,
                retrieval, Select
  <1>4. CASE ~Retrieve /\ ~Evaluate
    BY <1>4 DEF Next, Retrieved, Tried, Assign, Compile, Render, Expose, Decided, vars,
                retrieval
  <1> QED
    BY <1>2, <1>3, <1>4

-----------------------------------------------------------------------------
LEMMA TypeInit == Init => TypeOK
  BY ProblemsAssumption DEF Init, TypeOK, NoArm, Arms, Lanes

LEMMA TypeStep ==
  ASSUME TypeOK, arm \in problem.arms, [Next]_vars
  PROVE  TypeOK' /\ arm' \in problem'.arms
  <1>1. problem.arms \subseteq Arms
    BY ProblemsAssumption DEF TypeOK, RequestParsed
  <1>2. Source \subseteq Capsules /\ Protected \subseteq Capsules
    BY ProtectedClosed DEF Source
  <1>3. ASSUME NEW c \in pool, TakeComponent(c)
        PROVE  kept' \in [Arms -> SUBSET Capsules] /\ pool' \subseteq Capsules
    <2>1. Component(c) \subseteq Capsules
      BY <1>2 DEF Component
    <2> QED
      BY <1>3, <2>1 DEF TakeComponent, TypeOK
  <1>4. CASE Retrieve /\ UNCHANGED <<evaluation, tried>>
    <2>1. UNCHANGED <<problem, arm, served, tried, disputed, selected>>
      BY <1>4 DEF Retrieve, Protect, RefuseSource, TakeSeed, TakeAudit, NextPool, evaluation
    <2>2. CASE Protect
      BY <1>2, <2>1, <2>2 DEF Protect, TypeOK, Unseen, InLane, Lanes
    <2>3. CASE RefuseSource
      BY <2>1, <2>3 DEF RefuseSource, Refuse, TypeOK
    <2>4. CASE TakeSeed
      BY <1>3, <2>1, <2>4 DEF TakeSeed, BestSeeds, TypeOK
    <2>5. CASE TakeAudit
      BY <1>3, <2>1, <2>5 DEF TakeAudit, BestAudits, TypeOK
    <2>6. CASE NextPool
      <3>1. pool' \subseteq Capsules
        BY <1>2, <2>6 DEF NextPool, TypeOK, Unseen, UnseenAudit, InLane
      <3>2. phase' \in {"audit", "fill", "retrieved"} /\ lane' \in Lanes /\ kept' = kept
        BY <2>6 DEF NextPool, TypeOK, Lanes
      <3> QED
        BY <2>1, <3>1, <3>2 DEF TypeOK
    <2> QED
      BY <1>4, <2>2, <2>3, <2>4, <2>5, <2>6 DEF Retrieve
  <1>5. CASE Evaluate /\ UNCHANGED tried
    <2>1. Eligible \subseteq Capsules /\ Mandatory \subseteq Eligible
      BY EligibleType
    <2>2. CASE Prepare
      BY <1>5, <2>2 DEF Prepare, Refuse, TypeOK
    <2>3. CASE Dispute
      BY <1>5, <2>1, <2>3 DEF Dispute, Disputes, TypeOK, retrieval
    <2>4. CASE SelectMandatory
      BY <1>5, <2>1, <2>4 DEF SelectMandatory, Select, Refuse, TypeOK
    <2>5. CASE SelectPass("hard") \/ SelectPass("advisory") \/ SelectWay
      BY <1>5, <2>1, <2>5 DEF SelectPass, SelectWay, Select, Picks, Ways, TypeOK, retrieval
    <2>6. CASE NextPass
      BY <1>5, <2>6 DEF NextPass, TypeOK, evaluation
    <2> QED
      BY <1>5, <2>2, <2>3, <2>4, <2>5, <2>6 DEF Evaluate
  <1>6. CASE Retrieved
    BY <1>6 DEF Retrieved, TypeOK
  <1>7. CASE Tried \/ Assign
    BY <1>1, <1>7 DEF Tried, Assign, TypeOK, evaluation
  <1>8. CASE Compile \/ Render \/ Expose
    BY <1>8 DEF Compile, Render, Expose, Refuse, TypeOK, evaluation
  <1>9. CASE Decided \/ UNCHANGED vars
    BY <1>9 DEF Decided, TypeOK, vars, retrieval, evaluation
  <1> QED
    BY <1>4, <1>5, <1>6, <1>7, <1>8, <1>9 DEF Next

-----------------------------------------------------------------------------
LEMMA ArmStep ==
  ASSUME IInv, [Next]_vars
  PROVE  ArmInv'
  <1> USE DEF IInv
  <1>1. TypeOK' /\ arm' \in problem'.arms
    BY TypeStep DEF ArmInv
  <1>2. \A a \in tried : Passed(a)'
    <2> SUFFICES ASSUME NEW a \in tried PROVE Passed(a)'
      OBVIOUS
    <2> QED
      BY KeptStays, PassedSame DEF ArmInv
  <1>3. NoArm \notin Arms /\ arm \in Arms
    BY DEF NoArm, Arms, TypeOK
  <1>4. ASSUME tried' = tried PROVE \A a \in tried' : Passed(a)'
    BY <1>2, <1>4
  <1>5. CASE Retrieve /\ UNCHANGED <<evaluation, tried>>
    BY <1>1, <1>4, <1>5 DEF Retrieve, Protect, RefuseSource, TakeSeed, TakeAudit, NextPool,
                       Refuse, evaluation, ArmInv
  <1>6. CASE Evaluate /\ UNCHANGED tried
    BY <1>1, <1>4, <1>6 DEF Evaluate, Prepare, Dispute, SelectMandatory, SelectPass, SelectWay,
                       NextPass, Refuse, Select, retrieval, evaluation, ArmInv
  <1>7. CASE Retrieved
    BY <1>1, <1>3, <1>4, <1>7 DEF Retrieved, ArmInv
  <1>8. CASE Tried
    <2>1. Passed(arm)
      BY <1>8, TrialPassed DEF Tried, RetrievalInv, Selected
    <2>2. PICK a : a = arm
      OBVIOUS
    <2>3. Passed(a)
      BY <2>1, <2>2
    <2>4. problem' = problem /\ kept'[a] = kept[a]
      BY <1>8 DEF Tried
    <2>5. Passed(a)'
      BY <2>3, <2>4, PassedSame
    <2>6. \A b \in tried' : Passed(b)'
      BY <1>2, <1>8, <2>2, <2>5 DEF Tried
    <2> QED
      BY <1>1, <1>8, <2>6 DEF Tried, ArmInv, evaluation
  <1>9. CASE Assign
    BY <1>1, <1>3, <1>4, <1>9, ProblemsAssumption DEF Assign, ArmInv, TypeOK, NoArm, Arms, RequestParsed
  <1>10. CASE Compile \/ Render \/ Expose
    BY <1>1, <1>4, <1>10 DEF Compile, Render, Expose, Refuse, ArmInv, evaluation
  <1>11. CASE Decided \/ UNCHANGED vars
    BY <1>1, <1>4, <1>11 DEF Decided, vars, retrieval, evaluation, ArmInv
  <1> QED
    BY <1>5, <1>6, <1>7, <1>8, <1>9, <1>10, <1>11 DEF Next

(* The arm that is assigned is evaluated as it was on trial.               *)
LEMMA OnAssigned ==
  ASSUME NEW a, problem' = problem, arm' = a
  PROVE  /\ Source' = On(a, {})!Source
         /\ ProtectedSeeds' = On(a, {})!ProtectedSeeds
         /\ \A S, l : InLane(S, l)' = On(a, {})!InLane(S, l)
         /\ \A S : Closed(S)' = On(a, {})!Closed(S)
  <1>1. /\ \A c : On(a, {})!Facts(c) = Facts(c)'
        /\ \A c : On(a, {})!Disposition(c) = Disposition(c)'
    BY DEF On!Facts, Facts, On!Disposition, Disposition
  <1>2. /\ \A c : On(a, {})!Applicable(c) = Applicable(c)'
        /\ \A c : On(a, {})!AuditOnly(c) = AuditOnly(c)'
        /\ \A c : On(a, {})!Live(c) = Live(c)'
        /\ \A c : On(a, {})!Guarding(c) = Guarding(c)'
    BY <1>1 DEF On!Live, Live, On!Guarding, Guarding, On!Applicable,
           Applicable, On!AuditOnly, AuditOnly
  <1>3. On(a, {})!Source = Source'
    BY <1>1 DEF On!Source, Source
  <1>4. On(a, {})!ProtectedSeeds = ProtectedSeeds'
    BY <1>1, <1>2, <1>3 DEF On!ProtectedSeeds, ProtectedSeeds
  <1>5. /\ \A S, l : On(a, {})!InLane(S, l) = InLane(S, l)'
        /\ \A S : On(a, {})!Closed(S) = Closed(S)'
    BY <1>1, <1>3 DEF On!InLane, InLane, On!Closed, Closed, On!Linked, Linked,
           On!Relations, Relations
  <1> QED
    BY <1>3, <1>4, <1>5

LEMMA RetrievalStep ==
  ASSUME IInv, [Next]_vars
  PROVE  RetrievalInv'
  <1> USE DEF IInv
  <1>1. ASSUME UNCHANGED <<problem, arm, kept>>, Retained(kept[arm])
        PROVE  Retained(kept[arm])'
    <2>1. kept'[arm] = kept[arm]
      BY <1>1
    <2> QED
      BY <1>1, <2>1, RetainedNext
  <1>2. CASE Retrieve /\ UNCHANGED <<evaluation, tried>>
    <2>1. CASE Protect
      <3>1. phase' = "fill"
        BY <2>1 DEF Protect
      <3> QED
        BY <2>1, <3>1, ProtectStep DEF RetrievalInv
    <2>2. CASE RefuseSource
      BY <2>2 DEF RefuseSource, Refuse, RetrievalInv
    <2>3. CASE TakeSeed \/ TakeAudit
      <3>1. phase \in {"fill", "audit"} /\ UNCHANGED <<problem, arm, lane>>
        BY <2>3 DEF TakeSeed, TakeAudit
      <3>2. PICK c \in pool : TakeComponent(c)
        BY <2>3 DEF TakeSeed, TakeAudit, BestSeeds, BestAudits
      <3>3. Retained(kept[arm])' /\ RelationsHold' /\ (pool \subseteq InLane(Source, lane))'
        BY <3>1, <3>2, TakeStep DEF RetrievalInv
      <3> QED
        BY <3>3 DEF RetrievalInv
    <2>4. CASE NextPool
      <3>1. phase \in {"fill", "audit"}
        BY <2>4 DEF NextPool
      <3> QED
        BY <2>4, <3>1, PoolStep DEF RetrievalInv
    <2> QED
      BY <1>2, <2>1, <2>2, <2>3, <2>4 DEF Retrieve
  <1>3. CASE Retrieved
    BY <1>1, <1>3 DEF Retrieved, RetrievalInv
  <1>4. CASE Evaluate /\ UNCHANGED tried
    <2>1. /\ UNCHANGED <<problem, arm, kept>>
          /\ phase \in {"evaluate", "dispute", "hard", "path", "advisory"}
          /\ phase' \notin {"fill", "audit"}
      BY <1>4 DEF Evaluate, Prepare, Dispute, SelectMandatory, SelectPass, SelectWay, NextPass,
                  Refuse, retrieval
    <2> QED
      BY <1>1, <2>1 DEF RetrievalInv
  <1>5. CASE Tried
    BY <1>5 DEF Tried, RetrievalInv
  <1>6. CASE Assign
    <2>1. PICK a \in problem.arms : served' = a /\ arm' = a
      BY <1>6 DEF Assign
    <2>2. problem' = problem /\ kept' = kept /\ phase' = "compile"
      BY <1>6 DEF Assign
    <2>3. KeptWell(a)
      BY <1>6, <2>1 DEF Assign, ArmInv, Passed
    <2>4. Retained(kept[arm])'
      BY <2>1, <2>2, <2>3, OnAssigned DEF KeptWell, Retained
    <2> QED
      BY <2>2, <2>4 DEF RetrievalInv
  <1>7. CASE Compile \/ Render \/ Expose
    <2>1. /\ UNCHANGED <<problem, arm, kept>>
          /\ phase \in {"compile", "evaluated", "rendered"} /\ phase' \notin {"fill", "audit"}
      BY <1>7 DEF Compile, Render, Expose, Refuse
    <2> QED
      BY <1>1, <2>1 DEF RetrievalInv
  <1>8. CASE Decided \/ UNCHANGED vars
    <2>1. UNCHANGED <<problem, arm, kept, phase, pool, lane>>
      BY <1>8 DEF Decided, vars, retrieval
    <2> QED
      BY <1>1, <2>1, SourceSame DEF RetrievalInv
  <1> QED
    BY <1>2, <1>3, <1>4, <1>5, <1>6, <1>7, <1>8 DEF Next

-----------------------------------------------------------------------------
(* A selection that grows costs more and leaves less room.                 *)
LEMMA CostGrows ==
  ASSUME TypeOK, NEW T \in SUBSET Capsules, NEW S \in SUBSET T, S # {}
  PROVE  Cost(S) \in Int /\ Cost(T) \in Int /\ Cost(S) =< Cost(T)
  <1>1. IsFiniteSet(T)
    BY RetrievalAssumption, FS_Subset
  <1>2. Cardinality(S) \in Nat /\ Cardinality(T) \in Nat /\ Cardinality(S) =< Cardinality(T)
    BY <1>1, FS_Subset, FS_CardinalityType
  <1>3. Size(S) \in Nat /\ Size(T) \in Nat /\ Size(S) =< Size(T)
    BY SizeGrows DEF TypeOK
  <1>4. Frame \in Nat
    BY EvaluationAssumption DEF Frame
  <1>5. RefsBytes \in Int
    <2> DEFINE n == Cardinality(Rehydrations)
    <2>1. IsFiniteSet(Capsules) /\ Rehydrations \subseteq Capsules
      BY RetrievalAssumption DEF Rehydrations, Universe, TypeOK
    <2>2. n \in Nat
      BY <2>1, FS_Subset, FS_CardinalityType
    <2>3. RefBytes \in Nat
      BY EvaluationAssumption
    <2>4. RefsBytes = IF n = 0 THEN 0 ELSE n * RefBytes + n - 1
      BY DEF RefsBytes
    <2>5. n * RefBytes \in Nat
      BY <2>2, <2>3
    <2> HIDE DEF n
    <2> QED
      BY <2>2, <2>4, <2>5
  <1>6. T # {}
    OBVIOUS
  <1> QED
    BY <1>2, <1>3, <1>4, <1>5, <1>6 DEF Cost

LEMMA AffordableShrinks ==
  ASSUME TypeOK, UNCHANGED <<problem, arm, kept, served, disputed>>,
         selected \subseteq selected', selected' \subseteq Capsules,
         NEW c \in Capsules, Affordable(c)'
  PROVE  Affordable(c)
  <1>1. IsFiniteSet(selected')
    BY RetrievalAssumption, FS_Subset
  <1>2. /\ Cardinality(selected) \in Nat /\ Cardinality(selected') \in Nat
        /\ Cardinality(selected) =< Cardinality(selected')
    BY <1>1, FS_Subset, FS_CardinalityType
  <1>3. Cardinality(selected') < SelectedLimit
    BY DEF Affordable
  <1>4. PICK T \in SUBSET Capsules : T = selected'
    OBVIOUS
  <1>5. Cost(T \cup {c}) =< problem.budget
    <2>1. Cost(T \cup {c})' = Cost(T \cup {c})
      BY CostSame
    <2>2. Cost(T \cup {c})' =< problem'.budget
      BY <1>4 DEF Affordable, Cost, Size, Part, Bytes, Facts
    <2> QED
      BY <2>1, <2>2
  <1>8. /\ Cost(selected \cup {c}) \in Int /\ Cost(T \cup {c}) \in Int
        /\ Cost(selected \cup {c}) =< Cost(T \cup {c})
    BY <1>4, CostGrows
  <1>6. problem.budget \in Int
    BY ProblemsAssumption DEF TypeOK, RequestParsed
  <1>7. ~ConflictsSelected(c)
    BY EligibleSame DEF Affordable, ConflictsSelected
  <1> QED
    BY <1>2, <1>3, <1>5, <1>6, <1>7, <1>8, RetrievalAssumption DEF Affordable

(* What the hard pass leaves out, no later pick lets in.                   *)
LEMMA ExhaustedStep ==
  ASSUME TypeOK, Exhausted, UNCHANGED <<problem, arm, kept, served, disputed>>,
         selected \subseteq selected', selected' \subseteq Capsules
  PROVE  Exhausted'
  <1>1. \A c, o : Covers(c, o)' = Covers(c, o)
    BY SurfaceSame
  <1>2. Eligible' = Eligible /\ Eligible \subseteq Capsules
    BY EligibleSame, EligibleType
  <1>3. SUFFICES ASSUME NEW c \in Eligible \ selected', NEW o \in Hard,
                        Covers(c, o), ~\E d \in selected' : Covers(d, o),
                        Affordable(c)'
                 PROVE  FALSE
    BY <1>1, <1>2 DEF Exhausted
  <1>4. Affordable(c)
    BY <1>2, <1>3, AffordableShrinks
  <1> QED
    BY <1>3, <1>4 DEF Exhausted

(* A conflict is between two.                                              *)
LEMMA ConflictOfTwo ==
  ASSUME TypeOK, NEW c, NEW d
  PROVE  ~Conflict(c, c) /\ (Conflict(c, d) <=> Conflict(d, c))
  BY ProblemsAssumption DEF TypeOK, RequestParsed, Conflict

(* A pick by its benefit, or by the way out that it offers.                *)
LEMMA PickStep ==
  ASSUME TypeOK, EvaluationInv, Selected, phase' = phase,
         UNCHANGED <<problem, arm, kept, served, disputed>>,
         NEW c \in Eligible \ selected, Affordable(c), selected' = selected \cup {c}
  PROVE  EvaluationInv'
  <1>1. Eligible \subseteq Capsules /\ selected \subseteq Capsules /\ IsFiniteSet(selected)
    BY EligibleType, RetrievalAssumption, FS_Subset DEF TypeOK
  <1>2. SupersessionValid' /\ Matching(Pairs, disputed)'
    <2>1. \A p, q : Earlier(p, q)' = Earlier(p, q)
      BY EligibleSame
    <2> QED
      BY <2>1, PairsSame, EligibleSame DEF EvaluationInv, Matching, Before, Meets
  <1>3. Disputes' = {} /\ Mandatory' \subseteq selected' /\ selected' \subseteq Eligible'
    BY EligibleSame, SurfaceSame DEF EvaluationInv
  <1>4. PicksFit'
    <2>1. Cardinality(selected') =< SelectedLimit
      <3>1. Cardinality(selected') = Cardinality(selected) + 1 /\ Cardinality(selected) \in Nat
        BY <1>1, FS_AddElement, FS_CardinalityType
      <3> QED
        BY <3>1, RetrievalAssumption DEF Affordable
    <2>2. Cost(selected)' =< problem'.budget
      <3>1. Cost(selected \cup {c})' = Cost(selected \cup {c})
        BY CostSame
      <3> QED
        BY <3>1 DEF Affordable
    <2>3. \A x \in selected' \ Mandatory' : ~\E d \in selected' : Conflict(x, d)'
      <3>1. Mandatory' = Mandatory /\ \A x, d : Conflict(x, d)' = Conflict(x, d)
        BY EligibleSame, SurfaceSame
      <3>2. \A x \in selected \ Mandatory : ~\E d \in selected : Conflict(x, d)
        BY DEF EvaluationInv, PicksFit
      <3>3. ~\E d \in selected : Conflict(c, d)
        BY DEF Affordable, ConflictsSelected
      <3> QED
        BY <3>1, <3>2, <3>3, ConflictOfTwo
    <2> QED
      BY <2>1, <2>2, <2>3 DEF PicksFit
  <1>5. phase # "hard" => Exhausted'
    BY <1>1, ExhaustedStep DEF EvaluationInv
  <1> QED
    BY <1>2, <1>3, <1>4, <1>5 DEF EvaluationInv, Selected

(* Nothing is selected, the pass may end.                                  *)
LEMMA StillStep ==
  ASSUME TypeOK, EvaluationInv, Selected, phase' = "hard" \/ Exhausted, phase' # "dispute",
         UNCHANGED <<problem, arm, kept, served, disputed, selected>>
  PROVE  EvaluationInv'
  <1>1. SupersessionValid' /\ Matching(Pairs, disputed)'
    <2>1. \A p, q : Earlier(p, q)' = Earlier(p, q)
      BY EligibleSame
    <2> QED
      BY <2>1, PairsSame, EligibleSame DEF EvaluationInv, Matching, Before, Meets
  <1>2. Disputes' = {} /\ Mandatory' \subseteq selected' /\ selected' \subseteq Eligible'
    BY EligibleSame, SurfaceSame DEF EvaluationInv
  <1>3. PicksFit'
    <2>1. Cost(selected)' = Cost(selected)
      <3>1. PICK T : T = selected
        OBVIOUS
      <3>2. Cost(T)' = Cost(T)
        BY CostSame
      <3>3. Cost(T)' = Cost(selected)'
        BY <3>1 DEF Cost, Size, Part, Bytes, Facts
      <3> QED
        BY <3>1, <3>2, <3>3
    <2>2. Mandatory' = Mandatory /\ \A x, d : Conflict(x, d)' = Conflict(x, d)
      BY EligibleSame, SurfaceSame
    <2> QED
      BY <2>1, <2>2 DEF EvaluationInv, PicksFit
  <1>4. phase' # "hard" => Exhausted'
    BY ExhaustedStep DEF TypeOK
  <1> QED
    BY <1>1, <1>2, <1>3, <1>4 DEF EvaluationInv

LEMMA EvaluationStep ==
  ASSUME IInv, [Next]_vars
  PROVE  EvaluationInv'
  <1> USE DEF IInv
  <1>1. ASSUME phase' # "dispute", ~Selected'
        PROVE  EvaluationInv'
    BY <1>1 DEF EvaluationInv, PicksFit
  <1>2. CASE Retrieve
    BY <1>1, <1>2 DEF Retrieve, Protect, RefuseSource, TakeSeed, TakeAudit, NextPool, Refuse,
                      Selected
  <1>3. CASE Retrieved \/ Tried \/ Assign \/ Compile
    BY <1>1, <1>3 DEF Retrieved, Tried, Assign, Compile, Refuse, Selected
  <1>4. CASE Prepare
    <2>1. CASE ~SupersessionValid
      BY <1>1, <1>4, <2>1 DEF Prepare, Refuse, Selected
    <2>2. CASE SupersessionValid
      <3>1. phase' = "dispute" /\ disputed' = {} /\ selected' = {} /\ UNCHANGED <<problem, arm, kept>>
        BY <1>4, <2>2 DEF Prepare
      <3>2. Matching(Pairs, disputed)' /\ SupersessionValid'
        BY <2>2, <3>1, EligibleSame DEF Matching
      <3> QED
        BY <3>1, <3>2 DEF EvaluationInv, PicksFit, Selected
    <2> QED
      BY <2>1, <2>2
  <1>5. CASE Dispute
    <2>1. phase = "dispute" /\ UNCHANGED <<problem, arm, kept, phase, selected>>
      BY <1>5 DEF Dispute, retrieval
    <2>2. Matching(Pairs, disputed)' /\ SupersessionValid'
      BY <1>5, <2>1, DisputeStep, EligibleSame DEF EvaluationInv
    <2> QED
      BY <2>1, <2>2 DEF EvaluationInv, PicksFit, Selected
  <1>6. CASE SelectMandatory
    <2>1. CASE ~(Cardinality(Mandatory) =< SelectedLimit)
      BY <1>1, <1>6, <2>1 DEF SelectMandatory, Refuse, Selected
    <2>2. CASE Cardinality(Mandatory) =< SelectedLimit
      <3>1. /\ phase = "dispute" /\ phase' = "hard" /\ Disputes = {} /\ selected' = Mandatory
            /\ UNCHANGED <<problem, arm, kept, served, disputed>>
        BY <1>6, <2>2 DEF SelectMandatory, Select, EvaluationInv
      <3>2. SupersessionValid' /\ Matching(Pairs, disputed)'
        <4>1. \A p, q : Earlier(p, q)' = Earlier(p, q)
          BY <3>1, EligibleSame
        <4> QED
          BY <3>1, <4>1, PairsSame, EligibleSame DEF EvaluationInv, Matching, Before, Meets
      <3>3. /\ Disputes' = {} /\ Mandatory' = selected' /\ Mandatory' \subseteq Eligible'
        BY <3>1, EligibleSame, SurfaceSame, EligibleType
      <3>4. PicksFit'
        BY <2>2, <3>1, <3>3 DEF PicksFit
      <3> QED
        BY <3>1, <3>2, <3>3, <3>4 DEF EvaluationInv, Selected
    <2> QED
      BY <2>1, <2>2
  <1>7. CASE SelectPass("hard") \/ SelectPass("advisory") \/ SelectWay
    <2>1. /\ Selected /\ phase' = phase /\ UNCHANGED <<problem, arm, kept, served, disputed>>
      BY <1>7 DEF SelectPass, SelectWay, Select, retrieval, Selected
    <2>2. PICK c \in Eligible \ selected : Affordable(c) /\ selected' = selected \cup {c}
      BY <1>7 DEF SelectPass, SelectWay, Select, Picks, Ways
    <2> QED
      BY <2>1, <2>2, PickStep
  <1>8. CASE NextPass
    <2>1. /\ Selected /\ phase' \notin {"hard", "dispute"}
          /\ UNCHANGED <<problem, arm, kept, served, disputed, selected>>
      BY <1>8 DEF NextPass, evaluation, Selected
    <2>2. CASE phase = "hard"
      <3>1. Picks("hard") = {}
        BY <1>8, <2>2 DEF NextPass
      <3>2. Exhausted
        <4>1. SUFFICES ASSUME NEW c \in Eligible \ selected, NEW o \in Hard,
                              Covers(c, o), ~\E d \in selected : Covers(d, o)
                       PROVE  ~Affordable(c)
          BY DEF Exhausted
        <4>2. o \in Gain(c, "hard")
          BY <4>1, RetrievalAssumption DEF Gain, Covered
        <4>3. c \notin Mandatory
          BY <2>1 DEF EvaluationInv
        <4> QED
          BY <3>1, <4>2, <4>3 DEF Picks
      <3> QED
        BY <2>1, <3>2, StillStep
    <2>3. CASE phase # "hard"
      BY <2>1, <2>3, StillStep DEF EvaluationInv
    <2> QED
      BY <2>2, <2>3
  <1>9. CASE Render \/ Expose
    <2>1. CASE phase' = "refused"
      BY <1>1, <2>1 DEF Selected
    <2>2. CASE phase' # "refused"
      <3>1. /\ phase' \notin {"hard", "dispute"} /\ phase \in {"evaluated", "rendered"}
            /\ UNCHANGED <<problem, arm, kept, served, disputed, selected>>
        BY <1>9, <2>2 DEF Render, Expose, Refuse, evaluation
      <3> QED
        BY <3>1, StillStep DEF EvaluationInv, Selected
    <2> QED
      BY <2>1, <2>2
  <1>10. CASE Decided \/ UNCHANGED vars
    <2>1. UNCHANGED <<problem, arm, kept, served, disputed, selected, phase>>
      BY <1>10 DEF Decided, vars, retrieval, evaluation
    <2>2. CASE phase = "dispute"
      <3>1. SupersessionValid' /\ Matching(Pairs, disputed)'
        <4>1. \A p, q : Earlier(p, q)' = Earlier(p, q)
          BY <2>1, EligibleSame
        <4> QED
          BY <2>1, <2>2, <4>1, PairsSame, EligibleSame DEF EvaluationInv, Matching, Before, Meets
      <3> QED
        BY <2>1, <2>2, <3>1 DEF EvaluationInv, PicksFit, Selected
    <2>3. CASE Selected
      <3>1. phase' # "dispute" /\ (phase' = "hard" \/ Exhausted)
        BY <2>1, <2>3 DEF Selected, EvaluationInv
      <3> QED
        BY <2>1, <2>3, <3>1, StillStep
    <2>4. CASE phase # "dispute" /\ ~Selected
      <3>1. ~Selected'
        BY <2>1, <2>4 DEF Selected
      <3> QED
        BY <1>1, <2>1, <2>4, <3>1
    <2> QED
      BY <2>2, <2>3, <2>4
  <1> QED
    BY <1>2, <1>3, <1>4, <1>5, <1>6, <1>7, <1>8, <1>9, <1>10 DEF Next, Evaluate

-----------------------------------------------------------------------------
LEMMA SeedsSame ==
  ASSUME UNCHANGED <<problem, arm>>
  PROVE  Protected' = Protected /\ MandatorySeeds' = MandatorySeeds
  <1>1. \A c : Component(c)' = Component(c)
    BY SourceSame DEF Component
  <1>2. Protected' = Protected
    BY <1>1, SourceSame DEF Protected
  <1>3. MandatorySeeds' = MandatorySeeds
    BY SourceSame DEF MandatorySeeds
  <1> QED
    BY <1>2, <1>3

-----------------------------------------------------------------------------
(* What the receipt counts is in order when every mandatory seed is among  *)
(* the protected.                                                          *)
LEMMA ReceiptStands ==
  ASSUME TypeOK, Retained(kept[arm]), MandatorySeeds \subseteq Protected
  PROVE  ReceiptValid
  <1> DEFINE K == kept[arm]
  <1>1. K \in SUBSET Capsules /\ IsFiniteSet(K)
    BY RetrievalAssumption, FS_Subset DEF TypeOK
  <1>2. MandatoryProtected \subseteq Protected
    BY ProtectedClosed, ComponentLeast DEF MandatoryProtected
  <1>3. Protected \subseteq K
    <2>1. \A s \in ProtectedSeeds : Component(s) \subseteq K
      BY ProtectedClosed, ComponentLeast DEF Retained
    <2> QED
      BY <2>1 DEF Protected
  <1>4. /\ Cardinality(MandatoryProtected) =< Cardinality(Protected)
        /\ Cardinality(MandatoryProtected) =< Cardinality(K)
    <2>1. IsFiniteSet(Protected) /\ Cardinality(Protected) \in Nat /\ Cardinality(K) \in Nat
          /\ Cardinality(Protected) =< Cardinality(K)
      BY <1>1, <1>3, FS_Subset, FS_CardinalityType
    <2>2. Cardinality(MandatoryProtected) \in Nat
          /\ Cardinality(MandatoryProtected) =< Cardinality(Protected)
      BY <1>2, <2>1, FS_Subset, FS_CardinalityType
    <2> QED
      BY <2>1, <2>2
  <1>5. \A l \in Lanes : /\ Cardinality(InLane(Protected, l)) =< Cardinality(InLane(K, l))
                         /\ Cardinality(InLane(K, l)) =< LaneLimit[l]
    BY <1>1, <1>3, InLaneFinite DEF Retained
  <1> QED
    BY <1>4, <1>5 DEF ReceiptValid

(* What the compiler emits, the contract verifier accepts, unless digests  *)
(* order the selected otherwise or an archived capsule is offered again.   *)
LEMMA ContractStands ==
  ASSUME SameOrder(selected), Rehydrations = {}
  PROVE  ContractVerifies
  <1>1. \A o \in Obligations : SameOrder(Related(o))
    BY DEF SameOrder, Related
  <1>2. ASSUME NEW o \in Obligations \ Prohibitions, CoverageStatus(o) = "covered"
        PROVE  \E c \in Related(o) : Surface(c) = "use_now" /\ Requires[o] \subseteq Satisfied(c)
    <2>1. PICK c \in selected : Covers(c, o)
      BY <1>2 DEF CoverageStatus, Covered
    <2> QED
      BY <2>1 DEF Covers, Related
  <1>3. Complete <=> DerivedComplete
    BY DEF Complete, DerivedComplete
  <1>4. Mode = DerivedMode
    BY DEF Mode, DerivedMode
  <1> QED
    BY <1>1, <1>2, <1>3, <1>4 DEF ContractVerifies

(* An arm that has passed its trial passes the evaluation of its contract. *)
LEMMA PassedAgain ==
  ASSUME TypeOK, Passed(arm)
  PROVE  /\ SupersessionValid
         /\ Matching(Pairs, disputed) /\ Disputes = {} => Cardinality(Mandatory) =< SelectedLimit
  <1>1. SupersessionValid
    BY OnHere DEF Passed
  <1>2. PICK D : /\ Matching(Pairs, D) /\ Maximal(Pairs, D)
                 /\ Cardinality(On(arm, D)!Mandatory) =< SelectedLimit
    BY PairsHere DEF Passed
  <1>3. ASSUME Matching(Pairs, disputed), Disputes = {}
        PROVE  Cardinality(Mandatory) =< SelectedLimit
    <2>1. Maximal(Pairs, disputed)
      BY <1>3, OpenPairs DEF Maximal
    <2>2. D = disputed
      BY <1>2, <1>3, <2>1, OneMatching, EligibleType
    <2> QED
      BY <1>2, <2>2, MandatoryHere
  <1> QED
    BY <1>1, <1>3

LEMMA RefusalStep ==
  ASSUME IInv, [Next]_vars
  PROVE  LateRefusalsAreKnown'
  <1> USE DEF IInv
  <1>1. CASE Retrieve /\ UNCHANGED <<evaluation, tried>>
    <2>1. served = NoArm /\ served' = served
      BY <1>1 DEF Retrieve, Protect, RefuseSource, TakeSeed, TakeAudit, NextPool, evaluation,
                  ArmInv
    <2> QED
      BY <2>1 DEF LateRefusalsAreKnown
  <1>2. CASE Retrieved \/ Tried \/ Assign
    BY <1>2 DEF Retrieved, Tried, Assign, LateRefusalsAreKnown
  <1>3. CASE Evaluate
    <2>1. UNCHANGED <<problem, arm, served>>
      BY <1>3 DEF Evaluate, Prepare, Dispute, SelectMandatory, SelectPass, SelectWay, NextPass,
                  Select, retrieval, evaluation
    <2>2. CASE served = NoArm
      BY <2>1, <2>2 DEF LateRefusalsAreKnown
    <2>3. CASE served # NoArm /\ ~problem.direct
      <3>1. Passed(arm)
        BY <2>3 DEF ArmInv
      <3>2. phase' # "refused"
        <4>1. CASE Prepare
          BY <3>1, <4>1, PassedAgain DEF Prepare
        <4>2. CASE SelectMandatory
          BY <3>1, <4>2, PassedAgain DEF SelectMandatory, EvaluationInv
        <4> QED
          BY <1>3, <4>1, <4>2 DEF Evaluate, Dispute, SelectPass, SelectWay, NextPass, retrieval
      <3> QED
        BY <3>2 DEF LateRefusalsAreKnown
    <2>4. CASE served # NoArm /\ problem.direct
      <3>1. phase' = "refused" => cause' \in {"policy_capacity", "supersession"}
        BY <1>3 DEF Evaluate, Prepare, Dispute, SelectMandatory, SelectPass, SelectWay, NextPass,
                    Refuse, retrieval
      <3> QED
        BY <2>1, <2>4, <3>1 DEF LateRefusalsAreKnown
    <2> QED
      BY <2>2, <2>3, <2>4
  <1>4. CASE Compile
    <2>1. CASE ReceiptValid
      BY <1>4, <2>1 DEF Compile, LateRefusalsAreKnown
    <2>2. CASE ~ReceiptValid
      <3>1. UNCHANGED <<problem, arm>> /\ cause' = "receipt" /\ phase = "compile"
        BY <1>4, <2>2 DEF Compile, Refuse
      <3>2. ~(MandatorySeeds \subseteq Protected)
        BY <2>2, <3>1, ReceiptStands DEF RetrievalInv
      <3> QED
        BY <3>1, <3>2, SeedsSame DEF LateRefusalsAreKnown
    <2> QED
      BY <2>1, <2>2
  <1>5. CASE Render
    <2>1. CASE SameOrder(selected)
      BY <1>5, <2>1 DEF Render, LateRefusalsAreKnown
    <2>2. CASE ~SameOrder(selected)
      <3>1. cause' = "order" /\ selected' = selected /\ problem' = problem
        BY <1>5, <2>2 DEF Render, Refuse, evaluation
      <3>2. ~SameOrder(selected)'
        BY <2>2, <3>1 DEF SameOrder
      <3> QED
        BY <3>1, <3>2 DEF LateRefusalsAreKnown
    <2> QED
      BY <2>1, <2>2
  <1>6. CASE Expose
    <2>1. CASE ContractVerifies
      BY <1>6, <2>1 DEF Expose, LateRefusalsAreKnown
    <2>2. CASE ~ContractVerifies
      <3>1. cause' = "contract" /\ selected' = selected /\ UNCHANGED <<problem, arm, kept>>
        BY <1>6, <2>2 DEF Expose, Refuse, evaluation
      <3>2. ~SameOrder(selected)' \/ Rehydrations' # {}
        BY <2>2, <3>1, ContractStands, EligibleSame DEF SameOrder
      <3> QED
        BY <3>1, <3>2 DEF LateRefusalsAreKnown
    <2> QED
      BY <2>1, <2>2
  <1>7. CASE Decided \/ UNCHANGED vars
    <2>1. UNCHANGED <<problem, arm, kept, phase, cause, served, selected>>
      BY <1>7 DEF Decided, vars, retrieval, evaluation
    <2>2. SameOrder(selected)' = SameOrder(selected)
      BY <2>1 DEF SameOrder
    <2>3. Rehydrations' = Rehydrations
      BY <2>1, EligibleSame
    <2>4. (MandatorySeeds \subseteq Protected)' = (MandatorySeeds \subseteq Protected)
      BY <2>1, SeedsSame
    <2> QED
      BY <2>1, <2>2, <2>3, <2>4 DEF LateRefusalsAreKnown
  <1> QED
    BY <1>1, <1>2, <1>3, <1>4, <1>5, <1>6, <1>7 DEF Next

-----------------------------------------------------------------------------
LEMMA InvariantInit == Init => IInv
  <1> SUFFICES ASSUME Init PROVE IInv
    OBVIOUS
  <1>1. TypeOK
    BY TypeInit
  <1>2. phase = "retrieve" /\ served = NoArm /\ tried = {} /\ arm = "authoritative"
    BY DEF Init
  <1>3. arm \in problem.arms
    BY <1>1, <1>2, ProblemsAssumption DEF TypeOK, RequestParsed
  <1>4. ArmInv
    BY <1>2, <1>3 DEF ArmInv
  <1> QED
    BY <1>1, <1>2, <1>4 DEF IInv, RetrievalInv, EvaluationInv, PicksFit, Selected,
                           LateRefusalsAreKnown

LEMMA InvariantStep == IInv /\ [Next]_vars => IInv'
  <1> SUFFICES ASSUME IInv, [Next]_vars PROVE IInv'
    OBVIOUS
  <1>1. TypeOK'
    BY TypeStep DEF IInv, ArmInv
  <1> QED
    BY <1>1, ArmStep, RetrievalStep, EvaluationStep, RefusalStep DEF IInv

(* The inductive invariant of the assembly.                                *)
THEOREM Invariant == Spec => []IInv
  <1>1. Init => IInv
    BY InvariantInit
  <1>2. IInv /\ [Next]_vars => IInv'
    BY InvariantStep
  <1> QED
    BY <1>1, <1>2, PTL DEF Spec

(* Retrieval, evaluation and the decision keep to their domains.           *)
THEOREM TypeCorrect == Spec => []TypeOK
  <1>1. IInv => TypeOK
    BY DEF IInv
  <1> QED
    BY <1>1, Invariant, PTL

(* After the assignment a decision is refused only for the order of its    *)
(* digests, an archived capsule, or a mandatory capsule that nothing       *)
(* protects (continuation-compiler, decision-assembly.ts).                 *)
THEOREM LateRefusals == Spec => []LateRefusalsAreKnown
  <1>1. IInv => LateRefusalsAreKnown
    BY DEF IInv
  <1> QED
    BY <1>1, Invariant, PTL

-----------------------------------------------------------------------------
(* Only a pair of direct uses is disputed.                                 *)
LEMMA DisputedUses ==
  ASSUME Matching(Pairs, disputed), NEW c, Disputed(c)
  PROVE  c \in Eligible /\ BaseSurface(c) = "use_now"
  BY DEF Matching, Disputed, Pairs

LEMMA BindingIsEnforced ==
  ASSUME IInv, Selected, NEW c \in Source, Live(c),
         Disposition(c) = "prohibit" \/ Facts(c).kind = "counter_evidence"
  PROVE  Enforced(c)
  <1>1. Retained(kept[arm]) /\ SupersessionValid /\ Matching(Pairs, disputed)
        /\ Mandatory \subseteq selected
    BY DEF IInv, RetrievalInv, EvaluationInv, Selected
  <1>2. c \in kept[arm]
    BY <1>1 DEF ProtectedSeeds, Guarding, Retained
  <1>3. c \in Prepared
    BY <1>2 DEF Prepared, Universe, Servable, Archived, Live, AuditOnly
  <1>4. CASE \E d \in Prepared : Superseding(d, c)
    <2>1. PICK d \in Prepared : Superseding(d, c)
      BY <1>4
    <2>2. Facts(d).authority >= Facts(c).authority /\ <<d, c>> \in problem.supersedes
      BY <1>1, <1>3, <2>1 DEF SupersessionValid, Superseding
    <2>3. d \in Source
      BY <1>1, <2>1 DEF Prepared, Universe, Retained
    <2> QED
      BY <2>2, <2>3 DEF Enforced
  <1>5. CASE ~\E d \in Prepared : Superseding(d, c)
    <2>1. BaseSurface(c) = "do_not_use"
      BY DEF BaseSurface
    <2>2. c \in Eligible
      BY <1>3, <1>5, <2>1 DEF Eligible, Current, Superseded, Outranked, Contend
    <2>3. c \in selected
      BY <1>1, <2>1, <2>2 DEF Mandatory
    <2>4. Surface(c) = "do_not_use"
      BY <1>1, <2>1, DisputedUses DEF Surface
    <2> QED
      BY <2>3, <2>4 DEF Enforced
  <1> QED
    BY <1>4, <1>5

(* What is retrieved is closed under its relations, a prohibition or       *)
(* counter-evidence is selected as something not to use, picks fit the     *)
(* limits, and no hard obligation is left that a pick would cover.         *)
THEOREM SelectionSound == Spec => []SelectionIsSound
  <1>1. IInv => SelectionIsSound
    <2> SUFFICES ASSUME IInv PROVE SelectionIsSound
      OBVIOUS
    <2>1. RetrievedIsClosed
      BY DEF IInv, RetrievalInv, RetrievedIsClosed, Retained, Selected
    <2>2. SafetyNeverDropped
      BY BindingIsEnforced DEF SafetyNeverDropped
    <2>3. PicksFit
      BY DEF IInv, EvaluationInv
    <2>4. NothingLeftOut
      BY DEF IInv, EvaluationInv, NothingLeftOut, Exhausted, Selected
    <2> QED
      BY <2>1, <2>2, <2>3, <2>4 DEF SelectionIsSound
  <1> QED
    BY <1>1, Invariant, PTL

-----------------------------------------------------------------------------
(* A capsule that covers an obligation is in force and carries it.         *)
LEMMA CoverCarries ==
  ASSUME IInv, Selected, NEW o \in Hard, NEW c \in selected, Covers(c, o)
  PROVE  Carries(c, o)
  <1>1. /\ TypeOK /\ Retained(kept[arm]) /\ Matching(Pairs, disputed) /\ PicksFit
        /\ Disputes = {} /\ Mandatory \subseteq selected /\ selected \subseteq Eligible
    BY DEF IInv, RetrievalInv, EvaluationInv, Selected
  <1>2. c \in Eligible /\ c \in Prepared /\ c \in kept[arm] /\ c \in Source /\ c \in Capsules
    BY <1>1, EligibleType DEF Retained
  <1>3. CandidateParsed(Facts(c)) /\ arm \in Arms
    BY <1>1, <1>2, ProblemsAssumption DEF TypeOK, RequestParsed, Facts
  <1>4. o \in Facts(c).claims /\ Facts(c).lifecycle = "active" /\ Facts(c).fits
        /\ Disposition(c) # "exclude"
    BY <1>2, <1>3 DEF Prepared, Servable, Archived, Applicable, CandidateParsed, Covers
  <1>5. CASE o \in Prohibitions
    BY <1>4, <1>5 DEF Covers, Carries
  <1>6. CASE o \notin Prohibitions
    <2>1. Surface(c) = "use_now" /\ Requires[o] \subseteq Satisfied(c)
      BY <1>6 DEF Covers
    <2>2. ~Disputed(c) /\ BaseSurface(c) = "use_now"
      BY <2>1 DEF Surface
    <2>3. Disposition(c) = "include"
      <3>1. Disposition(c) # "prohibit"
        BY <2>2 DEF BaseSurface
      <3>2. Disposition(c) # "unbound"
        BY <1>2 DEF Source
      <3>3. Disposition(c) \in {"include", "prohibit", "exclude", "unbound"}
        BY <1>3 DEF Disposition, CandidateParsed
      <3> QED
        BY <1>4, <3>1, <3>2, <3>3
    <2>4. Evidence(c, o)
      <3>1. SUFFICES ASSUME NEW p \in Requires[o]
                     PROVE  \E s \in Facts(c).specs, seen \in problem.seen :
                              /\ s.probe = p /\ seen.probe = p /\ seen.trusted
                              /\ seen.value = s.expects /\ 0 =< seen.age /\ 0 =< seen.left
                              /\ seen.age + seen.left =< s.max_age
        BY DEF Evidence
      <3>2. PICK s \in Some(c, "satisfied") : s.probe = p
        BY <2>1, <3>1 DEF Satisfied
      <3>3. s \in Facts(c).specs /\ Status(s) = "satisfied"
        BY <3>2 DEF Some
      <3>4. PICK seen \in problem.seen : Usable(s, seen) /\ seen.value = s.expects
        BY <3>3 DEF Status
      <3> QED
        BY <3>2, <3>3, <3>4 DEF Usable
    <2>5. ASSUME NEW d \in kept[arm], Conflict(c, d), BaseSurface(d) = "use_now",
                 d \in Current, Facts(d).authority > Facts(c).authority
          PROVE  FALSE
      BY <1>2, <2>2, <2>5 DEF Eligible, Outranked, Contend, Universe
    <2>6. ASSUME NEW d \in Eligible, Conflict(c, d), BaseSurface(d) = "use_now",
                 Facts(d).authority = Facts(c).authority, Shared(c, d) # {}
          PROVE  FALSE
      <3>1. c # d /\ c \in Nat /\ d \in Nat /\ Conflict(d, c) /\ Shared(d, c) = Shared(c, d)
        BY <1>1, <1>2, <2>6, ConflictOfTwo, EligibleType, RetrievalAssumption DEF Shared
      <3>2. PICK p \in Pairs : {p[1], p[2]} = {c, d}
        <4>1. CASE c < d
          <5>1. <<c, d>> \in Pairs
            BY <1>2, <2>2, <2>6, <4>1 DEF Pairs
          <5> QED
            BY <5>1
        <4>2. CASE d < c
          <5>1. <<d, c>> \in Pairs
            BY <1>2, <2>2, <2>6, <3>1, <4>2 DEF Pairs
          <5> QED
            BY <5>1
        <4> QED
          BY <3>1, <4>1, <4>2
      <3>3. PICK r \in disputed : Meets(r, p)
        BY <1>1, OpenPairs
      <3>4. Disputed(d)
        BY <2>2, <3>2, <3>3 DEF Meets, Disputed
      <3>5. d \in selected /\ c \notin Mandatory
        BY <1>1, <2>2, <2>6, <3>4 DEF Mandatory
      <3> QED
        BY <1>1, <2>6, <3>5 DEF PicksFit
    <2> QED
      BY <1>4, <1>6, <2>3, <2>4, <2>5, <2>6 DEF Carries
  <1> QED
    BY <1>5, <1>6

(* A contract that says execute has each hard obligation carried by a      *)
(* capsule in force on fresh evidence, shows nothing that contradicts      *)
(* another, and fits the budget.                                           *)
THEOREM ExecutionSound == Spec => []ExecuteIsSound
  <1>1. IInv => ExecuteIsSound
    <2> SUFFICES ASSUME IInv, phase = "served", Mode = "execute"
                 PROVE  /\ \A o \in Hard : \E c \in selected : Carries(c, o)
                        /\ ~\E c, d \in selected : Conflict(c, d)
                        /\ Cost(selected) =< problem.budget
      BY DEF ExecuteIsSound
    <2>1. Complete
      BY DEF Mode
    <2>2. ASSUME NEW o \in Hard
          PROVE  \E c \in selected : Carries(c, o)
      <3>1. CoverageStatus(o) = "covered"
        BY <2>1 DEF Complete, HardComplete, OpenHard
      <3>2. PICK c \in selected : Covers(c, o)
        BY <3>1 DEF CoverageStatus, Covered
      <3> QED
        BY <3>2, CoverCarries DEF Selected
    <2> QED
      BY <2>1, <2>2 DEF Complete, ConflictFree, BudgetSatisfied
  <1> QED
    BY <1>1, Invariant, PTL
=============================================================================
