-------------------------- MODULE OperationsProofs --------------------------
(***************************************************************************)
(* Theorems about the memory of a scope and the operations over it, for    *)
(* every set of memories, families, recordings and lifecycle moves, and    *)
(* any number of operations.                                               *)
(*                                                                         *)
(* The tables are a projection of the chain, receipts and decisions are    *)
(* derived from tables that go on changing.  The invariant says of every   *)
(* part how it follows from the chain (LedgerInv), that branches are bound *)
(* to capsules the tables hold (BranchInv), that what is stored names      *)
(* operations that completed (SourceInv), and what was derived before is   *)
(* derived again (RecordInv).                                              *)
(***************************************************************************)
EXTENDS Operations, FiniteSetTheorems, SequenceTheorems, WellFoundedInduction, TLAPS

-----------------------------------------------------------------------------
(* The inductive invariant.                                                *)
Partial(S) == UNION {[D -> S] : D \in SUBSET Memories}
CommitRows == [op : Nat, decided : BOOLEAN, items : Partial(Bodies), caps : Partial(Capsules)]
LedgerTyped == commits \in Seq(CommitRows) /\ LedgerTypeOK

(* A capsule comes with a mutation of its memory.                          *)
CapsulesComeWithItems ==
  \A k \in DOMAIN commits : DOMAIN commits[k].caps \subseteq DOMAIN commits[k].items

(* The tables hold what each commit wrote or something later.              *)
CensusHolds == \A k \in DOMAIN commits : ItemCensus(k) /\ CapsuleCensus(k)

(* The capsules of a memory are numbered without a gap, at each revision.  *)
NumbersFilled ==
  \A m \in Memories : \A r \in 0 .. Len(commits) :
    \A n \in 1 .. Cardinality(Recordings(m, r)) : Numbering(m, r, n) # {}

ChainLegal ==
  \A k \in DOMAIN commits : /\ \A m \in DOMAIN commits[k].items : LegalItem(m, k)
                            /\ \A m \in DOMAIN commits[k].caps : LegalCapsule(m, k)

RowsHold ==
  \A m \in Memories :
    /\ items[m] # Absent => ReadableItem(m)
    /\ \A n \in DOMAIN caps[m] :
         ReadableCapsule(m, n) /\ caps[m][n].family = caps[m][1].family

(* The latest capsule of a memory stands for its row until it is archived. *)
LastStands ==
  \A m \in Memories : caps[m] # <<>> /\ items[m].body.life # "archived" =>
    /\ items[m].body.kind = caps[m][Len(caps[m])].kind
    /\ items[m].body.projection = caps[m][Len(caps[m])].projection

LedgerInv ==
  /\ LedgerTyped /\ CapsulesComeWithItems /\ TablesAreReplayed /\ CensusHolds
  /\ NumbersFilled /\ ChainLegal /\ RowsHold /\ LastStands

(* Branches are bound to learned capsules that the tables hold.            *)
Bindings == SUBSET (Memories \X Nat)
BranchTyped ==
  /\ heads \in [Families -> Seq([bind : Bindings, op : Nat])]
  /\ drafts \in Seq([family : Families, base : Nat, bind : Bindings,
                     revs : Seq([state : {"draft", "eligible", "merged"}, op : Nat])])
Learning(bind, capsule) ==
  \A ref \in bind : ref[2] \in DOMAIN capsule[ref[1]] /\ capsule[ref[1]][ref[2]].kind \in Learned
BranchInv ==
  /\ BranchTyped
  /\ \A f \in Families : /\ heads[f] # <<>> => commits # <<>>
                         /\ \A i \in DOMAIN heads[f] : Learning(heads[f][i].bind, caps)
  /\ \A c \in DOMAIN drafts : /\ drafts[c].base \in DOMAIN heads[drafts[c].family]
                              /\ drafts[c].revs # <<>> /\ Learning(drafts[c].bind, caps)

(* What is stored names operations that completed.                         *)
LogTyped == \E S : log \in Seq(S)
SourceInv ==
  /\ LogTyped /\ AuditScope
  /\ \A row \in BranchRows : BranchSource(row)
  /\ \A d \in decisions : d.op \in DOMAIN log /\ d.rev \in DOMAIN commits

(* What was derived once is derived again.  A branch that was there when   *)
(* a decision was made is bound to what its history holds, and the latest  *)
(* capsule of a memory stood for the row it had then.                      *)
Before(c, d) == \E j \in DOMAIN drafts[c].revs : drafts[c].revs[j].op =< d.op
Stands(ref, capsules, row) ==
  ref[2] \in DOMAIN capsules /\ Is(row, "active") =>
    \/ ref[2] < Len(capsules)
    \/ /\ row.body.hydrated
       /\ row.body.kind = capsules[ref[2]].kind
       /\ row.body.projection = capsules[ref[2]].projection
HeldThen(c, d) ==
  \A ref \in drafts[c].bind :
    /\ ref[2] \in DOMAIN CapsAt(ref[1], d.rev)
    /\ Stands(ref, CapsAt(ref[1], d.rev), ItemAt(ref[1], d.rev))
RecordInv ==
  /\ ReceiptsDeriveAgain /\ DecisionsReplay
  /\ \A d \in decisions : \A c \in DOMAIN drafts : Before(c, d) => HeldThen(c, d)

IInv == LedgerInv /\ BranchInv /\ SourceInv /\ RecordInv

-----------------------------------------------------------------------------
(* The past of the chain does not change.                                  *)
LEMMA LatestIs ==
  ASSUME NEW r \in Nat, NEW S \in SUBSET (1 .. r), S # {}
  PROVE  Latest(S) \in S /\ \A j \in S : j =< Latest(S)
  <1> DEFINE Rest == {r - k : k \in S}
             Less == {p \in Nat \X Nat : p[1] < p[2]}
  <1>1. Rest \subseteq Nat /\ Rest # {}
    <2>1. \A k \in S : r - k \in Nat
      OBVIOUS
    <2> QED
      BY <2>1
  <1>2. IsWellFoundedOn(Less, Nat)
    BY NatLessThanWellFounded DEF OpToRel
  <1>3. \A x, y \in Nat : x < y => <<x, y>> \in Less
    OBVIOUS
  <1>4. PICK x \in Rest : \A y \in Rest : <<y, x>> \notin Less
    <2> HIDE DEF Rest, Less
    <2> QED
      BY <1>1, <1>2, WFMin
  <1>5. PICK k \in S : x = r - k
    OBVIOUS
  <1>6. \A j \in S : ~(r - j < x)
    <2> HIDE DEF Less
    <2> QED
      BY <1>1, <1>3, <1>4
  <1>7. \A j \in S : j =< k
    BY <1>5, <1>6
  <1> QED
    BY <1>7 DEF Latest

LEMMA HistorySame ==
  ASSUME NEW r \in Nat, \A k \in 1 .. r : commits'[k] = commits[k], NEW m
  PROVE  /\ Touches(m, r)' = Touches(m, r) /\ Recordings(m, r)' = Recordings(m, r)
         /\ ItemAt(m, r)' = ItemAt(m, r)
         /\ \A n : Numbering(m, r, n)' = Numbering(m, r, n)
         /\ (\A n \in 1 .. Cardinality(Recordings(m, r)) : Numbering(m, r, n) # {}) =>
              CapsAt(m, r)' = CapsAt(m, r)
  <1>1. Touches(m, r)' = Touches(m, r) /\ Recordings(m, r)' = Recordings(m, r)
    BY DEF Touches, Recordings
  <1>2. ItemAt(m, r)' = ItemAt(m, r)
    <2>1. CASE Touches(m, r) = {}
      BY <1>1, <2>1 DEF ItemAt
    <2>2. CASE Touches(m, r) # {}
      <3>1. Latest(Touches(m, r)) \in 1 .. r
        BY <2>2, LatestIs DEF Touches
      <3>2. commits'[Latest(Touches(m, r))] = commits[Latest(Touches(m, r))]
        BY <3>1
      <3> QED
        BY <1>1, <2>2, <3>2 DEF ItemAt
    <2> QED
      BY <2>1, <2>2
  <1>3. \A n : Numbering(m, r, n)' = Numbering(m, r, n)
    <2> SUFFICES ASSUME NEW n PROVE Numbering(m, r, n)' = Numbering(m, r, n)
      OBVIOUS
    <2>1. Recordings(m, r) \subseteq 1 .. r
      BY DEF Recordings
    <2> QED
      BY <1>1, <2>1 DEF Numbering
  <1>4. ASSUME \A n \in 1 .. Cardinality(Recordings(m, r)) : Numbering(m, r, n) # {}
        PROVE  CapsAt(m, r)' = CapsAt(m, r)
    <2> DEFINE N == 1 .. Cardinality(Recordings(m, r))
               at(n) == CHOOSE k \in Numbering(m, r, n) : TRUE
    <2>1. \A n \in N : at(n) \in 1 .. r
      BY <1>4 DEF Numbering, Recordings
    <2>2. ASSUME NEW n \in N
          PROVE  /\ commits'[at(n)] = commits[at(n)]
                 /\ (CHOOSE k \in Numbering(m, r, n)' : TRUE) = at(n)
      BY <1>3, <2>1
    <2>3. CapsAt(m, r) = [n \in N |-> commits[at(n)].caps[m]]
      BY DEF CapsAt
    <2>4. CapsAt(m, r)' = [n \in N |-> commits'[CHOOSE k \in Numbering(m, r, n)' : TRUE].caps[m]]
      BY <1>1 DEF CapsAt
    <2>5. \A n \in N : commits'[CHOOSE k \in Numbering(m, r, n)' : TRUE].caps[m] = commits[at(n)].caps[m]
      BY <2>2
    <2> QED
      BY <2>3, <2>4, <2>5
  <1> QED
    BY <1>1, <1>2, <1>3, <1>4

-----------------------------------------------------------------------------
(* What appendMemoryRevision is given: bodies that parse; a capsule draft  *)
(* stands for the body of its memory; without one the body changes only    *)
(* its life and, archived, its projection.                                 *)
CapsuleDrafts == [kind : Kinds, family : Families, projection : Projections, expires : Nat]
Appends(t, muts, fresh, decided) ==
  /\ t \in Nat /\ decided \in BOOLEAN
  /\ muts \in Partial(Bodies) /\ fresh \in Partial(CapsuleDrafts)
  /\ DOMAIN fresh \subseteq DOMAIN muts
  /\ \A m \in DOMAIN muts : ParsedItem(muts[m])
  /\ \A m \in DOMAIN fresh :
       /\ muts[m].life = "active" /\ muts[m].kind = fresh[m].kind
       /\ muts[m].projection = fresh[m].projection
  /\ \A m \in DOMAIN muts \ DOMAIN fresh :
       /\ items[m] # Absent /\ muts[m].kind = items[m].body.kind
       /\ muts[m].projection = IF muts[m].life = "archived"
                               THEN Tombstone(items[m].body.projection)
                               ELSE items[m].body.projection
  /\ AppendRevision(t, muts, fresh, decided)

(* What it does: revision R of the chain, and the rows and capsules of R.  *)
Extends(R, t, decided, muts, new) ==
  /\ R = Len(commits) + 1 /\ R \in Nat \ {0} /\ Len(commits') = R
  /\ DOMAIN commits = 1 .. R - 1 /\ DOMAIN commits' = 1 .. R
  /\ \A k \in 1 .. R - 1 : commits'[k] = commits[k]
  /\ commits'[R] = Commit(t, decided, muts, new)
  /\ DOMAIN muts \subseteq Memories /\ DOMAIN new \subseteq DOMAIN muts
  /\ \A m \in Memories :
       /\ items'[m] = IF m \in DOMAIN muts THEN Row(muts[m], R) ELSE items[m]
       /\ caps[m] \in Seq(Capsules)
       /\ caps'[m] = IF m \in DOMAIN new THEN Append(caps[m], new[m]) ELSE caps[m]
  /\ \A m \in DOMAIN muts : muts[m] \in Bodies
  /\ \A m \in DOMAIN new : /\ new[m] \in Capsules
                           /\ new[m].n = Len(caps[m]) + 1 /\ new[m].rev = R
                           /\ new[m].kind = muts[m].kind
                           /\ new[m].projection = muts[m].projection

LEMMA AppendExtends ==
  ASSUME LedgerTyped, NEW t, NEW muts, NEW fresh, NEW decided, Appends(t, muts, fresh, decided)
  PROVE  /\ Extends(Len(commits) + 1, t, decided, muts, Numbered(fresh, Len(commits) + 1))
         /\ LedgerTyped'
  <1> DEFINE R == Len(commits) + 1
             new == Numbered(fresh, R)
  <1>1. /\ Len(commits) \in Nat /\ DOMAIN commits = 1 .. Len(commits) /\ R \in Nat \ {0}
    BY DEF LedgerTyped
  <1>2. caps \in [Memories -> Seq(Capsules)] /\ items \in [Memories -> {Absent} \cup [rev : Nat, body : Bodies]]
    BY DEF LedgerTyped, LedgerTypeOK
  <1>3. PICK D \in SUBSET Memories : muts \in [D -> Bodies]
    BY DEF Appends, Partial
  <1>4. PICK F \in SUBSET Memories : fresh \in [F -> CapsuleDrafts]
    BY DEF Appends, Partial
  <1>5. DOMAIN muts = D /\ DOMAIN fresh = F /\ F \subseteq D
    BY <1>3, <1>4 DEF Appends
  <1>6. \A m \in F : Len(caps[m]) \in Nat
    BY <1>2
  <1>7. DOMAIN new = F /\ new \in [F -> Capsules]
    <2>1. \A m \in F : /\ fresh[m].kind \in Kinds /\ fresh[m].family \in Families
                       /\ fresh[m].projection \in Projections /\ fresh[m].expires \in Nat
      BY <1>4 DEF CapsuleDrafts
    <2>2. \A m \in F :
            [kind |-> fresh[m].kind, family |-> fresh[m].family, projection |-> fresh[m].projection,
             expires |-> fresh[m].expires, n |-> Len(caps[m]) + 1, rev |-> R] \in Capsules
      BY <1>1, <1>6, <2>1 DEF Capsules
    <2> QED
      BY <1>5, <2>2 DEF Numbered
  <1>8. \A m \in F : /\ new[m].n = Len(caps[m]) + 1 /\ new[m].rev = R
                     /\ new[m].kind = fresh[m].kind /\ new[m].projection = fresh[m].projection
    BY <1>5 DEF Numbered
  <1>9. commits' = Append(commits, Commit(t, decided, muts, new))
    BY DEF Appends, AppendRevision, HeadRevision
  <1>10. Commit(t, decided, muts, new) \in CommitRows
    <2>1. muts \in Partial(Bodies) /\ new \in Partial(Capsules)
      BY <1>3, <1>7 DEF Partial
    <2> QED
      BY <2>1 DEF Commit, CommitRows, Appends
  <1> HIDE DEF new
  <1>11. /\ commits' \in Seq(CommitRows) /\ Len(commits') = R /\ DOMAIN commits' = 1 .. R
         /\ \A k \in 1 .. R - 1 : commits'[k] = commits[k]
         /\ commits'[R] = Commit(t, decided, muts, new)
    BY <1>1, <1>9, <1>10 DEF LedgerTyped
  <1>12. \A m \in Memories :
           /\ items'[m] = IF m \in DOMAIN muts THEN Row(muts[m], R) ELSE items[m]
           /\ caps'[m] = IF m \in DOMAIN new THEN Append(caps[m], new[m]) ELSE caps[m]
    BY DEF Appends, AppendRevision, Upsert, InsertCapsules, HeadRevision, new
  <1>13. LedgerTyped'
    <2>1. \A m \in Memories : items'[m] \in {Absent} \cup [rev : Nat, body : Bodies]
      <3>1. \A m \in D : Row(muts[m], R) \in [rev : Nat, body : Bodies]
        BY <1>1, <1>3 DEF Row
      <3>2. \A m \in Memories : items[m] \in {Absent} \cup [rev : Nat, body : Bodies]
        BY <1>2
      <3> QED
        BY <1>5, <1>12, <3>1, <3>2
    <2>2. \A m \in Memories : caps'[m] \in Seq(Capsules)
      <3>1. \A m \in Memories : caps[m] \in Seq(Capsules)
        BY <1>2
      <3>2. DOMAIN new = F /\ \A m \in F : new[m] \in Capsules
        BY <1>7
      <3>3. \A m \in F : Append(caps[m], new[m]) \in Seq(Capsules)
        BY <3>1, <3>2, AppendProperties
      <3> QED
        BY <1>12, <3>1, <3>2, <3>3
    <2>3. /\ items' = [m \in Memories |-> items'[m]]
          /\ caps' = [m \in Memories |-> caps'[m]]
      BY DEF Appends, AppendRevision, Upsert, InsertCapsules
    <2>4. /\ items' \in [Memories -> {Absent} \cup [rev : Nat, body : Bodies]]
          /\ caps' \in [Memories -> Seq(Capsules)]
      BY <2>1, <2>2, <2>3
    <2> QED
      BY <1>11, <2>4 DEF LedgerTyped, LedgerTypeOK
  <1>14. Extends(R, t, decided, muts, new)
    BY <1>1, <1>2, <1>3, <1>5, <1>7, <1>8, <1>11, <1>12 DEF Extends, Appends
  <1> QED
    BY <1>13, <1>14 DEF new

-----------------------------------------------------------------------------
(* The rows after revision R are what the chain up to R replays to.        *)
LEMMA ItemsExtend ==
  ASSUME LedgerInv, NEW R, NEW t, NEW decided, NEW muts, NEW new,
         Extends(R, t, decided, muts, new), NEW m \in Memories
  PROVE  /\ ItemAt(m, R - 1)' = items[m]
         /\ ItemAt(m, R)' = items'[m]
  <1>1. R \in Nat /\ R - 1 \in Nat /\ R - 1 = Len(commits) /\ R \in 1 .. R
    BY DEF Extends, LedgerInv, LedgerTyped
  <1>2. \A k \in 1 .. R - 1 : commits'[k] = commits[k]
    BY DEF Extends
  <1>3. Touches(m, R - 1)' = Touches(m, R - 1) /\ ItemAt(m, R - 1)' = ItemAt(m, R - 1)
    BY <1>1, <1>2, HistorySame
  <1>4. ItemAt(m, R - 1) = items[m]
    BY <1>1 DEF LedgerInv, TablesAreReplayed, HeadRevision
  <1>5. commits'[R].items = muts
    BY DEF Extends, Commit
  <1>6. CASE m \in DOMAIN muts
    <2>1. R \in Touches(m, R)' /\ Touches(m, R)' \in SUBSET (1 .. R)
      BY <1>1, <1>5, <1>6 DEF Touches
    <2>2. Latest(Touches(m, R)') = R
      <3> DEFINE S == Touches(m, R)'
      <3>1. S \in SUBSET (1 .. R) /\ R \in S
        BY <2>1
      <3> HIDE DEF S
      <3>2. Latest(S) \in S /\ R =< Latest(S)
        BY <1>1, <3>1, LatestIs
      <3>3. Latest(S) = R
        <4>1. Latest(S) \in 1 .. R
          BY <3>1, <3>2
        <4> QED
          BY <1>1, <3>2, <4>1
      <3> QED
        BY <3>3 DEF S
    <2>3. ItemAt(m, R)' = Row(muts[m], R)
      BY <1>5, <2>1, <2>2 DEF ItemAt
    <2> QED
      BY <1>3, <1>4, <1>6, <2>3 DEF Extends
  <1>7. CASE m \notin DOMAIN muts
    <2>1. Touches(m, R)' = Touches(m, R - 1)'
      BY <1>1, <1>5, <1>7 DEF Touches
    <2>2. ItemAt(m, R)' = ItemAt(m, R - 1)'
      BY <2>1 DEF ItemAt
    <2> QED
      BY <1>3, <1>4, <1>7, <2>2 DEF Extends
  <1> QED
    BY <1>6, <1>7

(* Every capsule of the chain is in the table, at its number.              *)
LEMMA NumbersInTable ==
  ASSUME LedgerInv, NEW m \in Memories, NEW k \in DOMAIN commits, m \in DOMAIN commits[k].caps
  PROVE  LET n == commits[k].caps[m].n IN
         n \in DOMAIN caps[m] /\ caps[m][n] = commits[k].caps[m] /\ commits[k].caps[m].rev = k
  <1>1. CapsuleCensus(k)
    BY DEF LedgerInv, CensusHolds
  <1>2. <<m, commits[k].caps[m]>> \in
          UNION {{<<x, caps[x][n]>> : n \in {i \in DOMAIN caps[x] : caps[x][i].rev = k}} : x \in Memories}
    BY <1>1 DEF CapsuleCensus
  <1>3. PICK n \in DOMAIN caps[m] : caps[m][n] = commits[k].caps[m] /\ caps[m][n].rev = k
    BY <1>2
  <1>4. caps[m][n].n = n
    BY DEF LedgerInv, RowsHold, ReadableCapsule, VerifiedCapsule
  <1> QED
    BY <1>3, <1>4

LEMMA CountIsLength ==
  ASSUME LedgerInv, NEW m \in Memories
  PROVE  /\ IsFiniteSet(Recordings(m, Len(commits)))
         /\ Cardinality(Recordings(m, Len(commits))) = Len(caps[m])
         /\ Len(caps[m]) \in Nat /\ DOMAIN caps[m] = 1 .. Len(caps[m])
  <1>1. caps[m] \in Seq(Capsules) /\ Len(commits) \in Nat
    BY DEF LedgerInv, LedgerTyped, LedgerTypeOK
  <1>2. Len(caps[m]) \in Nat /\ DOMAIN caps[m] = 1 .. Len(caps[m])
    BY <1>1
  <1>3. IsFiniteSet(Recordings(m, Len(commits)))
    <2>1. IsFiniteSet(1 .. Len(commits)) /\ Recordings(m, Len(commits)) \subseteq 1 .. Len(commits)
      BY <1>1, FS_Interval DEF Recordings
    <2> QED
      BY <2>1, FS_Subset
  <1>4. Cardinality(Recordings(m, Len(commits))) \in Nat
    BY <1>3, FS_CardinalityType
  <1>5. DOMAIN caps[m] = 1 .. Cardinality(Recordings(m, Len(commits)))
    <2>1. caps[m] = CapsAt(m, Len(commits))
      BY DEF LedgerInv, TablesAreReplayed, HeadRevision
    <2>2. DOMAIN CapsAt(m, Len(commits)) = 1 .. Cardinality(Recordings(m, Len(commits)))
      BY DEF CapsAt
    <2> QED
      BY <2>1, <2>2
  <1>6. Cardinality(Recordings(m, Len(commits))) = Len(caps[m])
    <2> DEFINE a == Cardinality(Recordings(m, Len(commits)))
               b == Len(caps[m])
    <2>1. a \in Nat /\ b \in Nat /\ 1 .. a = 1 .. b
      BY <1>2, <1>4, <1>5
    <2> HIDE DEF a, b
    <2>2. a =< b
      BY <2>1
    <2>3. b =< a
      BY <2>1
    <2>4. a = b
      BY <2>1, <2>2, <2>3
    <2> QED
      BY <2>4 DEF a, b
  <1> QED
    BY <1>2, <1>3, <1>6

(* The capsules after revision R are what the chain up to R replays to.    *)
LEMMA CapsExtend ==
  ASSUME LedgerInv, NEW R, NEW t, NEW decided, NEW muts, NEW new,
         Extends(R, t, decided, muts, new), NEW m \in Memories
  PROVE  /\ CapsAt(m, R - 1)' = caps[m]
         /\ CapsAt(m, R)' = caps'[m]
         /\ Cardinality(Recordings(m, R))' = Len(caps'[m])
         /\ \A n \in 1 .. Len(caps'[m]) : Numbering(m, R, n)' # {}
  <1>0. PICK L, q : L = Len(caps[m]) /\ q = L + 1
    OBVIOUS
  <1> DEFINE Old == Recordings(m, R - 1)
  <1>1. R \in Nat /\ R - 1 \in Nat /\ R - 1 = Len(commits) /\ R \in 1 .. R
    BY DEF Extends, LedgerInv, LedgerTyped
  <1>2. \A k \in 1 .. R - 1 : commits'[k] = commits[k]
    BY DEF Extends
  <1>3. /\ IsFiniteSet(Old) /\ Cardinality(Old) = L /\ L \in Nat /\ DOMAIN caps[m] = 1 .. L
        /\ caps[m] = CapsAt(m, R - 1) /\ q \in Nat /\ q > L
    BY <1>0, <1>1, CountIsLength DEF LedgerInv, TablesAreReplayed, HeadRevision
  <1>4. \A n \in 1 .. L : Numbering(m, R - 1, n) # {}
    BY <1>1, <1>3 DEF LedgerInv, NumbersFilled
  <1>5. /\ Old' = Old /\ CapsAt(m, R - 1)' = caps[m]
        /\ \A n : Numbering(m, R - 1, n)' = Numbering(m, R - 1, n)
    BY <1>1, <1>2, <1>3, <1>4, HistorySame
  <1>6. commits'[R].caps = new /\ caps[m] \in Seq(Capsules)
    BY DEF Extends, Commit
  <1>7. CASE m \notin DOMAIN new
    <2>1. Recordings(m, R)' = Old'
      BY <1>1, <1>6, <1>7 DEF Recordings
    <2>2. \A n : Numbering(m, R, n)' = Numbering(m, R - 1, n)'
      BY <2>1 DEF Numbering
    <2>3. CapsAt(m, R)' = CapsAt(m, R - 1)'
      <3> DEFINE N == 1 .. Cardinality(Old')
                 at(n) == commits'[CHOOSE k \in Numbering(m, R - 1, n)' : TRUE].caps[m]
      <3>1. CapsAt(m, R - 1)' = [n \in N |-> at(n)]
        BY DEF CapsAt
      <3>2. CapsAt(m, R)' = [n \in N |-> commits'[CHOOSE k \in Numbering(m, R, n)' : TRUE].caps[m]]
        BY <2>1 DEF CapsAt
      <3>3. \A n \in N : commits'[CHOOSE k \in Numbering(m, R, n)' : TRUE].caps[m] = at(n)
        <4> SUFFICES ASSUME NEW n
                     PROVE  commits'[CHOOSE k \in Numbering(m, R, n)' : TRUE].caps[m] = at(n)
          OBVIOUS
        <4>1. (CHOOSE k \in Numbering(m, R, n)' : TRUE) = (CHOOSE k \in Numbering(m, R - 1, n)' : TRUE)
          BY <2>2
        <4> QED
          BY <4>1
      <3> QED
        BY <3>1, <3>2, <3>3
    <2>4. caps'[m] = caps[m]
      BY <1>7 DEF Extends
    <2> QED
      BY <1>3, <1>4, <1>5, <2>1, <2>2, <2>3, <2>4
  <1>8. CASE m \in DOMAIN new
    <2>1. new[m].n = q /\ new[m] \in Capsules /\ caps'[m] = Append(caps[m], new[m])
      BY <1>0, <1>8 DEF Extends
    <2>2. /\ Len(caps'[m]) = q /\ DOMAIN caps'[m] = 1 .. q
          /\ \A n \in 1 .. L : caps'[m][n] = caps[m][n]
          /\ caps'[m][q] = new[m] /\ caps'[m] \in Seq(Capsules)
      BY <1>0, <1>3, <1>6, <2>1, AppendProperties
    <2>3. Recordings(m, R)' = Old \cup {R} /\ R \notin Old
      <3>1. Recordings(m, R)' = Old' \cup {R}
        BY <1>1, <1>6, <1>8 DEF Recordings
      <3>2. R \notin Old
        BY <1>1 DEF Recordings
      <3> QED
        BY <1>5, <3>1, <3>2
    <2>4. Cardinality(Recordings(m, R)') = q
      BY <1>0, <1>3, <2>3, FS_AddElement
    <2>5. \A k \in Old : /\ commits'[k] = commits[k]
                         /\ commits[k].caps[m].n \in 1 .. L
                         /\ caps[m][commits[k].caps[m].n] = commits[k].caps[m]
      BY <1>1, <1>2, <1>3, NumbersInTable DEF Recordings, LedgerInv, LedgerTyped
    <2>6. ASSUME NEW n \in 1 .. L
          PROVE  /\ Numbering(m, R, n)' # {}
                 /\ commits'[CHOOSE k \in Numbering(m, R, n)' : TRUE].caps[m] = caps[m][n]
      <3>1. PICK k \in Old : commits[k].caps[m].n = n
        BY <1>4, <2>6 DEF Numbering
      <3>2. k \in Numbering(m, R, n)'
        BY <2>3, <2>5, <3>1 DEF Numbering
      <3>3. \A j \in Numbering(m, R, n)' : j \in Old /\ commits'[j].caps[m] = caps[m][n]
        <4>1. SUFFICES ASSUME NEW j \in Numbering(m, R, n)'
                       PROVE  j \in Old /\ commits'[j].caps[m] = caps[m][n]
          OBVIOUS
        <4>2. j \in Old \cup {R} /\ commits'[j].caps[m].n = n
          BY <2>3, <4>1 DEF Numbering
        <4>3. j # R
          BY <1>3, <1>6, <2>1, <4>2
        <4> QED
          BY <2>5, <4>2, <4>3
      <3> QED
        BY <3>2, <3>3
    <2>7. /\ Numbering(m, R, q)' # {}
          /\ commits'[CHOOSE k \in Numbering(m, R, q)' : TRUE].caps[m] = new[m]
      <3>1. R \in Numbering(m, R, q)'
        BY <1>6, <2>1, <2>3 DEF Numbering
      <3>2. \A j \in Numbering(m, R, q)' : j = R
        <4>1. \A j \in Old : commits'[j].caps[m].n # q
          BY <1>3, <2>5
        <4> QED
          BY <2>3, <4>1 DEF Numbering
      <3> QED
        BY <1>6, <3>1, <3>2
    <2>8. ASSUME NEW n \in 1 .. q
          PROVE  /\ Numbering(m, R, n)' # {}
                 /\ commits'[CHOOSE k \in Numbering(m, R, n)' : TRUE].caps[m] = caps'[m][n]
      <3>1. CASE n \in 1 .. L
        BY <2>2, <2>6, <3>1
      <3>2. CASE n = q
        BY <2>2, <2>7, <3>2
      <3> QED
        BY <1>0, <1>3, <3>1, <3>2
    <2>9. CapsAt(m, R)' = caps'[m]
      <3>1. CapsAt(m, R)' = [n \in 1 .. q |-> commits'[CHOOSE k \in Numbering(m, R, n)' : TRUE].caps[m]]
        BY <2>4 DEF CapsAt
      <3>2. caps'[m] = [n \in 1 .. q |-> caps'[m][n]]
        BY <2>2
      <3> QED
        BY <2>8, <3>1, <3>2
    <2> QED
      BY <1>5, <2>2, <2>4, <2>8, <2>9
  <1> QED
    BY <1>7, <1>8

-----------------------------------------------------------------------------
(* Each part of the ledger's invariant after revision R.                   *)
Grows(R, t, muts, fresh, decided, new) ==
  /\ LedgerInv /\ LedgerTyped'
  /\ Appends(t, muts, fresh, decided) /\ Extends(R, t, decided, muts, new)
  /\ DOMAIN new = DOMAIN fresh
  /\ \A m \in DOMAIN fresh : new[m].family = fresh[m].family

LEMMA CommitsTyped ==
  ASSUME LedgerTyped, NEW k \in DOMAIN commits
  PROVE  /\ DOMAIN commits[k].items \subseteq Memories /\ DOMAIN commits[k].caps \subseteq Memories
         /\ k \in 1 .. Len(commits) /\ Len(commits) \in Nat
  <1>1. commits \in Seq(CommitRows)
    BY DEF LedgerTyped
  <1>2. commits[k] \in CommitRows /\ k \in 1 .. Len(commits) /\ Len(commits) \in Nat
    BY <1>1
  <1>3. commits[k].items \in Partial(Bodies) /\ commits[k].caps \in Partial(Capsules)
    BY <1>2 DEF CommitRows
  <1> QED
    BY <1>2, <1>3 DEF Partial

LEMMA AppendGrows ==
  ASSUME LedgerInv, NEW t, NEW muts, NEW fresh, NEW decided, Appends(t, muts, fresh, decided)
  PROVE  \E R, new : Grows(R, t, muts, fresh, decided, new)
  <1>1. PICK R, new : R = Len(commits) + 1 /\ new = Numbered(fresh, R)
    OBVIOUS
  <1>2. Extends(R, t, decided, muts, new) /\ LedgerTyped'
    BY <1>1, AppendExtends DEF LedgerInv
  <1>3. DOMAIN new = DOMAIN fresh /\ \A m \in DOMAIN fresh : new[m].family = fresh[m].family
    BY <1>1 DEF Numbered
  <1> QED
    BY <1>2, <1>3 DEF Grows

LEMMA PastStays ==
  ASSUME NEW R, NEW t, NEW muts, NEW fresh, NEW decided, NEW new,
         Grows(R, t, muts, fresh, decided, new), NEW m \in Memories, NEW r \in 0 .. R - 1
  PROVE  /\ ItemAt(m, r)' = ItemAt(m, r) /\ CapsAt(m, r)' = CapsAt(m, r)
         /\ Recordings(m, r)' = Recordings(m, r)
         /\ \A n : Numbering(m, r, n)' = Numbering(m, r, n)
  <1>1. /\ r \in Nat /\ r \in 0 .. Len(commits)
        /\ \A k \in 1 .. r : commits'[k] = commits[k]
    BY DEF Grows, Extends, LedgerInv, LedgerTyped
  <1>2. \A n \in 1 .. Cardinality(Recordings(m, r)) : Numbering(m, r, n) # {}
    BY <1>1 DEF Grows, LedgerInv, NumbersFilled
  <1> QED
    BY <1>1, <1>2, HistorySame

LEMMA GrownNumbers ==
  ASSUME NEW R, NEW t, NEW muts, NEW fresh, NEW decided, NEW new,
         Grows(R, t, muts, fresh, decided, new)
  PROVE  NumbersFilled' /\ CapsulesComeWithItems'
  <1>1. /\ R \in Nat /\ Len(commits) = R - 1 /\ Len(commits') = R
        /\ DOMAIN commits = 1 .. R - 1 /\ DOMAIN commits' = 1 .. R
        /\ \A k \in 1 .. R - 1 : commits'[k] = commits[k]
        /\ commits'[R].items = muts /\ commits'[R].caps = new /\ DOMAIN new \subseteq DOMAIN muts
    BY DEF Grows, Extends, LedgerInv, LedgerTyped, Commit
  <1>2. CapsulesComeWithItems'
    BY <1>1 DEF CapsulesComeWithItems, Grows, LedgerInv
  <1>3. ASSUME NEW m \in Memories, NEW r \in 0 .. R,
               NEW n \in 1 .. Cardinality(Recordings(m, r)')
        PROVE  Numbering(m, r, n)' # {}
    <2>1. CASE r = R
      BY <1>3, <2>1, CapsExtend DEF Grows
    <2>2. CASE r \in 0 .. R - 1
      BY <1>1, <1>3, <2>2, PastStays DEF Grows, LedgerInv, NumbersFilled
    <2> QED
      BY <1>1, <2>1, <2>2
  <1>4. NumbersFilled'
    BY <1>1, <1>3 DEF NumbersFilled
  <1> QED
    BY <1>2, <1>4

LEMMA GrownTables ==
  ASSUME NEW R, NEW t, NEW muts, NEW fresh, NEW decided, NEW new,
         Grows(R, t, muts, fresh, decided, new)
  PROVE  TablesAreReplayed'
  <1>1. Len(commits') = R
    BY DEF Grows, Extends
  <1>2. ASSUME NEW m \in Memories
        PROVE  items'[m] = ItemAt(m, R)' /\ caps'[m] = CapsAt(m, R)'
    BY ItemsExtend, CapsExtend DEF Grows
  <1> QED
    BY <1>1, <1>2 DEF TablesAreReplayed, HeadRevision

LEMMA GrownChain ==
  ASSUME NEW R, NEW t, NEW muts, NEW fresh, NEW decided, NEW new,
         Grows(R, t, muts, fresh, decided, new)
  PROVE  ChainLegal'
  <1>1. /\ R \in Nat \ {0} /\ DOMAIN commits = 1 .. R - 1 /\ DOMAIN commits' = 1 .. R
        /\ \A k \in 1 .. R - 1 : commits'[k] = commits[k]
        /\ commits'[R].items = muts /\ commits'[R].caps = new /\ commits'[R].decided = decided
    BY DEF Grows, Extends, Commit
  <1>2. \A k \in 1 .. R - 1 : DOMAIN commits[k].items \subseteq Memories /\ DOMAIN commits[k].caps \subseteq Memories
    BY <1>1, CommitsTyped DEF Grows, LedgerInv
  <1>3. ASSUME NEW k \in 1 .. R - 1, NEW m \in DOMAIN commits[k].items
        PROVE  LegalItem(m, k)'
    <2>1. ItemAt(m, k - 1)' = ItemAt(m, k - 1) /\ commits'[k] = commits[k]
      BY <1>1, <1>2, <1>3, PastStays
    <2>2. LegalItem(m, k)
      BY <1>1, <1>3 DEF Grows, LedgerInv, ChainLegal
    <2> QED
      BY <2>1, <2>2 DEF LegalItem
  <1>4. ASSUME NEW k \in 1 .. R - 1, NEW m \in DOMAIN commits[k].caps
        PROVE  LegalCapsule(m, k)'
    <2>1. /\ CapsAt(m, k - 1)' = CapsAt(m, k - 1) /\ ItemAt(m, k)' = ItemAt(m, k)
          /\ commits'[k] = commits[k]
      BY <1>1, <1>2, <1>4, PastStays
    <2>2. LegalCapsule(m, k)
      BY <1>1, <1>4 DEF Grows, LedgerInv, ChainLegal
    <2> QED
      BY <2>1, <2>2 DEF LegalCapsule
  <1>5. ASSUME NEW m \in DOMAIN muts
        PROVE  LegalItem(m, R)'
    <2>0. m \in Memories
      BY <1>5 DEF Grows, Extends
    <2>1. ItemAt(m, R - 1)' = items[m]
      BY <2>0, ItemsExtend DEF Grows
    <2>2. ParsedItem(muts[m]) /\ Semantics(m, muts[m], decided)
      BY <1>5 DEF Grows, Appends, AppendRevision
    <2>3. items[m] # Absent /\ muts[m].life = "archived" =>
            muts[m].projection = Tombstone(items[m].body.projection)
      BY <1>5 DEF Grows, Appends
    <2> QED
      BY <1>1, <2>1, <2>2, <2>3 DEF LegalItem, Semantics
  <1>6. ASSUME NEW m \in DOMAIN new
        PROVE  LegalCapsule(m, R)'
    <2>1. m \in Memories /\ m \in DOMAIN muts /\ m \in DOMAIN fresh
      BY <1>6 DEF Grows, Extends
    <2>0. CapsAt(m, R - 1)' = caps[m] /\ ItemAt(m, R)' = items'[m]
      BY <2>1, ItemsExtend, CapsExtend DEF Grows
    <2>2. CapsAt(m, R - 1)' = caps[m] /\ ItemAt(m, R)' = Row(muts[m], R)
      BY <2>0, <2>1 DEF Grows, Extends
    <2>3. caps[m] # <<>> => new[m].family = caps[m][Len(caps[m])].family
      <3>1. caps[m] # <<>> => new[m].family = caps[m][1].family
        BY <2>1 DEF Grows, Appends, AppendRevision
      <3>2. caps[m] # <<>> => Len(caps[m]) \in DOMAIN caps[m]
        BY <2>1 DEF Grows, LedgerInv, LedgerTyped, LedgerTypeOK
      <3>3. \A n \in DOMAIN caps[m] : caps[m][n].family = caps[m][1].family
        BY <2>1 DEF Grows, LedgerInv, RowsHold
      <3> QED
        BY <3>1, <3>2, <3>3
    <2>4. new[m].rev = R /\ new[m].n = Len(caps[m]) + 1 /\ new[m].projection = muts[m].projection
      BY <1>6 DEF Grows, Extends
    <2> QED
      BY <1>1, <2>2, <2>3, <2>4 DEF LegalCapsule, Row
  <1> QED
    <2>1. \A k \in 1 .. R : k \in 1 .. R - 1 \/ k = R
      BY <1>1
    <2> QED
      BY <1>1, <1>3, <1>4, <1>5, <1>6, <2>1 DEF ChainLegal

LEMMA GrownRows ==
  ASSUME NEW R, NEW t, NEW muts, NEW fresh, NEW decided, NEW new,
         Grows(R, t, muts, fresh, decided, new)
  PROVE  RowsHold' /\ LastStands'
  <1>1. /\ R \in Nat \ {0} /\ DOMAIN commits = 1 .. R - 1 /\ DOMAIN commits' = 1 .. R
    BY DEF Grows, Extends
  <1>2. ASSUME NEW m \in Memories
        PROVE  /\ items'[m] = IF m \in DOMAIN muts THEN Row(muts[m], R) ELSE items[m]
               /\ caps'[m] = IF m \in DOMAIN new THEN Append(caps[m], new[m]) ELSE caps[m]
               /\ caps[m] \in Seq(Capsules)
               /\ Len(caps[m]) \in Nat /\ DOMAIN caps[m] = 1 .. Len(caps[m])
    <2>1. caps[m] \in Seq(Capsules)
      BY DEF Grows, Extends
    <2> QED
      BY <2>1 DEF Grows, Extends
  <1>3. ASSUME NEW m \in DOMAIN muts
        PROVE  /\ m \in Memories /\ items'[m] # Absent
               /\ items'[m].rev = R /\ items'[m].body = muts[m] /\ ParsedItem(muts[m])
    <2>1. m \in Memories
      BY <1>3 DEF Grows, Extends
    <2>2. items'[m] = Row(muts[m], R)
      BY <1>2, <1>3, <2>1
    <2>3. Row(muts[m], R).rev = R /\ Row(muts[m], R).body = muts[m] /\ Absent.rev = 0 /\ R # 0
      BY <1>1 DEF Row, Absent
    <2> QED
      BY <1>3, <2>1, <2>2, <2>3 DEF Grows, Appends
  <1>4. ASSUME NEW m \in DOMAIN new
        PROVE  /\ m \in DOMAIN muts /\ new[m] \in Capsules
               /\ caps'[m] = Append(caps[m], new[m])
               /\ Len(caps'[m]) = Len(caps[m]) + 1 /\ DOMAIN caps'[m] = 1 .. Len(caps[m]) + 1
               /\ \A n \in 1 .. Len(caps[m]) : caps'[m][n] = caps[m][n]
               /\ caps'[m][Len(caps[m]) + 1] = new[m]
    <2>1. m \in DOMAIN muts /\ m \in Memories /\ new[m] \in Capsules
      BY <1>4 DEF Grows, Extends
    <2>2. caps'[m] = Append(caps[m], new[m]) /\ caps[m] \in Seq(Capsules)
      BY <1>2, <1>4, <2>1
    <2> QED
      BY <2>1, <2>2, AppendProperties
  <1>5. ASSUME NEW m \in Memories, items'[m] # Absent
        PROVE  ReadableItem(m)'
    <2>1. CASE m \in DOMAIN muts
      BY <1>1, <1>3, <2>1 DEF ReadableItem, VerifiedItem, CommitRef
    <2>2. CASE m \notin DOMAIN muts
      <3>1. items'[m] = items[m] /\ ReadableItem(m)
        BY <1>2, <1>5, <2>2 DEF Grows, LedgerInv, RowsHold
      <3> QED
        BY <1>1, <3>1 DEF ReadableItem, VerifiedItem, CommitRef
    <2> QED
      BY <2>1, <2>2
  <1>6. ASSUME NEW m \in Memories, NEW n \in DOMAIN caps'[m]
        PROVE  ReadableCapsule(m, n)' /\ caps'[m][n].family = caps'[m][1].family
    <2>1. \A i \in DOMAIN caps[m] : ReadableCapsule(m, i) /\ caps[m][i].family = caps[m][1].family
      BY DEF Grows, LedgerInv, RowsHold
    <2>2. CASE m \notin DOMAIN new
      <3>1. caps'[m] = caps[m] /\ ReadableCapsule(m, n)
        BY <1>2, <1>6, <2>1, <2>2
      <3>2. items[m] # Absent /\ VerifiedItem(items[m])
        BY <3>1 DEF ReadableCapsule
      <3>3. items'[m] # Absent /\ VerifiedItem(items'[m])
        BY <1>2, <1>3, <3>2 DEF VerifiedItem
      <3> QED
        BY <1>1, <1>6, <2>1, <3>1, <3>3 DEF ReadableCapsule, VerifiedCapsule, CommitRef
    <2>3. CASE m \in DOMAIN new
      <3>1. items'[m] # Absent /\ VerifiedItem(items'[m])
        BY <1>3, <1>4, <2>3 DEF VerifiedItem
      <3>2. new[m].n = Len(caps[m]) + 1 /\ new[m].rev = R
        BY <2>3 DEF Grows, Extends
      <3>3. caps[m] # <<>> => new[m].family = caps[m][1].family
        BY <2>3 DEF Grows, Appends, AppendRevision
      <3>4. CASE n = Len(caps[m]) + 1
        <4>1. caps'[m][n] = new[m]
          BY <1>4, <2>3, <3>4
        <4>2. ReadableCapsule(m, n)'
          BY <1>1, <3>1, <3>2, <3>4, <4>1 DEF ReadableCapsule, VerifiedCapsule, CommitRef
        <4>3. CASE caps[m] = <<>>
          BY <4>2, <3>4, <4>3
        <4>4. CASE caps[m] # <<>>
          <5>1. 1 \in 1 .. Len(caps[m])
            BY <1>2, <4>4
          <5>2. caps'[m][1] = caps[m][1]
            BY <1>4, <2>3, <5>1
          <5> QED
            BY <3>3, <4>1, <4>2, <4>4, <5>2
        <4> QED
          BY <4>3, <4>4
      <3>5. CASE n \in 1 .. Len(caps[m])
        <4>1. n \in DOMAIN caps[m] /\ 1 \in 1 .. Len(caps[m])
          BY <1>2, <3>5
        <4>2. caps'[m][n] = caps[m][n] /\ caps'[m][1] = caps[m][1]
          BY <1>4, <2>3, <3>5, <4>1
        <4>3. ReadableCapsule(m, n)'
          BY <1>1, <2>1, <3>1, <4>1, <4>2 DEF ReadableCapsule, VerifiedCapsule, CommitRef
        <4> QED
          BY <2>1, <4>1, <4>2, <4>3
      <3> QED
        BY <1>2, <1>4, <1>6, <2>3, <3>4, <3>5
    <2> QED
      BY <2>2, <2>3
  <1>7. ASSUME NEW m \in Memories, caps'[m] # <<>>, items'[m].body.life # "archived"
        PROVE  /\ items'[m].body.kind = caps'[m][Len(caps'[m])].kind
               /\ items'[m].body.projection = caps'[m][Len(caps'[m])].projection
    <2>1. CASE m \in DOMAIN new
      <3>1. new[m].kind = muts[m].kind /\ new[m].projection = muts[m].projection
        BY <2>1 DEF Grows, Extends
      <3> QED
        BY <1>3, <1>4, <2>1, <3>1
    <2>2. CASE m \notin DOMAIN new /\ m \in DOMAIN muts
      <3>1. /\ items[m] # Absent /\ muts[m].kind = items[m].body.kind
            /\ muts[m].projection = IF muts[m].life = "archived"
                                    THEN Tombstone(items[m].body.projection)
                                    ELSE items[m].body.projection
        BY <2>2 DEF Grows, Appends
      <3>2. items'[m].body = muts[m] /\ muts[m].life # "archived" /\ caps'[m] = caps[m]
        BY <1>2, <1>3, <1>7, <2>2
      <3>3. items[m].body.life # "archived"
        BY <2>2, <3>1, <3>2 DEF Grows, Appends, AppendRevision, Semantics
      <3>4. /\ items[m].body.kind = caps[m][Len(caps[m])].kind
            /\ items[m].body.projection = caps[m][Len(caps[m])].projection
        BY <1>7, <3>2, <3>3 DEF Grows, LedgerInv, LastStands
      <3> QED
        BY <3>1, <3>2, <3>4
    <2>3. CASE m \notin DOMAIN new /\ m \notin DOMAIN muts
      BY <1>2, <1>7, <2>3 DEF Grows, LedgerInv, LastStands
    <2> QED
      BY <2>1, <2>2, <2>3
  <1>8. RowsHold'
    BY <1>5, <1>6 DEF RowsHold
  <1> QED
    BY <1>7, <1>8 DEF LastStands

LEMMA GrownCensus ==
  ASSUME NEW R, NEW t, NEW muts, NEW fresh, NEW decided, NEW new,
         Grows(R, t, muts, fresh, decided, new)
  PROVE  CensusHolds' /\ Written(R)' = DOMAIN muts
  <1>1. /\ R \in Nat \ {0} /\ DOMAIN commits = 1 .. R - 1 /\ DOMAIN commits' = 1 .. R
        /\ \A k \in 1 .. R - 1 : commits'[k] = commits[k]
        /\ commits'[R].items = muts /\ commits'[R].caps = new
    BY DEF Grows, Extends, Commit
  <1>2. ASSUME NEW m \in Memories
        PROVE  /\ m \in DOMAIN muts => items'[m].rev = R
               /\ m \notin DOMAIN muts => items'[m] = items[m]
    <2>1. items'[m] = IF m \in DOMAIN muts THEN Row(muts[m], R) ELSE items[m]
      BY DEF Grows, Extends
    <2>2. Row(muts[m], R).rev = R
      BY DEF Row
    <2> QED
      BY <2>1, <2>2
  <1>3. ASSUME NEW m \in Memories
        PROVE  items[m].rev \in 0 .. R - 1
    <2>1. items[m] # Absent => items[m].rev \in 1 .. R - 1
      BY <1>1 DEF Grows, LedgerInv, RowsHold, ReadableItem, CommitRef
    <2> QED
      BY <1>1, <2>1 DEF Absent
  <1>4. ASSUME NEW m \in Memories, NEW n \in DOMAIN caps[m]
        PROVE  caps[m][n].rev \in 1 .. R - 1
    BY <1>1 DEF Grows, LedgerInv, RowsHold, ReadableCapsule, CommitRef
  <1>5. DOMAIN muts \subseteq Memories /\ DOMAIN new \subseteq DOMAIN muts
    BY DEF Grows, Extends
  <1>6. Written(R)' = DOMAIN muts
    <2>1. \A m \in Memories : items'[m].rev = R <=> m \in DOMAIN muts
      BY <1>1, <1>2, <1>3
    <2> QED
      BY <1>5, <2>1 DEF Written
  <1>7. ASSUME NEW k \in 1 .. R - 1
        PROVE  ItemCensus(k)'
    <2>1. ItemCensus(k) /\ DOMAIN commits[k].items \subseteq Memories
      BY <1>1, CommitsTyped DEF Grows, LedgerInv, CensusHolds
    <2>2. \A m \in Memories : items'[m].rev = k => items[m].rev = k
      BY <1>1, <1>2
    <2>3. Written(k)' \subseteq Written(k)
      BY <2>2 DEF Written
    <2>4. \A m \in Memories : items[m].rev >= k => items'[m].rev >= k
      BY <1>1, <1>2
    <2> QED
      BY <1>1, <2>1, <2>3, <2>4 DEF ItemCensus
  <1>8. ItemCensus(R)'
    BY <1>1, <1>2, <1>5, <1>6 DEF ItemCensus
  <1>9. ASSUME NEW m \in Memories, NEW k \in 1 .. R
        PROVE  {<<m, caps'[m][n]>> : n \in {i \in DOMAIN caps'[m] : caps'[m][i].rev = k}} =
               IF k = R THEN IF m \in DOMAIN new THEN {<<m, new[m]>>} ELSE {}
               ELSE {<<m, caps[m][n]>> : n \in {i \in DOMAIN caps[m] : caps[m][i].rev = k}}
    <2>0. caps[m] \in Seq(Capsules)
      BY DEF Grows, Extends
    <2>1. Len(caps[m]) \in Nat /\ DOMAIN caps[m] = 1 .. Len(caps[m])
      BY <2>0
    <2>2. CASE m \notin DOMAIN new
      <3>1. caps'[m] = caps[m]
        BY <2>2 DEF Grows, Extends
      <3>2. k = R => \A i \in DOMAIN caps[m] : caps[m][i].rev # k
        BY <1>1, <1>4
      <3> QED
        BY <2>2, <3>1, <3>2
    <2>3. CASE m \in DOMAIN new
      <3> DEFINE L == Len(caps[m])
      <3>1. caps'[m] = Append(caps[m], new[m]) /\ new[m].rev = R /\ new[m] \in Capsules
        BY <2>3 DEF Grows, Extends
      <3>2. /\ DOMAIN caps'[m] = 1 .. L + 1 /\ caps'[m][L + 1] = new[m]
            /\ \A n \in 1 .. L : caps'[m][n] = caps[m][n]
        BY <2>0, <3>1, AppendProperties
      <3>3. \A n \in 1 .. L : caps[m][n].rev \in 1 .. R - 1
        BY <1>4, <2>1
      <3>4. DOMAIN caps'[m] = DOMAIN caps[m] \cup {L + 1} /\ L + 1 \notin DOMAIN caps[m]
        BY <2>1, <3>2
      <3>5. CASE k = R
        <4>1. \A i \in DOMAIN caps'[m] : caps'[m][i].rev = k <=> i = L + 1
          BY <1>1, <2>1, <3>1, <3>2, <3>3, <3>4, <3>5
        <4>2. {i \in DOMAIN caps'[m] : caps'[m][i].rev = k} = {L + 1}
          BY <3>4, <4>1
        <4> QED
          BY <2>3, <3>2, <3>5, <4>2
      <3>6. CASE k # R
        <4>1. {i \in DOMAIN caps'[m] : caps'[m][i].rev = k} = {i \in DOMAIN caps[m] : caps[m][i].rev = k}
          BY <2>1, <3>1, <3>2, <3>4, <3>6
        <4> QED
          BY <2>1, <3>2, <3>6, <4>1
      <3> QED
        BY <3>5, <3>6
    <2> QED
      BY <2>2, <2>3
  <1>10. ASSUME NEW k \in 1 .. R
         PROVE  CapsuleCensus(k)'
    <2> DEFINE now(m) == {<<m, caps'[m][n]>> : n \in {i \in DOMAIN caps'[m] : caps'[m][i].rev = k}}
               old(m) == {<<m, caps[m][n]>> : n \in {i \in DOMAIN caps[m] : caps[m][i].rev = k}}
    <2>1. \A m \in Memories : now(m) = IF k = R THEN IF m \in DOMAIN new THEN {<<m, new[m]>>} ELSE {}
                                       ELSE old(m)
      BY <1>9
    <2> HIDE DEF now
    <2>2. CASE k = R
      <3>1. UNION {now(m) : m \in Memories} = {<<m, new[m]>> : m \in DOMAIN new}
        BY <1>5, <2>1, <2>2
      <3> QED
        BY <1>1, <2>2, <3>1 DEF CapsuleCensus, now
    <2>3. CASE k # R
      <3>1. CapsuleCensus(k)
        BY <1>1, <2>3 DEF Grows, LedgerInv, CensusHolds
      <3>2. \A m \in Memories : now(m) = old(m)
        BY <2>1, <2>3
      <3>3. UNION {now(m) : m \in Memories} = UNION {old(m) : m \in Memories}
        BY <3>2
      <3>4. commits'[k] = commits[k]
        BY <1>1, <2>3
      <3> QED
        BY <3>1, <3>3, <3>4 DEF CapsuleCensus, now
    <2> QED
      BY <2>2, <2>3
  <1>11. \A k \in 1 .. R : ItemCensus(k)'
    BY <1>1, <1>7, <1>8
  <1> QED
    BY <1>1, <1>6, <1>10, <1>11 DEF CensusHolds

-----------------------------------------------------------------------------
(* What any step may do to the ledger: it is left alone, or grows by one   *)
(* commit of the operation; either way its past replays to the same rows.  *)
LedgerKept(t, decided) ==
  /\ LedgerInv /\ LedgerInv'
  /\ Len(commits') \in {Len(commits), Len(commits) + 1}
  /\ \A k \in DOMAIN commits : k \in DOMAIN commits' /\ commits'[k] = commits[k]
  /\ \A k \in DOMAIN commits' \ DOMAIN commits :
       k = Len(commits) + 1 /\ commits'[k].op = t /\ commits'[k].decided = decided
  /\ \A m \in Memories : \A n \in DOMAIN caps[m] : n \in DOMAIN caps'[m] /\ caps'[m][n] = caps[m][n]
  /\ \A m \in Memories : \A r \in 0 .. Len(commits) :
       ItemAt(m, r)' = ItemAt(m, r) /\ CapsAt(m, r)' = CapsAt(m, r)
  /\ \A m \in Memories : items'[m] # items[m] =>
       /\ items[m] # Absent => items'[m].rev > items[m].rev
       /\ ~ Is(items[m], "archived") /\ ~ Is(items[m], "quarantined")

LEMMA LedgerGrows ==
  ASSUME NEW R, NEW t, NEW muts, NEW fresh, NEW decided, NEW new,
         Grows(R, t, muts, fresh, decided, new)
  PROVE  LedgerKept(t, decided)
  <1>1. LedgerInv /\ LedgerInv'
    BY GrownNumbers, GrownTables, GrownChain, GrownRows, GrownCensus DEF LedgerInv, Grows
  <1>2. /\ R \in Nat \ {0} /\ R = Len(commits) + 1 /\ Len(commits') = R
        /\ DOMAIN commits = 1 .. R - 1 /\ DOMAIN commits' = 1 .. R
        /\ \A k \in 1 .. R - 1 : commits'[k] = commits[k]
        /\ commits'[R].op = t /\ commits'[R].decided = decided
    BY DEF Grows, Extends, Commit
  <1>3. R - 1 = Len(commits)
    BY <1>2 DEF Grows, LedgerInv, LedgerTyped
  <1>4. \A m \in Memories : \A r \in 0 .. Len(commits) :
          ItemAt(m, r)' = ItemAt(m, r) /\ CapsAt(m, r)' = CapsAt(m, r)
    BY <1>3, PastStays
  <1>5. ASSUME NEW m \in Memories, NEW n \in DOMAIN caps[m]
        PROVE  n \in DOMAIN caps'[m] /\ caps'[m][n] = caps[m][n]
    <2>1. caps[m] \in Seq(Capsules)
      BY DEF Grows, Extends
    <2>2. CASE m \in DOMAIN new
      <3>1. caps'[m] = Append(caps[m], new[m]) /\ new[m] \in Capsules
        BY <2>2 DEF Grows, Extends
      <3>2. /\ DOMAIN caps'[m] = 1 .. Len(caps[m]) + 1
            /\ \A i \in 1 .. Len(caps[m]) : caps'[m][i] = caps[m][i]
            /\ Len(caps[m]) \in Nat /\ n \in 1 .. Len(caps[m])
        BY <1>5, <2>1, <3>1, AppendProperties
      <3> QED
        BY <3>2
    <2>3. CASE m \notin DOMAIN new
      BY <2>3 DEF Grows, Extends
    <2> QED
      BY <2>2, <2>3
  <1>6. ASSUME NEW m \in Memories, items'[m] # items[m]
        PROVE  /\ items[m] # Absent => items'[m].rev > items[m].rev
               /\ ~ Is(items[m], "archived") /\ ~ Is(items[m], "quarantined")
    <2>1. m \in DOMAIN muts /\ items'[m] = Row(muts[m], R)
      BY <1>6 DEF Grows, Extends
    <2>2. items[m] # Absent => items[m].rev \in 1 .. R - 1
      BY <1>2 DEF Grows, LedgerInv, RowsHold, ReadableItem, CommitRef
    <2>3. Semantics(m, muts[m], decided)
      BY <2>1 DEF Grows, Appends, AppendRevision
    <2>4. items'[m].rev = R
      BY <2>1 DEF Row
    <2>5. ~ Is(items[m], "archived") /\ ~ Is(items[m], "quarantined")
      BY <2>3 DEF Semantics, Is
    <2> QED
      BY <1>2, <2>2, <2>4, <2>5
  <1>7. /\ Len(commits') \in {Len(commits), Len(commits) + 1}
        /\ \A k \in DOMAIN commits : k \in DOMAIN commits' /\ commits'[k] = commits[k]
        /\ \A k \in DOMAIN commits' \ DOMAIN commits :
             k = Len(commits) + 1 /\ commits'[k].op = t /\ commits'[k].decided = decided
    BY <1>2
  <1> QED
    BY <1>1, <1>4, <1>5, <1>6, <1>7 DEF LedgerKept

LEMMA LedgerAlone ==
  ASSUME LedgerInv, UNCHANGED memoryVars, NEW t, NEW decided
  PROVE  LedgerKept(t, decided)
  <1>1. commits' = commits /\ items' = items /\ caps' = caps
    BY DEF memoryVars
  <1>2. ASSUME NEW m, NEW r
        PROVE  /\ ItemAt(m, r)' = ItemAt(m, r) /\ CapsAt(m, r)' = CapsAt(m, r)
               /\ Recordings(m, r)' = Recordings(m, r)
               /\ \A n : Numbering(m, r, n)' = Numbering(m, r, n)
    BY <1>1 DEF ItemAt, CapsAt, Numbering, Recordings, Touches
  <1>3. LedgerInv'
    <2>1. LedgerTyped' /\ CapsulesComeWithItems'
      BY <1>1 DEF LedgerInv, LedgerTyped, LedgerTypeOK, CapsulesComeWithItems
    <2>2. TablesAreReplayed'
      BY <1>1, <1>2 DEF LedgerInv, TablesAreReplayed, HeadRevision
    <2>3. CensusHolds'
      BY <1>1 DEF LedgerInv, CensusHolds, ItemCensus, Written, CapsuleCensus
    <2>4. NumbersFilled'
      BY <1>1, <1>2 DEF LedgerInv, NumbersFilled
    <2>5. ChainLegal'
      BY <1>1, <1>2 DEF LedgerInv, ChainLegal, LegalItem, LegalCapsule
    <2>6. RowsHold' /\ LastStands'
      BY <1>1 DEF LedgerInv, RowsHold, ReadableItem, CommitRef, ReadableCapsule, VerifiedCapsule, LastStands
    <2> QED
      BY <2>1, <2>2, <2>3, <2>4, <2>5, <2>6 DEF LedgerInv
  <1>4. \A m \in Memories : \A r \in 0 .. Len(commits) :
          ItemAt(m, r)' = ItemAt(m, r) /\ CapsAt(m, r)' = CapsAt(m, r)
    BY <1>2
  <1> QED
    BY <1>1, <1>3, <1>4 DEF LedgerKept

-----------------------------------------------------------------------------
(* What any step may do to the branches: revisions of the operation are    *)
(* added, and what a branch was opened with stays.                         *)
BranchesGrow(t) ==
  /\ BranchInv /\ BranchInv'
  /\ \A f \in Families :
       /\ \A i \in DOMAIN heads[f] : i \in DOMAIN heads'[f] /\ heads'[f][i] = heads[f][i]
       /\ \A i \in DOMAIN heads'[f] \ DOMAIN heads[f] : heads'[f][i].op = t
  /\ \A c \in DOMAIN drafts :
       /\ c \in DOMAIN drafts' /\ drafts'[c].bind = drafts[c].bind
       /\ drafts'[c].base = drafts[c].base /\ drafts'[c].family = drafts[c].family
       /\ \A j \in DOMAIN drafts[c].revs :
            j \in DOMAIN drafts'[c].revs /\ drafts'[c].revs[j] = drafts[c].revs[j]
       /\ \A j \in DOMAIN drafts'[c].revs \ DOMAIN drafts[c].revs : drafts'[c].revs[j].op = t
  /\ \A c \in DOMAIN drafts' \ DOMAIN drafts : \A j \in DOMAIN drafts'[c].revs : drafts'[c].revs[j].op = t

LEMMA DraftTyped ==
  ASSUME BranchInv, NEW c \in DOMAIN drafts
  PROVE  /\ drafts[c].family \in Families /\ drafts[c].bind \in Bindings
         /\ drafts[c].base \in DOMAIN heads[drafts[c].family] /\ drafts[c].base \in Nat
         /\ drafts[c].revs \in Seq([state : {"draft", "eligible", "merged"}, op : Nat])
         /\ drafts[c].revs # <<>> /\ Len(drafts[c].revs) \in Nat \ {0}
         /\ DOMAIN drafts[c].revs = 1 .. Len(drafts[c].revs)
  <1> DEFINE Revs == [state : {"draft", "eligible", "merged"}, op : Nat]
             Draft == [family : Families, base : Nat, bind : Bindings, revs : Seq(Revs)]
  <1>1. drafts \in Seq(Draft)
    BY DEF BranchInv, BranchTyped
  <1> HIDE DEF Draft
  <1>2. drafts[c] \in Draft
    BY <1>1
  <1>3. /\ drafts[c].family \in Families /\ drafts[c].bind \in Bindings
        /\ drafts[c].base \in Nat /\ drafts[c].revs \in Seq(Revs)
    BY <1>2 DEF Draft
  <1>4. drafts[c].base \in DOMAIN heads[drafts[c].family] /\ drafts[c].revs # <<>>
    BY DEF BranchInv
  <1> HIDE DEF Revs
  <1>5. Len(drafts[c].revs) \in Nat \ {0} /\ DOMAIN drafts[c].revs = 1 .. Len(drafts[c].revs)
    BY <1>3, <1>4
  <1> QED
    BY <1>3, <1>4, <1>5 DEF Revs

LEMMA RowsGrow ==
  ASSUME NEW t, BranchesGrow(t)
  PROVE  /\ \A f \in Families :
              /\ AuthorityRows(f) \subseteq AuthorityRows(f)'
              /\ \A row \in AuthorityRows(f)' \ AuthorityRows(f) :
                   row.op = t /\ row.rev \notin DOMAIN heads[f]
         /\ \A c \in DOMAIN drafts :
              /\ CandidateRows(c) \subseteq CandidateRows(c)'
              /\ \A row \in CandidateRows(c)' \ CandidateRows(c) : row.op = t
         /\ \A c \in DOMAIN drafts' \ DOMAIN drafts : \A row \in CandidateRows(c)' : row.op = t
         /\ BranchRows \subseteq BranchRows'
         /\ \A row \in BranchRows' \ BranchRows : row.op = t
  <1>1. ASSUME NEW f \in Families
        PROVE  /\ AuthorityRows(f) \subseteq AuthorityRows(f)'
               /\ \A row \in AuthorityRows(f)' \ AuthorityRows(f) :
                    row.op = t /\ row.rev \notin DOMAIN heads[f]
    <2> DEFINE at(i) == [branch |-> <<"authority", f>>, rev |-> i, state |-> "authoritative",
                         bind |-> heads[f][i].bind, op |-> heads[f][i].op]
    <2>1. AuthorityRows(f) = {at(i) : i \in DOMAIN heads[f]} /\ AuthorityRows(f)' = {at(i)' : i \in DOMAIN heads'[f]}
      BY DEF AuthorityRows
    <2>2. \A i \in DOMAIN heads[f] : i \in DOMAIN heads'[f] /\ at(i)' = at(i)
      BY DEF BranchesGrow
    <2>3. \A i \in DOMAIN heads'[f] \ DOMAIN heads[f] : heads'[f][i].op = t
      BY DEF BranchesGrow
    <2>4. \A i : at(i)'.op = heads'[f][i].op /\ at(i)'.rev = i
      OBVIOUS
    <2> HIDE DEF at
    <2> QED
      BY <2>1, <2>2, <2>3, <2>4
  <1>2. ASSUME NEW c \in DOMAIN drafts
        PROVE  /\ CandidateRows(c) \subseteq CandidateRows(c)'
               /\ \A row \in CandidateRows(c)' \ CandidateRows(c) : row.op = t
    <2> DEFINE at(j) == [branch |-> <<"candidate", c>>, rev |-> j, state |-> drafts[c].revs[j].state,
                         bind |-> drafts[c].bind, op |-> drafts[c].revs[j].op]
    <2>1. CandidateRows(c) = {at(j) : j \in DOMAIN drafts[c].revs} /\ CandidateRows(c)' = {at(j)' : j \in DOMAIN drafts'[c].revs}
      BY DEF CandidateRows
    <2>2. \A j \in DOMAIN drafts[c].revs : j \in DOMAIN drafts'[c].revs /\ at(j)' = at(j)
      BY DEF BranchesGrow
    <2>3. \A j \in DOMAIN drafts'[c].revs \ DOMAIN drafts[c].revs : drafts'[c].revs[j].op = t
      BY DEF BranchesGrow
    <2>4. \A j : at(j)'.op = drafts'[c].revs[j].op
      OBVIOUS
    <2> HIDE DEF at
    <2> QED
      BY <2>1, <2>2, <2>3, <2>4
  <1>3. \A c \in DOMAIN drafts' \ DOMAIN drafts : \A row \in CandidateRows(c)' : row.op = t
    BY DEF BranchesGrow, CandidateRows
  <1>4. DOMAIN drafts \subseteq DOMAIN drafts'
    BY DEF BranchesGrow
  <1>5. BranchRows \subseteq BranchRows'
    BY <1>1, <1>2, <1>4 DEF BranchRows
  <1>6. ASSUME NEW row \in BranchRows', row \notin BranchRows
        PROVE  row.op = t
    <2>1. CASE \E f \in Families : row \in AuthorityRows(f)'
      BY <1>1, <1>6, <2>1 DEF BranchRows
    <2>2. CASE \E c \in DOMAIN drafts' : row \in CandidateRows(c)'
      BY <1>2, <1>3, <1>6, <2>2 DEF BranchRows
    <2> QED
      BY <1>6, <2>1, <2>2 DEF BranchRows
  <1> QED
    BY <1>1, <1>2, <1>3, <1>5, <1>6

(* The branches an earlier operation wrote, with the base of what it       *)
(* drafted.                                                                *)
LEMMA RefsStay ==
  ASSUME NEW t, BranchesGrow(t), NEW s, s # t
  PROVE  AuthorityBranchRefs(s)' = AuthorityBranchRefs(s)
  <1> DEFINE Drafted == {d \in DOMAIN drafts : drafts[d].revs[1].op = s}
             base(c) == {row \in AuthorityRows(drafts[c].family) : row.rev = drafts[c].base}
             own == {row \in BranchRows : row.op = s}
  <1>1. own' = own
    BY RowsGrow
  <1>2. Drafted' = Drafted
    <2>1. ASSUME NEW d \in DOMAIN drafts
          PROVE  d \in DOMAIN drafts' /\ drafts'[d].revs[1] = drafts[d].revs[1]
      <3>1. 1 \in DOMAIN drafts[d].revs
        BY DraftTyped DEF BranchesGrow
      <3> QED
        BY <3>1 DEF BranchesGrow
    <2>2. ASSUME NEW d \in DOMAIN drafts', d \notin DOMAIN drafts
          PROVE  drafts'[d].revs[1].op = t
      <3> DEFINE Revs == Seq([state : {"draft", "eligible", "merged"}, op : Nat])
                 Draft == [family : Families, base : Nat, bind : Bindings, revs : Revs]
      <3>1. drafts'[d].revs # <<>> /\ drafts' \in Seq(Draft)
        BY <2>2 DEF BranchesGrow, BranchInv, BranchTyped
      <3> HIDE DEF Draft, Revs
      <3>2. drafts'[d] \in Draft
        BY <3>1
      <3>3. drafts'[d].revs \in Revs
        BY <3>2 DEF Draft
      <3>4. 1 \in DOMAIN drafts'[d].revs
        BY <3>1, <3>3 DEF Revs
      <3> QED
        BY <2>2, <3>4 DEF BranchesGrow
    <2> QED
      BY <2>1, <2>2
  <1>3. ASSUME NEW c \in DOMAIN drafts
        PROVE  base(c)' = base(c)
    <2>1. /\ drafts'[c].base = drafts[c].base /\ drafts'[c].family = drafts[c].family
          /\ drafts[c].family \in Families /\ drafts[c].base \in DOMAIN heads[drafts[c].family]
      BY DraftTyped DEF BranchesGrow
    <2>2. PICK f \in Families : f = drafts[c].family
      BY <2>1
    <2>3. /\ AuthorityRows(f) \subseteq AuthorityRows(f)'
          /\ \A row \in AuthorityRows(f)' \ AuthorityRows(f) : row.rev \notin DOMAIN heads[f]
      BY RowsGrow
    <2>4. AuthorityRows(drafts[c].family)' = AuthorityRows(f)' /\ AuthorityRows(drafts[c].family) = AuthorityRows(f)
      BY <2>1, <2>2 DEF AuthorityRows
    <2> QED
      BY <2>1, <2>2, <2>3, <2>4
  <1>4. AuthorityBranchRefs(s) = own \cup UNION {base(c) : c \in Drafted}
    BY DEF AuthorityBranchRefs
  <1>5. AuthorityBranchRefs(s)' = own' \cup UNION {base(c)' : c \in Drafted'}
    BY DEF AuthorityBranchRefs
  <1>6. \A c \in Drafted : base(c)' = base(c)
    BY <1>3
  <1> HIDE DEF own, base, Drafted
  <1> QED
    BY <1>1, <1>2, <1>4, <1>5, <1>6

-----------------------------------------------------------------------------
(* A capsule stands for the row of its memory unless a later one was       *)
(* recorded.                                                               *)
LEMMA LatestStands ==
  ASSUME LedgerInv, NEW ref, ref[1] \in Memories
  PROVE  Stands(ref, caps[ref[1]], items[ref[1]])
  <1> SUFFICES ASSUME ref[2] \in DOMAIN caps[ref[1]], Is(items[ref[1]], "active"),
                      ~(ref[2] < Len(caps[ref[1]]))
               PROVE  /\ items[ref[1]].body.hydrated
                      /\ items[ref[1]].body.kind = caps[ref[1]][ref[2]].kind
                      /\ items[ref[1]].body.projection = caps[ref[1]][ref[2]].projection
    BY DEF Stands
  <1>1. caps[ref[1]] \in Seq(Capsules)
    BY DEF LedgerInv, LedgerTyped, LedgerTypeOK
  <1>2. ref[2] = Len(caps[ref[1]]) /\ caps[ref[1]] # <<>>
    BY <1>1
  <1>3. items[ref[1]] # Absent /\ items[ref[1]].body.life = "active"
    BY DEF Is
  <1>4. items[ref[1]].body.hydrated
    BY <1>3 DEF LedgerInv, RowsHold, ReadableItem, VerifiedItem, ParsedItem
  <1> QED
    BY <1>2, <1>3, <1>4 DEF LedgerInv, LastStands

-----------------------------------------------------------------------------
(* What any operation does; a decision it makes is the one its history     *)
(* gives.                                                                  *)
Compiled(d) ==
  /\ Materializable(RowsAt(d.rev), CapsuleRowsAt(d.rev), d.bind, d.op)
  /\ Candidates(RowsAt(d.rev), CapsuleRowsAt(d.rev), d.bind,
                ReplayedContinuity(d.family, d.rev), d.op) = d.candidates

OperationRuns(t, kind) ==
  /\ t = Now /\ kind \in {"record_observations", "authority_decision", "create_continuation"}
  /\ LedgerKept(t, kind = "authority_decision")
  /\ BranchesGrow(t)
  /\ kind = "create_continuation" => UNCHANGED <<commits, items, caps, heads, drafts>>
  /\ jobs \subseteq jobs' /\ \A j \in jobs' \ jobs : j.op = t
  /\ snapshots \subseteq snapshots' /\ \A x \in snapshots' \ snapshots : x.op = t
  /\ decisions \subseteq decisions'
  /\ \A d \in decisions' \ decisions :
       /\ d.op = t /\ d.rev \in DOMAIN commits /\ Compiled(d)
       /\ UNCHANGED drafts /\ \A c \in DOMAIN drafts : HeldThen(c, d)
  /\ Derivable(t)'
  /\ log' = Append(log, [kind |-> kind, result |-> Result(t)'])

LEMMA LogGrows ==
  ASSUME LogTyped, NEW kind, NEW result, log' = Append(log, [kind |-> kind, result |-> result])
  PROVE  /\ LogTyped' /\ Len(log) \in Nat /\ DOMAIN log = 1 .. Len(log)
         /\ Len(log') = Len(log) + 1 /\ DOMAIN log' = 1 .. Len(log) + 1
         /\ \A s \in DOMAIN log : s \in DOMAIN log' /\ log'[s] = log[s]
         /\ log'[Len(log) + 1].kind = kind /\ log'[Len(log) + 1].result = result
         /\ Len(log) + 1 \notin DOMAIN log
  <1> DEFINE e == [kind |-> kind, result |-> result]
  <1>1. PICK S : log \in Seq(S)
    BY DEF LogTyped
  <1>2. log \in Seq(S \cup {e}) /\ e \in S \cup {e}
    BY <1>1, SeqMonotonic
  <1>3. e.kind = kind /\ e.result = result
    OBVIOUS
  <1> HIDE DEF e
  <1>4. log' \in Seq(S \cup {e}) /\ Len(log') = Len(log) + 1 /\ log'[Len(log) + 1] = e
        /\ \A i \in 1 .. Len(log) : log'[i] = log[i]
    BY <1>2, AppendProperties DEF e
  <1>5. Len(log) \in Nat /\ DOMAIN log = 1 .. Len(log) /\ DOMAIN log' = 1 .. Len(log) + 1
    BY <1>2, <1>4
  <1>6. LogTyped'
    BY <1>4 DEF LogTyped
  <1> QED
    BY <1>3, <1>4, <1>5, <1>6

(* What an earlier operation wrote is found again, and its receipt with it. *)
LEMMA ResultStays ==
  ASSUME NEW t, NEW kind, OperationRuns(t, kind), SourceInv, NEW s \in DOMAIN log
  PROVE  Result(s)' = Result(s) /\ CommitOf(s)' = CommitOf(s) /\ (Derivable(s) => Derivable(s)')
  <1>1. s # t
    BY DEF OperationRuns, Now, SourceInv, LogTyped
  <1>2. CommitOf(s)' = CommitOf(s)
    BY <1>1 DEF OperationRuns, LedgerKept, CommitOf
  <1>3. \A k \in CommitOf(s) : k \in DOMAIN commits' /\ commits'[k] = commits[k]
    BY DEF OperationRuns, LedgerKept, CommitOf
  <1>4. MemoryRevisionRef(s)' = MemoryRevisionRef(s)
    <2>1. CASE CommitOf(s) = {}
      BY <1>2, <2>1 DEF MemoryRevisionRef, NoRevision
    <2>2. CASE CommitOf(s) # {}
      <3>1. PICK k : k = CHOOSE x \in CommitOf(s) : TRUE
        OBVIOUS
      <3>2. k \in CommitOf(s) /\ k = CHOOSE x \in CommitOf(s)' : TRUE
        BY <1>2, <2>2, <3>1
      <3>3. commits'[k] = commits[k]
        BY <1>3, <3>2
      <3> QED
        BY <1>2, <2>2, <3>1, <3>2, <3>3 DEF MemoryRevisionRef
    <2> QED
      BY <2>1, <2>2
  <1>5. AuthorityBranchRefs(s)' = AuthorityBranchRefs(s)
    BY <1>1, RefsStay DEF OperationRuns
  <1>6. JobRefs(s)' = JobRefs(s)
    BY <1>1 DEF OperationRuns, JobRefs
  <1>7. SnapshotRefs(s)' = SnapshotRefs(s)
    BY <1>1 DEF OperationRuns, SnapshotRefs
  <1>8. DecisionRefs(s)' = DecisionRefs(s)
    BY <1>1 DEF OperationRuns, DecisionRefs
  <1>9. Result(s)' = Result(s)
    BY <1>4, <1>5, <1>6, <1>7, <1>8 DEF Result
  <1>10. Derivable(s) => Derivable(s)'
    <2>1. \A k \in CommitOf(s) : (ItemCensus(k) /\ CapsuleCensus(k))'
      BY <1>3 DEF OperationRuns, LedgerKept, LedgerInv, CensusHolds
    <2> QED
      BY <1>2, <2>1 DEF Derivable
  <1> QED
    BY <1>2, <1>9, <1>10

LEMMA SourcesHold ==
  ASSUME NEW t, NEW kind, OperationRuns(t, kind), SourceInv
  PROVE  SourceInv'
  <1>1. /\ LogTyped' /\ Len(log) \in Nat /\ DOMAIN log = 1 .. Len(log) /\ DOMAIN log' = 1 .. Len(log) + 1
        /\ \A s \in DOMAIN log : s \in DOMAIN log' /\ log'[s] = log[s]
        /\ t = Len(log) + 1 /\ log'[t].kind = kind
    BY LogGrows DEF OperationRuns, SourceInv, Now
  <1>2. Len(commits) \in Nat /\ DOMAIN commits = 1 .. Len(commits) /\ Len(commits') \in Nat
        /\ DOMAIN commits' = 1 .. Len(commits')
    BY DEF OperationRuns, LedgerKept, LedgerInv, LedgerTyped
  <1>3. ASSUME NEW k \in DOMAIN commits'
        PROVE  VerifiedCommit(k)' /\ (k > 1 => ParentOf(k)')
    <2>1. ASSUME NEW i \in DOMAIN commits
          PROVE  VerifiedCommit(i)' /\ commits'[i] = commits[i] /\ commits[i].op \in 1 .. Len(log)
                 /\ (i > 1 => ParentOf(i))
      <3>1. VerifiedCommit(i) /\ (i > 1 => ParentOf(i))
        BY <1>2 DEF SourceInv, AuditScope, Chain, HeadRevision
      <3>2. i \in DOMAIN commits' /\ commits'[i] = commits[i]
        BY DEF OperationRuns, LedgerKept
      <3> QED
        BY <1>1, <3>1, <3>2 DEF VerifiedCommit, Lineage
    <2>2. CASE k \in DOMAIN commits
      <3>1. k > 1 => k - 1 \in DOMAIN commits
        BY <1>2, <2>2
      <3> QED
        BY <2>1, <2>2, <3>1 DEF ParentOf
    <2>3. CASE k \notin DOMAIN commits
      <3>1. k = Len(commits) + 1 /\ commits'[k].op = t
            /\ commits'[k].decided = (kind = "authority_decision") /\ kind # "create_continuation"
        BY <2>3 DEF OperationRuns, LedgerKept
      <3>2. VerifiedCommit(k)'
        <4>1. t \in DOMAIN log' /\ log'[t].kind = kind /\ commits'[k].op = t
          BY <1>1, <3>1
        <4>2. kind = IF commits'[k].decided THEN "authority_decision" ELSE "record_observations"
          <5>1. CASE kind = "authority_decision"
            BY <3>1, <5>1
          <5>2. CASE kind = "record_observations"
            BY <3>1, <5>2
          <5> QED
            BY <3>1, <5>1, <5>2 DEF OperationRuns
        <4> QED
          BY <4>1, <4>2 DEF VerifiedCommit, Lineage
      <3>3. k > 1 => k - 1 \in DOMAIN commits
        BY <1>2, <3>1
      <3>4. k > 1 => ParentOf(k)'
        BY <1>1, <2>1, <3>1, <3>3 DEF ParentOf
      <3> QED
        BY <3>2, <3>4
    <2> QED
      BY <2>2, <2>3
  <1>4. AuditScope'
    BY <1>2, <1>3 DEF AuditScope, Chain, HeadRevision
  <1>5. ASSUME NEW row \in BranchRows'
        PROVE  BranchSource(row)'
    <2>1. CASE row \in BranchRows
      BY <1>1, <2>1 DEF SourceInv, BranchSource
    <2>2. CASE row \notin BranchRows
      <3>1. row.op = t
        BY <2>2, RowsGrow DEF OperationRuns
      <3>2. kind # "create_continuation"
        <4>1. kind = "create_continuation" => BranchRows' = BranchRows
          BY DEF OperationRuns, BranchRows, AuthorityRows, CandidateRows
        <4> QED
          BY <2>2, <4>1
      <3> QED
        BY <1>1, <3>1, <3>2 DEF BranchSource, OperationRuns
    <2> QED
      BY <2>1, <2>2
  <1>6. \A d \in decisions' : d.op \in DOMAIN log' /\ d.rev \in DOMAIN commits'
    <2>1. \A d \in decisions : d.op \in DOMAIN log' /\ d.rev \in DOMAIN commits'
      BY <1>1 DEF SourceInv, OperationRuns, LedgerKept
    <2>2. \A d \in decisions' \ decisions : d.op \in DOMAIN log' /\ d.rev \in DOMAIN commits'
      BY <1>1 DEF OperationRuns, LedgerKept
    <2> QED
      BY <2>1, <2>2
  <1> QED
    BY <1>1, <1>4, <1>5, <1>6 DEF SourceInv

LEMMA ReceiptsHold ==
  ASSUME NEW t, NEW kind, OperationRuns(t, kind), SourceInv, ReceiptsDeriveAgain
  PROVE  ReceiptsDeriveAgain'
  <1>1. /\ DOMAIN log = 1 .. Len(log) /\ DOMAIN log' = 1 .. Len(log) + 1 /\ Len(log) \in Nat
        /\ \A s \in DOMAIN log : s \in DOMAIN log' /\ log'[s] = log[s]
        /\ t = Len(log) + 1 /\ log'[t].result = Result(t)'
    BY LogGrows DEF OperationRuns, SourceInv, Now
  <1>2. SourceInv'
    BY SourcesHold
  <1>3. /\ \A k \in DOMAIN commits' : VerifiedCommit(k)'
        /\ \A row \in BranchRows' : BranchSource(row)'
    <2>1. DOMAIN commits' = 1 .. Len(commits')
      BY DEF OperationRuns, LedgerKept, LedgerInv, LedgerTyped
    <2> QED
      BY <1>2, <2>1 DEF SourceInv, AuditScope, Chain, HeadRevision
  <1>4. ASSUME NEW s \in DOMAIN log'
        PROVE  /\ \A k \in CommitOf(s)' : VerifiedCommit(k)'
               /\ \A row \in AuthorityBranchRefs(s)' : BranchSource(row)'
    <2>1. CommitOf(s)' \subseteq DOMAIN commits'
      BY DEF CommitOf
    <2>2. AuthorityBranchRefs(s)' \subseteq BranchRows'
      <3>1. \A d \in DOMAIN drafts' : drafts'[d].family \in Families
        <4> DEFINE Draft == [family : Families, base : Nat, bind : Bindings,
                             revs : Seq([state : {"draft", "eligible", "merged"}, op : Nat])]
        <4>1. drafts' \in Seq(Draft)
          BY DEF OperationRuns, BranchesGrow, BranchInv, BranchTyped
        <4> HIDE DEF Draft
        <4>2. \A d \in DOMAIN drafts' : drafts'[d] \in Draft
          BY <4>1
        <4> QED
          BY <4>2 DEF Draft
      <3>2. \A f \in Families : AuthorityRows(f)' \subseteq BranchRows'
        BY DEF BranchRows
      <3>3. ASSUME NEW c \in DOMAIN drafts' PROVE AuthorityRows(drafts[c].family)' \subseteq BranchRows'
        <4>1. PICK f \in Families : f = drafts'[c].family
          BY <3>1, <3>3
        <4>2. AuthorityRows(drafts[c].family)' = AuthorityRows(f)'
          BY <4>1 DEF AuthorityRows
        <4> QED
          BY <3>2, <4>2
      <3>4. AuthorityBranchRefs(s)' = {row \in BranchRows' : row.op = s} \cup
              UNION {{row \in AuthorityRows(drafts[c].family)' : row.rev = drafts'[c].base} :
                c \in {d \in DOMAIN drafts' : drafts'[d].revs[1].op = s}}
        BY DEF AuthorityBranchRefs
      <3> QED
        BY <3>3, <3>4
    <2> QED
      BY <1>3, <2>1, <2>2
  <1>5. ASSUME NEW s \in DOMAIN log'
        PROVE  Derivable(s)' /\ Result(s)' = log'[s].result
    <2>1. CASE s = t
      BY <1>1, <2>1 DEF OperationRuns
    <2>2. CASE s \in DOMAIN log
      <3>1. Derivable(s) /\ Result(s) = log[s].result
        BY <2>2 DEF ReceiptsDeriveAgain, ReadBack
      <3> QED
        BY <1>1, <2>2, <3>1, ResultStays
    <2> QED
      BY <1>1, <1>5, <2>1, <2>2
  <1>6. ASSUME NEW s \in DOMAIN log' PROVE ReadBack(s)'
    BY <1>4, <1>5 DEF ReadBack
  <1> QED
    BY <1>6 DEF ReceiptsDeriveAgain

(* The history of a decision, and what is compiled from it.                *)
LEMMA CompiledStays ==
  ASSUME NEW t, NEW kind, OperationRuns(t, kind), NEW d, d.rev \in DOMAIN commits, Compiled(d)
  PROVE  Compiled(d)'
  <1>1. PICK r : r = d.rev
    OBVIOUS
  <1>2. r \in 0 .. Len(commits)
    BY <1>1 DEF OperationRuns, LedgerKept, LedgerInv, LedgerTyped
  <1>3. \A m \in Memories : ItemAt(m, r)' = ItemAt(m, r) /\ CapsAt(m, r)' = CapsAt(m, r)
    BY <1>2 DEF OperationRuns, LedgerKept
  <1>4. RowsAt(r)' = RowsAt(r) /\ CapsuleRowsAt(r)' = CapsuleRowsAt(r)
    BY <1>3 DEF RowsAt, CapsuleRowsAt
  <1>5. ReplayedContinuity(d.family, r)' = ReplayedContinuity(d.family, r)
    BY <1>3 DEF ReplayedContinuity
  <1> QED
    BY <1>1, <1>4, <1>5 DEF Compiled

LEMMA RecordsHold ==
  ASSUME NEW t, NEW kind, OperationRuns(t, kind), SourceInv, RecordInv
  PROVE  RecordInv'
  <1>1. SourceInv' /\ ReceiptsDeriveAgain'
    BY SourcesHold, ReceiptsHold DEF RecordInv
  <1>2. LedgerInv' /\ AuditScope'
    BY <1>1 DEF OperationRuns, LedgerKept, SourceInv
  <1>3. Len(log) \in Nat /\ DOMAIN log = 1 .. Len(log) /\ t = Len(log) + 1
    BY LogGrows DEF OperationRuns, SourceInv, Now
  <1>4. ASSUME NEW d \in decisions'
        PROVE  d.rev \in DOMAIN commits /\ Compiled(d)
    <2>1. CASE d \in decisions
      BY <2>1 DEF SourceInv, RecordInv, DecisionsReplay, Replays, Compiled
    <2>2. CASE d \notin decisions
      BY <1>4, <2>2 DEF OperationRuns
    <2> QED
      BY <2>1, <2>2
  <1>5. ASSUME NEW d \in decisions'
        PROVE  Replays(d)'
    <2>1. Compiled(d)' /\ d.rev \in DOMAIN commits'
      BY <1>4, <1>5, CompiledStays DEF OperationRuns, LedgerKept
    <2>2. d.rev \in 1 .. Len(commits') /\ Len(commits') \in Nat /\ DOMAIN commits' = 1 .. Len(commits')
      BY <1>2, <2>1 DEF LedgerInv, LedgerTyped
    <2>3. Chain(d.rev)'
      BY <1>2, <2>2 DEF AuditScope, Chain, HeadRevision
    <2>4. Replayable(d.rev)'
      BY <1>2, <2>2 DEF Replayable, LedgerInv, ChainLegal
    <2> QED
      BY <2>1, <2>3, <2>4 DEF Replays, Compiled
  <1>6. ASSUME NEW d \in decisions', NEW c \in DOMAIN drafts', Before(c, d)'
        PROVE  HeldThen(c, d)'
    <2>1. ASSUME c \in DOMAIN drafts, HeldThen(c, d) PROVE HeldThen(c, d)'
      <3>1. d.rev \in 0 .. Len(commits)
        BY <1>4, <1>6 DEF OperationRuns, LedgerKept, LedgerInv, LedgerTyped
      <3>2. drafts'[c].bind = drafts[c].bind
        BY <2>1 DEF OperationRuns, BranchesGrow
      <3>3. \A ref \in drafts[c].bind : ref[1] \in Memories
        BY <2>1, DraftTyped DEF OperationRuns, BranchesGrow, Bindings
      <3>4. \A m \in Memories : /\ CapsAt(m, d.rev)' = CapsAt(m, d.rev)
                                /\ ItemAt(m, d.rev)' = ItemAt(m, d.rev)
        BY <3>1 DEF OperationRuns, LedgerKept
      <3> QED
        BY <2>1, <3>2, <3>3, <3>4 DEF HeldThen
    <2>2. CASE d \in decisions
      <3>1. d.op \in 1 .. Len(log)
        BY <1>3, <2>2 DEF SourceInv
      <3>2. PICK j \in DOMAIN drafts'[c].revs : drafts'[c].revs[j].op =< d.op
        BY <1>6 DEF Before
      <3>3. drafts'[c].revs[j].op # t
        BY <1>3, <3>1, <3>2
      <3>4. c \in DOMAIN drafts
        BY <1>6, <3>2, <3>3 DEF OperationRuns, BranchesGrow
      <3>5. j \in DOMAIN drafts[c].revs /\ drafts'[c].revs[j] = drafts[c].revs[j]
        BY <3>2, <3>3, <3>4 DEF OperationRuns, BranchesGrow
      <3>6. Before(c, d)
        BY <3>2, <3>5 DEF Before
      <3> QED
        BY <2>1, <2>2, <3>4, <3>6 DEF RecordInv
    <2>3. CASE d \notin decisions
      BY <1>6, <2>1, <2>3 DEF OperationRuns
    <2> QED
      BY <2>2, <2>3
  <1> QED
    BY <1>1, <1>5, <1>6 DEF RecordInv, DecisionsReplay

-----------------------------------------------------------------------------
(* What the recordings and the lifecycle decisions append.                 *)
LEMMA RecordingAppends ==
  ASSUME OperationsAssumption, NEW t \in Nat, NEW input \in Inputs,
         AppendRevision(t, [m \in DOMAIN input.memory |-> AdmittedItem(input.memory[m], t)],
           [m \in DOMAIN input.memory |-> AdmittedCapsule(input.memory[m], input.family, t)], FALSE)
  PROVE  Appends(t, [m \in DOMAIN input.memory |-> AdmittedItem(input.memory[m], t)],
           [m \in DOMAIN input.memory |-> AdmittedCapsule(input.memory[m], input.family, t)], FALSE)
  <1> DEFINE M == DOMAIN input.memory
             muts == [m \in M |-> AdmittedItem(input.memory[m], t)]
             fresh == [m \in M |-> AdmittedCapsule(input.memory[m], input.family, t)]
  <1>1. /\ M \subseteq Memories /\ input.family \in Families
        /\ \A m \in M : input.memory[m].kind \in Kinds /\ input.memory[m].expires \in Nat
    BY DEF OperationsAssumption
  <1>2. <<"recorded", t>> \in Projections
    BY DEF Projections
  <1>3. ASSUME NEW m \in M
        PROVE  /\ AdmittedItem(input.memory[m], t) \in Bodies
               /\ AdmittedCapsule(input.memory[m], input.family, t) \in CapsuleDrafts
    BY <1>1, <1>2 DEF AdmittedItem, AdmittedCapsule, Bodies, CapsuleDrafts, Lives
  <1>4. muts \in Partial(Bodies) /\ fresh \in Partial(CapsuleDrafts)
    BY <1>1, <1>3 DEF Partial
  <1>5. DOMAIN muts = M /\ DOMAIN fresh = M
    OBVIOUS
  <1>6. ASSUME NEW m \in M
        PROVE  /\ ParsedItem(muts[m]) /\ muts[m].life = "active"
               /\ muts[m].kind = fresh[m].kind /\ muts[m].projection = fresh[m].projection
    <2>1. muts[m] = AdmittedItem(input.memory[m], t) /\ fresh[m] = AdmittedCapsule(input.memory[m], input.family, t)
      OBVIOUS
    <2> HIDE DEF muts, fresh
    <2>2. /\ muts[m].life = "active" /\ muts[m].hydrated = TRUE
          /\ muts[m].kind = fresh[m].kind /\ muts[m].projection = fresh[m].projection
      BY <2>1 DEF AdmittedItem, AdmittedCapsule
    <2>3. ("active" # "archived") = TRUE
      OBVIOUS
    <2> QED
      BY <2>2, <2>3, Zenon DEF ParsedItem
  <1> HIDE DEF muts, fresh
  <1>7. AppendRevision(t, muts, fresh, FALSE)
    BY DEF muts, fresh
  <1>8. Appends(t, muts, fresh, FALSE)
    BY <1>4, <1>5, <1>6, <1>7 DEF Appends
  <1> QED
    BY <1>8 DEF muts, fresh

LEMMA DecisionAppends ==
  ASSUME LedgerInv, NEW t \in Nat, NEW m \in Memories, NEW next \in Lives, items[m] # Absent,
         AppendRevision(t, [x \in {m} |-> DecidedBody(m, next)], <<>>, TRUE)
  PROVE  Appends(t, [x \in {m} |-> DecidedBody(m, next)], <<>>, TRUE)
  <1> DEFINE muts == [x \in {m} |-> DecidedBody(m, next)]
  <1>1. items[m].body \in Bodies
    BY DEF LedgerInv, LedgerTyped, LedgerTypeOK
  <1>2. PICK body \in Bodies : body = items[m].body
    BY <1>1
  <1>3. Tombstone(body.projection) \in Projections /\ Tombstone(body.projection)[1] = "tombstone"
    BY DEF Bodies, Projections, Tombstone
  <1>4. PICK next_projection :
          /\ next_projection = IF next = "archived" THEN Tombstone(body.projection) ELSE body.projection
          /\ next_projection \in Projections
    BY <1>3 DEF Bodies
  <1>5. DecidedBody(m, next) = [body EXCEPT !.life = next, !.hydrated = (next # "archived"),
                                  !.projection = next_projection]
    BY <1>2, <1>4 DEF DecidedBody
  <1>6. DecidedBody(m, next) \in Bodies
    BY <1>4, <1>5 DEF Bodies
  <1>7. /\ DecidedBody(m, next).kind = body.kind /\ DecidedBody(m, next).life = next
        /\ DecidedBody(m, next).projection = next_projection
        /\ DecidedBody(m, next).hydrated = (next # "archived")
    BY <1>5 DEF Bodies
  <1>8. ParsedItem(DecidedBody(m, next))
    BY <1>3, <1>4, <1>7 DEF ParsedItem
  <1>9. muts \in Partial(Bodies)
    <2>1. {m} \in SUBSET Memories /\ muts \in [{m} -> Bodies]
      BY <1>6
    <2> QED
      BY <2>1 DEF Partial
  <1>e. PICK none : none = <<>> /\ DOMAIN none = {} /\ none \in Partial(CapsuleDrafts)
    <2>1. DOMAIN <<>> = {} /\ <<>> \in [{} -> CapsuleDrafts]
      OBVIOUS
    <2> QED
      BY <2>1 DEF Partial
  <1>10. DOMAIN muts = {m} /\ muts[m] = DecidedBody(m, next)
    OBVIOUS
  <1> HIDE DEF muts
  <1>11. AppendRevision(t, muts, none, TRUE)
    BY <1>e DEF muts
  <1>12. Appends(t, muts, none, TRUE)
    BY <1>2, <1>4, <1>7, <1>8, <1>9, <1>e, <1>10, <1>11 DEF Appends
  <1> QED
    BY <1>e, <1>12 DEF muts

LEMMA LearningStays ==
  ASSUME NEW t, NEW decided, LedgerKept(t, decided), NEW bind \in Bindings, Learning(bind, caps)
  PROVE  Learning(bind, caps')
  <1>1. ASSUME NEW ref \in bind
        PROVE  ref[2] \in DOMAIN caps'[ref[1]] /\ caps'[ref[1]][ref[2]].kind \in Learned
    <2>1. ref[1] \in Memories /\ ref[2] \in DOMAIN caps[ref[1]] /\ caps[ref[1]][ref[2]].kind \in Learned
      BY DEF Learning, Bindings
    <2> QED
      BY <2>1 DEF LedgerKept
  <1> QED
    BY <1>1 DEF Learning

(* The part of the invariant on branches, after a step that only adds to   *)
(* them.                                                                   *)
LEMMA HeadTyped ==
  ASSUME BranchInv, NEW f \in Families
  PROVE  /\ heads[f] \in Seq([bind : Bindings, op : Nat])
         /\ Len(heads[f]) \in Nat /\ DOMAIN heads[f] = 1 .. Len(heads[f])
         /\ \A i \in DOMAIN heads[f] : heads[f][i].bind \in Bindings /\ Learning(heads[f][i].bind, caps)
         /\ heads[f] # <<>> => Len(heads[f]) \in DOMAIN heads[f]
  <1>1. heads[f] \in Seq([bind : Bindings, op : Nat])
    BY DEF BranchInv, BranchTyped
  <1>2. \A i \in DOMAIN heads[f] : heads[f][i].bind \in Bindings
    <2> DEFINE E == [bind : Bindings, op : Nat]
    <2>0. heads[f] \in Seq(E)
      BY <1>1
    <2> HIDE DEF E
    <2>1. \A i \in DOMAIN heads[f] : heads[f][i] \in E
      BY <2>0
    <2> QED
      BY <2>1 DEF E
  <1> QED
    BY <1>1, <1>2 DEF BranchInv

LEMMA BranchesAlone ==
  ASSUME NEW t, NEW decided, LedgerKept(t, decided), BranchInv, UNCHANGED <<heads, drafts>>
  PROVE  BranchesGrow(t)
  <1>1. heads' = heads /\ drafts' = drafts /\ (commits # <<>> => commits' # <<>>)
    BY DEF LedgerKept, LedgerInv, LedgerTyped
  <1>2. BranchTyped'
    BY <1>1 DEF BranchInv, BranchTyped
  <1>3. \A f \in Families : \A i \in DOMAIN heads[f] : Learning(heads[f][i].bind, caps')
    BY HeadTyped, LearningStays
  <1>4. \A c \in DOMAIN drafts : Learning(drafts[c].bind, caps')
    BY DraftTyped, LearningStays DEF BranchInv
  <1>5. BranchInv'
    BY <1>1, <1>2, <1>3, <1>4 DEF BranchInv
  <1> QED
    BY <1>1, <1>5 DEF BranchesGrow

-----------------------------------------------------------------------------
(* Each operation is one of these.                                         *)
LEMMA RecordingLedger ==
  ASSUME OperationsAssumption, LedgerInv, NEW t \in Nat, NEW input \in Inputs,
         RecordObservations(t, input)
  PROVE  /\ LedgerKept(t, FALSE) /\ commits' # <<>>
         /\ \A m \in DOMAIN input.memory :
              /\ m \in Memories /\ Len(caps'[m]) \in DOMAIN caps'[m] /\ Len(caps'[m]) \in Nat
              /\ caps'[m][Len(caps'[m])].kind = input.memory[m].kind
         /\ DOMAIN input.memory # {} => commits'[Len(commits')].op = t
  <1> DEFINE M == DOMAIN input.memory
             muts == [m \in M |-> AdmittedItem(input.memory[m], t)]
             fresh == [m \in M |-> AdmittedCapsule(input.memory[m], input.family, t)]
  <1>1. CASE M = {} /\ commits # <<>>
    <2>1. UNCHANGED memoryVars
      BY <1>1 DEF RecordObservations
    <2>2. commits' # <<>>
      BY <1>1, <2>1 DEF memoryVars
    <2> QED
      BY <1>1, <2>1, <2>2, LedgerAlone
  <1>2. CASE ~(M = {} /\ commits # <<>>)
    <2>1. AppendRevision(t, muts, fresh, FALSE)
      BY <1>2 DEF RecordObservations
    <2>2. Appends(t, muts, fresh, FALSE)
      BY <2>1, RecordingAppends
    <2>3. DOMAIN muts = M /\ DOMAIN fresh = M /\ \A m \in M : muts[m].kind = input.memory[m].kind
      <3>1. \A m \in M : AdmittedItem(input.memory[m], t).kind = input.memory[m].kind
        BY DEF AdmittedItem
      <3> QED
        BY <3>1
    <2> HIDE DEF muts, fresh
    <2>4. PICK R, new : Grows(R, t, muts, fresh, FALSE, new)
      BY <2>2, AppendGrows
    <2>5. LedgerKept(t, FALSE)
      BY <2>4, LedgerGrows
    <2>6. Len(commits') = R /\ R \in Nat \ {0} /\ commits'[R].op = t
      BY <2>4 DEF Grows, Extends, Commit
    <2>7. ASSUME NEW m \in M
          PROVE  /\ m \in Memories /\ Len(caps'[m]) \in DOMAIN caps'[m] /\ Len(caps'[m]) \in Nat
                 /\ caps'[m][Len(caps'[m])].kind = input.memory[m].kind
      <3>1. m \in Memories /\ m \in DOMAIN new
        BY <2>3, <2>4 DEF Grows, Extends
      <3>2. /\ caps[m] \in Seq(Capsules) /\ new[m] \in Capsules
            /\ caps'[m] = Append(caps[m], new[m]) /\ new[m].kind = muts[m].kind
        BY <2>4, <3>1 DEF Grows, Extends
      <3>3. /\ Len(caps'[m]) = Len(caps[m]) + 1 /\ DOMAIN caps'[m] = 1 .. Len(caps[m]) + 1
            /\ caps'[m][Len(caps[m]) + 1] = new[m] /\ Len(caps[m]) \in Nat
        BY <3>2, AppendProperties
      <3> QED
        BY <2>3, <3>1, <3>2, <3>3
    <2>8. commits' # <<>>
      BY <2>6
    <2> QED
      BY <2>5, <2>6, <2>7, <2>8
  <1> QED
    BY <1>1, <1>2

LEMMA RecordingRuns ==
  ASSUME OperationsAssumption, IInv, NEW t, t = Now, NEW input \in Inputs,
         RecordObservations(t, input)
  PROVE  OperationRuns(t, "record_observations")
  <1> DEFINE M == DOMAIN input.memory
             learned == {m \in M : input.memory[m].kind \in Learned}
             E == [bind : Bindings, op : Nat]
             Revs == Seq([state : {"draft", "eligible", "merged"}, op : Nat])
             Draft == [family : Families, base : Nat, bind : Bindings, revs : Revs]
  <1>1. t \in Nat /\ LedgerInv /\ BranchInv
    BY DEF IInv, SourceInv, LogTyped, Now
  <1>2. PICK f \in Families : f = input.family
    BY DEF OperationsAssumption
  <1>3. LedgerKept(t, FALSE) /\ commits' # <<>>
    BY <1>1, RecordingLedger
  <1>4. \A bind \in Bindings : Learning(bind, caps) => Learning(bind, caps')
    BY <1>3, LearningStays
  <1>5. PICK g : g = IF heads[f] = <<>> THEN <<[bind |-> {}, op |-> t]>> ELSE heads[f]
    OBVIOUS
  <1>6. /\ g \in Seq(E) /\ g # <<>>
        /\ \A i \in DOMAIN heads[f] : i \in DOMAIN g /\ g[i] = heads[f][i]
        /\ \A i \in DOMAIN g \ DOMAIN heads[f] : g[i].op = t
        /\ \A i \in DOMAIN g : g[i].bind \in Bindings /\ Learning(g[i].bind, caps')
    <2>1. CASE heads[f] = <<>>
      <3>1. g = <<[bind |-> {}, op |-> t]>> /\ [bind |-> {}, op |-> t] \in E
        BY <1>1, <1>5, <2>1 DEF Bindings
      <3> HIDE DEF E
      <3>2. g \in Seq(E) /\ DOMAIN g = {1} /\ g # <<>> /\ DOMAIN heads[f] = {}
        BY <2>1, <3>1
      <3>3. g[1].bind = {} /\ g[1].op = t
        BY <3>1
      <3>4. Learning(g[1].bind, caps') /\ g[1].bind \in Bindings
        BY <3>3 DEF Learning, Bindings
      <3> QED
        BY <3>2, <3>3, <3>4
    <2>2. CASE heads[f] # <<>>
      <3>1. g = heads[f]
        BY <1>5, <2>2
      <3> QED
        BY <1>1, <1>4, <2>2, <3>1, HeadTyped
    <2> QED
      BY <2>1, <2>2
  <1>7. heads' = [heads EXCEPT ![f] = g]
    BY <1>2, <1>5 DEF RecordObservations
  <1>8. /\ heads \in [Families -> Seq(E)] /\ drafts \in Seq(Draft)
    BY <1>1 DEF BranchInv, BranchTyped
  <1> HIDE DEF E, Draft
  <1>9. /\ heads' \in [Families -> Seq(E)] /\ heads'[f] = g
        /\ \A x \in Families : x # f => heads'[x] = heads[x]
    BY <1>6, <1>7, <1>8
  <1>10. ASSUME NEW x \in Families
         PROVE  /\ \A i \in DOMAIN heads[x] : i \in DOMAIN heads'[x] /\ heads'[x][i] = heads[x][i]
                /\ \A i \in DOMAIN heads'[x] \ DOMAIN heads[x] : heads'[x][i].op = t
                /\ \A i \in DOMAIN heads'[x] : Learning(heads'[x][i].bind, caps')
    <2>1. CASE x = f
      BY <1>6, <1>9, <2>1
    <2>2. CASE x # f
      BY <1>1, <1>4, <1>9, <2>2, HeadTyped
    <2> QED
      BY <2>1, <2>2
  <1>11. PICK b : b = Rebound(g[Len(g)].bind, learned, caps')
    OBVIOUS
  <1>12. b \in Bindings /\ Learning(b, caps') /\ Len(g) \in DOMAIN g /\ Len(g) \in Nat
    <2>1. Len(g) \in DOMAIN g /\ Len(g) \in Nat
      BY <1>6
    <2>2. g[Len(g)].bind \in Bindings /\ Learning(g[Len(g)].bind, caps')
      BY <1>6, <2>1
    <2>3. ASSUME NEW m \in learned
          PROVE  /\ <<m, Len(caps'[m])>> \in Memories \X Nat
                 /\ Len(caps'[m]) \in DOMAIN caps'[m] /\ caps'[m][Len(caps'[m])].kind \in Learned
      BY <1>1, RecordingLedger
    <2>4. ASSUME NEW ref \in b
          PROVE  \/ ref \in g[Len(g)].bind
                 \/ \E m \in learned : ref = <<m, Len(caps'[m])>>
      BY <1>11 DEF Rebound
    <2> HIDE DEF learned
    <2>5. \A ref \in b : ref \in Memories \X Nat
      BY <2>2, <2>3, <2>4 DEF Bindings
    <2>6. \A ref \in b : ref[2] \in DOMAIN caps'[ref[1]] /\ caps'[ref[1]][ref[2]].kind \in Learned
      BY <2>2, <2>3, <2>4 DEF Learning
    <2> QED
      BY <2>1, <2>5, <2>6 DEF Bindings, Learning
  <1>13. PICK n : n = [family |-> f, base |-> Len(g), bind |-> b, revs |-> <<[state |-> "draft", op |-> t]>>]
    OBVIOUS
  <1>14. /\ n \in Draft /\ n.revs # <<>> /\ n.family = f /\ n.base = Len(g) /\ n.bind = b
         /\ \A j \in DOMAIN n.revs : n.revs[j].op = t
    BY <1>1, <1>12, <1>13 DEF Draft
  <1>15. drafts' = IF learned = {} THEN drafts ELSE Append(drafts, n)
    BY <1>2, <1>5, <1>11, <1>13 DEF RecordObservations
  <1> HIDE DEF learned
  <1>16. /\ drafts' \in Seq(Draft)
         /\ \A c \in DOMAIN drafts : c \in DOMAIN drafts' /\ drafts'[c] = drafts[c]
         /\ \A c \in DOMAIN drafts' \ DOMAIN drafts : drafts'[c] = n
    <2>1. CASE drafts' = drafts
      BY <1>8, <2>1
    <2>2. CASE drafts' = Append(drafts, n)
      <3>1. /\ Len(drafts) \in Nat /\ DOMAIN drafts = 1 .. Len(drafts)
            /\ drafts' \in Seq(Draft) /\ DOMAIN drafts' = 1 .. Len(drafts) + 1
            /\ \A c \in 1 .. Len(drafts) : drafts'[c] = drafts[c]
            /\ drafts'[Len(drafts) + 1] = n
        BY <1>8, <1>14, <2>2, AppendProperties
      <3> QED
        BY <3>1
    <2> QED
      BY <1>15, <2>1, <2>2
  <1>17. BranchInv'
    <2>1. BranchTyped'
      BY <1>9, <1>16 DEF BranchTyped, E, Draft
    <2>2. ASSUME NEW c \in DOMAIN drafts'
          PROVE  /\ drafts'[c].base \in DOMAIN heads'[drafts'[c].family]
                 /\ drafts'[c].revs # <<>> /\ Learning(drafts'[c].bind, caps')
      <3>1. CASE c \in DOMAIN drafts
        <4>1. /\ drafts[c].family \in Families /\ drafts[c].base \in DOMAIN heads[drafts[c].family]
              /\ drafts[c].revs # <<>> /\ drafts[c].bind \in Bindings
          BY <1>1, <3>1, DraftTyped
        <4>2. Learning(drafts[c].bind, caps')
          BY <1>1, <1>4, <3>1, <4>1 DEF BranchInv
        <4> QED
          BY <1>10, <1>16, <3>1, <4>1, <4>2
      <3>2. CASE c \notin DOMAIN drafts
        BY <1>9, <1>12, <1>14, <1>16, <2>2, <3>2
      <3> QED
        BY <3>1, <3>2
    <2> QED
      BY <1>3, <1>10, <2>1, <2>2 DEF BranchInv
  <1>18. BranchesGrow(t)
    BY <1>1, <1>10, <1>14, <1>16, <1>17 DEF BranchesGrow
  <1>19. /\ jobs \subseteq jobs' /\ \A j \in jobs' \ jobs : j.op = t
         /\ snapshots \subseteq snapshots' /\ \A x \in snapshots' \ snapshots : x.op = t
         /\ decisions' = decisions
    BY DEF RecordObservations, PutSnapshot
  <1>20. Derivable(t)' /\ log' = Append(log, [kind |-> "record_observations", result |-> Result(t)'])
    BY DEF RecordObservations, Complete, Current
  <1>21. LedgerKept(t, "record_observations" = "authority_decision")
    BY <1>3
  <1> QED
    BY <1>18, <1>19, <1>20, <1>21 DEF OperationRuns

(* Branch decisions leave the memory alone, and add a revision to an       *)
(* authoritative branch, to a candidate, or to both.                       *)
HeadsGrown(t) ==
  /\ heads' \in [Families -> Seq([bind : Bindings, op : Nat])]
  /\ \A f \in Families :
       /\ heads'[f] # <<>> => commits # <<>>
       /\ \A i \in DOMAIN heads[f] : i \in DOMAIN heads'[f] /\ heads'[f][i] = heads[f][i]
       /\ \A i \in DOMAIN heads'[f] \ DOMAIN heads[f] : heads'[f][i].op = t
       /\ \A i \in DOMAIN heads'[f] : Learning(heads'[f][i].bind, caps)

DraftsGrown(t) ==
  /\ drafts' \in Seq([family : Families, base : Nat, bind : Bindings,
                      revs : Seq([state : {"draft", "eligible", "merged"}, op : Nat])])
  /\ DOMAIN drafts' = DOMAIN drafts
  /\ \A c \in DOMAIN drafts :
       /\ drafts'[c].bind = drafts[c].bind
       /\ drafts'[c].base = drafts[c].base /\ drafts'[c].family = drafts[c].family
       /\ \A j \in DOMAIN drafts[c].revs :
            j \in DOMAIN drafts'[c].revs /\ drafts'[c].revs[j] = drafts[c].revs[j]
       /\ \A j \in DOMAIN drafts'[c].revs \ DOMAIN drafts[c].revs : drafts'[c].revs[j].op = t

LEMMA HeadsUnchanged ==
  ASSUME BranchInv, NEW t, heads' = heads
  PROVE  HeadsGrown(t)
  <1>1. heads \in [Families -> Seq([bind : Bindings, op : Nat])]
    BY DEF BranchInv, BranchTyped
  <1> QED
    BY <1>1 DEF HeadsGrown, BranchInv

LEMMA DraftsUnchanged ==
  ASSUME BranchInv, NEW t, drafts' = drafts
  PROVE  DraftsGrown(t)
  BY DEF DraftsGrown, BranchInv, BranchTyped

LEMMA HeadAppended ==
  ASSUME BranchInv, NEW t \in Nat, NEW f \in Families, NEW b \in Bindings,
         Learning(b, caps), heads[f] # <<>>,
         heads' = [heads EXCEPT ![f] = Append(@, [bind |-> b, op |-> t])]
  PROVE  HeadsGrown(t)
  <1> DEFINE E == [bind : Bindings, op : Nat]
  <1>1. PICK e : e = [bind |-> b, op |-> t]
    OBVIOUS
  <1>2. e \in E /\ e.op = t /\ e.bind = b
    BY <1>1
  <1>3. heads \in [Families -> Seq(E)]
    BY DEF BranchInv, BranchTyped
  <1> HIDE DEF E
  <1>4. PICK L \in Nat : L = Len(heads[f])
    BY <1>3
  <1>5. /\ heads' = [heads EXCEPT ![f] = Append(heads[f], e)] /\ heads[f] \in Seq(E)
        /\ DOMAIN heads[f] = 1 .. L
    BY <1>1, <1>3, <1>4
  <1>6. /\ Append(heads[f], e) \in Seq(E)
        /\ \A i \in 1 .. L : Append(heads[f], e)[i] = heads[f][i]
        /\ Append(heads[f], e)[L + 1] = e /\ DOMAIN Append(heads[f], e) = 1 .. L + 1
    BY <1>2, <1>4, <1>5, AppendProperties
  <1>7. heads' \in [Families -> Seq(E)] /\ heads'[f] = Append(heads[f], e)
        /\ \A x \in Families : x # f => heads'[x] = heads[x]
    BY <1>3, <1>5, <1>6
  <1>8. ASSUME NEW x \in Families
        PROVE  /\ heads'[x] # <<>> => commits # <<>>
               /\ \A i \in DOMAIN heads[x] : i \in DOMAIN heads'[x] /\ heads'[x][i] = heads[x][i]
               /\ \A i \in DOMAIN heads'[x] \ DOMAIN heads[x] : heads'[x][i].op = t
               /\ \A i \in DOMAIN heads'[x] : Learning(heads'[x][i].bind, caps)
    <2>1. CASE x # f
      BY <1>7, <2>1 DEF BranchInv
    <2>2. CASE x = f
      <3>1. \A i \in 1 .. L + 1 : i \in 1 .. L \/ i = L + 1
        BY <1>4
      <3>2. commits # <<>> /\ \A i \in 1 .. L : Learning(heads[f][i].bind, caps)
        BY <1>5 DEF BranchInv
      <3>3. \A i \in 1 .. L : i \in 1 .. L + 1
        BY <1>4
      <3> QED
        BY <1>2, <1>5, <1>6, <1>7, <2>2, <3>1, <3>2, <3>3
    <2> QED
      BY <2>1, <2>2
  <1> QED
    BY <1>7, <1>8 DEF HeadsGrown, E

LEMMA DraftAdvanced ==
  ASSUME BranchInv, NEW t \in Nat, NEW c \in DOMAIN drafts, NEW s \in {"eligible", "merged"},
         drafts' = [drafts EXCEPT ![c].revs = Append(@, [state |-> s, op |-> t])]
  PROVE  DraftsGrown(t)
  <1> DEFINE Rev == [state : {"draft", "eligible", "merged"}, op : Nat]
             Draft == [family : Families, base : Nat, bind : Bindings, revs : Seq(Rev)]
  <1>1. PICK e : e = [state |-> s, op |-> t]
    OBVIOUS
  <1>2. e \in Rev /\ e.op = t
    BY <1>1
  <1>3. drafts \in Seq(Draft) /\ drafts[c].revs \in Seq(Rev)
    BY DraftTyped DEF BranchInv, BranchTyped
  <1> HIDE DEF Rev
  <1>4. PICK L \in Nat : L = Len(drafts[c].revs) /\ DOMAIN drafts[c].revs = 1 .. L
    BY DraftTyped
  <1>5. PICK more : more = Append(drafts[c].revs, e)
    OBVIOUS
  <1>6. /\ more \in Seq(Rev) /\ DOMAIN more = 1 .. L + 1 /\ more[L + 1] = e
        /\ \A i \in 1 .. L : more[i] = drafts[c].revs[i]
    BY <1>2, <1>3, <1>4, <1>5, AppendProperties
  <1>7. PICK d : d = [drafts[c] EXCEPT !.revs = more]
    OBVIOUS
  <1>8. drafts[c] \in Draft
    <2> HIDE DEF Draft
    <2> QED
      BY <1>3
  <1>9. /\ d \in Draft /\ d.revs = more /\ d.family = drafts[c].family
        /\ d.base = drafts[c].base /\ d.bind = drafts[c].bind
    BY <1>6, <1>7, <1>8
  <1> HIDE DEF Draft
  <1>10. drafts' = [drafts EXCEPT ![c] = d]
    BY <1>1, <1>5, <1>7
  <1>11. /\ drafts' \in Seq(Draft) /\ DOMAIN drafts' = DOMAIN drafts /\ drafts'[c] = d
         /\ \A x \in DOMAIN drafts : x # c => drafts'[x] = drafts[x]
    <2>1. c \in 1 .. Len(drafts) /\ DOMAIN drafts = 1 .. Len(drafts) /\ Len(drafts) \in Nat
      BY <1>3
    <2>0. d \in Draft /\ drafts \in Seq(Draft)
      BY <1>3, <1>9
    <2>3. [drafts EXCEPT ![c] = d] \in Seq(Draft)
      BY ONLY <2>0, <2>1, ExceptSeq
    <2>2. drafts' \in Seq(Draft)
      BY ONLY <1>10, <2>3
    <2> QED
      BY <1>10, <2>2
  <1>12. ASSUME NEW x \in DOMAIN drafts
         PROVE  /\ drafts'[x].bind = drafts[x].bind
                /\ drafts'[x].base = drafts[x].base /\ drafts'[x].family = drafts[x].family
                /\ \A j \in DOMAIN drafts[x].revs :
                     j \in DOMAIN drafts'[x].revs /\ drafts'[x].revs[j] = drafts[x].revs[j]
                /\ \A j \in DOMAIN drafts'[x].revs \ DOMAIN drafts[x].revs : drafts'[x].revs[j].op = t
    <2>1. CASE x # c
      BY <1>11, <2>1
    <2>2. CASE x = c
      <3>1. \A i \in 1 .. L + 1 : i \in 1 .. L \/ i = L + 1
        BY <1>4
      <3>2. \A i \in 1 .. L : i \in 1 .. L + 1
        BY <1>4
      <3> QED
        BY <1>2, <1>4, <1>6, <1>9, <1>11, <2>2, <3>1, <3>2
    <2> QED
      BY <2>1, <2>2
  <1> QED
    BY <1>11, <1>12 DEF DraftsGrown, Draft, Rev

LEMMA BranchesGrown ==
  ASSUME LedgerInv, BranchInv, UNCHANGED memoryVars, NEW t, HeadsGrown(t), DraftsGrown(t)
  PROVE  BranchesGrow(t)
  <1>1. commits' = commits /\ caps' = caps
    BY DEF memoryVars
  <1>2. BranchTyped'
    BY DEF BranchTyped, HeadsGrown, DraftsGrown
  <1>3. ASSUME NEW c \in DOMAIN drafts'
        PROVE  /\ drafts'[c].base \in DOMAIN heads'[drafts'[c].family]
               /\ drafts'[c].revs # <<>> /\ Learning(drafts'[c].bind, caps')
    <2>1. /\ c \in DOMAIN drafts /\ drafts'[c].base = drafts[c].base /\ drafts'[c].bind = drafts[c].bind
          /\ drafts'[c].family = drafts[c].family
      BY <1>3 DEF DraftsGrown
    <2>2. /\ drafts[c].family \in Families /\ drafts[c].base \in DOMAIN heads[drafts[c].family]
          /\ 1 \in DOMAIN drafts[c].revs
      BY <2>1, DraftTyped
    <2>3. drafts[c].base \in DOMAIN heads'[drafts[c].family]
      BY <2>2 DEF HeadsGrown
    <2>4. 1 \in DOMAIN drafts'[c].revs
      BY <2>1, <2>2 DEF DraftsGrown
    <2>5. drafts'[c].revs # <<>>
      BY <2>4
    <2> QED
      BY <1>1, <2>1, <2>3, <2>5 DEF BranchInv
  <1>4. BranchInv'
    BY <1>1, <1>2, <1>3 DEF BranchInv, HeadsGrown
  <1> QED
    BY <1>4 DEF BranchesGrow, HeadsGrown, DraftsGrown

LEMMA BranchDecisionRuns ==
  ASSUME IInv, NEW t, t = Now, UNCHANGED memoryVars, HeadsGrown(t), DraftsGrown(t),
         UNCHANGED <<jobs, snapshots, decisions>>, Complete(t, "authority_decision")
  PROVE  OperationRuns(t, "authority_decision")
  <1>1. LedgerKept(t, TRUE)
    BY LedgerAlone DEF IInv
  <1>2. BranchesGrow(t)
    BY BranchesGrown DEF IInv
  <1>3. Derivable(t)' /\ log' = Append(log, [kind |-> "authority_decision", result |-> Result(t)'])
    BY DEF Complete, Current
  <1>4. LedgerKept(t, "authority_decision" = "authority_decision")
    BY <1>1
  <1> QED
    BY <1>2, <1>3, <1>4 DEF OperationRuns

LEMMA AdvanceRuns ==
  ASSUME IInv, NEW t, t = Now, NEW c \in DOMAIN drafts, Advance(t, c)
  PROVE  OperationRuns(t, "authority_decision")
  <1>1. t \in Nat
    BY DEF IInv, SourceInv, LogTyped, Now
  <1>2. DraftsGrown(t)
    BY <1>1, DraftAdvanced DEF Advance, IInv
  <1>3. HeadsGrown(t)
    BY HeadsUnchanged DEF Advance, IInv
  <1>4. UNCHANGED memoryVars /\ UNCHANGED <<jobs, snapshots, decisions>> /\ Complete(t, "authority_decision")
    BY DEF Advance, memoryVars
  <1> QED
    BY <1>2, <1>3, <1>4, BranchDecisionRuns

LEMMA MergeRuns ==
  ASSUME IInv, NEW t, t = Now, NEW c \in DOMAIN drafts, Merge(t, c)
  PROVE  OperationRuns(t, "authority_decision")
  <1>1. t \in Nat
    BY DEF IInv, SourceInv, LogTyped, Now
  <1>2. DraftsGrown(t)
    BY <1>1, DraftAdvanced DEF Merge, IInv
  <1>3. PICK f \in Families, b \in Bindings : f = drafts[c].family /\ b = drafts[c].bind
    BY DraftTyped DEF IInv
  <1>4. Learning(b, caps) /\ heads[f] # <<>>
    <2>1. drafts[c].base \in DOMAIN heads[f] /\ Learning(b, caps)
      BY <1>3 DEF IInv, BranchInv
    <2> QED
      BY <2>1
  <1>5. heads' = [heads EXCEPT ![f] = Append(@, [bind |-> b, op |-> t])]
    BY <1>3 DEF Merge
  <1>6. HeadsGrown(t)
    BY <1>1, <1>4, <1>5, HeadAppended DEF IInv
  <1>7. UNCHANGED memoryVars /\ UNCHANGED <<jobs, snapshots, decisions>> /\ Complete(t, "authority_decision")
    BY DEF Merge, memoryVars
  <1> QED
    BY <1>2, <1>6, <1>7, BranchDecisionRuns

LEMMA RevertRuns ==
  ASSUME IInv, NEW t, t = Now, NEW f \in Families, NEW i \in DOMAIN heads[f], Revert(t, f, i)
  PROVE  OperationRuns(t, "authority_decision")
  <1>1. t \in Nat
    BY DEF IInv, SourceInv, LogTyped, Now
  <1>2. PICK b \in Bindings : b = heads[f][i].bind
    BY HeadTyped DEF IInv
  <1>3. Learning(b, caps) /\ heads[f] # <<>>
    BY <1>2 DEF IInv, BranchInv
  <1>4. heads' = [heads EXCEPT ![f] = Append(@, [bind |-> b, op |-> t])]
    BY <1>2 DEF Revert
  <1>5. HeadsGrown(t)
    BY <1>1, <1>3, <1>4, HeadAppended DEF IInv
  <1>6. DraftsGrown(t)
    BY DraftsUnchanged DEF Revert, IInv
  <1>7. UNCHANGED memoryVars /\ UNCHANGED <<jobs, snapshots, decisions>> /\ Complete(t, "authority_decision")
    BY DEF Revert, memoryVars
  <1> QED
    BY <1>5, <1>6, <1>7, BranchDecisionRuns

LEMMA LifecycleLedger ==
  ASSUME IInv, NEW t, t = Now, NEW f, NEW m \in Memories, NEW next \in Lives,
         ApplyLifecycleDecision(t, f, m, next)
  PROVE  LedgerKept(t, TRUE)
  <1> DEFINE muts == [x \in {m} |-> DecidedBody(m, next)]
  <1>1. t \in Nat /\ LedgerInv
    BY DEF IInv, SourceInv, LogTyped, Now
  <1>2. items[m] # Absent /\ AppendRevision(t, muts, <<>>, TRUE)
    BY DEF ApplyLifecycleDecision
  <1>3. Appends(t, muts, <<>>, TRUE)
    BY <1>1, <1>2, DecisionAppends
  <1> HIDE DEF muts
  <1>4. PICK R, new : Grows(R, t, muts, <<>>, TRUE, new)
    BY <1>1, <1>3, AppendGrows
  <1> QED
    BY <1>4, LedgerGrows

LEMMA LifecycleRuns ==
  ASSUME IInv, NEW t, t = Now, NEW f, NEW m \in Memories, NEW next \in Lives,
         ApplyLifecycleDecision(t, f, m, next)
  PROVE  OperationRuns(t, "authority_decision")
  <1>1. LedgerKept(t, TRUE)
    BY LifecycleLedger
  <1>2. BranchesGrow(t)
    BY <1>1, BranchesAlone DEF IInv, ApplyLifecycleDecision
  <1>3. Derivable(t)' /\ log' = Append(log, [kind |-> "authority_decision", result |-> Result(t)'])
    BY DEF ApplyLifecycleDecision, Complete, Current
  <1>4. LedgerKept(t, "authority_decision" = "authority_decision")
    BY <1>1
  <1>5. /\ jobs \subseteq jobs' /\ \A j \in jobs' \ jobs : j.op = t
        /\ snapshots' = snapshots /\ decisions' = decisions
    BY DEF ApplyLifecycleDecision
  <1> QED
    BY <1>2, <1>3, <1>4, <1>5 DEF OperationRuns

(* What a decision is compiled from is what its history gives: continuity  *)
(* that expired is filtered out of either projection.                      *)
LEMMA ReplayedIsServed ==
  ASSUME LedgerInv, NEW f, NEW at, NEW r, r = HeadRevision
  PROVE  /\ RowsAt(r) = items /\ CapsuleRowsAt(r) = caps
         /\ Live(ReplayedContinuity(f, r), items, at) = Live(ServedContinuity(f, at), items, at)
  <1>1. \A m \in Memories : ItemAt(m, r) = items[m] /\ CapsAt(m, r) = caps[m]
    BY DEF LedgerInv, TablesAreReplayed
  <1>2. items = [m \in Memories |-> items[m]] /\ caps = [m \in Memories |-> caps[m]]
    BY DEF LedgerInv, LedgerTyped, LedgerTypeOK
  <1>3. RowsAt(r) = items /\ CapsuleRowsAt(r) = caps
    BY <1>1, <1>2 DEF RowsAt, CapsuleRowsAt
  <1> DEFINE stands(ref) ==
               /\ caps[ref[1]][ref[2]].family = f /\ caps[ref[1]][ref[2]].kind \in Continuity
               /\ StandsFor(items[ref[1]], caps[ref[1]][ref[2]])
             latest == {<<m, Len(caps[m])>> : m \in {x \in Memories : caps[x] # <<>>}}
  <1>4. \A ref \in latest : ref[1] \in Memories
    OBVIOUS
  <1>5. ServedContinuity(f, at) = {ref \in latest : stands(ref) /\ ~ Expired(items[ref[1]].body.expires, at)}
    BY DEF ServedContinuity
  <1>6. ReplayedContinuity(f, r) = {ref \in latest : stands(ref)}
    <2> DEFINE past == {<<m, Len(CapsAt(m, r))>> : m \in {x \in Memories : CapsAt(x, r) # <<>>}}
               stood(ref) == /\ CapsAt(ref[1], r)[ref[2]].family = f
                             /\ CapsAt(ref[1], r)[ref[2]].kind \in Continuity
                             /\ StandsFor(ItemAt(ref[1], r), CapsAt(ref[1], r)[ref[2]])
    <2>1. ReplayedContinuity(f, r) = {ref \in past : stood(ref)}
      BY DEF ReplayedContinuity
    <2>2. past = latest
      BY <1>1
    <2>3. \A ref \in latest : stood(ref) <=> stands(ref)
      BY <1>1, <1>4
    <2> HIDE DEF past, stood, latest, stands
    <2> QED
      BY <2>1, <2>2, <2>3
  <1> HIDE DEF latest, stands
  <1>7. Live(ReplayedContinuity(f, r), items, at) = Live(ServedContinuity(f, at), items, at)
    BY <1>5, <1>6 DEF Live
  <1> QED
    BY <1>3, <1>7

LEMMA ContinuationRuns ==
  ASSUME IInv, NEW t, t = Now, NEW f \in Families, CreateContinuation(t, f)
  PROVE  OperationRuns(t, "create_continuation")
  <1>1. LedgerInv /\ BranchInv
    BY DEF IInv
  <1>2. PICK r : r = HeadRevision
    OBVIOUS
  <1>3. heads[f] # <<>> /\ r \in DOMAIN commits /\ r = Len(commits)
    BY <1>2 DEF CreateContinuation, IInv, BranchInv, LedgerInv, LedgerTyped, HeadRevision
  <1>4. PICK bind \in Serviceable(f) :
          /\ Materializable(items, caps, bind, t)
          /\ decisions' = decisions \cup
               {[op |-> t, family |-> f, head |-> Len(heads[f]), bind |-> bind, rev |-> r,
                 candidates |-> Candidates(items, caps, bind, ServedContinuity(f, t), t)]}
    BY <1>2 DEF CreateContinuation
  <1>5. PICK d :
          d = [op |-> t, family |-> f, head |-> Len(heads[f]), bind |-> bind, rev |-> r,
               candidates |-> Candidates(items, caps, bind, ServedContinuity(f, t), t)]
    OBVIOUS
  <1>6. /\ decisions' = decisions \cup {d} /\ d.op = t /\ d.rev = r /\ d.bind = bind /\ d.family = f
        /\ d.candidates = Candidates(items, caps, bind, ServedContinuity(f, t), t)
    BY <1>4, <1>5
  <1>7. Compiled(d)
    <2>1. /\ RowsAt(r) = items /\ CapsuleRowsAt(r) = caps
          /\ Live(ReplayedContinuity(f, r), items, t) = Live(ServedContinuity(f, t), items, t)
      BY <1>1, <1>2, ReplayedIsServed
    <2>2. Candidates(items, caps, bind, ReplayedContinuity(f, r), t) =
          Candidates(items, caps, bind, ServedContinuity(f, t), t)
      BY <2>1 DEF Candidates
    <2> QED
      BY <1>4, <1>6, <2>1, <2>2 DEF Compiled
  <1>8. ASSUME NEW c \in DOMAIN drafts PROVE HeldThen(c, d)
    <2>1. /\ \A ref \in drafts[c].bind : ref[1] \in Memories
          /\ Learning(drafts[c].bind, caps)
      BY <1>1, DraftTyped DEF BranchInv, Bindings
    <2>2. \A m \in Memories : CapsAt(m, r) = caps[m] /\ ItemAt(m, r) = items[m]
      BY <1>1, <1>2 DEF LedgerInv, TablesAreReplayed
    <2>3. ASSUME NEW ref \in drafts[c].bind
          PROVE  ref[2] \in DOMAIN caps[ref[1]] /\ Stands(ref, caps[ref[1]], items[ref[1]])
      BY <1>1, <2>1, LatestStands DEF Learning
    <2> QED
      BY <1>6, <2>1, <2>2, <2>3 DEF HeldThen
  <1>9. /\ UNCHANGED <<commits, items, caps, heads, drafts>> /\ UNCHANGED <<jobs, snapshots>>
        /\ UNCHANGED memoryVars
    BY DEF CreateContinuation, memoryVars
  <1>10. LedgerKept(t, FALSE)
    BY <1>1, <1>9, LedgerAlone
  <1>11. BranchesGrow(t)
    BY <1>1, <1>9, <1>10, BranchesAlone
  <1>12. Derivable(t)' /\ log' = Append(log, [kind |-> "create_continuation", result |-> Result(t)'])
    BY DEF CreateContinuation, Complete, Current
  <1>13. LedgerKept(t, "create_continuation" = "authority_decision")
    BY <1>10
  <1>14. \A x \in decisions' \ decisions : x = d
    BY <1>6
  <1>15. decisions \subseteq decisions'
    BY <1>6
  <1> QED
    BY <1>3, <1>6, <1>7, <1>8, <1>9, <1>11, <1>12, <1>13, <1>14, <1>15 DEF OperationRuns

-----------------------------------------------------------------------------
(* The invariant is inductive.                                             *)
LEMMA InitEstablishes ==
  ASSUME Init
  PROVE  IInv
  <1>1. /\ commits = <<>> /\ Len(commits) = 0 /\ DOMAIN commits = {}
        /\ items = [m \in Memories |-> Absent] /\ caps = [m \in Memories |-> <<>>]
        /\ heads = [f \in Families |-> <<>>] /\ drafts = <<>> /\ log = <<>>
        /\ snapshots = {} /\ decisions = {} /\ DOMAIN log = {} /\ DOMAIN drafts = {}
    BY DEF Init, LedgerInit
  <1>2. ASSUME NEW m \in Memories, NEW r, r = 0
        PROVE  Touches(m, r) = {} /\ Recordings(m, r) = {} /\ ItemAt(m, r) = Absent /\ CapsAt(m, r) = <<>>
               /\ Cardinality(Recordings(m, r)) = 0
    <2>1. Touches(m, r) = {} /\ Recordings(m, r) = {}
      BY <1>2 DEF Touches, Recordings
    <2>2. Cardinality(Recordings(m, r)) = 0
      BY <2>1, FS_EmptySet
    <2>3. CapsAt(m, r) = <<>>
      <3>1. 1 .. Cardinality(Recordings(m, r)) = {}
        BY <2>2
      <3>2. DOMAIN CapsAt(m, r) = {} /\ CapsAt(m, r) = [n \in {} |-> commits[CHOOSE k \in Numbering(m, r, n) : TRUE].caps[m]]
        BY <3>1 DEF CapsAt
      <3> QED
        BY <3>2
    <2> QED
      BY <2>1, <2>2, <2>3 DEF ItemAt
  <1>3. LedgerInv
    <2>1. LedgerTyped
      <3>1. <<>> \in Seq(CommitRows) /\ <<>> \in Seq(Capsules)
        OBVIOUS
      <3> QED
        BY <1>1, <3>1 DEF LedgerTyped, LedgerTypeOK
    <2>2. TablesAreReplayed
      BY <1>1, <1>2 DEF TablesAreReplayed, HeadRevision
    <2>3. NumbersFilled
      <3>1. ASSUME NEW m \in Memories, NEW r \in 0 .. Len(commits),
                   NEW n \in 1 .. Cardinality(Recordings(m, r))
            PROVE  FALSE
        BY <1>1, <1>2, <3>1
      <3> QED
        BY <3>1 DEF NumbersFilled
    <2>4. RowsHold /\ LastStands
      BY <1>1 DEF RowsHold, LastStands
    <2>5. CapsulesComeWithItems /\ CensusHolds /\ ChainLegal
      BY <1>1 DEF CapsulesComeWithItems, CensusHolds, ChainLegal
    <2> QED
      BY <2>1, <2>2, <2>3, <2>4, <2>5 DEF LedgerInv
  <1>4. BranchInv
    <2>1. BranchTyped
      <3> DEFINE E == [bind : Bindings, op : Nat]
                 Draft == [family : Families, base : Nat, bind : Bindings,
                     revs : Seq([state : {"draft", "eligible", "merged"}, op : Nat])]
      <3> HIDE DEF E, Draft
      <3>1. <<>> \in Seq(E) /\ <<>> \in Seq(Draft)
        OBVIOUS
      <3> QED
        BY <1>1, <3>1 DEF BranchTyped, E, Draft
    <2> QED
      BY <1>1, <2>1 DEF BranchInv
  <1>5. SourceInv
    <2>1. LogTyped
      <3>1. <<>> \in Seq({})
        OBVIOUS
      <3> QED
        BY <1>1, <3>1 DEF LogTyped
    <2>2. AuditScope
      BY <1>1 DEF AuditScope, Chain, HeadRevision
    <2>3. BranchRows = {}
      BY <1>1 DEF BranchRows, AuthorityRows, CandidateRows
    <2> QED
      BY <1>1, <2>1, <2>2, <2>3 DEF SourceInv
  <1>6. RecordInv
    BY <1>1 DEF RecordInv, ReceiptsDeriveAgain, DecisionsReplay
  <1> QED
    BY <1>3, <1>4, <1>5, <1>6 DEF IInv

(* Nothing the invariant is about changes when the operator looks.         *)
LEMMA LookPreserves ==
  ASSUME IInv, UNCHANGED <<commits, items, caps, heads, drafts, jobs, snapshots, log, decisions>>
  PROVE  IInv'
  <1>1. /\ commits' = commits /\ items' = items /\ caps' = caps /\ heads' = heads /\ drafts' = drafts
        /\ jobs' = jobs /\ snapshots' = snapshots /\ log' = log /\ decisions' = decisions
    OBVIOUS
  <1>2. LedgerKept(0, TRUE)
    BY LedgerAlone DEF IInv, memoryVars
  <1>3. BranchesGrow(0)
    BY <1>2, BranchesAlone DEF IInv
  <1>4. LedgerInv' /\ BranchInv'
    BY <1>2, <1>3 DEF LedgerKept, BranchesGrow
  <1>5. BranchRows' = BranchRows
    BY <1>1 DEF BranchRows, AuthorityRows, CandidateRows
  <1>6. AuditScope'
    BY <1>1 DEF IInv, SourceInv, AuditScope, Chain, HeadRevision, VerifiedCommit, Lineage, ParentOf
  <1>7. SourceInv'
    BY <1>1, <1>5, <1>6 DEF IInv, SourceInv, LogTyped, BranchSource
  <1>8. ASSUME NEW s \in DOMAIN log PROVE ReadBack(s)'
    <2>1. ReadBack(s)
      BY DEF IInv, RecordInv, ReceiptsDeriveAgain
    <2>2. CommitOf(s)' = CommitOf(s)
      BY <1>1 DEF CommitOf
    <2>3. MemoryRevisionRef(s)' = MemoryRevisionRef(s)
      BY <1>1, <2>2 DEF MemoryRevisionRef, NoRevision
    <2>4. AuthorityBranchRefs(s)' = AuthorityBranchRefs(s)
      BY <1>1, <1>5 DEF AuthorityBranchRefs, AuthorityRows
    <2>5. Result(s)' = Result(s)
      BY <1>1, <2>3, <2>4 DEF Result, SnapshotRefs, JobRefs, DecisionRefs
    <2>6. Derivable(s)'
      BY <1>1, <2>1, <2>2 DEF ReadBack, Derivable, ItemCensus, Written, CapsuleCensus
    <2>7. \A k \in CommitOf(s)' : VerifiedCommit(k)'
      BY <1>1, <2>1, <2>2 DEF ReadBack, VerifiedCommit, Lineage
    <2>8. \A row \in AuthorityBranchRefs(s)' : BranchSource(row)'
      BY <1>1, <2>1, <2>4 DEF ReadBack, BranchSource
    <2> QED
      BY <1>1, <2>1, <2>5, <2>6, <2>7, <2>8 DEF ReadBack
  <1>9. ASSUME NEW d \in decisions PROVE Replays(d)'
    <2>1. Replays(d)
      BY DEF IInv, RecordInv, DecisionsReplay
    <2>2. PICK r : r = d.rev
      OBVIOUS
    <2>3. \A m : ItemAt(m, r)' = ItemAt(m, r) /\ CapsAt(m, r)' = CapsAt(m, r)
      BY <1>1 DEF ItemAt, CapsAt, Touches, Recordings, Numbering
    <2>4. RowsAt(r)' = RowsAt(r) /\ CapsuleRowsAt(r)' = CapsuleRowsAt(r)
      BY <2>3 DEF RowsAt, CapsuleRowsAt
    <2>5. ReplayedContinuity(d.family, r)' = ReplayedContinuity(d.family, r)
      BY <2>3 DEF ReplayedContinuity
    <2>6. Chain(r)'
      BY <1>1, <2>1, <2>2 DEF Replays, Chain, VerifiedCommit, Lineage, ParentOf
    <2>7. Replayable(r)'
      <3>1. \A m, k : ItemAt(m, k)' = ItemAt(m, k) /\ CapsAt(m, k)' = CapsAt(m, k)
        BY <1>1 DEF ItemAt, CapsAt, Touches, Recordings, Numbering
      <3>2. Replayable(r)
        BY <2>1, <2>2 DEF Replays
      <3> QED
        BY <1>1, <3>1, <3>2 DEF Replayable, LegalItem, LegalCapsule
    <2> QED
      BY <2>1, <2>2, <2>4, <2>5, <2>6, <2>7 DEF Replays
  <1>10. ASSUME NEW d \in decisions, NEW c \in DOMAIN drafts, Before(c, d)'
         PROVE  HeldThen(c, d)'
    <2>1. HeldThen(c, d)
      BY <1>1, <1>10 DEF IInv, RecordInv, Before
    <2>2. \A m : CapsAt(m, d.rev)' = CapsAt(m, d.rev) /\ ItemAt(m, d.rev)' = ItemAt(m, d.rev)
      BY <1>1 DEF CapsAt, Recordings, Numbering, ItemAt, Touches
    <2> QED
      BY <1>1, <2>1, <2>2 DEF HeldThen
  <1>11. RecordInv'
    BY <1>1, <1>8, <1>9, <1>10 DEF RecordInv, ReceiptsDeriveAgain, DecisionsReplay
  <1> QED
    BY <1>4, <1>7, <1>11 DEF IInv

LEMMA OperationPreserves ==
  ASSUME IInv, NEW t, NEW kind, OperationRuns(t, kind)
  PROVE  IInv'
  <1>1. SourceInv' /\ RecordInv'
    BY SourcesHold, RecordsHold DEF IInv
  <1> QED
    BY <1>1 DEF IInv, OperationRuns, LedgerKept, BranchesGrow

LEMMA NextRuns ==
  ASSUME OperationsAssumption, IInv, Next
  PROVE  Look \/ \E kind : OperationRuns(Now, kind)
  <1>1. CASE Look
    BY <1>1
  <1>2. ASSUME NEW t, t = Now,
               \/ \E input \in Inputs : RecordObservations(t, input)
               \/ \E f \in Families, m \in Memories, next \in Lives : ApplyLifecycleDecision(t, f, m, next)
               \/ \E c \in DOMAIN drafts : Advance(t, c) \/ Merge(t, c)
               \/ \E f \in Families : \E i \in DOMAIN heads[f] : Revert(t, f, i)
               \/ \E f \in Families : CreateContinuation(t, f)
        PROVE  \E kind : OperationRuns(t, kind)
    BY <1>2, RecordingRuns, LifecycleRuns, AdvanceRuns, MergeRuns, RevertRuns, ContinuationRuns
  <1> QED
    BY <1>1, <1>2 DEF Next

(* Invariant: the invariant above holds of every reachable state.          *)
THEOREM Invariant == Spec => []IInv
  <1>1. Init => IInv
    BY InitEstablishes
  <1>2. IInv /\ [Next]_vars => IInv'
    <2> SUFFICES ASSUME IInv, [Next]_vars PROVE IInv'
      OBVIOUS
    <2>1. CASE Look
      BY <2>1, LookPreserves DEF Look
    <2>2. CASE \E kind : OperationRuns(Now, kind)
      BY <2>2, OperationPreserves
    <2>3. CASE UNCHANGED vars
      BY <2>3, LookPreserves DEF vars
    <2> QED
      BY <2>1, <2>2, <2>3, NextRuns, OperationsAssumption
  <1> QED
    BY <1>1, <1>2, PTL DEF Spec

-----------------------------------------------------------------------------
(* What the runs check.                                                    *)

(* TypeCorrect: the rows of the memory tables are of their types.          *)
THEOREM TypeCorrect == Spec => []LedgerTypeOK
  <1>1. IInv => LedgerTypeOK
    BY DEF IInv, LedgerInv, LedgerTyped
  <1> QED
    BY <1>1, Invariant, PTL

(* HistoryStands: whatever ran since, the receipt of every operation is    *)
(* derived again as it was stored, the tables are what the chain replays   *)
(* to, and every row is accepted by its readers.                           *)
THEOREM HistoryStands == Spec => []HistoryHolds
  <1>1. IInv => HistoryHolds
    BY DEF IInv, HistoryHolds, RecordInv, LedgerInv, LedgerTyped, RowsAreReadable, SourceInv, RowsHold
  <1> QED
    BY <1>1, Invariant, PTL

(* DecisionsAudited: every decision is compiled again from its history; a  *)
(* branch accepted for its counterfactual is bound to capsules which that  *)
(* history holds, and its memories refuse it only if one of them had been  *)
(* recorded again by then.                                                 *)
THEOREM DecisionsAudited == Spec => []AuditsReplay
  <1>1. ASSUME IInv, NEW d \in decisions, NEW c \in DOMAIN drafts
        PROVE  /\ "corrupt" \notin Counterfactual(d, c)
               /\ "drifted" \in Counterfactual(d, c) =>
                    \E ref \in drafts[c].bind : ref[2] < Len(CapsuleRowsAt(d.rev)[ref[1]])
    <2> DEFINE row == RowsAt(d.rev)
               capsule == CapsuleRowsAt(d.rev)
               bind == drafts[c].bind
    <2>1. CASE Served(d, c) \/ ~ Substitutable(d, c)
      BY <2>1 DEF Counterfactual
    <2>2. CASE ~ Served(d, c) /\ Substitutable(d, c)
      <3>1. Len(drafts[c].revs) \in DOMAIN drafts[c].revs
        BY <1>1, DraftTyped DEF IInv
      <3>2. HeldThen(c, d)
        BY <1>1, <2>2, <3>1 DEF IInv, RecordInv, Before, Substitutable
      <3>3. \A ref \in bind : ref[1] \in Memories
        BY <1>1, DraftTyped DEF IInv, Bindings
      <3>4. \A ref \in bind : /\ ref[2] \in DOMAIN capsule[ref[1]]
                              /\ Stands(ref, capsule[ref[1]], row[ref[1]])
        BY <3>2, <3>3 DEF HeldThen, CapsuleRowsAt, RowsAt
      <3> HIDE DEF row, capsule, bind
      <3>5. \A ref \in bind : Bound(ref, capsule)
        BY <3>4 DEF Bound
      <3>6. ASSUME NEW ref \in Live(bind, row, d.op), Drifted(ref, row, capsule)
            PROVE  ref[2] < Len(capsule[ref[1]])
        <4>1. ref \in bind /\ Is(row[ref[1]], "active")
          BY <3>6 DEF Live
        <4> QED
          BY <3>4, <3>6, <4>1 DEF Stands, Drifted
      <3>7. \/ Materializable(row, capsule, bind, d.op)
            \/ \E ref \in bind : ref[2] < Len(capsule[ref[1]])
        BY <3>5, <3>6 DEF Materializable, Live
      <3>8. Counterfactual(d, c) =
              IF \E ref \in bind : ~ Bound(ref, capsule) THEN {"corrupt"}
              ELSE IF ~ Materializable(row, capsule, bind, d.op) THEN {"drifted"}
              ELSE Evaluations
        BY <2>2 DEF Counterfactual, row, capsule, bind
      <3>9. \/ "drifted" \notin Counterfactual(d, c) /\ "corrupt" \notin Counterfactual(d, c)
            \/ /\ "corrupt" \notin Counterfactual(d, c)
               /\ ~ Materializable(row, capsule, bind, d.op)
        BY <3>5, <3>8 DEF Evaluations
      <3> QED
        BY <3>7, <3>9 DEF capsule, bind
    <2> QED
      BY <2>1, <2>2
  <1>2. IInv => AuditsReplay
    BY <1>1 DEF IInv, RecordInv, AuditsReplay, SubstitutesAreReadable
  <1> QED
    BY <1>2, Invariant, PTL

(* OutageIsKnown: a served branch that cannot be compiled is bound to a    *)
(* capsule older than the latest of its memory.                            *)
THEOREM OutageIsKnown == Spec => []OutageIsRerecorded
  <1>1. ASSUME IInv, NEW f \in Families, heads[f] # <<>>, NEW bind, bind = heads[f][Len(heads[f])].bind,
               ~ \E ref \in bind : ref[2] < Len(caps[ref[1]])
        PROVE  Materializable(items, caps, bind, Now)
    <2>1. bind \in Bindings /\ Learning(bind, caps)
      BY <1>1, HeadTyped DEF IInv
    <2>2. ASSUME NEW ref \in bind
          PROVE  ref[1] \in Memories /\ ref[2] \in DOMAIN caps[ref[1]]
      BY <2>1 DEF Bindings, Learning
    <2>3. ASSUME NEW ref \in Live(bind, items, Now)
          PROVE  ~ Drifted(ref, items, caps)
      <3>1. ref \in bind /\ Is(items[ref[1]], "active")
        BY <2>3 DEF Live
      <3>2. Stands(ref, caps[ref[1]], items[ref[1]])
        BY <1>1, <2>2, <3>1, LatestStands DEF IInv
      <3> QED
        BY <1>1, <2>2, <3>1, <3>2 DEF Stands, Drifted
    <2> QED
      BY <2>2, <2>3 DEF Materializable, Bound
  <1>2. IInv => OutageIsRerecorded
    BY <1>1 DEF OutageIsRerecorded
  <1> QED
    BY <1>2, Invariant, PTL

(* What a step admits of the guards of the schema.                         *)
LEMMA RowsAdmitted ==
  ASSUME IInv, NEW t, NEW kind, OperationRuns(t, kind)
  PROVE  /\ HeadAdvances /\ ChainIsKept /\ CapsulesAreKept /\ ReceiptsAreKept /\ SnapshotsAreKept
         /\ (\A m \in Memories : ItemRowAdvances(m)) /\ FencedMemory /\ FencedBranches
         /\ \A row \in BranchRows' \ BranchRows : BindsLearning(row)
         /\ TerminalStays
  <1>1. HeadAdvances /\ ChainIsKept /\ CapsulesAreKept
    BY DEF OperationRuns, LedgerKept, HeadAdvances, HeadRevision, ChainIsKept, CapsulesAreKept
  <1>2. /\ \A s \in DOMAIN log : log'[s] = log[s]
        /\ t \notin DOMAIN log
    BY LogGrows DEF OperationRuns, IInv, SourceInv, Now
  <1>3. ReceiptsAreKept /\ SnapshotsAreKept
    BY <1>2 DEF ReceiptsAreKept, SnapshotsAreKept, OperationRuns
  <1>4. (\A m \in Memories : ItemRowAdvances(m)) /\ TerminalStays
    BY DEF OperationRuns, LedgerKept, ItemRowAdvances, TerminalStays
  <1>5. FencedMemory
    BY <1>2 DEF OperationRuns, LedgerKept, FencedMemory, Completed
  <1>6. FencedBranches
    BY <1>2, RowsGrow DEF OperationRuns, FencedBranches, Completed
  <1>7. ASSUME NEW row \in BranchRows' PROVE BindsLearning(row)
    <2>1. BranchInv'
      BY DEF OperationRuns, BranchesGrow
    <2>2. Learning(row.bind, caps')
      <3>1. CASE \E f \in Families : row \in AuthorityRows(f)'
        BY <2>1, <3>1 DEF AuthorityRows, BranchInv
      <3>2. CASE \E c \in DOMAIN drafts' : row \in CandidateRows(c)'
        BY <2>1, <3>2 DEF CandidateRows, BranchInv
      <3> QED
        BY <1>7, <3>1, <3>2 DEF BranchRows
    <2> QED
      BY <2>2 DEF Learning, BindsLearning
  <1> QED
    BY <1>1, <1>3, <1>4, <1>5, <1>6, <1>7

(* Only a recording opens a draft, with the commit it has just appended.   *)
LEMMA DraftAdmitted ==
  ASSUME OperationsAssumption, IInv, Next, NEW row \in BranchRows' \ BranchRows
  PROVE  AdmittedDraft(row)
  <1> SUFFICES ASSUME row.rev = 1, row.state = "draft"
               PROVE  /\ \E x \in snapshots' : x.op = row.op
                      /\ commits'[Len(commits')].op = row.op
    BY DEF AdmittedDraft
  <1>1. PICK c \in DOMAIN drafts' : row \in CandidateRows(c)'
    BY DEF BranchRows, AuthorityRows
  <1>2. drafts'[c].revs[1].op = row.op
    BY <1>1 DEF CandidateRows
  <1>3. ASSUME NEW t, NEW kind, t = Now, OperationRuns(t, kind), DOMAIN drafts' = DOMAIN drafts
        PROVE  FALSE
    <2>1. c \in DOMAIN drafts /\ 1 \in DOMAIN drafts[c].revs
      BY <1>1, <1>3, DraftTyped DEF IInv
    <2>2. /\ drafts'[c].revs[1] = drafts[c].revs[1] /\ drafts'[c].bind = drafts[c].bind
      BY <1>3, <2>1 DEF OperationRuns, BranchesGrow
    <2>3. row \in CandidateRows(c)
      BY <1>1, <2>1, <2>2 DEF CandidateRows
    <2> QED
      BY <2>1, <2>3 DEF BranchRows
  <1>4. ASSUME NEW t, t = Now, NEW input \in Inputs, RecordObservations(t, input)
        PROVE  /\ \E x \in snapshots' : x.op = row.op
               /\ commits'[Len(commits')].op = row.op
    <2>1. OperationRuns(t, "record_observations")
      BY <1>4, RecordingRuns
    <2>2. row.op = t
      BY <2>1, RowsGrow DEF OperationRuns
    <2>3. DOMAIN input.memory # {}
      <3>1. DOMAIN input.memory = {} => drafts' = drafts
        BY <1>4 DEF RecordObservations
      <3> QED
        BY <1>3, <1>4, <2>1, <3>1
    <2>4. t \in Nat /\ LedgerInv
      BY <1>4 DEF IInv, SourceInv, LogTyped, Now
    <2>5. commits'[Len(commits')].op = t
      BY <1>4, <2>3, <2>4, RecordingLedger
    <2>6. \E x \in snapshots' : x.op = t
      <3>1. PICK x : x = [op |-> t, family |-> input.family]
        OBVIOUS
      <3>2. x \in snapshots'
        BY <1>4, <3>1 DEF RecordObservations, PutSnapshot
      <3> QED
        BY <3>1, <3>2
    <2> QED
      BY <2>2, <2>5, <2>6
  <1>5. ASSUME NEW t, t = Now, NEW x \in DOMAIN drafts, Advance(t, x) \/ Merge(t, x)
        PROVE  FALSE
    <2>1. OperationRuns(t, "authority_decision")
      BY <1>5, AdvanceRuns, MergeRuns
    <2>2. DOMAIN drafts' = DOMAIN drafts
      BY <1>5 DEF Advance, Merge
    <2> QED
      BY <1>3, <1>5, <2>1, <2>2
  <1>6. ASSUME drafts' = drafts, \E kind : OperationRuns(Now, kind)
        PROVE  FALSE
    BY <1>3, <1>6
  <1>7. ASSUME Look PROVE FALSE
    BY <1>7 DEF Look, BranchRows, AuthorityRows, CandidateRows
  <1>8. Look \/ \E kind : OperationRuns(Now, kind)
    BY NextRuns
  <1>9. \/ \E input \in Inputs : RecordObservations(Now, input)
        \/ \E x \in DOMAIN drafts : Advance(Now, x) \/ Merge(Now, x)
        \/ drafts' = drafts
    BY DEF Next, Look, ApplyLifecycleDecision, Revert, CreateContinuation
  <1> QED
    BY <1>4, <1>5, <1>6, <1>7, <1>8, <1>9

(* A lifecycle decision is fenced on the head the operator looked at.      *)
LEMMA DecisionSeen ==
  ASSUME OperationsAssumption, IInv, Next
  PROVE  DecidedAsSeen
  <1> SUFFICES ASSUME NEW m \in Memories, items'[m] # items[m], Len(log') > Len(log),
                      log'[Len(log')].kind = "authority_decision"
               PROVE  items[m] = ItemAt(m, seen)
    BY DEF DecidedAsSeen
  <1>1. ASSUME NEW input \in Inputs, RecordObservations(Now, input) PROVE FALSE
    <2>1. OperationRuns(Now, "record_observations")
      BY <1>1, RecordingRuns
    <2>2. log'[Len(log')].kind = "record_observations"
      BY <2>1, LogGrows DEF OperationRuns, IInv, SourceInv
    <2> QED
      BY <2>2
  <1>2. ASSUME NEW f, NEW x, NEW next, ApplyLifecycleDecision(Now, f, x, next)
        PROVE  items[m] = ItemAt(m, seen)
    <2>1. seen = HeadRevision
      BY <1>2 DEF ApplyLifecycleDecision, Fenced
    <2> QED
      BY <2>1 DEF IInv, LedgerInv, TablesAreReplayed
  <1>3. ASSUME items' = items PROVE FALSE
    BY <1>3
  <1>4. \/ \E input \in Inputs : RecordObservations(Now, input)
        \/ \E f, x, next : ApplyLifecycleDecision(Now, f, x, next)
        \/ items' = items
    BY DEF Next, Look, Advance, Merge, Revert, CreateContinuation
  <1> QED
    BY <1>1, <1>2, <1>3, <1>4

(* WritesLawful: a lifecycle decision falls on the row that was looked at, *)
(* what was withdrawn for good is never written again, and every statement *)
(* of every operation is one the guards of the schema admit.               *)
THEOREM WritesLawful == Spec => WritesAreLawful
  <1>1. IInv /\ [Next]_vars => [DecidedAsSeen /\ TerminalStays /\ StatementsAdmitted]_vars
    <2> SUFFICES ASSUME IInv, Next PROVE DecidedAsSeen /\ TerminalStays /\ StatementsAdmitted
      OBVIOUS
    <2>1. CASE Look
      <3>1. /\ commits' = commits /\ items' = items /\ caps' = caps /\ heads' = heads
            /\ drafts' = drafts /\ log' = log /\ snapshots' = snapshots
        BY <2>1 DEF Look
      <3>2. BranchRows' = BranchRows
        BY <3>1 DEF BranchRows, AuthorityRows, CandidateRows
      <3> QED
        BY <3>1, <3>2, DecisionSeen, OperationsAssumption DEF TerminalStays, StatementsAdmitted, HeadAdvances,
          HeadRevision, ChainIsKept, CapsulesAreKept, ReceiptsAreKept, SnapshotsAreKept,
          ItemRowAdvances, FencedMemory, FencedBranches
    <2>2. CASE \E kind : OperationRuns(Now, kind)
      BY <2>2, RowsAdmitted, DraftAdmitted, DecisionSeen, OperationsAssumption DEF StatementsAdmitted
    <2> QED
      BY <2>1, <2>2, NextRuns, OperationsAssumption
  <1> QED
    BY <1>1, Invariant, PTL DEF Spec, WritesAreLawful
=============================================================================
