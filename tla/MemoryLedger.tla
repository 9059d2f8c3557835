---------------------------- MODULE MemoryLedger ----------------------------
(***************************************************************************)
(* The memory of one scope.  Every mutation is a commit of a chain; beside *)
(* the chain stand the tables it projects to: one row for each memory,     *)
(* overwritten by the commit that mutates it, and the revisions of its     *)
(* capsule, which only grow.  Decisions are compiled from the tables, and  *)
(* an audit compiles them again, at any later time, from the chain alone.  *)
(*                                                                         *)
(* Digests are injective, so a row, a projection or a capsule is its       *)
(* content.  Time is the number of the operation that runs: every authority *)
(* time is minted later than those before it.                              *)
(***************************************************************************)
EXTENDS Naturals, Sequences, FiniteSets

CONSTANTS
  Memories,
  Families,    \* task families; all of them share the memory of the scope
  Never        \* an expiry after every operation

ASSUME LedgerAssumption == Never \in Nat

VARIABLES
  commits,     \* memory_commits: operation and its kind, item mutations, capsules
  items,       \* memory_items
  caps         \* capsule_revisions of the capsule of each memory

memoryVars == <<commits, items, caps>>

-----------------------------------------------------------------------------
Learned == {"procedure", "counter_evidence"}
Continuity == {"current_state", "verified_fact", "constraint"}
Kinds == Learned \cup Continuity
Lives == {"active", "suppressed", "quarantined", "archived"}
Turns == {<<"active", "suppressed">>, <<"suppressed", "active">>,
          <<"active", "quarantined">>, <<"suppressed", "quarantined">>}

(* The projection of a recording names its snapshot, so no two are equal.  *)
(* That of an archived memory names the projection it replaces.            *)
Projections == {"recorded", "tombstone"} \X Nat
Tombstone(projection) == <<"tombstone", projection[2]>>

Bodies == [kind : Kinds, life : Lives, authority : {"candidate", "verified"},
           hydrated : BOOLEAN, projection : Projections, expires : Nat]
Absent == [rev |-> 0]
Row(body, rev) == [rev |-> rev, body |-> body]

Capsules == [kind : Kinds, family : Families, projection : Projections,
             n : Nat, rev : Nat, expires : Nat]

HeadRevision == Len(commits)

Expired(expires, at) == expires =< at
Is(row, life) == row # Absent /\ row.body.life = life

(* What a reader checks of a stored row, whatever wrote it: an archived    *)
(* memory is a tombstone and no other is, and the commit a row names is    *)
(* there.  The replay asks the same of every mutation of the chain.        *)
ParsedItem(body) ==
  /\ body.hydrated = (body.life # "archived")
  /\ body.life = "archived" => body.projection[1] = "tombstone"

CommitRef(rev) == rev \in DOMAIN commits

VerifiedItem(row) == ParsedItem(row.body)
VerifiedCapsule(m, n) == caps[m][n].n = n

ReadableItem(m) ==
  /\ items[m] # Absent
  /\ VerifiedItem(items[m]) /\ CommitRef(items[m].rev)

ReadableCapsule(m, n) ==
  /\ VerifiedCapsule(m, n) /\ CommitRef(caps[m][n].rev)
  /\ items[m] # Absent /\ VerifiedItem(items[m])

(* Seeded fault: a recording may follow a quarantine.                      *)
SemanticsRevives(m, body, decided) ==
  IF items[m] = Absent THEN body.life = "active"
  ELSE LET old == items[m].body.life
       IN  IF body.life = "archived" THEN decided /\ old \in {"active", "suppressed"}
           ELSE /\ old # "archived"
                /\ (decided /\ old # body.life) =>
                     <<old, body.life>> \in Turns \cup {<<"quarantined", "active">>}

(* assertMemoryItemMutationSemantics.                                      *)
Semantics(m, body, decided) ==
  IF items[m] = Absent THEN body.life = "active"
  ELSE LET old == items[m].body.life
       IN  IF body.life = "archived" THEN decided /\ old \in {"active", "suppressed"}
           ELSE /\ old \notin {"archived", "quarantined"}
                /\ old # body.life => decided /\ <<old, body.life>> \in Turns

(* appendMemoryRevision by operation t: muts is the new body of each item  *)
(* it mutates, fresh the capsule drafts, which keep the family and get the *)
(* next capsule revision.                                                  *)
Numbered(fresh, rev) ==
  [m \in DOMAIN fresh |-> [kind |-> fresh[m].kind, family |-> fresh[m].family,
     projection |-> fresh[m].projection, expires |-> fresh[m].expires,
     n |-> Len(caps[m]) + 1, rev |-> rev]]

Commit(t, decided, muts, new) == [op |-> t, decided |-> decided, items |-> muts, caps |-> new]

(* The rows a commit overwrites carry its revision.                        *)
Upsert(muts, rev) ==
  items' = [m \in Memories |-> IF m \in DOMAIN muts THEN Row(muts[m], rev) ELSE items[m]]

InsertCapsules(new) ==
  caps' = [m \in Memories |-> IF m \in DOMAIN new THEN Append(caps[m], new[m]) ELSE caps[m]]

(* Before the transaction ends everything it wrote is read again.          *)
Postwrite(touched, renewed) ==
  /\ \A m \in touched : ReadableItem(m)
  /\ \A m \in renewed : ReadableCapsule(m, Len(caps[m]))

AppendRevision(t, muts, fresh, decided) ==
  LET rev == HeadRevision + 1
      new == Numbered(fresh, rev)
  IN  /\ \A m \in DOMAIN muts : Semantics(m, muts[m], decided)
      /\ \A m \in DOMAIN fresh : caps[m] # <<>> => caps[m][1].family = fresh[m].family
      /\ commits' = Append(commits, Commit(t, decided, muts, new))
      /\ Upsert(muts, rev)
      /\ InsertCapsules(new)
      /\ Postwrite(DOMAIN muts, DOMAIN fresh)'

-----------------------------------------------------------------------------
(* replay: the tables as the chain up to revision r makes them.            *)
Touches(m, r) == {k \in 1 .. r : m \in DOMAIN commits[k].items}
Recordings(m, r) == {k \in 1 .. r : m \in DOMAIN commits[k].caps}

(* What the replay keeps for a memory: its last row, and its capsules by   *)
(* their revision.                                                         *)
Latest(S) == CHOOSE k \in S : \A j \in S : j =< k

ItemAt(m, r) ==
  IF Touches(m, r) = {} THEN Absent
  ELSE LET k == Latest(Touches(m, r)) IN Row(commits[k].items[m], k)

Numbering(m, r, n) == {k \in Recordings(m, r) : commits[k].caps[m].n = n}
CapsAt(m, r) ==
  [n \in 1 .. Cardinality(Recordings(m, r)) |->
     commits[CHOOSE k \in Numbering(m, r, n) : TRUE].caps[m]]

(* What the replay asks of each commit, having replayed those before it.   *)
LegalItem(m, k) ==
  LET old == ItemAt(m, k - 1)
      new == commits[k].items[m]
  IN  /\ ParsedItem(new)
      /\ IF old = Absent THEN new.life = "active"
         ELSE IF new.life = "archived"
         THEN /\ old.body.life \in {"active", "suppressed"} /\ commits[k].decided
              /\ new.projection = Tombstone(old.body.projection)
         ELSE /\ old.body.life \notin {"archived", "quarantined"}
              /\ new.life # old.body.life =>
                   commits[k].decided /\ <<old.body.life, new.life>> \in Turns

LegalCapsule(m, k) ==
  LET new == commits[k].caps[m]
      past == CapsAt(m, k - 1)
  IN  /\ new.rev = k /\ new.projection = ItemAt(m, k).body.projection
      /\ new.n = Len(past) + 1
      /\ past # <<>> => new.family = past[Len(past)].family

Replayable(r) ==
  /\ r >= 1
  /\ \A k \in 1 .. r : /\ \A m \in DOMAIN commits[k].items : LegalItem(m, k)
                       /\ \A m \in DOMAIN commits[k].caps : LegalCapsule(m, k)

(* Continuity that its memory still stands for.                            *)
StandsFor(row, capsule) ==
  /\ Is(row, "active") /\ row.body.authority = "verified" /\ row.body.hydrated
  /\ row.body.kind = capsule.kind
  /\ row.body.projection = capsule.projection

ReplayedAnyRevision(family, r) ==  \* seeded fault: not only the latest revision
  {ref \in UNION {{m} \X DOMAIN CapsAt(m, r) : m \in Memories} :
     LET capsule == CapsAt(ref[1], r)[ref[2]] IN
       /\ capsule.family = family /\ capsule.kind \in Continuity
       /\ ItemAt(ref[1], r) # Absent /\ ItemAt(ref[1], r).body.life = "active"
       /\ ItemAt(ref[1], r).body.kind = capsule.kind}

(* continuity_records of a historical projection, whatever they expire at. *)
ReplayedContinuity(family, r) ==
  {ref \in {<<m, Len(CapsAt(m, r))>> : m \in {x \in Memories : CapsAt(x, r) # <<>>}} :
     LET capsule == CapsAt(ref[1], r)[ref[2]] IN
       /\ capsule.family = family /\ capsule.kind \in Continuity
       /\ StandsFor(ItemAt(ref[1], r), capsule)}

(* continuityRows of the current projection, which have not expired.       *)
ServedContinuity(family, at) ==
  {ref \in {<<m, Len(caps[m])>> : m \in {x \in Memories : caps[x] # <<>>}} :
     LET capsule == caps[ref[1]][ref[2]] IN
       /\ capsule.family = family /\ capsule.kind \in Continuity
       /\ StandsFor(items[ref[1]], capsule)
       /\ ~ Expired(items[ref[1]].body.expires, at)}

(* Every row a decision reads verifies, with the commit that wrote it, and *)
(* none is younger than the head the decision names.                       *)
Projected(refs) ==
  \A ref \in refs :
    /\ ref[2] \in DOMAIN caps[ref[1]] /\ ReadableCapsule(ref[1], ref[2])
    /\ caps[ref[1]][ref[2]].rev =< HeadRevision
    /\ ReadableItem(ref[1]) /\ items[ref[1]].rev =< HeadRevision

(* materializeContinuationCandidatesV1, over either projection: row gives  *)
(* the items, capsule the capsules of each memory.                         *)
Bound(ref, capsule) == ref[2] \in DOMAIN capsule[ref[1]]
Live(refs, row, at) ==
  {ref \in refs : Is(row[ref[1]], "active") /\ ~ Expired(row[ref[1]].body.expires, at)}
Drifted(ref, row, capsule) ==
  LET body == row[ref[1]].body
      bound == capsule[ref[1]][ref[2]]
  IN  ~ body.hydrated \/ body.kind # bound.kind \/ body.projection # bound.projection

Materializable(row, capsule, bind, at) ==
  /\ \A ref \in bind : Bound(ref, capsule)
  /\ \A ref \in Live(bind, row, at) : ~ Drifted(ref, row, capsule)

Candidates(row, capsule, bind, continuity, at) ==
  {[ref |-> ref, lane |-> "learning", capsule |-> capsule[ref[1]][ref[2]],
    row |-> row[ref[1]]] : ref \in Live(bind, row, at)}
  \cup
  {[ref |-> ref, lane |-> "continuity", capsule |-> capsule[ref[1]][ref[2]],
    row |-> row[ref[1]]] : ref \in Live(continuity, row, at)}

RowsAt(r) == [m \in Memories |-> ItemAt(m, r)]
CapsuleRowsAt(r) == [m \in Memories |-> CapsAt(m, r)]

(* What the guards of the schema ask of each statement: the head advances  *)
(* by one commit, an item row only by a later commit that changes it, and  *)
(* what is in the chain or a capsule revision stays.                       *)
HeadAdvances == Len(commits') \in {HeadRevision, HeadRevision + 1}

ItemRowAdvances(m) ==
  items[m] # Absent /\ items'[m] # items[m] => items'[m].rev > items[m].rev

ChainIsKept == \A k \in DOMAIN commits : commits'[k] = commits[k]
CapsulesAreKept == \A m \in Memories : \A n \in DOMAIN caps[m] : caps'[m][n] = caps[m][n]

LedgerTypeOK ==
  /\ items \in [Memories -> {Absent} \cup [rev : Nat, body : Bodies]]
  /\ caps \in [Memories -> Seq(Capsules)]

LedgerInit ==
  /\ commits = <<>>
  /\ items = [m \in Memories |-> Absent]
  /\ caps = [m \in Memories |-> <<>>]
=============================================================================
