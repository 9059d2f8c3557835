------------------------------ MODULE Operations ------------------------------
(***************************************************************************)
(* The operations of the runtime over the memory of a scope.  Each runs in *)
(* one transaction: its producer writes the tables, the receipt is derived *)
(* from the rows that carry the operation as their source, and the receipt *)
(* is stored.  The answer is read back in another transaction, and so is   *)
(* every later retry: each of them derives the receipt again, from tables  *)
(* that other operations have written since.                               *)
(*                                                                         *)
(* Branch revisions, measured elsewhere in full, are here the rows the     *)
(* receipts and the decisions refer to.                                    *)
(***************************************************************************)
EXTENDS MemoryLedger

CONSTANTS
  Inputs,      \* recordings a host may send: family, memories
  Moves,       \* lifecycle decisions an operator may take
  MaxOps       \* bound: operations that complete

ASSUME OperationsAssumption ==
  /\ MaxOps \in Nat
  /\ \A i \in Inputs : /\ i.family \in Families /\ DOMAIN i.memory \subseteq Memories
                       /\ \A m \in DOMAIN i.memory : i.memory[m].kind \in Kinds
                       /\ \A m \in DOMAIN i.memory : i.memory[m].expires \in Nat

VARIABLES
  heads,       \* authoritative branch revisions of each family
  drafts,      \* candidate branches: their revisions, base and bindings
  jobs,        \* durable jobs, by the operation that enqueued them
  snapshots,   \* observation_snapshots, by the recording that put them
  log,         \* operations: kind and stored receipt
  decisions,   \* exposures: what a decision was compiled from
  seen         \* the memory head the operator looked at last

vars == <<commits, items, caps, heads, drafts, jobs, snapshots, log, decisions, seen>>

Now == Len(log) + 1

-----------------------------------------------------------------------------
(* Results derived from the rows of operation t.                           *)
NoRevision == [revision |-> 0, items |-> {}, capsules |-> {}]
CommitOf(t) == {k \in DOMAIN commits : commits[k].op = t}

MemoryRevisionRef(t) ==
  IF CommitOf(t) = {} THEN NoRevision
  ELSE LET k == CHOOSE k \in CommitOf(t) : TRUE
       IN  [revision |-> k,
            items |-> {<<m, commits[k].items[m]>> : m \in DOMAIN commits[k].items},
            capsules |-> {<<m, commits[k].caps[m]>> : m \in DOMAIN commits[k].caps}]

AuthorityRows(f) == {[branch |-> <<"authority", f>>, rev |-> i, state |-> "authoritative",
                      bind |-> heads[f][i].bind, op |-> heads[f][i].op] : i \in DOMAIN heads[f]}
CandidateRows(c) == {[branch |-> <<"candidate", c>>, rev |-> j, state |-> drafts[c].revs[j].state,
                      bind |-> drafts[c].bind, op |-> drafts[c].revs[j].op] : j \in DOMAIN drafts[c].revs}
BranchRows == (UNION {AuthorityRows(f) : f \in Families}) \cup (UNION {CandidateRows(c) : c \in DOMAIN drafts})

(* authorityBranchRefs: a recording that drafts names the base beside it.  *)
AuthorityBranchRefs(t) ==
  LET own == {row \in BranchRows : row.op = t}
  IN  own \cup UNION {{row \in AuthorityRows(drafts[c].family) : row.rev = drafts[c].base} :
        c \in {d \in DOMAIN drafts : drafts[d].revs[1].op = t}}

JobRefs(t) == {j \in jobs : j.op = t}

DecisionRefs(t) == {d \in decisions : d.op = t}

SnapshotRefs(t) == {x \in snapshots : x.op = t}

Result(t) == [snapshot |-> SnapshotRefs(t),
              memory |-> MemoryRevisionRef(t), branches |-> AuthorityBranchRefs(t),
              jobs |-> JobRefs(t), exposures |-> DecisionRefs(t)]

(* What the derivation asks of the tables.  Before the receipt is stored   *)
(* the rows of the operation are the current ones; later they may have     *)
(* been overwritten, never taken back.                                     *)
Written(k) == {m \in Memories : items[m].rev = k}

ExactCensus(k) ==  \* seeded fault: a replay, too, asks for every row of the commit
  Written(k) = DOMAIN commits[k].items

ItemCensus(k) ==
  /\ Written(k) \subseteq DOMAIN commits[k].items
  /\ \A m \in DOMAIN commits[k].items : items[m].rev >= k

CapsuleCensus(k) ==
  {<<m, commits[k].caps[m]>> : m \in DOMAIN commits[k].caps} =
  UNION {{<<m, caps[m][n]>> : n \in {i \in DOMAIN caps[m] : caps[m][i].rev = k}} : m \in Memories}

Derivable(t) ==
  /\ Cardinality(CommitOf(t)) =< 1
  /\ \A k \in CommitOf(t) : ItemCensus(k) /\ CapsuleCensus(k)

Current(t) ==
  /\ Derivable(t)
  /\ \A k \in CommitOf(t) : k = HeadRevision /\ Written(k) = DOMAIN commits[k].items
  /\ \A f \in Families : \A i \in DOMAIN heads[f] :
       heads[f][i].op = t => i = Len(heads[f])

(* assertRecordObservationBranchSet and the classes of authorityDecision-  *)
(* Result.                                                                 *)
RecordingShape(r) ==
  /\ Cardinality(r.snapshot) = 1 /\ Cardinality(r.branches) =< 2
  /\ Cardinality({b \in r.branches : b.state = "authoritative"}) =< 1
  /\ \A b \in r.branches : b.state \in {"authoritative", "draft"}
  /\ (\E b \in r.branches : b.state = "draft") =>
       \E b \in r.branches : b.state = "authoritative"

BranchSetShape(branches) ==
  \/ Cardinality(branches) = 1
  \/ /\ Cardinality(branches) = 2
     /\ {b.state : b \in branches} = {"authoritative", "merged"}

DecisionShape(r) ==
  \/ r.branches = {} /\ r.memory # NoRevision /\ {j.kind : j \in r.jobs} = {"retention"}
  \/ r.branches = {} /\ r.memory # NoRevision /\ r.jobs = {}
  \/ r.memory = NoRevision /\ r.jobs = {} /\ BranchSetShape(r.branches)

Shape(kind, r) ==
  CASE kind = "record_observations" -> RecordingShape(r)
    [] kind = "authority_decision" -> DecisionShape(r)
    [] kind = "create_continuation" -> Cardinality(r.exposures) = 1

(* A commit is accepted with the completed operation it came from, which is *)
(* one that may write it, and in a chain whose times increase.             *)
Lineage(k) ==
  /\ commits[k].op \in DOMAIN log
  /\ log[commits[k].op].kind =
       IF commits[k].decided THEN "authority_decision" ELSE "record_observations"

VerifiedCommit(k) == k \in DOMAIN commits /\ Lineage(k)
ParentOf(k) == VerifiedCommit(k - 1) /\ commits[k - 1].op < commits[k].op
Chain(r) == \A k \in 1 .. r : VerifiedCommit(k) /\ (k > 1 => ParentOf(k))
AuditScope == Chain(HeadRevision)

(* A branch row is accepted from a recording or a decision that completed. *)
BranchSource(row) ==
  /\ row.op \in DOMAIN log
  /\ log[row.op].kind \in {"record_observations", "authority_decision"}

(* parsePersistedReceipt: what a retry and a read of t are answered from.  *)
ReadBack(t) ==
  /\ Derivable(t)
  /\ \A k \in CommitOf(t) : VerifiedCommit(k)
  /\ \A row \in AuthorityBranchRefs(t) : BranchSource(row)
  /\ Result(t) = log[t].result

(* execute: the producer has written the primed tables.                    *)
Complete(t, kind) ==
  /\ t =< MaxOps
  /\ (Current(t) /\ Shape(kind, Result(t)))'
  /\ log' = Append(log, [kind |-> kind, result |-> Result(t)'])
  /\ UNCHANGED seen

-----------------------------------------------------------------------------
(* record_observations.  memory_input_v1 becomes one item and one capsule. *)
AdmittedItem(input, t) ==
  [kind |-> input.kind, life |-> "active",
   authority |-> IF input.kind \in Continuity THEN "verified" ELSE "candidate",
   hydrated |-> TRUE, projection |-> <<"recorded", t>>, expires |-> input.expires]
AdmittedCapsule(input, family, t) ==
  [kind |-> input.kind, family |-> family, projection |-> <<"recorded", t>>,
   expires |-> input.expires]

(* createIsolatedCandidateDraft: the bindings of the head, with those of   *)
(* the recorded memories replaced by their new capsules.                   *)
Rebound(bind, learned, capsule) ==
  {ref \in bind : ref[1] \notin learned} \cup {<<m, Len(capsule[m])>> : m \in learned}

PutSnapshot(t, f) == snapshots' = snapshots \cup {[op |-> t, family |-> f]}

RecordObservations(t, input) ==
  LET f == input.family
      M == DOMAIN input.memory
      learned == {m \in M : input.memory[m].kind \in Learned}
      genesis == IF heads[f] = <<>> THEN <<[bind |-> {}, op |-> t]>> ELSE heads[f]
  IN  /\ PutSnapshot(t, f)
      /\ \A m \in M : ~ Expired(input.memory[m].expires, t)
      /\ IF M = {} /\ commits # <<>> THEN UNCHANGED memoryVars
         ELSE AppendRevision(t, [m \in M |-> AdmittedItem(input.memory[m], t)],
                [m \in M |-> AdmittedCapsule(input.memory[m], f, t)], FALSE)
      /\ jobs' = IF M = {} THEN jobs ELSE jobs \cup {[op |-> t, kind |-> "embedding"]}
      /\ heads' = [heads EXCEPT ![f] = genesis]
      /\ drafts' = IF learned = {} THEN drafts
                   ELSE Append(drafts, [family |-> f, base |-> Len(genesis),
                          bind |-> Rebound(genesis[Len(genesis)].bind, learned, caps'),
                          revs |-> <<[state |-> "draft", op |-> t]>>])
      /\ UNCHANGED decisions
      /\ Complete(t, "record_observations")

(* The operator looks at the memory.                                       *)
Look ==
  /\ seen # HeadRevision
  /\ seen' = HeadRevision
  /\ UNCHANGED <<commits, items, caps, heads, drafts, jobs, snapshots, log, decisions>>

Fenced(f) == heads[f] # <<>> /\ seen = HeadRevision

RewrittenBody(m, next) ==  \* seeded fault: a suppressed memory is rewritten
  [items[m].body EXCEPT !.life = next, !.hydrated = next # "archived",
     !.projection = IF next \in {"archived", "suppressed"}
                    THEN Tombstone(items[m].body.projection) ELSE @]

(* Archiving leaves a tombstone for the projection.                        *)
DecidedBody(m, next) ==
  [items[m].body EXCEPT !.life = next, !.hydrated = next # "archived",
     !.projection = IF next = "archived" THEN Tombstone(items[m].body.projection) ELSE @]

ApplyLifecycleDecision(t, f, m, next) ==
  /\ Fenced(f)
  /\ items[m] # Absent
  /\ <<items[m].body.life, next>> \in Moves
  /\ AppendRevision(t, [x \in {m} |-> DecidedBody(m, next)], <<>>, TRUE)
  /\ jobs' = IF next = "archived" THEN jobs \cup {[op |-> t, kind |-> "retention"]} ELSE jobs
  /\ UNCHANGED <<heads, drafts, snapshots, decisions>>
  /\ Complete(t, "authority_decision")

-----------------------------------------------------------------------------
(* Branch decisions, on the bindings their memory still admits.            *)
Writable(bind, t) ==
  \A ref \in bind :
    /\ Is(items[ref[1]], "active") /\ items[ref[1]].body.authority = "candidate"
    /\ ~ Expired(items[ref[1]].body.expires, t)

StateOf(c) == drafts[c].revs[Len(drafts[c].revs)].state
OnHead(c) == drafts[c].base = Len(heads[drafts[c].family])

Advance(t, c) ==
  /\ OnHead(c) /\ StateOf(c) = "draft" /\ Writable(drafts[c].bind, t)
  /\ drafts' = [drafts EXCEPT ![c].revs = Append(@, [state |-> "eligible", op |-> t])]
  /\ UNCHANGED <<commits, items, caps, heads, jobs, snapshots, decisions>>
  /\ Complete(t, "authority_decision")

Merge(t, c) ==
  LET f == drafts[c].family IN
  /\ OnHead(c) /\ StateOf(c) = "eligible" /\ Writable(drafts[c].bind, t)
  /\ drafts' = [drafts EXCEPT ![c].revs = Append(@, [state |-> "merged", op |-> t])]
  /\ heads' = [heads EXCEPT ![f] = Append(@, [bind |-> drafts[c].bind, op |-> t])]
  /\ UNCHANGED <<commits, items, caps, jobs, snapshots, decisions>>
  /\ Complete(t, "authority_decision")

Revert(t, f, i) ==
  /\ i \in DOMAIN heads[f] /\ Writable(heads[f][i].bind, t)
  /\ heads' = [heads EXCEPT ![f] = Append(@, [bind |-> heads[f][i].bind, op |-> t])]
  /\ UNCHANGED <<commits, items, caps, drafts, jobs, snapshots, decisions>>
  /\ Complete(t, "authority_decision")

-----------------------------------------------------------------------------
(* create_continuation: the served branch is the authoritative one or an   *)
(* eligible candidate on it, and is compiled with the continuity of the    *)
(* current memory head.                                                    *)
Serviceable(f) ==
  {heads[f][Len(heads[f])].bind} \cup
  {drafts[c].bind : c \in {d \in DOMAIN drafts :
     drafts[d].family = f /\ OnHead(d) /\ StateOf(d) = "eligible"}}

(* The snapshot it is asked about is read with the receipt of its recording. *)
SnapshotOf(f) == {x \in snapshots : x.family = f /\ ReadBack(x.op)}

CreateContinuation(t, f) ==
  /\ heads[f] # <<>> /\ SnapshotOf(f) # {}
  /\ \E bind \in Serviceable(f) :
       /\ Projected(bind \cup ServedContinuity(f, t))
       /\ Materializable(items, caps, bind, t)
       /\ decisions' = decisions \cup
            {[op |-> t, family |-> f, head |-> Len(heads[f]), bind |-> bind, rev |-> HeadRevision,
              candidates |-> Candidates(items, caps, bind, ServedContinuity(f, t), t)]}
  /\ UNCHANGED <<commits, items, caps, heads, drafts, jobs, snapshots>>
  /\ Complete(t, "create_continuation")

-----------------------------------------------------------------------------
(* The decision reader.  It compiles the decision again from the history   *)
(* up to its memory head, and serves a counterfactual from a branch that   *)
(* could have been served instead.                                         *)
Replays(d) ==
  LET row == RowsAt(d.rev)
      capsule == CapsuleRowsAt(d.rev)
  IN  /\ Chain(d.rev) /\ Replayable(d.rev)
      /\ Materializable(row, capsule, d.bind, d.op)
      /\ Candidates(row, capsule, d.bind, ReplayedContinuity(d.family, d.rev), d.op) = d.candidates

Substitutable(d, c) ==
  /\ drafts[c].family = d.family /\ drafts[c].base = d.head
  /\ StateOf(c) = "eligible"
  /\ drafts[c].revs[Len(drafts[c].revs)].op =< d.op

(* The candidate the decision was served from.  Its bindings tell it apart: *)
(* a draft binds the capsules that were recorded with it.                  *)
Served(d, c) ==
  drafts[c].family = d.family /\ drafts[c].base = d.head /\ drafts[c].bind = d.bind

(* What the retrieval and the evaluation, which are modelled elsewhere, may *)
(* answer on candidates a decision was not compiled from.                  *)
Evaluations == {"answered", "over_capacity", "continuity_drift", "not_evaluated"}

(* The answers to a query that substitutes c: the revision that was served, *)
(* which is evaluated again as it was, or the latest one.                  *)
Counterfactual(d, c) ==
  LET row == RowsAt(d.rev)
      capsule == CapsuleRowsAt(d.rev)
      bind == drafts[c].bind
  IN  IF Served(d, c) THEN {"answered"}
      ELSE IF ~ Substitutable(d, c) THEN {"not_serviceable"}
      ELSE IF \E ref \in bind : ~ Bound(ref, capsule) THEN {"corrupt"}
      ELSE IF ~ Materializable(row, capsule, bind, d.op) THEN {"drifted"}
      ELSE Evaluations

-----------------------------------------------------------------------------
(* The guards of the schema on the statements of a transaction.  No row is *)
(* written for an operation that has completed already.                    *)
Completed(t) == t \in DOMAIN log
FencedMemory ==
  /\ \A k \in DOMAIN commits' \ DOMAIN commits : ~ Completed(commits'[k].op)
  /\ \A x \in snapshots' \ snapshots : ~ Completed(x.op)
FencedBranches == \A row \in BranchRows' \ BranchRows : ~ Completed(row.op)

(* A branch binds learning capsules only.                                  *)
BindsLearning(row) ==
  \A ref \in row.bind : caps'[ref[1]][ref[2]].kind \in Learned

(* A draft names the snapshot and the commit of the recording it is drafted *)
(* by, which is the head of the memory.                                    *)
AdmittedDraft(row) ==
  row.rev = 1 /\ row.state = "draft" =>
    /\ \E x \in snapshots' : x.op = row.op
    /\ commits'[Len(commits')].op = row.op

ReceiptsAreKept == \A t \in DOMAIN log : log'[t] = log[t]
SnapshotsAreKept == snapshots \subseteq snapshots'

StatementsAdmitted ==
  /\ HeadAdvances /\ ChainIsKept /\ CapsulesAreKept
  /\ ReceiptsAreKept /\ SnapshotsAreKept
  /\ \A m \in Memories : ItemRowAdvances(m)
  /\ FencedMemory /\ FencedBranches
  /\ \A row \in BranchRows' \ BranchRows : BindsLearning(row) /\ AdmittedDraft(row)

-----------------------------------------------------------------------------
Init ==
  /\ LedgerInit
  /\ heads = [f \in Families |-> <<>>] /\ drafts = <<>>
  /\ jobs = {} /\ snapshots = {} /\ log = <<>> /\ decisions = {} /\ seen = 0

Next ==
  \/ Look
  \/ \E t \in {Now} :
       \/ \E input \in Inputs : RecordObservations(t, input)
       \/ \E f \in Families, m \in Memories, next \in Lives : ApplyLifecycleDecision(t, f, m, next)
       \/ \E c \in DOMAIN drafts : Advance(t, c) \/ Merge(t, c)
       \/ \E f \in Families : \E i \in DOMAIN heads[f] : Revert(t, f, i)
       \/ \E f \in Families : CreateContinuation(t, f)

Spec == Init /\ [][Next]_vars

-----------------------------------------------------------------------------
(* Whatever runs later, the receipt of an operation can be derived again   *)
(* and is the one that was stored: a retry of it is answered as it was     *)
(* answered first, and a snapshot it put can be read by a later decision.  *)
ReceiptsDeriveAgain == \A t \in DOMAIN log : ReadBack(t)

(* The tables are what replaying the whole chain makes of them, so the     *)
(* projection a decision is compiled from is the one an audit finds.       *)
TablesAreReplayed ==
  \A m \in Memories : items[m] = ItemAt(m, HeadRevision) /\ caps[m] = CapsAt(m, HeadRevision)

(* Every row, of whatever age, is one its readers accept, with the commit  *)
(* and the operation it names.                                             *)
RowsAreReadable ==
  /\ LedgerTypeOK
  /\ AuditScope
  /\ \A m \in Memories : /\ items[m] # Absent => ReadableItem(m)
                         /\ \A n \in DOMAIN caps[m] : ReadableCapsule(m, n)

(* What an operation did stands, although later operations overwrite the   *)
(* tables: its receipt follows from them again, and they from the chain.   *)
HistoryHolds == ReceiptsDeriveAgain /\ TablesAreReplayed /\ RowsAreReadable

(* A decision can be read back at any later time: its candidates follow    *)
(* again from the history and the branch it names, although its memories   *)
(* were recorded again, suppressed, archived or expired since.             *)
DecisionsReplay == \A d \in decisions : Replays(d)

(* A branch accepted for a counterfactual is bound to capsules that the    *)
(* history of the decision holds, and its memories fail it for one reason  *)
(* only: that one of them had been recorded again before the decision.     *)
SubstitutesAreReadable ==
  \A d \in decisions : \A c \in DOMAIN drafts :
    /\ "corrupt" \notin Counterfactual(d, c)
    /\ "drifted" \in Counterfactual(d, c) =>
         \E ref \in drafts[c].bind : ref[2] < Len(CapsuleRowsAt(d.rev)[ref[1]])

(* An audit finds every decision again, although the tables have moved on. *)
(* Not every counterfactual it admits is answered: the memory refuses one  *)
(* only for a memory recorded again, and retrieval and evaluation may      *)
(* refuse the rest.                                                        *)
AuditsReplay == DecisionsReplay /\ SubstitutesAreReadable

(* The served branch cannot be compiled only when one of its memories was  *)
(* recorded again since its capsule was: no lifecycle decision, in any     *)
(* order, takes the decisions of a family down.                            *)
OutageIsRerecorded ==
  \A f \in Families : heads[f] # <<>> =>
    LET bind == heads[f][Len(heads[f])].bind IN
      Materializable(items, caps, bind, Now) \/ \E ref \in bind : ref[2] < Len(caps[ref[1]])

(* A lifecycle decision falls on the row the operator looked at.           *)
DecidedAsSeen ==
  \A m \in Memories :
    items'[m] # items[m] /\ Len(log') > Len(log) /\ log'[Len(log')].kind = "authority_decision"
      => items[m] = ItemAt(m, seen)

(* A quarantined or archived memory is never written again.                *)
TerminalStays ==
  \A m \in Memories :
    (Is(items[m], "archived") \/ Is(items[m], "quarantined")) => items'[m] = items[m]

(* What an operator decides falls on what the operator saw; what was       *)
(* withdrawn for good is never written again, not even by a recording; and *)
(* what the code writes the schema admits, so that no operation is rolled  *)
(* back by a guard the code has not asked itself.                          *)
WritesAreLawful == [][DecidedAsSeen /\ TerminalStays /\ StatementsAdmitted]_vars
=============================================================================
