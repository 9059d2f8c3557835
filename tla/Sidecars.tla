------------------------------ MODULE Sidecars ------------------------------
(***************************************************************************)
(* The rebuildable files beside the database: the vector artifacts that    *)
(* embedding workers write, the ANN segments that ann workers build from   *)
(* them, and the retention workers that delete both once a memory is       *)
(* archived.                                                               *)
(*                                                                         *)
(* A file is addressed by its content, so it is named here by what the     *)
(* content is made of: the recording its capsules come from, the memories  *)
(* it covers and the answer of the embedding provider, which may differ    *)
(* from one call to the next.  The two stores follow one protocol: a file  *)
(* appears and disappears by one rename, while a read looks a directory up *)
(* and opens its entries in separate steps.  Temporary and tombstone       *)
(* directories have names no reader opens, so they leave no trace here.    *)
(*                                                                         *)
(* An attempt runs under a lease of its job.  Its signal is aborted before *)
(* the lease ends, but the worker does not wait for the processor, which   *)
(* goes on until it next looks at the signal: such an attempt is late.     *)
(***************************************************************************)
EXTENDS Naturals, Sequences

CONSTANTS
  Memories,
  Batches,     \* recordings that append capsules, one embedding job each
  Of,          \* the memories of a recording, in the order of its capsules
  MaxTries,    \* max_attempts of the jobs of a role
  Decisions,   \* lifecycle decisions an operator may take
  Versions     \* answers an embedding provider may give for one text

Roles == {"embedding", "ann", "retention"}

LifecycleMoves ==
  {<<"active", "suppressed">>, <<"suppressed", "active">>,
   <<"active", "quarantined">>, <<"suppressed", "quarantined">>,
   <<"active", "archived">>, <<"suppressed", "archived">>}

ASSUME SidecarsAssumption ==
  /\ Decisions \subseteq LifecycleMoves
  /\ Of \in [Batches -> Seq(Memories) \ {<<>>}]
  /\ MaxTries \in [Roles -> Nat \ {0}]
  /\ 0 \notin Versions /\ Versions # {}

VARIABLES
  life,        \* memory_items.lifecycle; "absent" before the first recording
  current,     \* the recordings whose projection some memory carries today
  row,         \* durable_jobs: state, attempt_count, why it died
  output,      \* artifact_ref of a succeeded embedding job: its version, or 0
  files,       \* addressable directories of the two stores
  late,        \* history: files published by an attempt without its lease
  run          \* what each attempt is doing

sidecarVars == <<life, current, row, output, files, late, run>>

-----------------------------------------------------------------------------
Embedding(e) == <<"embedding", e>>
Ann(e) == <<"ann", e>>
Retention(m) == <<"retention", m>>

FileJobs == ({"embedding", "ann"} \X Batches) \cup ({"retention"} \X Memories)
Attempts == UNION {{j} \X (1 .. MaxTries[j[1]]) : j \in FileJobs}

Members(e) == {Of[e][i] : i \in DOMAIN Of[e]}

(* vector_artifact_ref_v1 and ann_index_segment_ref_v1.                    *)
Vector(m, e, v) == [store |-> "vector", batch |-> e, of |-> {m}, ver |-> v]
Segment(e, v) == [store |-> "segment", batch |-> e, of |-> Members(e), ver |-> v]

AllFiles ==
  {Vector(m, e, v) : m \in Memories, e \in Batches, v \in Versions}
    \cup {Segment(e, v) : e \in Batches, v \in Versions}

InStore(store) == {f \in files : f.store = store}

NoRun == [pc |-> "idle", at |-> 0, ver |-> 0, store |-> "segment",
          list |-> {}, doomed |-> {}]
Started(pc, ver) == [NoRun EXCEPT !.pc = pc, !.at = 1, !.ver = ver]

(* Where the processor of an attempt stands.  Two steps touch a file.       *)
Touching == {"publish", "unlink"}
Looking == {"source", "embed", "fetch", "opened", "write", "held", "verify",
            "resolve", "list", "scan", "sweep", "complete"}

Held(a) == row[a[1]].state = "leased" /\ row[a[1]].tries = a[2]

-----------------------------------------------------------------------------
(* What a failure of attempt a makes of its job: a retry while tries are   *)
(* left.  The worker of a late attempt no longer holds the row.            *)
RetryOrExhaust(j) ==
  IF row[j].tries < MaxTries[j[1]]
  THEN [row EXCEPT ![j].state = "queued"]
  ELSE [row EXCEPT ![j].state = "dead", ![j].cause = "exhausted"]

Retry(a) == /\ row' = IF Held(a) THEN RetryOrExhaust(a[1]) ELSE row
            /\ run' = [run EXCEPT ![a] = NoRun]

Bury(a, cause) ==
  /\ row' = IF Held(a)
            THEN [row EXCEPT ![a[1]].state = "dead", ![a[1]].cause = cause]
            ELSE row
  /\ run' = [run EXCEPT ![a] = NoRun]

(* A late attempt stops at its next checkSignal.  There is one between any *)
(* two calls that touch a file, and what it only reads tells nobody         *)
(* anything, so it is followed while it is about to touch one.             *)
Enter(a, next) ==
  run' = [run EXCEPT ![a] = IF next.pc \in Looking /\ ~ Held(a) THEN NoRun ELSE next]

Goto(a, pc) == Enter(a, [run[a] EXCEPT !.pc = pc])

(* A file was seen and is gone when its entries are opened: an open that   *)
(* fails is an I/O failure and retried, a missing entry is tampering.      *)
TornRead(a) == Retry(a) \/ Bury(a, "integrity")

Queued == [state |-> "queued", tries |-> 0, cause |-> "none"]

-----------------------------------------------------------------------------
(* recordObservations: the memories are new or active and carry this       *)
(* recording from now on; its capsules are queued for embedding.           *)
Record(e) ==
  /\ row[Embedding(e)].state = "absent"
  /\ \A m \in Members(e) : life[m] \in {"absent", "active"}
  /\ life' = [m \in Memories |-> IF m \in Members(e) THEN "active" ELSE life[m]]
  /\ current' = [m \in Memories |-> IF m \in Members(e) THEN {e} ELSE current[m]]
  /\ row' = [row EXCEPT ![Embedding(e)] = Queued]
  /\ UNCHANGED <<output, files, late, run>>

(* applyLifecycleDecision; an archive enqueues the retention job.          *)
Decide(m, next) ==
  /\ <<life[m], next>> \in Decisions
  /\ life' = [life EXCEPT ![m] = next]
  /\ row' = IF next = "archived"
            THEN [row EXCEPT ![Retention(m)] = Queued] ELSE row
  /\ UNCHANGED <<current, output, files, late, run>>

(* A worker of the role leases job j and hands it to the processor.        *)
FirstStep(j) ==
  CASE j[1] = "embedding" -> Started("source", 0)
    [] j[1] = "ann" -> Started("fetch", output[j[2]])
    [] j[1] = "retention" -> Started("resolve", 0)

Lease(j) ==
  /\ row[j].state = "queued"
  /\ row' = [row EXCEPT ![j].state = "leased", ![j].tries = @ + 1]
  /\ run' = [run EXCEPT ![<<j, row[j].tries + 1>>] = FirstStep(j)]
  /\ UNCHANGED <<life, current, output, files, late>>

(* The deadline of the lease: the worker aborts the signal and reports a   *)
(* retry, or it is dead and the next lease of the role recovers the row.   *)
(* The processor is not waited for.  One that is killed, or whose call     *)
(* ends in an I/O error, takes no more steps: nothing obliges it to.       *)
LeaseEnds(j) ==
  LET a == <<j, row[j].tries>>
  IN  /\ row[j].state = "leased"
      /\ row' = RetryOrExhaust(j)
      /\ run' = IF run[a].pc \in Looking THEN [run EXCEPT ![a] = NoRun] ELSE run
      /\ UNCHANGED <<life, current, output, files, late>>

-----------------------------------------------------------------------------
(* The embedding processor reads its capsules and their memories one at a  *)
(* time: each must still be active with the projection of this recording.  *)
AtNext(a, pc, next) ==
  Enter(a, IF run[a].at = Len(Of[a[1][2]])
           THEN [run[a] EXCEPT !.pc = next, !.at = 1]
           ELSE [run[a] EXCEPT !.pc = pc, !.at = @ + 1])

Serviceable(m, e) == life[m] = "active" /\ current[m] = {e}

ReadSource(a) ==
  LET e == a[1][2]
  IN  /\ run[a].pc = "source"
      /\ IF Serviceable(Of[e][run[a].at], e)
         THEN AtNext(a, "source", "embed") /\ row' = row
         ELSE Bury(a, "not serviceable")
      /\ UNCHANGED <<life, current, output, files, late>>

(* provider.embed: one answer for the batch, an outage, or a refusal.      *)
Embed(a) ==
  /\ run[a].pc = "embed"
  /\ \/ \E v \in Versions :
          run' = [run EXCEPT ![a].pc = "write", ![a].ver = v] /\ row' = row
     \/ Retry(a)
     \/ Bury(a, "provider")
  /\ UNCHANGED <<life, current, output, files, late>>

(* The ann processor reads every vector of the artifact set.               *)
Wanted(a) == Vector(Of[a[1][2]][run[a].at], a[1][2], run[a].ver)

Fetch(a) ==
  /\ run[a].pc = "fetch"
  /\ IF Wanted(a) \in files THEN Goto(a, "opened") /\ row' = row
                            ELSE Bury(a, "missing")
  /\ UNCHANGED <<life, current, output, files, late>>

Fetched(a) ==
  /\ run[a].pc = "opened"
  /\ IF Wanted(a) \in files THEN AtNext(a, "fetch", "write") /\ row' = row
                            ELSE TornRead(a)
  /\ UNCHANGED <<life, current, output, files, late>>

-----------------------------------------------------------------------------
(* write of either store: return what is there, or publish and verify.     *)
Target(a) == IF a[1][1] = "ann" THEN Segment(a[1][2], run[a].ver) ELSE Wanted(a)

Written(a) ==
  IF a[1][1] = "ann" THEN Goto(a, "complete") ELSE AtNext(a, "write", "complete")

Write(a) ==
  /\ run[a].pc = "write"
  /\ Goto(a, IF Target(a) \in files THEN "held" ELSE "publish")
  /\ UNCHANGED <<life, current, row, output, files, late>>

ReadHeld(a) ==
  /\ run[a].pc = "held"
  /\ IF Target(a) \in files THEN Written(a) /\ row' = row ELSE TornRead(a)
  /\ UNCHANGED <<life, current, output, files, late>>

(* The rename; a directory that is there already is left as it is.         *)
Publish(a) ==
  /\ run[a].pc = "publish"
  /\ files' = files \cup {Target(a)}
  /\ late' = IF Target(a) \in files THEN late
             ELSE IF Held(a) THEN late \ {Target(a)} ELSE late \cup {Target(a)}
  /\ Goto(a, "verify")
  /\ UNCHANGED <<life, current, row, output>>

(* A file that is not there after its publication is a conflict.           *)
Verify(a) ==
  /\ run[a].pc = "verify"
  /\ IF Target(a) \in files THEN Written(a) /\ row' = row ELSE TornRead(a)
  /\ UNCHANGED <<life, current, output, files, late>>

-----------------------------------------------------------------------------
(* retention_authority_resolver: the embedding jobs of the memory and the  *)
(* ann jobs of those that succeeded are over, and what they wrote is the   *)
(* plan.  They are read one by one, but none is added once the memory is   *)
(* archived and a finished job stays finished, so one moment stands for    *)
(* all the reads.                                                          *)
Unfinished(j) == row[j].state \in {"queued", "leased"}

(* Seeded fault: only the embedding jobs are waited for.                   *)
PendingEmbedding(m) ==
  \E e \in Batches : m \in Members(e) /\ Unfinished(Embedding(e))

Pending(m) ==
  \E e \in Batches : m \in Members(e) /\ (Unfinished(Embedding(e)) \/ Unfinished(Ann(e)))

(* Seeded fault: the whole artifact set is condemned with one member.      *)
WholeSetPlan(m) ==
  {Vector(x, e, output[e]) : x \in Memories,
     e \in {b \in Batches : m \in Members(b) /\ output[b] # 0}}
    \cup
  {Segment(e, output[e]) :
     e \in {b \in Batches : m \in Members(b) /\ row[Ann(b)].state = "succeeded"}}

Plan(m) ==
  {Vector(m, e, output[e]) : e \in {b \in Batches : m \in Members(b) /\ output[b] # 0}}
    \cup
  {Segment(e, output[e]) :
     e \in {b \in Batches : m \in Members(b) /\ row[Ann(b)].state = "succeeded"}}

Resolve(a) ==
  /\ run[a].pc = "resolve"
  /\ IF Pending(a[1][2]) THEN Retry(a)
     ELSE /\ run' = [run EXCEPT ![a].pc = "list", ![a].doomed = Plan(a[1][2])]
          /\ row' = row
  /\ UNCHANGED <<life, current, output, files, late>>

(* discoverByCapsuleRefs, then discoverByEmbeddingDocumentSha256s: list a  *)
(* store and read every file of it; one that has gone is tampering.        *)
First(set) == CHOOSE f \in set : TRUE   \* in the order of the digests

List(a) ==
  /\ run[a].pc = "list"
  /\ run' = [run EXCEPT ![a].pc = "scan", ![a].list = InStore(run[a].store)]
  /\ UNCHANGED <<life, current, row, output, files, late>>

Scan(a) ==
  /\ run[a].pc = "scan"
  /\ run[a].list # {}
  /\ LET f == First(run[a].list)
     IN  IF f \in files
         THEN /\ run' = [run EXCEPT ![a].list = @ \ {f},
                                   ![a].doomed = IF a[1][2] \in f.of THEN @ \cup {f} ELSE @]
              /\ row' = row
         ELSE TornRead(a)
  /\ UNCHANGED <<life, current, output, files, late>>

(* Seeded fault: the vectors are not discovered.                           *)
ScannedSegmentsOnly(a) ==
  /\ run[a].pc = "scan" /\ run[a].list = {}
  /\ Enter(a, [run[a] EXCEPT !.pc = "sweep", !.store = "segment"])
  /\ UNCHANGED <<life, current, row, output, files, late>>

Scanned(a) ==
  /\ run[a].pc = "scan" /\ run[a].list = {}
  /\ Enter(a, IF run[a].store = "segment"
              THEN [run[a] EXCEPT !.pc = "list", !.store = "vector"]
              ELSE [run[a] EXCEPT !.pc = "sweep", !.store = "segment"])
  /\ UNCHANGED <<life, current, row, output, files, late>>

(* delete of either store, segments first: look, then read and rename.     *)
Left(a) == {f \in run[a].doomed : f.store = run[a].store}

Struck(a) ==
  Enter(a, [run[a] EXCEPT !.pc = "sweep", !.doomed = @ \ {First(Left(a))}])

Sweep(a) ==
  /\ run[a].pc = "sweep" /\ Left(a) # {}
  /\ IF First(Left(a)) \in files THEN Goto(a, "unlink") ELSE Struck(a)
  /\ UNCHANGED <<life, current, row, output, files, late>>

Unlink(a) ==
  /\ run[a].pc = "unlink"
  /\ files' = files \ {First(Left(a))}
  /\ \/ Struck(a) /\ row' = row
     \/ First(Left(a)) \notin files /\ TornRead(a)
  /\ UNCHANGED <<life, current, output, late>>

Swept(a) ==
  /\ run[a].pc = "sweep" /\ Left(a) = {}
  /\ run' = IF run[a].store = "segment" THEN [run EXCEPT ![a].store = "vector"]
                                        ELSE [run EXCEPT ![a].pc = "complete"]
  /\ UNCHANGED <<life, current, row, output, files, late>>

-----------------------------------------------------------------------------
(* The completion transaction; that of an embedding enqueues its ann job.  *)
Complete(a) ==
  LET j == a[1]
      done == [row EXCEPT ![j].state = "succeeded"]
  IN  /\ run[a].pc = "complete"
      /\ row' = IF j[1] = "embedding" THEN [done EXCEPT ![Ann(j[2])] = Queued] ELSE done
      /\ output' = IF j[1] = "embedding" THEN [output EXCEPT ![j[2]] = run[a].ver] ELSE output
      /\ run' = [run EXCEPT ![a] = NoRun]
      /\ UNCHANGED <<life, current, files, late>>

-----------------------------------------------------------------------------
SidecarsInit ==
  /\ life = [m \in Memories |-> "absent"]
  /\ current = [m \in Memories |-> {}]
  /\ row = [j \in FileJobs |-> [Queued EXCEPT !.state = "absent"]]
  /\ output = [e \in Batches |-> 0]
  /\ files = {} /\ late = {}
  /\ run = [a \in Attempts |-> NoRun]

Progress(a) ==
  \/ ReadSource(a) \/ Embed(a) \/ Fetch(a) \/ Fetched(a)
  \/ Write(a) \/ ReadHeld(a) \/ Publish(a) \/ Verify(a)
  \/ Resolve(a) \/ List(a) \/ Scan(a) \/ Scanned(a)
  \/ Sweep(a) \/ Unlink(a) \/ Swept(a) \/ Complete(a)

SidecarsNext ==
  \/ \E e \in Batches : Record(e)
  \/ \E m \in Memories, next \in {"active", "suppressed", "quarantined", "archived"} :
       Decide(m, next)
  \/ \E j \in FileJobs : Lease(j) \/ LeaseEnds(j)
  \/ \E a \in Attempts : Progress(a)

SidecarsSpec == SidecarsInit /\ [][SidecarsNext]_sidecarVars

-----------------------------------------------------------------------------
States == {"absent", "queued", "leased", "succeeded", "dead"}
Causes == {"none", "exhausted", "not serviceable", "provider", "missing", "integrity"}

SidecarsTyped ==
  /\ life \in [Memories -> {"absent", "active", "suppressed", "quarantined", "archived"}]
  /\ current \in [Memories -> SUBSET Batches]
  /\ row \in [FileJobs -> [state : States, tries : Nat, cause : Causes]]
  /\ \A j \in FileJobs : row[j].tries <= MaxTries[j[1]]
  /\ output \in [Batches -> Versions \cup {0}]
  /\ files \subseteq AllFiles /\ late \subseteq AllFiles
  /\ run \in [Attempts -> [pc : Looking \cup Touching \cup {"idle"}, at : Nat,
                           ver : Versions \cup {0}, store : {"segment", "vector"},
                           list : SUBSET AllFiles, doomed : SUBSET AllFiles]]

(* No writer meets the collector: an ann job never finds a vector of its   *)
(* artifact set gone, nor does a write that holds its lease see its file   *)
(* vanish, however archives, retries and late attempts interleave.         *)
WritersUndisturbed ==
  \A e \in Batches :
    /\ row[Ann(e)].cause \in {"none", "exhausted"}
    /\ row[Embedding(e)].cause \notin {"missing", "integrity"}

(* What a finished job answered for stays on disk as long as no memory it  *)
(* covers is archived; a vector covers one memory, a segment all of them.  *)
AnsweredOnDisk ==
  \A e \in Batches :
    /\ row[Embedding(e)].state = "succeeded" =>
         \A m \in Members(e) : life[m] # "archived" => Vector(m, e, output[e]) \in files
    /\ row[Ann(e)].state = "succeeded" /\ (\A m \in Members(e) : life[m] # "archived") =>
         Segment(e, output[e]) \in files

(* When the retention of a memory has succeeded, a file that still covers  *)
(* the memory was published by an attempt that had lost its lease.         *)
LeftoversAreLate ==
  \A m \in Memories :
    row[Retention(m)].state = "succeeded" => {f \in files : m \in f.of} \subseteq late

(* A retention job dies only once its attempts are used up: nothing in     *)
(* this model tampers with a file.                                         *)
RetentionDiesExhausted ==
  \A m \in Memories : row[Retention(m)].cause \in {"none", "exhausted"}
=============================================================================
