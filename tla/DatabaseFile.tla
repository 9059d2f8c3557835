---------------------------- MODULE DatabaseFile ----------------------------
(***************************************************************************)
(* The SQLite file of a data directory and the processes that open it: the *)
(* daemon and the workers start in any order and beside each other, find   *)
(* the path missing and bootstrap it, or find it there, look at it without *)
(* touching it, and then open it.  Any of them may be killed at any step.  *)
(*                                                                         *)
(* A file is known by its inode: files[i] is what inode i holds, main the  *)
(* inode at the path.  The sidecars -wal and -journal are there or not.    *)
(***************************************************************************)
EXTENDS Naturals, Sequences, FiniteSets

CONSTANTS
  Procs,       \* processes started on the data directory
  MaxFaults    \* bound: faults, of every kind together

ASSUME DatabaseFileAssumption == MaxFaults \in Nat /\ IsFiniteSet(Procs)

VARIABLES
  files,       \* inodes: whether the schema and runtime_meta are committed,
               \* and whether the bootstrap was cut off before
  main,        \* the inode at the path, 0 when there is none
  journal,     \* <path>-journal exists
  wal,         \* <path>-wal exists
  at,          \* how far each process is in opening the database
  snap,        \* the artifact identities each process captured
  faults       \* faults so far

fileVars == <<files, main, journal, wal, at, snap, faults>>

Steps == {"down", "missing", "claimed", "building", "committed", "captured", "verified", "open"}
Artifacts == [main |-> main, wal |-> wal, journal |-> journal]
NoArtifacts == [main |-> 0, wal |-> FALSE, journal |-> FALSE]
Connected == {p \in Procs : at[p] = "open"}

FileInit ==
  /\ files = <<>> /\ main = 0 /\ journal = FALSE /\ wal = FALSE
  /\ at = [p \in Procs |-> "down"]
  /\ snap = [p \in Procs |-> NoArtifacts]
  /\ faults = 0

Fault == faults < MaxFaults /\ faults' = faults + 1
Moves(p, step) == at' = [at EXCEPT ![p] = step]
Leaves(p) == Moves(p, "down") /\ snap' = [snap EXCEPT ![p] = NoArtifacts]
Refused(p) == Leaves(p) /\ UNCHANGED <<files, main, journal, wal>>

(* Seeded fault: a file that is there is taken for whole.                  *)
WholeWhenThere(i) == i # 0

(* Exact schema, integrity and runtime_meta: only what a bootstrap         *)
(* committed has them, and it commits all of them at once.                 *)
Whole(i) == i # 0 /\ files[i].ready

Unchanged(p) == Artifacts = snap[p]
NamespaceMissing == main = 0 /\ ~wal /\ ~journal

-----------------------------------------------------------------------------
(* isMissingPath, and the identities of what is there.                     *)
Start(p) ==
  /\ at[p] = "down"
  /\ IF main = 0 THEN Moves(p, "missing") /\ UNCHANGED snap
     ELSE Moves(p, "captured") /\ snap' = [snap EXCEPT ![p] = Artifacts]
  /\ UNCHANGED <<files, main, journal, wal, faults>>

(* The claim is exclusive: a file that is there, even an empty one, is     *)
(* never the input of a bootstrap.                                         *)
Claim(p) ==
  /\ at[p] = "missing"
  /\ \/ /\ NamespaceMissing
        /\ files' = Append(files, [ready |-> FALSE, cut |-> FALSE])
        /\ main' = Len(files) + 1
        /\ snap' = [snap EXCEPT ![p] = [main |-> Len(files) + 1, wal |-> FALSE, journal |-> FALSE]]
        /\ Moves(p, "claimed")
        /\ UNCHANGED <<journal, wal>>
     \/ ~NamespaceMissing /\ Refused(p)
  /\ UNCHANGED faults

BeginBootstrap(p) ==
  /\ at[p] = "claimed"
  /\ \/ main = snap[p].main /\ journal' = TRUE /\ Moves(p, "building") /\ UNCHANGED snap
     \/ main # snap[p].main /\ UNCHANGED journal /\ Leaves(p)
  /\ UNCHANGED <<files, main, wal, faults>>

(* The DDL, runtime_meta and their checks are one exclusive transaction.   *)
CommitBootstrap(p) ==
  /\ at[p] = "building"
  /\ files' = [files EXCEPT ![snap[p].main].ready = TRUE]
  /\ journal' = FALSE
  /\ Moves(p, "committed")
  /\ UNCHANGED <<main, wal, snap, faults>>

EnableWal(p) ==
  /\ at[p] = "committed"
  /\ \/ main = snap[p].main /\ wal' = TRUE /\ Moves(p, "open") /\ UNCHANGED snap
     \/ main # snap[p].main /\ UNCHANGED wal /\ Leaves(p)
  /\ UNCHANGED <<files, main, journal, faults>>

CutOff(p) ==
  IF at[p] \in {"claimed", "building"}
  THEN files' = [files EXCEPT ![snap[p].main].cut = TRUE] ELSE UNCHANGED files

(* The bootstrap throws: it rolls back and keeps its claim.                *)
BootstrapFails(p) ==
  /\ Fault
  /\ at[p] \in {"claimed", "building", "committed"}
  /\ CutOff(p)
  /\ journal' = (journal /\ at[p] # "building")
  /\ Leaves(p)
  /\ UNCHANGED <<main, wal>>

-----------------------------------------------------------------------------
(* With a sidecar there, the file, its WAL and its journal are copied, the *)
(* identities are compared, and the copy is recovered and examined;        *)
(* without one the file is examined where it is, read-only.                *)
Preflight(p) ==
  /\ at[p] = "captured"
  /\ LET copies == snap[p].wal \/ snap[p].journal
     IN  IF (copies => Unchanged(p)) /\ Whole(main)
         THEN Moves(p, "verified") /\ UNCHANGED <<files, main, journal, wal, snap>>
         ELSE Refused(p)
  /\ UNCHANGED faults

(* Another process checkpoints while the file is read or copied: what is   *)
(* examined mixes two states and fails its checks.                         *)
PreflightTorn(p) ==
  /\ Fault
  /\ at[p] = "captured"
  /\ Connected # {}
  /\ Refused(p)

(* Identities again, then the file is opened, compared with what was       *)
(* examined, examined again under a write lock, and set to WAL.            *)
Reopen(p) ==
  /\ at[p] = "verified"
  /\ IF Unchanged(p) /\ Whole(main)
     THEN Moves(p, "open") /\ wal' = TRUE /\ UNCHANGED <<files, main, journal, snap>>
     ELSE Refused(p)
  /\ UNCHANGED faults

Opening(p) ==
  \/ Start(p) \/ Claim(p) \/ BeginBootstrap(p) \/ CommitBootstrap(p) \/ EnableWal(p)
  \/ Preflight(p) \/ Reopen(p)

-----------------------------------------------------------------------------
(* The last connection that closes checkpoints and removes the WAL.        *)
Disconnect(p) ==
  /\ at[p] = "open"
  /\ Leaves(p)
  /\ wal' = (wal /\ Connected # {p})
  /\ UNCHANGED <<files, main, journal>>

(* A killed process leaves every artifact as it is.                        *)
Dies(p) ==
  /\ CutOff(p)
  /\ Leaves(p)
  /\ UNCHANGED <<main, journal, wal>>

(* The operator removes what a bootstrap that was cut off left at the path.*)
(* Nothing in the code does, and no process accepts it as it is.           *)
OperatorClears ==
  /\ main # 0 /\ files[main].cut /\ ~files[main].ready
  /\ main' = 0 /\ journal' = FALSE /\ wal' = FALSE
  /\ UNCHANGED <<files, at, snap, faults>>

FileTypeOK ==
  /\ files \in Seq([ready : BOOLEAN, cut : BOOLEAN])
  /\ main \in 0..Len(files)
  /\ journal \in BOOLEAN /\ wal \in BOOLEAN
  /\ at \in [Procs -> Steps]
  /\ snap \in [Procs -> [main : 0..Len(files), wal : BOOLEAN, journal : BOOLEAN]]
  /\ faults \in 0..MaxFaults
=============================================================================
