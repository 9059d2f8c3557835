-------------------------- MODULE DeploymentProofs --------------------------
(***************************************************************************)
(* Theorems about a deployment for every set of processes and requests and *)
(* every number of faults.                                                 *)
(***************************************************************************)
EXTENDS Deployment, SequenceTheorems, TLAPS

FileRow == [ready : BOOLEAN, cut : BOOLEAN]

(* Who bootstraps has an inode of its own, and has not been cut off.       *)
Holds(p) == at[p] \in {"claimed", "building", "committed"}

HolderInv ==
  \A p \in Procs : Holds(p) =>
    /\ snap[p].main # 0
    /\ ~files[snap[p].main].cut
    /\ files[snap[p].main].ready <=> at[p] = "committed"

ApartInv ==
  \A p, q \in Procs : p # q /\ Holds(p) /\ Holds(q) => snap[p].main # snap[q].main

WholeInv == \A i \in 1 .. Len(files) : ~(files[i].ready /\ files[i].cut)

OpenInv ==
  \A p \in Procs : at[p] = "open" => main # 0 /\ main = snap[p].main /\ files[main].ready

FileInv == FileTypeOK /\ HolderInv /\ ApartInv /\ WholeInv /\ OpenInv

-----------------------------------------------------------------------------
(* Opening, closing and dying, for the file.                               *)
FileTouched == <<files, main, journal, wal, at, snap>>

(* Only the process that moves is moved.                                   *)
Alone(p) == \A q \in Procs \ {p} : at'[q] = at[q] /\ snap'[q] = snap[q]

LEMMA LeavesAlone ==
  ASSUME FileInv, NEW p \in Procs, Leaves(p)
  PROVE  /\ Alone(p) /\ at'[p] = "down" /\ snap'[p] = NoArtifacts
         /\ at' \in [Procs -> Steps]
         /\ snap' \in [Procs -> [main : 0 .. Len(files), wal : BOOLEAN, journal : BOOLEAN]]
  <1>1. NoArtifacts \in [main : 0 .. Len(files), wal : BOOLEAN, journal : BOOLEAN]
    BY DEF NoArtifacts, FileInv, FileTypeOK
  <1> QED
    BY <1>1 DEF FileInv, FileTypeOK, Leaves, Moves, Alone, Steps

(* A step that leaves the file itself as it is.                            *)
LEMMA InPlace ==
  ASSUME FileInv, NEW p \in Procs, Alone(p), files' = files, main' = main, faults' \in 0 .. MaxFaults,
         at' \in [Procs -> Steps],
         snap' \in [Procs -> [main : 0 .. Len(files), wal : BOOLEAN, journal : BOOLEAN]],
         journal' \in BOOLEAN, wal' \in BOOLEAN,
         Holds(p)' => /\ Holds(p) /\ snap'[p] = snap[p]
                      /\ at'[p] = "committed" <=> at[p] = "committed",
         at'[p] = "open" => main # 0 /\ main = snap'[p].main /\ files[main].ready
  PROVE  FileInv'
  <1>1. FileTypeOK'
    BY DEF FileInv, FileTypeOK
  <1>2. \A q \in Procs \ {p} : (Holds(q)' <=> Holds(q)) /\ at'[q] = at[q] /\ snap'[q] = snap[q]
    BY DEF Alone, Holds
  <1>3. HolderInv'
    BY <1>2 DEF FileInv, HolderInv
  <1>4. ApartInv'
    BY <1>2 DEF FileInv, ApartInv
  <1>5. WholeInv' /\ OpenInv'
    BY <1>2 DEF FileInv, WholeInv, OpenInv
  <1> QED
    BY <1>1, <1>3, <1>4, <1>5 DEF FileInv

LEMMA RefusedStep ==
  ASSUME FileInv, NEW p \in Procs, Leaves(p), files' = files, main' = main,
         journal' \in BOOLEAN, wal' \in BOOLEAN, faults' \in 0 .. MaxFaults
  PROVE  FileInv'
  BY LeavesAlone, InPlace DEF Holds

LEMMA StartStep ==
  ASSUME FileInv, NEW p \in Procs, Start(p)
  PROVE  FileInv' /\ Alone(p)
  <1>1. Artifacts \in [main : 0 .. Len(files), wal : BOOLEAN, journal : BOOLEAN]
    BY DEF FileInv, FileTypeOK, Artifacts
  <1>2. /\ Alone(p) /\ at'[p] \in {"missing", "captured"} /\ at' \in [Procs -> Steps]
        /\ snap' \in [Procs -> [main : 0 .. Len(files), wal : BOOLEAN, journal : BOOLEAN]]
    BY <1>1 DEF Start, Moves, Alone, FileInv, FileTypeOK, Steps
  <1>3. /\ files' = files /\ main' = main /\ journal' \in BOOLEAN /\ wal' \in BOOLEAN
        /\ faults' \in 0 .. MaxFaults
    BY DEF Start, FileInv, FileTypeOK
  <1> QED
    BY <1>2, <1>3, InPlace DEF Holds

LEMMA ClaimStep ==
  ASSUME FileInv, NEW p \in Procs, Claim(p)
  PROVE  FileInv' /\ Alone(p)
  <1>1. CASE Refused(p)
    BY <1>1, RefusedStep, LeavesAlone DEF Refused, Claim, FileInv, FileTypeOK
  <1>2. CASE ~Refused(p)
    <2> DEFINE row == [ready |-> FALSE, cut |-> FALSE]
    <2> DEFINE n == Len(files) + 1
    <2> DEFINE mine == [main |-> n, wal |-> FALSE, journal |-> FALSE]
    <2>1. /\ files' = Append(files, row) /\ main' = n /\ snap' = [snap EXCEPT ![p] = mine]
          /\ at' = [at EXCEPT ![p] = "claimed"] /\ main = 0
          /\ journal' = journal /\ wal' = wal /\ faults' = faults
      BY <1>2 DEF Claim, Moves, NamespaceMissing
    <2>2. /\ files \in Seq(FileRow) /\ Len(files) \in Nat /\ n \in Nat /\ n > Len(files)
          /\ at \in [Procs -> Steps] /\ journal \in BOOLEAN /\ wal \in BOOLEAN
          /\ snap \in [Procs -> [main : 0 .. Len(files), wal : BOOLEAN, journal : BOOLEAN]]
      BY DEF FileInv, FileTypeOK, FileRow
    <2>3. row \in FileRow /\ ~row.ready /\ ~row.cut
      BY DEF FileRow
    <2>4. mine \in [main : 0 .. n, wal : BOOLEAN, journal : BOOLEAN] /\ mine.main = n
      BY <2>2
    <2>5. \A q \in Procs : snap[q] \in [main : 0 .. n, wal : BOOLEAN, journal : BOOLEAN]
                             /\ snap[q].main # n
      BY <2>2
    <2> HIDE DEF row, n, mine
    <2>6. /\ files' \in Seq(FileRow) /\ Len(files') = n /\ files'[n] = row
          /\ \A i \in 1 .. Len(files) : files'[i] = files[i]
      BY <2>1, <2>2, <2>3 DEF n
    <2>7. /\ Alone(p) /\ at'[p] = "claimed" /\ snap'[p] = mine /\ at' \in [Procs -> Steps]
          /\ snap' \in [Procs -> [main : 0 .. n, wal : BOOLEAN, journal : BOOLEAN]]
      BY <2>1, <2>2, <2>4, <2>5 DEF Alone, Steps
    <2>8. FileTypeOK'
      BY <2>1, <2>2, <2>6, <2>7 DEF FileTypeOK, FileInv, FileRow
    <2>9. \A q \in Procs \ {p} : /\ Holds(q)' <=> Holds(q)
                                 /\ at'[q] = at[q] /\ snap'[q] = snap[q]
                                 /\ Holds(q) => snap[q].main \in 1 .. Len(files)
      BY <2>2, <2>7 DEF Alone, Holds, FileInv, HolderInv
    <2>10. HolderInv'
      <3> SUFFICES ASSUME NEW q \in Procs, Holds(q)'
                   PROVE  /\ snap'[q].main # 0 /\ ~files'[snap'[q].main].cut
                          /\ files'[snap'[q].main].ready <=> at'[q] = "committed"
        BY DEF HolderInv
      <3>1. CASE q = p
        BY <3>1, <2>2, <2>3, <2>4, <2>6, <2>7
      <3>2. CASE q # p
        BY <3>2, <2>6, <2>9 DEF FileInv, HolderInv
      <3> QED
        BY <3>1, <3>2
    <2>11. ApartInv'
      BY <2>4, <2>5, <2>7, <2>9 DEF ApartInv, FileInv
    <2>12. WholeInv'
      BY <2>2, <2>3, <2>6 DEF WholeInv, FileInv, n
    <2>13. OpenInv'
      BY <2>1, <2>7, <2>9 DEF OpenInv, FileInv
    <2> QED
      BY <2>7, <2>8, <2>10, <2>11, <2>12, <2>13 DEF FileInv
  <1> QED
    BY <1>1, <1>2

LEMMA BeginBootstrapStep ==
  ASSUME FileInv, NEW p \in Procs, BeginBootstrap(p)
  PROVE  FileInv' /\ Alone(p)
  <1>1. files' = files /\ main' = main /\ wal' = wal /\ faults' = faults /\ at[p] = "claimed"
    BY DEF BeginBootstrap
  <1>2. CASE Leaves(p) /\ journal' = journal
    BY <1>1, <1>2, RefusedStep, LeavesAlone DEF FileInv, FileTypeOK
  <1>3. CASE journal' = TRUE /\ Moves(p, "building") /\ UNCHANGED snap
    <2>1. /\ Alone(p) /\ at'[p] = "building" /\ at' \in [Procs -> Steps] /\ snap' = snap
      BY <1>3 DEF Moves, Alone, FileInv, FileTypeOK, Steps
    <2> QED
      BY <1>1, <1>3, <2>1, InPlace DEF Holds, FileInv, FileTypeOK
  <1> QED
    BY <1>2, <1>3 DEF BeginBootstrap

LEMMA CommitBootstrapStep ==
  ASSUME FileInv, NEW p \in Procs, CommitBootstrap(p)
  PROVE  FileInv' /\ Alone(p)
  <1> DEFINE n == snap[p].main
  <1>1. /\ n \in 1 .. Len(files) /\ ~files[n].cut /\ at[p] = "building"
        /\ files \in Seq(FileRow) /\ Len(files) \in Nat
    BY DEF CommitBootstrap, FileInv, FileTypeOK, HolderInv, Holds, FileRow
  <1> DEFINE row == [files[n] EXCEPT !.ready = TRUE]
  <1>2. row \in FileRow /\ row.ready /\ ~row.cut
    <2>1. files[n] \in FileRow
      BY <1>1
    <2> HIDE DEF n
    <2> QED
      BY <1>1, <2>1 DEF FileRow
  <1>3. files' = [files EXCEPT ![n] = row] /\ snap' = snap /\ main' = main
    BY DEF CommitBootstrap
  <1> HIDE DEF row
  <1>4. /\ files' \in Seq(FileRow) /\ Len(files') = Len(files) /\ files'[n] = row
        /\ \A i \in 1 .. Len(files) : i # n => files'[i] = files[i]
    BY <1>1, <1>2, <1>3
  <1>5. /\ at' \in [Procs -> Steps] /\ at'[p] = "committed" /\ Alone(p)
    BY DEF CommitBootstrap, Moves, Alone, FileInv, FileTypeOK, Steps
  <1>6. FileTypeOK'
    BY <1>3, <1>4, <1>5 DEF CommitBootstrap, FileInv, FileTypeOK, FileRow
  <1>7. \A q \in Procs : Holds(q)' <=> Holds(q)
    BY <1>1, <1>5 DEF Holds, Alone
  <1>8. \A q \in Procs \ {p} : Holds(q) => snap[q].main \in 1 .. Len(files) /\ snap[q].main # n
    BY <1>1 DEF FileInv, FileTypeOK, HolderInv, ApartInv, Holds
  <1>9. HolderInv'
    <2> SUFFICES ASSUME NEW q \in Procs, Holds(q)
                 PROVE  /\ snap'[q].main # 0 /\ ~files'[snap'[q].main].cut
                        /\ files'[snap'[q].main].ready <=> at'[q] = "committed"
      BY <1>7 DEF HolderInv
    <2>1. CASE q = p
      BY <2>1, <1>1, <1>2, <1>3, <1>4, <1>5
    <2>2. CASE q # p
      BY <2>2, <1>3, <1>4, <1>5, <1>8 DEF FileInv, HolderInv, Alone
    <2> QED
      BY <2>1, <2>2
  <1>10. ApartInv'
    BY <1>3, <1>7 DEF FileInv, ApartInv
  <1>11. WholeInv'
    BY <1>2, <1>4 DEF FileInv, WholeInv
  <1>12. OpenInv'
    <2> SUFFICES ASSUME NEW q \in Procs, at'[q] = "open"
                 PROVE  main' # 0 /\ main' = snap'[q].main /\ files'[main'].ready
      BY DEF OpenInv
    <2>1. at[q] = "open" /\ main \in 1 .. Len(files)
      BY <1>5 DEF Alone, FileInv, FileTypeOK, OpenInv
    <2> QED
      BY <2>1, <1>2, <1>3, <1>4 DEF FileInv, OpenInv
  <1> QED
    BY <1>5, <1>6, <1>9, <1>10, <1>11, <1>12 DEF FileInv

LEMMA EnableWalStep ==
  ASSUME FileInv, NEW p \in Procs, EnableWal(p)
  PROVE  FileInv' /\ Alone(p)
  <1>1. files' = files /\ main' = main /\ journal' = journal /\ faults' = faults
          /\ at[p] = "committed"
    BY DEF EnableWal
  <1>2. CASE Leaves(p) /\ wal' = wal
    BY <1>1, <1>2, RefusedStep, LeavesAlone DEF FileInv, FileTypeOK
  <1>3. CASE main = snap[p].main /\ wal' = TRUE /\ Moves(p, "open") /\ UNCHANGED snap
    <2>1. /\ Alone(p) /\ at'[p] = "open" /\ at' \in [Procs -> Steps] /\ snap' = snap
      BY <1>3 DEF Moves, Alone, FileInv, FileTypeOK, Steps
    <2>2. main # 0 /\ files[main].ready
      BY <1>1, <1>3 DEF FileInv, HolderInv, Holds
    <2> QED
      BY <1>1, <1>3, <2>1, <2>2, InPlace DEF Holds, FileInv, FileTypeOK
  <1> QED
    BY <1>2, <1>3 DEF EnableWal

LEMMA PreflightStep ==
  ASSUME FileInv, NEW p \in Procs, Preflight(p)
  PROVE  FileInv' /\ Alone(p)
  <1>1. CASE Refused(p)
    BY <1>1, RefusedStep, LeavesAlone DEF Refused, Preflight, FileInv, FileTypeOK
  <1>2. CASE Moves(p, "verified") /\ UNCHANGED <<files, main, journal, wal, snap>>
    <2>1. /\ Alone(p) /\ at'[p] = "verified" /\ at' \in [Procs -> Steps]
      BY <1>2 DEF Moves, Alone, FileInv, FileTypeOK, Steps
    <2> QED
      BY <1>2, <2>1, InPlace DEF Holds, FileInv, FileTypeOK, Preflight
  <1> QED
    BY <1>1, <1>2 DEF Preflight

LEMMA ReopenStep ==
  ASSUME FileInv, NEW p \in Procs, Reopen(p)
  PROVE  FileInv' /\ Alone(p)
  <1>1. CASE Refused(p)
    BY <1>1, RefusedStep, LeavesAlone DEF Refused, Reopen, FileInv, FileTypeOK
  <1>2. CASE /\ Unchanged(p) /\ Whole(main)
             /\ Moves(p, "open") /\ wal' = TRUE /\ UNCHANGED <<files, main, journal, snap>>
    <2>1. /\ Alone(p) /\ at'[p] = "open" /\ at' \in [Procs -> Steps]
      BY <1>2 DEF Moves, Alone, FileInv, FileTypeOK, Steps
    <2>2. main # 0 /\ main = snap[p].main /\ files[main].ready
      BY <1>2 DEF Unchanged, Artifacts, Whole
    <2> QED
      BY <1>2, <2>1, <2>2, InPlace DEF Holds, FileInv, FileTypeOK, Reopen
  <1> QED
    BY <1>1, <1>2 DEF Reopen

LEMMA OpeningStep ==
  ASSUME FileInv, NEW p \in Procs, Opening(p)
  PROVE  FileInv' /\ Alone(p) /\ at[p] # "open"
  BY StartStep, ClaimStep, BeginBootstrapStep, CommitBootstrapStep, EnableWalStep, PreflightStep,
     ReopenStep
  DEF Opening, Start, Claim, BeginBootstrap, CommitBootstrap, EnableWal, Preflight, Reopen

(* Whoever gives up, closes or is killed.                                  *)
LEMMA CutOffStep ==
  ASSUME FileInv, NEW p \in Procs, CutOff(p), Leaves(p), main' = main,
         journal' \in BOOLEAN, wal' \in BOOLEAN, faults' \in 0 .. MaxFaults
  PROVE  FileInv'
  <1>1. CASE files' = files
    BY <1>1, RefusedStep
  <1>2. CASE files' # files
    <2> DEFINE n == snap[p].main
    <2>1. at[p] \in {"claimed", "building"} /\ files' = [files EXCEPT ![snap[p].main].cut = TRUE]
      BY <1>2 DEF CutOff
    <2>2. /\ n \in 1 .. Len(files) /\ ~files[n].cut /\ ~files[n].ready
          /\ files \in Seq(FileRow) /\ Len(files) \in Nat
      BY <2>1 DEF FileInv, FileTypeOK, HolderInv, Holds, FileRow
    <2> DEFINE row == [files[n] EXCEPT !.cut = TRUE]
    <2>3. row \in FileRow /\ ~row.ready /\ row.cut
      <3>1. files[n] \in FileRow
        BY <2>2
      <3> HIDE DEF n
      <3> QED
        BY <2>2, <3>1 DEF FileRow
    <2>4. files' = [files EXCEPT ![n] = row]
      BY <2>1
    <2> HIDE DEF row
    <2>5. /\ files' \in Seq(FileRow) /\ Len(files') = Len(files) /\ files'[n] = row
          /\ \A i \in 1 .. Len(files) : i # n => files'[i] = files[i]
      BY <2>2, <2>3, <2>4
    <2>6. /\ Alone(p) /\ at'[p] = "down" /\ snap'[p] = NoArtifacts
          /\ at' \in [Procs -> Steps]
          /\ snap' \in [Procs -> [main : 0 .. Len(files), wal : BOOLEAN, journal : BOOLEAN]]
      BY LeavesAlone
    <2>7. FileTypeOK'
      BY <2>5, <2>6 DEF FileInv, FileTypeOK, FileRow
    <2>8. \A q \in Procs : Holds(q)' => /\ Holds(q) /\ q # p /\ at'[q] = at[q]
                                        /\ snap'[q] = snap[q]
                                        /\ snap[q].main \in 1 .. Len(files) /\ snap[q].main # n
      BY <2>1, <2>2, <2>6 DEF Holds, Alone, FileInv, FileTypeOK, HolderInv, ApartInv
    <2>9. HolderInv'
      BY <2>5, <2>8 DEF FileInv, HolderInv
    <2>10. ApartInv'
      BY <2>8 DEF FileInv, ApartInv
    <2>11. WholeInv'
      BY <2>3, <2>5 DEF FileInv, WholeInv
    <2>12. OpenInv'
      <3> SUFFICES ASSUME NEW q \in Procs, at'[q] = "open"
                   PROVE  main' # 0 /\ main' = snap'[q].main /\ files'[main'].ready
        BY DEF OpenInv
      <3>1. /\ at[q] = "open" /\ q # p /\ main \in 1 .. Len(files) /\ snap'[q] = snap[q]
            /\ files[main].ready /\ main = snap[q].main
        BY <2>6 DEF Alone, FileInv, FileTypeOK, OpenInv
      <3> QED
        BY <3>1, <2>2, <2>5
    <2> QED
      BY <2>7, <2>9, <2>10, <2>11, <2>12 DEF FileInv
  <1> QED
    BY <1>1, <1>2

LEMMA ClearsStep ==
  ASSUME FileInv, OperatorClears
  PROVE  FileInv' /\ at' = at
  <1>1. FileTypeOK'
    <2>1. files \in Seq([ready : BOOLEAN, cut : BOOLEAN]) /\ Len(files) \in Nat
      BY DEF FileInv, FileTypeOK
    <2>2. 0 \in 0 .. Len(files)
      BY <2>1
    <2> QED
      BY <2>1, <2>2 DEF OperatorClears, FileInv, FileTypeOK
  <1>3. HolderInv' /\ ApartInv' /\ WholeInv'
    BY DEF OperatorClears, FileInv, HolderInv, ApartInv, WholeInv, Holds
  <1>2. \A q \in Procs : at[q] # "open"
    BY DEF OperatorClears, FileInv, OpenInv
  <1> QED
    BY <1>1, <1>2, <1>3 DEF OperatorClears, FileInv, OpenInv

-----------------------------------------------------------------------------
(* Processes.  One that serves or shuts down has its database open until   *)
(* it closes it; one that a deadline found before that never closes it.    *)
ProcTyped ==
  /\ phase \in [Procs -> Phases] /\ result \in [Procs -> Results]
  /\ terminal \in [Procs -> Phases] /\ busy \in [Procs -> BOOLEAN]

Early == {"stop_new_work", "drain_in_flight"}

ProcOk(p) ==
  /\ phase[p] \in {"serving", "stop_new_work", "drain_in_flight", "close_database"} => at[p] = "open"
  /\ terminal[p] \in Early => Settled(p) /\ at[p] = "open"
  /\ terminal[p] \in Early \cup {"off", "close_database"}
  /\ ~Settled(p) => terminal[p] = "off"
  /\ phase[p] \in {"off", "serving"} => ~Settled(p)
  /\ phase[p] \in Early /\ Settled(p) => terminal[p] \in Early
  /\ phase[p] = "close_database" => terminal[p] \in {"off", "close_database"}

ProcInv == \A p \in Procs : ProcOk(p)

(* Requests being handled.                                                 *)
CallTyped ==
  /\ tasks \subseteq [request : Requests, attempt : Nat, stage : Stages]
  /\ waiting \in [Requests -> Nat] /\ sent \in [Requests -> Nat]
  /\ got \in [Requests -> [status : {0, 200, 409}, effect : Nat]]

TaskInv ==
  /\ \A t \in tasks : t.attempt # 0
  /\ phase[Daemon] = "off" => tasks = {}
  /\ \A t \in tasks : t.stage \in {"queued", "reading"} => at[Daemon] = "open"
  /\ \A t \in tasks : Held(t) => ~Sealed(Daemon)

(* The ledger and the receipts name each other.                            *)
LedgerInv ==
  /\ ledger \in Seq(Requests) /\ DOMAIN receipts \subseteq Operations
  /\ \A o \in DOMAIN receipts :
       /\ receipts[o].effect \in 1 .. Len(ledger)
       /\ ledger[receipts[o].effect].op = o
       /\ ledger[receipts[o].effect].body = receipts[o].body
  /\ \A i \in 1 .. Len(ledger) :
       ledger[i].op \in DOMAIN receipts /\ receipts[ledger[i].op].effect = i

Backed(r, answer) ==
  /\ answer.status = 200 => answer.effect \in 1 .. Len(ledger) /\ ledger[answer.effect] = r
  /\ answer = Conflict =>
       \E i \in 1 .. Len(ledger) : ledger[i].op = r.op /\ ledger[i].body # r.body

GotInv == \A r \in Requests : Backed(r, got[r])

IInv == FileInv /\ ProcTyped /\ ProcInv /\ CallTyped /\ TaskInv /\ LedgerInv /\ GotInv

-----------------------------------------------------------------------------
(* A step of one process that leaves requests and data alone.              *)
OnlyProc(p) ==
  /\ Alone(p) /\ ProcTyped'
  /\ \A q \in Procs \ {p} :
       phase'[q] = phase[q] /\ result'[q] = result[q] /\ terminal'[q] = terminal[q]

LEMMA ProcsStay ==
  ASSUME IInv, NEW p \in Procs, OnlyProc(p), ProcOk(p)'
  PROVE  ProcInv'
  <1> SUFFICES ASSUME NEW q \in Procs, q # p
               PROVE  ProcOk(q)'
    BY DEF ProcInv
  <1>1. /\ phase'[q] = phase[q] /\ result'[q] = result[q] /\ terminal'[q] = terminal[q]
        /\ at'[q] = at[q] /\ ProcOk(q)
    BY DEF OnlyProc, Alone, IInv, ProcInv
  <1> QED
    BY <1>1 DEF ProcOk, Settled

LEMMA ProcStep ==
  ASSUME IInv, NEW p \in Procs, FileInv', OnlyProc(p), ProcOk(p)',
         UNCHANGED <<callVars, dataVars>>,
         phase'[p] = "off" => phase[p] = "off",
         at[p] = "open" /\ at'[p] # "open" => Quiet(p),
         Sealed(p)' => Sealed(p) \/ Drained(p)
  PROVE  IInv'
  <1>1. ProcTyped' /\ ProcInv'
    BY ProcsStay DEF OnlyProc
  <1>2. CallTyped' /\ LedgerInv' /\ GotInv'
    BY DEF callVars, dataVars, IInv, CallTyped, LedgerInv, GotInv, Backed
  <1>3. TaskInv'
    <2>1. tasks' = tasks /\ waiting' = waiting /\ TaskInv /\ Daemon \in Procs
      BY DeploymentAssumption DEF callVars, IInv
    <2>2. CASE p = Daemon
      BY <2>1, <2>2 DEF TaskInv, Quiet, Drained, Held
    <2>3. CASE p # Daemon
      <3>1. /\ phase'[Daemon] = phase[Daemon] /\ terminal'[Daemon] = terminal[Daemon]
            /\ at'[Daemon] = at[Daemon]
        BY <2>1, <2>3 DEF OnlyProc, Alone
      <3> QED
        BY <2>1, <3>1 DEF TaskInv, Held, Sealed
    <2> QED
      BY <2>2, <2>3
  <1> QED
    BY <1>1, <1>2, <1>3 DEF IInv

(* The same, when only the opening of the database moves on.               *)
LEMMA StartingStep ==
  ASSUME IInv, NEW p \in Procs, FileInv', Alone(p), phase[p] = "off",
         UNCHANGED <<procVars, callVars, dataVars>>
  PROVE  IInv'
  <1>1. OnlyProc(p) /\ phase' = phase /\ terminal' = terminal /\ result' = result
    BY DEF OnlyProc, procVars, IInv, ProcTyped
  <1>2. ProcOk(p)'
    BY <1>1 DEF ProcOk, Settled, IInv, ProcInv, Early
  <1>3. Quiet(p) /\ (Sealed(p)' => Sealed(p))
    BY <1>1 DEF Quiet, IInv, TaskInv, Sealed
  <1> QED
    BY <1>1, <1>2, <1>3, ProcStep

LEMMA FaultCounted ==
  ASSUME IInv, Fault \/ faults' = faults
  PROVE  faults' \in 0 .. MaxFaults
  BY DatabaseFileAssumption DEF Fault, IInv, FileInv, FileTypeOK

LEMMA OpenStep ==
  ASSUME IInv, NEW p \in Procs, Open(p)
  PROVE  IInv'
  BY OpeningStep, StartingStep DEF Open, IInv

LEMMA ListenFailsStep ==
  ASSUME IInv, NEW p \in Procs, ListenFails(p)
  PROVE  IInv'
  <1>1. /\ Leaves(p) /\ files' = files /\ main' = main /\ journal' = journal
        /\ wal' \in BOOLEAN /\ faults' \in 0 .. MaxFaults
    BY DatabaseFileAssumption DEF ListenFails, Disconnect, Fault, IInv, FileInv, FileTypeOK
  <1>2. FileInv' /\ Alone(p)
    BY <1>1, RefusedStep, LeavesAlone DEF IInv, FileInv, FileTypeOK
  <1> QED
    BY <1>2, StartingStep DEF ListenFails

LEMMA StartFailsStep ==
  ASSUME IInv, NEW p \in Procs, StartFails(p)
  PROVE  IInv'
  <1>1. CutOff(p) \/ files' = files
    BY DEF StartFails, BootstrapFails, PreflightTorn, Refused
  <1>2. /\ Leaves(p) /\ main' = main /\ wal' = wal /\ wal \in BOOLEAN
        /\ journal' = journal \/ journal' = (journal /\ at[p] # "building")
        /\ journal \in BOOLEAN /\ Fault
    BY DEF StartFails, BootstrapFails, PreflightTorn, Refused, IInv, FileInv, FileTypeOK
  <1>4. journal' \in BOOLEAN
    BY <1>2
  <1>5. faults' \in 0 .. MaxFaults
    BY <1>2, FaultCounted
  <1>3. FileInv' /\ Alone(p)
    BY <1>1, <1>2, <1>4, <1>5, CutOffStep, RefusedStep, LeavesAlone DEF IInv
  <1> QED
    BY <1>3, StartingStep DEF StartFails

(* A phase of the shutdown, or a batch: nothing happens to the file.       *)
LEMMA FileUntouched ==
  ASSUME IInv, NEW p \in Procs, UNCHANGED <<files, main, journal, wal, at, snap>>,
         faults' \in 0 .. MaxFaults
  PROVE  FileInv' /\ Alone(p)
  BY DEF IInv, FileInv, FileTypeOK, HolderInv, ApartInv, WholeInv, OpenInv, Holds, Alone

LEMMA EntersStep ==
  ASSUME IInv, NEW p \in Procs, NEW next \in Phases \ {"off"}, Enters(p, next),
         UNCHANGED <<files, main, journal, wal, at, snap>>, Fault \/ faults' = faults,
         UNCHANGED <<result, terminal, busy, callVars, dataVars>>, at[p] = "open",
         next = "serving" => phase[p] \in {"off", "serving"},
         next \in Early => phase[p] \in Early \/ ~Settled(p),
         next = "close_database" => ~Settled(p) /\ Drained(p),
         next = "left" => terminal[p] \in Early
  PROVE  IInv'
  <1>1. FileInv' /\ Alone(p) /\ at' = at
    BY FaultCounted, FileUntouched
  <1>2. /\ phase' \in [Procs -> Phases] /\ phase'[p] = next
        /\ \A q \in Procs \ {p} : phase'[q] = phase[q]
    BY DEF Enters, IInv, ProcTyped
  <1>3. OnlyProc(p)
    BY <1>1, <1>2 DEF OnlyProc, ProcTyped, IInv
  <1>4. ProcOk(p) /\ result'[p] = result[p] /\ terminal'[p] = terminal[p]
    BY DEF IInv, ProcInv
  <1>5. ProcOk(p)'
    BY <1>1, <1>2, <1>4 DEF ProcOk, Settled, Early
  <1>6. Sealed(p)' => Drained(p)
    BY <1>2, <1>4 DEF Sealed, Early
  <1> QED
    BY <1>1, <1>2, <1>3, <1>5, <1>6, ProcStep

LEMMA ListenStep ==
  ASSUME IInv, NEW p \in Procs, Listen(p)
  PROVE  IInv'
  BY EntersStep DEF Listen, fileVars, Phases, Early

LEMMA SignalStep ==
  ASSUME IInv, NEW p \in Procs, Signal(p)
  PROVE  IInv'
  <1>1. ~Settled(p) /\ at[p] = "open"
    BY DEF Signal, IInv, ProcInv, ProcOk
  <1> QED
    BY <1>1, EntersStep DEF Signal, Phases, Early

LEMMA PhasesStep ==
  ASSUME IInv, NEW p \in Procs, StopNewWork(p) \/ DrainInFlight(p)
  PROVE  IInv'
  <1>1. /\ phase[p] \in Early /\ at[p] = "open"
        /\ UNCHANGED <<files, main, journal, wal, at, snap, faults>>
        /\ UNCHANGED <<result, terminal, busy, callVars, dataVars>>
        /\ Settled(p) => terminal[p] \in Early
    BY DEF StopNewWork, DrainInFlight, Early, fileVars, IInv, ProcInv, ProcOk
  <1>2. CASE Settled(p)
    BY <1>1, <1>2, EntersStep DEF StopNewWork, DrainInFlight, PhaseAfter, Phases, Early
  <1>3. CASE ~Settled(p)
    BY <1>1, <1>3, EntersStep DEF StopNewWork, DrainInFlight, PhaseAfter, Phases, Early
  <1> QED
    BY <1>2, <1>3

LEMMA BatchStep ==
  ASSUME IInv, NEW p \in Procs, TakeBatch(p) \/ EndBatch(p)
  PROVE  IInv'
  <1>1. /\ UNCHANGED <<files, main, journal, wal, at, snap, faults>>
        /\ UNCHANGED <<phase, result, terminal, callVars, dataVars>>
        /\ busy' \in [Procs -> BOOLEAN]
    BY DEF TakeBatch, EndBatch, fileVars, IInv, ProcTyped
  <1>2. FileInv' /\ Alone(p)
    BY <1>1, FaultCounted, FileUntouched
  <1>3. OnlyProc(p)
    BY <1>1, <1>2 DEF OnlyProc, ProcTyped, IInv
  <1>4. ProcOk(p)' /\ (Sealed(p)' => Sealed(p))
    BY <1>1 DEF IInv, ProcInv, ProcOk, Settled, Sealed
  <1> QED
    BY <1>1, <1>2, <1>3, <1>4, ProcStep

LEMMA SettlesRow ==
  ASSUME ProcTyped, NEW p \in Procs, NEW status \in Results \ {"none"}, Settles(p, status)
  PROVE  /\ result' \in [Procs -> Results] /\ result'[p] # "none"
         /\ \A q \in Procs \ {p} : result'[q] = result[q]
  <1>1. PICK value : value = IF result[p] = "none" THEN status ELSE result[p]
    OBVIOUS
  <1>2. value \in Results /\ value # "none"
    BY <1>1 DEF ProcTyped
  <1>3. result' = [result EXCEPT ![p] = value] /\ result \in [Procs -> Results]
    BY <1>1 DEF Settles, ProcTyped
  <1> QED
    BY <1>2, <1>3

LEMMA ClosedStep ==
  ASSUME IInv, NEW p \in Procs, CloseDatabase(p) \/ CloseFails(p)
  PROVE  IInv'
  <1>1. /\ phase[p] = "close_database" /\ Quiet(p) /\ Disconnect(p) /\ Enters(p, "left")
        /\ UNCHANGED <<terminal, busy, callVars, dataVars>> /\ (Fault \/ faults' = faults)
    BY DEF CloseDatabase, CloseFails
  <1>2. PICK status \in Results \ {"none"} : Settles(p, status)
    BY DEF CloseDatabase, CloseFails, Results
  <1>3. /\ result' \in [Procs -> Results] /\ result'[p] # "none"
        /\ \A q \in Procs \ {p} : result'[q] = result[q]
    BY <1>2, SettlesRow DEF IInv
  <1>4. /\ Leaves(p) /\ files' = files /\ main' = main /\ journal' = journal
        /\ wal' \in BOOLEAN /\ faults' \in 0 .. MaxFaults
    BY <1>1, FaultCounted DEF Disconnect, IInv, FileInv, FileTypeOK
  <1>5. FileInv' /\ Alone(p)
    BY <1>4, RefusedStep, LeavesAlone DEF IInv, FileInv, FileTypeOK
  <1>6. /\ phase' \in [Procs -> Phases] /\ phase'[p] = "left"
        /\ \A q \in Procs \ {p} : phase'[q] = phase[q]
    BY <1>1 DEF Enters, IInv, ProcTyped, Phases
  <1>7. OnlyProc(p)
    BY <1>1, <1>3, <1>5, <1>6 DEF OnlyProc, ProcTyped, IInv
  <1>8. terminal[p] \in {"off", "close_database"} /\ terminal'[p] = terminal[p]
    BY <1>1 DEF IInv, ProcInv, ProcOk
  <1>9. ProcOk(p)'
    BY <1>3, <1>6, <1>8 DEF ProcOk, Settled, Early
  <1>10. Sealed(p)
    BY <1>1, <1>8 DEF Sealed
  <1> QED
    BY <1>1, <1>5, <1>6, <1>7, <1>9, <1>10, ProcStep

LEMMA DeadlineStep ==
  ASSUME IInv, NEW p \in Procs, Deadline(p)
  PROVE  IInv'
  <1>1. /\ ~Settled(p) /\ Requested(p) /\ ProcOk(p)
        /\ UNCHANGED <<files, main, journal, wal, at, snap, faults, phase, busy>>
        /\ UNCHANGED <<callVars, dataVars>>
    BY DEF Deadline, Armed, fileVars, IInv, ProcInv
  <1>2. /\ result' \in [Procs -> Results] /\ result'[p] # "none"
        /\ \A q \in Procs \ {p} : result'[q] = result[q]
    BY SettlesRow DEF IInv, Deadline, Results
  <1>3. /\ terminal' \in [Procs -> Phases] /\ terminal'[p] = phase[p]
        /\ \A q \in Procs \ {p} : terminal'[q] = terminal[q]
    BY DEF Deadline, IInv, ProcTyped
  <1>4. FileInv' /\ Alone(p)
    BY <1>1, FaultCounted, FileUntouched
  <1>5. OnlyProc(p)
    BY <1>1, <1>2, <1>3, <1>4 DEF OnlyProc, ProcTyped, IInv
  <1>6. ProcOk(p)'
    BY <1>1, <1>2, <1>3 DEF ProcOk, Settled, Early, Requested
  <1>7. Sealed(p)' => Sealed(p)
    BY <1>1, <1>3 DEF Sealed, ProcOk, Requested
  <1> QED
    BY <1>1, <1>4, <1>5, <1>6, <1>7, ProcStep

(* A process that is gone takes its requests along.                        *)
LEMMA GoneStep ==
  ASSUME IInv, NEW p \in Procs, Gone(p), Fault \/ faults' = faults
  PROVE  IInv'
  <1>1. /\ CutOff(p) /\ Leaves(p) /\ main' = main /\ journal' = journal /\ wal' = wal
        /\ sent' = sent /\ got' = got /\ UNCHANGED dataVars
    BY DEF Gone, Dies
  <1>2. FileInv' /\ Alone(p) /\ at'[p] = "down"
    BY <1>1, FaultCounted, CutOffStep, LeavesAlone DEF IInv, FileInv, FileTypeOK
  <1>3. /\ phase'[p] = "off" /\ result'[p] = "none" /\ terminal'[p] = "off" /\ ProcTyped'
        /\ \A q \in Procs \ {p} :
             phase'[q] = phase[q] /\ result'[q] = result[q] /\ terminal'[q] = terminal[q]
    BY DEF Gone, Enters, IInv, ProcTyped, Phases, Results
  <1>4. OnlyProc(p)
    BY <1>2, <1>3 DEF OnlyProc
  <1>5. ProcOk(p)'
    BY <1>2, <1>3 DEF ProcOk, Settled, Early
  <1>6. ProcInv'
    BY <1>4, <1>5, ProcsStay
  <1>7. CallTyped' /\ TaskInv'
    <2>1. CASE p = Daemon
      <3>1. tasks' = {} /\ waiting' = [r \in Requests |-> 0]
        BY <2>1 DEF Gone
      <3> QED
        BY <3>1, <1>1 DEF IInv, CallTyped, TaskInv
    <2>2. CASE p # Daemon
      <3>1. /\ tasks' = tasks /\ waiting' = waiting /\ phase'[Daemon] = phase[Daemon]
            /\ terminal'[Daemon] = terminal[Daemon] /\ at'[Daemon] = at[Daemon]
        BY <2>2, <1>2, <1>3, DeploymentAssumption DEF Gone, Alone
      <3> QED
        BY <3>1, <1>1 DEF IInv, CallTyped, TaskInv, Held, Sealed
    <2> QED
      BY <2>1, <2>2
  <1>8. LedgerInv' /\ GotInv'
    BY <1>1 DEF dataVars, IInv, LedgerInv, GotInv, Backed
  <1> QED
    BY <1>2, <1>3, <1>6, <1>7, <1>8 DEF IInv

-----------------------------------------------------------------------------
(* Requests.                                                               *)
LEMMA CallStep ==
  ASSUME IInv, UNCHANGED <<files, main, journal, wal, at, snap>>, Fault \/ faults' = faults,
         UNCHANGED procVars, CallTyped', TaskInv', LedgerInv', GotInv'
  PROVE  IInv'
  <1>1. FileInv'
    BY FaultCounted, FileUntouched, DeploymentAssumption
  <1>2. ProcTyped' /\ ProcInv'
    BY DEF procVars, IInv, ProcTyped, ProcInv, ProcOk, Settled
  <1> QED
    BY <1>1, <1>2 DEF IInv

LEMMA DataStays ==
  ASSUME IInv, UNCHANGED dataVars, NEW t, t.request \in Requests,
         \A r \in Requests : got'[r] = got[r] \/ (r = t.request /\ Backed(r, got'[r]))
  PROVE  LedgerInv' /\ GotInv'
  <1>1. LedgerInv'
    BY DEF dataVars, IInv, LedgerInv
  <1>2. GotInv'
    BY DEF dataVars, IInv, GotInv, Backed
  <1> QED
    BY <1>1, <1>2

LEMMA SendStep ==
  ASSUME IInv, NEW r \in Requests, Send(r)
  PROVE  IInv'
  <1> DEFINE t == [request |-> r, attempt |-> sent[r] + 1, stage |-> "accepted"]
  <1>1. /\ tasks' = tasks \cup {t} /\ phase[Daemon] = "serving" /\ sent[r] \in Nat
        /\ got' = got /\ UNCHANGED <<fileVars, procVars, dataVars>>
    BY DEF Send, IInv, CallTyped
  <1>2. CallTyped'
    BY <1>1 DEF Send, IInv, CallTyped, Stages
  <1>3. TaskInv'
    BY <1>1 DEF IInv, TaskInv, fileVars, procVars, Sealed
  <1>4. LedgerInv' /\ GotInv'
    BY <1>1 DEF dataVars, IInv, LedgerInv, GotInv, Backed
  <1> QED
    BY <1>1, <1>2, <1>3, <1>4, CallStep DEF fileVars

LEMMA GivesUpStep ==
  ASSUME IInv, NEW r \in Requests, GivesUp(r)
  PROVE  IInv'
  <1>1. /\ tasks' = tasks /\ sent' = sent /\ got' = got /\ waiting' = [waiting EXCEPT ![r] = 0]
        /\ UNCHANGED <<procVars, dataVars, files, main, journal, wal, at, snap>> /\ Fault
    BY DEF GivesUp
  <1>2. CallTyped'
    BY <1>1 DEF IInv, CallTyped
  <1>3. \A t \in tasks : Held(t)' => Held(t)
    <2> SUFFICES ASSUME NEW t \in tasks, waiting'[t.request] = t.attempt
                 PROVE  waiting[t.request] = t.attempt
      BY DEF Held
    <2>1. t.request \in Requests /\ t.attempt # 0
      BY DEF IInv, CallTyped, TaskInv
    <2> QED
      BY <2>1, <1>1 DEF IInv, CallTyped
  <1>4. TaskInv'
    BY <1>1, <1>3 DEF IInv, TaskInv, procVars, Sealed
  <1>5. LedgerInv' /\ GotInv'
    BY <1>1 DEF dataVars, IInv, LedgerInv, GotInv, Backed
  <1> QED
    BY <1>1, <1>2, <1>4, <1>5, CallStep

(* Who handles a request is in a process that runs.                        *)
LEMMA Unsealed ==
  ASSUME IInv, NEW t \in tasks, ~Sealed(Daemon)
  PROVE  at[Daemon] = "open"
  <1>1. ProcOk(Daemon) /\ phase[Daemon] \in Phases /\ phase[Daemon] # "off"
    BY DeploymentAssumption DEF IInv, ProcInv, ProcTyped, TaskInv
  <1> QED
    BY <1>1 DEF ProcOk, Sealed, Phases, Early

LEMMA BecomesTask ==
  ASSUME IInv, NEW t \in tasks, NEW stage \in Stages, Becomes(t, stage),
         UNCHANGED <<waiting, sent, got, at, procVars>>,
         stage \in {"queued", "reading"} => at[Daemon] = "open"
  PROVE  CallTyped' /\ TaskInv'
  <1> DEFINE u == At(t, stage)
  <1>1. /\ u \in [request : Requests, attempt : Nat, stage : Stages]
        /\ u.request = t.request /\ u.attempt = t.attempt /\ u.stage = stage
    BY DEF IInv, CallTyped, At
  <1>2. tasks' = (tasks \ {t}) \cup {u}
    BY DEF Becomes
  <1> HIDE DEF u
  <1>3. CallTyped'
    BY <1>1, <1>2 DEF IInv, CallTyped
  <1>4. TaskInv'
    BY <1>1, <1>2 DEF IInv, TaskInv, Held, Sealed, procVars
  <1> QED
    BY <1>3, <1>4

AnswerSet == [status : {0, 200, 409}, effect : Nat]

LEMMA AnswersTask ==
  ASSUME IInv, NEW t \in tasks, NEW answer \in AnswerSet, Answers(t, answer),
         UNCHANGED <<at, procVars>>
  PROVE  /\ CallTyped' /\ TaskInv' /\ t.request \in Requests
         /\ \A r \in Requests : got'[r] = got[r] \/ (r = t.request /\ got'[r] = answer)
  <1>1. /\ t.request \in Requests /\ t.attempt \in Nat /\ t.attempt # 0 /\ tasks' = tasks \ {t}
        /\ waiting \in [Requests -> Nat] /\ got \in [Requests -> AnswerSet] /\ sent' = sent
    BY DEF IInv, CallTyped, TaskInv, Answers, Done, AnswerSet
  <1>2. /\ waiting' \in [Requests -> Nat]
        /\ \A r \in Requests : waiting'[r] = waiting[r] \/ waiting'[r] = 0
    BY <1>1 DEF Answers
  <1>3. /\ got' \in [Requests -> AnswerSet]
        /\ \A r \in Requests : got'[r] = got[r] \/ (r = t.request /\ got'[r] = answer)
    BY <1>1 DEF Answers
  <1>4. CallTyped'
    BY <1>1, <1>2, <1>3 DEF IInv, CallTyped, AnswerSet
  <1>5. \A u \in tasks : Held(u)' => Held(u)
    <2> SUFFICES ASSUME NEW u \in tasks, waiting'[u.request] = u.attempt
                 PROVE  waiting[u.request] = u.attempt
      BY DEF Held
    <2>1. u.request \in Requests /\ u.attempt # 0
      BY DEF IInv, CallTyped, TaskInv
    <2> QED
      BY <2>1, <1>2
  <1>6. TaskInv'
    BY <1>1, <1>5 DEF IInv, TaskInv, procVars, Sealed
  <1> QED
    BY <1>1, <1>3, <1>4, <1>6

(* Being sent away is always backed.                                       *)
LEMMA NoAnswer ==
  ASSUME NEW r
  PROVE  Unanswered \in AnswerSet /\ Backed(r, Unanswered) /\ Conflict \in AnswerSet
           /\ Conflict.status # 200
  BY DEF Unanswered, Conflict, Answer, AnswerSet, Backed

LEMMA EnqueueStep ==
  ASSUME IInv, NEW t \in tasks, EnqueueOperation(t) \/ EnqueueRead(t)
  PROVE  IInv'
  <1>1. UNCHANGED <<fileVars, procVars, dataVars>>
    BY DEF EnqueueOperation, EnqueueRead, Enqueues
  <1>2. CASE ~Sealed(Daemon)
    <2>1. PICK stage \in Stages : Becomes(t, stage) /\ UNCHANGED <<waiting, sent, got>>
      BY <1>2 DEF EnqueueOperation, EnqueueRead, Enqueues, Stages
    <2>2. CallTyped' /\ TaskInv'
      BY <2>1, <1>1, <1>2, Unsealed, BecomesTask DEF fileVars
    <2>3. LedgerInv' /\ GotInv'
      BY <2>1, <1>1 DEF dataVars, IInv, LedgerInv, GotInv, Backed
    <2> QED
      BY <2>2, <2>3, <1>1, CallStep DEF fileVars
  <1>3. CASE Answers(t, Unanswered)
    <2>1. /\ CallTyped' /\ TaskInv' /\ t.request \in Requests
          /\ \A r \in Requests : got'[r] = got[r] \/ (r = t.request /\ got'[r] = Unanswered)
      BY <1>1, <1>3, AnswersTask, NoAnswer DEF fileVars
    <2>2. LedgerInv' /\ GotInv'
      BY <2>1, <1>1, DataStays, NoAnswer
    <2> QED
      BY <2>1, <2>2, <1>1, CallStep DEF fileVars
  <1> QED
    BY <1>2, <1>3 DEF EnqueueOperation, EnqueueRead, Enqueues

(* What a receipt stands for.                                              *)
LEMMA ReceiptStands ==
  ASSUME IInv, NEW r \in Requests, Stored(r.op)
  PROVE  /\ receipts[r.op].effect \in 1 .. Len(ledger)
         /\ ledger[receipts[r.op].effect] \in Requests
         /\ ledger[receipts[r.op].effect].op = r.op
         /\ ledger[receipts[r.op].effect].body = receipts[r.op].body
         /\ receipts[r.op].body = r.body => ledger[receipts[r.op].effect] = r
  <1>1. /\ receipts[r.op].effect \in 1 .. Len(ledger)
        /\ ledger[receipts[r.op].effect].op = r.op
        /\ ledger[receipts[r.op].effect].body = receipts[r.op].body
    BY DEF IInv, LedgerInv, Stored
  <1>2. PICK l : l = ledger[receipts[r.op].effect]
    OBVIOUS
  <1>3. l \in Requests
    BY <1>1, <1>2 DEF IInv, LedgerInv
  <1>4. l = [op |-> l.op, body |-> l.body] /\ r = [op |-> r.op, body |-> r.body]
    BY <1>3, DeploymentAssumption
  <1>5. l.op = r.op /\ l.body = receipts[r.op].body
    BY <1>1, <1>2
  <1> QED
    BY <1>1, <1>2, <1>3, <1>4, <1>5

LEMMA ReadStep ==
  ASSUME IInv, NEW t \in tasks, ReadOperation(t)
  PROVE  IInv'
  <1>1. t.request \in Requests /\ UNCHANGED <<fileVars, procVars, dataVars>>
    BY DEF IInv, CallTyped, ReadOperation
  <1>2. PICK answer \in AnswerSet : Answers(t, answer) /\ Backed(t.request, answer)
    <2>1. CASE Stored(t.request.op) /\ SameRequest(t)
      <3> DEFINE e == receipts[t.request.op].effect
      <3>1. e \in 1 .. Len(ledger) /\ ledger[e] = t.request /\ Len(ledger) \in Nat
        BY <1>1, <2>1, ReceiptStands DEF SameRequest, IInv, LedgerInv
      <3>2. Answer(200, e) \in AnswerSet /\ Answer(200, e).status = 200 /\ Answer(200, e).effect = e
        BY <3>1 DEF Answer, AnswerSet
      <3>3. Conflict.status = 409
        BY DEF Conflict, Answer
      <3>4. Backed(t.request, Answer(200, e))
        BY <3>1, <3>2, <3>3 DEF Backed
      <3> QED
        BY <2>1, <3>2, <3>4 DEF ReadOperation
    <2>2. CASE ~(Stored(t.request.op) /\ SameRequest(t))
      BY <2>2, NoAnswer DEF ReadOperation
    <2> QED
      BY <2>1, <2>2
  <1>3. /\ CallTyped' /\ TaskInv'
        /\ \A r \in Requests : got'[r] = got[r] \/ (r = t.request /\ got'[r] = answer)
    BY <1>1, <1>2, AnswersTask DEF fileVars
  <1>4. LedgerInv' /\ GotInv'
    BY <1>1, <1>2, <1>3, DataStays
  <1> QED
    BY <1>1, <1>3, <1>4, CallStep DEF fileVars

(* An effect is written with its receipt, and nothing was there before.    *)
Effect(r) ==
  /\ ~Stored(r.op)
  /\ ledger' = Append(ledger, r)
  /\ receipts' = [x \in DOMAIN receipts \cup {r.op} |->
                    IF x = r.op THEN [body |-> r.body, effect |-> Len(ledger) + 1] ELSE receipts[x]]
  /\ got' = got

LEMMA EffectData ==
  ASSUME IInv, NEW r \in Requests, Effect(r)
  PROVE  LedgerInv' /\ GotInv'
  <1> DEFINE n == Len(ledger) + 1
  <1>1. ledger \in Seq(Requests) /\ Len(ledger) \in Nat /\ n \in Nat \ {0}
    BY DEF IInv, LedgerInv
  <1>2. /\ ledger' \in Seq(Requests) /\ Len(ledger') = n /\ ledger'[n] = r
        /\ \A i \in 1 .. Len(ledger) : ledger'[i] = ledger[i]
        /\ \A i \in 1 .. n : i = n \/ i \in 1 .. Len(ledger)
    BY <1>1 DEF Effect
  <1>3. /\ DOMAIN receipts' = DOMAIN receipts \cup {r.op} /\ r.op \notin DOMAIN receipts
        /\ receipts'[r.op].effect = n /\ receipts'[r.op].body = r.body
        /\ \A o \in DOMAIN receipts : receipts'[o] = receipts[o]
    BY DEF Effect, Stored
  <1>4. r.op \in Operations
    BY DEF Operations
  <1> HIDE DEF n
  <1>5. ASSUME NEW o \in DOMAIN receipts'
        PROVE  /\ receipts'[o].effect \in 1 .. Len(ledger')
               /\ ledger'[receipts'[o].effect].op = o
               /\ ledger'[receipts'[o].effect].body = receipts'[o].body
    <2>1. CASE o = r.op
      BY <2>1, <1>1, <1>2, <1>3
    <2>2. CASE o # r.op
      <3>1. /\ o \in DOMAIN receipts /\ receipts'[o] = receipts[o]
            /\ receipts[o].effect \in 1 .. Len(ledger)
            /\ ledger[receipts[o].effect].op = o
            /\ ledger[receipts[o].effect].body = receipts[o].body
        BY <2>2, <1>3 DEF IInv, LedgerInv
      <3> QED
        BY <3>1, <1>1, <1>2 DEF n
    <2> QED
      BY <2>1, <2>2
  <1>6. ASSUME NEW i \in 1 .. Len(ledger')
        PROVE  ledger'[i].op \in DOMAIN receipts' /\ receipts'[ledger'[i].op].effect = i
    <2>1. CASE i = n
      BY <2>1, <1>2, <1>3
    <2>2. CASE i # n
      <3>1. i \in 1 .. Len(ledger) /\ ledger'[i] = ledger[i]
        BY <2>2, <1>2
      <3>2. ledger[i].op \in DOMAIN receipts /\ receipts[ledger[i].op].effect = i
        BY <3>1 DEF IInv, LedgerInv
      <3> QED
        BY <3>1, <3>2, <1>3
    <2> QED
      BY <2>1, <2>2
  <1>7. LedgerInv'
    BY <1>2, <1>3, <1>4, <1>5, <1>6 DEF LedgerInv, IInv, Operations
  <1>8. GotInv'
    <2> SUFFICES ASSUME NEW q \in Requests
                 PROVE  Backed(q, got[q])'
      BY DEF GotInv
    <2>1. Backed(q, got[q]) /\ got' = got
      BY DEF IInv, GotInv, Effect
    <2>2. \A i \in 1 .. Len(ledger) : i \in 1 .. Len(ledger')
      BY <1>1, <1>2 DEF n
    <2> QED
      BY <2>1, <2>2, <1>2 DEF Backed
  <1> QED
    BY <1>7, <1>8

LEMMA ExecuteStep ==
  ASSUME IInv, NEW t \in tasks, Execute(t)
  PROVE  IInv'
  <1>1. /\ t.request \in Requests /\ UNCHANGED <<fileVars, procVars>>
        /\ t.stage = "queued" /\ "executed" \in Stages
    BY DEF IInv, CallTyped, Execute, Stages
  <1>2. CASE Becomes(t, "executed") /\ UNCHANGED <<waiting, sent, got, dataVars>>
    <2>1. CallTyped' /\ TaskInv'
      BY <1>1, <1>2, BecomesTask DEF fileVars
    <2>2. LedgerInv' /\ GotInv'
      BY <1>2 DEF dataVars, IInv, LedgerInv, GotInv, Backed
    <2> QED
      BY <2>1, <2>2, <1>1, CallStep DEF fileVars
  <1>3. CASE /\ Stored(t.request.op) /\ ~SameRequest(t)
             /\ Answers(t, Conflict) /\ UNCHANGED dataVars
    <2>1. Backed(t.request, Conflict)
      <3>1. /\ receipts[t.request.op].effect \in 1 .. Len(ledger)
            /\ ledger[receipts[t.request.op].effect].op = t.request.op
            /\ ledger[receipts[t.request.op].effect].body # t.request.body
        BY <1>1, <1>3, ReceiptStands DEF SameRequest
      <3> QED
        BY <3>1, NoAnswer DEF Backed
    <2>2. /\ CallTyped' /\ TaskInv'
          /\ \A r \in Requests : got'[r] = got[r] \/ (r = t.request /\ got'[r] = Conflict)
      BY <1>1, <1>3, AnswersTask, NoAnswer DEF fileVars
    <2>3. LedgerInv' /\ GotInv'
      BY <1>1, <1>3, <2>1, <2>2, DataStays
    <2> QED
      BY <2>2, <2>3, <1>1, CallStep DEF fileVars
  <1>4. CASE Effect(t.request) /\ Becomes(t, "executed") /\ UNCHANGED <<waiting, sent, got>>
    <2>1. CallTyped' /\ TaskInv'
      BY <1>1, <1>4, BecomesTask DEF fileVars
    <2>2. LedgerInv' /\ GotInv'
      BY <1>1, <1>4, EffectData
    <2> QED
      BY <2>1, <2>2, <1>1, CallStep DEF fileVars
  <1> QED
    BY <1>2, <1>3, <1>4 DEF Execute, Effect

-----------------------------------------------------------------------------
LEMMA ClearsKeeps ==
  ASSUME IInv, Clears
  PROVE  IInv'
  <1>1. FileInv' /\ at' = at /\ UNCHANGED <<procVars, callVars, dataVars>>
    BY ClearsStep DEF Clears, IInv
  <1> QED
    BY <1>1 DEF IInv, ProcTyped, ProcInv, ProcOk, Settled, CallTyped, TaskInv, Held, Sealed,
       LedgerInv, GotInv, Backed, procVars, callVars, dataVars

LEMMA InitHolds == DeploymentInit => IInv
  <1> SUFFICES ASSUME DeploymentInit
               PROVE  IInv
    OBVIOUS
  <1>1. FileInv
    <2>1. /\ files = <<>> /\ main = 0 /\ journal = FALSE /\ wal = FALSE /\ faults = 0
          /\ at = [p \in Procs |-> "down"] /\ snap = [p \in Procs |-> NoArtifacts]
      BY DEF DeploymentInit, FileInit
    <2>2. Len(files) = 0 /\ files \in Seq([ready : BOOLEAN, cut : BOOLEAN])
      BY <2>1
    <2>3. NoArtifacts \in [main : 0 .. 0, wal : BOOLEAN, journal : BOOLEAN]
      BY DEF NoArtifacts
    <2>4. snap \in [Procs -> [main : 0 .. Len(files), wal : BOOLEAN, journal : BOOLEAN]]
      BY <2>1, <2>2, <2>3
    <2>5. FileTypeOK
      <3>1. main \in 0 .. Len(files) /\ at \in [Procs -> Steps]
        BY <2>1, <2>2 DEF Steps
      <3>2. faults \in 0 .. MaxFaults
        BY <2>1, DatabaseFileAssumption
      <3>3. journal \in BOOLEAN /\ wal \in BOOLEAN
        BY <2>1
      <3> QED
        BY <2>2, <2>4, <3>1, <3>2, <3>3 DEF FileTypeOK
    <2>6. HolderInv /\ ApartInv /\ WholeInv /\ OpenInv
      BY <2>1, <2>2 DEF HolderInv, ApartInv, WholeInv, OpenInv, Holds
    <2> QED
      BY <2>5, <2>6 DEF FileInv
  <1>2. ProcTyped /\ ProcInv
    BY DEF DeploymentInit, ProcTyped, ProcInv, ProcOk, Settled, Early, Phases, Results
  <1>3. CallTyped
    BY NoAnswer DEF DeploymentInit, CallTyped, AnswerSet
  <1>4. TaskInv
    BY DEF DeploymentInit, TaskInv
  <1>5. LedgerInv
    BY DEF DeploymentInit, LedgerInv
  <1>6. GotInv
    BY NoAnswer DEF DeploymentInit, GotInv
  <1> QED
    BY <1>1, <1>2, <1>3, <1>4, <1>5, <1>6 DEF IInv

LEMMA NextHolds == IInv /\ [Next]_vars => IInv'
  <1> SUFFICES ASSUME IInv, [Next]_vars
               PROVE  IInv'
    OBVIOUS
  <1>1. CASE UNCHANGED vars
    <2>1. UNCHANGED <<files, main, journal, wal, at, snap, faults, procVars, callVars, dataVars>>
      BY <1>1 DEF vars, fileVars
    <2>2. CallTyped' /\ TaskInv' /\ LedgerInv' /\ GotInv'
      BY <2>1 DEF IInv, CallTyped, TaskInv, Held, Sealed, LedgerInv, GotInv, Backed,
         procVars, callVars, dataVars
    <2> QED
      BY <2>1, <2>2, CallStep
  <1>2. ASSUME NEW p \in Procs,
               \/ Open(p) \/ Listen(p) \/ ListenFails(p) \/ StartFails(p)
               \/ Signal(p) \/ StopNewWork(p) \/ DrainInFlight(p) \/ CloseDatabase(p)
               \/ CloseFails(p) \/ Deadline(p) \/ Crash(p) \/ Exit(p) \/ TakeBatch(p)
               \/ EndBatch(p)
        PROVE  IInv'
    <2>1. CASE Crash(p) \/ Exit(p)
      BY <2>1, GoneStep DEF Crash, Exit
    <2> QED
      BY <1>2, <2>1, OpenStep, ListenStep, ListenFailsStep, StartFailsStep, SignalStep, PhasesStep,
         ClosedStep, DeadlineStep, BatchStep
  <1>3. ASSUME NEW r \in Requests, Send(r) \/ GivesUp(r)
        PROVE  IInv'
    BY <1>3, SendStep, GivesUpStep
  <1>4. ASSUME NEW t \in tasks, Handles(t)
        PROVE  IInv'
    BY <1>4, EnqueueStep, ExecuteStep, ReadStep DEF Handles
  <1>5. CASE Clears
    BY <1>5, ClearsKeeps
  <1> QED
    BY <1>1, <1>2, <1>3, <1>4, <1>5 DEF Next

LEMMA InvariantHolds == Spec => []IInv
  <1>1. DeploymentInit => IInv
    BY InitHolds
  <1>2. IInv /\ [Next]_vars => IInv'
    BY NextHolds
  <1> QED
    BY <1>1, <1>2, PTL DEF Spec

-----------------------------------------------------------------------------
(* The variables of file, processes and calls stay in their types.         *)
THEOREM TypeCorrect == Spec => []TypeOK
  <1>1. IInv => TypeOK
    BY DEF IInv, FileInv, ProcTyped, CallTyped, LedgerInv, TypeOK
  <1> QED
    BY <1>1, InvariantHolds, PTL

(* However many processes start together, fail and are killed while they   *)
(* open the file: who is connected is connected to the file at the path,   *)
(* and that file was bootstrapped in one go.                               *)
THEOREM AlwaysWhole == Spec => []ServedWhole
  <1>1. IInv => ServedWhole
    <2> SUFFICES ASSUME IInv, NEW p \in Procs, at[p] = "open"
                 PROVE  main = snap[p].main /\ files[main].ready /\ ~files[main].cut
      BY DEF ServedWhole
    <2>1. main # 0 /\ main = snap[p].main /\ files[main].ready /\ main \in 1 .. Len(files)
      BY DEF IInv, FileInv, FileTypeOK, OpenInv
    <2> QED
      BY <2>1 DEF IInv, FileInv, WholeInv
  <1> QED
    BY <1>1, InvariantHolds, PTL

(* No database connection is closed under accepted work, whenever signals  *)
(* and deadlines come.                                                     *)
THEOREM AlwaysUnsevered == Spec => []NeverSevered
  <1>1. IInv => NeverSevered
    BY DEF IInv, TaskInv, ProcInv, ProcOk, Early, NeverSevered
  <1> QED
    BY <1>1, InvariantHolds, PTL

(* An operation takes effect at most once and answers are backed by it,    *)
(* through any number of retries, crashes and restarts.                    *)
THEOREM AlwaysAnsweredAsStored == Spec => []AnsweredAsStored
  <1>1. IInv => AnsweredAsStored
    <2> SUFFICES ASSUME IInv
                 PROVE  AnsweredAsStored
      OBVIOUS
    <2>1. DOMAIN ledger = 1 .. Len(ledger)
      BY DEF IInv, LedgerInv
    <2>2. \A i, j \in DOMAIN ledger : ledger[i].op = ledger[j].op => i = j
      BY <2>1 DEF IInv, LedgerInv
    <2>3. ASSUME NEW r \in Requests
          PROVE  /\ got[r].status = 200 => ledger[got[r].effect] = r
                 /\ got[r] = Conflict =>
                      \E i \in DOMAIN ledger : ledger[i].op = r.op /\ ledger[i].body # r.body
      BY <2>1 DEF IInv, GotInv, Backed
    <2> QED
      BY <2>2, <2>3 DEF AnsweredAsStored
  <1> QED
    BY <1>1, InvariantHolds, PTL

-----------------------------------------------------------------------------
(* The contract with the clients.  A client that waits was not answered:   *)
(* that is why no handler, however late, revises an answer.                *)
WaitInv == \A r \in Requests : waiting[r] # 0 => got[r] = Unanswered

LEMMA NoneWaits == DeploymentInit => WaitInv
  BY DEF DeploymentInit, WaitInv

(* Only an answer changes what a client has, and only of a client that     *)
(* waits; it does not wait any longer.                                     *)
LEMMA AnswersWait ==
  ASSUME IInv, WaitInv, NEW t \in tasks, NEW answer, Answers(t, answer)
  PROVE  /\ WaitInv' /\ t.request \in Requests
         /\ \/ got' = got
            \/ got[t.request] = Unanswered /\ got' = [got EXCEPT ![t.request] = answer]
  <1>1. /\ t.request \in Requests /\ t.attempt # 0
        /\ waiting \in [Requests -> Nat] /\ DOMAIN got = Requests
    BY DEF IInv, CallTyped, TaskInv
  <1>2. CASE Held(t)
    <2>1. waiting[t.request] # 0 /\ got[t.request] = Unanswered
      BY <1>1, <1>2 DEF Held, WaitInv
    <2>2. /\ waiting' = [waiting EXCEPT ![t.request] = 0]
          /\ got' = [got EXCEPT ![t.request] = answer]
      BY <1>2 DEF Answers
    <2>3. WaitInv'
      BY <1>1, <2>2 DEF WaitInv
    <2> QED
      BY <1>1, <2>1, <2>2, <2>3
  <1>3. CASE ~Held(t)
    BY <1>1, <1>3 DEF Answers, WaitInv
  <1> QED
    BY <1>2, <1>3

(* The promise for one step: what a step does to the ledger and to the     *)
(* answers together.                                                       *)
Kept == UNCHANGED <<ledger, got>> \/ Promise!Next

LEMMA ApplyKept ==
  ASSUME IInv, NEW r \in Requests, Effect(r)
  PROVE  Promise!Next
  <1>1. \A i \in 1 .. Len(ledger) : ledger[i].op # r.op
    BY DEF Effect, Stored, IInv, LedgerInv
  <1> QED
    BY <1>1 DEF Effect, Promise!Next, Promise!Apply

LEMMA ExecuteKept ==
  ASSUME IInv, WaitInv, NEW t \in tasks, Execute(t)
  PROVE  WaitInv' /\ Kept
  <1>1. t.request \in Requests
    BY DEF IInv, CallTyped
  <1>2. CASE UNCHANGED <<waiting, got, ledger>>
    BY <1>2 DEF WaitInv, Kept
  <1>3. CASE /\ Stored(t.request.op) /\ ~SameRequest(t)
             /\ Answers(t, Conflict) /\ UNCHANGED dataVars
    <2>1. \E i \in 1 .. Len(ledger) :
             ledger[i].op = t.request.op /\ ledger[i].body # t.request.body
      BY <1>1, <1>3, ReceiptStands DEF SameRequest
    <2>2. /\ WaitInv' /\ ledger' = ledger
          /\ \/ got' = got
             \/ /\ got[t.request] = Unanswered
                /\ got' = [got EXCEPT ![t.request] = Conflict]
      BY <1>3, AnswersWait DEF dataVars
    <2>3. Unanswered = Promise!Nothing /\ Conflict = Promise!Told(409, 0)
      BY DEF Unanswered, Conflict, Answer, Promise!Nothing, Promise!Told
    <2>4. ASSUME got' # got
          PROVE  Promise!Refuse(t.request)
      BY <2>1, <2>2, <2>3, <2>4 DEF Promise!Refuse, Promise!Tell
    <2> QED
      BY <1>1, <2>2, <2>4 DEF Kept, Promise!Next
  <1>4. CASE Effect(t.request) /\ waiting' = waiting
    BY <1>1, <1>4, ApplyKept DEF Effect, WaitInv, Kept
  <1> QED
    BY <1>2, <1>3, <1>4 DEF Execute, Effect, dataVars

(* Being sent away leaves a client where it was.                           *)
LEMMA SentAway ==
  ASSUME IInv, WaitInv, NEW t \in tasks, Answers(t, Unanswered), ledger' = ledger
  PROVE  WaitInv' /\ Kept
  <1>1. /\ WaitInv' /\ t.request \in Requests
        /\ \/ got' = got
           \/ /\ got[t.request] = Unanswered
              /\ got' = [got EXCEPT ![t.request] = Unanswered]
    BY AnswersWait
  <1>2. \E S : got \in [Requests -> S]
    BY DEF IInv, CallTyped
  <1>3. got' = got
    BY <1>1, <1>2
  <1> QED
    BY <1>1, <1>3 DEF Kept

LEMMA ReadKept ==
  ASSUME IInv, WaitInv, NEW t \in tasks, ReadOperation(t)
  PROVE  WaitInv' /\ Kept
  <1>1. t.request \in Requests /\ ledger' = ledger
    BY DEF IInv, CallTyped, ReadOperation, dataVars
  <1>2. CASE Stored(t.request.op) /\ SameRequest(t)
    <2> DEFINE e == receipts[t.request.op].effect
    <2>1. e \in 1 .. Len(ledger) /\ ledger[e] = t.request
      BY <1>1, <1>2, ReceiptStands DEF SameRequest
    <2>2. Answers(t, Answer(200, e))
      BY <1>2 DEF ReadOperation
    <2> HIDE DEF e
    <2>3. /\ WaitInv'
          /\ \/ got' = got
             \/ /\ got[t.request] = Unanswered
                /\ got' = [got EXCEPT ![t.request] = Answer(200, e)]
      BY <2>2, AnswersWait
    <2>4. Unanswered = Promise!Nothing /\ Answer(200, e) = Promise!Told(200, e)
      BY DEF Unanswered, Answer, Promise!Nothing, Promise!Told
    <2>5. ASSUME got' # got
          PROVE  Promise!Confirm(t.request)
      BY <1>1, <2>1, <2>3, <2>4, <2>5 DEF Promise!Confirm, Promise!Tell
    <2> QED
      BY <1>1, <2>3, <2>5 DEF Kept, Promise!Next
  <1>3. CASE ~(Stored(t.request.op) /\ SameRequest(t))
    BY <1>1, <1>3, SentAway DEF ReadOperation
  <1> QED
    BY <1>2, <1>3

LEMMA EnqueueKept ==
  ASSUME IInv, WaitInv, NEW t \in tasks, EnqueueOperation(t) \/ EnqueueRead(t)
  PROVE  WaitInv' /\ Kept
  <1>1. ledger' = ledger
    BY DEF EnqueueOperation, EnqueueRead, Enqueues, dataVars
  <1>2. CASE UNCHANGED <<waiting, got>>
    BY <1>1, <1>2 DEF WaitInv, Kept
  <1>3. CASE Answers(t, Unanswered)
    BY <1>1, <1>3, SentAway
  <1> QED
    BY <1>2, <1>3 DEF EnqueueOperation, EnqueueRead, Enqueues

(* A client starts to wait when it was not answered, and stops when it     *)
(* gives up or the daemon is gone; nothing else touches clients.           *)
LEMMA NextKept == IInv /\ WaitInv /\ [Next]_vars => WaitInv' /\ Kept
  <1> SUFFICES ASSUME IInv, WaitInv, [Next]_vars
               PROVE  WaitInv' /\ Kept
    OBVIOUS
  <1>1. CASE UNCHANGED <<callVars, dataVars>>
    BY <1>1 DEF callVars, dataVars, WaitInv, Kept
  <1>2. ASSUME NEW p \in Procs, Gone(p)
        PROVE  WaitInv' /\ Kept
    <2>1. /\ waiting' = waiting \/ waiting' = [r \in Requests |-> 0]
          /\ got' = got /\ ledger' = ledger
      BY <1>2 DEF Gone, dataVars
    <2> QED
      BY <2>1 DEF WaitInv, Kept
  <1>3. ASSUME NEW r \in Requests, Send(r) \/ GivesUp(r)
        PROVE  WaitInv' /\ Kept
    <2>1. /\ got' = got /\ ledger' = ledger
          /\ \A q \in Requests : waiting'[q] = waiting[q] \/ waiting'[q] = 0 \/ got[q] = Unanswered
      BY <1>3 DEF Send, GivesUp, dataVars, IInv, CallTyped
    <2> QED
      BY <2>1 DEF WaitInv, Kept
  <1>4. ASSUME NEW t \in tasks, Handles(t)
        PROVE  WaitInv' /\ Kept
    BY <1>4, EnqueueKept, ExecuteKept, ReadKept DEF Handles
  <1>5. ASSUME NEW p \in Procs,
               \/ Open(p) \/ Listen(p) \/ ListenFails(p) \/ StartFails(p)
               \/ Signal(p) \/ StopNewWork(p) \/ DrainInFlight(p) \/ CloseDatabase(p)
               \/ CloseFails(p) \/ Deadline(p) \/ TakeBatch(p) \/ EndBatch(p)
        PROVE  UNCHANGED <<callVars, dataVars>>
    BY <1>5 DEF Open, Listen, ListenFails, StartFails, Signal, StopNewWork, DrainInFlight,
       CloseDatabase, CloseFails, Deadline, TakeBatch, EndBatch
  <1>6. Clears => UNCHANGED <<callVars, dataVars>>
    BY DEF Clears
  <1>7. UNCHANGED vars => UNCHANGED <<callVars, dataVars>>
    BY DEF vars
  <1> QED
    BY <1>1, <1>2, <1>3, <1>4, <1>5, <1>6, <1>7 DEF Next, Crash, Exit

(* What the clients of a deployment see, whatever its processes go         *)
(* through, is a behaviour of the contract: an operation takes effect at   *)
(* most once, nothing it did is undone, and no answer is revised.          *)
THEOREM DeploymentKeepsContract == Spec => KeepsContract
  <1>1. DeploymentInit => Promise!Init /\ WaitInv
    BY NoneWaits DEF DeploymentInit, Promise!Init, Promise!Nothing, Promise!Told, Unanswered, Answer
  <1>2. IInv /\ WaitInv /\ [Next]_vars => WaitInv' /\ [Promise!Next]_(Promise!contract)
    BY NextKept DEF Kept, Promise!contract
  <1> QED
    BY <1>1, <1>2, InvariantHolds, PTL DEF Spec, KeepsContract, Promise!Spec
=============================================================================
