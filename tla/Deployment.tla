----------------------------- MODULE Deployment -----------------------------
(***************************************************************************)
(* The processes of a deployment over one database file: the daemon, which *)
(* serves HTTP requests, and workers, which run batches.  A process opens  *)
(* the file (DatabaseFile), serves, and on a signal goes through the three *)
(* phases of its shutdown against one deadline; it may be killed anywhere, *)
(* and is started again.  Clients lose answers and send the same operation *)
(* again.                                                                  *)
(***************************************************************************)
EXTENDS DatabaseFile

CONSTANTS
  Daemon,      \* the process that serves HTTP
  Requests     \* what clients want done: an operation id and a body

ASSUME DeploymentAssumption ==
  /\ Daemon \in Procs
  /\ \A r \in Requests : r = [op |-> r.op, body |-> r.body]

VARIABLES
  phase,       \* phase of each process once its database is open
  result,      \* what its shutdown settled to
  terminal,    \* the phase the deadline found active
  busy,        \* a batch of the worker is in flight
  tasks,       \* requests the daemon is handling: request, attempt, stage
  waiting,     \* attempt the client of a request has a connection for, or 0
  sent,        \* attempts sent for a request
  got,         \* the answer the client of a request has
  ledger,      \* effects committed in the database, in order
  receipts     \* operations table: body and effect of an operation id

procVars == <<phase, result, terminal, busy>>
callVars == <<tasks, waiting, sent, got>>
dataVars == <<ledger, receipts>>
vars == <<fileVars, procVars, callVars, dataVars>>

Phases == {"off", "serving", "stop_new_work", "drain_in_flight", "close_database", "left"}
Results == {"none", "graceful", "failed", "timed_out"}
Stages == {"accepted", "queued", "executed", "reading"}
Operations == {r.op : r \in Requests}
Answer(status, effect) == [status |-> status, effect |-> effect]
Unanswered == Answer(0, 0)
Conflict == Answer(409, 0)

DeploymentInit ==
  /\ FileInit
  /\ phase = [p \in Procs |-> "off"]
  /\ result = [p \in Procs |-> "none"]
  /\ terminal = [p \in Procs |-> "off"]
  /\ busy = [p \in Procs |-> FALSE]
  /\ tasks = {}
  /\ waiting = [r \in Requests |-> 0]
  /\ sent = [r \in Requests |-> 0]
  /\ got = [r \in Requests |-> Unanswered]
  /\ ledger = <<>>
  /\ receipts = [o \in {} |-> 0]

Enters(p, next) == phase' = [phase EXCEPT ![p] = next]
Settles(p, status) == result' = [result EXCEPT ![p] = IF @ = "none" THEN status ELSE @]
Settled(p) == result[p] # "none"

-----------------------------------------------------------------------------
(* Opening, listening.                                                     *)
Open(p) ==
  /\ phase[p] = "off"
  /\ Opening(p)
  /\ UNCHANGED <<procVars, callVars, dataVars>>

Listen(p) ==
  /\ phase[p] = "off" /\ at[p] = "open"
  /\ Enters(p, "serving")
  /\ UNCHANGED <<fileVars, result, terminal, busy, callVars, dataVars>>

(* The endpoint cannot be bound: the database is closed again.             *)
ListenFails(p) ==
  /\ Fault
  /\ phase[p] = "off"
  /\ Disconnect(p)
  /\ UNCHANGED <<procVars, callVars, dataVars>>

StartFails(p) ==
  /\ phase[p] = "off"
  /\ BootstrapFails(p) \/ PreflightTorn(p)
  /\ UNCHANGED <<procVars, callVars, dataVars>>

-----------------------------------------------------------------------------
(* Shutdown.  Hooks are awaited one after the other; a result that is      *)
(* settled meanwhile, by the deadline, ends the sequence where it is.      *)
Requested(p) == phase[p] \in {"stop_new_work", "drain_in_flight", "close_database"}

(* From outside, or from a worker whose loop ended unasked.                *)
Signal(p) ==
  /\ Fault
  /\ phase[p] = "serving"
  /\ Enters(p, "stop_new_work")
  /\ UNCHANGED <<files, main, journal, wal, at, snap>>
  /\ UNCHANGED <<result, terminal, busy, callVars, dataVars>>

PhaseAnyway(p, next) == next
PhaseAfter(p, next) == IF Settled(p) THEN "left" ELSE next

(* The listener is closed, without waiting for it; polling stops.          *)
StopNewWork(p) ==
  /\ phase[p] = "stop_new_work"
  /\ Enters(p, PhaseAfter(p, "drain_in_flight"))
  /\ UNCHANGED <<fileVars, result, terminal, busy, callVars, dataVars>>

(* HTTP has drained when no connection is left: a request whose client     *)
(* went away no longer counts.                                             *)
Drained(p) ==
  IF p = Daemon THEN \A t \in tasks : waiting[t.request] # t.attempt ELSE ~busy[p]

DrainInFlight(p) ==
  /\ phase[p] = "drain_in_flight" /\ Drained(p)
  /\ Enters(p, PhaseAfter(p, "close_database"))
  /\ UNCHANGED <<fileVars, result, terminal, busy, callVars, dataVars>>

(* Closing seals the transaction queue and waits for what it holds.        *)
Sealed(p) == phase[p] \in {"close_database", "left"} /\ terminal[p] \in {"off", "close_database"}
Quiet(p) == p = Daemon => \A t \in tasks : t.stage \notin {"queued", "reading"}

CloseDatabase(p) ==
  /\ phase[p] = "close_database" /\ Quiet(p)
  /\ Disconnect(p)
  /\ Settles(p, "graceful")
  /\ Enters(p, "left")
  /\ UNCHANGED <<faults, terminal, busy, callVars, dataVars>>

(* The checkpoint throws: the connection is closed all the same.           *)
CloseFails(p) ==
  /\ Fault
  /\ phase[p] = "close_database" /\ Quiet(p)
  /\ Disconnect(p)
  /\ Settles(p, "failed")
  /\ Enters(p, "left")
  /\ UNCHANGED <<terminal, busy, callVars, dataVars>>

ArmedWhileClosing(p) == phase[p] = "close_database" /\ ~Settled(p)
Armed(p) == Requested(p) /\ ~Settled(p)

Deadline(p) ==
  /\ Armed(p)
  /\ Settles(p, "timed_out")
  /\ terminal' = [terminal EXCEPT ![p] = phase[p]]
  /\ UNCHANGED <<fileVars, phase, busy, callVars, dataVars>>

-----------------------------------------------------------------------------
(* The end of a process: connections break, handlers are gone, and a       *)
(* transaction that was running is rolled back.                            *)
Gone(p) ==
  /\ Dies(p)
  /\ Enters(p, "off")
  /\ result' = [result EXCEPT ![p] = "none"]
  /\ terminal' = [terminal EXCEPT ![p] = "off"]
  /\ busy' = [busy EXCEPT ![p] = FALSE]
  /\ tasks' = IF p = Daemon THEN {} ELSE tasks
  /\ waiting' = IF p = Daemon THEN [r \in Requests |-> 0] ELSE waiting
  /\ UNCHANGED <<sent, got, dataVars>>

Crash(p) ==
  /\ Fault
  /\ at[p] # "down" \/ phase[p] # "off"
  /\ Gone(p)

(* A process whose shutdown settled ends, by itself or killed when its     *)
(* grace period is over.                                                   *)
Exit(p) ==
  /\ Settled(p)
  /\ result[p] = "timed_out" \/ p # Daemon \/ tasks = {}
  /\ Gone(p)
  /\ UNCHANGED faults

-----------------------------------------------------------------------------
(* Clients, and the daemon handling what they send.                        *)
At(t, stage) == [t EXCEPT !.stage = stage]
Becomes(t, stage) == tasks' = (tasks \ {t}) \cup {At(t, stage)}
Done(t) == tasks' = tasks \ {t}
Held(t) == waiting[t.request] = t.attempt

(* While the listener is closing the answer is 503, and before and after   *)
(* it there is none: the client is where it was.                           *)
Send(r) ==
  /\ phase[Daemon] = "serving"
  /\ waiting[r] = 0 /\ got[r] = Unanswered
  /\ sent' = [sent EXCEPT ![r] = @ + 1]
  /\ waiting' = [waiting EXCEPT ![r] = sent[r] + 1]
  /\ tasks' = tasks \cup {[request |-> r, attempt |-> sent[r] + 1, stage |-> "accepted"]}
  /\ UNCHANGED <<fileVars, procVars, got, dataVars>>

(* request_timeout, or the connection is lost: the handler runs on.        *)
GivesUp(r) ==
  /\ Fault
  /\ waiting[r] # 0
  /\ waiting' = [waiting EXCEPT ![r] = 0]
  /\ UNCHANGED <<files, main, journal, wal, at, snap>>
  /\ UNCHANGED <<procVars, tasks, sent, got, dataVars>>

Answers(t, answer) ==
  /\ Done(t)
  /\ waiting' = IF Held(t) THEN [waiting EXCEPT ![t.request] = 0] ELSE waiting
  /\ got' = IF Held(t) THEN [got EXCEPT ![t.request] = answer] ELSE got
  /\ UNCHANGED sent

(* A transaction or a read of a sealed queue is refused: a 500.            *)
Enqueues(t, stage) ==
  /\ \/ ~Sealed(Daemon) /\ Becomes(t, stage) /\ UNCHANGED <<waiting, sent, got>>
     \/ Sealed(Daemon) /\ Answers(t, Unanswered)
  /\ UNCHANGED <<fileVars, procVars, dataVars>>

EnqueueOperation(t) == t.stage = "accepted" /\ Enqueues(t, "queued")
EnqueueRead(t) == t.stage = "executed" /\ Enqueues(t, "reading")

(* One transaction: replay what the operation id stored, refuse another    *)
(* request under it, or apply the effect and store the receipt.            *)
Stored(o) == o \in DOMAIN receipts
AnyRequest(t) == TRUE
SameRequest(t) == receipts[t.request.op].body = t.request.body

Execute(t) ==
  LET o == t.request.op  body == t.request.body IN
  /\ t.stage = "queued"
  /\ \/ /\ Stored(o) /\ SameRequest(t)
        /\ Becomes(t, "executed") /\ UNCHANGED <<waiting, sent, got, dataVars>>
     \/ /\ Stored(o) /\ ~SameRequest(t)
        /\ Answers(t, Conflict) /\ UNCHANGED dataVars
     \/ /\ ~Stored(o)
        /\ ledger' = Append(ledger, t.request)
        /\ receipts' = [x \in DOMAIN receipts \cup {o} |->
                          IF x = o THEN [body |-> body, effect |-> Len(ledger) + 1] ELSE receipts[x]]
        /\ Becomes(t, "executed") /\ UNCHANGED <<waiting, sent, got>>
  /\ UNCHANGED <<fileVars, procVars>>

(* The receipt is read back and checked against the request.               *)
ReadOperation(t) ==
  /\ t.stage = "reading"
  /\ IF Stored(t.request.op) /\ SameRequest(t)
     THEN Answers(t, Answer(200, receipts[t.request.op].effect)) ELSE Answers(t, Unanswered)
  /\ UNCHANGED <<fileVars, procVars, dataVars>>

Handles(t) == EnqueueOperation(t) \/ Execute(t) \/ EnqueueRead(t) \/ ReadOperation(t)

(* A worker takes a batch while it serves; a provider may never answer.    *)
TakeBatch(p) ==
  /\ p # Daemon /\ phase[p] = "serving" /\ ~busy[p]
  /\ busy' = [busy EXCEPT ![p] = TRUE]
  /\ UNCHANGED <<fileVars, phase, result, terminal, callVars, dataVars>>

EndBatch(p) ==
  /\ busy[p]
  /\ busy' = [busy EXCEPT ![p] = FALSE]
  /\ UNCHANGED <<fileVars, phase, result, terminal, callVars, dataVars>>

-----------------------------------------------------------------------------
Clears == OperatorClears /\ UNCHANGED <<procVars, callVars, dataVars>>

Next ==
  \/ \E p \in Procs :
       \/ Open(p) \/ Listen(p) \/ ListenFails(p) \/ StartFails(p)
       \/ Signal(p) \/ StopNewWork(p) \/ DrainInFlight(p) \/ CloseDatabase(p) \/ CloseFails(p)
       \/ Deadline(p) \/ Crash(p) \/ Exit(p) \/ TakeBatch(p) \/ EndBatch(p)
  \/ \E r \in Requests : Send(r) \/ GivesUp(r)
  \/ \E t \in tasks : Handles(t)
  \/ Clears

(* Processes are scheduled and started again (restart: unless-stopped),    *)
(* handlers run on, clients that were not answered send again, and the     *)
(* operator clears a stillborn file.  Nothing makes a batch end.           *)
Progress(p) ==
  Open(p) \/ Listen(p) \/ StopNewWork(p) \/ DrainInFlight(p) \/ CloseDatabase(p) \/ Exit(p)

Fairness ==
  /\ \A p \in Procs : WF_vars(Progress(p)) /\ WF_vars(Deadline(p))
  /\ \A r \in Requests : WF_vars(Send(r)) /\ WF_vars(\E t \in tasks : t.request = r /\ Handles(t))
  /\ WF_vars(Clears)

Spec == DeploymentInit /\ [][Next]_vars /\ Fairness

-----------------------------------------------------------------------------
TypeOK ==
  /\ FileTypeOK
  /\ phase \in [Procs -> Phases]
  /\ result \in [Procs -> Results]
  /\ terminal \in [Procs -> Phases]
  /\ busy \in [Procs -> BOOLEAN]
  /\ tasks \subseteq [request : Requests, attempt : Nat, stage : Stages]
  /\ waiting \in [Requests -> Nat]
  /\ sent \in [Requests -> Nat]
  /\ DOMAIN receipts \subseteq Operations
  /\ ledger \in Seq(Requests)
  /\ got \in [Requests -> [status : {0, 200, 409}, effect : Nat]]

(* Whoever holds a connection holds the file that is at the path, and that *)
(* file was bootstrapped in one go: a bootstrap that was killed half-way   *)
(* is never taken up again, whoever finds it and in whatever state.        *)
ServedWhole ==
  \A p \in Procs : at[p] = "open" =>
    /\ main = snap[p].main
    /\ files[main].ready /\ ~files[main].cut

(* A database connection is never closed under work that was accepted: not *)
(* under a queued transaction, not under a request a client waits for, and *)
(* not by a deadline that found the process still stopping or draining.    *)
NeverSevered ==
  /\ \A t \in tasks : t.stage \in {"queued", "reading"} => at[Daemon] = "open"
  /\ \A t \in tasks : Held(t) => ~Sealed(Daemon)
  /\ \A p \in Procs : terminal[p] \in {"stop_new_work", "drain_in_flight"} => at[p] = "open"

(* Through crashes, lost answers, retries and restarts an operation takes  *)
(* effect at most once; every answer is the receipt of that effect, and a  *)
(* conflict is answered only to a request another one really displaced.    *)
AnsweredAsStored ==
  /\ \A i, j \in DOMAIN ledger : ledger[i].op = ledger[j].op => i = j
  /\ \A r \in Requests :
       /\ got[r].status = 200 => ledger[got[r].effect] = r
       /\ got[r] = Conflict => \E i \in DOMAIN ledger : ledger[i].op = r.op /\ ledger[i].body # r.body

(* Every step of the deployment is a step of the contract with its clients *)
(* or none.  An operation takes effect at most once; what it did is never  *)
(* undone or moved, whoever crashes; an answer is the receipt of the very  *)
(* request it answers, a conflict is one another request really caused,    *)
(* and no retry, late handler or lost connection revises what a client was *)
(* told.                                                                   *)
Promise == INSTANCE OperationContract WITH made <- ledger, told <- got

KeepsContract == Promise!Spec

(* Once the faults are over every process serves again, whatever they left *)
(* in the data directory, and every client that kept asking is answered.   *)
Recovers ==
  /\ \A p \in Procs : <>[](phase[p] = "serving")
  /\ \A r \in Requests : <>(got[r] # Unanswered)
=============================================================================
