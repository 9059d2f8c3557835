------------------------ MODULE AuthorityConnection ------------------------
(***************************************************************************)
(* The database connection every store of a process shares, and the        *)
(* authority clock bound to it.                                            *)
(*                                                                         *)
(* A process has one SQLite connection.  The transaction runner puts its   *)
(* tasks in a line: a task starts when the one before it is finished.  A   *)
(* call made from inside the open transaction, which the AsyncLocal        *)
(* context tells, does not queue but joins it.  Closing the database       *)
(* queues one last empty transaction and turns away whatever comes later.  *)
(*                                                                         *)
(* Several processes, the daemon and its workers, open the same file.      *)
(* SQLite lets one of them at a time hold a write transaction.  Each       *)
(* process has a clock floor of its own; a transaction also sees and       *)
(* raises the floor stored in runtime_meta.  A process may crash at any    *)
(* moment and the file be opened again.                                    *)
(*                                                                         *)
(* Time is counted in milliseconds.  The wall clock is not a variable:     *)
(* every reading of it may be any instant, earlier ones included.          *)
(***************************************************************************)
EXTENDS Integers, Sequences

CONSTANTS
  Process,       \* the processes that open the file
  Call,          \* the calls they make on their connection
  Of,            \* the process of each call
  Kind,          \* "tx" (withTx), "read" or "close"
  Inside,        \* the call whose transaction body a call is made from, if any
  None,          \* no call
  Horizon        \* bound: no clock reading and no mint lies above it

ASSUME ConnectionAssumption ==
  /\ Of \in [Call -> Process]
  /\ Kind \in [Call -> {"tx", "read", "close"}]
  /\ Inside \in [Call -> Call \cup {None}]
  /\ None \notin Call
  /\ \A c \in Call : Inside[c] # None =>
       /\ Of[Inside[c]] = Of[c]
       /\ Kind[Inside[c]] = "tx"
       /\ Inside[Inside[c]] = None
       /\ Kind[c] # "close"
  /\ Horizon \in Nat

VARIABLES
  status,        \* where each call stands
  queue,         \* the calls in line on a connection, the running one first
  owner,         \* activeOwner: the call whose transaction is open
  sealed,        \* sealed: later callers are turned away
  open,          \* the process has the file open
  floor,         \* runtime_meta.authority_clock_floor_at, as committed
  tentative,     \* that column as the open transaction sees it
  localFloor,    \* localFloor
  hook,          \* the latest mint of a call, which afterCommit publishes
  observed       \* the latest wall clock reading of a process since it opened

connection == <<status, queue, owner, sealed, open>>
clock == <<floor, tentative, localFloor, hook, observed>>
connectionVars ==
  <<status, queue, owner, sealed, open,
    floor, tentative, localFloor, hook, observed>>

-----------------------------------------------------------------------------
Instants == 0 .. Horizon

(* The instant a mint has to lie after; -1 is null.                        *)
LowerBounds == -1 .. Horizon

OnConnection == {"begin", "body", "joined", "reading"}
Statuses == {"idle", "queued", "begin", "body", "joined", "reading",
             "committed", "done", "failed", "refused", "lost"}

(* Math.max of two instants.                                               *)
Later(a, b) == IF a >= b THEN a ELSE b

(* The call's transaction is open.                                         *)
InTransaction(p) == owner[p] # None /\ status[owner[p]] = "body"

(* inTransaction: the call is made in the context of the open transaction. *)
InContext(c) == InTransaction(Of[c]) /\ owner[Of[c]] = Inside[c]

(* The stored floor that an open transaction of p reads.                   *)
Stored(p) == IF InTransaction(p) THEN tentative[p] ELSE floor

(* Nothing that joined the transaction of c is still running.              *)
Settled(c) == \A d \in Call : Inside[d] = c => status[d] # "joined"

-----------------------------------------------------------------------------
(* enqueue, on behalf of run, read and sealAndRun.                         *)
Enqueue(c) ==
  /\ status' = [status EXCEPT ![c] = "queued"]
  /\ queue' = [queue EXCEPT ![Of[c]] = Append(@, c)]
  /\ sealed' = [sealed EXCEPT ![Of[c]] = Kind[c] = "close"]

(* The call runs in the open transaction instead of queueing.              *)
Joins(c) == Inside[c] # None /\ InContext(c)

(* withTx, read and close up to their first await.  A call made from the   *)
(* context of a transaction that is over takes the way of any other call.  *)
Issue(c) ==
  LET p == Of[c] IN
  /\ status[c] = "idle"
  /\ open[p]
  /\ Inside[c] # None =>
       status[Inside[c]] \in {"body", "committed", "done", "failed"}
  /\ \/ /\ Joins(c)
        /\ status' = [status EXCEPT ![c] = "joined"]
        /\ localFloor' = IF Kind[c] = "tx"
             THEN [localFloor EXCEPT ![p] = Later(@, Stored(p))]
             ELSE localFloor
        /\ UNCHANGED <<queue, owner, sealed>>
     \/ /\ ~Joins(c)
        /\ ~sealed[p]
        /\ Enqueue(c)
        /\ UNCHANGED <<owner, localFloor>>
     \/ /\ ~Joins(c)
        /\ sealed[p]
        /\ status' = [status EXCEPT ![c] = "refused"]
        /\ UNCHANGED <<queue, owner, sealed, localFloor>>
  /\ UNCHANGED <<open, floor, tentative, hook, observed>>

(* The promise of the task before c has settled.                           *)
FirstInLine(c) == queue[Of[c]] # << >> /\ Head(queue[Of[c]]) = c

(* The task of a queued call starts.                                       *)
Start(c) ==
  /\ status[c] = "queued"
  /\ FirstInLine(c)
  /\ status' = [status EXCEPT ![c] =
                  IF Kind[c] = "read" THEN "reading" ELSE "begin"]
  /\ owner' = IF Kind[c] = "read" THEN owner ELSE [owner EXCEPT ![Of[c]] = c]
  /\ UNCHANGED <<queue, sealed, open, clock>>

(* Seeded fault: BEGIN without IMMEDIATE takes no write lock.               *)
BeginDeferred(c) ==
  LET p == Of[c] IN
  /\ status[c] = "begin"
  /\ status' = [status EXCEPT ![c] = "body"]
  /\ tentative' = [tentative EXCEPT ![p] = floor]
  /\ localFloor' = IF Kind[c] = "tx"
       THEN [localFloor EXCEPT ![p] = Later(@, floor)]
       ELSE localFloor
  /\ UNCHANGED <<queue, owner, sealed, open, floor, hook, observed>>

(* BEGIN IMMEDIATE is granted; withTx takes over the stored floor.         *)
Begin(c) ==
  LET p == Of[c] IN
  /\ status[c] = "begin"
  /\ \A q \in Process : ~InTransaction(q)
  /\ status' = [status EXCEPT ![c] = "body"]
  /\ tentative' = [tentative EXCEPT ![p] = floor]
  /\ localFloor' = IF Kind[c] = "tx"
       THEN [localFloor EXCEPT ![p] = Later(@, floor)]
       ELSE localFloor
  /\ UNCHANGED <<queue, owner, sealed, open, floor, hook, observed>>

(* Seeded fault: a task that fails does not release the line.               *)
KeepsLine(c, outcome) ==
  /\ status' = [status EXCEPT ![c] = outcome]
  /\ owner' = [owner EXCEPT ![Of[c]] = IF @ = c THEN None ELSE @]
  /\ open' = [open EXCEPT ![Of[c]] = @ /\ Kind[c] # "close"]
  /\ queue' = IF outcome = "failed" THEN queue
              ELSE [queue EXCEPT ![Of[c]] = Tail(@)]

(* The task of c is over and the next one may start.  However the last     *)
(* transaction ends, close() closes the handle.                            *)
Release(c, outcome) ==
  /\ status' = [status EXCEPT ![c] = outcome]
  /\ owner' = [owner EXCEPT ![Of[c]] = IF @ = c THEN None ELSE @]
  /\ open' = [open EXCEPT ![Of[c]] = @ /\ Kind[c] # "close"]
  /\ queue' = [queue EXCEPT ![Of[c]] = Tail(@)]

(* Another process kept the write lock beyond busy_timeout.                *)
BeginBusy(c) ==
  /\ status[c] = "begin"
  /\ \E q \in Process : InTransaction(q)
  /\ Release(c, "refused")
  /\ UNCHANGED <<sealed, clock>>

(* authorityNow inside a transaction, for a wall clock reading.            *)
Effective(p, now) == Later(Later(localFloor[p], now), Stored(p))

(* Seeded fault: the mint publishes itself before the commit.               *)
PublishEarly(p, now, at) ==
  localFloor' = [localFloor EXCEPT ![p] = Later(@, at)]

(* Only the wall clock reading raises the process floor before the commit. *)
Publish(p, now, at) == localFloor' = [localFloor EXCEPT ![p] = Later(@, now)]

(* mintAuthorityTime(after), by the owner or by a call that joined it.     *)
Mint(p, now, after) ==
  LET c == owner[p]
      at == IF after >= Effective(p, now) THEN after + 1
            ELSE Effective(p, now)
  IN
  /\ InTransaction(p)
  /\ Kind[c] = "tx"
  /\ at <= Horizon
  /\ tentative' = [tentative EXCEPT ![p] = at]
  /\ hook' = [hook EXCEPT ![c] = Later(@, at)]
  /\ observed' = [observed EXCEPT ![p] = Later(@, now)]
  /\ Publish(p, now, at)
  /\ UNCHANGED <<connection, floor>>

(* authorityNow, in or out of a transaction.                               *)
ReadClock(p, now) ==
  /\ open[p]
  /\ observed' = [observed EXCEPT ![p] = Later(@, now)]
  /\ localFloor' = [localFloor EXCEPT ![p] = Later(@, now)]
  /\ UNCHANGED <<connection, floor, tentative, hook>>

(* A joined call, or a queued read, is finished.                           *)
Leave(c) ==
  /\ \/ /\ status[c] = "joined"
        /\ status' = [status EXCEPT ![c] = "done"]
        /\ UNCHANGED <<queue, owner, open>>
     \/ /\ status[c] = "reading"
        /\ Release(c, "done")
  /\ UNCHANGED <<sealed, clock>>

(* The body returned and COMMIT succeeds: the tentative floor is durable.  *)
Commit(c) ==
  /\ status[c] = "body"
  /\ Settled(c)
  /\ Release(c, "committed")
  /\ floor' = tentative[Of[c]]
  /\ tentative' = [tentative EXCEPT ![Of[c]] = 0]
  /\ UNCHANGED <<sealed, localFloor, hook, observed>>

(* The body or COMMIT throws: the transaction is rolled back.              *)
Rollback(c) ==
  /\ status[c] = "body"
  /\ Settled(c)
  /\ Release(c, "failed")
  /\ tentative' = [tentative EXCEPT ![Of[c]] = 0]
  /\ hook' = [hook EXCEPT ![c] = 0]
  /\ UNCHANGED <<sealed, floor, localFloor, observed>>

(* The callback a mint registered.                                         *)
HookPublished(c) ==
  localFloor' = [localFloor EXCEPT ![Of[c]] = Later(@, hook[c])]

(* The post-commit callbacks run, with the line already released.          *)
AfterCommit(c) ==
  /\ status[c] = "committed"
  /\ status' = [status EXCEPT ![c] = "done"]
  /\ HookPublished(c)
  /\ UNCHANGED <<queue, owner, sealed, open, floor, tentative, hook, observed>>

(* The process dies; SQLite discards its open transaction.                 *)
Crash(p) ==
  /\ open[p]
  /\ open' = [open EXCEPT ![p] = FALSE]
  /\ status' = [c \in Call |->
       IF Of[c] = p /\ status[c] \in OnConnection \cup {"queued", "committed"}
       THEN "lost" ELSE status[c]]
  /\ queue' = [queue EXCEPT ![p] = << >>]
  /\ owner' = [owner EXCEPT ![p] = None]
  /\ tentative' = [tentative EXCEPT ![p] = 0]
  /\ localFloor' = [localFloor EXCEPT ![p] = 0]
  /\ observed' = [observed EXCEPT ![p] = 0]
  /\ UNCHANGED <<sealed, floor, hook>>

(* A new process opens the file and starts from the committed floor.  Calls *)
(* answered to the old one are no context for the new one.                 *)
Reopen(p) ==
  /\ ~open[p]
  /\ \A q \in Process : ~InTransaction(q)
  /\ open' = [open EXCEPT ![p] = TRUE]
  /\ sealed' = [sealed EXCEPT ![p] = FALSE]
  /\ status' = [c \in Call |->
       IF Of[c] = p /\ status[c] # "idle" THEN "lost" ELSE status[c]]
  /\ localFloor' = [localFloor EXCEPT ![p] = floor]
  /\ hook' = [c \in Call |-> IF Of[c] = p THEN 0 ELSE hook[c]]
  /\ observed' = [observed EXCEPT ![p] = 0]
  /\ UNCHANGED <<queue, owner, floor, tentative>>

-----------------------------------------------------------------------------
ConnectionInit ==
  /\ status = [c \in Call |-> "idle"]
  /\ queue = [p \in Process |-> << >>]
  /\ owner = [p \in Process |-> None]
  /\ sealed = [p \in Process |-> FALSE]
  /\ open = [p \in Process |-> TRUE]
  /\ floor = 0
  /\ tentative = [p \in Process |-> 0]
  /\ localFloor = [p \in Process |-> 0]
  /\ hook = [c \in Call |-> 0]
  /\ observed = [p \in Process |-> 0]

Progress(c) ==
  Start(c) \/ Begin(c) \/ BeginBusy(c) \/ Leave(c)
  \/ Commit(c) \/ Rollback(c) \/ AfterCommit(c)

ConnectionNext ==
  \/ \E c \in Call : Issue(c) \/ Progress(c)
  \/ \E p \in Process : Crash(p) \/ Reopen(p)
  \/ \E p \in Process, now \in Instants : ReadClock(p, now)
  \/ \E p \in Process, now \in Instants, after \in LowerBounds :
       Mint(p, now, after)

ConnectionSpec == ConnectionInit /\ [][ConnectionNext]_connectionVars

(* The event loop runs every task whose promise settled, transaction       *)
(* bodies end, and BEGIN is granted or refused.                            *)
FairSpec == ConnectionSpec /\ \A c \in Call : WF_connectionVars(Progress(c))

-----------------------------------------------------------------------------
ConnectionTyped ==
  /\ status \in [Call -> Statuses]
  /\ queue \in [Process -> Seq(Call)]
  /\ owner \in [Process -> Call \cup {None}]
  /\ sealed \in [Process -> BOOLEAN]
  /\ open \in [Process -> BOOLEAN]
  /\ floor \in Instants
  /\ tentative \in [Process -> Instants]
  /\ localFloor \in [Process -> Instants]
  /\ hook \in [Call -> Instants]
  /\ observed \in [Process -> Instants]

(* A connection does one thing at a time.  While a transaction is open on  *)
(* it, no other queued task runs, so that a queued read never returns rows *)
(* of an open transaction and no statement lands in a transaction of       *)
(* somebody else; what did join was called from inside that transaction.   *)
NobodyElseInside ==
  \A c \in Call :
    /\ status[c] \in {"begin", "body", "reading"} =>
         \A d \in Call \ {c} : Of[d] = Of[c] /\ status[d] \in OnConnection =>
           status[d] = "joined" /\ Inside[d] = c /\ status[c] = "body"
    /\ status[c] = "joined" =>
         owner[Of[c]] = Inside[c] /\ status[Inside[c]] = "body"

(* close() is final and complete: when the handle is closed, nothing is in *)
(* line or running on it, and every call admitted before was answered.     *)
ClosedIsQuiet ==
  \A c \in Call : ~open[Of[c]] => status[c] \notin OnConnection \cup {"queued"}

(* A transaction never holds a time behind a committed one, even if its    *)
(* process never saw that commit and its wall clock stepped back.          *)
NeverBehindACommit ==
  \A p \in Process : InTransaction(p) => tentative[p] >= floor

(* Authority time never regresses: not across processes, rollbacks,        *)
(* crashes and restarts, nor inside one transaction.                       *)
TimeNeverRegresses ==
  [][/\ floor' >= floor
     /\ \A p \in Process :
          InTransaction(p) /\ InTransaction(p)' =>
            tentative'[p] >= tentative[p]]_connectionVars

(* A caller whose transaction was answered never reads a clock behind the  *)
(* times that transaction minted.                                          *)
OwnCommitVisible ==
  \A c \in Call :
    open[Of[c]] /\ status[c] = "done" => localFloor[Of[c]] >= hook[c]

(* The process floor is a wall clock reading or a committed time; what a   *)
(* rolled back transaction minted leaves no trace in it.                   *)
NoTrace(p) ==
  open[p] /\ ~InTransaction(p) => localFloor[p] <= Later(observed[p], floor)

RollbackLeavesNoTrace == \A p \in Process : NoTrace(p)

(* A process that makes a transaction from inside another one.             *)
Nests(p) ==
  \E c \in Call : Of[c] = p /\ Inside[c] # None /\ Kind[c] = "tx"

(* The same of a process that never nests transactions, whatever the other *)
(* processes do.                                                           *)
FlatRollbackLeavesNoTrace == \A p \in Process : Nests(p) \/ NoTrace(p)

(* Every call is answered: no failure of a task blocks those in line.      *)
EveryCallAnswered ==
  \A c \in Call :
    (status[c] = "queued") ~> (status[c] \in {"done", "failed", "refused", "lost"})
=============================================================================
