------------------------- MODULE DurableJobsProofs --------------------------
(***************************************************************************)
(* Theorems about the durable job queue for every set of jobs, number of   *)
(* attempts, lease length and time bound.                                  *)
(***************************************************************************)
EXTENDS DurableJobs, TLAPS

(* The inductive invariant is stated over arbitrary values of the          *)
(* variables, because leaseNext makes two changes in one transaction and   *)
(* the proof looks at the rows between them.                               *)

Typed(R, Rc, G, n, f, ap) ==
  /\ R \in [Jobs -> Row]
  /\ Rc \subseteq Receipt
  /\ G \subseteq Lease
  /\ n \in Nat \ {0}
  /\ f \in Nat
  /\ ap \in [Jobs -> Nat]

(* What every row says about itself.                                       *)
RowInv(j, row, f) ==
  /\ row.updated <= f
  /\ row.attempt <= MaxAttempts[j]
  /\ row.state = "absent" => row.attempt = 0
  /\ row.state = "queued" => row.attempt < MaxAttempts[j]
  /\ row.state = "leased" => row.attempt >= 1 /\ row.acq <= f

(* The lease a leased row carries.                                         *)
LeaseOf(j, row) == [job |-> j, attempt |-> row.attempt, token |-> row.token,
                    acq |-> row.acq, exp |-> row.exp]

HolderInv(R, G) == \A j \in Jobs : R[j].state = "leased" => LeaseOf(j, R[j]) \in G

GrantInv(R, G, n, f) ==
  \A g \in G : /\ g.attempt >= 1 /\ g.attempt <= R[g.job].attempt
               /\ g.token < n /\ g.acq <= f

GrantUnique(G) ==
  \A g, h \in G : g.token = h.token \/ (g.job = h.job /\ g.attempt = h.attempt)
                    => g = h

(* A lease that is not the one its row carries is over: it expired, or it  *)
(* was answered, finally or with a retry.                                  *)
Over(g, R, Rc, f) ==
  \/ g.exp <= f
  \/ \E r \in Rc : /\ r.job = g.job /\ r.attempt = g.attempt /\ r.at <= f
                   /\ r.outcome = "retry" \/ R[g.job].state \in Terminal

GrantOver(R, Rc, G, f) ==
  \A g \in G : \/ R[g.job].state = "leased" /\ R[g.job].attempt = g.attempt
               \/ Over(g, R, Rc, f)

DisjointIn(Rc, G) ==
  \A g, h \in G :
    g.job = h.job /\ g.attempt < h.attempt =>
      \/ h.acq >= g.exp
      \/ \E r \in Rc : /\ r.job = g.job /\ r.attempt = g.attempt
                       /\ r.outcome = "retry" /\ r.at <= h.acq

AppliedIn(R, Rc, ap) ==
  \A j \in Jobs :
    /\ ap[j] = IF R[j].state = "succeeded" THEN 1 ELSE 0
    /\ R[j].state = "succeeded" =>
         \E r \in Rc : r.job = j /\ r.outcome = "success" /\ r.attempt = R[j].attempt

Core(R, Rc, G, n, f, ap) ==
  /\ Typed(R, Rc, G, n, f, ap)
  /\ \A j \in Jobs : RowInv(j, R[j], f)
  /\ HolderInv(R, G)
  /\ GrantInv(R, G, n, f)
  /\ GrantUnique(G)
  /\ GrantOver(R, Rc, G, f)
  /\ DisjointIn(Rc, G)
  /\ AppliedIn(R, Rc, ap)

Inv == Core(rows, receipts, grants, nextToken, floor, applied)

-----------------------------------------------------------------------------
(* An absent row is a row.                                                 *)
LEMMA NoRowTyped == NoRow \in Row
  BY DEF NoRow, Row, States, Reasons, Null

(* The initial state of the queue.                                         *)
LEMMA InitCore == Init => Inv
  <1> SUFFICES ASSUME Init PROVE Inv
    OBVIOUS
  <1>1. \A j \in Jobs : rows[j] = NoRow
    BY DEF Init
  <1>2. Typed(rows, receipts, grants, nextToken, floor, applied)
    BY NoRowTyped DEF Init, Typed
  <1>3. \A j \in Jobs : RowInv(j, rows[j], floor)
    BY <1>1, JobsAssumption DEF Init, RowInv, NoRow, Null
  <1> QED
    BY <1>1, <1>2, <1>3 DEF Init, Inv, Core, HolderInv, GrantInv, GrantUnique,
       GrantOver, DisjointIn, AppliedIn, NoRow

-----------------------------------------------------------------------------
(* Instants are positive numbers.                                          *)
LEMMA TimesNat == \A t \in Times : t \in Nat /\ t >= 1
  BY JobsAssumption DEF Times

(* What transitionExpiredLease makes of a leased row.                      *)
LEMMA RecoveredRow ==
  ASSUME NEW j \in Jobs, rows[j] \in Row, NEW t \in Nat
  PROVE  /\ Recovered(j, t) \in Row
         /\ Recovered(j, t).state =
              IF rows[j].attempt >= MaxAttempts[j] THEN "dead" ELSE "queued"
         /\ Recovered(j, t).attempt = rows[j].attempt
         /\ Recovered(j, t).updated = t
  <1>1. Recovered(j, t) \in Row
    BY ZenonT(60) DEF Recovered, Exhausted, Row, States, Reasons, Null
  <1> QED
    BY <1>1 DEF Recovered, Exhausted, Row

(* The recovery walk of leaseNext keeps the invariant.                     *)
LEMMA RecoveryCore ==
  ASSUME Inv, NEW clock \in Readings,
         NEW at \in RecoveryTimes(Expired(clock), clock),
         NEW fl \in LastReading(at, clock)
  PROVE  Core(AfterRecovery(at), receipts, grants, nextToken, fl, applied)
  <1> DEFINE E == Expired(clock)
             R == AfterRecovery(at)
  <1>c. clock \in Nat /\ floor \in Nat /\ clock >= floor
    BY TimesNat DEF Readings, Inv, Core, Typed
  <1>2. \A j \in E : /\ j \in Jobs /\ rows[j].state = "leased"
                    /\ rows[j].exp <= clock /\ rows[j].exp \in Nat
    BY DEF Expired, Inv, Core, Typed, Row
  <1>d. /\ DOMAIN at = E
        /\ \A j \in E : at[j] \in Times /\ at[j] \in Nat /\ at[j] >= clock
    BY TimesNat DEF RecoveryTimes, Minted
  <1>1. /\ DOMAIN at = E
        /\ \A j \in E : /\ at[j] \in Times /\ at[j] \in Nat
                        /\ at[j] >= floor /\ at[j] >= rows[j].exp
    BY <1>c, <1>d, <1>2
  <1>3. fl \in Nat /\ fl >= floor /\ \A j \in E : at[j] <= fl
    BY <1>1, <1>2, <1>c, TimesNat DEF LastReading
  <1>4. ASSUME NEW j \in E
        PROVE  /\ R[j] = Recovered(j, at[j])
               /\ R[j] \in Row
               /\ R[j].state \in {"queued", "dead"}
               /\ (R[j].state = "queued" => rows[j].attempt < MaxAttempts[j])
               /\ R[j].attempt = rows[j].attempt
               /\ R[j].updated = at[j]
    <2>1. j \in Jobs /\ at[j] \in Nat /\ rows[j] \in Row
      BY <1>1, <1>2 DEF Inv, Core, Typed
    <2>2. R[j] = Recovered(j, at[j])
      BY <1>1, <2>1 DEF AfterRecovery
    <2>3. rows[j].attempt \in Nat /\ MaxAttempts[j] \in Nat
      BY <2>1, JobsAssumption DEF Row
    <2> QED
      BY <2>1, <2>2, <2>3, RecoveredRow
  <1>5. \A j \in Jobs \ E : R[j] = rows[j]
    BY <1>1 DEF AfterRecovery
  <1>6. Typed(R, receipts, grants, nextToken, fl, applied)
    <2>1. \A j \in Jobs : R[j] \in Row
      BY <1>4, <1>5 DEF Inv, Core, Typed
    <2> QED
      BY <1>3, <2>1 DEF AfterRecovery, Typed, Inv, Core
  <1>7. \A j \in Jobs : RowInv(j, R[j], fl)
    <2> SUFFICES ASSUME NEW j \in Jobs PROVE RowInv(j, R[j], fl)
      OBVIOUS
    <2>1. rows[j] \in Row /\ RowInv(j, rows[j], floor) /\ floor \in Nat
      BY DEF Inv, Core, Typed
    <2>2. CASE j \in E
      <3>1. R[j].updated <= fl
        BY <2>2, <1>3, <1>4
      <3> QED
        BY <2>1, <2>2, <3>1, <1>4 DEF RowInv
    <2>3. CASE j \notin E
      BY <2>1, <2>3, <1>3, <1>5 DEF RowInv, Row
    <2> QED
      BY <2>2, <2>3
  <1>8. HolderInv(R, grants)
    BY <1>4, <1>5 DEF HolderInv, Inv, Core
  <1>9. \A j \in Jobs : R[j].attempt = rows[j].attempt
    BY <1>4, <1>5
  <1>10. GrantInv(R, grants, nextToken, fl)
    BY <1>3, <1>9 DEF GrantInv, Inv, Core, Typed, Lease
  <1>11. GrantOver(R, receipts, grants, fl)
    <2> SUFFICES ASSUME NEW g \in grants,
                        ~ (R[g.job].state = "leased" /\ R[g.job].attempt = g.attempt)
                 PROVE  Over(g, R, receipts, fl)
      BY DEF GrantOver
    <2>1. g \in Lease /\ g.job \in Jobs /\ rows[g.job] \in Row /\ floor \in Nat
      BY DEF Inv, Core, Typed, Lease
    <2>2. CASE rows[g.job].state = "leased" /\ rows[g.job].attempt = g.attempt
      <3>1. g.job \in E
        BY <2>1, <2>2, <1>5
      <3>2. LeaseOf(g.job, rows[g.job]) \in grants
        BY <2>1, <2>2 DEF Inv, Core, HolderInv
      <3>3. g = LeaseOf(g.job, rows[g.job])
        BY <2>2, <3>2 DEF Inv, Core, GrantUnique, LeaseOf
      <3>4. g.exp = rows[g.job].exp
        BY <3>3 DEF LeaseOf
      <3> QED
        BY <3>1, <3>4, <2>1, <1>1, <1>3 DEF Over, Row, Times
    <2>3. CASE ~ (rows[g.job].state = "leased" /\ rows[g.job].attempt = g.attempt)
      <3>1. Over(g, rows, receipts, floor)
        BY <2>3 DEF Inv, Core, GrantOver
      <3>2. rows[g.job].state \in Terminal => R[g.job].state \in Terminal
        BY <2>1, <1>2, <1>5 DEF Terminal
      <3> QED
        BY <3>1, <3>2, <2>1, <1>3 DEF Over, Inv, Core, Typed, Lease, Receipt
    <2> QED
      BY <2>2, <2>3
  <1>12. AppliedIn(R, receipts, applied)
    <2> SUFFICES ASSUME NEW j \in Jobs
                 PROVE  /\ applied[j] = IF R[j].state = "succeeded" THEN 1 ELSE 0
                        /\ R[j].state = "succeeded" =>
                             \E r \in receipts : r.job = j /\ r.outcome = "success"
                                                 /\ r.attempt = R[j].attempt
      BY DEF AppliedIn
    <2>1. CASE j \in E
      <3>1. rows[j].state # "succeeded" /\ R[j].state # "succeeded"
        BY <2>1, <1>2, <1>4
      <3>2. applied[j] = 0
        BY <3>1 DEF Inv, Core, AppliedIn
      <3> QED
        BY <3>1, <3>2
    <2>2. CASE j \notin E
      BY <2>2, <1>5 DEF Inv, Core, AppliedIn
    <2> QED
      BY <2>1, <2>2
  <1> QED
    BY <1>6, <1>7, <1>8, <1>10, <1>11, <1>12 DEF Core, Inv

-----------------------------------------------------------------------------
(* What leaseNext makes of the candidate row.                              *)
LEMMA GrantedRow ==
  ASSUME NEW row \in Row, NEW tok \in Nat, NEW t \in Nat
  PROVE  /\ Granted(row, tok, t) \in Row
         /\ Granted(row, tok, t).state = "leased"
         /\ Granted(row, tok, t).attempt = row.attempt + 1
         /\ Granted(row, tok, t).token = tok
         /\ Granted(row, tok, t).acq = t
         /\ Granted(row, tok, t).exp = t + LeaseMs
         /\ Granted(row, tok, t).updated = t
  <1>1. row.attempt + 1 \in Nat /\ t + LeaseMs \in Nat
    BY JobsAssumption DEF Row
  <1>2. Granted(row, tok, t) \in Row
    BY <1>1, ZenonT(60) DEF Granted, Row, States, Null
  <1> QED
    BY <1>2 DEF Granted, Row

(* Leasing an available job keeps the invariant: the new lease starts      *)
(* after every earlier lease of the job is over.                           *)
LEMMA GrantCore ==
  ASSUME NEW R, NEW Rc, NEW G, NEW n, NEW f, NEW ap,
         Core(R, Rc, G, n, f, ap),
         NEW j \in Jobs, R[j].state = "queued",
         NEW t \in Nat, t >= f
  PROVE  Core([R EXCEPT ![j] = Granted(@, n, t)], Rc,
              G \cup {[job |-> j, attempt |-> R[j].attempt + 1, token |-> n,
                       acq |-> t, exp |-> t + LeaseMs]},
              n + 1, t, ap)
  <1> DEFINE h == [job |-> j, attempt |-> R[j].attempt + 1, token |-> n,
                   acq |-> t, exp |-> t + LeaseMs]
             H == G \cup {h}
             S == [R EXCEPT ![j] = Granted(@, n, t)]
  <1>1. Typed(R, Rc, G, n, f, ap) /\ \A k \in Jobs : RowInv(k, R[k], f)
    BY DEF Core
  <1>2. HolderInv(R, G) /\ GrantInv(R, G, n, f) /\ GrantUnique(G)
    BY DEF Core
  <1>3. GrantOver(R, Rc, G, f) /\ DisjointIn(Rc, G) /\ AppliedIn(R, Rc, ap)
    BY DEF Core
  <1>4. R \in [Jobs -> Row] /\ R[j] \in Row /\ R[j].attempt \in Nat
        /\ n \in Nat /\ f \in Nat /\ G \subseteq Lease
    BY <1>1 DEF Typed, Row
  <1>5. /\ S[j] \in Row /\ S[j].state = "leased"
        /\ S[j].attempt = R[j].attempt + 1 /\ S[j].token = n /\ S[j].acq = t
        /\ S[j].exp = t + LeaseMs /\ S[j].updated = t
    <2>1. S[j] = Granted(R[j], n, t)
      BY <1>4
    <2> HIDE DEF S
    <2> QED
      BY <1>4, <2>1, GrantedRow
  <1>6. \A k \in Jobs : k # j => S[k] = R[k]
    BY <1>4
  <1>7. h \in Lease
    BY <1>4, JobsAssumption DEF Lease
  <1>8. Typed(S, Rc, H, n + 1, t, ap)
    <2>1. \A k \in Jobs : S[k] \in Row
      BY <1>4, <1>5, <1>6
    <2>2. S \in [Jobs -> Row]
      BY <1>4, <2>1
    <2> QED
      BY <1>1, <1>7, <2>2 DEF Typed
  <1>9. ASSUME NEW k \in Jobs PROVE RowInv(k, S[k], t)
    <2>1. CASE k = j
      BY <2>1, <1>1, <1>4, <1>5, JobsAssumption DEF RowInv
    <2>2. CASE k # j
      <3>1. R[k] \in Row /\ RowInv(k, R[k], f)
        BY <1>1, <1>4
      <3> QED
        BY <2>2, <3>1, <1>4, <1>6 DEF RowInv, Row
    <2> QED
      BY <2>1, <2>2
  <1>10. HolderInv(S, H)
    BY <1>2, <1>5, <1>6 DEF HolderInv, LeaseOf
  <1>11. GrantInv(S, H, n + 1, t)
    <2> SUFFICES ASSUME NEW g \in H
                 PROVE  /\ g.attempt >= 1 /\ g.attempt <= S[g.job].attempt
                        /\ g.token < n + 1 /\ g.acq <= t
      BY DEF GrantInv
    <2>1. CASE g = h
      BY <2>1, <1>4, <1>5
    <2>2. CASE g \in G
      <3>1. g \in Lease /\ g.job \in Jobs /\ g.attempt \in Nat /\ g.token \in Nat
            /\ g.acq \in Nat /\ R[g.job].attempt \in Nat
        BY <2>2, <1>4 DEF Lease, Row
      <3>2. g.attempt >= 1 /\ g.attempt <= R[g.job].attempt
            /\ g.token < n /\ g.acq <= f
        BY <2>2, <1>2 DEF GrantInv
      <3>3. R[g.job].attempt <= S[g.job].attempt
        BY <3>1, <1>4, <1>5, <1>6
      <3>4. S[g.job].attempt \in Nat
        BY <3>1, <1>8 DEF Typed, Row
      <3> QED
        BY <3>1, <3>2, <3>3, <3>4, <1>4
    <2> QED
      BY <2>1, <2>2
  <1>12. \A g \in G : g.token # n /\ ~ (g.job = j /\ g.attempt = R[j].attempt + 1)
    BY <1>2, <1>4 DEF GrantInv, Lease
  <1>13. GrantUnique(H)
    BY <1>2, <1>12 DEF GrantUnique
  <1>14. ASSUME NEW g \in G, g.job = j
         PROVE  \/ g.exp <= f
                \/ \E r \in Rc : /\ r.job = g.job /\ r.attempt = g.attempt
                                 /\ r.at <= f /\ r.outcome = "retry"
    BY <1>3, <1>14 DEF GrantOver, Over, Terminal
  <1>15. GrantOver(S, Rc, H, t)
    <2> SUFFICES ASSUME NEW g \in G,
                        ~ (S[g.job].state = "leased" /\ S[g.job].attempt = g.attempt)
                 PROVE  Over(g, S, Rc, t)
      <3>1. S[h.job].state = "leased" /\ S[h.job].attempt = h.attempt
        BY <1>5
      <3> HIDE DEF S, h
      <3> QED
        BY <3>1 DEF GrantOver
    <2>1. g \in Lease /\ g.exp \in Nat /\ \A r \in Rc : r.at \in Nat
      BY <1>1 DEF Typed, Lease, Receipt
    <2>2. CASE g.job = j
      BY <2>1, <2>2, <1>4, <1>14 DEF Over
    <2>3. CASE g.job # j
      <3>1. S[g.job] = R[g.job]
        BY <2>1, <2>3, <1>6 DEF Lease
      <3>2. Over(g, R, Rc, f)
        BY <3>1, <1>3 DEF GrantOver
      <3> QED
        BY <2>1, <3>1, <3>2, <1>4 DEF Over
    <2> QED
      BY <2>2, <2>3
  <1>16. DisjointIn(Rc, H)
    <2> SUFFICES ASSUME NEW g \in H, NEW k \in H,
                        g.job = k.job, g.attempt < k.attempt
                 PROVE  \/ k.acq >= g.exp
                        \/ \E r \in Rc : /\ r.job = g.job /\ r.attempt = g.attempt
                                         /\ r.outcome = "retry" /\ r.at <= k.acq
      BY DEF DisjointIn
    <2>1. CASE k \in G /\ g \in G
      BY <2>1, <1>3 DEF DisjointIn
    <2>2. CASE k = h /\ g \in G
      <3>1. g.exp \in Nat /\ \A r \in Rc : r.at \in Nat
        BY <2>2, <1>1 DEF Typed, Lease, Receipt
      <3> QED
        BY <2>2, <3>1, <1>4, <1>14
    <2>3. CASE g = h /\ k \in G
      BY <2>3, <1>2, <1>4 DEF GrantInv, Lease
    <2>4. CASE g = h /\ k = h
      BY <2>4, <1>4
    <2> QED
      BY <2>1, <2>2, <2>3, <2>4
  <1>17. AppliedIn(S, Rc, ap)
    <2>1. ap[j] = 0
      BY <1>3 DEF AppliedIn
    <2>2. ASSUME NEW k \in Jobs, k # j
          PROVE  S[k] = R[k]
      BY <2>2, <1>6
    <2> QED
      BY <2>1, <2>2, <1>3, <1>5 DEF AppliedIn
  <1> QED
    BY <1>8, <1>9, <1>10, <1>11, <1>13, <1>15, <1>16, <1>17 DEF Core

-----------------------------------------------------------------------------
(* A presented lease whose token the row still carries is the row's own    *)
(* lease: tokens are never drawn twice.                                    *)
LEMMA AcceptedIsHolder ==
  ASSUME Inv, NEW g \in grants, NEW clock, Accepts(g, clock)
  PROVE  g.job \in Jobs /\ g = LeaseOf(g.job, rows[g.job])
  <1>1. g.job \in Jobs
    BY DEF Inv, Core, Typed, Lease
  <1>2. LeaseOf(g.job, rows[g.job]) \in grants
    BY <1>1 DEF Inv, Core, HolderInv, Accepts
  <1>3. g.token = LeaseOf(g.job, rows[g.job]).token
    BY DEF Accepts, LeaseOf
  <1> QED
    BY <1>1, <1>2, <1>3 DEF Inv, Core, GrantUnique

(* How a job moves in one transaction, as its contract sees it.            *)
Moves(j, from, to) == rows[j].state = from /\ rows'[j].state = to

JobMove(j) ==
  \/ rows'[j] = rows[j] /\ applied'[j] = applied[j]
  \/ /\ \/ Moves(j, "absent", "queued")
        \/ Moves(j, "leased", "queued") /\ rows[j].attempt < MaxAttempts[j]
        \/ Moves(j, "leased", "dead")
     /\ rows'[j].attempt = rows[j].attempt /\ applied'[j] = applied[j]
  \/ /\ Moves(j, "queued", "leased") \/ Moves(j, "leased", "leased")
     /\ rows[j].attempt < MaxAttempts[j] /\ rows'[j].attempt = rows[j].attempt + 1
     /\ applied'[j] = applied[j]
  \/ /\ Moves(j, "leased", "succeeded")
     /\ rows'[j].attempt = rows[j].attempt /\ applied'[j] = applied[j] + 1

(* The rows the recovery walk leaves behind.                               *)
LEMMA WalkedRows ==
  ASSUME Inv, NEW clock \in Readings,
         NEW at \in RecoveryTimes(Expired(clock), clock),
         NEW j \in Jobs
  PROVE  \/ AfterRecovery(at)[j] = rows[j]
         \/ /\ rows[j].state = "leased"
            /\ AfterRecovery(at)[j].attempt = rows[j].attempt
            /\ \/ AfterRecovery(at)[j].state = "queued" /\ rows[j].attempt < MaxAttempts[j]
               \/ AfterRecovery(at)[j].state = "dead"
  <1>1. rows[j] \in Row /\ rows[j].attempt \in Nat /\ MaxAttempts[j] \in Nat
    BY JobsAssumption DEF Inv, Core, Typed, Row
  <1>2. DOMAIN at = Expired(clock)
    BY DEF RecoveryTimes
  <1>3. CASE j \in Expired(clock)
    <2>1. AfterRecovery(at)[j] = Recovered(j, at[j]) /\ at[j] \in Nat
      BY <1>2, <1>3, TimesNat DEF AfterRecovery, RecoveryTimes
    <2>2. rows[j].state = "leased"
      BY <1>3 DEF Expired
    <2> QED
      BY <1>1, <2>1, <2>2, RecoveredRow
  <1>4. CASE j \notin Expired(clock)
    BY <1>2, <1>4 DEF AfterRecovery
  <1> QED
    BY <1>3, <1>4

(* A worker transition keeps the invariant, whatever it makes of the row.  *)
LEMMA CloseCore ==
  ASSUME Inv, NEW g \in grants, NEW clock \in Readings, Accepts(g, clock),
         NEW t \in Minted(clock, rows[g.job].updated),
         NEW r \in ReceiptTimes(g, t),
         NEW outcome \in Outcomes, NEW previous \in Nat, NEW new \in Row, NEW ap,
         new.updated = t, new.attempt = rows[g.job].attempt,
         \/ new.state = "succeeded" /\ outcome = "success"
            /\ ap = [applied EXCEPT ![g.job] = @ + 1]
         \/ new.state = "queued" /\ outcome = "retry" /\ ap = applied
            /\ rows[g.job].attempt < MaxAttempts[g.job]
         \/ new.state = "dead" /\ ap = applied
  PROVE  Core([rows EXCEPT ![g.job] = new],
              receipts \cup {[job |-> g.job, attempt |-> g.attempt,
                              outcome |-> outcome, previous |-> previous,
                              at |-> r]},
              grants, nextToken, r, ap)
  <1> DEFINE x == [job |-> g.job, attempt |-> g.attempt,
                   outcome |-> outcome, previous |-> previous, at |-> r]
             S == [rows EXCEPT ![g.job] = new]
             X == receipts \cup {x}
  <1>1. g.job \in Jobs /\ g = LeaseOf(g.job, rows[g.job])
    BY AcceptedIsHolder
  <1>2. Typed(rows, receipts, grants, nextToken, floor, applied)
    BY DEF Inv, Core
  <1>3. /\ rows \in [Jobs -> Row] /\ floor \in Nat /\ applied \in [Jobs -> Nat]
        /\ rows[g.job].state = "leased" /\ rows[g.job].attempt = g.attempt
    BY <1>1, <1>2 DEF Typed, Accepts, LeaseOf
  <1>4. t \in Nat /\ t >= floor /\ r \in Nat /\ r >= t
    BY <1>3, TimesNat DEF Minted, ReceiptTimes, Readings
  <1>5. S[g.job] = new /\ \A k \in Jobs : k # g.job => S[k] = rows[k]
    BY <1>1, <1>3
  <1>6. x \in Receipt
    BY <1>1, <1>2, <1>4 DEF Receipt, Typed, Lease
  <1>7. Typed(S, X, grants, nextToken, r, ap)
    <2>1. S \in [Jobs -> Row]
      BY <1>3
    <2>2. ap \in [Jobs -> Nat]
      BY <1>3
    <2> QED
      BY <1>2, <1>4, <1>6, <2>1, <2>2 DEF Typed
  <1> HIDE DEF S
  <1>8. ASSUME NEW k \in Jobs PROVE RowInv(k, S[k], r)
    <2>1. rows[k] \in Row /\ RowInv(k, rows[k], floor)
      BY <1>3 DEF Inv, Core
    <2>2. CASE k = g.job
      BY <2>1, <2>2, <1>4, <1>5 DEF RowInv
    <2>3. CASE k # g.job
      BY <2>1, <2>3, <1>3, <1>4, <1>5 DEF RowInv, Row
    <2> QED
      BY <2>2, <2>3
  <1>9. HolderInv(S, grants)
    BY <1>5 DEF HolderInv, Inv, Core
  <1>10. \A k \in Jobs : S[k].attempt = rows[k].attempt
    BY <1>5
  <1>11. GrantInv(S, grants, nextToken, r)
    BY <1>2, <1>4, <1>10 DEF GrantInv, Inv, Core, Typed, Lease
  <1>12. GrantOver(S, X, grants, r)
    <2> SUFFICES ASSUME NEW h \in grants,
                        ~ (S[h.job].state = "leased" /\ S[h.job].attempt = h.attempt)
                 PROVE  Over(h, S, X, r)
      BY DEF GrantOver
    <2>1. h \in Lease /\ h.job \in Jobs /\ h.exp \in Nat
          /\ \A y \in receipts : y.at \in Nat
      BY <1>2 DEF Typed, Lease, Receipt
    <2>2. CASE h.job = g.job /\ h.attempt = g.attempt
      <3>1. x \in X /\ x.job = h.job /\ x.attempt = h.attempt /\ x.at <= r
        BY <2>2, <1>4
      <3>2. x.outcome = "retry" \/ S[h.job].state \in Terminal
        BY <2>2, <1>5 DEF Terminal
      <3> HIDE DEF x, X
      <3> QED
        BY <3>1, <3>2 DEF Over
    <2>3. CASE ~ (h.job = g.job /\ h.attempt = g.attempt)
      <3>1. Over(h, rows, receipts, floor)
        BY <2>1, <2>3, <1>3, <1>5 DEF Inv, Core, GrantOver
      <3>2. rows[h.job].state \in Terminal => S[h.job].state \in Terminal
        BY <2>1, <1>3, <1>5 DEF Terminal
      <3> QED
        BY <3>1, <3>2, <2>1, <1>3, <1>4 DEF Over
    <2> QED
      BY <2>2, <2>3
  <1>13. DisjointIn(X, grants)
    BY DEF DisjointIn, Inv, Core
  <1>14. AppliedIn(S, X, ap)
    <2> SUFFICES ASSUME NEW k \in Jobs
                 PROVE  /\ ap[k] = IF S[k].state = "succeeded" THEN 1 ELSE 0
                        /\ S[k].state = "succeeded" =>
                             \E y \in X : y.job = k /\ y.outcome = "success"
                                         /\ y.attempt = S[k].attempt
      BY DEF AppliedIn
    <2>1. /\ applied[k] = IF rows[k].state = "succeeded" THEN 1 ELSE 0
          /\ rows[k].state = "succeeded" =>
               \E y \in receipts : y.job = k /\ y.outcome = "success"
                                  /\ y.attempt = rows[k].attempt
      BY DEF Inv, Core, AppliedIn
    <2>2. CASE k = g.job
      <3>1. applied[k] = 0
        BY <2>1, <2>2, <1>3
      <3>2. ap[k] = IF S[k].state = "succeeded" THEN 1 ELSE 0
        BY <3>1, <2>2, <1>3, <1>5
      <3>3. S[k].state = "succeeded" =>
              x.job = k /\ x.outcome = "success" /\ x.attempt = S[k].attempt
        BY <2>2, <1>3, <1>5
      <3>4. x \in X
        OBVIOUS
      <3> HIDE DEF x, X
      <3> QED
        BY <3>2, <3>3, <3>4
    <2>3. CASE k # g.job
      BY <2>1, <2>3, <1>3, <1>5
    <2> QED
      BY <2>2, <2>3
  <1> QED
    BY <1>7, <1>8, <1>9, <1>11, <1>12, <1>13, <1>14 DEF Core, Inv, S

-----------------------------------------------------------------------------
(* The rows the operations write, field by field.                          *)
LEMMA ClosedRow ==
  ASSUME NEW g, rows[g.job] \in Row, g.attempt \in Nat, NEW t \in Nat
  PROVE  /\ Closed(g, t) \in Row
         /\ Closed(g, t).attempt = rows[g.job].attempt
         /\ Closed(g, t).avail = rows[g.job].avail
         /\ Closed(g, t).updated = t
  <1>1. rows[g.job].completion \in Nat
    BY DEF Row
  <1>2. Closed(g, t) \in Row
    BY <1>1, ZenonT(60) DEF Closed, Row, Null
  <1> QED
    BY <1>2 DEF Closed, Row

(* A worker transition back to the queue yields a row.                     *)
LEMMA QueuedRow ==
  ASSUME NEW a \in Nat, NEW t \in Nat
  PROVE  LET new == [NoRow EXCEPT !.state = "queued", !.initAvail = a,
                                  !.avail = a, !.created = t, !.updated = t]
         IN new \in Row /\ new.state = "queued" /\ new.attempt = 0
            /\ new.updated = t
  BY DEF NoRow, Row, States, Reasons, Null

(* enqueue.                                                                *)
LEMMA EnqueueStep ==
  ASSUME Inv, NEW j \in Jobs, NEW requested \in Times, Enqueue(j, requested)
  PROVE  Inv' /\ \A k \in Jobs : JobMove(k)
  <1>1. PICK t \in Minted(floor, Null) :
          /\ rows' = [rows EXCEPT ![j] =
               [NoRow EXCEPT !.state = "queued", !.initAvail = MaxOf(requested, t),
                             !.avail = MaxOf(requested, t),
                             !.created = t, !.updated = t]]
          /\ floor' = t
    BY DEF Enqueue
  <1>2. t \in Nat /\ t >= floor /\ MaxOf(requested, t) \in Nat
    BY TimesNat DEF Minted, MaxOf
  <1> DEFINE new == [NoRow EXCEPT !.state = "queued",
                                  !.initAvail = MaxOf(requested, t),
                                  !.avail = MaxOf(requested, t),
                                  !.created = t, !.updated = t]
  <1>3. new \in Row /\ new.state = "queued" /\ new.attempt = 0 /\ new.updated = t
    BY <1>2, QueuedRow
  <1>4. rows' = [rows EXCEPT ![j] = new]
    BY <1>1
  <1> HIDE DEF new
  <1>t. floor' = t
    BY <1>1
  <1>5. Typed(rows, receipts, grants, nextToken, floor, applied)
    BY DEF Inv, Core
  <1>6. rows[j].state = "absent" /\ rows[j].attempt = 0
        /\ UNCHANGED <<receipts, grants, nextToken, applied>>
    BY DEF Enqueue, Inv, Core, RowInv
  <1>7. rows'[j] = new /\ \A k \in Jobs : k # j => rows'[k] = rows[k]
    BY <1>4, <1>5 DEF Typed
  <1>8. \A k \in Jobs : rows'[k].attempt = rows[k].attempt
    BY <1>3, <1>6, <1>7
  <1>9. Typed(rows', receipts', grants', nextToken', floor', applied')
    BY <1>1, <1>2, <1>3, <1>4, <1>5, <1>6 DEF Typed
  <1>10. ASSUME NEW k \in Jobs PROVE RowInv(k, rows'[k], floor')
    <2>1. rows[k] \in Row /\ RowInv(k, rows[k], floor) /\ floor \in Nat
      BY <1>5 DEF Inv, Core, Typed
    <2>2. CASE k = j
      BY <2>2, <1>2, <1>3, <1>t, <1>7, JobsAssumption DEF RowInv
    <2>3. CASE k # j
      BY <2>1, <2>3, <1>1, <1>2, <1>7 DEF RowInv, Row
    <2> QED
      BY <2>2, <2>3
  <1>11. HolderInv(rows', grants')
    BY <1>3, <1>6, <1>7 DEF HolderInv, Inv, Core
  <1>12. GrantInv(rows', grants', nextToken', floor')
    BY <1>1, <1>2, <1>5, <1>6, <1>8 DEF GrantInv, Inv, Core, Typed, Lease
  <1>13. GrantOver(rows', receipts', grants', floor')
    <2> SUFFICES ASSUME NEW g \in grants,
                        ~ (rows'[g.job].state = "leased" /\ rows'[g.job].attempt = g.attempt)
                 PROVE  Over(g, rows', receipts', floor')
      BY <1>6 DEF GrantOver
    <2>1. g \in Lease /\ g.job \in Jobs /\ g.exp \in Nat /\ g.attempt \in Nat
          /\ \A y \in receipts : y.at \in Nat
      BY <1>5 DEF Typed, Lease, Receipt
    <2>2. g.job # j
      <3>1. g.attempt >= 1 /\ g.attempt <= rows[g.job].attempt
        BY DEF Inv, Core, GrantInv
      <3> QED
        BY <2>1, <3>1, <1>6
    <2>3. Over(g, rows, receipts, floor)
      BY <2>1, <2>2, <1>7 DEF Inv, Core, GrantOver
    <2> QED
      BY <2>1, <2>2, <2>3, <1>1, <1>2, <1>5, <1>6, <1>7 DEF Over, Typed
  <1>14. DisjointIn(receipts', grants') /\ GrantUnique(grants')
    BY <1>6 DEF Inv, Core
  <1>15. AppliedIn(rows', receipts', applied')
    <2>1. applied[j] = 0
      BY <1>6 DEF Inv, Core, AppliedIn
    <2> QED
      BY <2>1, <1>3, <1>6, <1>7 DEF Inv, Core, AppliedIn
  <1>16. \A k \in Jobs : JobMove(k)
    BY <1>3, <1>6, <1>7 DEF JobMove, Moves
  <1> QED
    BY <1>9, <1>10, <1>11, <1>12, <1>13, <1>14, <1>15, <1>16 DEF Inv, Core

-----------------------------------------------------------------------------
(* leaseNext: the recovery walk, then the lease.                           *)
LEMMA LeaseStep ==
  ASSUME Inv, LeaseNext
  PROVE  Inv' /\ \A k \in Jobs : JobMove(k)
  <1>a. PICK clock \in Readings : \E at \in RecoveryTimes(Expired(clock), clock) :
          \E j \in Jobs : LET R == AfterRecovery(at) IN
            /\ IsCandidate(R, j, clock)
            /\ \E fl \in LastReading(at, clock), t \in Times :
                 /\ t \in AcquireTimes(R, fl, j)
                 /\ rows' = [R EXCEPT ![j] = Granted(@, nextToken, t)]
                 /\ grants' = grants \cup
                      {[job |-> j, attempt |-> R[j].attempt + 1,
                        token |-> nextToken, acq |-> t, exp |-> t + LeaseMs]}
                 /\ nextToken' = nextToken + 1
                 /\ floor' = t
                 /\ UNCHANGED <<receipts, applied>>
    BY DEF LeaseNext
  <1>b. PICK at \in RecoveryTimes(Expired(clock), clock) :
          \E j \in Jobs : LET R == AfterRecovery(at) IN
            /\ IsCandidate(R, j, clock)
            /\ \E fl \in LastReading(at, clock), t \in Times :
                 /\ t \in AcquireTimes(R, fl, j)
                 /\ rows' = [R EXCEPT ![j] = Granted(@, nextToken, t)]
                 /\ grants' = grants \cup
                      {[job |-> j, attempt |-> R[j].attempt + 1,
                        token |-> nextToken, acq |-> t, exp |-> t + LeaseMs]}
                 /\ nextToken' = nextToken + 1
                 /\ floor' = t
                 /\ UNCHANGED <<receipts, applied>>
    BY <1>a
  <1>1. PICK j \in Jobs, fl \in LastReading(at, clock), t \in Times :
          /\ IsCandidate(AfterRecovery(at), j, clock)
          /\ t \in AcquireTimes(AfterRecovery(at), fl, j)
          /\ rows' = [AfterRecovery(at) EXCEPT ![j] = Granted(@, nextToken, t)]
          /\ grants' = grants \cup
               {[job |-> j, attempt |-> AfterRecovery(at)[j].attempt + 1,
                 token |-> nextToken, acq |-> t, exp |-> t + LeaseMs]}
          /\ nextToken' = nextToken + 1
          /\ floor' = t
          /\ UNCHANGED <<receipts, applied>>
    BY <1>b
  <1>2. Core(AfterRecovery(at), receipts, grants, nextToken, fl, applied)
    BY RecoveryCore
  <1>3. t \in Nat /\ t >= fl
    BY <1>1, TimesNat DEF AcquireTimes, Minted
  <1>4. AfterRecovery(at)[j].state = "queued"
        /\ AfterRecovery(at)[j].attempt < MaxAttempts[j]
    BY <1>1 DEF IsCandidate, Leasable
  <1>5. /\ AfterRecovery(at) \in [Jobs -> Row] /\ nextToken \in Nat
        /\ AfterRecovery(at)[j] \in Row
    BY <1>2 DEF Core, Typed
  <1>6. /\ rows'[j] = Granted(AfterRecovery(at)[j], nextToken, t)
        /\ \A k \in Jobs \ {j} : rows'[k] = AfterRecovery(at)[k]
    BY <1>1, <1>5
  <1>7. rows'[j].state = "leased" /\ rows'[j].attempt = AfterRecovery(at)[j].attempt + 1
    BY <1>3, <1>5, <1>6, GrantedRow
  <1>8. ASSUME NEW k \in Jobs
        PROVE  JobMove(k)
    <2>1. applied'[k] = applied[k]
      BY <1>1
    <2>2. CASE k = j
      BY <1>4, <1>7, <2>1, <2>2, WalkedRows DEF JobMove, Moves
    <2>3. CASE k # j
      BY <1>6, <2>1, <2>3, WalkedRows DEF JobMove, Moves
    <2> QED
      BY <2>2, <2>3
  <1>9. Inv'
    BY <1>1, <1>2, <1>3, <1>4, GrantCore DEF Inv
  <1> QED
    BY <1>8, <1>9

(* leaseNext without a candidate.                                          *)
LEMMA RecoverStep ==
  ASSUME Inv, RecoverOnly
  PROVE  Inv' /\ \A k \in Jobs : JobMove(k)
  <1>a. PICK clock \in Readings : \E at \in RecoveryTimes(Expired(clock), clock) :
          rows' = AfterRecovery(at) /\ applied' = applied
    BY DEF RecoverOnly
  <1>1. PICK at \in RecoveryTimes(Expired(clock), clock) :
          rows' = AfterRecovery(at) /\ applied' = applied
    BY <1>a
  <1>2. \A k \in Jobs : JobMove(k)
    BY <1>1, WalkedRows DEF JobMove, Moves
  <1>3. Inv'
    BY RecoveryCore DEF RecoverOnly, Inv
  <1> QED
    BY <1>2, <1>3

(* complete and its receipt.                                               *)
LEMMA CompleteStep ==
  ASSUME Inv, NEW g \in grants, Complete(g)
  PROVE  Inv' /\ \A k \in Jobs : JobMove(k)
  <1> DEFINE made(t) == [Closed(g, t) EXCEPT !.state = "succeeded",
                           !.completedAt = t, !.reason = "worker_succeeded",
                           !.lastError = FALSE]
             Step(clock, t) == /\ Accepts(g, clock)
                               /\ rows' = [rows EXCEPT ![g.job] = made(t)]
                               /\ applied' = [applied EXCEPT ![g.job] = @ + 1]
                               /\ UNCHANGED <<grants, nextToken>>
  <1>c. PICK clock \in Readings : \E t \in Minted(clock, rows[g.job].updated) :
          /\ Step(clock, t)
          /\ \E r \in ReceiptTimes(g, t) : Record(g, made(t), r)
    BY DEF Complete
  <1>0. PICK t \in Minted(clock, rows[g.job].updated) :
          /\ Step(clock, t)
          /\ \E r \in ReceiptTimes(g, t) : Record(g, made(t), r)
    BY <1>c
  <1>1. PICK r \in ReceiptTimes(g, t) : Step(clock, t) /\ Record(g, made(t), r)
    BY <1>0
  <1>2. g.job \in Jobs /\ rows[g.job] \in Row /\ g.attempt \in Nat /\ t \in Nat
    BY TimesNat DEF Inv, Core, Typed, Lease, Minted
  <1>3. Closed(g, t) \in Row /\ Closed(g, t).attempt = rows[g.job].attempt
        /\ Closed(g, t).updated = t
    BY <1>2, ClosedRow
  <1>4. /\ made(t) \in Row /\ made(t).state = "succeeded"
        /\ made(t).attempt = rows[g.job].attempt /\ made(t).updated = t
    BY <1>2, <1>3 DEF Row, States, Reasons
  <1>5. made(t).previous \in Nat
    BY <1>4 DEF Row
  <1> DEFINE new == made(t)
  <1>6. "success" \in Outcomes
    BY DEF Outcomes
  <1>8. OutcomeOf(made(t).state) = "success"
    BY <1>4 DEF OutcomeOf
  <1> HIDE DEF made
  <1>7. Core(rows', receipts', grants, nextToken, r, applied')
    <2>1. /\ Accepts(g, clock)
          /\ rows' = [rows EXCEPT ![g.job] = new]
          /\ applied' = [applied EXCEPT ![g.job] = @ + 1]
          /\ receipts' = receipts \cup {[job |-> g.job, attempt |-> g.attempt,
                                          outcome |-> "success",
                                          previous |-> made(t).previous, at |-> r]}
      BY <1>1, <1>8 DEF Record, Transition
    <2> QED
      BY <2>1, <1>4, <1>5, <1>6, CloseCore
  <1>9. \A k \in Jobs : JobMove(k)
    <2>1. rows \in [Jobs -> Row] /\ applied \in [Jobs -> Nat]
      BY DEF Inv, Core, Typed
    <2>2. /\ rows'[g.job] = new /\ applied'[g.job] = applied[g.job] + 1
          /\ \A k \in Jobs \ {g.job} : rows'[k] = rows[k] /\ applied'[k] = applied[k]
      BY <1>1, <1>2, <2>1
    <2>3. rows[g.job].state = "leased"
      BY <1>1 DEF Accepts
    <2> QED
      BY <1>4, <2>2, <2>3 DEF JobMove, Moves
  <1> QED
    BY <1>1, <1>7, <1>9 DEF Inv, Record

(* fail and its receipt.                                                   *)
LEMMA FailStep ==
  ASSUME Inv, NEW g \in grants, NEW disposition \in {"retry", "dead"},
         NEW retryAt \in Nat, Fail(g, disposition, retryAt)
  PROVE  Inv' /\ \A k \in Jobs : JobMove(k)
  <1> DEFINE dead == disposition = "dead" \/ rows[g.job].attempt >= MaxAttempts[g.job]
             later(t) == MaxOf(MaxOf(retryAt, t), rows[g.job].initAvail)
             made(t) == [Closed(g, t) EXCEPT
                           !.state = IF dead THEN "dead" ELSE "queued",
                           !.avail = IF dead THEN @ ELSE later(t),
                           !.completedAt = IF dead THEN t ELSE Null,
                           !.reason = IF dead THEN "worker_dead" ELSE "null",
                           !.lastError = TRUE]
             outcome == IF dead THEN "dead" ELSE "retry"
  <1>c. PICK clock \in Readings : \E t \in Minted(clock, rows[g.job].updated) :
          /\ Accepts(g, clock)
          /\ rows' = [rows EXCEPT ![g.job] = made(t)]
          /\ \E r \in ReceiptTimes(g, t) : Record(g, made(t), r)
          /\ UNCHANGED <<grants, nextToken, applied>>
    BY DEF Fail
  <1>0. PICK t \in Minted(clock, rows[g.job].updated) :
          /\ Accepts(g, clock)
          /\ rows' = [rows EXCEPT ![g.job] = made(t)]
          /\ \E r \in ReceiptTimes(g, t) : Record(g, made(t), r)
          /\ UNCHANGED <<grants, nextToken, applied>>
    BY <1>c
  <1>1. PICK r \in ReceiptTimes(g, t) :
          /\ Accepts(g, clock)
          /\ rows' = [rows EXCEPT ![g.job] = made(t)]
          /\ Record(g, made(t), r)
          /\ UNCHANGED <<grants, nextToken, applied>>
    BY <1>0
  <1>2. g.job \in Jobs /\ rows[g.job] \in Row /\ g.attempt \in Nat /\ t \in Nat
    BY TimesNat DEF Inv, Core, Typed, Lease, Minted
  <1>3. Closed(g, t) \in Row /\ Closed(g, t).attempt = rows[g.job].attempt
        /\ Closed(g, t).updated = t /\ Closed(g, t).avail = rows[g.job].avail
    BY <1>2, ClosedRow
  <1>4. later(t) \in Nat /\ rows[g.job].avail \in Nat
        /\ rows[g.job].attempt \in Nat /\ MaxAttempts[g.job] \in Nat
    BY <1>2, JobsAssumption DEF MaxOf, Row
  <1>5. /\ made(t) \in Row /\ made(t).state = (IF dead THEN "dead" ELSE "queued")
        /\ made(t).attempt = rows[g.job].attempt /\ made(t).updated = t
    <2> HIDE DEF later
    <2>1. CASE dead
      <3>1. made(t) = [Closed(g, t) EXCEPT !.state = "dead", !.avail = rows[g.job].avail,
                         !.completedAt = t, !.reason = "worker_dead", !.lastError = TRUE]
        BY <2>1, <1>3
      <3> HIDE DEF made, dead
      <3> QED
        BY <2>1, <3>1, <1>2, <1>3, <1>4 DEF Row, States, Reasons
    <2>2. CASE ~ dead
      <3>1. made(t) = [Closed(g, t) EXCEPT !.state = "queued", !.avail = later(t),
                         !.completedAt = Null, !.reason = "null", !.lastError = TRUE]
        BY <2>2, <1>3
      <3> HIDE DEF made, dead
      <3>2. \A row \in Row, a \in Nat :
              [row EXCEPT !.state = "queued", !.avail = a, !.completedAt = Null,
                          !.reason = "null", !.lastError = TRUE] \in Row
        BY DEF Row, States, Reasons, Null
      <3>3. made(t) \in Row
        BY <3>1, <3>2, <1>3, <1>4, Zenon
      <3>4. made(t).state = "queued" /\ made(t).attempt = Closed(g, t).attempt
            /\ made(t).updated = Closed(g, t).updated
        BY <3>1, <1>3 DEF Row
      <3> QED
        BY <2>2, <3>3, <3>4, <1>3
    <2> QED
      BY <2>1, <2>2
  <1>6. outcome \in Outcomes
    BY DEF Outcomes
  <1>7. \/ made(t).state = "dead"
        \/ made(t).state = "queued" /\ outcome = "retry"
           /\ rows[g.job].attempt < MaxAttempts[g.job]
    BY <1>4, <1>5
  <1>10. OutcomeOf(made(t).state) = outcome
    BY <1>5 DEF OutcomeOf
  <1> HIDE DEF made, outcome, dead
  <1>8. made(t).previous \in Nat
    BY <1>5 DEF Row
  <1>9. Core(rows', receipts', grants, nextToken, r, applied)
    <2>1. receipts' = receipts \cup {[job |-> g.job, attempt |-> g.attempt,
                                      outcome |-> outcome,
                                      previous |-> made(t).previous, at |-> r]}
      BY <1>1, <1>10 DEF Record, Transition
    <2> QED
      BY <1>1, <1>5, <1>6, <1>7, <1>8, <2>1, CloseCore
  <1>11. \A k \in Jobs : JobMove(k)
    <2>1. rows \in [Jobs -> Row] /\ applied' = applied
      BY <1>1 DEF Inv, Core, Typed
    <2>2. /\ rows'[g.job] = made(t)
          /\ \A k \in Jobs \ {g.job} : rows'[k] = rows[k]
      BY <1>1, <1>2, <2>1
    <2>3. rows[g.job].state = "leased"
      BY <1>1 DEF Accepts
    <2> QED
      BY <1>5, <1>7, <2>1, <2>2, <2>3 DEF JobMove, Moves
  <1> QED
    BY <1>1, <1>9, <1>11 DEF Inv, Record

(* Every step of the queue.                                                *)
LEMMA NextMoves ==
  ASSUME Inv, [Next]_vars
  PROVE  Inv' /\ \A k \in Jobs : JobMove(k)
  <1>1. ASSUME NEW j \in Jobs, NEW requested \in Times, Enqueue(j, requested)
        PROVE  Inv' /\ \A k \in Jobs : JobMove(k)
    BY <1>1, EnqueueStep
  <1>2. CASE LeaseNext
    BY <1>2, LeaseStep
  <1>3. CASE RecoverOnly
    BY <1>3, RecoverStep
  <1>4. ASSUME NEW g \in grants, Complete(g)
        PROVE  Inv' /\ \A k \in Jobs : JobMove(k)
    BY <1>4, CompleteStep
  <1>5. ASSUME NEW g \in grants, NEW retryAt \in Times, Fail(g, "retry", retryAt)
        PROVE  Inv' /\ \A k \in Jobs : JobMove(k)
    BY <1>5, TimesNat, FailStep
  <1>6. ASSUME NEW g \in grants, Fail(g, "dead", Null)
        PROVE  Inv' /\ \A k \in Jobs : JobMove(k)
    BY <1>6, FailStep DEF Null
  <1>7. CASE UNCHANGED vars
    BY <1>7 DEF Inv, vars, JobMove
  <1> QED
    BY <1>1, <1>2, <1>3, <1>4, <1>5, <1>6, <1>7 DEF Next

LEMMA NextCore == Inv /\ [Next]_vars => Inv'
  BY NextMoves

(* The invariant holds throughout; it is the argument of every theorem here.*)
LEMMA InvAlways == Spec => []Inv
  BY InitCore, NextCore, PTL DEF Spec

-----------------------------------------------------------------------------
(* The variables of the queue keep their types.                            *)
THEOREM TypeCorrect == Spec => []TypeOK
  <1>1. Inv => TypeOK
    BY DEF Inv, Core, Typed, TypeOK
  <1> QED
    BY <1>1, InvAlways, PTL

(* However often completions are presented, and by whom, the business      *)
(* result of a job is committed once, exactly when its row succeeds, and   *)
(* the receipt of that commit is there.                                    *)
THEOREM BusinessOnce == Spec => []AppliedOnce
  <1>1. Inv => AppliedOnce
    BY DEF Inv, Core, AppliedIn, AppliedOnce
  <1> QED
    BY <1>1, InvAlways, PTL

(* Leases of one job never overlap, whatever the clock does: a later lease *)
(* starts after the earlier one expired or was handed back.                *)
THEOREM LeaseExclusion == Spec => []LeasesDisjoint
  <1>1. Inv => LeasesDisjoint
    BY DEF Inv, Core, DisjointIn, LeasesDisjoint
  <1> QED
    BY <1>1, InvAlways, PTL

(* Every transaction of the queue is, for each job, a step of its contract *)
(* or none, also when leaseNext moves several jobs at once: the queue      *)
(* implements JobContract under arbitrary callers.                         *)
THEOREM QueueKeepsContract == Spec => KeepsContract
  <1>1. Init => Promise!Init
    BY DEF Init, NoRow, Promise!Init, ContractState, PhaseOf
  <1>2. ASSUME Inv, Inv', NEW j \in Jobs, JobMove(j)
        PROVE  ContractState'[j] = ContractState[j] \/ Promise!JobStep(j)
    <2>1. /\ rows[j] \in Row /\ rows'[j] \in Row
          /\ applied[j] = (IF rows[j].state = "succeeded" THEN 1 ELSE 0)
          /\ (rows[j].state = "absent" => rows[j].attempt = 0)
      BY <1>2 DEF Inv, Core, Typed, AppliedIn, RowInv
    <2>2. /\ ContractState[j] = [phase |-> PhaseOf(rows[j]), tries |-> rows[j].attempt,
                                 effects |-> applied[j]]
          /\ ContractState'[j] = [phase |-> PhaseOf(rows'[j]), tries |-> rows'[j].attempt,
                                  effects |-> applied'[j]]
      BY DEF ContractState
    <2>3. CASE rows'[j] = rows[j] /\ applied'[j] = applied[j]
      BY <2>2, <2>3
    <2>4. CASE Moves(j, "absent", "queued")
      BY <1>2, <2>1, <2>2, <2>4 DEF JobMove, Moves, PhaseOf, Promise!JobStep, Promise!Submit,
         Promise!Moves
    <2>5. CASE Moves(j, "leased", "queued") \/ Moves(j, "leased", "dead")
      BY <1>2, <2>1, <2>2, <2>5 DEF JobMove, Moves, PhaseOf, Promise!JobStep,
         Promise!TryAgain, Promise!GiveUp, Promise!Moves
    <2>6. CASE Moves(j, "queued", "leased") \/ Moves(j, "leased", "leased")
      BY <1>2, <2>1, <2>2, <2>6 DEF JobMove, Moves, PhaseOf, Promise!JobStep, Promise!Begin,
         Promise!HandOver, Promise!Moves
    <2>7. CASE Moves(j, "leased", "succeeded")
      BY <1>2, <2>1, <2>2, <2>7 DEF JobMove, Moves, PhaseOf, Promise!JobStep, Promise!Finish,
         Promise!Moves
    <2> QED
      BY <1>2, <2>3, <2>4, <2>5, <2>6, <2>7 DEF JobMove
  <1>3. ASSUME NEW row \in Row, NEW n,
               n = (IF row.state = "succeeded" THEN 1 ELSE 0)
        PROVE  [phase |-> PhaseOf(row), tries |-> row.attempt, effects |-> n]
                 \in Promise!Contract
    BY <1>3 DEF PhaseOf, Promise!Contract, Promise!Phases, Row, States
  <1>4. ASSUME Inv'
        PROVE  ContractState' \in [Jobs -> Promise!Contract]
    <2>1. \A j \in Jobs : /\ rows'[j] \in Row
                          /\ applied'[j] = (IF rows'[j].state = "succeeded" THEN 1 ELSE 0)
      BY <1>4 DEF Inv, Core, Typed, AppliedIn
    <2>2. \A j \in Jobs :
            [phase |-> PhaseOf(rows'[j]), tries |-> rows'[j].attempt, effects |-> applied'[j]]
              \in Promise!Contract
      BY <1>3, <2>1
    <2> QED
      BY <2>2 DEF ContractState
  <1>5. Inv /\ [Next]_vars => [Promise!Next]_ContractState
    <2> SUFFICES ASSUME Inv, [Next]_vars PROVE Promise!Next
      OBVIOUS
    <2>1. Inv' /\ \A j \in Jobs : JobMove(j)
      BY NextMoves
    <2> QED
      BY <1>2, <1>4, <2>1 DEF Promise!Next
  <1> QED
    BY <1>1, <1>5, InvAlways, PTL DEF Spec, KeepsContract, Promise!Spec

-----------------------------------------------------------------------------
(* The books of the store: every row is one decodeRow accepts, its lineage *)
(* columns name its last two receipts, every receipt lies inside the lease *)
(* of its attempt and before every later one, and every attempt counted    *)
(* was handed out.                                                         *)
Sound(j, row) ==
  /\ Decodable(j, row)
  /\ row.state = "absent" => row = NoRow
  /\ row.completion <= row.attempt
  /\ row.state = "leased" \/ row.reason = "lease_expired_attempts_exhausted" =>
       row.completion < row.attempt

Lined(j, row, Rc) ==
  /\ row.completion # Null => \E r \in Rc : r.job = j /\ r.attempt = row.completion
  /\ row.previous # Null => \E r \in Rc : r.job = j /\ r.attempt = row.previous
  /\ \A r \in Rc : r.job = j =>
       /\ r.attempt <= row.completion
       /\ r.attempt = row.completion \/ r.attempt <= row.previous

Past(Rc, G, f) ==
  \A r \in Rc :
    /\ r.at <= f
    /\ \E g \in G : /\ g.job = r.job /\ g.attempt = r.attempt
                    /\ g.acq < r.at /\ r.at < g.exp
    /\ \A h \in G : h.job = r.job /\ h.attempt > r.attempt => r.at <= h.acq

Handed(R, G) ==
  \A j \in Jobs : \A a \in 1 .. R[j].attempt :
    \E g \in G : g.job = j /\ g.attempt = a

Kept(R, Rc, G, f) ==
  /\ \A j \in Jobs : Sound(j, R[j]) /\ Lined(j, R[j], Rc)
  /\ Past(Rc, G, f)
  /\ Handed(R, G)

Books == Kept(rows, receipts, grants, floor)

(* How a stored row may change in one transaction.                         *)
Legal(j) ==
  rows[j].state # "absent" /\ rows'[j] # rows[j] =>
    \/ TransitionAllowed(j, rows[j], rows'[j])
    \/ \E t \in Times : /\ TransitionAllowed(j, rows[j], Recovered(j, t))
                       /\ TransitionAllowed(j, Recovered(j, t), rows'[j])

LEMMA InitBooks == Init => Books
  <1> SUFFICES ASSUME Init PROVE Books
    OBVIOUS
  <1>1. \A j \in Jobs : rows[j] = NoRow
    BY DEF Init
  <1>2. ASSUME NEW j \in Jobs PROVE Sound(j, NoRow) /\ Lined(j, NoRow, {})
    BY JobsAssumption DEF Sound, Lined, Decodable, CountsDecode,
        LineageDecodes, StateDecodes, NoRow, Null, Terminal
  <1>3. Past(receipts, grants, floor) /\ Handed(rows, grants)
    BY <1>1 DEF Init, Past, Handed, NoRow
  <1> QED
    BY <1>1, <1>2, <1>3 DEF Books, Kept, Init

-----------------------------------------------------------------------------
(* transitionExpiredLease makes a row that can be decoded, by a transition *)
(* the trigger accepts.                                                    *)
LEMMA RecoveredSound ==
  ASSUME NEW j \in Jobs, rows[j] \in Row, Sound(j, rows[j]),
         rows[j].state = "leased", rows[j].attempt <= MaxAttempts[j],
         NEW t \in Nat, t > rows[j].updated, t >= rows[j].exp
  PROVE  /\ Sound(j, Recovered(j, t))
         /\ TransitionAllowed(j, rows[j], Recovered(j, t))
         /\ Recovered(j, t).completion = rows[j].completion
         /\ Recovered(j, t).previous = rows[j].previous
  <1> DEFINE old == rows[j]
             new == Recovered(j, t)
  <1>1. /\ old.attempt \in Nat /\ old.completion \in Nat /\ old.previous \in Nat
        /\ old.updated \in Nat /\ old.exp \in Nat /\ old.acq \in Nat
        /\ old.avail \in Nat /\ old.initAvail \in Nat /\ old.created \in Nat
        /\ MaxAttempts[j] \in Nat
    BY JobsAssumption DEF Row
  <1>2. /\ new.attempt = old.attempt /\ new.initAvail = old.initAvail
        /\ new.token = Null /\ new.acq = Null /\ new.exp = Null
        /\ new.completion = old.completion /\ new.previous = old.previous
        /\ new.lastError = TRUE /\ new.created = old.created /\ new.updated = t
    BY DEF Recovered, Row
  <1>3. CASE old.attempt >= MaxAttempts[j]
    <2>1. /\ new.state = "dead" /\ new.avail = old.avail /\ new.completedAt = t
          /\ new.reason = "lease_expired_attempts_exhausted"
      BY <1>3 DEF Recovered, Exhausted, Row
    <2> HIDE DEF new
    <2>2. Decodable(j, new)
      BY <1>1, <1>2, <1>3, <2>1 DEF Sound, Decodable, CountsDecode,
        LineageDecodes, StateDecodes, Terminal, Null
    <2>3. Sound(j, new)
      BY <1>1, <1>2, <2>1, <2>2 DEF Sound
    <2>4. TransitionAllowed(j, old, new)
      BY <1>1, <1>2, <1>3, <2>1 DEF TransitionAllowed, LineageKept, Terminal
    <2> QED
      BY <1>2, <2>3, <2>4 DEF new
  <1>4. CASE ~ old.attempt >= MaxAttempts[j]
    <2>1. /\ new.state = "queued" /\ new.avail = t /\ new.completedAt = Null
          /\ new.reason = "null"
      BY <1>4 DEF Recovered, Exhausted, Row
    <2> HIDE DEF new
    <2>2. Decodable(j, new)
      BY <1>1, <1>2, <1>4, <2>1 DEF Sound, Decodable, CountsDecode,
        LineageDecodes, StateDecodes, Terminal, Null
    <2>3. Sound(j, new)
      BY <1>1, <1>2, <2>1, <2>2 DEF Sound
    <2>4. TransitionAllowed(j, old, new)
      BY <1>1, <1>2, <1>4, <2>1 DEF TransitionAllowed, LineageKept, Terminal
    <2> QED
      BY <1>2, <2>3, <2>4 DEF new
  <1> QED
    BY <1>3, <1>4

(* So does the lease of an available row.                                  *)
LEMMA GrantedSound ==
  ASSUME NEW j \in Jobs, NEW row \in Row, Sound(j, row), row.state = "queued",
         NEW tok \in Nat \ {0}, NEW t \in Nat, t > row.updated, t >= row.avail
  PROVE  /\ Sound(j, Granted(row, tok, t))
         /\ TransitionAllowed(j, row, Granted(row, tok, t))
         /\ Granted(row, tok, t).completion = row.completion
         /\ Granted(row, tok, t).previous = row.previous
  <1> DEFINE new == Granted(row, tok, t)
  <1>1. /\ row.attempt \in Nat /\ row.completion \in Nat /\ row.previous \in Nat
        /\ row.updated \in Nat /\ row.avail \in Nat /\ row.initAvail \in Nat
        /\ row.created \in Nat /\ MaxAttempts[j] \in Nat /\ LeaseMs \in Nat \ {0}
    BY JobsAssumption DEF Row
  <1>2. /\ new.attempt = row.attempt + 1 /\ new.initAvail = row.initAvail
        /\ new.avail = row.avail /\ new.token = tok /\ new.acq = t
        /\ new.exp = t + LeaseMs /\ new.completedAt = Null
        /\ new.completion = row.completion /\ new.previous = row.previous
        /\ new.lastError = row.lastError /\ new.created = row.created
        /\ new.updated = t /\ new.state = "leased" /\ new.reason = row.reason
    BY DEF Granted, Row
  <1> HIDE DEF new
  <1>3. Decodable(j, new)
    BY <1>1, <1>2 DEF Sound, Decodable, CountsDecode,
        LineageDecodes, StateDecodes, Terminal, Null
  <1>4. Sound(j, new)
    BY <1>1, <1>2, <1>3 DEF Sound
  <1>5. TransitionAllowed(j, row, new)
    BY <1>1, <1>2 DEF TransitionAllowed, LineageKept
  <1> QED
    BY <1>2, <1>4, <1>5 DEF new

(* So does what complete and fail make of a leased row.                    *)
LEMMA WorkerSound ==
  ASSUME NEW j \in Jobs, NEW old \in Row, NEW new \in Row, NEW t \in Nat,
         Sound(j, old), old.state = "leased", t > old.updated, t < old.exp,
         new.attempt = old.attempt, new.initAvail = old.initAvail,
         new.created = old.created, new.updated = t,
         new.token = Null, new.acq = Null, new.exp = Null,
         new.completion = old.attempt, new.previous = old.completion,
         \/ /\ new.state = "succeeded" /\ new.reason = "worker_succeeded"
            /\ new.completedAt = t /\ new.avail = old.avail /\ new.lastError = FALSE
         \/ /\ new.state = "dead" /\ new.reason = "worker_dead"
            /\ new.completedAt = t /\ new.avail = old.avail /\ new.lastError = TRUE
         \/ /\ new.state = "queued" /\ new.reason = "null" /\ new.completedAt = Null
            /\ new.avail >= t /\ new.attempt < MaxAttempts[j] /\ new.lastError = TRUE
  PROVE  Sound(j, new) /\ TransitionAllowed(j, old, new)
  <1>1. /\ old.attempt \in Nat /\ old.completion \in Nat /\ old.previous \in Nat
        /\ old.updated \in Nat /\ old.exp \in Nat /\ old.acq \in Nat
        /\ old.avail \in Nat /\ old.initAvail \in Nat /\ old.created \in Nat
        /\ MaxAttempts[j] \in Nat /\ new.avail \in Nat
    BY JobsAssumption DEF Row
  <1>2. /\ old.avail <= old.acq /\ old.updated = old.acq /\ old.attempt >= 1
        /\ old.created <= old.initAvail /\ old.initAvail <= old.avail
        /\ old.attempt <= MaxAttempts[j]
        /\ old.completion < old.attempt
    BY DEF Sound, Decodable, CountsDecode,
        LineageDecodes, StateDecodes
  <1>3. Decodable(j, new)
    BY <1>1, <1>2 DEF Decodable, CountsDecode,
        LineageDecodes, StateDecodes, Terminal, Null
  <1>4. Sound(j, new)
    BY <1>1, <1>2, <1>3 DEF Sound
  <1>5. TransitionAllowed(j, old, new)
    BY <1>1, <1>2 DEF TransitionAllowed, LineageShifted, Terminal, Null
  <1> QED
    BY <1>4, <1>5

-----------------------------------------------------------------------------
(* The recovery walk keeps the books.                                      *)
LEMMA RecoveryBooks ==
  ASSUME Inv, Books, NEW clock \in Readings,
         NEW at \in RecoveryTimes(Expired(clock), clock),
         NEW fl \in LastReading(at, clock)
  PROVE  /\ Kept(AfterRecovery(at), receipts, grants, fl)
         /\ \A k \in Jobs :
              \/ AfterRecovery(at)[k] = rows[k]
              \/ \E t \in Times : /\ AfterRecovery(at)[k] = Recovered(k, t)
                                 /\ TransitionAllowed(k, rows[k], Recovered(k, t))
  <1> DEFINE R == AfterRecovery(at)
  <1>1. /\ DOMAIN at = Expired(clock) /\ clock \in Nat /\ clock >= floor /\ floor \in Nat
        /\ \A k \in Expired(clock) : /\ at[k] \in Times /\ at[k] \in Nat
                                     /\ at[k] >= clock /\ at[k] > rows[k].updated
    BY TimesNat DEF RecoveryTimes, Minted, Readings, Inv, Core, Typed
  <1>2. fl \in Nat /\ fl >= floor
    <2>1. \A k \in Expired(clock) : at[k] \in Nat /\ at[k] >= floor
      BY <1>1
    <2> QED
      BY <1>1, <2>1, TimesNat DEF LastReading
  <1>3. ASSUME NEW k \in Jobs
        PROVE  /\ R[k].attempt = rows[k].attempt /\ Sound(k, R[k])
               /\ R[k].completion = rows[k].completion /\ R[k].previous = rows[k].previous
               /\ \/ R[k] = rows[k]
                  \/ \E t \in Times : /\ R[k] = Recovered(k, t)
                                     /\ TransitionAllowed(k, rows[k], Recovered(k, t))
    <2>1. rows[k] \in Row /\ Sound(k, rows[k]) /\ rows[k].attempt <= MaxAttempts[k]
      BY DEF Inv, Core, Typed, RowInv, Books, Kept
    <2>2. CASE k \in Expired(clock)
      <3>1. R[k] = Recovered(k, at[k])
        BY <1>1, <2>2 DEF AfterRecovery
      <3>2. rows[k].state = "leased" /\ at[k] >= rows[k].exp
        BY <1>1, <2>1, <2>2 DEF Expired, Row
      <3>3. /\ Sound(k, R[k]) /\ TransitionAllowed(k, rows[k], R[k])
            /\ R[k].completion = rows[k].completion /\ R[k].previous = rows[k].previous
        BY <1>1, <2>1, <2>2, <3>1, <3>2, RecoveredSound
      <3>4. R[k].attempt = rows[k].attempt
        BY <1>1, <2>1, <2>2, <3>1, RecoveredRow
      <3> QED
        BY <1>1, <2>2, <3>1, <3>3, <3>4
    <2>3. CASE k \notin Expired(clock)
      BY <1>1, <2>1, <2>3 DEF AfterRecovery
    <2> QED
      BY <2>2, <2>3
  <1>4. \A k \in Jobs : Lined(k, R[k], receipts)
    BY <1>3 DEF Lined, Books, Kept
  <1>5. Past(receipts, grants, fl)
    <2>1. \A r \in receipts : r.at \in Nat /\ r.at <= floor
      BY DEF Inv, Core, Typed, Receipt, Books, Kept, Past
    <2> QED
      BY <1>1, <1>2, <2>1 DEF Past, Books, Kept
  <1>6. Handed(R, grants)
    BY <1>3 DEF Handed, Books, Kept
  <1> QED
    BY <1>3, <1>4, <1>5, <1>6 DEF Kept

(* So does a lease.                                                        *)
LEMMA GrantBooks ==
  ASSUME NEW R, NEW Rc, NEW G, NEW n, NEW f, NEW ap,
         Core(R, Rc, G, n, f, ap), Kept(R, Rc, G, f),
         NEW j \in Jobs, R[j].state = "queued",
         NEW t \in Nat, t >= f, t > R[j].updated, t >= R[j].avail
  PROVE  /\ Kept([R EXCEPT ![j] = Granted(@, n, t)], Rc,
                 G \cup {[job |-> j, attempt |-> R[j].attempt + 1, token |-> n,
                          acq |-> t, exp |-> t + LeaseMs]}, t)
         /\ TransitionAllowed(j, R[j], Granted(R[j], n, t))
  <1> DEFINE h == [job |-> j, attempt |-> R[j].attempt + 1, token |-> n,
                   acq |-> t, exp |-> t + LeaseMs]
             H == G \cup {h}
             S == [R EXCEPT ![j] = Granted(@, n, t)]
  <1>1. /\ R \in [Jobs -> Row] /\ n \in Nat \ {0} /\ f \in Nat
        /\ Rc \subseteq Receipt /\ G \subseteq Lease
        /\ R[j] \in Row /\ R[j].attempt \in Nat /\ R[j].completion \in Nat
    BY DEF Core, Typed, Row
  <1>2. S[j] = Granted(R[j], n, t) /\ \A k \in Jobs \ {j} : S[k] = R[k]
    BY <1>1
  <1> HIDE DEF S
  <1>3. /\ Sound(j, S[j]) /\ TransitionAllowed(j, R[j], S[j])
        /\ S[j].completion = R[j].completion /\ S[j].previous = R[j].previous
        /\ S[j].attempt = R[j].attempt + 1
    <2>1. Sound(j, R[j])
      BY DEF Kept
    <2>2. S[j].attempt = R[j].attempt + 1
      BY <1>1, <1>2, GrantedRow
    <2>3. /\ R[j].updated \in Nat /\ R[j].avail \in Nat
          /\ t > R[j].updated /\ t >= R[j].avail
      BY <1>1 DEF Row
    <2> QED
      BY <1>1, <1>2, <2>1, <2>2, <2>3, GrantedSound
  <1>4. \A k \in Jobs : Sound(k, S[k]) /\ Lined(k, S[k], Rc)
    BY <1>2, <1>3 DEF Kept, Lined
  <1>5. Past(Rc, H, t)
    <2> SUFFICES ASSUME NEW r \in Rc
                 PROVE  /\ r.at <= t
                        /\ \E g \in H : /\ g.job = r.job /\ g.attempt = r.attempt
                                        /\ g.acq < r.at /\ r.at < g.exp
                        /\ \A k \in H : k.job = r.job /\ k.attempt > r.attempt =>
                                          r.at <= k.acq
      BY DEF Past
    <2>1. r.at \in Nat /\ r.at <= f
      BY <1>1 DEF Kept, Past, Receipt
    <2>2. r.at <= t
      BY <1>1, <2>1
    <2>3. \E g \in G : /\ g.job = r.job /\ g.attempt = r.attempt
                       /\ g.acq < r.at /\ r.at < g.exp
      BY DEF Kept, Past
    <2>4. \A k \in G : k.job = r.job /\ k.attempt > r.attempt => r.at <= k.acq
      BY DEF Kept, Past
    <2>5. r.at <= h.acq
      BY <2>2
    <2> HIDE DEF h
    <2> QED
      BY <2>2, <2>3, <2>4, <2>5
  <1>6. Handed(S, H)
    <2> SUFFICES ASSUME NEW k \in Jobs, NEW a \in 1 .. S[k].attempt
                 PROVE  \E g \in H : g.job = k /\ g.attempt = a
      BY DEF Handed
    <2>1. CASE k # j
      BY <1>2, <2>1 DEF Kept, Handed
    <2>2. CASE k = j /\ a = R[j].attempt + 1
      <3>1. h \in H /\ h.job = j /\ h.attempt = R[j].attempt + 1
        OBVIOUS
      <3> HIDE DEF h, H
      <3> QED
        BY <2>2, <3>1
    <2>3. CASE k = j /\ a # R[j].attempt + 1
      <3>1. a \in 1 .. R[j].attempt
        BY <1>1, <1>3, <2>3
      <3> QED
        BY <2>3, <3>1 DEF Kept, Handed
    <2> QED
      BY <2>1, <2>2, <2>3
  <1> QED
    BY <1>2, <1>3, <1>4, <1>5, <1>6 DEF Kept, S

(* So does a worker transition with its receipt.                           *)
LEMMA CloseBooks ==
  ASSUME Inv, Books, NEW g \in grants, NEW clock \in Readings, Accepts(g, clock),
         NEW t \in Minted(clock, rows[g.job].updated),
         NEW r \in ReceiptTimes(g, t),
         NEW outcome \in Outcomes, NEW previous \in Nat, NEW new \in Row,
         Sound(g.job, new), new.attempt = rows[g.job].attempt,
         new.completion = g.attempt, new.previous = rows[g.job].completion
  PROVE  Kept([rows EXCEPT ![g.job] = new],
              receipts \cup {[job |-> g.job, attempt |-> g.attempt,
                              outcome |-> outcome, previous |-> previous,
                              at |-> r]},
              grants, r)
  <1> DEFINE x == [job |-> g.job, attempt |-> g.attempt,
                   outcome |-> outcome, previous |-> previous, at |-> r]
             S == [rows EXCEPT ![g.job] = new]
             X == receipts \cup {x}
             old == rows[g.job]
  <1>1. g.job \in Jobs /\ g = LeaseOf(g.job, old)
    BY AcceptedIsHolder
  <1>2. /\ rows \in [Jobs -> Row] /\ floor \in Nat /\ receipts \subseteq Receipt
        /\ grants \subseteq Lease /\ old \in Row /\ old.state = "leased"
        /\ g.attempt = old.attempt /\ g.acq = old.acq /\ g.exp = old.exp
    BY <1>1 DEF Inv, Core, Typed, Accepts, LeaseOf
  <1>3. /\ old.attempt \in Nat /\ old.completion \in Nat /\ old.updated \in Nat
        /\ old.acq \in Nat /\ old.exp \in Nat
    BY <1>2 DEF Row
  <1>4. old.completion < old.attempt /\ old.updated = old.acq
    BY <1>1, <1>2 DEF Books, Kept, Sound, Decodable, CountsDecode,
        LineageDecodes, StateDecodes
  <1>5. /\ t \in Nat /\ t >= floor /\ t > old.updated
        /\ r \in Nat /\ r >= t /\ r <= old.exp - 1
    BY <1>2, TimesNat DEF Minted, ReceiptTimes, Readings
  <1>6. S[g.job] = new /\ \A k \in Jobs \ {g.job} : S[k] = rows[k]
    BY <1>1, <1>2
  <1> HIDE DEF S
  <1>7. \A k \in Jobs : Sound(k, S[k])
    BY <1>6 DEF Books, Kept
  <1>8. x.job = g.job /\ x.attempt = g.attempt /\ x.at = r /\ x \in X
    OBVIOUS
  <1>x. \A y \in X : y \in receipts \/ y = x
    OBVIOUS
  <1>y. receipts \subseteq X
    OBVIOUS
  <1> HIDE DEF x, X
  <1>9. ASSUME NEW k \in Jobs PROVE Lined(k, S[k], X)
    <2>1. Lined(k, rows[k], receipts)
      BY DEF Books, Kept
    <2>2. CASE k = g.job
      <3>1. \A y \in receipts : y.job = g.job => y.attempt \in Nat /\ y.attempt <= old.completion
        BY <1>2, <2>1, <2>2 DEF Lined, Receipt
      <3>2. new.previous # Null => \E y \in X : y.job = g.job /\ y.attempt = new.previous
        BY <1>y, <2>1, <2>2 DEF Lined
      <3>3. \A y \in X : y.job = g.job =>
              /\ y.attempt <= new.completion
              /\ y.attempt = new.completion \/ y.attempt <= new.previous
        BY <1>2, <1>3, <1>4, <1>8, <1>x, <3>1
      <3> QED
        BY <1>6, <1>8, <2>2, <3>2, <3>3 DEF Lined
    <2>3. CASE k # g.job
      BY <1>6, <1>8, <1>x, <1>y, <2>1, <2>3 DEF Lined
    <2> QED
      BY <2>2, <2>3
  <1>10. Past(X, grants, r)
    <2> SUFFICES ASSUME NEW y \in X
                 PROVE  /\ y.at <= r
                        /\ \E k \in grants : /\ k.job = y.job /\ k.attempt = y.attempt
                                             /\ k.acq < y.at /\ y.at < k.exp
                        /\ \A k \in grants : k.job = y.job /\ k.attempt > y.attempt =>
                                               y.at <= k.acq
      BY DEF Past
    <2>1. CASE y \in receipts
      <3>1. y.at \in Nat /\ y.at <= floor
        BY <1>2, <2>1 DEF Books, Kept, Past, Receipt
      <3>2. y.at <= r
        BY <1>2, <1>5, <3>1
      <3> QED
        BY <2>1, <3>2 DEF Books, Kept, Past
    <2>2. CASE y = x
      <3>1. g.acq < r /\ r < g.exp
        BY <1>2, <1>3, <1>4, <1>5
      <3>2. \A k \in grants : k.job = g.job => ~ k.attempt > g.attempt
        BY <1>2, <1>3 DEF Inv, Core, GrantInv, Lease
      <3> QED
        BY <1>5, <1>8, <2>2, <3>1, <3>2
    <2> QED
      BY <1>x, <2>1, <2>2
  <1>11. Handed(S, grants)
    <2>1. \A k \in Jobs : S[k].attempt = rows[k].attempt
      BY <1>6
    <2> QED
      BY <2>1 DEF Handed, Books, Kept
  <1> QED
    BY <1>7, <1>9, <1>10, <1>11 DEF Kept, S, X, x

-----------------------------------------------------------------------------
(* enqueue opens a book.                                                   *)
LEMMA EnqueueBooks ==
  ASSUME Inv, Books, NEW j \in Jobs, NEW requested \in Times, Enqueue(j, requested)
  PROVE  Books' /\ \A k \in Jobs : Legal(k)
  <1>1. PICK t \in Minted(floor, Null) :
          /\ rows' = [rows EXCEPT ![j] =
               [NoRow EXCEPT !.state = "queued", !.initAvail = MaxOf(requested, t),
                             !.avail = MaxOf(requested, t),
                             !.created = t, !.updated = t]]
          /\ floor' = t
    BY DEF Enqueue
  <1> DEFINE at == MaxOf(requested, t)
             new == [NoRow EXCEPT !.state = "queued", !.initAvail = at, !.avail = at,
                                  !.created = t, !.updated = t]
  <1>2. t \in Nat /\ t >= floor /\ at \in Nat /\ at >= t /\ floor \in Nat
    BY TimesNat DEF Minted, MaxOf, Inv, Core, Typed
  <1>3. /\ rows[j].state = "absent" /\ rows[j] = NoRow
        /\ UNCHANGED <<receipts, grants>>
    BY DEF Enqueue, Books, Kept, Sound
  <1>4. rows'[j] = new /\ \A k \in Jobs \ {j} : rows'[k] = rows[k]
    BY <1>1 DEF Inv, Core, Typed
  <1> HIDE DEF at
  <1>5. /\ new.state = "queued" /\ new.attempt = 0 /\ new.initAvail = at
        /\ new.avail = at /\ new.token = Null /\ new.acq = Null /\ new.exp = Null
        /\ new.completedAt = Null /\ new.reason = "null" /\ new.completion = Null
        /\ new.previous = Null /\ new.lastError = FALSE /\ new.created = t
        /\ new.updated = t
    BY DEF NoRow
  <1> HIDE DEF new
  <1>6. MaxAttempts[j] \in Nat \ {0}
    BY JobsAssumption
  <1>7. Decodable(j, new)
    BY <1>2, <1>5, <1>6 DEF Decodable, CountsDecode,
        LineageDecodes, StateDecodes, Terminal, Null
  <1>8. Sound(j, new)
    BY <1>5, <1>7 DEF Sound, Null
  <1>9. /\ rows[j].attempt = 0 /\ rows[j].completion = Null /\ rows[j].previous = Null
    BY <1>3 DEF NoRow
  <1>10. ASSUME NEW k \in Jobs
         PROVE  Sound(k, rows'[k]) /\ Lined(k, rows'[k], receipts')
    BY <1>3, <1>4, <1>5, <1>8, <1>9 DEF Books, Kept, Lined
  <1>11. Past(receipts', grants', floor')
    <2>1. \A r \in receipts : r.at \in Nat /\ r.at <= floor
      BY DEF Inv, Core, Typed, Receipt, Books, Kept, Past
    <2> QED
      BY <1>1, <1>2, <1>3, <2>1 DEF Past, Books, Kept
  <1>12. Handed(rows', grants')
    BY <1>3, <1>4, <1>5, <1>9 DEF Handed, Books, Kept
  <1>13. ASSUME NEW k \in Jobs PROVE Legal(k)
    BY <1>3, <1>4 DEF Legal
  <1> QED
    BY <1>10, <1>11, <1>12, <1>13 DEF Books, Kept

(* leaseNext keeps the books, and the trigger accepts what it does to each *)
(* row: the recovery, the lease, or one after the other.                   *)
LEMMA LeaseBooks ==
  ASSUME Inv, Books, LeaseNext
  PROVE  Books' /\ \A k \in Jobs : Legal(k)
  <1> DEFINE Leases(clock, at, j, fl, t) ==
        /\ IsCandidate(AfterRecovery(at), j, clock)
        /\ t \in AcquireTimes(AfterRecovery(at), fl, j)
        /\ rows' = [AfterRecovery(at) EXCEPT ![j] = Granted(@, nextToken, t)]
        /\ grants' = grants \cup
             {[job |-> j, attempt |-> AfterRecovery(at)[j].attempt + 1,
               token |-> nextToken, acq |-> t, exp |-> t + LeaseMs]}
        /\ floor' = t
        /\ receipts' = receipts
  <1>a. PICK clock \in Readings : \E at \in RecoveryTimes(Expired(clock), clock) :
          \E j \in Jobs : \E fl \in LastReading(at, clock), t \in Times :
            Leases(clock, at, j, fl, t)
    BY DEF LeaseNext
  <1>b. PICK at \in RecoveryTimes(Expired(clock), clock) :
          \E j \in Jobs : \E fl \in LastReading(at, clock), t \in Times :
            Leases(clock, at, j, fl, t)
    BY <1>a
  <1>1. PICK j \in Jobs, fl \in LastReading(at, clock), t \in Times :
          Leases(clock, at, j, fl, t)
    BY <1>b
  <1> DEFINE R == AfterRecovery(at)
  <1>2. Core(R, receipts, grants, nextToken, fl, applied)
    BY RecoveryCore
  <1>3. /\ Kept(R, receipts, grants, fl)
        /\ \A k \in Jobs :
             \/ R[k] = rows[k]
             \/ \E x \in Times : /\ R[k] = Recovered(k, x)
                                /\ TransitionAllowed(k, rows[k], Recovered(k, x))
    BY RecoveryBooks
  <1>4. R[j].state = "queued" /\ R[j].avail <= clock
    BY <1>1 DEF IsCandidate, Leasable
  <1>5. t \in Nat /\ t >= fl /\ t > R[j].updated /\ fl \in Nat
    BY <1>1, <1>2, TimesNat DEF AcquireTimes, Minted, Core, Typed
  <1>6. fl >= clock /\ clock \in Nat
    <2>1. /\ DOMAIN at = Expired(clock) /\ clock \in Nat
          /\ \A k \in DOMAIN at : at[k] \in Nat /\ at[k] >= clock
      BY TimesNat DEF RecoveryTimes, Minted, Readings
    <2> QED
      BY <2>1 DEF LastReading
  <1>7. /\ R \in [Jobs -> Row] /\ R[j].avail \in Nat
    BY <1>2 DEF Core, Typed, Row
  <1>8. t >= R[j].avail
    BY <1>4, <1>5, <1>6, <1>7
  <1> HIDE DEF R
  <1>9. /\ Kept([R EXCEPT ![j] = Granted(@, nextToken, t)], receipts,
                grants \cup {[job |-> j, attempt |-> R[j].attempt + 1, token |-> nextToken,
                              acq |-> t, exp |-> t + LeaseMs]}, t)
        /\ TransitionAllowed(j, R[j], Granted(R[j], nextToken, t))
    BY <1>2, <1>3, <1>4, <1>5, <1>8, GrantBooks
  <1>10. Books'
    BY <1>1, <1>9 DEF Books, R
  <1>11. ASSUME NEW k \in Jobs PROVE Legal(k)
    <2>1. rows'[j] = Granted(R[j], nextToken, t) /\ \A i \in Jobs \ {j} : rows'[i] = R[i]
      BY <1>1, <1>7 DEF R
    <2> QED
      BY <1>3, <1>9, <2>1 DEF Legal
  <1> QED
    BY <1>10, <1>11

(* leaseNext without a candidate.                                          *)
LEMMA RecoverBooks ==
  ASSUME Inv, Books, RecoverOnly
  PROVE  Books' /\ \A k \in Jobs : Legal(k)
  <1>a. PICK clock \in Readings : \E at \in RecoveryTimes(Expired(clock), clock) :
          /\ rows' = AfterRecovery(at) /\ floor' \in LastReading(at, clock)
          /\ UNCHANGED <<receipts, grants>>
    BY DEF RecoverOnly
  <1>1. PICK at \in RecoveryTimes(Expired(clock), clock) :
          /\ rows' = AfterRecovery(at) /\ floor' \in LastReading(at, clock)
          /\ UNCHANGED <<receipts, grants>>
    BY <1>a
  <1>2. PICK fl \in LastReading(at, clock) : floor' = fl
    BY <1>1
  <1>3. /\ Kept(AfterRecovery(at), receipts, grants, fl)
        /\ \A k \in Jobs :
             \/ AfterRecovery(at)[k] = rows[k]
             \/ \E x \in Times : /\ AfterRecovery(at)[k] = Recovered(k, x)
                                /\ TransitionAllowed(k, rows[k], Recovered(k, x))
    BY RecoveryBooks
  <1> QED
    BY <1>1, <1>2, <1>3 DEF Books, Legal

-----------------------------------------------------------------------------
(* A closed row, column by column.                                         *)
LEMMA ClosedColumns ==
  ASSUME NEW g, rows[g.job] \in Row, NEW t \in Nat
  PROVE  LET new == Closed(g, t)
             old == rows[g.job]
         IN /\ new.initAvail = old.initAvail /\ new.created = old.created
            /\ new.token = Null /\ new.acq = Null /\ new.exp = Null
            /\ new.completion = g.attempt /\ new.previous = old.completion
  BY DEF Closed, Row

(* The instants of a worker transition lie inside its lease.               *)
LEMMA Inside ==
  ASSUME Inv, Books, NEW g \in grants, NEW clock \in Readings, Accepts(g, clock),
         NEW t \in Minted(clock, rows[g.job].updated)
  PROVE  /\ g.job \in Jobs /\ rows[g.job] \in Row /\ rows[g.job].state = "leased"
         /\ Sound(g.job, rows[g.job]) /\ g.attempt = rows[g.job].attempt
         /\ g.attempt \in Nat /\ t \in Nat /\ t > rows[g.job].updated
  <1>1. g.job \in Jobs /\ g = LeaseOf(g.job, rows[g.job])
    BY AcceptedIsHolder
  <1> QED
    BY <1>1, TimesNat DEF Inv, Core, Typed, Books, Kept, Accepts, LeaseOf, Lease, Minted

(* What the trigger sees of a worker transition.                           *)
LEMMA OneLegal ==
  ASSUME Inv, NEW j \in Jobs, NEW new, rows' = [rows EXCEPT ![j] = new],
         TransitionAllowed(j, rows[j], new)
  PROVE  \A k \in Jobs : Legal(k)
  BY DEF Inv, Core, Typed, Legal

(* complete and its receipt.                                               *)
LEMMA CompleteBooks ==
  ASSUME Inv, Books, NEW g \in grants, Complete(g)
  PROVE  Books' /\ \A k \in Jobs : Legal(k)
  <1> DEFINE made(t) == [Closed(g, t) EXCEPT !.state = "succeeded",
                           !.completedAt = t, !.reason = "worker_succeeded",
                           !.lastError = FALSE]
             Step(clock, t) == /\ Accepts(g, clock) /\ t < rows[g.job].exp
                               /\ rows' = [rows EXCEPT ![g.job] = made(t)]
                               /\ grants' = grants
  <1>c. PICK clock \in Readings : \E t \in Minted(clock, rows[g.job].updated) :
          /\ Step(clock, t)
          /\ \E r \in ReceiptTimes(g, t) : Record(g, made(t), r)
    BY DEF Complete
  <1>0. PICK t \in Minted(clock, rows[g.job].updated) :
          /\ Step(clock, t)
          /\ \E r \in ReceiptTimes(g, t) : Record(g, made(t), r)
    BY <1>c
  <1>1. PICK r \in ReceiptTimes(g, t) : Step(clock, t) /\ Record(g, made(t), r)
    BY <1>0
  <1>2. /\ g.job \in Jobs /\ rows[g.job] \in Row /\ rows[g.job].state = "leased"
        /\ Sound(g.job, rows[g.job]) /\ g.attempt = rows[g.job].attempt
        /\ g.attempt \in Nat /\ t \in Nat /\ t > rows[g.job].updated
    BY <1>1, Inside
  <1>3. /\ Closed(g, t) \in Row /\ Closed(g, t).attempt = rows[g.job].attempt
        /\ Closed(g, t).updated = t /\ Closed(g, t).avail = rows[g.job].avail
    BY <1>2, ClosedRow
  <1>4. /\ Closed(g, t).initAvail = rows[g.job].initAvail
        /\ Closed(g, t).created = rows[g.job].created
        /\ Closed(g, t).token = Null /\ Closed(g, t).acq = Null /\ Closed(g, t).exp = Null
        /\ Closed(g, t).completion = g.attempt
        /\ Closed(g, t).previous = rows[g.job].completion
    BY <1>2, ClosedColumns
  <1> DEFINE new == made(t)
  <1>5. /\ new \in Row /\ new.state = "succeeded" /\ new.reason = "worker_succeeded"
        /\ new.completedAt = t /\ new.lastError = FALSE
        /\ new.attempt = Closed(g, t).attempt /\ new.updated = Closed(g, t).updated
        /\ new.avail = Closed(g, t).avail /\ new.initAvail = Closed(g, t).initAvail
        /\ new.created = Closed(g, t).created /\ new.token = Closed(g, t).token
        /\ new.acq = Closed(g, t).acq /\ new.exp = Closed(g, t).exp
        /\ new.completion = Closed(g, t).completion
        /\ new.previous = Closed(g, t).previous
    BY <1>2, <1>3 DEF Row, States, Reasons
  <1>6. new.previous \in Nat /\ OutcomeOf(new.state) = "success"
    BY <1>5 DEF Row, OutcomeOf
  <1> HIDE DEF made, new
  <1>7. Sound(g.job, new) /\ TransitionAllowed(g.job, rows[g.job], new)
    <2>1. t < rows[g.job].exp
      BY <1>1
    <2>2. /\ new.attempt = rows[g.job].attempt /\ new.initAvail = rows[g.job].initAvail
          /\ new.created = rows[g.job].created /\ new.updated = t
          /\ new.token = Null /\ new.acq = Null /\ new.exp = Null
          /\ new.completion = rows[g.job].attempt
          /\ new.previous = rows[g.job].completion /\ new.avail = rows[g.job].avail
      BY <1>2, <1>3, <1>4, <1>5
    <2> QED
      BY <1>2, <1>5, <2>1, <2>2, WorkerSound, ZenonT(60)
  <1>8. /\ Accepts(g, clock)
        /\ rows' = [rows EXCEPT ![g.job] = new] /\ grants' = grants /\ floor' = r
        /\ receipts' = receipts \cup {[job |-> g.job, attempt |-> g.attempt,
                                       outcome |-> "success",
                                       previous |-> new.previous, at |-> r]}
    BY <1>1, <1>6 DEF Record, Transition, new
  <1>9. Kept(rows', receipts', grants, r)
    <2>1. "success" \in Outcomes
      BY DEF Outcomes
    <2> QED
      BY <1>2, <1>3, <1>4, <1>5, <1>6, <1>7, <1>8, <2>1, CloseBooks
  <1>10. \A k \in Jobs : Legal(k)
    BY <1>2, <1>7, <1>8, OneLegal
  <1> QED
    BY <1>8, <1>9, <1>10 DEF Books

(* fail and its receipt.                                                   *)
LEMMA FailBooks ==
  ASSUME Inv, Books, NEW g \in grants, NEW disposition \in {"retry", "dead"},
         NEW retryAt \in Nat, Fail(g, disposition, retryAt)
  PROVE  Books' /\ \A k \in Jobs : Legal(k)
  <1> DEFINE dead == disposition = "dead" \/ rows[g.job].attempt >= MaxAttempts[g.job]
             later(t) == MaxOf(MaxOf(retryAt, t), rows[g.job].initAvail)
             made(t) == [Closed(g, t) EXCEPT
                           !.state = IF dead THEN "dead" ELSE "queued",
                           !.avail = IF dead THEN @ ELSE later(t),
                           !.completedAt = IF dead THEN t ELSE Null,
                           !.reason = IF dead THEN "worker_dead" ELSE "null",
                           !.lastError = TRUE]
             Step(clock, t) == /\ Accepts(g, clock) /\ t < rows[g.job].exp
                               /\ rows' = [rows EXCEPT ![g.job] = made(t)]
                               /\ grants' = grants
  <1>c. PICK clock \in Readings : \E t \in Minted(clock, rows[g.job].updated) :
          /\ Step(clock, t)
          /\ \E r \in ReceiptTimes(g, t) : Record(g, made(t), r)
    BY DEF Fail
  <1>0. PICK t \in Minted(clock, rows[g.job].updated) :
          /\ Step(clock, t)
          /\ \E r \in ReceiptTimes(g, t) : Record(g, made(t), r)
    BY <1>c
  <1>1. PICK r \in ReceiptTimes(g, t) : Step(clock, t) /\ Record(g, made(t), r)
    BY <1>0
  <1>2. /\ g.job \in Jobs /\ rows[g.job] \in Row /\ rows[g.job].state = "leased"
        /\ Sound(g.job, rows[g.job]) /\ g.attempt = rows[g.job].attempt
        /\ g.attempt \in Nat /\ t \in Nat /\ t > rows[g.job].updated
    BY <1>1, Inside
  <1>3. /\ Closed(g, t) \in Row /\ Closed(g, t).attempt = rows[g.job].attempt
        /\ Closed(g, t).updated = t /\ Closed(g, t).avail = rows[g.job].avail
    BY <1>2, ClosedRow
  <1>4. /\ Closed(g, t).initAvail = rows[g.job].initAvail
        /\ Closed(g, t).created = rows[g.job].created
        /\ Closed(g, t).token = Null /\ Closed(g, t).acq = Null /\ Closed(g, t).exp = Null
        /\ Closed(g, t).completion = g.attempt
        /\ Closed(g, t).previous = rows[g.job].completion
    BY <1>2, ClosedColumns
  <1>5. later(t) \in Nat /\ later(t) >= t /\ MaxAttempts[g.job] \in Nat
    BY <1>2, JobsAssumption DEF MaxOf, Row
  <1> DEFINE new == made(t)
  <1> HIDE DEF later
  <1>6. /\ new.attempt = Closed(g, t).attempt /\ new.updated = Closed(g, t).updated
        /\ new.initAvail = Closed(g, t).initAvail
        /\ new.created = Closed(g, t).created /\ new.token = Closed(g, t).token
        /\ new.acq = Closed(g, t).acq /\ new.exp = Closed(g, t).exp
        /\ new.completion = Closed(g, t).completion
        /\ new.previous = Closed(g, t).previous /\ new.lastError = TRUE
    BY <1>3 DEF Row
  <1> DEFINE Fate ==
        \/ /\ new.state = "dead" /\ new.reason = "worker_dead"
           /\ new.completedAt = t /\ new.avail = rows[g.job].avail /\ new.lastError = TRUE
        \/ /\ new.state = "queued" /\ new.reason = "null" /\ new.completedAt = Null
           /\ new.avail >= t /\ new.attempt < MaxAttempts[g.job] /\ new.lastError = TRUE
  <1>7. new \in Row /\ Fate
    <2>1. CASE dead
      <3>1. new = [Closed(g, t) EXCEPT !.state = "dead", !.avail = rows[g.job].avail,
                     !.completedAt = t, !.reason = "worker_dead", !.lastError = TRUE]
        BY <1>3, <2>1
      <3> HIDE DEF made, new, dead
      <3>2. /\ new.state = "dead" /\ new.avail = rows[g.job].avail
            /\ new.completedAt = t /\ new.reason = "worker_dead" /\ new.lastError = TRUE
        BY <1>3, <3>1 DEF Row
      <3>3. rows[g.job].avail \in Nat
        BY <1>2 DEF Row
      <3>4. new \in Row
        BY <1>2, <1>3, <3>1, <3>3 DEF Row, States, Reasons
      <3> QED
        BY <3>2, <3>4
    <2>2. CASE ~ dead
      <3>1. new = [Closed(g, t) EXCEPT !.state = "queued", !.avail = later(t),
                     !.completedAt = Null, !.reason = "null", !.lastError = TRUE]
        BY <1>3, <2>2
      <3>2. rows[g.job].attempt < MaxAttempts[g.job]
        <4>1. rows[g.job].attempt \in Nat
          BY <1>2 DEF Row
        <4> QED
          BY <1>5, <2>2, <4>1
      <3> HIDE DEF made, new, dead
      <3>3. \A row \in Row, a \in Nat :
              [row EXCEPT !.state = "queued", !.avail = a, !.completedAt = Null,
                          !.reason = "null", !.lastError = TRUE] \in Row
        BY DEF Row, States, Reasons, Null
      <3>4. new \in Row
        BY <1>3, <1>5, <3>1, <3>3, Zenon
      <3>5. /\ new.state = "queued" /\ new.avail = later(t)
            /\ new.completedAt = Null /\ new.reason = "null" /\ new.lastError = TRUE
        BY <1>3, <3>1 DEF Row
      <3> QED
        BY <1>3, <1>5, <1>6, <3>2, <3>4, <3>5
    <2> QED
      BY <2>1, <2>2
  <1>8. new.previous \in Nat /\ OutcomeOf(new.state) \in Outcomes
    BY <1>7 DEF Row, OutcomeOf, Outcomes
  <1> HIDE DEF made, new, dead
  <1>9. Sound(g.job, new) /\ TransitionAllowed(g.job, rows[g.job], new)
    <2>1. t < rows[g.job].exp
      BY <1>1
    <2>2. /\ new.attempt = rows[g.job].attempt /\ new.initAvail = rows[g.job].initAvail
          /\ new.created = rows[g.job].created /\ new.updated = t
          /\ new.token = Null /\ new.acq = Null /\ new.exp = Null
          /\ new.completion = rows[g.job].attempt
          /\ new.previous = rows[g.job].completion
      BY <1>2, <1>3, <1>4, <1>6
    <2> QED
      BY <1>2, <1>7, <2>1, <2>2, WorkerSound, ZenonT(60)
  <1>10. /\ Accepts(g, clock)
         /\ rows' = [rows EXCEPT ![g.job] = new] /\ grants' = grants /\ floor' = r
         /\ receipts' = receipts \cup {[job |-> g.job, attempt |-> g.attempt,
                                        outcome |-> OutcomeOf(new.state),
                                        previous |-> new.previous, at |-> r]}
    BY <1>1 DEF Record, Transition, new
  <1>11. Kept(rows', receipts', grants, r)
    BY <1>2, <1>3, <1>4, <1>6, <1>7, <1>8, <1>9, <1>10, CloseBooks
  <1>12. \A k \in Jobs : Legal(k)
    BY <1>2, <1>9, <1>10, OneLegal
  <1> QED
    BY <1>10, <1>11, <1>12 DEF Books

(* Every step keeps the books, by transitions the trigger accepts.         *)
LEMMA NextBooks ==
  ASSUME Inv, Books, [Next]_vars
  PROVE  Books' /\ \A k \in Jobs : Legal(k)
  <1>1. ASSUME NEW j \in Jobs, NEW requested \in Times, Enqueue(j, requested)
        PROVE  Books' /\ \A k \in Jobs : Legal(k)
    BY <1>1, EnqueueBooks
  <1>2. CASE LeaseNext
    BY <1>2, LeaseBooks
  <1>3. CASE RecoverOnly
    BY <1>3, RecoverBooks
  <1>4. ASSUME NEW g \in grants, Complete(g)
        PROVE  Books' /\ \A k \in Jobs : Legal(k)
    BY <1>4, CompleteBooks
  <1>5. ASSUME NEW g \in grants, NEW retryAt \in Times, Fail(g, "retry", retryAt)
        PROVE  Books' /\ \A k \in Jobs : Legal(k)
    BY <1>5, TimesNat, FailBooks
  <1>6. ASSUME NEW g \in grants, Fail(g, "dead", Null)
        PROVE  Books' /\ \A k \in Jobs : Legal(k)
    BY <1>6, FailBooks DEF Null
  <1>7. CASE UNCHANGED vars
    BY <1>7 DEF Books, vars, Legal
  <1> QED
    BY <1>1, <1>2, <1>3, <1>4, <1>5, <1>6, <1>7 DEF Next

LEMMA BooksAlways == Spec => [](Inv /\ Books)
  <1>1. Init => Inv /\ Books
    BY InitCore, InitBooks
  <1>2. Inv /\ Books /\ [Next]_vars => (Inv /\ Books)'
    BY NextCore, NextBooks
  <1> QED
    BY <1>1, <1>2, PTL DEF Spec

-----------------------------------------------------------------------------
(* No row an operation leaves behind is one the next one would reject.     *)
THEOREM RowsAlwaysDecode == Spec => []RowEnvelope
  <1>1. Books => RowEnvelope
    BY DEF Books, Kept, Sound, RowEnvelope
  <1> QED
    BY <1>1, BooksAlways, PTL

(* A receipt is the word of the attempt that held the lease.               *)
THEOREM ReceiptsAlwaysInside == Spec => []ReceiptInsideLease
  <1>1. Books => ReceiptInsideLease
    BY DEF Books, Kept, Past, ReceiptInsideLease
  <1> QED
    BY <1>1, BooksAlways, PTL

(* The lineage columns of a row name its last two receipts.                *)
THEOREM LineageAlwaysHeld == Spec => []CompletionLineage
  <1>1. ASSUME Inv, Books, NEW j \in Jobs,
               NEW done, done = {r.attempt : r \in {x \in receipts : x.job = j}}
        PROVE  /\ done \subseteq Nat \ {Null}
               /\ rows[j].completion \in Nat /\ rows[j].previous \in Nat
               /\ rows[j].completion # Null => rows[j].completion \in done
               /\ rows[j].previous # Null => /\ rows[j].previous \in done
                                             /\ rows[j].previous < rows[j].completion
               /\ \A a \in done : /\ a <= rows[j].completion
                                  /\ a = rows[j].completion \/ a <= rows[j].previous
    <2>1. /\ rows[j] \in Row /\ Decodable(j, rows[j]) /\ Lined(j, rows[j], receipts)
      BY <1>1 DEF Inv, Core, Typed, Books, Kept, Sound
    <2>2. \A r \in receipts : r.attempt \in Nat /\ r.attempt >= 1
      BY <1>1 DEF Inv, Core, Typed, GrantInv, Books, Kept, Past, Receipt
    <2>3. rows[j].completion \in Nat /\ rows[j].previous \in Nat
      BY <2>1 DEF Row
    <2>4. \A a \in done : \E r \in receipts : r.job = j /\ a = r.attempt
      BY <1>1
    <2>5. \A r \in receipts : r.job = j => r.attempt \in done
      BY <1>1
    <2>6. rows[j].previous # Null => rows[j].completion # rows[j].previous
      BY <2>1 DEF Decodable, CountsDecode,
        LineageDecodes, StateDecodes
    <2> QED
      BY <2>1, <2>2, <2>3, <2>4, <2>5, <2>6 DEF Lined, Null
  <1>2. ASSUME NEW S, S \subseteq Nat, NEW m \in S, \A b \in S : b <= m
        PROVE  m = CHOOSE a \in S : \A b \in S : b <= a
    <2>1. \A a \in S : (\A b \in S : b <= a) => a = m
      BY <1>2
    <2> QED
      BY <1>2, <2>1
  <1>3. Inv /\ Books => CompletionLineage
    <2> SUFFICES ASSUME Inv, Books, NEW j \in Jobs
                 PROVE  LET done == {r.attempt : r \in {x \in receipts : x.job = j}}
                            Last(S) == IF S = {} THEN Null
                                       ELSE CHOOSE a \in S : \A b \in S : b <= a
                        IN  /\ rows[j].completion = Last(done)
                            /\ rows[j].previous = Last(done \ {Last(done)})
      BY DEF CompletionLineage
    <2> DEFINE done == {r.attempt : r \in {x \in receipts : x.job = j}}
               Last(S) == IF S = {} THEN Null
                          ELSE CHOOSE a \in S : \A b \in S : b <= a
               c == rows[j].completion
               p == rows[j].previous
    <2>1. /\ done \subseteq Nat \ {Null} /\ c \in Nat /\ p \in Nat
          /\ c # Null => c \in done
          /\ p # Null => p \in done /\ p < c
          /\ \A a \in done : a <= c /\ (a = c \/ a <= p)
      BY <1>1
    <2>2. ASSUME NEW S, NEW m \in Nat, S \subseteq Nat \ {Null}, m # Null => m \in S,
                 \A b \in S : b <= m
          PROVE  m = Last(S)
      <3>1. CASE S = {}
        BY <2>2, <3>1
      <3>2. CASE S # {}
        <4>1. PICK b \in S : TRUE
          BY <3>2
        <4>2. m \in S /\ S \subseteq Nat
          BY <2>2, <4>1 DEF Null
        <4>3. m = CHOOSE a \in S : \A i \in S : i <= a
          BY <1>2, <2>2, <4>2
        <4> QED
          BY <3>2, <4>3
      <3> QED
        BY <3>1, <3>2
    <2> HIDE DEF done, Last, c, p
    <2>3. c = Last(done)
      BY <2>1, <2>2
    <2>4. p = Last(done \ {c})
      <3>1. done \ {c} \subseteq Nat \ {Null} /\ \A b \in done \ {c} : b <= p
        BY <2>1
      <3>2. p # Null => p \in done \ {c}
        BY <2>1
      <3> QED
        BY <2>1, <2>2, <3>1, <3>2
    <2> QED
      BY <2>3, <2>4 DEF done, Last, c, p
  <1> QED
    BY <1>3, BooksAlways, PTL

(* Leases are handed out within the budget, none is skipped, and a job is  *)
(* called exhausted only after the last of them went unanswered.           *)
THEOREM BudgetAlwaysKept == Spec => []RetryBudget
  <1>1. Inv /\ Books => RetryBudget
    <2> SUFFICES ASSUME Inv, Books, NEW j \in Jobs
                 PROVE  /\ {g.attempt : g \in {x \in grants : x.job = j}}
                             = 1 .. rows[j].attempt
                        /\ rows[j].attempt <= MaxAttempts[j]
                        /\ rows[j].reason = "lease_expired_attempts_exhausted" =>
                             /\ rows[j].attempt = MaxAttempts[j]
                             /\ ~ HasReceipt(j, rows[j].attempt)
      BY DEF RetryBudget
    <2>1. /\ rows[j] \in Row /\ rows[j].attempt <= MaxAttempts[j]
          /\ Sound(j, rows[j]) /\ Lined(j, rows[j], receipts)
          /\ \A g \in grants : g.attempt \in Nat
      BY DEF Inv, Core, Typed, RowInv, Lease, Books, Kept
    <2>2. rows[j].attempt \in Nat /\ rows[j].completion \in Nat /\ rows[j].state \in States
      BY <2>1 DEF Row
    <2>3. \A g \in grants : g.job = j => g.attempt \in 1 .. rows[j].attempt
      BY <2>1, <2>2 DEF Inv, Core, GrantInv
    <2>4. \A a \in 1 .. rows[j].attempt : \E g \in grants : g.job = j /\ g.attempt = a
      BY DEF Books, Kept, Handed
    <2>5. {g.attempt : g \in {x \in grants : x.job = j}} = 1 .. rows[j].attempt
      BY <2>3, <2>4
    <2>6. ASSUME rows[j].reason = "lease_expired_attempts_exhausted"
          PROVE  rows[j].attempt = MaxAttempts[j] /\ ~ HasReceipt(j, rows[j].attempt)
      <3>1. rows[j].completion < rows[j].attempt
        BY <2>1, <2>6 DEF Sound
      <3>2. \A r \in receipts : r.job = j => r.attempt <= rows[j].completion
        BY <2>1 DEF Lined
      <3>3. ~ HasReceipt(j, rows[j].attempt)
        BY <2>2, <3>1, <3>2 DEF HasReceipt
      <3>4. rows[j].state = "dead"
        <4>1. ~ (rows[j].state \in Terminal) => rows[j].reason = "null"
          BY <2>1, Zenon DEF Sound, Decodable, CountsDecode,
        LineageDecodes, StateDecodes
        <4>2. rows[j].state = "succeeded" => rows[j].reason = "worker_succeeded"
          BY <2>1, Zenon DEF Sound, Decodable, CountsDecode,
        LineageDecodes, StateDecodes
        <4> QED
          BY <2>6, <4>1, <4>2 DEF Terminal
      <3>5. rows[j].attempt = MaxAttempts[j]
        <4>1. rows[j].state = "dead" =>
                \/ rows[j].reason = "worker_dead"
                \/ rows[j].attempt = MaxAttempts[j]
          BY <2>1, Zenon DEF Sound, Decodable, CountsDecode,
        LineageDecodes, StateDecodes
        <4> QED
          BY <2>6, <3>4, <4>1
      <3> QED
        BY <3>3, <3>5
    <2> QED
      BY <2>1, <2>5, <2>6
  <1> QED
    BY <1>1, BooksAlways, PTL

(* The trigger vetoes no transition an operation makes.                    *)
THEOREM TransitionsAlwaysPass == Spec => RowTransitions
  <1>1. Inv /\ Books /\ [Next]_vars =>
          [\A j \in Jobs :
             rows[j].state # "absent" /\ rows'[j] # rows[j] =>
               \/ TransitionAllowed(j, rows[j], rows'[j])
               \/ \E t \in Times : /\ TransitionAllowed(j, rows[j], Recovered(j, t))
                                  /\ TransitionAllowed(j, Recovered(j, t), rows'[j])]_vars
    BY NextBooks DEF Legal
  <1> QED
    BY <1>1, BooksAlways, PTL DEF Spec, RowTransitions
-----------------------------------------------------------------------------
(* Each completion names the one before it, if there is one.               *)
Chained(Rc) ==
  \A r \in Rc :
    /\ r.previous < r.attempt
    /\ r.previous # Null => \E q \in Rc : q.job = r.job /\ q.attempt = r.previous
    /\ \A q \in Rc : q.job = r.job =>
         /\ q.attempt < r.attempt => q.attempt <= r.previous
         /\ q.attempt = r.attempt => q = r

LEMMA RecordChains ==
  ASSUME Inv, Books, Chained(receipts), NEW g \in grants, NEW clock \in Readings,
         Accepts(g, clock), NEW closed, closed.previous = rows[g.job].completion,
         NEW r, Record(g, closed, r)
  PROVE  Chained(receipts)'
  <1> DEFINE old == rows[g.job]
             x == [job |-> g.job, attempt |-> g.attempt,
                   outcome |-> Transition(closed).outcome,
                   previous |-> Transition(closed).previous, at |-> r]
  <1>1. g.job \in Jobs /\ g = LeaseOf(g.job, old)
    BY AcceptedIsHolder
  <1>2. /\ old \in Row /\ old.state = "leased" /\ g.attempt = old.attempt
        /\ receipts \subseteq Receipt
        /\ Sound(g.job, old) /\ Lined(g.job, old, receipts)
    BY <1>1 DEF Inv, Core, Typed, Accepts, LeaseOf, Books, Kept
  <1>3. old.attempt \in Nat /\ old.completion \in Nat /\ old.completion < old.attempt
    BY <1>2 DEF Row, Sound
  <1>4. /\ x.job = g.job /\ x.attempt = old.attempt /\ x.previous = old.completion
        /\ receipts' = receipts \cup {x}
    BY <1>2 DEF Record, Transition
  <1>5. \A q \in receipts : q.job = g.job => q.attempt <= old.completion
    BY <1>2 DEF Lined
  <1>6. \A q \in receipts : q.attempt \in Nat
    BY <1>2 DEF Receipt
  <1>7. old.completion # Null =>
          \E q \in receipts : q.job = g.job /\ q.attempt = old.completion
    BY <1>2 DEF Lined
  <1> HIDE DEF x, old
  <1>8. ASSUME NEW p \in receipts'
        PROVE  /\ p.previous < p.attempt
               /\ p.previous # Null => \E q \in receipts' : q.job = p.job /\ q.attempt = p.previous
               /\ \A q \in receipts' : q.job = p.job =>
                    /\ q.attempt < p.attempt => q.attempt <= p.previous
                    /\ q.attempt = p.attempt => q = p
    <2>1. CASE p = x
      BY <1>3, <1>4, <1>5, <1>6, <1>7, <2>1
    <2>2. CASE p \in receipts
      <3>1. p.job = g.job => p.attempt < old.attempt
        BY <1>3, <1>5, <1>6, <2>2
      <3>2. p.attempt \in Nat
        BY <1>6, <2>2
      <3>3. p.job = g.job => ~(x.attempt < p.attempt) /\ x.attempt # p.attempt
        BY <1>3, <1>4, <3>1, <3>2
      <3> QED
        BY <1>4, <2>2, <3>3 DEF Chained
    <2> QED
      BY <1>4, <2>1, <2>2
  <1> QED
    BY <1>8 DEF Chained

LEMMA NextChains ==
  ASSUME Inv, Books, Chained(receipts), [Next]_vars
  PROVE  Chained(receipts)'
  <1>1. ASSUME NEW g \in grants, Complete(g) PROVE Chained(receipts)'
    <2> DEFINE Done(t) == [Closed(g, t) EXCEPT !.state = "succeeded",
                             !.completedAt = t, !.reason = "worker_succeeded",
                             !.lastError = FALSE]
    <2>1. PICK clock \in Readings : /\ Accepts(g, clock)
                                    /\ \E t \in Minted(clock, rows[g.job].updated) :
                                         \E r \in ReceiptTimes(g, t) : Record(g, Done(t), r)
      BY <1>1 DEF Complete
    <2>2. PICK t \in Minted(clock, rows[g.job].updated) :
            \E r \in ReceiptTimes(g, t) : Record(g, Done(t), r)
      BY <2>1
    <2>3. PICK r \in ReceiptTimes(g, t) : Record(g, Done(t), r)
      BY <2>2
    <2>4. Done(t).previous = rows[g.job].completion
      BY <2>1, Inside DEF Closed, Row
    <2> HIDE DEF Done
    <2> QED
      BY <2>1, <2>3, <2>4, RecordChains
  <1>2. ASSUME NEW g \in grants, NEW disposition, NEW retryAt, Fail(g, disposition, retryAt)
        PROVE  Chained(receipts)'
    <2> DEFINE dead == disposition = "dead" \/ rows[g.job].attempt >= MaxAttempts[g.job]
               Ended(t) == [Closed(g, t) EXCEPT
                              !.state = IF dead THEN "dead" ELSE "queued",
                              !.avail = IF dead THEN @
                                        ELSE MaxOf(MaxOf(retryAt, t), rows[g.job].initAvail),
                              !.completedAt = IF dead THEN t ELSE Null,
                              !.reason = IF dead THEN "worker_dead" ELSE "null",
                              !.lastError = TRUE]
    <2>1. PICK clock \in Readings : /\ Accepts(g, clock)
                                    /\ \E t \in Minted(clock, rows[g.job].updated) :
                                         \E r \in ReceiptTimes(g, t) : Record(g, Ended(t), r)
      BY <1>2 DEF Fail
    <2>2. PICK t \in Minted(clock, rows[g.job].updated) :
            \E r \in ReceiptTimes(g, t) : Record(g, Ended(t), r)
      BY <2>1
    <2>3. PICK r \in ReceiptTimes(g, t) : Record(g, Ended(t), r)
      BY <2>2
    <2>4. Ended(t).previous = rows[g.job].completion
      BY <2>1, Inside DEF Closed, Row
    <2> HIDE DEF Ended
    <2> QED
      BY <2>1, <2>3, <2>4, RecordChains
  <1>3. CASE UNCHANGED receipts
    BY <1>3 DEF Chained
  <1>4. ASSUME NEW j \in Jobs, NEW requested, Enqueue(j, requested) PROVE UNCHANGED receipts
    BY <1>4 DEF Enqueue
  <1>5. LeaseNext \/ RecoverOnly \/ UNCHANGED vars => UNCHANGED receipts
    BY DEF LeaseNext, RecoverOnly, vars
  <1> QED
    BY <1>1, <1>2, <1>3, <1>4, <1>5 DEF Next

LEMMA ChainedAlways == Spec => [](Inv /\ Books /\ Chained(receipts))
  <1>1. Init => Chained(receipts)
    BY DEF Init, Chained
  <1>2. Inv /\ Books /\ Chained(receipts) /\ [Next]_vars => Chained(receipts)'
    BY NextChains
  <1> QED
    BY <1>1, <1>2, BooksAlways, PTL DEF Spec

(* Every completion is found by going back from the row of its job: the    *)
(* attempts that were answered since are what is visited on the way.       *)
THEOREM AlwaysReadBack == Spec => []ReceiptsReadBack
  <1>1. Inv /\ Books /\ Chained(receipts) => ReceiptsReadBack
    <2> SUFFICES ASSUME Inv, Books, Chained(receipts), NEW r \in receipts
                 PROVE  Reads(r.job, r.attempt)
      BY DEF ReceiptsReadBack
    <2> DEFINE j == r.job
               a == r.attempt
               done == {q \in receipts : q.job = j /\ q.attempt >= a}
               walk == {q.attempt : q \in done}
    <2>1. /\ j \in Jobs /\ rows[j] \in Row /\ receipts \subseteq Receipt
          /\ Sound(j, rows[j]) /\ Lined(j, rows[j], receipts)
      BY DEF Inv, Core, Typed, Books, Kept, Receipt
    <2>2. /\ rows[j].completion \in Nat /\ rows[j].attempt \in Nat
          /\ rows[j].completion <= rows[j].attempt
      BY <2>1 DEF Row, Sound
    <2>3. \A q \in receipts : q.attempt \in Nat /\ q.attempt >= 1 /\ q.previous \in Nat
      BY <2>1 DEF Inv, Core, GrantInv, Books, Kept, Past, Receipt
    <2>4. \A q \in receipts : q.job = j => q.attempt <= rows[j].completion
      BY <2>1 DEF Lined
    <2>5. walk \in SUBSET (1 .. rows[j].attempt)
      BY <2>2, <2>3, <2>4
    <2>6. rows[j].completion \in walk
      <3>1. rows[j].completion >= a /\ rows[j].completion # Null
        BY <2>2, <2>3, <2>4 DEF Null
      <3>2. PICK q \in receipts : q.job = j /\ q.attempt = rows[j].completion
        BY <2>1, <3>1 DEF Lined
      <3> QED
        BY <3>1, <3>2
    <2>7. ASSUME NEW c \in walk
          PROVE  /\ HasReceipt(j, c)
                 /\ c # a => /\ PersistedReceipt(j, c).previous < c
                             /\ PersistedReceipt(j, c).previous \in walk
      <3>1. PICK q \in done : c = q.attempt
        OBVIOUS
      <3>2. HasReceipt(j, c)
        BY <3>1 DEF HasReceipt
      <3>3. PersistedReceipt(j, c) = q
        <4>1. \A y \in receipts : y.job = j /\ y.attempt = c => y = q
          BY <3>1 DEF Chained
        <4> QED
          BY <3>1, <4>1 DEF PersistedReceipt
      <3>4. ASSUME c # a PROVE q.previous < c /\ q.previous \in walk
        <4>1. a < q.attempt
          BY <2>3, <3>1, <3>4
        <4>2. q.previous < q.attempt /\ a <= q.previous
          BY <3>1, <4>1 DEF Chained
        <4>3. q.previous # Null
          BY <2>3, <3>1, <4>2 DEF Null
        <4>4. PICK y \in receipts : y.job = q.job /\ y.attempt = q.previous
          BY <3>1, <4>3 DEF Chained
        <4>5. y \in done
          BY <3>1, <4>2, <4>4
        <4> QED
          BY <3>1, <4>2, <4>4, <4>5
      <3> QED
        BY <3>2, <3>3, <3>4
    <2> HIDE DEF walk, done
    <2> QED
      BY <2>5, <2>6, <2>7 DEF Reads
  <1> QED
    BY <1>1, ChainedAlways, PTL

(* The store never stands in its own way: the parts above together.        *)
THEOREM AlwaysSound == Spec => RowsStaySound
  BY RowsAlwaysDecode, ReceiptsAlwaysInside, LineageAlwaysHeld, BudgetAlwaysKept,
     AlwaysReadBack, TransitionsAlwaysPass, PTL DEF RowsStaySound
=============================================================================
