------------------------- MODULE OperationContract -------------------------
(***************************************************************************)
(* What the runtime promises to whoever sends it an operation, without     *)
(* processes, connections, retries or receipts: the request takes effect   *)
(* at most once, what took effect stays and keeps its place, and the one   *)
(* answer a client gets is never revised and says what happened: the       *)
(* effect of this very request, or that another request has the id.  The   *)
(* deployment is shown to implement this module.                           *)
(***************************************************************************)
EXTENDS Naturals, Sequences

CONSTANT Requests

VARIABLES
  made,   \* the requests that took effect, in order
  told    \* what the client of each request was told

contract == <<made, told>>

Told(status, effect) == [status |-> status, effect |-> effect]
Nothing == Told(0, 0)

Init == made = <<>> /\ told = [r \in Requests |-> Nothing]

Tell(r, answer) ==
  /\ told[r] = Nothing
  /\ told' = [told EXCEPT ![r] = answer]
  /\ UNCHANGED made

Apply(r) ==
  /\ \A i \in 1 .. Len(made) : made[i].op # r.op
  /\ made' = Append(made, r)
  /\ UNCHANGED told

Confirm(r) == \E i \in 1 .. Len(made) : made[i] = r /\ Tell(r, Told(200, i))

Refuse(r) ==
  /\ \E i \in 1 .. Len(made) : made[i].op = r.op /\ made[i].body # r.body
  /\ Tell(r, Told(409, 0))

Next == \E r \in Requests : Apply(r) \/ Confirm(r) \/ Refuse(r)

Spec == Init /\ [][Next]_contract
=============================================================================
