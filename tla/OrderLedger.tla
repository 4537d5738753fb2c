----------------------------- MODULE OrderLedger ------------------------------
(***************************************************************************)
(* What NERAXON promises of a live order, whoever handles it and however   *)
(* often the process restarts: it reaches the network at most once, only a *)
(* fill is booked, and only once; it is reported settled only when its     *)
(* fill is booked, and closed without a fill only when there is none.      *)
(***************************************************************************)
CONSTANT Order

VARIABLES
  order,   \* "unsent", "open", "filled", "rejected" or "booked"
  verdict  \* what the local record claims: "none", "settled" or "closed"

vars == <<order, verdict>>

Init ==
  /\ order = [o \in Order |-> "unsent"]
  /\ verdict = [o \in Order |-> "none"]

Move(o, from, to) ==
  /\ order[o] = from
  /\ order' = [order EXCEPT ![o] = to]
  /\ verdict[o] = "none"
  /\ UNCHANGED verdict

Judge(o, claim) ==
  /\ verdict' = [verdict EXCEPT ![o] = claim]
  /\ UNCHANGED order

Submit(o) == Move(o, "unsent", "open")
Decide(o) == Move(o, "open", "filled") \/ Move(o, "open", "rejected")
Book(o) == Move(o, "filled", "booked")

Settle(o) == order[o] = "booked" /\ Judge(o, "settled")
Close(o) == order[o] \in {"unsent", "rejected"} /\ Judge(o, "closed")

\* A later check may withdraw the claim.
Reopen(o) == Judge(o, "none")

Next == \E o \in Order :
  Submit(o) \/ Decide(o) \/ Book(o) \/ Settle(o) \/ Close(o) \/ Reopen(o)

Spec == Init /\ [][Next]_vars

===============================================================================
