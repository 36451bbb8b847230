-------------------------- MODULE ApprovalPromise --------------------------
(***************************************************************************)
(* What an approval gate promises: ballots are only ever added, one per    *)
(* user; the gate is settled once, as approved only on Required ballots    *)
(* for it and as rejected only on a ballot against it; and the runner that *)
(* waits for the verdict hears the one that was reached, or gives up.      *)
(* There are no requests here, no database calls and no failures.          *)
(***************************************************************************)
EXTENDS Naturals, FiniteSets

CONSTANTS Users, Required

VARIABLES approval, \* state of the gate
          votes,    \* the ballots, a set of [user, decision]
          verdict   \* what the runner goes by: "waiting" until it knows

promiseVars == <<approval, votes, verdict>>

Init == approval = "unclaimed" /\ votes = {} /\ verdict = "waiting"

Open == /\ approval = "unclaimed"
        /\ approval' \in {"pending", "missing"}
        /\ UNCHANGED <<votes, verdict>>

Cast == /\ \E u \in Users, d \in {"approve", "reject"} :
              /\ \A v \in votes : v.user # u
              /\ votes' = votes \cup {[user |-> u, decision |-> d]}
        /\ approval \notin {"unclaimed", "missing"}
        /\ UNCHANGED <<approval, verdict>>

Settle == /\ approval = "pending"
          /\ \/ /\ Cardinality({v \in votes : v.decision = "approve"}) >= Required
                /\ approval' = "approved"
             \/ /\ \E v \in votes : v.decision = "reject"
                /\ approval' = "rejected"
          /\ UNCHANGED <<votes, verdict>>

Hear == /\ verdict = "waiting"
        /\ \/ approval \in {"approved", "rejected"} /\ verdict' = approval
           \/ verdict' = "cancelled"
        /\ UNCHANGED <<approval, votes>>

Next == Open \/ Cast \/ Settle \/ Hear

Spec == Init /\ [][Next]_promiseVars
=============================================================================
