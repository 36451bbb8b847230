------------------------------ MODULE Approval ------------------------------
(***************************************************************************)
(* The gate of one approval_required task.  The claim inserts a pending    *)
(* row; developers vote through a server action that reads the row, then   *)
(* inserts the vote, then counts, then settles the row, one database call  *)
(* at a time; the runner polls the row until it is settled or the run is   *)
(* cancelled.  Each database call is one action, so votes interleave.      *)
(***************************************************************************)
EXTENDS Naturals, FiniteSets

CONSTANTS Users,    \* members of the organisation with role developer or above
          Required, \* required_approvals of the row
          Calls,    \* invocations of submitApprovalVote
          Faults    \* may a database call, or the process serving it, fail?

ASSUME UsersAssumption == IsFiniteSet(Users)
ASSUME RequiredAssumption == Required \in Nat \ {0}
ASSUME FaultsAssumption == Faults \in BOOLEAN

VARIABLES approval, \* "unclaimed", then "missing" or deployment_approvals.status
          votes,    \* rows of approval_votes
          call,     \* local state of every invocation
          gate,     \* where the runner's waitForApproval stands
          aborted   \* the AbortSignal of the run: the cancellation was seen

vars == <<approval, votes, call, gate, aborted>>

Decisions == {"approve", "reject"}
Votes == [user : Users, decision : Decisions]
Settled == {"approved", "rejected"}
Waiting == {"idle", "checking", "asking"}
Steps == {"fresh", "vote", "reject", "count", "approve", "done", "lost"}

\* unique (approval_id, user_id)
HasVoted(u) == \E v \in votes : v.user = u

ApproveVotes == {v \in votes : v.decision = "approve"}
RejectVotes == {v \in votes : v.decision = "reject"}
HasQuorum == Cardinality(ApproveVotes) >= Required

Init == /\ approval = "unclaimed"
        /\ votes = {}
        /\ call \in [Calls -> {[step |-> "fresh", vote |-> v] : v \in Votes}]
        /\ gate = "idle"
        /\ aborted = FALSE
-----------------------------------------------------------------------------
(* The claim.  A failed insertion is logged and the claim succeeds.        *)

InsertApproval == /\ approval = "unclaimed"
                  /\ \/ approval' = "pending"
                     \/ Faults /\ approval' = "missing"
                  /\ UNCHANGED <<votes, call, gate, aborted>>
-----------------------------------------------------------------------------
(* submitApprovalVote                                                      *)

\* Names with an underscore are plausible mistakes: the definition they are
\* named after, got wrong.  Only the mutation runs use them.

Goto(c, step) == call' = [call EXCEPT ![c].step = step]

ReadApproval(c) == /\ call[c].step = "fresh"
                   /\ approval # "unclaimed"
                   /\ Goto(c, IF approval = "pending" THEN "vote" ELSE "done")
                   /\ UNCHANGED <<approval, votes, gate, aborted>>

InsertVote(c) ==
    /\ call[c].step = "vote"
    /\ IF HasVoted(call[c].vote.user)
       THEN Goto(c, "done") /\ UNCHANGED votes
       ELSE /\ votes' = votes \cup {call[c].vote}
            /\ Goto(c, IF call[c].vote.decision = "reject" THEN "reject" ELSE "count")
    /\ UNCHANGED <<approval, gate, aborted>>

RejectApproval(c) == /\ call[c].step = "reject"
                     /\ approval' = IF approval = "pending" THEN "rejected" ELSE approval
                     /\ Goto(c, "done")
                     /\ UNCHANGED <<votes, gate, aborted>>

CountVotes(c) == /\ call[c].step = "count"
                 /\ Goto(c, IF HasQuorum THEN "approve" ELSE "done")
                 /\ UNCHANGED <<approval, votes, gate, aborted>>

ApproveApproval_Always(c) == /\ call[c].step = "approve"
                             /\ approval' = "approved"
                             /\ Goto(c, "done")
                             /\ UNCHANGED <<votes, gate, aborted>>

ApproveApproval(c) == /\ call[c].step = "approve"
                      /\ approval' = IF approval = "pending" THEN "approved" ELSE approval
                      /\ Goto(c, "done")
                      /\ UNCHANGED <<votes, gate, aborted>>

\* The vote's insertion fails and the user is told; a later call fails and is
\* ignored, or the process serving the action dies: then the vote is stored
\* and what should follow it is lost.
CallFails(c) == /\ Faults
                /\ \/ call[c].step = "vote" /\ Goto(c, "done")
                   \/ call[c].step \in {"reject", "count", "approve"} /\ Goto(c, "lost")
                /\ UNCHANGED <<approval, votes, gate, aborted>>
-----------------------------------------------------------------------------
(* waitForApproval, and the cancellation that aborts it                    *)

BeginWait == /\ gate = "idle"
             /\ approval # "unclaimed"
             /\ gate' = "checking"
             /\ UNCHANGED <<approval, votes, call, aborted>>

CheckSignal == /\ gate = "checking"
               /\ gate' = IF aborted THEN "cancelled" ELSE "asking"
               /\ UNCHANGED <<approval, votes, call, aborted>>

HearStatus_OnlyApproved ==
    /\ gate = "asking"
    /\ gate' = IF approval = "approved" THEN approval ELSE "checking"
    /\ UNCHANGED <<approval, votes, call, aborted>>

HearStatus == /\ gate = "asking"
              /\ gate' = IF approval \in Settled THEN approval ELSE "checking"
              /\ UNCHANGED <<approval, votes, call, aborted>>

\* Any error, a 404 among them, is logged and the poll is repeated.
PollFails == /\ gate = "asking"
             /\ gate' = "checking"
             /\ UNCHANGED <<approval, votes, call, aborted>>

Abort == /\ ~aborted
         /\ aborted' = TRUE
         /\ UNCHANGED <<approval, votes, call, gate>>
-----------------------------------------------------------------------------
CallStep(c) == \/ ReadApproval(c) \/ InsertVote(c)
               \/ RejectApproval(c) \/ CountVotes(c) \/ ApproveApproval(c)

Next == \/ InsertApproval
        \/ \E c \in Calls : CallStep(c) \/ CallFails(c)
        \/ BeginWait \/ CheckSignal \/ HearStatus \/ PollFails \/ Abort

Spec == Init /\ [][Next]_vars

\* A started request runs to its end; the runner keeps polling, and a control
\* plane that keeps being asked answers in the end.
Fairness == /\ \A c \in Calls : WF_vars(call[c].step # "fresh" /\ CallStep(c))
            /\ WF_vars(BeginWait) /\ WF_vars(CheckSignal)
            /\ WF_vars(HearStatus \/ PollFails) /\ SF_vars(HearStatus)

LiveSpec == Spec /\ Fairness
-----------------------------------------------------------------------------
TypeOK == /\ approval \in {"unclaimed", "missing", "pending"} \cup Settled
          /\ votes \subseteq Votes
          /\ call \in [Calls -> [step : Steps, vote : Votes]]
          /\ gate \in Waiting \cup Settled \cup {"cancelled"}
          /\ aborted \in BOOLEAN

\* The runner passes a gate only on a settled row, and a row settles only on
\* its votes: approved on Required developers' approvals, rejected on a
\* rejection (deployments/actions.ts 239-263, approval-gate.ts 31-34).
VerdictHasVotes ==
    /\ gate \in Settled => approval = gate
    /\ approval = "approved" => HasQuorum
    /\ approval = "rejected" => RejectVotes # {}

Lost(c) == call[c].step = "lost"

ApprovalInFlight(c) == \/ call[c].step \in {"count", "approve"}
                       \/ Lost(c) /\ call[c].vote.decision = "approve"

RejectionInFlight(c) == \/ call[c].step = "reject"
                        \/ Lost(c) /\ call[c].vote.decision = "reject"

\* Votes that arrive together are not lost: while a row with enough approvals
\* is still pending, an approval is on its way to being counted, and while one
\* with a rejection is, the rejection that will settle it is, unless the
\* request failed after its vote was stored.
DecisionInFlight ==
    approval = "pending" => /\ HasQuorum => \E c \in Calls : ApprovalInFlight(c)
                            /\ RejectVotes # {} => \E c \in Calls : RejectionInFlight(c)

\* Enough approvals, or a rejection, get the runner going, unless a request
\* failed after its vote was stored: nobody counts for it again.
VotesEndTheWait ==
    HasQuorum \/ RejectVotes # {} ~> gate \notin Waiting \/ \E c \in Calls : Lost(c)

\* The row, its votes and what the runner makes of them are the promise.
Promise == INSTANCE ApprovalPromise
    WITH verdict <- IF gate \in Waiting THEN "waiting" ELSE gate
KeepsPromise == Promise!Spec
=============================================================================
