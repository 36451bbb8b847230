--------------------------- MODULE ApprovalProofs ---------------------------
(***************************************************************************)
(* Proofs about Approval for any users, any number of required approvals   *)
(* and any number of overlapping votes.  The invariant adds to TypeOK what *)
(* each request in flight knows: one about to approve has counted a quorum *)
(* and one about to reject has its own vote on record; and there are votes *)
(* only on a row that was inserted.                                        *)
(***************************************************************************)
EXTENDS Approval, FiniteSetTheorems, TLAPS

USE UsersAssumption, RequiredAssumption, FaultsAssumption

RequestsKnow ==
    \A c \in Calls :
       /\ call[c].step = "approve" => HasQuorum
       /\ call[c].step = "reject" => RejectVotes # {}
       /\ call[c].step \in {"count", "approve"} => call[c].vote.decision = "approve"
       /\ call[c].step = "reject" => call[c].vote.decision = "reject"
Unopened == {"unclaimed", "missing"}
RowIsOpen == votes # {} \/ (\E c \in Calls : call[c].step \notin {"fresh", "done"})
                => approval \notin Unopened
Inv == TypeOK /\ RequestsKnow /\ RowIsOpen /\ VerdictHasVotes

LEMMA VotesFinite == IsFiniteSet(Votes)
<1>1. IsFiniteSet(Decisions)
  <2>1. IsFiniteSet({"approve"}) BY FS_Singleton
  <2>2. IsFiniteSet({"approve"} \cup {"reject"}) BY <2>1, FS_AddElement
  <2> QED BY <2>2 DEF Decisions
<1>2. IsFiniteSet(Users \X Decisions)
  BY <1>1, FS_Product
<1> DEFINE pair == [v \in Votes |-> <<v.user, v.decision>>]
<1>3. ASSUME NEW v \in Votes, NEW w \in Votes, pair[v] = pair[w]
      PROVE  v = w
  <2>1. v.user = w.user /\ v.decision = w.decision BY <1>3
  <2> QED BY <2>1 DEF Votes
<1>4. pair \in [Votes -> Users \X Decisions]
  BY DEF Votes
<1>5. pair \in Injection(Votes, Users \X Decisions)
  BY ONLY <1>3, <1>4 DEF Injection, IsInjective
<1> QED
  BY ONLY <1>2, <1>5, FS_Injection

\* Votes are never taken back, so a quorum, once there, stays.
LEMMA QuorumGrows ==
    ASSUME TypeOK, votes' \subseteq Votes, votes \subseteq votes'
    PROVE  /\ HasQuorum => HasQuorum'
           /\ RejectVotes # {} => RejectVotes' # {}
<1>1. ApproveVotes \subseteq ApproveVotes' /\ RejectVotes \subseteq RejectVotes'
  BY DEF ApproveVotes, RejectVotes
<1>2. IsFiniteSet(ApproveVotes')
  BY VotesFinite, FS_Subset, ApproveVotes' \subseteq Votes DEF ApproveVotes
<1>3. /\ IsFiniteSet(ApproveVotes)
      /\ Cardinality(ApproveVotes) <= Cardinality(ApproveVotes')
  BY <1>1, <1>2, FS_Subset
<1>4. Cardinality(ApproveVotes) \in Nat /\ Cardinality(ApproveVotes') \in Nat
  BY <1>2, <1>3, FS_CardinalityType
<1> QED
  BY <1>1, <1>3, <1>4 DEF HasQuorum
-----------------------------------------------------------------------------
LEMMA InitInv == Init => Inv
<1> SUFFICES ASSUME Init PROVE Inv
  OBVIOUS
<1>1. call \in [Calls -> [step : Steps, vote : Votes]]
  <2>1. \A x \in {[step |-> "fresh", vote |-> v] : v \in Votes} : x \in [step : Steps, vote : Votes]
    BY DEF Steps
  <2> QED
    BY <2>1 DEF Init
<1>2. TypeOK
  BY <1>1 DEF Init, TypeOK, Waiting, Settled
<1> QED
  BY <1>2 DEF Init, Inv, RequestsKnow, RowIsOpen, VerdictHasVotes, Settled

LEMMA TypeStep == TypeOK /\ [Next]_vars => TypeOK'
<1> SUFFICES ASSUME TypeOK, [Next]_vars PROVE TypeOK'
  OBVIOUS
<1> USE DEF TypeOK, Goto, Steps, Settled, Waiting
<1>1. ASSUME NEW c \in Calls, ReadApproval(c) PROVE TypeOK'
  BY <1>1 DEF ReadApproval
<1>2. ASSUME NEW c \in Calls, InsertVote(c) PROVE TypeOK'
  BY <1>2 DEF InsertVote
<1>3. ASSUME NEW c \in Calls, RejectApproval(c) PROVE TypeOK'
  BY <1>3 DEF RejectApproval
<1>4. ASSUME NEW c \in Calls, CountVotes(c) PROVE TypeOK'
  BY <1>4 DEF CountVotes
<1>5. ASSUME NEW c \in Calls, ApproveApproval(c) PROVE TypeOK'
  BY <1>5 DEF ApproveApproval
<1>6. ASSUME NEW c \in Calls, CallFails(c) PROVE TypeOK'
  BY <1>6 DEF CallFails
<1>7. CASE InsertApproval
  BY <1>7 DEF InsertApproval
<1>8. CASE BeginWait \/ CheckSignal \/ HearStatus \/ PollFails \/ Abort
  BY <1>8 DEF BeginWait, CheckSignal, HearStatus, PollFails, Abort
<1>9. CASE UNCHANGED vars
  BY <1>9 DEF vars
<1> QED
  BY <1>1, <1>2, <1>3, <1>4, <1>5, <1>6, <1>7, <1>8, <1>9 DEF Next, CallStep

\* Only a vote's insertion touches the votes, and it adds one.
LEMMA VotesOnlyGrow ==
    ASSUME TypeOK, [Next]_vars
    PROVE  votes' \subseteq Votes /\ votes \subseteq votes'
<1>1. TypeOK'
  BY TypeStep
<1>2. votes \subseteq votes'
  BY DEF Next, CallStep, vars, InsertApproval, ReadApproval, InsertVote, RejectApproval,
         CountVotes, ApproveApproval, CallFails, BeginWait, CheckSignal, HearStatus,
         PollFails, Abort
<1> QED
  BY <1>1, <1>2 DEF TypeOK

LEMMA InvStep == Inv /\ [Next]_vars => Inv'
<1> SUFFICES ASSUME Inv, [Next]_vars PROVE Inv'
  OBVIOUS
<1>t. TypeOK /\ TypeOK'
  BY TypeStep DEF Inv
<1>g. /\ HasQuorum => HasQuorum'
      /\ RejectVotes # {} => RejectVotes' # {}
  BY <1>t, VotesOnlyGrow, QuorumGrows
<1>1. RequestsKnow'
  <2> SUFFICES ASSUME NEW d \in Calls
               PROVE  /\ call'[d].step = "approve" => HasQuorum'
                      /\ call'[d].step = "reject" => RejectVotes' # {}
                      /\ call'[d].step \in {"count", "approve"} => call'[d].vote.decision = "approve"
                      /\ call'[d].step = "reject" => call'[d].vote.decision = "reject"
    BY DEF RequestsKnow
  <2>v. call'[d].vote = call[d].vote /\ call[d].vote.decision \in Decisions
    BY <1>t DEF Next, CallStep, vars, InsertApproval, ReadApproval, InsertVote,
           RejectApproval, CountVotes, ApproveApproval, CallFails, BeginWait,
           CheckSignal, HearStatus, PollFails, Abort, Goto, TypeOK, Votes
  <2>0. /\ call[d].step = "approve" => HasQuorum'
        /\ call[d].step = "reject" => RejectVotes' # {}
        /\ call[d].step \in {"count", "approve"} => call[d].vote.decision = "approve"
        /\ call[d].step = "reject" => call[d].vote.decision = "reject"
    BY <1>g DEF Inv, RequestsKnow
  <2>1. CASE call'[d].step = call[d].step
    BY <2>0, <2>1, <2>v
  <2>2. CASE call'[d].step # call[d].step
    <3>1. ReadApproval(d) \/ InsertVote(d) \/ RejectApproval(d) \/ CountVotes(d)
            \/ ApproveApproval(d) \/ CallFails(d)
      BY <2>2, <1>t DEF Next, CallStep, vars, InsertApproval, ReadApproval, InsertVote,
           RejectApproval, CountVotes, ApproveApproval, CallFails, BeginWait,
           CheckSignal, HearStatus, PollFails, Abort, Goto, TypeOK
    <3>2. CASE ReadApproval(d) \/ RejectApproval(d) \/ ApproveApproval(d) \/ CallFails(d)
      BY <3>2, <1>t DEF ReadApproval, RejectApproval, ApproveApproval, CallFails, Goto, TypeOK
    <3>3. CASE CountVotes(d)
      BY <3>3, <1>t, <1>g, <2>0, <2>v DEF CountVotes, Goto, TypeOK
    <3>4. CASE InsertVote(d)
      <4>1. CASE HasVoted(call[d].vote.user)
        BY <4>1, <3>4, <1>t DEF InsertVote, Goto, TypeOK
      <4>2. CASE ~HasVoted(call[d].vote.user)
        <5>1. call[d].vote \in votes'
          BY <4>2, <3>4 DEF InsertVote
        <5>2. call'[d].step = IF call[d].vote.decision = "reject" THEN "reject" ELSE "count"
          BY <4>2, <3>4, <1>t DEF InsertVote, Goto, TypeOK
        <5> QED
          BY <5>1, <5>2, <2>v DEF RejectVotes, Decisions
      <4> QED BY <4>1, <4>2
    <3> QED
      BY <3>1, <3>2, <3>3, <3>4
  <2> QED BY <2>1, <2>2
<1>2. VerdictHasVotes'
  <2>0. /\ gate \in Settled => approval = gate
        /\ approval = "approved" => HasQuorum'
        /\ approval = "rejected" => RejectVotes' # {}
    BY <1>g DEF Inv, VerdictHasVotes
  <2>1. CASE UNCHANGED <<approval, gate>>
    BY <2>0, <2>1 DEF VerdictHasVotes
  <2>2. CASE \E c \in Calls : RejectApproval(c)
    BY <2>0, <2>2, <1>g DEF RejectApproval, VerdictHasVotes, Inv, RequestsKnow, Settled
  <2>3. CASE \E c \in Calls : ApproveApproval(c)
    BY <2>0, <2>3, <1>g DEF ApproveApproval, VerdictHasVotes, Inv, RequestsKnow, Settled
  <2>4. CASE InsertApproval
    BY <2>0, <2>4 DEF InsertApproval, VerdictHasVotes, Settled
  <2>5. CASE BeginWait \/ CheckSignal \/ HearStatus \/ PollFails
    BY <2>0, <2>5 DEF BeginWait, CheckSignal, HearStatus, PollFails, VerdictHasVotes, Settled
  <2> QED
    BY <2>1, <2>2, <2>3, <2>4, <2>5 DEF Next, CallStep, vars, ReadApproval, InsertVote,
       CountVotes, CallFails, Abort
<1>3. RowIsOpen'
  <2>1. approval \notin Unopened => approval' \notin Unopened
    BY DEF Next, CallStep, vars, InsertApproval, ReadApproval, InsertVote,
           RejectApproval, CountVotes, ApproveApproval, CallFails, BeginWait,
           CheckSignal, HearStatus, PollFails, Abort, Unopened
  <2>2. CASE RowIsOpen /\ approval \notin Unopened
    BY <2>1, <2>2 DEF RowIsOpen
  <2>3. CASE approval \in Unopened
    <3>0. votes = {} /\ \A c \in Calls : call[c].step \in {"fresh", "done"}
      BY <2>3 DEF Inv, RowIsOpen
    <3>1. CASE UNCHANGED <<votes, call>>
      BY <3>0, <3>1 DEF RowIsOpen
    <3>2. CASE \E c \in Calls : ReadApproval(c)
      BY <3>0, <3>2, <2>3, <1>t DEF ReadApproval, Goto, RowIsOpen, TypeOK, Unopened
    <3> QED
      BY <3>0, <3>1, <3>2 DEF Next, CallStep, vars, InsertApproval, InsertVote,
         RejectApproval, CountVotes, ApproveApproval, CallFails, BeginWait,
         CheckSignal, HearStatus, PollFails, Abort
  <2> QED
    BY <2>2, <2>3 DEF Inv
<1> QED
  BY <1>t, <1>1, <1>2, <1>3 DEF Inv

LEMMA Invariance == Spec => []Inv
<1> QED
  BY InitInv, InvStep, PTL DEF Spec

\* Every reachable state of the row, its votes, its voters and the runner is
\* well formed, for any number of users and requests.
THEOREM TypeCorrect == Spec => []TypeOK
<1>1. Inv => TypeOK
  BY DEF Inv
<1> QED
  BY <1>1, Invariance, PTL

\* However votes interleave and whatever fails, the runner passes the gate on
\* Required developers' approvals only, and gives up on a rejection only.
THEOREM VerdictsHaveVotes == Spec => []VerdictHasVotes
<1>1. Inv => VerdictHasVotes
  BY DEF Inv
<1> QED
  BY <1>1, Invariance, PTL
-----------------------------------------------------------------------------
\* Whenever the row is pending on a quorum or a rejection, a request that sees
\* it through is still running, or one failed after its vote was stored.
THEOREM NoQuorumIsLost == Spec => []DecisionInFlight
<1>1. Init => DecisionInFlight
  BY DEF Init, DecisionInFlight
<1>2. ASSUME Inv, [Next]_vars, DecisionInFlight PROVE DecisionInFlight'
  <2>t. TypeOK /\ TypeOK'
    BY <1>2, TypeStep DEF Inv
  <2>1. CASE UNCHANGED <<approval, votes, call>>
    BY <1>2, <2>1 DEF DecisionInFlight, ApprovalInFlight, RejectionInFlight, Lost, HasQuorum, ApproveVotes, RejectVotes
  <2>2. CASE InsertApproval
    <3>1. votes' = {}
      BY <1>2, <2>2 DEF InsertApproval, Inv, RowIsOpen, Unopened
    <3>2. RejectVotes' = {} /\ ApproveVotes' = {}
      BY <3>1 DEF RejectVotes, ApproveVotes
    <3>3. ~HasQuorum'
      BY <3>2, FS_EmptySet DEF HasQuorum
    <3> QED
      BY <3>2, <3>3 DEF DecisionInFlight, ApprovalInFlight, RejectionInFlight, Lost
  <2>3. ASSUME NEW c \in Calls, ReadApproval(c) PROVE DecisionInFlight'
    <3>1. \A d \in Calls : call[d].step # "fresh" => call'[d] = call[d]
      BY <2>3, <2>t DEF ReadApproval, Goto, TypeOK
    <3>2. UNCHANGED <<approval, votes>>
      BY <2>3 DEF ReadApproval
    <3> QED
      BY <1>2, <3>1, <3>2 DEF DecisionInFlight, ApprovalInFlight, RejectionInFlight, Lost, HasQuorum, ApproveVotes, RejectVotes
  <2>4. ASSUME NEW c \in Calls, InsertVote(c) PROVE DecisionInFlight'
    <3>1. \A d \in Calls : call[d].step # "vote" => call'[d] = call[d]
      BY <2>4, <2>t DEF InsertVote, Goto, TypeOK
    <3>2. CASE UNCHANGED <<approval, votes>>
      BY <1>2, <3>1, <3>2 DEF DecisionInFlight, ApprovalInFlight, RejectionInFlight, Lost, HasQuorum, ApproveVotes, RejectVotes
    <3>3. CASE ~HasVoted(call[c].vote.user)
      <4>1. /\ votes' = votes \cup {call[c].vote}
            /\ approval' = approval
            /\ call'[c].step = IF call[c].vote.decision = "reject" THEN "reject" ELSE "count"
        BY <2>4, <3>3, <2>t DEF InsertVote, Goto, TypeOK
      <4>0. \A d \in Calls : /\ ApprovalInFlight(d) => ApprovalInFlight(d)'
                             /\ RejectionInFlight(d) => RejectionInFlight(d)'
        BY <2>4, <3>1 DEF ApprovalInFlight, RejectionInFlight, Lost, InsertVote
      <4>2. CASE call[c].vote.decision = "reject"
        <5>1. ApproveVotes' = ApproveVotes
          BY <4>1, <4>2 DEF ApproveVotes
        <5> QED
          BY <1>2, <4>0, <4>1, <4>2, <5>1 DEF DecisionInFlight, RejectionInFlight, HasQuorum
      <4>3. CASE call[c].vote.decision # "reject"
        <5>1. RejectVotes' = RejectVotes
          BY <4>1, <4>3 DEF RejectVotes
        <5> QED
          BY <1>2, <4>0, <4>1, <4>3, <5>1 DEF DecisionInFlight, ApprovalInFlight
      <4> QED BY <4>2, <4>3
    <3> QED
      BY <2>4, <3>2, <3>3 DEF InsertVote
  <2>5. ASSUME NEW c \in Calls, CountVotes(c) PROVE DecisionInFlight'
    <3>1. UNCHANGED <<approval, votes>>
      BY <2>5 DEF CountVotes
    <3>2. /\ \A d \in Calls \ {c} : call'[d] = call[d]
          /\ call'[c].step = IF HasQuorum THEN "approve" ELSE "done"
          /\ call[c].step = "count"
      BY <2>5, <2>t DEF CountVotes, Goto, TypeOK
    <3>3. HasQuorum' = HasQuorum /\ RejectVotes' = RejectVotes
      BY <3>1 DEF HasQuorum, ApproveVotes, RejectVotes
    <3>4. \A d \in Calls : RejectionInFlight(d) => RejectionInFlight(d)'
      BY <3>2 DEF RejectionInFlight, Lost
    <3>5. HasQuorum => ApprovalInFlight(c)'
      BY <3>2 DEF ApprovalInFlight
    <3> QED
      BY <1>2, <3>1, <3>3, <3>4, <3>5 DEF DecisionInFlight
  <2>7. ASSUME NEW c \in Calls, CallFails(c) PROVE DecisionInFlight'
    <3>1. UNCHANGED <<approval, votes>>
      BY <2>7 DEF CallFails
    <3>2. /\ \A d \in Calls \ {c} : call'[d] = call[d]
          /\ call'[c].vote = call[c].vote
          /\ call[c].step \in {"count", "approve", "reject"} => call'[c].step = "lost"
          /\ call[c].step # "lost"
      BY <2>7, <2>t DEF CallFails, Goto, TypeOK
    <3>3. /\ HasQuorum' = HasQuorum /\ RejectVotes' = RejectVotes
      BY <3>1 DEF HasQuorum, ApproveVotes, RejectVotes
    <3>4. /\ call[c].step \in {"count", "approve"} => call[c].vote.decision = "approve"
          /\ call[c].step = "reject" => call[c].vote.decision = "reject"
      BY <1>2 DEF Inv, RequestsKnow
    <3> QED
      BY <1>2, <3>1, <3>2, <3>3, <3>4 DEF DecisionInFlight, ApprovalInFlight, RejectionInFlight, Lost
  <2>6. CASE \E c \in Calls : RejectApproval(c) \/ ApproveApproval(c)
    <3>1. approval' # "pending"
      BY <2>6 DEF RejectApproval, ApproveApproval
    <3> QED BY <3>1 DEF DecisionInFlight, ApprovalInFlight, RejectionInFlight, Lost
  <2> QED
    BY <1>2, <2>1, <2>2, <2>3, <2>4, <2>5, <2>6, <2>7 DEF Next, CallStep, vars,
       BeginWait, CheckSignal, HearStatus, PollFails, Abort
<1> QED
  BY <1>1, <1>2, Invariance, PTL DEF Spec
-----------------------------------------------------------------------------
\* The gate keeps the promise: each database call either does nothing the
\* promise can see or is one of its steps.
THEOREM ApprovalImplementsPromise == Spec => KeepsPromise
<1>1. Init => Promise!Init
  BY DEF Init, Promise!Init, Waiting
<1>2. ASSUME Inv, Inv', [Next]_vars PROVE [Promise!Next]_(Promise!promiseVars)
  <2> USE DEF Promise!Next, Promise!promiseVars
  <2>t. TypeOK /\ TypeOK'
    BY <1>2 DEF Inv
  <2>1. CASE InsertApproval
    BY <2>1 DEF InsertApproval, Promise!Open
  <2>2. ASSUME NEW c \in Calls, InsertVote(c) PROVE [Promise!Next]_(Promise!promiseVars)
    <3>1. CASE UNCHANGED votes
      BY <2>2, <3>1 DEF InsertVote
    <3>2. CASE ~HasVoted(call[c].vote.user)
      <4>1. call[c].vote \in Votes
        BY <2>t DEF TypeOK
      <4>2. PICK u \in Users, d \in Decisions : call[c].vote = [user |-> u, decision |-> d]
        BY <4>1 DEF Votes
      <4>3. \A v \in votes : v.user # u
        BY <3>2, <4>2 DEF HasVoted
      <4>4. approval \notin {"unclaimed", "missing"}
        BY <1>2, <2>2 DEF Inv, RowIsOpen, InsertVote, Unopened
      <4>5. Promise!Cast
        BY <2>2, <3>2, <4>2, <4>3, <4>4 DEF InsertVote, Promise!Cast, Decisions
      <4> QED BY <4>5
    <3> QED
      BY <2>2, <3>1, <3>2 DEF InsertVote
  <2>3. CASE \E c \in Calls : RejectApproval(c)
    <3>1. RejectVotes # {}
      BY <1>2, <2>3 DEF RejectApproval, Inv, RequestsKnow
    <3> QED
      BY <2>3, <3>1 DEF RejectApproval, Promise!Settle, RejectVotes
  <2>4. CASE \E c \in Calls : ApproveApproval(c)
    <3>1. HasQuorum
      BY <1>2, <2>4 DEF ApproveApproval, Inv, RequestsKnow
    <3>2. Promise!Cardinality({v \in votes : v.decision = "approve"}) >= Required
      BY <3>1 DEF HasQuorum, ApproveVotes, Cardinality, Promise!Cardinality
    <3> QED
      BY <2>4, <3>2 DEF ApproveApproval, Promise!Settle
  <2>5. CASE BeginWait \/ PollFails
    BY <2>5 DEF BeginWait, PollFails, Waiting
  <2>6. CASE CheckSignal \/ HearStatus
    BY <2>6 DEF CheckSignal, HearStatus, Waiting, Settled, Promise!Hear
  <2>7. CASE UNCHANGED <<approval, votes, gate>>
    BY <2>7
  <2> QED
    BY <1>2, <2>1, <2>2, <2>3, <2>4, <2>5, <2>6, <2>7 DEF Next, CallStep, vars,
       ReadApproval, CountVotes, CallFails, Abort
<1> QED
  BY <1>1, <1>2, Invariance, PTL DEF Spec, KeepsPromise, Promise!Spec
=============================================================================
