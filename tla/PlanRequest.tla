---------------------------- MODULE PlanRequest ----------------------------
(***************************************************************************)
(* What a client may ask of a stored plan, for the stores that answer in   *)
(* several steps: MongoPlanStore and SqlPlanStore.  Both hand the same     *)
(* callback to their updatePlan: it throws, or returns the next record.    *)
(***************************************************************************)
EXTENDS PlanRecord

CONSTANTS
    LoopInput,    \* the work loops callers submit, report or release
    ReasonInput,  \* the release reasons they give
    NoLoop        \* a completion that carries no work loop

ASSUME RequestAssumption ==
    /\ LoopInput \subseteq WorkLoop
    /\ ReasonInput \subseteq ReleaseReason
    /\ NoLoop \notin WorkLoop

ReviewRequest == [op : {"approve", "reject", "request_review"}]

(* Requests of a client token that must present its lease. *)
LeaseRequest ==
    [op : {"heartbeat"}, lease : Lease, token : Token]
    \cup [op : {"progress"}, lease : Lease, token : Token, loop : LoopInput]
    \cup [op : {"release"}, lease : Lease, token : Token, loop : LoopInput,
          reason : ReasonInput]
    \cup [op : {"complete"}, lease : Lease, token : Token, loop : LoopInput \cup {NoLoop}]

EvidenceRequest == [op : {"attach_review_evidence"}, evidence : Evidence]

Request == ReviewRequest \cup LeaseRequest \cup EvidenceRequest

(* input.workLoop ?? plan.workLoop *)
FinalLoop(r, q) == IF q.loop = NoLoop THEN r.workLoop ELSE q.loop

(* The callback does not throw. *)
Accepts(r, q, now) ==
    /\ q \in LeaseRequest => HoldsLease(r, q.lease, q.token, now)
    /\ q.op = "complete" => IsTerminalWorkLoop(FinalLoop(r, q))
    /\ q \in EvidenceRequest => CanAttachEvidence(r, q.evidence)

(* What it returns. *)
Updated(r, q, now) ==
    CASE q.op = "approve"        -> Approved(r)
      [] q.op = "reject"         -> Rejected(r)
      [] q.op = "request_review" -> ReviewRequested(r)
      [] q.op = "heartbeat"      -> Extended(r, q.lease, q.token, now)
      [] q.op = "progress"       -> Progressed(r, q.loop)
      [] q.op = "release"        -> Released(r, q.loop, q.reason)
      [] q.op = "complete"       -> Completed(r, FinalLoop(r, q), q.token)
      [] q.op = "attach_review_evidence" -> WithEvidence(r, q.evidence)

=============================================================================
