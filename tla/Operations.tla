------------------------------ MODULE Operations ------------------------------
(***************************************************************************)
(* A planner of operations: requests come and go, a human approves some of *)
(* them, and the planner makes records of the request at hand.  Nothing    *)
(* ties an approval to the request it was given for but the comparison in  *)
(* validate_human_approval_for_request: the planner passes the approval    *)
(* that it has, which may be for an earlier request, or for an earlier     *)
(* version of this one.                                                    *)
(***************************************************************************)
EXTENDS OperationRecords

CONSTANTS RequestData,       \* the mappings that requests are built from
          Approvable,        \* the requests that a human is asked about
          ApprovalForms,     \* what a human decides, apart from what for
          BlastEvidence,     \* what is known of the blast radius
          RollbackEvidence,  \* what is known of a way back
          ResultEdits        \* fields of a result that a mapping may have otherwise

\* The dataclasses have typed fields: what cannot be converted raises before
\* there is a record.  An edit leaves what a result copies from its request; a
\* mapping that has lost a field is one that has the default of the field.
ApprovalForm == [complete: BOOLEAN, approval_state: HumanApprovalState,
                 broad_approval_requested: BOOLEAN, live_control_authority_claimed: BOOLEAN]
EditableFields == {"live_effect_performed", "completion_review_required", "has_non_authority_notice",
                   "authority_tier", "review_status", "authority_promotion_claimed"}
EditableValues(f) == IF f = "authority_tier" THEN OperationAuthorityTier
                     ELSE IF f = "review_status" THEN DryRunResultStatus ELSE BOOLEAN

ASSUME OperationsAssumption ==
    /\ \A data \in RequestData : EnvelopeFromMapping(data) \in OperationRequestEnvelope
    /\ ApprovalForms \subseteq ApprovalForm
    /\ \A edit \in ResultEdits :
           /\ DOMAIN edit \subseteq EditableFields
           /\ \A f \in DOMAIN edit : edit[f] \in EditableValues(f)

VARIABLES request,   \* the request at hand
          approval,  \* the last approval
          result,    \* its dry-run result, whether its request was validated
          refusal,   \* its refusal
          review     \* its safety review, with the evidence and approval used

vars == <<request, approval, result, refusal, review>>

Optional(S) == {{}} \cup {{x} : x \in S}

Init == request = {} /\ approval = {} /\ result = {} /\ refusal = {} /\ review = {}

Unrecorded == result \cup refusal \cup review = {}

Submit(data) == /\ request = {}
                /\ request' = {EnvelopeFromMapping(data)}
                /\ UNCHANGED <<approval, result, refusal, review>>

\* human_approval_envelope_from_parts, for what the request says now.
Approve(form) ==
    \E e \in request \cap Approvable :
        /\ Unrecorded
        /\ approval' = {Merged([approved_operation_request_ref |-> e.operation_request_id,
                                approved_intended_effect |-> e.intended_effect,
                                approved_resource_target |-> e.resource_target,
                                risk_classification |-> e.risk_classification], form)}
        /\ UNCHANGED <<request, result, refusal, review>>

\* The caller need not validate the request before it simulates it.
Simulate(validated) ==
    \E e \in request :
        /\ Unrecorded
        /\ result' = {Merged([validated |-> validated], DryRunResult(e, validated))}
        /\ UNCHANGED <<request, approval, refusal, review>>

\* dry_run_result_record_from_mapping, of a mapping that has other values.
\* Bound: a result is read again once.
AsSimulated(r) == LET d == DryRunResult(r.request, r.validated) IN \A f \in EditableFields : r[f] = d[f]
Reread(edit) ==
    \E r \in result :
        /\ AsSimulated(r)
        /\ result' = {Merged(edit, r)}
        /\ UNCHANGED <<request, approval, refusal, review>>

Refuse == \E e \in request :
              /\ Unrecorded
              /\ RequestStatus(e) # "accepted"
              /\ refusal' = {Refusal(e)}
              /\ UNCHANGED <<request, approval, result, review>>

Review(blast, rollback, used) ==
    \E e \in request :
        /\ Unrecorded
        /\ review' = {Merged([request |-> e, approval |-> used], ReviewResourceSafety(e, blast, rollback, used))}
        /\ UNCHANGED <<request, approval, result, refusal>>

\* The planner goes on to the next request; the approval stays.
Discard == /\ request # {}
           /\ request' = {} /\ result' = {} /\ refusal' = {} /\ review' = {}
           /\ UNCHANGED approval

Next == \/ \E data \in RequestData : Submit(data)
        \/ \E form \in ApprovalForms : Approve(form)
        \/ \E validated \in BOOLEAN : Simulate(validated)
        \/ \E edit \in ResultEdits : Reread(edit)
        \/ Refuse
        \/ \E blast \in Optional(BlastEvidence), rollback \in Optional(RollbackEvidence), used \in {{}, approval} :
               Review(blast, rollback, used)
        \/ Discard

Spec == Init /\ [][Next]_vars

-----------------------------------------------------------------------------
(* Properties.                                                             *)

TypeOK ==
    /\ \A e \in request : e \in OperationRequestEnvelope /\ request = {e}
    /\ \A a \in approval : a \in HumanApprovalEnvelope /\ approval = {a}
    /\ \A r \in result : [f \in DOMAIN r \ {"validated"} |-> r[f]] \in DryRunResultRecord
    /\ \A e \in request : RequestStatus(e) \in OperationRequestStatus
    /\ \A r \in review : r.required_human_review = FALSE => r.issues = {}

\* A dry run does not look better than the request it is of: the status that the
\* result of a validated request is given is accepted, faulted, or refused
\* exactly if the request is, and validate_dry_run_result_record, which takes the
\* review_status of a record at its word, accepts the result of a request that
\* was not accepted only if the mapping it was read from had another status than
\* that.  The cascades of requests.py:577, dry_run.py:327 and dry_run.py:337 agree.
GivenStatus(r) == DryRunResult(r.request, r.validated).review_status
DryRunFollowsRequest ==
    \A r \in result : r.validated =>
        LET status == RequestStatus(r.request)
            validation == ResultValidationStatus(r)
            given == GivenStatus(r)
        IN  /\ given = "accepted" <=> status = "accepted"
            /\ given = "refused" <=> status \in {"refused", "blocked_for_live_effect"}
            /\ given = "faulted" <=> status = "faulted"
            /\ validation = "accepted" => status = "accepted" \/ r.review_status # given
            /\ AsSimulated(r) => (status = "faulted" <=> validation = "faulted")

\* What validate_dry_run_result_record accepts is what the record itself calls
\* non-authoritative, however it was read: two definitions of the same thing.
AcceptedResultsAreNonAuthoritative ==
    \A r \in result : ResultValidationStatus(r) = "accepted" => ResultIssues(r) = {} /\ IsNonAuthoritative(r)

\* The reason that a refusal gives is one for which the request got its status:
\* _primary_issue and operation_request_status_for_issues rank issues alike.
SeveritiesOfStatus == [faulted |-> {"fault"}, blocked_for_live_effect |-> {"refused"}, refused |-> {"refused"},
                       interrupted |-> {"interrupt"}, stale |-> {"stale"},
                       review_required |-> {"review_required"}, blocked |-> {"blocked"}]
RefusalNamesTheWorst ==
    \A r \in refusal : IssuesOf(r.request) # {} =>
        \E i \in IssuesOf(r.request) :
            /\ i.severity \in SeveritiesOfStatus[RequestStatus(r.request)]
            /\ ReasonForKind(i.issue_kind) = r.refusal_reason

\* The refusal of a live effect names exactly one kind of control as refused,
\* whichever of the issues of the request comes first.
Controls == {"refused_gpu_control", "refused_model_runtime_control", "refused_job_control",
             "refused_credential_control", "refused_network_control",
             "refused_destructive_filesystem_control", "refused_live_control"}
LiveRefusalNamesControl ==
    \A r \in refusal : RequestStatus(r.request) = "blocked_for_live_effect" =>
        Cardinality(r.refusal_output_set \cap Controls) = 1

\* A request with a live effect or a critical target is not accepted, and no
\* review of it is without issues, with whatever evidence and approval.  A dry
\* run of the validated request is accepted only if its review_status was edited
\* or lost, and then still names what the request was refused for.
NothingLiveIsAccepted ==
    \A e \in request : (e.intended_effect \in BLOCKED_LIVE_EFFECT_SET \/ e.resource_target \in CRITICAL_TARGET_SET) =>
        /\ RequestStatus(e) # "accepted"
        /\ \A r \in result : r.validated /\ ResultValidationStatus(r) = "accepted" =>
               /\ r.review_status # GivenStatus(r)
               /\ r.refused_effect_set # {}
        /\ \A r \in review : r.issues # {}

\* A review without issues of a request at high risk was given an approval
\* record, and a record that a review without issues was given is complete,
\* scoped, not withdrawn, and of this request, effect and target: one that an
\* earlier request left behind does not pass.  That the approval was granted is
\* not part of this: validate_human_approval_for_request passes a record whose
\* state is requested or absent as it passes a fresh_scoped one.
Withdrawn == {"stale", "revoked", "mismatched", "broad_invalid"}
ApprovalRecordsFitTheirRequest ==
    \A r \in review : r.issues = {} =>
        /\ r.risk_level \in {"high", "critical", "unknown"} => r.approval # {}
        /\ \A a \in r.approval :
               /\ a.approved_operation_request_ref = r.request.operation_request_id
               /\ a.approved_intended_effect = r.request.intended_effect
               /\ a.approved_resource_target = r.request.resource_target
               /\ a.complete /\ ~a.broad_approval_requested /\ ~a.live_control_authority_claimed
               /\ a.approval_state \notin Withdrawn

\* Actions are classified as effects are: an action that classify_operation_action
\* allows on an accepted request, other than a request for a review, would be
\* accepted as its effect, and one that would be refused as effect is refused.
ActionKinds == SAFE_DRY_RUN_EFFECT_SET \cup BLOCKED_LIVE_EFFECT_SET \cup LOW_AUTHORITY_REVIEW_ACTION_SET
                   \cup CREDENTIAL_ACTION_SET \cup NETWORK_ACTION_SET \cup DESTRUCTIVE_ACTION_SET \cup {NoValue, "unlisted"}
ActionsFollowEffects ==
    Unrecorded =>
        \A e \in request : RequestStatus(e) = "accepted" =>
            \A kind \in ActionKinds :
                LET decision == ActionDecision(ActionPacket(e, kind, {}, {"unlisted"}))
                    asEffect == RequestStatus([e EXCEPT !.intended_effect = kind])
                IN  /\ decision = "allowed" => \/ kind \in LOW_AUTHORITY_REVIEW_ACTION_SET
                                               \/ asEffect = "accepted"
                    /\ asEffect \in {"refused", "blocked_for_live_effect"} => decision = "refused"

\* A refused request has no action: not even the interrupt that the decision
\* itself names as the way on is allowed while the refusal stands.
RefusedMeansNoAction ==
    \A r \in refusal : \A kind \in ActionKinds :
        LET packet == ActionPacket(r.request, kind, refusal, {"unlisted"})
        IN  /\ ActionDecision(packet) # "allowed"
            /\ "request_sop_first_interrupt" \in ReviewRoutesOf(packet)

\* An approval goes stale when the risk classification of the request changes
\* (IR7 resource safety contract).
ApprovalTracksRisk ==
    \A r \in review : r.issues = {} =>
        \A a \in r.approval : a.risk_classification = r.request.risk_classification

\* What is recorded of a request follows from the request: a dry run is judged
\* as its request is unless its status is edited, and a result that is accepted
\* after edits still claims nothing.
ResultsFollowRequests == TypeOK /\ DryRunFollowsRequest /\ AcceptedResultsAreNonAuthoritative

\* A refusal says why its request was stopped: the reason is the worst issue,
\* and for a live effect the one kind of control that is refused is named.
RefusalsAreFaithful == RefusalNamesTheWorst /\ LiveRefusalNamesControl

\* The lists of action_routes.py follow those of requests.py: no action gets
\* what its effect would be refused, and a refused request has none at all.
ActionsFollowRequests == ActionsFollowEffects /\ RefusedMeansNoAction

=============================================================================
