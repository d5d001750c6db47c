--------------------------- MODULE OperationRecords ---------------------------
(***************************************************************************)
(* The records that are made of a request: the dry-run result              *)
(* (operations/dry_run.py), the refusal with its interrupt context         *)
(* (operations/refusals.py), and the decision on an action                 *)
(* (operations/action_routes.py).                                          *)
(***************************************************************************)
EXTENDS ResourceSafety

-----------------------------------------------------------------------------
(* Dry-run results.                                                        *)

DryRunResultStatus == {"accepted", "blocked", "faulted", "refused", "review_required"}

DryRunResultRecord ==
    [request: OperationRequestEnvelope, review_status: DryRunResultStatus, refused_effect_set: SUBSET OperationRequestIssueKind,
     required_human_approval: BOOLEAN, live_effect_performed: BOOLEAN, completion_review_required: BOOLEAN,
     has_non_authority_notice: BOOLEAN, authority_tier: OperationAuthorityTier,
     authority_promotion_claimed: BOOLEAN]

\* _result_status_for_request_validation
\* Mutant: a request that needs a review is reviewed, even if it is refused.
ReviewBeforeRefusal(issues) ==
    BySeverity(issues, << <<"fault", "faulted">>, <<"review_required", "review_required">>,
                          <<"refused", "refused">> >>, "blocked")
ResultStatus(issues) ==
    BySeverity(issues, << <<"fault", "faulted">>, <<"refused", "refused">>,
                          <<"review_required", "review_required">> >>, "blocked")

\* _requires_human_approval
RequiresHumanApproval(e, issues) ==
    \/ HasSeverity(issues, "review_required")
    \/ e.risk_classification \in {"critical", "high"}
    \/ e.blast_radius \in {"uncertain", "wide", "critical", "unknown"}

\* dry_run_result_from_operation_request; without a validation it is accepted.
DryRunResult(e, validated) ==
    LET issues == IF validated THEN IssuesOf(e) ELSE {}
        accepted == validated => RequestStatus(e) = "accepted"
    IN  [request |-> e, review_status |-> IF accepted THEN "accepted" ELSE ResultStatus(issues),
         refused_effect_set |-> KindsOf(issues), required_human_approval |-> RequiresHumanApproval(e, issues),
         live_effect_performed |-> FALSE, completion_review_required |-> TRUE,
         has_non_authority_notice |-> TRUE, authority_tier |-> "operations_planning_record",
         authority_promotion_claimed |-> FALSE]

\* The fields copied from the request that a result may not miss.
ResultFields == {"operation_request_id", "authority_notice_ref", "resource_target", "risk_classification",
                 "rollback_or_abort_route", "stale_after"}

\* validate_dry_run_result_record
ResultIssues(r) ==
         When(IsMissing(r.request, ResultFields), "missing_field", "fault")
    \cup When(r.live_effect_performed, "live_effect_performed", "refused")
    \cup When(~r.completion_review_required, "missing_completion_review", "blocked")
    \cup When(~r.has_non_authority_notice, "missing_non_authority_notice", "fault")
    \cup When(\/ r.authority_tier \in FORBIDDEN_AUTHORITY_TIER_SET
              \/ r.authority_promotion_claimed, "authority_promotion", "refused")
ResultValidationStatus(r) ==
    BySeverity(ResultIssues(r), << <<"fault", "faulted">>, <<"refused", "refused">>, <<"blocked", "blocked">> >>,
               r.review_status)

\* DryRunResultRecord.is_non_authoritative
IsNonAuthoritative(r) == /\ ~r.live_effect_performed
                         /\ r.completion_review_required
                         /\ r.has_non_authority_notice
                         /\ r.authority_tier = "operations_planning_record"

-----------------------------------------------------------------------------
(* Refusals.                                                               *)

\* _primary_issue: sorted() is stable, so the first of the worst severity.
\* Mutant: staleness outranks interrupts.
StaleFirst == [fault |-> 0, refused |-> 1, stale |-> 2, interrupt |-> 3, review_required |-> 4, blocked |-> 5]
Priority == [fault |-> 0, refused |-> 1, interrupt |-> 2, stale |-> 3, review_required |-> 4, blocked |-> 5]
PrimaryIssue(e) ==
    LET found == {<<Priority[i.severity], n, i>> : n \in DOMAIN IssuesInOrder(e), i \in IssuesOf(e)}
        placed == {f \in found : f[3] \in IssuesInOrder(e)[f[2]]}
    IN  (CHOOSE f \in placed : \A g \in placed : f[1] < g[1] \/ (f[1] = g[1] /\ f[2] <= g[2]))[3]

\* refusal_reason_for_issue: most kinds are reasons of the same name.
ReasonForKind(kind) ==
    FirstOf(<< <<kind \in {"missing_field", "missing_authority_notice", "missing_source_ref",
                           "missing_completion_review"}, "missing_required_identity_field">>,
               <<kind = "forbidden_authority_tier", "generated_projection_promoted_to_authority">>,
               <<kind = "dry_run_not_required", "live_effect_requested">> >>, kind)
RefusalReason(e) == IF IssuesOf(e) = {} THEN "live_effect_requested" ELSE ReasonForKind(PrimaryIssue(e).issue_kind)

\* refusal_output_set_for_request
ControlOfReason(e, reason) ==
    IF reason \in {"live_effect_requested", "generated_projection_promoted_to_authority"}
    THEN {"refused_live_control"} ELSE {}
GpuEffects == {"gpu_control", "gpu_workload_launch", "gpu_workload_cancel", "gpu_scheduler_mutation"}
ModelRuntimeEffects == {"model_runtime_start", "model_runtime_stop", "model_runtime_install",
                        "model_runtime_upgrade", "model_runtime_configuration_mutation",
                        "model_runtime_mutation"}
RefusedControl(e, reason) ==
    LET touches(target, effects) == e.resource_target = target \/ e.intended_effect \in effects
    IN  FirstOf(
          << <<touches("gpu", GpuEffects), {"refused_gpu_control"}>>,
             <<touches("model_runtime", ModelRuntimeEffects), {"refused_model_runtime_control"}>>,
             <<touches("job_queue", {"job_dispatch", "job_cancellation", "job_dispatch_or_cancellation"}),
               {"refused_job_control"}>>,
             <<touches("credential_or_secret", {"credential_access_or_mutation"}), {"refused_credential_control"}>>,
             <<touches("network_service", {"network_exposure_mutation"}), {"refused_network_control"}>>,
             <<touches("filesystem_destructive_target", {"destructive_filesystem_action"}),
               {"refused_destructive_filesystem_control"}>> >>, ControlOfReason(e, reason))
RefusalOutputs(e, reason) ==
    {"refused_operation_request", "sop_first_interrupt_context"}
        \cup (IF HasSeverity(IssuesOf(e), "review_required")
              THEN {"required_resource_safety_review", "required_human_review"} ELSE {})
        \cup (IF reason \in {"missing_required_identity_field", "missing_required_safety_field",
                             "stale_authority_notice", "ambiguous_resource_target",
                             "missing_rollback_or_abort_route"}
              THEN {"blocked_operation_request"} ELSE {})
        \cup RefusedControl(e, reason)

\* safe_next_route_for_reason
SafeNextRoute(reason) ==
    FirstOf(<< <<reason \in {"high_risk_target_without_IR7-S03_review", "credential_boundary_touched",
                             "network_exposure_requested", "destructive_action_possible"},
                 "IR7-S03_resource_safety_review">>,
               <<reason \in {"missing_required_identity_field", "missing_required_safety_field",
                             "missing_rollback_or_abort_route"}, "repair_operation_request">>,
               <<reason = "stale_authority_notice", "refresh_authority_notice_or_rebake">> >>,
            "SOP_first_interrupt_and_completion_review")

\* refusal_record_from_request_validation
Refusal(e) ==
    [request |-> e, refusal_reason |-> RefusalReason(e), refusal_output_set |-> RefusalOutputs(e, RefusalReason(e)),
     safe_next_route |-> SafeNextRoute(RefusalReason(e)),
     evidence_ref_set |-> e.source_ref_set \cup {e.operation_request_id} \cup KindsOf(IssuesOf(e)),
     claims_effect |-> FALSE, has_non_authority_notice |-> TRUE]

\* validate_operation_refusal_record
RefusalIssues(r) ==
         When(IsMissing(r.request, {"operation_request_id", "intended_effect", "resource_target",
                                    "requested_by", "authority_notice_ref"}), "missing_field", "fault")
    \cup When(~r.has_non_authority_notice, "missing_non_authority_notice", "fault")
    \cup When(r.claims_effect, "command_or_live_effect_claimed", "refused")

\* sop_first_interrupt_context_from_refusal
InterruptContext(r) == [operation_request_ref |-> r.request.operation_request_id,
                        interrupt_reason |-> r.refusal_reason, required_route_set |-> {r.safe_next_route}]

-----------------------------------------------------------------------------
(* Actions on a request.                                                   *)

LOW_AUTHORITY_REVIEW_ACTION_SET ==
    {"request_completion_review", "request_human_review", "request_resource_safety_review",
     "request_sop_first_interrupt", "request_rebake", "refresh_authority_notice"}
CREDENTIAL_ACTION_SET == {"credential_access_or_mutation", "credential_mutation", "reveal_secret", "mutate_secret"}
NETWORK_ACTION_SET == {"network_exposure_mutation", "network_mutation", "open_listener"}
DESTRUCTIVE_ACTION_SET == {"destructive_filesystem_action", "delete_path", "format_disk"}

\* The packet of an action on request e that was refused or not: refusals are
\* the stop states, with their interrupt contexts.
ActionPacket(e, kind, refusals, supported) ==
    [action_kind |-> kind, authority_notice_ref |-> e.authority_notice_ref, freshness_state |-> e.freshness_state,
     risk_classification |-> e.risk_classification, supported_action_route_set |-> supported,
     stop_state_ref_set |-> refusals, interrupt_context_ref_set |-> {InterruptContext(r) : r \in refusals},
     authority_promotion_requested |-> e.requested_authority_promotion]

\* classify_operation_action; the flags of a packet repeat what its kind says.
\* Mutant: live effects are unsupported and no more.
ActionIssuesExceptLive(p) ==
    LET safe == p.action_kind \in SAFE_DRY_RUN_EFFECT_SET \cup LOW_AUTHORITY_REVIEW_ACTION_SET
    IN       When(p.action_kind = NoValue, "missing_action", "blocked")
        \cup When(p.authority_notice_ref = NoValue, "missing_authority_notice", "refused")
        \cup When(p.action_kind # NoValue /\ ~safe, "unsupported_action_route", "blocked")
ActionIssues(p) ==
    LET kind == p.action_kind
        review == kind \in LOW_AUTHORITY_REVIEW_ACTION_SET
        interrupted == p.interrupt_context_ref_set # {} \/ p.freshness_state = "interrupted"
    IN       When(kind = NoValue, "missing_action", "blocked")
        \cup When(p.authority_notice_ref = NoValue, "missing_authority_notice", "refused")
        \cup When(p.stop_state_ref_set # {} \/ p.interrupt_context_ref_set # {} \/ p.freshness_state # "fresh",
                  "stale_or_stopped_request", IF interrupted THEN "interrupt" ELSE "blocked")
        \cup When(kind \in BLOCKED_LIVE_EFFECT_SET, "live_control_requested", "refused")
        \cup When(kind \in CREDENTIAL_ACTION_SET, "credential_access_requested", "refused")
        \cup When(kind \in NETWORK_ACTION_SET, "network_mutation_requested", "refused")
        \cup When(kind \in DESTRUCTIVE_ACTION_SET, "destructive_action_requested", "refused")
        \cup When(p.authority_promotion_requested, "authority_promotion_requested", "refused")
        \cup When(p.risk_classification \in {"high", "critical", "unknown"} /\ ~review,
                  "high_risk_review_required", "review_required")
        \cup When(/\ kind # NoValue /\ ~review
                  /\ kind \notin SAFE_DRY_RUN_EFFECT_SET \cup p.supported_action_route_set,
                  "unsupported_action_route", "blocked")

\* _decision_status_for_issues: what is only supported is not allowed.
ActionDecision(p) ==
    BySeverity(ActionIssues(p),
               << <<"refused", "refused">>, <<"interrupt", "interrupt">>,
                  <<"review_required", "review_required">>, <<"blocked", "blocked">> >>,
               IF p.action_kind \in SAFE_DRY_RUN_EFFECT_SET \cup LOW_AUTHORITY_REVIEW_ACTION_SET
               THEN "allowed" ELSE "blocked")

\* _review_routes_for_issues
ReviewRoutesOf(p) ==
    LET routes == [high_risk_review_required |-> {"request_resource_safety_review", "request_human_review"},
                   stale_or_stopped_request  |-> {"request_sop_first_interrupt"},
                   missing_authority_notice  |-> {"refresh_authority_notice"}]
    IN  UNION {routes[kind] : kind \in KindsOf(ActionIssues(p)) \cap DOMAIN routes}
=============================================================================
