--------------------------- MODULE OperationRequests ---------------------------
(***************************************************************************)
(* Requests for operations, which only ever plan a dry run:                *)
(* operations/requests.py.  A reference is a string, empty (NoValue) if it *)
(* is missing.  Of the identity fields and the safety fields that are only *)
(* tested for presence, one of each is kept: requested_by and stale_after. *)
(***************************************************************************)
EXTENDS Issues, Functions

SAFE_DRY_RUN_EFFECT_SET ==
    {"inspect", "simulate", "estimate_resource_use", "classify_risk", "prepare_dry_run"}

BLOCKED_LIVE_EFFECT_SET ==
    {"command_execution", "process_control", "gpu_control", "gpu_workload_launch", "gpu_workload_cancel",
     "gpu_scheduler_mutation", "live_process_start", "live_process_stop", "live_process_priority_change",
     "model_runtime_start", "model_runtime_stop", "model_runtime_install", "model_runtime_upgrade",
     "model_runtime_configuration_mutation", "model_runtime_mutation", "job_dispatch", "job_cancellation",
     "job_dispatch_or_cancellation", "credential_access_or_mutation", "credential_mutation",
     "network_exposure_mutation", "network_mutation", "destructive_filesystem_action",
     "persistent_operations_automation", "agent_dispatch", "operations_control", "live_machine_control"}

HIGH_RISK_TARGET_SET == {"process", "gpu", "model_runtime", "job_queue", "credential_or_secret",
                         "network_service", "filesystem_destructive_target", "unknown_or_ambiguous"}
TARGET_KIND_SET == HIGH_RISK_TARGET_SET \cup {"workspace_file", "coordination_claim",
                                              "mailbox_carrier_context", "generated_projection"}

OperationRequestIssueKind ==
    {"missing_field", "missing_authority_notice", "stale_authority_notice", "forbidden_authority_tier",
     "missing_source_ref", "missing_completion_review", "missing_required_safety_field",
     "ambiguous_resource_target", "live_effect_requested", "high_risk_target_without_IR7-S03_review",
     "missing_rollback_or_abort_route", "credential_boundary_touched", "network_exposure_requested",
     "destructive_action_possible", "coordination_claim_promoted_to_dispatch",
     "mailbox_carrier_promoted_to_dispatch", "generated_projection_promoted_to_authority",
     "dry_run_not_required"}
OperationRequestIssueSeverity == {"blocked", "stale", "fault", "interrupt", "refused", "review_required"}

OperationAuthorityTier ==
    {"operations_planning_record", "source_authority", "live_control_authority", "dispatch_authority",
     "credential_authority", "network_authority", "destructive_filesystem_authority"}
FORBIDDEN_AUTHORITY_TIER_SET == OperationAuthorityTier \ {"operations_planning_record"}

OperationFreshnessState == {"fresh", "pending_review", "stale", "unknown", "interrupted", "faulted"}

OperationRequestEnvelope ==
    [operation_request_id: STRING, requested_by: STRING, source_ref_set: SUBSET STRING,
     authority_notice_ref: STRING, authority_tier: OperationAuthorityTier,
     freshness_state: OperationFreshnessState, completion_review_ref: STRING, intended_effect: STRING,
     resource_target: STRING, risk_classification: STRING, blast_radius: STRING, dry_run_required: BOOLEAN,
     rollback_or_abort_route: STRING, predicted_side_effect_set: SUBSET STRING, stale_after: STRING,
     cited_authority_set: SUBSET STRING, authority_notice_state: STRING,
     requested_authority_promotion: BOOLEAN]

\* operation_request_envelope_from_mapping: what data does not give has a default.
RequestDefaults ==
    [operation_request_id |-> NoValue, requested_by |-> NoValue, source_ref_set |-> {}, authority_notice_ref |-> NoValue,
     authority_tier |-> "operations_planning_record", freshness_state |-> "unknown",
     completion_review_ref |-> NoValue, intended_effect |-> NoValue, resource_target |-> "unknown_or_ambiguous",
     risk_classification |-> NoValue, blast_radius |-> NoValue, dry_run_required |-> TRUE,
     rollback_or_abort_route |-> NoValue, predicted_side_effect_set |-> {}, stale_after |-> NoValue,
     cited_authority_set |-> {}, authority_notice_state |-> "present_and_fresh",
     requested_authority_promotion |-> FALSE]
EnvelopeFromMapping(data) == Merged(data, RequestDefaults)

\* classify_intended_effect, classify_resource_target
EffectClass(effect) ==
    FirstOf(<< <<effect \in SAFE_DRY_RUN_EFFECT_SET, "safe_dry_run">>,
               <<effect \in BLOCKED_LIVE_EFFECT_SET, "blocked_live_effect">> >>, "unknown")
TargetRisk(target) ==
    FirstOf(<< <<target = "unknown_or_ambiguous" \/ target \notin TARGET_KIND_SET, "ambiguous">>,
               <<target \in HIGH_RISK_TARGET_SET, "high">> >>, "low")

\* The fields of these envelopes that are empty strings, as _field_has_value tests.
IdentityFields == {"operation_request_id", "requested_by", "authority_notice_ref", "completion_review_ref"}
SafetyFields == {"intended_effect", "resource_target", "risk_classification", "blast_radius",
                 "rollback_or_abort_route", "stale_after"}
IsMissing(e, fields) == \E f \in fields : e[f] = NoValue

\* _severity_for_freshness
FreshnessSeverity(freshness) ==
    FirstOf(<< <<freshness = "faulted", "fault">>, <<freshness = "interrupted", "interrupt">>,
               <<freshness = "stale", "stale">> >>, "blocked")

\* _target_specific_issues
TargetSpecificIssues(e) ==
    << When(e.resource_target = "credential_or_secret" \/ e.intended_effect = "credential_access_or_mutation",
            "credential_boundary_touched", "refused"),
       When(e.resource_target = "network_service" \/ e.intended_effect = "network_exposure_mutation",
            "network_exposure_requested", "refused"),
       When(\/ e.resource_target = "filesystem_destructive_target"
            \/ e.intended_effect = "destructive_filesystem_action",
            "destructive_action_possible", "refused") >>

\* _authority_promotion_issues
AuthorityPromotionIssues(e) ==
    LET cited == e.cited_authority_set
        dispatching == e.intended_effect \in {"job_dispatch", "job_cancellation"}
    IN  << When(dispatching /\ "coordination_claim" \in cited,
                "coordination_claim_promoted_to_dispatch", "refused"),
           When(dispatching /\ "mailbox_carrier_context" \in cited,
                "mailbox_carrier_promoted_to_dispatch", "refused"),
           When(dispatching /\ cited \cap {"successful_dry_run_record", "dry_run_result"} # {},
                "live_effect_requested", "refused"),
           When(\/ e.requested_authority_promotion
                \/ cited \cap {"generated_projection", "fixture_success"} # {},
                "generated_projection_promoted_to_authority", "refused") >>

\* _requires_resource_safety_review
RequiresResourceSafetyReview(e) ==
    /\ EffectClass(e.intended_effect) = "safe_dry_run"
    /\ TargetRisk(e.resource_target) = "high"
    /\ \/ e.predicted_side_effect_set # {}
       \/ e.blast_radius \in {"uncertain", "wide", "critical", "unknown"}
       \/ e.risk_classification \in {"critical", "high", "unknown"}

\* What validate_operation_request_envelope finds in the fields themselves.
EnvelopeIssues(e) ==
    << When(IsMissing(e, IdentityFields), "missing_field", "fault"),
       When(IsMissing(e, SafetyFields), "missing_required_safety_field", "fault"),
       When(e.source_ref_set = {}, "missing_source_ref", "fault"),
       When(e.completion_review_ref = NoValue, "missing_completion_review", "fault"),
       When(e.authority_notice_ref = NoValue, "missing_authority_notice", "fault"),
       When(e.authority_notice_state \in {"missing", "missing_or_stale", "stale"},
            "stale_authority_notice", "stale"),
       When(e.freshness_state # "fresh", "stale_authority_notice", FreshnessSeverity(e.freshness_state)),
       When(e.authority_tier \in FORBIDDEN_AUTHORITY_TIER_SET, "forbidden_authority_tier", "refused"),
       When(~e.dry_run_required, "dry_run_not_required", "refused"),
       When(EffectClass(e.intended_effect) = "blocked_live_effect", "live_effect_requested", "refused"),
       When(TargetRisk(e.resource_target) = "ambiguous", "ambiguous_resource_target", "interrupt"),
       When(e.rollback_or_abort_route = NoValue, "missing_rollback_or_abort_route", "blocked") >>

\* The issues in the order in which validate_operation_request_envelope collects
\* them, which refusals depend on: each place holds one issue or none.
IssuesInOrder(e) ==
    EnvelopeIssues(e) \o TargetSpecificIssues(e) \o AuthorityPromotionIssues(e)
        \o << When(RequiresResourceSafetyReview(e),
                   "high_risk_target_without_IR7-S03_review", "review_required") >>
IssuesOf(e) == UNION Range(IssuesInOrder(e))

OperationRequestStatus == {"accepted", "blocked", "blocked_for_live_effect", "faulted", "interrupted",
                           "refused", "review_required", "stale"}

\* operation_request_status_for_issues
RequestStatus(e) ==
    IF HasSeverity(IssuesOf(e), "fault") THEN "faulted"
    ELSE IF HasKind(IssuesOf(e), "live_effect_requested") THEN "blocked_for_live_effect"
    ELSE BySeverity(IssuesOf(e),
             << <<"refused", "refused">>, <<"interrupt", "interrupted">>, <<"stale", "stale">>,
                <<"review_required", "review_required">>, <<"blocked", "blocked">> >>,
             IF EffectClass(e.intended_effect) = "unknown" THEN "interrupted" ELSE "accepted")
=============================================================================
