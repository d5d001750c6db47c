---------------------------- MODULE ResourceSafety ----------------------------
(***************************************************************************)
(* The review of the resources a request touches, with the evidence that   *)
(* the caller has: operations/resource_safety.py.  Evidence that may be    *)
(* None is a set of at most one record.  Of the required fields of an      *)
(* envelope only whether one is missing is kept.                           *)
(***************************************************************************)
EXTENDS OperationRequests

CRITICAL_TARGET_SET == {"credential_or_secret", "network_service", "filesystem_destructive_target"}
Uncertain == {"unknown", "uncertain"}

BlastRadiusEnvelope == [complete: BOOLEAN, monitored: BOOLEAN, blast_radius_state: {"known"} \cup Uncertain]
RollbackAbortRouteEnvelope == [complete: BOOLEAN, route_state: {"fresh", "stale"}]

HumanApprovalState == {"absent", "requested", "fresh_scoped", "stale", "revoked", "mismatched", "broad_invalid"}
HumanApprovalEnvelope ==
    [complete: BOOLEAN, approved_operation_request_ref: STRING, approved_intended_effect: STRING,
     approved_resource_target: STRING, risk_classification: STRING, approval_state: HumanApprovalState,
     broad_approval_requested: BOOLEAN, live_control_authority_claimed: BOOLEAN]

\* classify_resource_target_safety
TargetSafetyClass(target) ==
    FirstOf(<< <<target \in {"workspace_file", "tracked_fixture_source"}, "low_risk">>,
               <<target = "generated_projection_root", "medium_risk">>,
               <<target \in CRITICAL_TARGET_SET, "critical_risk">>,
               <<target \in HIGH_RISK_TARGET_SET \cup {"coordination_claim", "mailbox_carrier_context"},
                 "high_risk">> >>, "unknown_or_ambiguous")

HasCriticalBoundary(e) == \/ e.resource_target \in CRITICAL_TARGET_SET
                          \/ e.intended_effect \in BLOCKED_LIVE_EFFECT_SET
                          \/ "secret_value_present" \in e.predicted_side_effect_set

\* risk_level_for_request
LevelOfClass == [critical_risk |-> "critical", high_risk |-> "high", medium_risk |-> "medium",
                 low_risk |-> "low", unknown_or_ambiguous |-> "unknown"]
RiskLevel(e, blast) ==
    FirstOf(<< <<\/ HasCriticalBoundary(e)
                 \/ e.freshness_state # "fresh" \/ e.authority_notice_ref = NoValue
                 \/ e.rollback_or_abort_route = NoValue
                 \/ e.blast_radius \in Uncertain, "critical">>,
               <<blast = {} /\ e.resource_target \in HIGH_RISK_TARGET_SET, "high">>,
               <<\E b \in blast : b.blast_radius_state \in Uncertain, "critical">> >>,
            LevelOfClass[TargetSafetyClass(e.resource_target)])

\* _requires_human_review
RequiresHumanReview(e, blast) == RiskLevel(e, blast) \in {"high", "critical", "unknown"}

\* _request_safety_issues
\* Mutant: the target of the request is not looked at.
IssuesOfEffectOnly(e, blast) ==
         When(e.authority_notice_ref = NoValue \/ e.freshness_state # "fresh", "missing_authority_notice", "critical")
    \cup When(EffectClass(e.intended_effect) = "blocked_live_effect", "live_control_implication", "refused")
    \cup When(e.blast_radius \in Uncertain \/ \E b \in blast : b.blast_radius_state \in Uncertain,
              "unknown_blast_radius", "critical")
RequestSafetyIssues(e, blast) ==
         When(e.authority_notice_ref = NoValue \/ e.freshness_state # "fresh", "missing_authority_notice", "critical")
    \cup When(e.resource_target = "credential_or_secret", "credential_boundary_unreviewed", "critical")
    \cup When(e.resource_target = "network_service" \/ e.intended_effect = "network_exposure_mutation",
              "network_boundary_unreviewed", "critical")
    \cup When(\/ e.resource_target = "filesystem_destructive_target"
              \/ e.intended_effect = "destructive_filesystem_action", "destructive_action_possible", "critical")
    \cup When(EffectClass(e.intended_effect) = "blocked_live_effect", "live_control_implication", "refused")
    \cup When(e.blast_radius \in Uncertain \/ \E b \in blast : b.blast_radius_state \in Uncertain,
              "unknown_blast_radius", "critical")

\* validate_blast_radius; monitoring_signal_set is one of the required fields.
BlastRadiusIssues(b) ==
         When(~b.complete \/ ~b.monitored, "missing_blast_radius", "blocked")
    \cup When(b.blast_radius_state \in Uncertain, "unknown_blast_radius", "critical")
    \cup When(~b.monitored, "monitoring_signal_missing", "blocked")

\* validate_rollback_abort_route
RollbackIssues(r) ==
    When(~r.complete \/ r.route_state # "fresh", "missing_rollback_or_abort_route", "blocked")

\* validate_human_approval_for_request
\* Mutant: the target is not compared.
ApprovalIssuesForEffect(a, e) ==
         When(~a.complete, "stale_approval", "blocked")
    \cup When(a.broad_approval_requested \/ a.approval_state = "broad_invalid", "broad_standing_approval", "refused")
    \cup When(a.approval_state = "stale", "stale_approval", "refused")
    \cup When(a.approval_state = "revoked", "revoked_approval", "refused")
    \cup When(a.approval_state = "mismatched", "mismatched_resource_target", "refused")
    \cup When(a.approved_intended_effect # e.intended_effect, "mismatched_intended_effect", "refused")
    \cup When(a.live_control_authority_claimed, "live_control_implication", "refused")
ApprovalIssues(a, e) ==
         When(~a.complete, "stale_approval", "blocked")
    \cup When(a.broad_approval_requested \/ a.approval_state = "broad_invalid", "broad_standing_approval", "refused")
    \cup When(a.approval_state = "stale", "stale_approval", "refused")
    \cup When(a.approval_state = "revoked", "revoked_approval", "refused")
    \cup When(\/ a.approval_state = "mismatched"
              \/ a.approved_operation_request_ref # e.operation_request_id
              \/ a.approved_resource_target # e.resource_target, "mismatched_resource_target", "refused")
    \cup When(a.approved_intended_effect # e.intended_effect, "mismatched_intended_effect", "refused")
    \cup When(a.live_control_authority_claimed, "live_control_implication", "refused")

\* _safe_routes_for_issues
SafeRoute(kind) ==
    FirstOf(<< <<kind \in {"missing_blast_radius", "unknown_blast_radius"}, "collect_blast_radius_evidence">>,
               <<kind = "missing_rollback_or_abort_route", "define_rollback_abort_route">>,
               <<kind \in {"stale_approval", "revoked_approval", "mismatched_intended_effect",
                           "mismatched_resource_target", "broad_standing_approval"},
                 "request_fresh_scoped_human_approval">>,
               <<kind \in {"missing_authority_notice", "live_control_implication"},
                 "rebake_authority_boundary">> >>, "stop_without_live_effect")

\* review_resource_safety: the issues of the request, of the evidence that is
\* there or not, and of the approval that is there or not.
EvidenceIssues(e, blast, rollback) ==
    LET highRisk == e.resource_target \in HIGH_RISK_TARGET_SET
    IN       When(blast = {} /\ highRisk, "missing_blast_radius", "review_required")
        \cup (UNION {BlastRadiusIssues(b) : b \in blast})
        \cup When(rollback = {} /\ highRisk, "missing_rollback_or_abort_route", "blocked")
        \cup (UNION {RollbackIssues(r) : r \in rollback})
IssuesOfApproval(e, blast, approval) ==
    IF approval = {} THEN When(RequiresHumanReview(e, blast), "stale_approval", "review_required")
    ELSE UNION {ApprovalIssues(a, e) : a \in approval}
SafetyIssues(e, blast, rollback, approval) ==
    RequestSafetyIssues(e, blast) \cup EvidenceIssues(e, blast, rollback) \cup IssuesOfApproval(e, blast, approval)
ReviewResourceSafety(e, blast, rollback, approval) ==
    LET issues == SafetyIssues(e, blast, rollback, approval)
    IN  [operation_request_ref |-> e.operation_request_id, issues |-> issues,
         risk_level |-> RiskLevel(e, blast),
         required_human_review |-> RequiresHumanReview(e, blast) \/ issues # {},
         safe_next_route_set |-> {SafeRoute(kind) : kind \in KindsOf(issues)}]
=============================================================================
