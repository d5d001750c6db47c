------------------------------- MODULE P6Records -------------------------------
(***************************************************************************)
(* The records of the P6 surfaces (surfaces_p6/): the projection envelope  *)
(* and its validation (envelope.py), the evaluation that keeps projections *)
(* from becoming authority (nonpromotion.py) and the classification of     *)
(* inbound actions (action_classifier.py).                                 *)
(***************************************************************************)
EXTENDS Issues

\* data.get(field, default)
Get(data, field, default) == IF field \in DOMAIN data THEN data[field] ELSE default

\* _freshness_value, _freshness_state: three words mean fresh.
Freshness(word) == IF word \in {"current", "accepted", "present"} THEN "fresh" ELSE word

-----------------------------------------------------------------------------
(* The projection envelope.                                                *)

AuthorityTier == {"source_authority", "accepted_review_authority", "accepted_proof_support",
                  "generated_projection_evidence", "carrier_context"}
FreshnessState == {"fresh", "stale", "unknown", "contested", "interrupted", "blocked", "faulted",
                   "pending_review"}
ProjectionStatus == {"ready", "blocked", "stale", "faulted", "interrupted", "contested", "pending_review",
                     "unsupported_scope", "refused"}
LOWER_AUTHORITY_TIER_SET == {"accepted_proof_support", "generated_projection_evidence", "carrier_context"}

\* _field_has_value over REQUIRED_P6_PROJECTION_FIELD_SET: only an empty string
\* is missing; the other required fields always have a value.
RequiredText == {"projected_subject_ref", "authority_notice_ref", "generated_at"}

\* P6ProjectionEnvelope.has_stop_state
HasStopState(e) == e.stop_state_ref_set # {} \/ e.invalidation_ref_set # {}

\* _lower_tier_promoted: whether the risk reason or what is permitted names
\* source authority is one flag.
LowerTierPromoted(e) == /\ e.authority_tier \in LOWER_AUTHORITY_TIER_SET
                        /\ e.lower_authority_tier_claimed_as_source \/ e.names_source_authority

\* _severity_for_freshness; _severity_for_status, which is only asked about a
\* status that is ready, is the same.
SeverityForFreshness(freshness) ==
    FirstOf(<< <<freshness = "faulted", "fault">>, <<freshness = "interrupted", "interrupt">>,
               <<freshness = "stale", "stale">> >>, "blocked")

\* validate_p6_projection_envelope
EnvelopeIssues(e) ==
         When(\E field \in RequiredText : e[field] = NoValue, "missing_field", "fault")
    \cup When(e.source_record_ref_set = {}, "missing_source_ref_set", "fault")
    \cup When(e.source_authority_sha256_set = {}, "missing_source_authority_sha256_set", "fault")
    \cup When(e.lineage_edge_set = {}, "missing_lineage_edge_set", "fault")
    \cup When(e.authority_notice_ref = NoValue, "missing_authority_notice", "fault")
    \cup When(e.nonpromotion_notice_set = {}, "missing_nonpromotion_notice", "fault")
    \cup When(e.forbidden_action_set = {}, "missing_forbidden_action_set", "blocked")
    \cup When(e.required_route_set = {}, "missing_required_route_set", "blocked")
    \cup When(e.projected_status = "ready" /\ HasStopState(e), "ready_with_stop_state",
              SeverityForFreshness(e.freshness_state))
    \cup When(e.projected_status = "ready" /\ e.freshness_state # "fresh", "ready_with_unfresh_state",
              SeverityForFreshness(e.freshness_state))
    \cup When(LowerTierPromoted(e), "lower_authority_tier_promoted", "fault")
    \cup UNION {When(e[request], request, "refused") :
                    request \in {"source_authority_mutation_requested", "assignment_requested",
                                 "dispatch_requested", "operations_control_requested", "live_control_requested"}}

\* status_for_p6_evidence
StatusForEvidence(stops, invalidations, issues) ==
    FirstOf(<< <<HasSeverity(issues, "fault"), "faulted">>,
               <<HasSeverity(issues, "refused"), "refused">>,
               <<HasSeverity(issues, "interrupt"), "interrupted">>,
               <<HasSeverity(issues, "stale") \/ invalidations # {}, "stale">>,
               <<HasSeverity(issues, "blocked") \/ stops # {}, "blocked">> >>, "ready")

\* _projection_status_value
StatusValue(word) ==
    FirstOf(<< <<word \in {"visible_authority_notice", "generated_projection_non_authority"}, "ready">>,
               <<word = "visible_stale_notice", "stale">>,
               <<word = "surface_cannot_mutate_source_authority", "refused">> >>, word)

-----------------------------------------------------------------------------
(* Nonpromotion.                                                           *)

NonpromotedClass ==
    {"graph_checkpoint_state", "graph_transition_trace", "generated_output_trace", "generated_projection",
     "surface_snapshot", "terminal_output_projection", "dry_run_output", "human_handoff_display",
     "human_approval_display", "carrier_context"}
ForbiddenAuthorityClass ==
    {"source_authority", "canonical_specification", "completion_review", "assignment_authority",
     "dispatch_authority", "operations_authority", "live_control_authority"}

\* _authority_promotion_evaluation
PromotionIssue(class) ==
    FirstOf(<< <<class \in {"graph_checkpoint_state", "graph_transition_trace"}, "checkpoint_promoted_to_authority">>,
               <<class = "carrier_context", "carrier_context_promoted_to_authority">>,
               <<class = "dry_run_output", "dry_run_promoted_to_live_control">>,
               <<class = "human_approval_display", "human_approval_promoted_to_live_control">> >>,
            "generated_projection_promoted_to_authority")

\* The class of a record and its notice, by the first field that is not empty;
\* the first field of each has a default of the caller.
RecordClass(p) ==
    FirstOf(<< <<Get(p, "projection_record_kind", "surface_snapshot") # NoValue,
                 Get(p, "projection_record_kind", "surface_snapshot")>>,
               <<Get(p, "record_class", NoValue) # NoValue, Get(p, "record_class", NoValue)>> >>,
            Get(p, "nonpromoted_class", NoValue))
HasNotice(p) == \/ Get(p, "required_notice", "warning") # NoValue
                \/ Get(p, "nonpromotion_notice", NoValue) # NoValue
                \/ Get(p, "required_nonpromotion_notice", NoValue) # NoValue

\* evaluate_p6_nonpromotion_fields, with the defaults of its caller; "none" for
\* no issue.  Freshness counts by the word in the packet.
NonpromotionIssue(p) ==
    LET class == RecordClass(p)
    IN  FirstOf(<< <<class = NoValue, "missing_record_class">>,
                   <<class \notin NonpromotedClass, "unsupported_record_class">>,
                   <<~HasNotice(p), "missing_nonpromotion_notice">>,
                   <<Get(p, "claimed_authority_class", NoValue) \in ForbiddenAuthorityClass, PromotionIssue(class)>>,
                   <<Get(p, "assignment_authority", FALSE), "assignment_authority_requested">>,
                   <<Get(p, "dispatch_authority", FALSE), "dispatch_authority_requested">>,
                   <<Get(p, "operations_control_authority", FALSE), "operations_control_requested">>,
                   <<Get(p, "live_control_authority", FALSE) \/ Get(p, "live_effect", FALSE),
                     "live_control_requested">>,
                   <<Get(p, "freshness_state", NoValue) = "stale" \/ Get(p, "source_authority_state", NoValue) = "stale",
                     "stale_source_basis">> >>, "none")

-----------------------------------------------------------------------------
(* Inbound actions.                                                        *)

LOW_AUTHORITY_ACTION_SET == {"observation", "comment", "clarification", "proposal"}
OPERATION_LIKE_ACTION_SET == {"dry_run_request", "operation_request"}
FORBIDDEN_ACTION_SET ==
    {"edit_canonical_source", "direct_source_write", "direct_canonical_write", "direct_claim_activation",
     "direct_completion_acceptance", "direct_assignment", "direct_dispatch", "direct_command_execution",
     "direct_operations_control", "direct_live_machine_control", "command_execution", "process_control",
     "gpu_control", "model_runtime_mutation", "job_dispatch", "credential_access", "network_mutation",
     "destructive_filesystem_action", "operations_control", "live_machine_control"}

\* _identity_issues
IdentityIssues(a) ==
         When(a.requested_action_kind = NoValue, "missing_action", "blocked")
    \cup When(a.actor_ref = NoValue, "missing_actor", "blocked")
    \cup When(a.carrier_surface = NoValue, "missing_carrier", "blocked")
    \cup When(~a.authority_notice_seen, "missing_authority_notice", "blocked")

\* _stale_or_stopped
\* Mutant: a stop is looked for in the freshness alone.
StaleByFreshness(a) == a.freshness_state_seen # "fresh"
StaleOrStopped(a) == a.stop_state_ref_set # {} \/ a.freshness_state_seen # "fresh"

\* classify_p6_inbound_action: its issues.  What the action asks for besides its
\* kind is one of the requests of the envelope, or nothing.
InboundIssues(a) ==
    LET kind == a.requested_action_kind
    IN       IdentityIssues(a)
        \cup When(kind \in FORBIDDEN_ACTION_SET \/ a.requests = "direct_mutation",
                  "direct_mutation_requested", "refused")
        \cup When(kind = "direct_assignment" \/ a.requests = "assignment", "assignment_requested", "refused")
        \cup When(kind \in {"direct_dispatch", "job_dispatch"} \/ a.requests = "dispatch",
                  "dispatch_requested", "refused")
        \cup When(kind \in {"direct_operations_control", "operations_control"} \/ a.requests = "operations_control",
                  "operations_control_requested", "refused")
        \cup When(kind \in {"direct_live_machine_control", "live_machine_control"} \/ a.requests = "live_control",
                  "live_control_requested", "refused")
        \cup When(StaleOrStopped(a) /\ kind \notin {"rebake_request", "interrupt_resolution_request"},
                  "stale_or_stopped_projection", "interrupt")

\* _classification_for_action; low authority comes before proposals, which are
\* part of it.
\* Mutant: an interrupt comes before a refusal.
InterruptBeforeRefusal(kind, issues) ==
    FirstOf(<< <<HasSeverity(issues, "interrupt"), "SOP_first_interrupt_required">>,
               <<HasSeverity(issues, "refused"), "refused">> >>, "SOP_first_interrupt_required")
ClassificationForAction(kind, issues) ==
    FirstOf(<< <<HasSeverity(issues, "refused"), "refused">>,
               <<HasSeverity(issues, "interrupt"), "SOP_first_interrupt_required">>,
               <<kind \in LOW_AUTHORITY_ACTION_SET, "low_authority_context">>,
               <<kind = "proposal", "proposal_record_required">>,
               <<kind = "work_request", "work_request_record_required">>,
               <<kind = "claim_request", "coordination_review_required">>,
               <<kind \in {"review_request", "rebake_request"}, "completion_review_required">>,
               <<kind = "interrupt_resolution_request", "SOP_first_interrupt_required">>,
               <<kind = "human_override_request", "human_override_review_required">>,
               <<kind \in OPERATION_LIKE_ACTION_SET, "dry_run_or_safety_review_required">> >>,
            "SOP_first_interrupt_required")

Classification(a) == ClassificationForAction(a.requested_action_kind, InboundIssues(a))

\* P6InboundActionClassificationResult.accepted
InboundAccepted(a) == InboundIssues(a) = {} /\ Classification(a) # "refused"
=============================================================================
