---------------------------- MODULE SurfaceRecords ----------------------------
(***************************************************************************)
(* What a surface shows and what it lets a user do: the authority display  *)
(* envelope (surfaces/authority.py), the projection state envelope         *)
(* (projection_state.py) and the classification of actions                 *)
(* (action_routes.py), each with its own sets of states and its own        *)
(* cascade.                                                                *)
(***************************************************************************)
EXTENDS Issues

\* _field_has_value: only an empty string is missing, an empty tuple is not.
MissingFields(envelope, fields) == \E field \in fields : envelope[field] = NoValue

-----------------------------------------------------------------------------
(* The authority that is displayed.                                        *)

AuthorityTier == {"source_authority", "accepted_execution_evidence", "generated_projection_evidence",
                  "carrier_context"}
FreshnessState == {"fresh", "stale", "unknown", "contested", "interrupted", "blocked", "faulted",
                   "pending_review"}

LOW_AUTHORITY_ACTION_SET == {"observe", "comment", "propose"}
AUTHORITY_SENSITIVE_ACTION_SET ==
    {"request_work_packet", "request_claim", "request_review", "request_rebake", "request_interrupt_resolution",
     "request_human_override", "request_dry_run", "request_completion_review"}
DIRECT_MUTATION_ACTION_SET ==
    {"direct_source_authority_write", "direct_source_write", "direct_accepted_pack_write",
     "direct_completion_review_acceptance", "direct_claim_acceptance", "direct_agent_dispatch",
     "direct_command_execution", "direct_operations_command", "source_mutation", "operations_control",
     "live_machine_control"}

\* The fields that have to be filled in.  The trust limit, the carrier surface
\* and the mutation boundary are strings as the risk reason is.
RequiredDisplayFields ==
    {"display_projection_id", "projected_subject_ref", "authority_notice_ref", "freshness_state", "risk_reason"}

\* _lower_tier_claims_source_authority: the risk reason stands for the texts that
\* are searched.
LowerTierClaimsSourceAuthority(d) ==
    /\ d.authority_tier # "source_authority"
    /\ \/ d.risk_reason = "source authority"
       \/ "direct_source_authority_write" \in d.permitted_action_set

\* validate_authority_display_envelope
\* Mutant: a mutation is only looked for in the request.
DisplayIssuesOfRequest(d) ==
         When(MissingFields(d, RequiredDisplayFields), "missing_field", "fault")
    \cup When(d.source_authority_mutation_requested, "source_authority_mutation_requested", "refused")
DisplayIssues(d) ==
         When(MissingFields(d, RequiredDisplayFields), "missing_field", "fault")
    \cup When(d.source_authority_ref_set = {}, "missing_source_ref_set", "fault")
    \cup When(d.authority_notice_ref = NoValue, "missing_authority_notice", "fault")
    \cup When(d.freshness_state \notin FreshnessState, "missing_freshness_state", "fault")
    \cup When(d.required_route_set = {}, "missing_required_route_set", "fault")
    \cup When(d.forbidden_action_set = {}, "hidden_forbidden_action_set", "blocked")
    \cup When(d.lower_authority_tier_misrepresented \/ LowerTierClaimsSourceAuthority(d),
              "lower_authority_tier_misrepresented", "fault")
    \cup When(\/ d.source_authority_mutation_requested
              \/ d.permitted_action_set \cap DIRECT_MUTATION_ACTION_SET # {},
              "source_authority_mutation_requested", "refused")

-----------------------------------------------------------------------------
(* The state that is projected.                                            *)

ProjectionStatus == {"ready", "blocked", "stale", "faulted", "interrupted", "contested", "pending_review",
                     "unsupported_scope", "refused"}
EvidenceFields == {"invalidation_ref_set", "blocker_ref_set", "stale_source_ref_set", "fault_record_ref_set",
                   "interrupt_context_ref_set", "contested_claim_ref_set", "pending_review_ref_set",
                   "refusal_reason_set"}
\* The contexts of a stop are evidence too, which only callers give that make
\* their own envelope: no projector does.
StopFields == EvidenceFields \cup {"stop_state_context_set"}
NoEvidence == [field \in StopFields |-> {}]

\* ProjectionStateEnvelope.stop_evidence_present
StopEvidencePresent(s) == \E field \in StopFields : s[field] # {}

\* projected_status_for_evidence, which is not asked about invalidations and
\* contexts.
\* Mutant: what blocks is looked at before what is stale.
StatusBlockedFirst(s) ==
    FirstOf(<< <<s.fault_record_ref_set # {}, "faulted">>, <<s.interrupt_context_ref_set # {}, "interrupted">>,
               <<s.blocker_ref_set # {}, "blocked">>, <<s.stale_source_ref_set # {}, "stale">>,
               <<s.refusal_reason_set # {}, "refused">>, <<s.contested_claim_ref_set # {}, "contested">>,
               <<s.pending_review_ref_set # {}, "pending_review">> >>, "ready")
StatusForEvidence(s) ==
    FirstOf(<< <<s.fault_record_ref_set # {}, "faulted">>, <<s.interrupt_context_ref_set # {}, "interrupted">>,
               <<s.stale_source_ref_set # {}, "stale">>, <<s.refusal_reason_set # {}, "refused">>,
               <<s.blocker_ref_set # {}, "blocked">>, <<s.contested_claim_ref_set # {}, "contested">>,
               <<s.pending_review_ref_set # {}, "pending_review">> >>, "ready")

\* _severity_for_stop_evidence
SeverityForStopEvidence(s) ==
    FirstOf(<< <<s.fault_record_ref_set # {}, "fault">>, <<s.interrupt_context_ref_set # {}, "interrupt">>,
               <<s.stale_source_ref_set # {} \/ s.invalidation_ref_set # {}, "stale">>,
               <<s.refusal_reason_set # {}, "refused">> >>, "blocked")

\* _severity_for_freshness
SeverityForFreshness(freshness) ==
    FirstOf(<< <<freshness = "faulted", "fault">>, <<freshness = "interrupted", "interrupt">>,
               <<freshness = "stale", "stale">> >>, "blocked")

\* validate_projection_state_envelope
StateIssues(s) ==
         When(MissingFields(s, {"projection_id", "projected_subject_ref", "generated_at"}), "missing_field", "fault")
    \cup When(s.source_record_ref_set = {}, "missing_source_ref_set", "fault")
    \cup When(s.lineage_edge_set = {}, "missing_lineage_edge_set", "fault")
    \cup When(s.authority_notice_ref = NoValue, "missing_authority_notice", "fault")
    \cup When(s.projected_status = "ready" /\ StopEvidencePresent(s), "ready_with_stop_state",
              SeverityForStopEvidence(s))
    \cup When(s.projected_status = "ready" /\ s.freshness_state # "fresh", "ready_with_unfresh_state",
              SeverityForFreshness(s.freshness_state))
    \cup When(s.generated_projection_claimed_as_authority, "generated_authority", "fault")
    \cup When(s.source_authority_mutation_requested, "source_authority_mutation_requested", "refused")

-----------------------------------------------------------------------------
(* The actions that are offered.                                           *)

LIVE_CONTROL_ACTION_SET ==
    {"command_execution", "credential_mutation", "destructive_filesystem_action", "gpu_control", "job_dispatch",
     "model_runtime_mutation", "network_mutation", "operations_automation", "operations_command",
     "operations_control", "process_control", "live_machine_control"}
ResolutionActions == {"request_rebake", "request_interrupt_resolution", "request_completion_review"}

\* _is_stopped_or_stale
IsStoppedOrStale(p) == \/ p.stop_state_ref_set # {}
                       \/ p.interrupt_context_ref_set # {}
                       \/ p.freshness_state # "fresh"

\* _is_unsupported_authority_sensitive_action
IsUnsupported(p) == /\ p.action_kind \in AUTHORITY_SENSITIVE_ACTION_SET
                    /\ p.action_kind \notin p.supported_action_route_set \cup p.required_route_set

\* _stopped_or_stale_severity
StoppedSeverity(p) == IF p.interrupt_context_ref_set # {} \/ p.freshness_state = "interrupted"
                      THEN "interrupt" ELSE "blocked"

\* classify_surface_action with the default policy; what the surface forbids
\* is only reported.
ActionIssues(p) ==
         When(p.action_kind = NoValue, "missing_action", "blocked")
    \cup When(p.authority_notice_ref = NoValue, "missing_authority_notice", "refused")
    \cup When(p.action_kind \in DIRECT_MUTATION_ACTION_SET \/ p.direct_mutation_requested,
              "direct_mutation_requested", "refused")
    \cup When(p.action_kind \in LIVE_CONTROL_ACTION_SET \/ p.live_control_requested,
              "live_control_requested", "refused")
    \cup When(IsStoppedOrStale(p) /\ p.action_kind \notin ResolutionActions,
              "stale_or_stopped_projection", StoppedSeverity(p))
    \cup When(IsUnsupported(p), "unsupported_action_route", "blocked")

\* _decision_status_for_issues
ActionDecision(p) ==
    BySeverity(ActionIssues(p), << <<"refused", "refused">>, <<"interrupt", "interrupt">>, <<"blocked", "blocked">> >>,
               IF p.authority_notice_ref = NoValue THEN "refused" ELSE "allowed")

\* _allowed_route_set: what is allowed and nowhere listed has no route.
AllowedRoutes(p) ==
    IF ActionDecision(p) # "allowed" THEN {}
    ELSE {p.action_kind} \cap (LOW_AUTHORITY_ACTION_SET \cup p.supported_action_route_set \cup p.required_route_set)
=============================================================================
