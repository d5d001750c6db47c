---------------------------- MODULE ManagerRecords ----------------------------
(***************************************************************************)
(* The manager's pure functions: the input of a cycle (manager/records.py),*)
(* its readiness (readiness.py), the packet candidate (packets.py), fault  *)
(* records (faults.py), refusals and handoffs (handoffs.py) and the        *)
(* classification of authority (authority.py).  The text of a requested    *)
(* effect is abstracted to the set of live-control markers that it has.    *)
(***************************************************************************)
EXTENDS Issues

ManagerFreshnessState == {"fresh", "stale", "unknown", "contested", "blocked", "interrupted", "faulted",
                          "pending_review"}
LIVE_CONTROL_EFFECT_MARKER_SET == {"live_control", "process", "gpu", "model", "job", "credential", "network",
                                   "destructive", "live_machine"}

\* manager_cycle_input_from_mapping: what a mapping does not say has a default,
\* the name of the work among it.
CycleDefaults ==
    [cycle_id |-> NoValue, source_ref_set |-> {}, authority_notice_ref |-> "authority_notice",
     source_authority_state |-> "accepted_and_fresh", support_state |-> "complete",
     coordination_state |-> "uncontested", operations_dry_run_state |-> "not_required",
     carrier_context_kind |-> NoValue, carrier_context_state |-> NoValue,
     requested_effect_classification_state |-> "classified", requested_effect_kind |-> {},
     requested_promotion |-> NoValue, live_authority_state |-> "missing", human_override_state |-> NoValue,
     generated_projection_state |-> NoValue, graph_checkpoint_state |-> NoValue,
     model_route |-> "requires deeper reasoning", model_route_state |-> "declared",
     completion_review_ref |-> NoValue, proof_obligation_ref_set |-> {}, freshness_state |-> "fresh"]
CycleFromMapping(data) ==
    LET cycle == Merged(data, CycleDefaults)
    IN  Merged(cycle, [work_ref |-> cycle.cycle_id])

-----------------------------------------------------------------------------
(* Readiness.                                                              *)

\* proof_obligations_for_cycle: obligations that are listed are never satisfied.
\* Mutant: a listed obligation is taken as proved.
ObligationsOfAuthority(cycle) ==
    {[obligation_id |-> "source_authority", satisfied |-> cycle.source_authority_state = "accepted_and_fresh"],
     [obligation_id |-> "completion_review", satisfied |-> cycle.completion_review_ref # NoValue]}
ProofObligations(cycle) ==
    IF cycle.proof_obligation_ref_set # {}
    THEN {[obligation_id |-> ref, satisfied |-> FALSE] : ref \in cycle.proof_obligation_ref_set}
    ELSE {[obligation_id |-> "source_authority", satisfied |-> cycle.source_authority_state = "accepted_and_fresh"],
          [obligation_id |-> "completion_review", satisfied |-> cycle.completion_review_ref # NoValue]}

\* completion_gate_for_cycle
CompletionGateOpened(cycle) == cycle.completion_review_ref # NoValue

\* _requests_forbidden_live_scope
RequestsForbiddenLiveScope(cycle) ==
    /\ cycle.live_authority_state \in {"missing", "absent", NoValue}
    /\ cycle.requested_effect_kind \cap LIVE_CONTROL_EFFECT_MARKER_SET # {}

\* _model_route_missing
ModelRouteMissing(cycle) == \/ cycle.model_route = "missing"
                            \/ cycle.model_route_state \in {"missing", "unknown", NoValue}

Stop(readiness, packet, kind, severity) ==
    {[readiness_state |-> readiness, work_packet_state |-> packet, issue |-> Issue(kind, severity)]}

\* The first of the conditions of _first_stop_projection.
\* Mutant: a review that was accepted outweighs that the input is stale.
IsStaleUnreviewed(cycle) == /\ cycle.completion_review_ref = NoValue
                            /\ \/ cycle.source_authority_state \in {"accepted_but_stale", "stale"}
                               \/ cycle.freshness_state = "stale"
IsStale(cycle) == \/ cycle.source_authority_state \in {"accepted_but_stale", "stale"}
                  \/ cycle.freshness_state = "stale"

\* _first_stop_projection: one early return after the other, and only the
\* first of them is projected.
FirstStop(cycle) ==
    LET promotes(authority) == cycle.requested_promotion \in authority
    IN  FirstOf(
          << <<IsStale(cycle), Stop("blocked_stale", "not_ready", "stale_boundary_input", "stale")>>,
             <<cycle.support_state \in {"missing_required_support", "missing", "unsupported"},
               Stop("blocked_unsupported", "not_ready", "unsupported_requirement", "blocked")>>,
             <<cycle.coordination_state \in {"contested_by_active_claim", "contested"},
               Stop("interrupted_contested", "not_ready", "contested_coordination_claim", "interrupt")>>,
             <<cycle.carrier_context_kind # NoValue \/ cycle.carrier_context_state = "informative_only",
               Stop("context_recorded_no_promotion", "unchanged_without_source_authority",
                    "missing_source_authority", "blocked")>>,
             <<cycle.requested_effect_classification_state = "missing",
               Stop("interrupted_unclassified", "not_ready", "unclassified_authority_sensitive_record",
                    "interrupt")>>,
             <<cycle.operations_dry_run_state = "success" /\ promotes({"dispatch_authority", "live_control"}),
               Stop("evidence_recorded", "not_dispatched", "dry_run_to_live_control_promotion", "refused")>>,
             <<cycle.human_override_state \notin {NoValue, "present_fresh_scoped_revocable"},
               Stop("blocked", "not_ready", "human_override_required", "blocked")>>,
             <<cycle.human_override_state = "present_fresh_scoped_revocable",
               Stop("contextual_override_recorded", "bounded_by_override_scope",
                    "missing_source_authority", "blocked")>>,
             <<cycle.generated_projection_state # NoValue /\ promotes({"source_authority"}),
               Stop("source_authority_required", "not_ready_from_projection_alone",
                    "generated_output_authority_promotion", "refused")>>,
             <<cycle.graph_checkpoint_state # NoValue /\ promotes({"source_authority"}),
               Stop("blocked_until_kernel_reference_checked", "not_ready_from_checkpoint_alone",
                    "graph_checkpoint_authority_promotion", "refused")>>,
             <<RequestsForbiddenLiveScope(cycle),
               Stop("refused_forbidden_scope", "not_ready", "requested_forbidden_scope", "refused")>> >>, {})

\* What keeps a cycle that nothing stopped from being ready; each is looked at
\* only as long as the state is ready_for_claim.
GateStop(cycle) ==
    FirstOf(
      << <<~CompletionGateOpened(cycle), Stop("blocked", "not_ready", "completion_gate_bypass", "blocked")>>,
         <<\E obligation \in ProofObligations(cycle) : ~obligation.satisfied,
           Stop("blocked", "not_ready", "proof_obligation_bypass", "blocked")>>,
         <<ModelRouteMissing(cycle),
           Stop("refused_until_model_route_declared", "not_ready", "model_route_ambiguity", "interrupt")>> >>, {})

\* _interrupt_context_for_cycle; at most one issue has one of the severities.
InterruptKinds(issues) ==
    {i.issue_kind : i \in {j \in issues : j.severity \in {"interrupt", "stale", "refused"}}}

\* recompute_manager_readiness: a cycle without sources or notice has issues,
\* and keeps the state that it would have with them.
Readiness(cycle) ==
    LET faults == When(cycle.source_ref_set = {}, "missing_source_authority", "fault")
                      \cup When(cycle.authority_notice_ref = NoValue, "missing_authority_notice", "fault")
        stops == IF FirstStop(cycle) # {} THEN FirstStop(cycle) ELSE GateStop(cycle)
        issues == faults \cup {s.issue : s \in stops}
        Projected(field) == IF stops = {} THEN "ready_for_claim" ELSE (CHOOSE s \in stops : TRUE)[field]
    IN  [accepted |-> issues = {}, issues |-> issues, readiness_state |-> Projected("readiness_state"),
         work_packet_state |-> Projected("work_packet_state"), proof_obligation_set |-> ProofObligations(cycle),
         completion_gate |-> CompletionGateOpened(cycle), interrupt_context |-> InterruptKinds(issues)]

\* build_manager_work_packet_candidate recomputes the readiness.
WorkPacketCandidate(cycle) ==
    LET readiness == Readiness(cycle)
    IN  [work_ref |-> cycle.work_ref, readiness_state |-> readiness.readiness_state,
         packet_state |-> readiness.work_packet_state, model_route |-> cycle.model_route,
         proof_obligation_set |-> readiness.proof_obligation_set, completion_gate |-> readiness.completion_gate,
         issue_set |-> readiness.issues, source_ref_set |-> cycle.source_ref_set]

\* packet_is_claimable; candidates never authorize dispatch or perform effects.
IsClaimable(packet) == packet.packet_state = "ready_for_claim" /\ packet.model_route # "missing"

-----------------------------------------------------------------------------
(* Faults, refusals and handoffs.                                          *)

ManagerFaultKind ==
    {"stale_boundary_input", "unsupported_requirement", "contested_coordination_claim",
     "unclassified_authority_sensitive_record", "generated_output_authority_promotion",
     "graph_checkpoint_authority_promotion", "dry_run_to_live_control_promotion", "human_override_required",
     "requested_forbidden_scope", "model_route_ambiguity", "completion_gate_bypass", "proof_obligation_bypass",
     "dispatch_requested", "live_effect_requested", "unknown_manager_fault"}

\* fault_kind_for_issue_kind
FaultKind(kind) == IF kind \in ManagerFaultKind THEN kind ELSE "unknown_manager_fault"

PromotionKinds == {"generated_output_authority_promotion", "graph_checkpoint_authority_promotion",
                   "dry_run_to_live_control_promotion", "requested_forbidden_scope"}

\* safe_next_route_for_fault; str() of a severity is never the name of a value,
\* so that the route of an interrupt is not reached.
SafeNextRouteForFault(kind) ==
    FirstOf(<< <<kind \in {"stale_boundary_input", "completion_gate_bypass", "proof_obligation_bypass"},
                 "rebake_or_refresh_authority">>,
               <<kind \in {"unclassified_authority_sensitive_record", "model_route_ambiguity"},
                 "classify_and_route_before_action">>,
               <<kind \in PromotionKinds \cup {"dispatch_requested", "live_effect_requested"},
                 "refuse_and_require_separate_authority">> >>, "SOP_first_review")

\* _missing_requirement_for_issue
MissingRequirements(kind) ==
    LET required == [unsupported_requirement |-> "accepted_support_record", model_route_ambiguity |-> "model_route",
                     completion_gate_bypass |-> "completion_review", proof_obligation_bypass |-> "proof_obligation"]
    IN  {required[k] : k \in {kind} \cap DOMAIN required}

\* manager_fault_records_from_readiness
FaultRecords(readiness, workRef) ==
    {[fault_id |-> <<workRef, FaultKind(i.issue_kind)>>, fault_kind |-> FaultKind(i.issue_kind),
      severity |-> i.severity, work_ref |-> workRef, missing_requirement_set |-> MissingRequirements(i.issue_kind),
      safe_next_route |-> SafeNextRouteForFault(FaultKind(i.issue_kind))] : i \in readiness.issues}

\* safe_next_route_for_refusal
SafeNextRouteForRefusal(kind) ==
    FirstOf(<< <<kind \in PromotionKinds, "refuse_and_require_separate_authority">>,
               <<kind = "model_route_ambiguity", "declare_model_route">>,
               <<kind = "stale_boundary_input", "rebake_or_refresh_authority">> >>, "SOP_first_review")

\* manager_refusal_records_from_readiness
RefusalRecords(readiness, workRef) ==
    {[work_ref |-> workRef, refusal_reason |-> i.issue_kind,
      safe_next_route |-> SafeNextRouteForRefusal(i.issue_kind),
      fault_record_set |-> {f \in FaultRecords(readiness, workRef) : f.fault_kind = i.issue_kind}] :
     i \in {j \in readiness.issues : j.severity \in {"refused", "interrupt", "stale"}}}

\* handoff_record_from_readiness; no branch is for what is only stale.
\* Mutant: a blocker is looked at before an interrupt is.
HandoffStatusBlockedFirst(readiness) ==
    BySeverity(readiness.issues,
               << <<"refused", "refused">>, <<"blocked", "blocked">>, <<"fault", "blocked">>,
                  <<"interrupt", "interrupted">> >>,
               IF readiness.accepted THEN "ready_for_review" ELSE "context_only")
HandoffStatus(readiness) ==
    BySeverity(readiness.issues,
               << <<"refused", "refused">>, <<"interrupt", "interrupted">>, <<"blocked", "blocked">>,
                  <<"fault", "blocked">> >>,
               IF readiness.accepted THEN "ready_for_review" ELSE "context_only")
HandoffRecord(readiness, notice) ==
    [status |-> HandoffStatus(readiness), authority_notice_ref |-> notice,
     fault_ref_set |-> KindsOf(readiness.issues)]

\* validate_manager_handoff_record
HandoffIssues(handoff) == When(handoff.authority_notice_ref = NoValue, "missing_field", "fault")

-----------------------------------------------------------------------------
(* Authority.                                                              *)

\* classify_manager_record_authority
KindSets == [source_authority |-> {"source_document", "canonical_specification", "sjs_signature", "completion_review"},
             accepted_execution_evidence |-> {"accepted_proof_pack", "accepted_test_result"},
             coordination_record |-> {"coordination_claim", "rendezvous_packet"},
             operations_dry_run_record |-> {"operation_dry_run_result", "dry_run_evidence"},
             generated_projection |-> {"generated_projection", "generated_report"},
             graph_checkpoint |-> {"graph_checkpoint", "langgraph_checkpoint"},
             carrier_context |-> {"mailbox_message", "chat_message", "terminal_output"},
             human_override_context |-> {"human_override", "human_approval"}]
AuthorityClass(kind, promotion) ==
    LET classes == {c \in DOMAIN KindSets : kind \in KindSets[c]}
    IN  IF classes # {} THEN CHOOSE c \in classes : TRUE
        ELSE IF promotion = "source_authority" THEN "unknown" ELSE "manager_planning_record"

\* _promotion_issue_for_authority_class
PromotionIssue(class) ==
    LET named == [generated_projection |-> "generated_output_authority_promotion",
                  graph_checkpoint |-> "graph_checkpoint_authority_promotion",
                  operations_dry_run_record |-> "dry_run_to_live_control_promotion"]
    IN  Issue(IF class \in DOMAIN named THEN named[class] ELSE "missing_source_authority", "refused")

\* validate_manager_authority_classification of a record with a reference that
\* claims no effect.
ClassificationIssues(kind, promotion) ==
    LET class == AuthorityClass(kind, promotion)
    IN  IF promotion = "source_authority" /\ class # "source_authority" THEN {PromotionIssue(class)} ELSE {}
=============================================================================
