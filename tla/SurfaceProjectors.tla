--------------------------- MODULE SurfaceProjectors ---------------------------
(***************************************************************************)
(* The twelve projectors (surfaces/projectors.py).  A projector is a fixed *)
(* status, freshness, tier and sets of actions, and the kinds of evidence  *)
(* it takes from the packet, each with a default; evidence of other kinds  *)
(* does not reach the record.                                              *)
(***************************************************************************)
EXTENDS SurfaceRecords

Projector(tier, status, freshness, taken, permitted, forbidden, required) ==
    [authority_tier |-> tier, projected_status |-> status, freshness_state |-> freshness, evidence |-> taken,
     permitted_action_set |-> permitted, forbidden_action_set |-> forbidden, required_route_set |-> required]

\* project_manager_summary
ManagerSummary ==
    Projector("source_authority", "ready", "fresh", << >>, {"request_work_packet", "request_review"},
              {"direct_agent_dispatch", "direct_completion_review_acceptance", "direct_source_authority_write"},
              {"completion_review_delta_gate"})
\* project_worker_packet
WorkerPacket ==
    Projector("source_authority", "blocked", "blocked", [blocker_ref_set |-> {"unresolved_support_gap"}],
              {"request_rebake", "request_interrupt_resolution"}, {"completion_claim", "false_ready_display"},
              {"support_repair_or_rebake"})
\* project_stale_projection
StaleProjection ==
    Projector("generated_projection_evidence", "stale", "stale",
              [stale_source_ref_set |-> {"accepted_contract_hash_changed"},
               invalidation_ref_set |-> {"accepted_contract_hash_changed"}],
              {"request_rebake"}, {"authority_sensitive_action_without_refresh"},
              {"refresh_accepted_input_or_rebake_affected_slice"})
\* project_narrative
Narrative ==
    Projector("source_authority", "ready", "fresh", << >>, {"request_review"},
              {"source_narrative_rewrite", "canonical_specification_rewrite"}, {"completion_review_delta_gate"})
\* project_debug_trace
DebugTrace ==
    Projector("generated_projection_evidence", "faulted", "faulted",
              [fault_record_ref_set |-> {"hidden_write_evidence"}], {"request_review"},
              {"fault_repair_from_projection", "checkpoint_authority_promotion"}, {"debug_review"})
\* project_conversation
Conversation ==
    Projector("carrier_context", "interrupted", "interrupted",
              [interrupt_context_ref_set |-> {"ambiguous_authority_sensitive_user_action"}],
              {"request_interrupt_resolution"}, {"participant_identity_collapse", "direct_authority_mutation"},
              {"SOP-first interrupt"})
\* project_adapter_event
AdapterEvent ==
    Projector("carrier_context", "blocked", "blocked", [blocker_ref_set |-> {"mutation_gate_ref"}],
              {"action_request", "coordination_request", "completion_review_request"},
              {"direct_source_write", "direct_accepted_pack_write", "direct_agent_dispatch",
               "direct_command_execution", "operations_command"}, {"action_route_display_contract"})
\* project_langflow_view
LangflowView ==
    Projector("generated_projection_evidence", "ready", "fresh", << >>, {"observe"},
              {"Langflow_installation", "Langflow_export_implementation", "runtime_execution"},
              {"blocked_direct_execution_route"})
\* project_divergence_notice
DivergenceNotice ==
    Projector("carrier_context", "stale", "stale",
              [stale_source_ref_set |-> {"authority_notice_mismatch"},
               invalidation_ref_set |-> {"carrier_ordering_conflict"}],
              {"request_interrupt_resolution", "request_rebake"},
              {"authority_sensitive_action_before_reconciliation"},
              {"reconcile_source_freshness_claim_state_lineage_or_authority_notice"})
\* project_completion_gate_refusal
CompletionGateRefusal ==
    Projector("generated_projection_evidence", "blocked", "blocked",
              [blocker_ref_set |-> {"completion_review_ref_missing"}], {"request_completion_review"},
              {"open_IR5-IA03", "accept_completion_from_projection"}, {"accepted_completion_review_required"})
\* project_ir4_runtime_graph_proof_handoff
RuntimeProofHandoff ==
    Projector("accepted_execution_evidence", "ready", "fresh", << >>, {"request_review"},
              {"checkpoint_readiness_authority", "generated_trace_authority"}, {"completion_review_delta_gate"})
\* project_operation_request
OperationRequest ==
    Projector("generated_projection_evidence", "blocked", "blocked",
              [blocker_ref_set |-> {"live_control_not_authorized"}], {"request_completion_review"},
              {"command_execution", "process_control", "gpu_control", "job_dispatch", "operations_control",
               "live_machine_control"}, {"completion_review_required"})

Projectors == [manager_summary |-> ManagerSummary, worker_packet |-> WorkerPacket,
               stale_projection |-> StaleProjection, narrative |-> Narrative, debug_trace |-> DebugTrace,
               conversation |-> Conversation, adapter_event |-> AdapterEvent, langflow_view |-> LangflowView,
               divergence_notice |-> DivergenceNotice, completion_gate_refusal |-> CompletionGateRefusal,
               runtime_proof_handoff |-> RuntimeProofHandoff, operation_request |-> OperationRequest]

-----------------------------------------------------------------------------
(* _build_surface_projection.                                              *)

\* What a packet does not say: the policy and _tuple_or_default fill it in.
PacketDefaults ==
    [projection_id |-> "projection", projected_subject_ref |-> "subject", source_authority_ref_set |-> {"contract"},
     lineage_edge_set |-> {"edge"}, authority_notice_ref |-> "notice", generated_at |-> "unset", risk_reason |-> "kind",
     source_authority_mutation_requested |-> FALSE, generated_projection_claimed_as_authority |-> FALSE,
     requested_action |-> NoValue, live_control_requested |-> FALSE]

\* The evidence that projector j takes from packet p.
TakenEvidence(j, p) ==
    [field \in EvidenceFields |->
        IF field \notin DOMAIN j.evidence THEN {}
        ELSE IF field \in DOMAIN p THEN p[field] ELSE j.evidence[field]]

\* The status of the evidence, or that of the projector when nothing stops it.
\* Mutant: without evidence of its own a projection is ready.
StatusOfEvidence(j, p) == StatusForEvidence(TakenEvidence(j, p))
ResolvedStatus(j, p) ==
    LET status == StatusForEvidence(TakenEvidence(j, p))
    IN  IF status = "ready" THEN j.projected_status ELSE status

DisplayOf(j, p) ==
    [display_projection_id |-> p.projection_id,
     projected_subject_ref |-> p.projected_subject_ref, authority_tier |-> j.authority_tier,
     source_authority_ref_set |-> p.source_authority_ref_set, authority_notice_ref |-> p.authority_notice_ref,
     freshness_state |-> j.freshness_state, permitted_action_set |-> j.permitted_action_set,
     forbidden_action_set |-> j.forbidden_action_set, required_route_set |-> j.required_route_set,
     risk_reason |-> p.risk_reason, lower_authority_tier_misrepresented |-> FALSE,
     source_authority_mutation_requested |-> p.source_authority_mutation_requested]
StateOf(j, p) ==
    Merged([projection_id |-> p.projection_id, projected_subject_ref |-> p.projected_subject_ref,
            generated_at |-> p.generated_at,
            source_record_ref_set |-> IF "source_record_ref_set" \in DOMAIN p THEN p.source_record_ref_set
                                      ELSE p.source_authority_ref_set,
            lineage_edge_set |-> p.lineage_edge_set, authority_notice_ref |-> p.authority_notice_ref,
            projected_status |-> ResolvedStatus(j, p), freshness_state |-> j.freshness_state,
            supported_action_route_set |-> j.permitted_action_set, stop_state_context_set |-> {},
            generated_projection_claimed_as_authority |-> p.generated_projection_claimed_as_authority,
            source_authority_mutation_requested |-> p.source_authority_mutation_requested], TakenEvidence(j, p))

\* The packet of an action on a record: display d, state s.  _stop_state_ref_set
\* is all evidence but the interrupts, which go by themselves.
ActionPacket(d, s, kind, live) ==
    [action_kind |-> kind, authority_notice_ref |-> d.authority_notice_ref, freshness_state |-> s.freshness_state,
     supported_action_route_set |-> s.supported_action_route_set, required_route_set |-> d.required_route_set,
     stop_state_ref_set |-> UNION {s[field] : field \in EvidenceFields \ {"interrupt_context_ref_set"}},
     interrupt_context_ref_set |-> s.interrupt_context_ref_set,
     direct_mutation_requested |-> d.source_authority_mutation_requested, live_control_requested |-> live]

SurfaceProjection(j, packet) ==
    LET p == Merged(packet, PacketDefaults)
        d == DisplayOf(j, p)
        s == StateOf(j, p)
    IN  [display |-> d, state |-> s, requested_action |-> p.requested_action,
         decision |-> IF p.requested_action = NoValue THEN "none"
                      ELSE ActionDecision(ActionPacket(d, s, p.requested_action, p.live_control_requested))]

\* SurfaceProjectionRecord.accepted
IsAccepted(r) == /\ DisplayIssues(r.display) = {}
                 /\ StateIssues(r.state) = {}
                 /\ r.decision \in {"none", "allowed"}
                 /\ ~r.display.source_authority_mutation_requested
=============================================================================
