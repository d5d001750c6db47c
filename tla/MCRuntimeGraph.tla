---------------------------- MODULE MCRuntimeGraph ----------------------------
(* Instances of RuntimeGraph for TLC: the inputs of a run that succeeds, and *)
(* those that differ from them in at most two fields of each part.           *)
EXTENDS RuntimeGraph

MCRefs == {"ref"}
MCRequestIds == {"request"}
MCBasisRefs == {"packet", "packs"}

MCContract == [operator_id |-> "runner", operator_version |-> "v1",
               output_record_kind_set |-> {"operator_result", "operator_trace"},
               authority_basis_ref_set |-> {}]

GoodState ==
    [active_work_packet_ref |-> TRUE, accepted_boundary_pack_ref_set |-> TRUE,
     graph_phase |-> "packet_intake", current_node_id |-> "packet_intake",
     proof_result_ref_set |-> TRUE, stale_projection_ref_set |-> FALSE,
     fault_record_ref_set |-> FALSE, contested_claims |-> FALSE, source_ref_set |-> TRUE,
     pending_interrupt_ref |-> FALSE, completion_review_ref |-> TRUE,
     no_hidden_write_proof_ref |-> TRUE, authority_limit |-> "execution_state_only"]

StateDeviations ==
    {<<"active_work_packet_ref", FALSE>>, <<"accepted_boundary_pack_ref_set", FALSE>>,
     <<"graph_phase", "readiness_guard">>, <<"graph_phase", "terminal_outcome">>,
     <<"current_node_id", "readiness_guard">>, <<"current_node_id", "sop_first_interrupt">>,
     <<"proof_result_ref_set", FALSE>>, <<"stale_projection_ref_set", TRUE>>,
     <<"fault_record_ref_set", TRUE>>, <<"contested_claims", TRUE>>,
     <<"source_ref_set", FALSE>>, <<"pending_interrupt_ref", TRUE>>,
     <<"completion_review_ref", FALSE>>, <<"no_hidden_write_proof_ref", FALSE>>,
     <<"authority_limit", "other_limit">>}

Deviating(records, deviations) ==
    {[r EXCEPT ![d[1]] = d[2]] : r \in records, d \in deviations}

OneDeviation == {GoodState} \cup Deviating({GoodState}, StateDeviations)
MCStates == OneDeviation \cup Deviating(OneDeviation, StateDeviations)

GoodCheckpoint ==
    [presented_as_authority |-> FALSE, claims_readiness |-> FALSE,
     freshness_basis_ref_set |-> MCBasisRefs, checkpoint_status |-> "generated_projection_only"]
CheckpointDeviations ==
    {<<"presented_as_authority", TRUE>>, <<"claims_readiness", TRUE>>,
     <<"freshness_basis_ref_set", {"packet"}>>, <<"freshness_basis_ref_set", {}>>,
     <<"checkpoint_status", "other_status">>}
OneCheckpoint == {GoodCheckpoint} \cup Deviating({GoodCheckpoint}, CheckpointDeviations)
MCCheckpoints ==
    {NoCheckpoint} \cup OneCheckpoint \cup Deviating(OneCheckpoint, CheckpointDeviations)

GoodPolicy == [accepted_freshness_basis_ref_set |-> MCBasisRefs, require_readiness_proof |-> TRUE,
               require_completion_review_for_success |-> TRUE,
               require_no_hidden_write_proof_for_success |-> TRUE]
MCPolicies == {GoodPolicy} \cup
    Deviating({GoodPolicy}, {<<"accepted_freshness_basis_ref_set", {}>>,
                             <<"require_readiness_proof", FALSE>>,
                             <<"require_completion_review_for_success", FALSE>>,
                             <<"require_no_hidden_write_proof_for_success", FALSE>>})

GoodRequest ==
    [request_id |-> "request", requested_operator_id |-> "runner",
     requested_operator_version |-> "v1", input_ref_set |-> {"ref"},
     authority_basis_ref_set |-> {"ref"}, expected_output_kind_set |-> {"operator_result"},
     refusal_allowed |-> TRUE, authority_basis_state |-> "current",
     generated_projection_presented_as_authority |-> FALSE,
     input_identity_state |-> "resolved", requested_scope |-> AcceptedScope,
     unsafe_operation_set |-> {}]
MCRequests == {GoodRequest} \cup
    Deviating({GoodRequest}, {<<"authority_basis_state", "stale">>,
                              <<"input_identity_state", "ambiguous">>})

MCInvocations == {NoRequest} \cup
    {[form |-> "record", missing |-> {}, malformed |-> FALSE, request |-> r,
      source_ref_set |-> NoSources, has_function |-> TRUE] : r \in MCRequests}

MCInputs == [state: MCStates, checkpoint: {NoCheckpoint} \cup OneCheckpoint,
             policy: {GoodPolicy}, operator_request: MCInvocations]
            \cup [state: OneDeviation, checkpoint: MCCheckpoints,
                  policy: MCPolicies, operator_request: MCInvocations]
=============================================================================
