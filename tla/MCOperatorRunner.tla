---------------------------- MODULE MCOperatorRunner ----------------------------
(* Instances of OperatorRunner for TLC: an acceptable request, and the         *)
(* requests that differ from it in one or two fields.                          *)
EXTENDS OperatorRunner

MCRefs == {"authority", "input"}
MCRequestIds == {"request"}

Acceptable ==
    [request_id |-> "request",
     requested_operator_id |-> "runner", requested_operator_version |-> "v1",
     input_ref_set |-> {"input"}, authority_basis_ref_set |-> {"authority"},
     expected_output_kind_set |-> {"operator_result", "operator_trace"},
     refusal_allowed |-> TRUE, authority_basis_state |-> "current",
     generated_projection_presented_as_authority |-> FALSE,
     input_identity_state |-> "resolved",
     requested_scope |-> "accepted_activation_boundary", unsafe_operation_set |-> {}]

Deviations == {<<"requested_operator_id", "other">>, <<"requested_operator_version", "v2">>,
               <<"input_ref_set", {"authority"}>>, <<"authority_basis_ref_set", {}>>,
               <<"expected_output_kind_set", {"operator_trace"}>>,
               <<"expected_output_kind_set", {"work_packet", "unknown_kind"}>>,
               <<"refusal_allowed", FALSE>>, <<"authority_basis_state", "stale">>,
               <<"generated_projection_presented_as_authority", TRUE>>,
               <<"input_identity_state", "ambiguous">>, <<"requested_scope", "other_scope">>,
               <<"unsafe_operation_set", {"network_control", "read"}>>}

Deviating(requests) == {[r EXCEPT ![d[1]] = d[2]] : r \in requests, d \in Deviations}
OneDeviation == {Acceptable} \cup Deviating({Acceptable})
MCRequests == OneDeviation \cup Deviating(OneDeviation)

Call(form, missing, malformed, request, sources, has_function) ==
    [form |-> form, missing |-> missing, malformed |-> malformed, request |-> request,
     source_ref_set |-> sources, has_function |-> has_function]

MCInvocations ==
    {Call("record", {}, FALSE, r, s, f) :
        r \in MCRequests, s \in {NoSources, {"input"}}, f \in BOOLEAN}
    \cup {Call("mapping", m, b, r, NoSources, TRUE) :
        m \in {{}, {"request_id", "input_ref_set"}, {"requested_operator_version"}},
        b \in BOOLEAN, r \in OneDeviation}

MCContract == [operator_id |-> "runner", operator_version |-> "v1",
               output_record_kind_set |-> {"operator_result", "operator_trace", "work_packet"},
               authority_basis_ref_set |-> {"authority"}]
=============================================================================
