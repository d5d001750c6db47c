----------------------------- MODULE MCOperations -----------------------------
(* Requests that are fine except for at most two fields, of those that the    *)
(* cascades read; approvals of two of them, given, withdrawn or neither.       *)
EXTENDS Operations, TLC

Fine == [operation_request_id |-> "r1", requested_by |-> "planner", source_ref_set |-> {"source"},
         authority_notice_ref |-> "notice", freshness_state |-> "fresh", completion_review_ref |-> "review",
         intended_effect |-> "inspect", resource_target |-> "workspace_file", risk_classification |-> "low",
         blast_radius |-> "narrow", rollback_or_abort_route |-> "rollback", stale_after |-> "later"]

Changes ==
    UNION {{[intended_effect |-> x] : x \in {"gpu_control", "model_runtime_start", "job_dispatch",
                                             "network_exposure_mutation", "destructive_filesystem_action", "reveal_secret"}},
           {[resource_target |-> x] : x \in {"gpu", "credential_or_secret", "network_service",
                                             "filesystem_destructive_target", "generated_projection",
                                             "unknown_or_ambiguous"}},
           {[freshness_state |-> x] : x \in {"pending_review", "stale", "interrupted", "faulted"}},
           {[f \in {field} |-> NoValue] : field \in {"requested_by", "authority_notice_ref",
                                                     "rollback_or_abort_route"}},
           {[source_ref_set |-> {}], [authority_notice_state |-> "stale"], [risk_classification |-> "high"],
            [authority_tier |-> "source_authority"], [dry_run_required |-> FALSE], [blast_radius |-> "unknown"],
            [predicted_side_effect_set |-> {"secret_value_present"}], [cited_authority_set |-> {"dry_run_result"}],
            [requested_authority_promotion |-> TRUE]}}
MCRequestData == {c @@ d @@ Fine : c, d \in Changes}
                     \cup {[f \in DOMAIN Fine \ {x} |-> Fine[f]] : x \in DOMAIN Fine}
                     \cup {Fine, [operation_request_id |-> "r2", resource_target |-> "gpu"] @@ Fine}

OnGpu == [resource_target |-> "gpu"] @@ Fine
MCApprovable == {EnvelopeFromMapping(data) : data \in
    {OnGpu, [resource_target |-> "credential_or_secret"] @@ Fine}}

Form == [complete |-> TRUE, approval_state |-> "fresh_scoped", broad_approval_requested |-> FALSE,
         live_control_authority_claimed |-> FALSE]
MCApprovalForms == {[Form EXCEPT !.approval_state = state] : state \in {"absent", "requested", "fresh_scoped", "stale"}}
                       \cup {[Form EXCEPT !.complete = FALSE], [Form EXCEPT !.broad_approval_requested = TRUE],
                             [Form EXCEPT !.live_control_authority_claimed = TRUE]}

KnownBlast == [complete |-> TRUE, monitored |-> TRUE, blast_radius_state |-> "known"]
MCBlastEvidence == {KnownBlast, [KnownBlast EXCEPT !.blast_radius_state = "uncertain"]}
MCRollbackEvidence == {[complete |-> TRUE, route_state |-> "fresh"], [complete |-> TRUE, route_state |-> "stale"]}

MCResultEdits == {[live_effect_performed |-> TRUE], [completion_review_required |-> FALSE],
                  [has_non_authority_notice |-> FALSE], [authority_tier |-> "source_authority"],
                  [authority_promotion_claimed |-> TRUE],
                  [review_status |-> "accepted"]}
=============================================================================
