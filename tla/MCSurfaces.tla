------------------------------ MODULE MCSurfaces ------------------------------
(* Packets that say up to two things: evidence of each kind, given or         *)
(* denied, and each field without which an envelope is faulty.                *)
EXTENDS Surfaces

MCLearnable ==
    {[f \in {field} |-> {"evidence"}] : field \in StopFields}
        \cup {[f \in {field} |-> {}] : field \in {"blocker_ref_set", "stale_source_ref_set", "invalidation_ref_set",
                                                  "fault_record_ref_set", "interrupt_context_ref_set"}}
        \cup {[f \in {field} |-> ""] : field \in {"projection_id", "authority_notice_ref", "risk_reason"}}
        \cup {[f \in {field} |-> {}] : field \in {"source_authority_ref_set", "lineage_edge_set"}}
        \cup {[f \in {field} |-> TRUE] : field \in {"source_authority_mutation_requested",
                                                    "generated_projection_claimed_as_authority",
                                                    "live_control_requested"}}
        \cup {[risk_reason |-> "source authority"]}

MCRequests == {"request_review", "request_rebake", "direct_source_write", "runtime_execution"}

Display ==
    [display_projection_id |-> "projection",
     projected_subject_ref |-> "subject", authority_tier |-> "carrier_context",
     source_authority_ref_set |-> {"contract"}, authority_notice_ref |-> "notice", freshness_state |-> "fresh",
     permitted_action_set |-> {"observe"}, forbidden_action_set |-> {"source_mutation"},
     required_route_set |-> {"review"}, risk_reason |-> "kind", lower_authority_tier_misrepresented |-> FALSE,
     source_authority_mutation_requested |-> FALSE]
MCDisplays ==
    {[Display EXCEPT !.permitted_action_set = {kind}] : kind \in ActionKinds}
        \cup {[Display EXCEPT !.authority_tier = tier, !.permitted_action_set = {"direct_source_authority_write"}] :
              tier \in AuthorityTier}
        \cup {[Display EXCEPT !.required_route_set = {}], [Display EXCEPT !.forbidden_action_set = {}],
              [Display EXCEPT !.freshness_state = "ready"], [Display EXCEPT !.risk_reason = NoValue],
              [Display EXCEPT !.lower_authority_tier_misrepresented = TRUE],
              [Display EXCEPT !.permitted_action_set = LOW_AUTHORITY_ACTION_SET \cup {"request_review", NoValue}]}
=============================================================================
