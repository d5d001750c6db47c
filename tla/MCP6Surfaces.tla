----------------------------- MODULE MCP6Surfaces -----------------------------
(* Packets that say up to two things, or two more than the fixture of the     *)
(* manager surface does.                                                      *)
EXTENDS P6Surfaces

MCBasis == {<< >>, [required_notice |-> "notice", freshness_state |-> "current",
                    source_authority_state |-> "accepted"]}

MCLearnable ==
    {[freshness_state |-> word] : word \in {"current", "stale", "contested"}}
        \cup {[projected_status |-> word] : word \in {"ready", "blocked", "visible_authority_notice"}}
        \cup {[source_authority_state |-> "stale"]}
        \cup {[f \in {field} |-> {"evidence"}] : field \in {"stop_state_ref_set", "invalidation_ref_set"}}
        \cup {[f \in {field} |-> {}] : field \in {"source_record_ref_set", "stop_state_ref_set"}}
        \cup {[f \in {field} |-> TRUE] :
              field \in {"source_authority_mutation_requested", "assignment_requested", "dispatch_authority",
                         "live_effect", "names_source_authority", "python_bool"}}
        \cup {[authority_tier |-> "source_authority"], [live_control_requested |-> FALSE], [authority_notice_ref |-> "notice"],
              [required_notice |-> ""], [projected_subject_ref |-> ""], [projection_record_kind |-> ""],
              [projection_record_kind |-> "conversation"],
              [claimed_authority_class |-> "live_control_authority"], [inbound_action_kind |-> "edit_canonical_source"],
              [requested_action_kind |-> "direct_source_write"], [nonpromotion_notice |-> "notice"],
              [record_class |-> "dry_run_output"], [nonpromotion_notice_set |-> {}]}

MCAsked ==
    {[kind |-> kind, requests |-> "none", actor |-> "user"] :
        kind \in {"comment", "work_request", "rebake_request", "interrupt_resolution_request", "job_dispatch", ""}}
        \cup {[kind |-> "rebake_request", requests |-> "live_control", actor |-> "user"]}
        \cup {[kind |-> "comment", requests |-> "none", actor |-> ""]}
=============================================================================
