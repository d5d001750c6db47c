------------------------------- MODULE MCManager -------------------------------
(* Works that are fine except for at most one fact, and up to two facts that  *)
(* turn up: among them each that stops a cycle, and the ones that resolve it. *)
EXTENDS Manager, TLC

Ready == [cycle_id |-> "w1", source_ref_set |-> {"source"}, completion_review_ref |-> "review"]

Unready ==
    {[source_ref_set |-> {}], [authority_notice_ref |-> NoValue], [completion_review_ref |-> NoValue],
     [proof_obligation_ref_set |-> {"proof"}], [model_route |-> "missing"],
     [model_route_state |-> "unknown"]}
Stops ==
    {[source_authority_state |-> "accepted_but_stale"], [freshness_state |-> "stale"],
     [freshness_state |-> "contested"], [support_state |-> "missing"], [coordination_state |-> "contested"],
     [carrier_context_kind |-> "chat_message"], [carrier_context_state |-> "informative_only"],
     [requested_effect_classification_state |-> "missing"],
     [operations_dry_run_state |-> "success"], [human_override_state |-> "expired"],
     [human_override_state |-> "present_fresh_scoped_revocable"],
     [generated_projection_state |-> "current"], [graph_checkpoint_state |-> "current"],
     [requested_effect_kind |-> {"gpu"}]}
Wishes == {[requested_promotion |-> p] : p \in {"source_authority", "dispatch_authority", "live_control"}}
Resolutions ==
    {[live_authority_state |-> "accepted"], [completion_review_ref |-> "review"], [coordination_state |-> "uncontested"],
     [source_authority_state |-> "accepted_and_fresh"], [model_route |-> "requires deeper reasoning"]}

MCWorks == {Ready} \cup {change @@ Ready : change \in Unready \cup Stops \cup Wishes}
MCEvidence == Unready \cup Stops \cup Wishes \cup Resolutions
=============================================================================
