------------------------------ MODULE P6Surfaces ------------------------------
(***************************************************************************)
(* The P6 surfaces (surfaces_p6/surface_matrix.py) in use.  A packet about *)
(* one subject grows; it is projected to one of eleven families, or read   *)
(* as an envelope as it is; and a user who sees the record acts on what    *)
(* they see.  Showing and sending are up to the carriers, which are not    *)
(* part of the code: an inbound action here carries the freshness and the  *)
(* stops of the record it was made on (not its invalidations, for which it *)
(* has no field).  A record stays on display while the packet grows, so    *)
(* that what the user acts on may be out of date.                          *)
(***************************************************************************)
EXTENDS P6Records

CONSTANTS Basis,         \* the packets to begin with
          Learnable,     \* what may turn up: fields of the packet
          MaxLearned,    \* how often something does
          Asked          \* the actions that users send: kind, request, actor

\* What a packet may hold.  A flag is a word of which every conversion to a truth
\* value makes the same (_bool and _as_bool of the three files); python_bool says
\* that some flag is a bool of Python instead.  A word that is not of its
\* enumeration raises ValueError.
PacketFlags ==
    {"names_source_authority", "source_authority_mutation_requested", "assignment_requested", "dispatch_requested",
     "operations_control_requested", "live_control_requested", "assignment_authority", "dispatch_authority",
     "operations_control_authority", "live_control_authority", "live_effect", "lower_authority_tier_claimed_as_source",
     "python_bool"}
FreshnessWord == FreshnessState \cup {"current", "accepted", "present"}
StatusWord == ProjectionStatus \cup {"visible_authority_notice", "generated_projection_non_authority",
                                     "visible_stale_notice", "surface_cannot_mutate_source_authority"}
IsPacket(p) ==
    /\ \A flag \in PacketFlags \cap DOMAIN p : p[flag] \in BOOLEAN
    /\ Get(p, "authority_tier", "carrier_context") \in AuthorityTier
    /\ Get(p, "freshness_state", "fresh") \in FreshnessWord
    /\ Get(p, "projected_status", "ready") \in StatusWord

ASSUME P6Assumption == /\ MaxLearned \in Nat
                       /\ \A p \in Basis \cup Learnable : IsPacket(p)

VARIABLES packet,   \* the input packet, as far as it is known
          learned,  \* how much of it turned up
          shown,    \* the record on display, at most one
          inbound   \* the action on that record, at most one

vars == <<packet, learned, shown, inbound>>

-----------------------------------------------------------------------------
(* What the families may show and request.                                 *)

COMMON_FORBIDDEN_EFFECT_SET ==
    {"direct_source_write", "direct_canonical_write", "direct_claim_activation", "direct_completion_acceptance",
     "direct_assignment", "direct_dispatch", "direct_command_execution", "direct_operations_control",
     "direct_live_machine_control"}

Capability(requests, forbidden, routes, carrierContextOnly) ==
    [may_request_set |-> requests, forbidden_effect_set |-> COMMON_FORBIDDEN_EFFECT_SET \cup forbidden,
     required_route_set |-> routes, carrier_context_only |-> carrierContextOnly]

\* SURFACE_CAPABILITY_MAP
Talk == {"observation", "comment", "proposal"}
Classify == {"surface_action_classification"}
SURFACE_CAPABILITY_MAP ==
    [manager   |-> Capability({"packet_proposal", "review_request", "rebake_request"}, {},
                              {"completion_review_delta_gate", "manager_review"}, FALSE),
     worker    |-> Capability({"claim_request", "scope_question", "completion_review_request"},
                              {"claim_acceptance", "scope_expansion"},
                              {"completion_review_required", "scope_review"}, FALSE),
     narrative |-> Capability({"reentry_packet_request", "source_reconsideration_request"},
                              {"source_narrative_rewrite", "canonical_specification_rewrite"},
                              {"project_narrative_review", "source_reconsideration_route"}, FALSE),
     debug     |-> Capability({"fault_review_request", "trace_review_request"},
                              {"fault_repair", "checkpoint_authority_promotion"},
                              {"debug_review", "completion_review_required"}, FALSE),
     chat      |-> Capability(Talk \cup {"work_request", "review_request"},
                              {"transcript_as_source_authority"}, Classify, TRUE),
     Codex     |-> Capability(Talk \cup {"work_request", "review_request"},
                              {"Codex_thread_state_as_authority"}, Classify, TRUE),
     terminal  |-> Capability(Talk, {"terminal_output_as_authority"}, Classify, TRUE),
     IRC       |-> Capability(Talk \cup {"work_request", "claim_request", "review_request"},
                              {"IRC_event_as_authority"}, Classify \cup {"coordination_review"}, TRUE),
     Matrix    |-> Capability(Talk \cup {"work_request", "claim_request", "review_request"},
                              {"Matrix_event_as_authority"}, Classify \cup {"coordination_review"}, TRUE),
     web       |-> Capability(Talk \cup {"work_request", "review_request"},
                              {"web_UI_state_as_authority"}, Classify, TRUE),
     Langflow  |-> Capability({"diagram_review_request", "export_reconsideration_request"},
                              {"Langflow_flow_execution", "Langflow_node_success_to_completion_acceptance"},
                              Classify \cup {"blocked_direct_execution_route"}, TRUE)]

-----------------------------------------------------------------------------
(* Projecting a packet.                                                    *)

\* _authority_tier
TierOf(p, capability) ==
    FirstOf(<< <<"authority_tier" \in DOMAIN p, Get(p, "authority_tier", NoValue)>>,
               <<capability.carrier_context_only, "carrier_context">>,
               <<Get(p, "source_authority_state", NoValue) \in {"accepted", "accepted_and_fresh"}, "source_authority">> >>,
            "generated_projection_evidence")

\* _source_mutation_requested
SourceMutationRequested(p) ==
    \/ Get(p, "source_authority_mutation_requested", FALSE)
    \/ Get(p, "inbound_action_kind", Get(p, "requested_action_kind", NoValue))
           \in {"edit_canonical_source", "direct_source_write", "direct_canonical_write"}

\* _projection_status
StatusOf(p, freshness, issue) ==
    FirstOf(<< <<"projected_status" \in DOMAIN p, Get(p, "projected_status", NoValue)>>,
               <<SourceMutationRequested(p), "refused">>,
               <<freshness = "stale", "stale">>,
               <<issue # "none", "faulted">>,
               <<freshness = "faulted", "faulted">>,
               <<freshness = "interrupted", "interrupted">>,
               <<freshness = "fresh", "ready">> >>, "blocked")

\* _stop_state_refs: what stops a record that is not ready is at least its
\* status.
\* Mutants: what is ready has nothing to stop it; the status does not count.
StopsOfUnready(p, status, issue) ==
    LET explicit == Get(p, "stop_state_ref_set", {})
    IN  IF explicit # {} THEN explicit ELSE IF status = "ready" THEN {} ELSE {status}
StopsButStatus(p, status, issue) ==
    LET explicit == Get(p, "stop_state_ref_set", {})
    IN  IF explicit # {} THEN explicit ELSE IF issue # "none" THEN {issue} ELSE {}
StopStateRefs(p, status, issue) ==
    LET explicit == Get(p, "stop_state_ref_set", {})
    IN  IF explicit # {} THEN explicit
        ELSE IF issue # "none" THEN {issue}
        ELSE {status} \ {"ready"}

\* project_p6_surface
ProjectedEnvelope(family, p) ==
    LET capability == SURFACE_CAPABILITY_MAP[family]
        issue == NonpromotionIssue(p)
        freshness == Freshness(Get(p, "freshness_state", "unknown"))
        status == StatusOf(p, freshness, issue)
    IN  [surface_family |-> family,
         projected_subject_ref |-> Get(p, "projected_subject_ref", family),
         generated_at |-> Get(p, "generated_at", "projection_time_unset"),
         source_record_ref_set |-> Get(p, "source_record_ref_set", {"source_ref"}),
         source_authority_sha256_set |-> Get(p, "source_authority_sha256_set", {"hash_pending_review"}),
         lineage_edge_set |-> Get(p, "lineage_edge_set", {"edge"}),
         authority_notice_ref |-> Get(p, "authority_notice_ref", Get(p, "required_notice", NoValue)),
         authority_tier |-> TierOf(p, capability), freshness_state |-> freshness, projected_status |-> status,
         permitted_action_set |-> capability.may_request_set,
         forbidden_action_set |-> capability.forbidden_effect_set,
         required_route_set |-> capability.required_route_set,
         nonpromotion_notice_set |-> {"warning"}, stop_state_ref_set |-> StopStateRefs(p, status, issue),
         invalidation_ref_set |-> Get(p, "invalidation_ref_set", {}),
         names_source_authority |-> Get(p, "names_source_authority", FALSE),
         lower_authority_tier_claimed_as_source |-> issue # "none",
         source_authority_mutation_requested |-> SourceMutationRequested(p),
         assignment_requested |-> Get(p, "assignment_requested", FALSE),
         dispatch_requested |-> Get(p, "dispatch_authority", Get(p, "dispatch_requested", FALSE)),
         operations_control_requested |-> Get(p, "operations_control_requested", FALSE),
         live_control_requested |-> Get(p, "live_control_requested", Get(p, "live_effect", FALSE))]

\* p6_projection_envelope_from_mapping: the same packet, read as it is.
EnvelopeFromMapping(p) ==
    [surface_family |-> "chat",
     projected_subject_ref |-> Get(p, "projected_subject_ref", "id"),
     generated_at |-> Get(p, "generated_at", "projection_time_unset"),
     source_record_ref_set |-> Get(p, "source_record_ref_set", {}),
     source_authority_sha256_set |-> Get(p, "source_authority_sha256_set", {}),
     lineage_edge_set |-> Get(p, "lineage_edge_set", {}),
     authority_notice_ref |-> Get(p, "authority_notice_ref", Get(p, "required_notice", NoValue)),
     authority_tier |-> Get(p, "authority_tier", "generated_projection_evidence"),
     freshness_state |-> Freshness(Get(p, "freshness_state", "unknown")),
     projected_status |-> StatusValue(Get(p, "projected_status", "blocked")),
     permitted_action_set |-> {}, forbidden_action_set |-> Get(p, "forbidden_action_set", {}),
     required_route_set |-> Get(p, "required_route_set", {}),
     nonpromotion_notice_set |-> Get(p, "nonpromotion_notice_set", {"warning"}),
     stop_state_ref_set |-> Get(p, "stop_state_ref_set", {}),
     invalidation_ref_set |-> Get(p, "invalidation_ref_set", {}),
     names_source_authority |-> Get(p, "names_source_authority", FALSE),
     lower_authority_tier_claimed_as_source |-> Get(p, "lower_authority_tier_claimed_as_source", FALSE),
     source_authority_mutation_requested |-> Get(p, "source_authority_mutation_requested", FALSE),
     assignment_requested |-> Get(p, "assignment_requested", FALSE),
     dispatch_requested |-> Get(p, "dispatch_requested", FALSE),
     operations_control_requested |-> Get(p, "operations_control_requested", FALSE),
     live_control_requested |-> Get(p, "live_control_requested", FALSE)]

\* p6_inbound_action_packet_from_mapping, for a user who sees envelope e.
InboundPacket(e, asked) ==
    [requested_action_kind |-> asked.kind, requests |-> asked.requests, actor_ref |-> asked.actor,
     carrier_surface |-> e.surface_family, authority_notice_seen |-> e.authority_notice_ref # NoValue,
     freshness_state_seen |-> e.freshness_state, stop_state_ref_set |-> e.stop_state_ref_set]

-----------------------------------------------------------------------------

Init == packet \in Basis /\ learned = 0 /\ shown = {} /\ inbound = {}

Learn(change) == /\ learned < MaxLearned
                 /\ packet' = Merged(change, packet)
                 /\ packet' # packet
                 /\ learned' = learned + 1
                 /\ inbound' = {}
                 /\ UNCHANGED shown

\* A bool of Python raises TypeError (_sequence_map), and a status that is not
\* one of ProjectionStatus raises ValueError.
Project(family) ==
    /\ ~Get(packet, "python_bool", FALSE)
    /\ Get(packet, "projected_status", "ready") \in ProjectionStatus
    /\ shown' = {[projected |-> TRUE, packet |-> packet, envelope |-> ProjectedEnvelope(family, packet)]}
    /\ inbound' = {}
    /\ UNCHANGED <<packet, learned>>

Read == /\ shown' = {[projected |-> FALSE, packet |-> packet, envelope |-> EnvelopeFromMapping(packet)]}
        /\ inbound' = {}
        /\ UNCHANGED <<packet, learned>>

\* classify_p6_inbound_action
Ask(asked) ==
    /\ \E r \in shown : LET a == InboundPacket(r.envelope, asked)
                        IN  inbound' = {[record |-> r, asked |-> asked, classification |-> Classification(a),
                                         accepted |-> InboundAccepted(a)]}
    /\ shown' = {}
    /\ UNCHANGED <<packet, learned>>

Next == \/ \E change \in Learnable : Learn(change)
        \/ \E family \in DOMAIN SURFACE_CAPABILITY_MAP : Project(family)
        \/ Read
        \/ \E asked \in Asked : Ask(asked)

Spec == Init /\ [][Next]_vars

-----------------------------------------------------------------------------
(* Properties.                                                             *)

Halted == {"refused", "SOP_first_interrupt_required"}
Sighted(e, kind) == InboundPacket(e, [kind |-> kind, requests |-> "none", actor |-> "user"])

TypeOK ==
    /\ learned \in 0 .. MaxLearned
    /\ \A r \in shown : /\ r.envelope.authority_tier \in AuthorityTier
                        /\ r.envelope.freshness_state \in FreshnessState
                        /\ r.envelope.projected_status \in ProjectionStatus
                        /\ shown = {r}
    /\ \A i \in inbound : i.accepted \in BOOLEAN /\ inbound = {i} /\ shown = {}

\* A projected record that passes its validation and is ready has no issue of
\* nonpromotion behind it, whichever status its packet claims, and each action
\* that its surface offers is accepted when a user takes it up.
AcceptedReadyIsClear ==
    \A r \in shown : r.projected /\ r.envelope.projected_status = "ready" /\ EnvelopeIssues(r.envelope) = {} =>
        /\ NonpromotionIssue(r.packet) = "none"
        /\ \A kind \in r.envelope.permitted_action_set : InboundAccepted(Sighted(r.envelope, kind))

\* Whoever computes the status of a projected record anew, from its stops and
\* the issues of its validation, does not find ready what is shown as stopped.
RereadKeepsStop ==
    \A r \in shown : r.projected /\ r.envelope.projected_status # "ready" =>
        StatusForEvidence(r.envelope.stop_state_ref_set, r.envelope.invalidation_ref_set,
                          EnvelopeIssues(r.envelope)) # "ready"

\* On a projected record that shows a stop, in its status, its stops or its
\* freshness, every action is interrupted or refused but the two that resolve a
\* stop, which are accepted if nothing else is the matter with them: an actor who
\* saw the notice asks for nothing besides.  So it is even when nothing stops the
\* packet any more.
ShowsStop(e) == e.projected_status # "ready" \/ e.stop_state_ref_set # {} \/ e.freshness_state # "fresh"
StoppedRecordsRouteNothing ==
    \A i \in inbound : i.record.projected /\ ShowsStop(i.record.envelope) =>
        IF i.asked.kind \in {"rebake_request", "interrupt_resolution_request"}
        THEN /\ i.asked.requests = "none" /\ i.asked.actor # NoValue
             /\ i.record.envelope.authority_notice_ref # NoValue
             => i.accepted
        ELSE i.classification \in Halted /\ ~i.accepted

\* Invalidations stop a record (has_stop_state) but not the actions on it, which
\* do not carry them: of these it is only known that the validation of the
\* record has rejected it.
RoutedRecordsAreClearOrRejected ==
    \A i \in inbound :
        /\ i.record.projected
        /\ i.asked.kind \notin {"rebake_request", "interrupt_resolution_request"}
        /\ i.classification \notin Halted
        =>
        \/ ~HasStopState(i.record.envelope)
        \/ HasKind(EnvelopeIssues(i.record.envelope), "ready_with_stop_state")

\* What a surface forbids is routed nowhere, whichever of the two tables of
\* forbidden effects, of the surface and of the classifier, knows of it.
ForbiddenIsNeverRouted ==
    \A r \in shown : r.projected => \A kind \in r.envelope.forbidden_action_set :
        Classification(Sighted(r.envelope, kind)) \in Halted

\* Evidence against a record never loosens what happens to an action on it:
\* what was refused stays refused and what was interrupted is not routed.
Strictness(classification) ==
    CASE classification = "refused" -> 2 [] classification = "SOP_first_interrupt_required" -> 1 [] OTHER -> 0
Adverse == {[f \in {field} |-> {"evidence"}] : field \in {"stop_state_ref_set", "invalidation_ref_set"}}
               \cup {[f \in {field} |-> TRUE] :
                     field \in {"source_authority_mutation_requested", "dispatch_authority", "live_effect"}}
               \cup {[freshness_state |-> "stale"], [claimed_authority_class |-> "source_authority"],
                     [required_notice |-> NoValue]}
EvidenceNeverLoosens ==
    \A i \in inbound : i.record.projected =>
        \A change \in Adverse :
            LET worse == ProjectedEnvelope(i.record.envelope.surface_family, Merged(change, i.record.packet))
            IN  Strictness(Classification(InboundPacket(worse, i.asked))) >= Strictness(i.classification)

\* What a record shows as stopped or forbidden is routed nowhere: the tables of
\* the surface, of nonpromotion and of the classifier agree, and where they do
\* not, on invalidations, the record is not accepted.
ShownStopsHalt == TypeOK /\ StoppedRecordsRouteNothing /\ RoutedRecordsAreClearOrRejected /\ ForbiddenIsNeverRouted

=============================================================================
