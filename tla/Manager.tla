-------------------------------- MODULE Manager --------------------------------
(***************************************************************************)
(* A manager that plans one work.  What is known of the work changes while *)
(* the manager goes through its cycles: each cycle is a frozen copy of the *)
(* facts, readiness is computed from the cycle, and packets, handoffs and  *)
(* refusals are made of them and kept, while the facts and the cycle go on.*)
(* cycleOf remembers, for the properties, the cycle a record was made in.  *)
(***************************************************************************)
EXTENDS ManagerRecords

CONSTANTS Works,       \* what the facts may be when the work is taken up
          Evidence,    \* the facts that may turn up
          MaxEvidence  \* how often one does

\* What is not a ManagerFreshnessState raises before there is a cycle.
ASSUME ManagerAssumption ==
    /\ MaxEvidence \in Nat
    /\ \A data \in Works \cup Evidence :
           "freshness_state" \in DOMAIN data => data.freshness_state \in ManagerFreshnessState

VARIABLES facts,      \* what the caller knows of the work
          learned,    \* how much of it turned up since
          cycle,      \* the ManagerCycleInput at hand, at most one
          readiness,  \* the ManagerReadinessResult at hand
          packet,     \* the packet candidate at hand
          handoff,    \* the last handoff that was made
          refusals    \* the refusals that were recorded

vars == <<facts, learned, cycle, readiness, packet, handoff, refusals>>

Init == /\ facts \in Works
        /\ learned = 0
        /\ cycle = {} /\ readiness = {} /\ packet = {} /\ handoff = {} /\ refusals = {}

\* Reviews are accepted, claims are contested, sources go stale.
Learn(change) == /\ learned < MaxEvidence
                 /\ facts' = Merged(change, facts)
                 /\ facts' # facts
                 /\ learned' = learned + 1
                 /\ UNCHANGED <<cycle, readiness, packet, handoff, refusals>>

\* manager_cycle_input_from_mapping
BeginCycle == /\ cycle' = {CycleFromMapping(facts)}
              /\ cycle' # cycle
              /\ packet' = {}
              /\ UNCHANGED <<facts, learned, readiness, handoff, refusals>>

\* recompute_manager_readiness
Recompute == \E c \in cycle :
    /\ readiness' = {Merged([cycleOf |-> c], Readiness(c))}
    /\ UNCHANGED <<facts, learned, cycle, packet, handoff, refusals>>

\* build_manager_work_packet_candidate, with or without a readiness at hand.
BuildPacket == \E c \in cycle :
    /\ packet' = {Merged([cycleOf |-> c], WorkPacketCandidate(c))}
    /\ UNCHANGED <<facts, learned, cycle, readiness, handoff, refusals>>

\* handoff_record_from_readiness, of the readiness at hand, which may be that
\* of an earlier cycle; the notice is the one of the cycle at hand.
HandOff == \E r \in readiness, c \in cycle :
    /\ handoff' = {Merged([cycleOf |-> r.cycleOf], HandoffRecord(r, c.authority_notice_ref))}
    /\ UNCHANGED <<facts, learned, cycle, readiness, packet, refusals>>

\* manager_refusal_records_from_readiness
Refuse == \E r \in readiness :
    /\ refusals = {}
    /\ refusals' = {Merged([cycleOf |-> r.cycleOf], f) : f \in RefusalRecords(r, r.cycleOf.work_ref)}
    /\ UNCHANGED <<facts, learned, cycle, readiness, packet, handoff>>

Next == \/ \E change \in Evidence : Learn(change)
        \/ BeginCycle
        \/ Recompute
        \/ BuildPacket
        \/ HandOff
        \/ Refuse

Spec == Init /\ [][Next]_vars

-----------------------------------------------------------------------------
(* Properties.                                                             *)

TypeOK ==
    /\ learned \in 0 .. MaxEvidence
    /\ \A c \in cycle : c.freshness_state \in ManagerFreshnessState /\ cycle = {c}
    /\ \A r \in readiness : Cardinality(r.interrupt_context) <= 1 /\ readiness = {r}
    /\ \A p \in packet : packet = {p} /\ cycle = {p.cycleOf}
    /\ \A h \in handoff :
           h.status \in {"ready_for_review", "blocked", "interrupted", "refused", "context_only"}

\* A packet that can be claimed has nothing against it but faults of its
\* identity: its cycle is reviewed and not stale, every obligation is proved, a
\* route is declared, and nobody contests it.  Four tests in a row, each of
\* which is made only if none before it failed, may not shadow each other.
ClaimableHasNothingOpen ==
    \A p \in packet : IsClaimable(p) =>
        /\ \A i \in p.issue_set : i.severity = "fault"
        /\ p.completion_gate
        /\ p.cycleOf.proof_obligation_ref_set = {}
        /\ p.cycleOf.source_authority_state = "accepted_and_fresh"
        /\ p.cycleOf.coordination_state \notin {"contested_by_active_claim", "contested"}
        /\ p.cycleOf.freshness_state # "stale"
        /\ p.cycleOf.model_route_state \notin {"missing", "unknown", NoValue}

\* Work that was interrupted or refused cannot be claimed in a later cycle, as
\* long as the facts that it was interrupted for are the same, whatever else
\* turned up.
FactsBehind ==
    [stale_boundary_input |-> {"source_authority_state", "freshness_state"},
     contested_coordination_claim |-> {"coordination_state"},
     unclassified_authority_sensitive_record |-> {"requested_effect_classification_state"},
     dry_run_to_live_control_promotion |-> {"operations_dry_run_state", "requested_promotion"},
     generated_output_authority_promotion |-> {"generated_projection_state", "requested_promotion"},
     graph_checkpoint_authority_promotion |-> {"graph_checkpoint_state", "requested_promotion"},
     requested_forbidden_scope |-> {"requested_effect_kind", "live_authority_state"},
     model_route_ambiguity |-> {"model_route", "model_route_state"}]
InterruptHoldsUntilResolved ==
    \A p \in packet, r \in readiness : IsClaimable(p) =>
        \A kind \in r.interrupt_context :
            \E field \in FactsBehind[kind] : p.cycleOf[field] # r.cycleOf[field]

\* A refusal record is made for exactly the kind that interrupts, it carries
\* its fault, and it asks for a separate authority if and only if the fault
\* does: two functions give the route, from two vocabularies.
RefusalMatchesInterrupt ==
    \A r \in readiness :
        LET records == RefusalRecords(r, r.cycleOf.work_ref)
        IN  /\ {f.refusal_reason : f \in records} = r.interrupt_context
            /\ \A f \in records :
                   /\ f.fault_record_set # {}
                   /\ \A g \in f.fault_record_set :
                          (f.safe_next_route = "refuse_and_require_separate_authority")
                              <=> (g.safe_next_route = "refuse_and_require_separate_authority")

\* What a handoff says and what the packet of the same cycle says: it is ready
\* for review if and only if the packet can be claimed and cites sources and
\* notice, and a cycle that interrupts hands off a refusal or an interrupt,
\* except for the interrupt of stale input.  There readiness.py and handoffs.py
\* differ: a cycle on stale input has an interrupt context and a refusal record,
\* and is handed off as context only, or as blocked by a fault of its identity.
HandoffFitsPacket ==
    \A h \in handoff :
        LET candidate == WorkPacketCandidate(h.cycleOf)
            identified == h.cycleOf.source_ref_set # {} /\ h.cycleOf.authority_notice_ref # NoValue
            interrupts == InterruptKinds(candidate.issue_set)
        IN  /\ h.status = "ready_for_review" <=> IsClaimable(candidate) /\ identified
            /\ interrupts \ {"stale_boundary_input"} # {} => h.status \in {"refused", "interrupted"}
            /\ "stale_boundary_input" \in interrupts
                   => h.status = IF identified THEN "context_only" ELSE "blocked"

\* The readiness of a cycle that promotes a projection or a checkpoint, and
\* the classifier asked about the promoted record, raise the same issue.
PromotionIsNamedAlike ==
    \A r \in readiness :
        /\ r.readiness_state = "source_authority_required"
               => \A kind \in KindSets.generated_projection :
                      ClassificationIssues(kind, r.cycleOf.requested_promotion) \subseteq r.issues
        /\ r.readiness_state = "blocked_until_kernel_reference_checked"
               => \A kind \in KindSets.graph_checkpoint :
                      ClassificationIssues(kind, r.cycleOf.requested_promotion) \subseteq r.issues

\* The records made of one readiness agree, but for the handoff of stale input:
\* refusals and faults name its interrupt, the handoff fits the packet, and a
\* promotion is named as the classifier of authority.py names it.
RecordsAgree == TypeOK /\ RefusalMatchesInterrupt /\ HandoffFitsPacket /\ PromotionIsNamedAlike

=============================================================================
