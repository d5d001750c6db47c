----------------------------- MODULE RuntimeGraph -----------------------------
(***************************************************************************)
(* The runtime graph runner: run_whole_field_planner_graph of              *)
(* runtime/graph_runner.py, with the checks of graph_contracts.py and      *)
(* checkpoints.py and the interrupt context of interrupts.py.              *)
(*                                                                         *)
(* One run visits the nodes of the graph in a fixed order, collects issues *)
(* at each of them, and ends at the first node that has any.  The operator *)
(* runner is called for its outcome (OperatorContracts!RunOutcomes).       *)
(*                                                                         *)
(* A reference field of GraphState is abstracted to whether it has a       *)
(* value.  The graph contract is the default one.                          *)
(***************************************************************************)
EXTENDS OperatorContracts

CONSTANTS Contract,   \* the operator contract
          BasisRefs,  \* freshness basis references
          Inputs      \* what callers pass

GraphNodeIds == {"packet_intake", "readiness_guard", "coordination_guard",
                 "operator_contract_select", "operator_invocation", "trace_recording",
                 "completion_gate", "sop_first_interrupt", "terminal_outcome"}

GraphState ==
    [active_work_packet_ref: BOOLEAN, accepted_boundary_pack_ref_set: BOOLEAN,
     graph_phase: GraphNodeIds,   \* GraphPhase has the values of GraphNodeId
     current_node_id: GraphNodeIds, proof_result_ref_set: BOOLEAN,
     stale_projection_ref_set: BOOLEAN, fault_record_ref_set: BOOLEAN,
     contested_claims: BOOLEAN,   \* a coordination_claim_ref_set member is contested
     source_ref_set: BOOLEAN, pending_interrupt_ref: BOOLEAN,
     completion_review_ref: BOOLEAN, no_hidden_write_proof_ref: BOOLEAN,
     authority_limit: {"execution_state_only", "other_limit"}]

NoCheckpoint == [presented_as_authority |-> FALSE, claims_readiness |-> FALSE,
                 freshness_basis_ref_set |-> {}, checkpoint_status |-> "none"]
CheckpointEnvelope ==
    [presented_as_authority: BOOLEAN, claims_readiness: BOOLEAN,
     freshness_basis_ref_set: SUBSET BasisRefs,
     checkpoint_status: {"generated_projection_only", "other_status"}]

GraphRunPolicy ==
    [accepted_freshness_basis_ref_set: SUBSET BasisRefs,
     require_readiness_proof: BOOLEAN, require_completion_review_for_success: BOOLEAN,
     require_no_hidden_write_proof_for_success: BOOLEAN]

AcceptedScope == "accepted_activation_boundary"   \* the policy's default
NoRequest == [form |-> "none"]

Input == [state: GraphState, checkpoint: CheckpointEnvelope \cup {NoCheckpoint},
          policy: GraphRunPolicy, operator_request: Invocation \cup {NoRequest}]

ASSUME ContractAssumption == Contract \in OperatorContract
ASSUME InputsAssumption == Inputs \subseteq Input
ASSUME RefsAssumption == NoRef \notin Refs

VARIABLES input,             \* the arguments of the run
          pc,                \* the next step of the run
          node_visits,       \* nodes visited so far
          phase_sequence,    \* the phase recorded for each visit
          issues,            \* the issues of the node visited last
          operator_run,      \* the operator runner's outcome, or "none"
          terminal           \* the terminal record, NoRecord until the end

vars == <<input, pc, node_visits, phase_sequence, issues, operator_run, terminal>>

NoRecord == [terminal_outcome |-> "none"]

state      == input.state
policy     == input.policy
checkpoint == input.checkpoint

-----------------------------------------------------------------------------
(* Checks.                                                                 *)

\* validate_node_preconditions, for the node the state says it is at: its
\* phase, and the fields that the node's contract requires.
NodeIssues(node) ==
    IF node # state.current_node_id THEN <<>>
    ELSE Raise(state.graph_phase # node, Issue("invalid_transition", "fault", "graph_phase"))
      \o Raise(node \in {"packet_intake", "readiness_guard"} /\ ~ state.active_work_packet_ref,
               Issue("missing_field", "fault", "active_work_packet_ref"))
      \o Raise(node = "packet_intake" /\ ~ state.accepted_boundary_pack_ref_set,
               Issue("missing_field", "fault", "accepted_boundary_pack_ref_set"))
      \o Raise(node = "packet_intake" /\ ~ state.accepted_boundary_pack_ref_set,
               Issue("missing_authority", "fault", "accepted_boundary_pack_ref_set"))

\* Mutant: fault records are only looked for in a state that is not stale.
StateIssuesStaleFirst ==
    IF state.stale_projection_ref_set
    THEN <<Issue("stale_projection", "stale", "stale_projection_ref_set")>>
    ELSE Raise(state.fault_record_ref_set,
               Issue("hidden_write_attempt", "fault", "fault_record_ref_set"))
\* validate_graph_state.
GraphStateIssues ==
       Raise(~ state.active_work_packet_ref,
             Issue("missing_field", "fault", "active_work_packet_ref"))
    \o Raise(~ state.accepted_boundary_pack_ref_set,
             Issue("missing_authority", "fault", "accepted_boundary_pack_ref_set"))
    \o Raise(state.authority_limit # "execution_state_only",
             Issue("generated_authority", "fault", "authority_limit"))
    \o Raise(state.stale_projection_ref_set,
             Issue("stale_projection", "stale", "stale_projection_ref_set"))
    \o Raise(state.fault_record_ref_set,
             Issue("hidden_write_attempt", "fault", "fault_record_ref_set"))

\* Mutant: the basis is only compared with the accepted one where they overlap.
BasisOverlaps ==
    checkpoint.freshness_basis_ref_set \cap policy.accepted_freshness_basis_ref_set # {}
BasisIsAccepted ==
    checkpoint.freshness_basis_ref_set = policy.accepted_freshness_basis_ref_set

\* validate_checkpoint.
\* Mutant: staleness is found first.
CheckpointStaleFirst ==
       Raise(~ BasisIsAccepted, Issue("stale_projection", "stale", "freshness_basis_ref_set"))
    \o Raise(checkpoint.presented_as_authority,
             Issue("checkpoint_authority_confusion", "interrupt", "presented_as_authority"))
    \o Raise(checkpoint.claims_readiness,
             Issue("checkpoint_authority_confusion", "fault", "claims_readiness"))
    \o Raise(checkpoint.checkpoint_status # "generated_projection_only",
             Issue("generated_authority", "fault", "checkpoint_status"))
CheckpointIssues ==
       Raise(checkpoint.presented_as_authority,
             Issue("checkpoint_authority_confusion", "interrupt", "presented_as_authority"))
    \o Raise(checkpoint.claims_readiness,
             Issue("checkpoint_authority_confusion", "fault", "claims_readiness"))
    \o Raise(~ BasisIsAccepted, Issue("stale_projection", "stale", "freshness_basis_ref_set"))
    \o Raise(checkpoint.checkpoint_status # "generated_projection_only",
             Issue("generated_authority", "fault", "checkpoint_status"))

ReadinessIssues ==
    NodeIssues("readiness_guard")
    \o Raise(policy.require_readiness_proof /\ ~ state.proof_result_ref_set,
             Issue("missing_authority", "blocked", "proof_result_ref_set"))

CoordinationIssues ==
    NodeIssues("coordination_guard")
    \o Raise(state.contested_claims,
             Issue("contested_coordination", "interrupt", "coordination_claim_ref_set"))

SelectIssues ==
    NodeIssues("operator_contract_select")
    \o Raise(input.operator_request = NoRequest,
             Issue("missing_authority", "blocked", "operator_request"))

\* _operator_terminal_validation.
OperatorIssues(outcome) ==
    CASE outcome = "success" -> <<>>
      [] outcome = "blocked_output" ->
           <<Issue("missing_authority", "blocked", "operator_run_result")>>
      [] outcome = "sop_first_interrupt" ->
           <<Issue("ambiguous_identity", "interrupt", "operator_run_result")>>
      [] outcome = "fault_output" ->
           <<Issue("hidden_write_attempt", "fault", "operator_run_result")>>

\* validate_success_postconditions and _apply_completion_policy.
CompletionIssues ==
       Raise(~ state.completion_review_ref,
             Issue("missing_field", "blocked", "completion_review_ref"))
    \o Raise(~ state.no_hidden_write_proof_ref,
             Issue("missing_field", "blocked", "no_hidden_write_proof_ref"))
    \o Raise(policy.require_completion_review_for_success /\ ~ state.completion_review_ref,
             Issue("missing_completion_review", "blocked", "completion_review_ref"))
    \o Raise(policy.require_no_hidden_write_proof_for_success /\ ~ state.no_hidden_write_proof_ref,
             Issue("hidden_write_attempt", "blocked", "no_hidden_write_proof_ref"))

\* terminal_outcome_for_issues.
ClassifyTerminalOutcome(found) ==
    IF HasSeverity(found, "fault") THEN "terminal_fault"
    ELSE IF HasSeverity(found, "interrupt") THEN "terminal_interrupt"
    ELSE IF HasSeverity(found, "stale") THEN "terminal_stale"
    ELSE IF HasSeverity(found, "blocked") THEN "terminal_blocked"
    ELSE "terminal_success"

\* interrupt_kind_for_issue.
InterruptKindForIssue(issue) ==
    CASE issue.issue_kind = "ambiguous_identity"             -> "ambiguous_identity"
      [] issue.issue_kind = "checkpoint_authority_confusion" -> "checkpoint_authority_confusion"
      [] issue.issue_kind = "contested_coordination"         -> "contested_coordination_claim"
      [] issue.issue_kind = "stale_projection"               -> "stale_input"
      [] issue.issue_kind = "unsupported_scope"              -> "unsupported_scope"
      [] issue.issue_kind = "hidden_write_attempt"           -> "hidden_write_cannot_be_ruled_out"
      [] OTHER                                               -> "missing_proof_route"

-----------------------------------------------------------------------------
(* Actions.                                                                *)

Init == /\ input \in Inputs
        /\ pc = "packet_intake"
        /\ node_visits = <<>>
        /\ phase_sequence = <<>>
        /\ issues = <<>>
        /\ operator_run = "none"
        /\ terminal = NoRecord

\* _append_visit.
Visit(node, phase) == /\ node_visits' = Append(node_visits, node)
                      /\ phase_sequence' = Append(phase_sequence, phase)

\* The run goes on with step next, or ends because of the issues found.
\* Mutants: interrupts do not end the run; an interrupt parks the run in a node
\* that no step leaves.
CheckPassesInterrupts(found, next) ==
    /\ issues' = found
    /\ pc' = IF \A i \in 1 .. Len(found) : found[i].severity = "interrupt"
             THEN next ELSE "terminate"
CheckParksInterrupts(found, next) ==
    /\ issues' = found
    /\ pc' = IF found = <<>> THEN next
             ELSE IF HasSeverity(found, "interrupt") THEN "sop_first_interrupt"
             ELSE "terminate"
Check(found, next) == /\ issues' = found
                      /\ pc' = IF found = <<>> THEN next ELSE "terminate"

PacketIntake == /\ pc = "packet_intake"
                /\ Visit("packet_intake", state.graph_phase)
                /\ Check(NodeIssues("packet_intake") \o GraphStateIssues, "checkpoint")
                /\ UNCHANGED <<input, operator_run, terminal>>

ValidateCheckpoint ==
    /\ pc = "checkpoint"
    /\ Check(IF checkpoint = NoCheckpoint THEN <<>> ELSE CheckpointIssues, "readiness_guard")
    /\ UNCHANGED <<input, node_visits, phase_sequence, operator_run, terminal>>

ReadinessGuard == /\ pc = "readiness_guard"
                  /\ Visit("readiness_guard", "readiness_guard")
                  /\ Check(ReadinessIssues, "coordination_guard")
                  /\ UNCHANGED <<input, operator_run, terminal>>

CoordinationGuard == /\ pc = "coordination_guard"
                     /\ Visit("coordination_guard", "coordination_guard")
                     /\ Check(CoordinationIssues, "operator_contract_select")
                     /\ UNCHANGED <<input, operator_run, terminal>>

OperatorContractSelect ==
    /\ pc = "operator_contract_select"
    /\ Visit("operator_contract_select", "operator_contract_select")
    /\ Check(SelectIssues, "operator_invocation")
    /\ UNCHANGED <<input, operator_run, terminal>>

\* run_contract_operator returns; its trace always has an identifier, so that
\* _trace_validation accepts every result.
OperatorInvocation ==
    /\ pc = "operator_invocation"
    /\ Visit("operator_invocation", "operator_invocation")
    /\ operator_run' \in RunOutcomes(input.operator_request, Contract, AcceptedScope)
    /\ pc' = "trace_recording"
    /\ UNCHANGED <<input, issues, terminal>>

TraceRecording == /\ pc = "trace_recording"
                  /\ Visit("trace_recording", "trace_recording")
                  /\ Check(OperatorIssues(operator_run), "completion_gate")
                  /\ UNCHANGED <<input, operator_run, terminal>>

CompletionGate == /\ pc = "completion_gate"
                  /\ Visit("completion_gate", "completion_gate")
                  /\ Check(CompletionIssues, "terminate")
                  /\ UNCHANGED <<input, operator_run, terminal>>

\* _terminal_result.
Terminate ==
    /\ pc = "terminate"
    /\ IF phase_sequence[Len(phase_sequence)] = "terminal_outcome"
       THEN UNCHANGED <<node_visits, phase_sequence>>
       ELSE Visit("terminal_outcome", "terminal_outcome")
    /\ LET outcome     == ClassifyTerminalOutcome(issues)
           interrupted == outcome = "terminal_interrupt"
       IN  terminal' = [terminal_outcome       |-> outcome,
                        interrupt_kind         |-> IF interrupted
                                                   THEN InterruptKindForIssue(issues[1]) ELSE "none",
                        originating_node_id    |-> IF interrupted
                                                   THEN state.current_node_id ELSE "none",
                        pending_interrupt_ref  |-> interrupted \/ state.pending_interrupt_ref,
                        operator_trace_ref_set |-> operator_run # "none"]
    /\ pc' = "done"
    /\ UNCHANGED <<input, issues, operator_run>>

Next == \/ PacketIntake \/ ValidateCheckpoint \/ ReadinessGuard \/ CoordinationGuard
        \/ OperatorContractSelect \/ OperatorInvocation \/ TraceRecording
        \/ CompletionGate \/ Terminate

\* The run is one call of a function that never waits; the operator function
\* it calls is assumed to return or raise.
Spec == Init /\ [][Next]_vars /\ WF_vars(Next)

-----------------------------------------------------------------------------
(* What a run promises.                                                    *)

GraphIssueKinds ==
    {"missing_field", "missing_authority", "missing_completion_review", "stale_projection",
     "checkpoint_authority_confusion", "generated_authority", "hidden_write_attempt",
     "contested_coordination", "ambiguous_identity", "invalid_transition"}
GraphSeverities == {"blocked", "stale", "fault", "interrupt"}
GraphIssueFields ==
    {"graph_phase", "active_work_packet_ref", "accepted_boundary_pack_ref_set",
     "authority_limit", "stale_projection_ref_set", "fault_record_ref_set",
     "presented_as_authority", "claims_readiness", "freshness_basis_ref_set",
     "checkpoint_status", "proof_result_ref_set", "coordination_claim_ref_set",
     "operator_request", "operator_run_result", "completion_review_ref",
     "no_hidden_write_proof_ref"}
GraphIssue == [issue_kind: GraphIssueKinds, severity: GraphSeverities,
               field_name: GraphIssueFields]

TerminalOutcomes == {"terminal_success", "terminal_blocked", "terminal_stale",
                     "terminal_fault", "terminal_interrupt"}

InterruptKinds == {"none", "ambiguous_identity", "checkpoint_authority_confusion",
                   "contested_coordination_claim", "stale_input", "unsupported_scope",
                   "hidden_write_cannot_be_ruled_out", "missing_proof_route"}

TerminalOutcomeRecord ==
    [terminal_outcome: TerminalOutcomes, interrupt_kind: InterruptKinds,
     originating_node_id: GraphNodeIds \cup {"none"},
     pending_interrupt_ref: BOOLEAN, operator_trace_ref_set: BOOLEAN]

\* Types of the run's variables.
TypeOK == /\ input \in Inputs
          /\ pc \in GraphNodeIds \cup {"checkpoint", "terminate", "done"}
          /\ node_visits \in Seq(GraphNodeIds)
          /\ phase_sequence \in Seq(GraphNodeIds)
          /\ Len(node_visits) = Len(phase_sequence)
          /\ issues \in Seq(GraphIssue)
          /\ operator_run \in OutcomeKinds \cup {"none"}
          /\ terminal \in TerminalOutcomeRecord \cup {NoRecord}

Outcome == terminal.terminal_outcome

CurrentNode == IF node_visits = <<>> THEN "start" ELSE node_visits[Len(node_visits)]

\* The verdict of the current node: its issues, or the operator's outcome.
Verdict == IF issues # <<>> \/ operator_run = "none"
           THEN ClassifyTerminalOutcome(issues)
           ELSE ClassifyTerminalOutcome(OperatorIssues(operator_run))

GC == INSTANCE GraphContract WITH node <- CurrentNode, verdict <- Verdict

\* The run walks along the edges of the accepted graph contract, although the
\* code never reads them, and never forgets a verdict or retries a node.
FollowsGraphContract == GC!Spec

\* A successful run has earned it at every node it went through: nothing is
\* missing, stale, faulted or contested, the checkpoint is the current one
\* and claims nothing, and the operator succeeded and left a trace.
SuccessIsEarned ==
    Outcome = "terminal_success" =>
      /\ state.active_work_packet_ref /\ state.accepted_boundary_pack_ref_set
      /\ state.authority_limit = "execution_state_only"
      /\ ~ state.stale_projection_ref_set /\ ~ state.fault_record_ref_set
      /\ ~ state.contested_claims
      /\ policy.require_readiness_proof => state.proof_result_ref_set
      /\ checkpoint # NoCheckpoint =>
           /\ ~ checkpoint.presented_as_authority /\ ~ checkpoint.claims_readiness
           /\ checkpoint.freshness_basis_ref_set = policy.accepted_freshness_basis_ref_set
      /\ operator_run = "success" /\ terminal.operator_trace_ref_set
      /\ state.completion_review_ref /\ state.no_hidden_write_proof_ref

\* The operator is called only by a run that could still succeed: no guard
\* before the call has been passed over.
OperatorNeedsGuards ==
    operator_run # "none" =>
      /\ ~ state.stale_projection_ref_set /\ ~ state.fault_record_ref_set
      /\ ~ state.contested_claims
      /\ policy.require_readiness_proof => state.proof_result_ref_set
      /\ checkpoint # NoCheckpoint => ~ checkpoint.presented_as_authority

\* A check that ended the run before the checkpoint, or before the claims, was
\* looked at: a stale projection, or a proof of readiness that is missing.
StaleStateDecided == Outcome = "terminal_stale" /\ state.stale_projection_ref_set
MissingProofDecided == /\ Outcome = "terminal_blocked"
                       /\ policy.require_readiness_proof /\ ~ state.proof_result_ref_set

\* Evidence decides the outcome, whatever else is wrong with the run, unless a
\* check before the one that looks at it has ended the run: fault records make
\* it a fault, stale projections a fault or stale, a checkpoint that claims
\* readiness a fault (or stale, because of a stale state), one presented as
\* authority a fault or an interrupt (or the same), and a contested claim no
\* less than stale (or blocked, where a required proof is missing).
WorstEvidenceDecides ==
    Outcome # "none" =>
      /\ state.fault_record_ref_set => Outcome = "terminal_fault"
      /\ state.stale_projection_ref_set => Outcome \in {"terminal_fault", "terminal_stale"}
      /\ checkpoint # NoCheckpoint /\ checkpoint.claims_readiness
            => Outcome = "terminal_fault" \/ StaleStateDecided
      /\ checkpoint # NoCheckpoint /\ checkpoint.presented_as_authority
            => Outcome \in {"terminal_fault", "terminal_interrupt"} \/ StaleStateDecided
      /\ state.contested_claims
            => \/ Outcome \in {"terminal_fault", "terminal_interrupt", "terminal_stale"}
               \/ MissingProofDecided

\* An interrupted run names what interrupted it: the context is built from the
\* first issue, which is always the one that asks for judgment.
InterruptNamesItsCause ==
    /\ Outcome = "terminal_interrupt" <=> Outcome # "none" /\ terminal.interrupt_kind # "none"
    /\ Outcome = "terminal_interrupt" =>
         /\ terminal.pending_interrupt_ref
         /\ \/ /\ terminal.interrupt_kind = "checkpoint_authority_confusion"
               /\ checkpoint.presented_as_authority
            \/ /\ terminal.interrupt_kind = "contested_coordination_claim"
               /\ state.contested_claims
            \/ /\ terminal.interrupt_kind = "ambiguous_identity"
               /\ operator_run = "sop_first_interrupt"

\* Every run ends with a terminal outcome, whatever it is given.
EveryRunEnds == <>(Outcome # "none")

\* The gates of the run work together: the operator is called only behind the
\* guards before it, and success rests on those guards and on all that follow,
\* none of which looks at what another one found (graph_runner.py:80-292).
SuccessIsGuarded == TypeOK /\ OperatorNeedsGuards /\ SuccessIsEarned

=============================================================================
