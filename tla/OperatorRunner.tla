---------------------------- MODULE OperatorRunner ----------------------------
(***************************************************************************)
(* The contract-driven operator runner: run_contract_operator of           *)
(* operators/runner.py, called again and again by a caller that keeps the  *)
(* results, as the fixture runner does.                                    *)
(*                                                                         *)
(* One call resolves the request, validates it, calls the operator         *)
(* function, which may raise, and returns exactly one result.              *)
(***************************************************************************)
EXTENDS OperatorContracts

CONSTANTS Contract,        \* the accepted operator contract
          AcceptedScope,   \* the accepted_scope argument
          Invocations,     \* what callers may submit
          MaxRuns          \* bound on the number of calls (for model checking)

ASSUME ContractAssumption == Contract \in OperatorContract
ASSUME InvocationsAssumption == Invocations \subseteq Invocation
ASSUME RefsAssumption == NoRef \notin Refs
ASSUME MaxRunsAssumption == MaxRuns \in Nat

VARIABLES pc,           \* where the running call is
          invocation,   \* its arguments
          issues,       \* the issues it has found
          executed,     \* whether it has called the operator function
          generated,    \* generated_output_ref_set of the function's payload
          results       \* the results returned so far

vars == <<pc, invocation, issues, executed, generated, results>>

Idle == [form |-> "idle"]   \* no call is running

-----------------------------------------------------------------------------
(* The parts of a result.                                                  *)

\* _request_context_from_mapping: the defaults for what a mapping lacks.
RequestRef == IF invocation.form = "mapping" /\ "request_id" \in invocation.missing
              THEN InvalidRequestId ELSE invocation.request.request_id
InputRefs == IF invocation.form = "mapping" /\ "input_ref_set" \in invocation.missing
             THEN {} ELSE invocation.request.input_ref_set
AuthorityRefs == IF invocation.form = "mapping" /\ "authority_basis_ref_set" \in invocation.missing
                 THEN {} ELSE invocation.request.authority_basis_ref_set

\* source_ref_set as the trace identity sees it, sorted: how often each
\* reference occurs in authority_basis_ref_set + input_ref_set.
SourceRefs ==
    IF invocation.source_ref_set # NoSources
    THEN [ref \in invocation.source_ref_set |-> 1]
    ELSE [ref \in AuthorityRefs \cup InputRefs |->
             IF ref \in AuthorityRefs \cap InputRefs THEN 2 ELSE 1]

\* deterministic_trace_id: what the identifier is hashed from.
TraceId == [operator_contract_id      |-> Contract.operator_id,
            operator_contract_version |-> Contract.operator_version,
            operator_request_ref      |-> RequestRef,
            source_ref_set            |-> SourceRefs]

NoIssue == Issue("none", "none", NoRef)

\* The first issue of some severity, for the fields of the trace.
FirstOrNone(severities) ==
    IF \E i \in 1 .. Len(issues) : issues[i].severity \in severities
    THEN First(issues, severities) ELSE NoIssue

\* build_trace_event.
\* Mutant: a trace that has no refusal reason lacks the field.
TraceWithoutReason(outcome) ==
    [trace_id |-> TraceId, outcome_kind |-> outcome, fault_code |-> FirstOrNone({"fault"}).issue_kind]
Trace(outcome) == [trace_id       |-> TraceId,
                   outcome_kind   |-> outcome,
                   refusal_reason |-> FirstOrNone({"blocked", "interrupt"}),
                   fault_code     |-> FirstOrNone({"fault"}).issue_kind]

\* _success_output_kind.  Which of several declared kinds comes first in the
\* request does not matter: one of them is taken.
SuccessOutputKind ==
    LET expected == invocation.request.expected_output_kind_set
        declared == (expected \cap Contract.output_record_kind_set) \ {"operator_trace"}
    IN  IF "operator_result" \in expected \/ declared = {} THEN "operator_result"
        ELSE CHOOSE kind \in declared : TRUE

\* What _blocked_or_fault_result returns: an interrupt, a refusal or, for any
\* other outcome, a fault.
\* Mutant: everything but a refusal is a fault.
RefusedOutcomeNoInterrupt(outcome) ==
    IF outcome = "blocked_output" THEN outcome ELSE "fault_output"
RefusedOutcome(outcome) ==
    IF outcome \in {"sop_first_interrupt", "blocked_output"} THEN outcome ELSE "fault_output"
RecordKindOf(outcome) == CASE outcome = "success"             -> "operator_result"
                           [] outcome = "blocked_output"      -> "runner_refusal"
                           [] outcome = "sop_first_interrupt" -> "sop_first_interrupt"
                           [] outcome = "fault_output"        -> "fault_record"

\* An OperatorRunResult with its single record.  invocation and executed are
\* not in the code: they say which call the result is of, and what it did.
Result(trace, outcome, primary, output) ==
    [invocation           |-> invocation,
     executed             |-> executed,
     outcome_kind         |-> outcome,
     record_kind          |-> RecordKindOf(outcome),
     operator_trace       |-> trace,
     issue_set            |-> issues,
     primary_issue        |-> primary,
     output_record_kind   |-> output,
     generated_output_ref_set |-> generated]

-----------------------------------------------------------------------------
(* Actions.                                                                *)

Init == /\ pc = "idle"
        /\ invocation = Idle
        /\ issues = <<>>
        /\ executed = FALSE
        /\ generated = {}
        /\ results = <<>>

Submit(inv) == /\ pc = "idle"
               /\ Len(results) < MaxRuns
               /\ pc' = "resolve"
               /\ invocation' = inv
               /\ issues' = <<>>
               /\ executed' = FALSE
               /\ generated' = {}
               /\ UNCHANGED results

\* _resolve_request.
ResolveRequest == /\ pc = "resolve"
                  /\ issues' = ShapeIssues(invocation)
                  /\ pc' = IF issues' = <<>> THEN "validate" ELSE "refuse"
                  /\ UNCHANGED <<invocation, executed, generated, results>>

ValidateRequest ==
    /\ pc = "validate"
    /\ issues' = ValidateOperatorRequest(invocation.request, Contract, AcceptedScope)
    /\ pc' = IF issues' = <<>> THEN "call" ELSE "refuse"
    /\ UNCHANGED <<invocation, executed, generated, results>>

\* The operator function returns a payload, with some generated outputs.
OperatorReturns == /\ pc = "call"
                   /\ invocation.has_function
                   /\ executed' = TRUE
                   /\ generated' \in SUBSET Refs
                   /\ pc' = "succeed"
                   /\ UNCHANGED <<invocation, issues, results>>

\* Without an operator function the payload is empty.
NoOperator == /\ pc = "call"
              /\ ~ invocation.has_function
              /\ pc' = "succeed"
              /\ UNCHANGED <<invocation, issues, executed, generated, results>>

OperatorRaises == /\ pc = "call"
                  /\ invocation.has_function
                  /\ executed' = TRUE
                  /\ issues' = OperatorRaised
                  /\ pc' = "refuse"
                  /\ UNCHANGED <<invocation, generated, results>>

Return(result) == /\ results' = Append(results, result)
                  /\ pc' = "idle"
                  /\ invocation' = Idle
                  /\ issues' = <<>>
                  /\ executed' = FALSE
                  /\ generated' = {}

\* The trace is built before _blocked_or_fault_result decides on the record.
ReturnRefusal ==
    /\ pc = "refuse"
    /\ LET outcome == OutcomeFromValidation(issues)
       IN  Return(Result(Trace(outcome), RefusedOutcome(outcome),
                         PrimaryIssue(issues, outcome), NoRef))

ReturnSuccess == /\ pc = "succeed"
                 /\ Return(Result(Trace("success"), "success", NoIssue, SuccessOutputKind))

Next == \/ \E inv \in Invocations : Submit(inv)
        \/ ResolveRequest \/ ValidateRequest
        \/ OperatorReturns \/ NoOperator \/ OperatorRaises
        \/ ReturnRefusal \/ ReturnSuccess

Spec == Init /\ [][Next]_vars

-----------------------------------------------------------------------------
(* What the runner promises.                                               *)

MaybeIssue == ContractIssue \cup {NoIssue}

TraceIds == [operator_contract_id: {Contract.operator_id},
             operator_contract_version: {Contract.operator_version},
             operator_request_ref: RequestIds \cup {InvalidRequestId},
             source_ref_set: UNION {[S -> {1, 2}] : S \in SUBSET Refs}]

OperatorTrace == [trace_id: TraceIds, outcome_kind: OutcomeKinds,
                  refusal_reason: MaybeIssue, fault_code: IssueKinds \cup {"none"}]

RunResult == [invocation: Invocation, executed: BOOLEAN, outcome_kind: OutcomeKinds,
              record_kind: {"operator_result", "runner_refusal", "sop_first_interrupt",
                            "fault_record"},
              operator_trace: OperatorTrace, issue_set: Seq(ContractIssue),
              primary_issue: MaybeIssue, output_record_kind: OutputKinds \cup {NoRef},
              generated_output_ref_set: SUBSET Refs]

\* Types of the call's variables and of the results.
TypeOK == /\ pc \in {"idle", "resolve", "validate", "call", "refuse", "succeed"}
          /\ IF pc = "idle" THEN invocation = Idle ELSE invocation \in Invocation
          /\ issues \in Seq(ContractIssue)
          /\ executed \in BOOLEAN
          /\ generated \in SUBSET Refs
          /\ results \in Seq(RunResult)

Returned == {results[n] : n \in 1 .. Len(results)}

\* A request that the contract lets the runner execute.
Executable(request) ==
    /\ request.requested_operator_id = Contract.operator_id
    /\ request.requested_operator_version = Contract.operator_version
    /\ request.refusal_allowed
    /\ request.expected_output_kind_set \subseteq Contract.output_record_kind_set
    /\ request.authority_basis_state = "current"
    /\ ~ request.generated_projection_presented_as_authority
    /\ request.input_identity_state = "resolved"
    /\ request.requested_scope = AcceptedScope
    /\ request.unsafe_operation_set \cap UnsafeOperationMarkers = {}

WellFormed(inv) == inv.form = "record" \/ (inv.missing = {} /\ ~ inv.malformed)

\* The operator function runs for well-formed requests that satisfy every
\* check of the contract, and success is reported for no other.
ExecutesOnlyAcceptedRequests ==
    /\ executed => WellFormed(invocation) /\ Executable(invocation.request)
    /\ \A r \in Returned : r.executed \/ r.outcome_kind = "success" =>
         WellFormed(r.invocation) /\ Executable(r.invocation.request)

\* What makes a request unsafe, and not only unsupported.
Faulty(inv) ==
    \/ ~ WellFormed(inv)
    \/ inv.request.requested_operator_id # Contract.operator_id
    \/ ~ inv.request.refusal_allowed
    \/ ~ inv.request.expected_output_kind_set \subseteq Contract.output_record_kind_set
    \/ inv.request.generated_projection_presented_as_authority
    \/ inv.request.unsafe_operation_set \cap UnsafeOperationMarkers # {}

\* A faulty request ends in a fault record, whatever milder issues were found
\* before or after the fault: a fault is never downgraded to a refusal.
FaultsAreNeverDowngraded ==
    \A r \in Returned : Faulty(r.invocation) => /\ r.outcome_kind = "fault_output"
                                               /\ r.record_kind = "fault_record"

\* A result, its record and its trace tell the same story: the trace has the
\* outcome of the result; success comes without issues, and anything else
\* with a primary issue of the severity that decided the outcome, the one
\* that the trace of a fault names as its code.
RecordExplainsOutcome ==
    \A r \in Returned :
      /\ r.operator_trace.outcome_kind = r.outcome_kind
      /\ IF r.outcome_kind = "success"
         THEN r.issue_set = <<>>
         ELSE /\ \E i \in 1 .. Len(r.issue_set) : r.issue_set[i] = r.primary_issue
              /\ r.primary_issue.severity = SeverityOf(r.outcome_kind)
      /\ r.operator_trace.fault_code =
           IF r.outcome_kind = "fault_output" THEN r.primary_issue.issue_kind ELSE "none"

\* The abstract view of a call that the runtime graph relies on: one of the
\* outcomes that its arguments allow (RunOutcomes).
OutcomeAsPromised ==
    \A r \in Returned : r.outcome_kind \in RunOutcomes(r.invocation, Contract, AcceptedScope)

=============================================================================
