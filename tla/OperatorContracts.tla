--------------------------- MODULE OperatorContracts ---------------------------
(***************************************************************************)
(* Operator requests and contracts, and the pure functions over them:      *)
(* request_from_mapping and validate_operator_request of                   *)
(* operators/contracts.py, and the classification of their issues by       *)
(* operators/runner.py and operators/traces.py.                            *)
(*                                                                         *)
(* Identifiers, versions, scopes and operations are abstracted to what the *)
(* functions compare; a reference set is a set, without repetitions.       *)
(***************************************************************************)
EXTENDS Naturals, Sequences

CONSTANTS Refs,       \* references to records
          RequestIds  \* values of request_id

NoRef == "none"
InvalidRequestId == "invalid_operator_request"

OutputKinds == {"operator_result", "operator_trace", "work_packet", "unknown_kind"}

OperatorContract ==
    [operator_id: {"runner", "other"}, operator_version: {"v1", "v2"},
     output_record_kind_set: SUBSET OutputKinds, authority_basis_ref_set: SUBSET Refs]

\* "network_control" stands for the members of UNSAFE_OPERATION_MARKERS, and
\* "read" for the operations that are not.
UnsafeOperationMarkers == {"network_control"}

Request ==
    [request_id: RequestIds,
     requested_operator_id: {"runner", "other"}, requested_operator_version: {"v1", "v2"},
     input_ref_set: SUBSET Refs, authority_basis_ref_set: SUBSET Refs,
     expected_output_kind_set: SUBSET OutputKinds, refusal_allowed: BOOLEAN,
     authority_basis_state: {"current", "stale"},
     generated_projection_presented_as_authority: BOOLEAN,
     input_identity_state: {"resolved", "ambiguous"},
     requested_scope: {"accepted_activation_boundary", "other_scope"},
     unsafe_operation_set: SUBSET {"network_control", "read"}]

\* The fields whose absence the functions tell apart; "other_field" stands for
\* the other ones of REQUIRED_REQUEST_FIELDS.
RequiredFieldSet == {"request_id", "other_field", "requested_operator_version",
                     "input_ref_set", "authority_basis_ref_set"}

\* What a caller passes to run_contract_operator: an OperatorRequest, or a
\* mapping that may lack fields or hold values of a wrong type, and perhaps
\* the sources to cite.
NoSources == {NoRef}
Invocation ==
    [form: {"record", "mapping"}, missing: SUBSET RequiredFieldSet, malformed: BOOLEAN,
     request: Request, source_ref_set: ((SUBSET Refs) \ {{}}) \cup {NoSources},
     has_function: BOOLEAN]

-----------------------------------------------------------------------------
(* Issues.                                                                 *)

IssueKinds == {"missing_field", "invalid_field", "stale_authority", "undeclared_output",
               "unsafe_operation", "generated_authority", "unsupported_scope",
               "ambiguous_identity"}
Severities == {"blocked", "fault", "interrupt"}
IssueFields == RequiredFieldSet \cup
    {"requested_operator_id", "refusal_allowed", "expected_output_kind_set",
     "authority_basis_state", "input_identity_state", "requested_scope",
     "unsafe_operation_set", "operator_function", NoRef}
ContractIssue == [issue_kind: IssueKinds, severity: Severities, field_name: IssueFields]

Issue(kind, severity, field) ==
    [issue_kind |-> kind, severity |-> severity, field_name |-> field]
Raise(condition, issue) == IF condition THEN <<issue>> ELSE <<>>

MissingField(invocation, field) ==
    Raise(field \in invocation.missing, Issue("missing_field", "fault", field))

\* request_from_mapping: one fault per missing field, else one for a value
\* that cannot be converted.
ShapeIssues(invocation) ==
    IF invocation.form = "record" THEN <<>>
    ELSE IF invocation.missing = {}
    THEN Raise(invocation.malformed, Issue("invalid_field", "fault", NoRef))
    ELSE MissingField(invocation, "request_id")
      \o MissingField(invocation, "other_field")
      \o MissingField(invocation, "requested_operator_version")
      \o MissingField(invocation, "input_ref_set")
      \o MissingField(invocation, "authority_basis_ref_set")

\* Mutant: only a request for nothing but unsafe operations is unsafe.
IsUnsafeAltogether(request) ==
    request.unsafe_operation_set # {} /\ request.unsafe_operation_set \subseteq UnsafeOperationMarkers
IsUnsafe(request) == request.unsafe_operation_set \cap UnsafeOperationMarkers # {}

\* validate_operator_request.
ValidateOperatorRequest(request, contract, accepted_scope) ==
       Raise(request.requested_operator_id # contract.operator_id,
             Issue("invalid_field", "fault", "requested_operator_id"))
    \o Raise(request.requested_operator_version # contract.operator_version,
             Issue("missing_field", "blocked", "requested_operator_version"))
    \o Raise(~ request.refusal_allowed,
             Issue("invalid_field", "fault", "refusal_allowed"))
    \o Raise(request.expected_output_kind_set \ contract.output_record_kind_set # {},
             Issue("undeclared_output", "fault", "expected_output_kind_set"))
    \o Raise(request.authority_basis_state # "current",
             Issue("stale_authority", "blocked", "authority_basis_state"))
    \o Raise(request.generated_projection_presented_as_authority,
             Issue("generated_authority", "fault", "authority_basis_ref_set"))
    \o Raise(request.input_identity_state = "ambiguous",
             Issue("ambiguous_identity", "interrupt", "input_identity_state"))
    \o Raise(request.requested_scope # accepted_scope,
             Issue("unsupported_scope", "blocked", "requested_scope"))
    \o Raise(IsUnsafe(request), Issue("unsafe_operation", "fault", "unsafe_operation_set"))

\* The issue of a call to operator_function that raises.
OperatorRaised == <<Issue("invalid_field", "fault", "operator_function")>>

-----------------------------------------------------------------------------
(* Classification.                                                         *)

OutcomeKinds == {"success", "blocked_output", "fault_output", "sop_first_interrupt"}

HasSeverity(issues, severity) == \E i \in 1 .. Len(issues) : issues[i].severity = severity

\* _outcome_from_validation.
\* Mutant: an interrupt takes precedence over a fault.
InterruptFirst(issues) ==
    IF HasSeverity(issues, "interrupt") THEN "sop_first_interrupt"
    ELSE IF HasSeverity(issues, "fault") THEN "fault_output"
    ELSE IF HasSeverity(issues, "blocked") THEN "blocked_output"
    ELSE "success"
OutcomeFromValidation(issues) ==
    IF HasSeverity(issues, "fault") THEN "fault_output"
    ELSE IF HasSeverity(issues, "interrupt") THEN "sop_first_interrupt"
    ELSE IF HasSeverity(issues, "blocked") THEN "blocked_output"
    ELSE "success"

SeverityOf(outcome) == CASE outcome = "fault_output"        -> "fault"
                         [] outcome = "sop_first_interrupt" -> "interrupt"
                         [] outcome = "blocked_output"      -> "blocked"

\* i is the first issue whose severity is one of those given.
IsFirst(i, issues, severities) ==
    /\ i \in 1 .. Len(issues)
    /\ issues[i].severity \in severities
    /\ \A j \in 1 .. i - 1 : issues[j].severity \notin severities
First(issues, severities) == issues[CHOOSE i \in 1 .. Len(issues) : IsFirst(i, issues, severities)]

\* _primary_issue_for_outcome.
\* Mutant: the first issue, whatever its severity.
FirstIssue(issues, outcome) == issues[1]
PrimaryIssue(issues, outcome) == First(issues, {SeverityOf(outcome)})

\* The outcomes that run_contract_operator may have for an invocation: those
\* of its issues, or, when it has none, of the operator function.
RunOutcomes(invocation, contract, accepted_scope) ==
    LET shape  == ShapeIssues(invocation)
        issues == IF shape # <<>> THEN shape
                  ELSE ValidateOperatorRequest(invocation.request, contract, accepted_scope)
    IN  IF issues # <<>> THEN {OutcomeFromValidation(issues)}
        ELSE IF invocation.has_function THEN {"success", "fault_output"}
        ELSE {"success"}
=============================================================================
