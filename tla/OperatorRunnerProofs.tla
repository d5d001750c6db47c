------------------------- MODULE OperatorRunnerProofs -------------------------
(***************************************************************************)
(* Theorems about OperatorRunner, for every contract, every set of         *)
(* invocations and any number of calls.                                    *)
(***************************************************************************)
EXTENDS OperatorRunner, TLAPS, WellFoundedInduction

-----------------------------------------------------------------------------
(* Lists of issues.                                                        *)

\* A raised issue makes a list of issues, empty unless the condition holds.
LEMMA RaiseFacts ==
    ASSUME NEW b \in BOOLEAN, NEW issue \in ContractIssue
    PROVE  /\ Raise(b, issue) \in Seq(ContractIssue)
           /\ Raise(b, issue) = <<>> <=> ~ b
           /\ \A s \in Severities : HasSeverity(Raise(b, issue), s) <=> b /\ issue.severity = s
<1>1. CASE b
  <2>1. Raise(b, issue) = <<issue>>
    BY <1>1 DEF Raise
  <2>2. /\ <<issue>> \in Seq(ContractIssue) /\ <<issue>> # <<>>
        /\ Len(<<issue>>) = 1 /\ <<issue>>[1] = issue
    OBVIOUS
  <2>3. \A s \in Severities : HasSeverity(<<issue>>, s) <=> issue.severity = s
    BY <2>2 DEF HasSeverity
  <2> QED
    BY <1>1, <2>1, <2>2, <2>3
<1>2. CASE ~ b
  <2>1. Raise(b, issue) = <<>>
    BY <1>2 DEF Raise
  <2> QED
    BY <1>2, <2>1 DEF HasSeverity
<1> QED
  BY <1>1, <1>2

\* Lists of issues are concatenated: nothing is lost and nothing is added.
LEMMA ConcatFacts ==
    ASSUME NEW s \in Seq(ContractIssue), NEW t \in Seq(ContractIssue)
    PROVE  /\ s \o t \in Seq(ContractIssue)
           /\ s \o t = <<>> <=> s = <<>> /\ t = <<>>
           /\ \A v \in Severities :
                HasSeverity(s \o t, v) <=> HasSeverity(s, v) \/ HasSeverity(t, v)
<1>1. /\ s \o t \in Seq(ContractIssue)
      /\ Len(s \o t) = Len(s) + Len(t)
      /\ \A i \in 1 .. Len(s) : (s \o t)[i] = s[i]
      /\ \A i \in 1 .. Len(t) : (s \o t)[Len(s) + i] = t[i]
  OBVIOUS
<1>2. s \o t = <<>> <=> s = <<>> /\ t = <<>>
  BY <1>1
<1>3. ASSUME NEW v \in Severities
      PROVE  HasSeverity(s \o t, v) <=> HasSeverity(s, v) \/ HasSeverity(t, v)
  <2>1. ASSUME NEW i \in 1 .. Len(s \o t), (s \o t)[i].severity = v
        PROVE  HasSeverity(s, v) \/ HasSeverity(t, v)
    <3>1. CASE i <= Len(s)
      BY <1>1, <2>1, <3>1 DEF HasSeverity
    <3>2. CASE i > Len(s)
      <4>1. i - Len(s) \in 1 .. Len(t) /\ i = Len(s) + (i - Len(s))
        BY <1>1, <3>2
      <4> QED
        BY <1>1, <2>1, <4>1 DEF HasSeverity
    <3> QED
      BY <3>1, <3>2
  <2>2. ASSUME NEW i \in 1 .. Len(s), s[i].severity = v
        PROVE  HasSeverity(s \o t, v)
    BY <1>1, <2>2 DEF HasSeverity
  <2>3. ASSUME NEW i \in 1 .. Len(t), t[i].severity = v
        PROVE  HasSeverity(s \o t, v)
    <3>1. Len(s) + i \in 1 .. Len(s \o t) /\ (s \o t)[Len(s) + i].severity = v
      BY <1>1, <2>3
    <3> QED
      BY <3>1 DEF HasSeverity
  <2> QED
    BY <2>1, <2>2, <2>3 DEF HasSeverity
<1> QED
  BY <1>1, <1>2, <1>3

\* The issues of one check: as RaiseFacts, for each severity by name.
LEMMA FaultRaise ==
    ASSUME NEW b \in BOOLEAN, NEW issue \in ContractIssue, issue.severity = "fault"
    PROVE  LET r == Raise(b, issue)
           IN  /\ r \in Seq(ContractIssue)
               /\ r = <<>> <=> ~ b
               /\ HasSeverity(r, "fault") <=> b
               /\ ~ HasSeverity(r, "interrupt") /\ ~ HasSeverity(r, "blocked")
BY RaiseFacts DEF Severities

\* One check that is no fault, of a condition b.
LEMMA MilderRaise ==
    ASSUME NEW b \in BOOLEAN, NEW issue \in ContractIssue,
           issue.severity \in {"blocked", "interrupt"}
    PROVE  LET r == Raise(b, issue)
           IN  /\ r \in Seq(ContractIssue)
               /\ r = <<>> <=> ~ b
               /\ ~ HasSeverity(r, "fault")
BY RaiseFacts DEF Severities

\* One more check of validate_operator_request: its issue joins those found.
LEMMA NextCheck ==
    ASSUME NEW s \in Seq(ContractIssue), NEW b \in BOOLEAN, NEW issue \in ContractIssue
    PROVE  LET t == s \o Raise(b, issue)
           IN  /\ t \in Seq(ContractIssue)
               /\ t = <<>> <=> s = <<>> /\ ~ b
               /\ HasSeverity(t, "fault") <=>
                    HasSeverity(s, "fault") \/ (b /\ issue.severity = "fault")
<1> DEFINE r == Raise(b, issue)
<1>1. /\ r \in Seq(ContractIssue)
      /\ r = <<>> <=> ~ b
      /\ HasSeverity(r, "fault") <=> b /\ issue.severity = "fault"
  BY RaiseFacts DEF Severities
<1> HIDE DEF r
<1>2. /\ s \o r \in Seq(ContractIssue)
      /\ s \o r = <<>> <=> s = <<>> /\ r = <<>>
      /\ HasSeverity(s \o r, "fault") <=> HasSeverity(s, "fault") \/ HasSeverity(r, "fault")
  BY <1>1, ConcatFacts DEF Severities
<1>3. s \o Raise(b, issue) = s \o r
  BY DEF r
<1> QED
  BY <1>1, <1>2, <1>3

\* request_from_mapping finds only faults, and finds one unless the request
\* can be resolved.
LEMMA ShapeFacts ==
    ASSUME NEW inv \in Invocation
    PROVE  LET shape == ShapeIssues(inv)
           IN  /\ shape \in Seq(ContractIssue)
               /\ shape = <<>> <=> WellFormed(inv)
               /\ shape # <<>> => HasSeverity(shape, "fault")
<1>1. CASE inv.form = "record"
  BY <1>1 DEF ShapeIssues, WellFormed
<1>2. CASE inv.form # "record" /\ inv.missing = {}
  <2>1. Issue("invalid_field", "fault", NoRef) \in ContractIssue
    BY DEF Issue, ContractIssue, IssueKinds, Severities, IssueFields
  <2>2. Issue("invalid_field", "fault", NoRef).severity = "fault"
    BY DEF Issue
  <2>3. inv.malformed \in BOOLEAN
    BY DEF Invocation
  <2>4. ShapeIssues(inv) = Raise(inv.malformed, Issue("invalid_field", "fault", NoRef))
    BY <1>2 DEF ShapeIssues
  <2> QED
    BY <1>2, <2>1, <2>2, <2>3, <2>4, FaultRaise DEF WellFormed
<1>3. CASE inv.form # "record" /\ inv.missing # {}
  <2> DEFINE m(f) == MissingField(inv, f)
             s2 == m("request_id") \o m("other_field")
             s3 == s2 \o m("requested_operator_version")
             s4 == s3 \o m("input_ref_set")
             s5 == s4 \o m("authority_basis_ref_set")
  <2>1. ASSUME NEW f \in RequiredFieldSet
        PROVE  /\ m(f) \in Seq(ContractIssue)
               /\ m(f) = <<>> <=> f \notin inv.missing
               /\ HasSeverity(m(f), "fault") <=> f \in inv.missing
    <3> DEFINE i == Issue("missing_field", "fault", f)
               b == f \in inv.missing
    <3>1. i \in ContractIssue /\ i.severity = "fault"
      BY DEF Issue, ContractIssue, IssueKinds, Severities, IssueFields
    <3>2. b \in BOOLEAN
      OBVIOUS
    <3>3. m(f) = Raise(b, i)
      BY DEF MissingField
    <3> HIDE DEF i, b, m
    <3>4. /\ m(f) \in Seq(ContractIssue)
          /\ m(f) = <<>> <=> ~ b
          /\ HasSeverity(m(f), "fault") <=> b
      BY <3>1, <3>2, <3>3, FaultRaise
    <3> QED
      BY <3>4 DEF b
  <2>2. ShapeIssues(inv) = s5
    BY <1>3 DEF ShapeIssues
  <2>3. PICK f \in RequiredFieldSet : f \in inv.missing
    BY <1>3 DEF Invocation
  <2> HIDE DEF m
  <2>4. /\ s2 \in Seq(ContractIssue)
        /\ HasSeverity(s2, "fault") <=> \/ HasSeverity(m("request_id"), "fault")
                                        \/ HasSeverity(m("other_field"), "fault")
    BY <2>1, ConcatFacts DEF RequiredFieldSet, Severities
  <2> HIDE DEF s2
  <2>5. /\ s3 \in Seq(ContractIssue)
        /\ HasSeverity(s3, "fault") <=> \/ HasSeverity(s2, "fault")
                                        \/ HasSeverity(m("requested_operator_version"), "fault")
    BY <2>1, <2>4, ConcatFacts DEF RequiredFieldSet, Severities
  <2> HIDE DEF s3
  <2>6. /\ s4 \in Seq(ContractIssue)
        /\ HasSeverity(s4, "fault") <=> \/ HasSeverity(s3, "fault")
                                        \/ HasSeverity(m("input_ref_set"), "fault")
    BY <2>1, <2>5, ConcatFacts DEF RequiredFieldSet, Severities
  <2> HIDE DEF s4
  <2>7. /\ s5 \in Seq(ContractIssue)
        /\ HasSeverity(s5, "fault") <=> \/ HasSeverity(s4, "fault")
                                        \/ HasSeverity(m("authority_basis_ref_set"), "fault")
    BY <2>1, <2>6, ConcatFacts DEF RequiredFieldSet, Severities
  <2> HIDE DEF s5
  <2>8. HasSeverity(s5, "fault")
    BY <2>1, <2>3, <2>4, <2>5, <2>6, <2>7 DEF RequiredFieldSet
  <2>9. s5 # <<>>
    BY <2>8 DEF HasSeverity
  <2>10. ~ WellFormed(inv)
    BY <1>3 DEF WellFormed
  <2> QED
    BY <2>2, <2>7, <2>8, <2>9, <2>10
<1> QED
  BY <1>1, <1>2, <1>3

\* What makes a resolved request faulty.
FaultyRequest(request) ==
    \/ request.requested_operator_id # Contract.operator_id
    \/ ~ request.refusal_allowed
    \/ ~ request.expected_output_kind_set \subseteq Contract.output_record_kind_set
    \/ request.generated_projection_presented_as_authority
    \/ request.unsafe_operation_set \cap UnsafeOperationMarkers # {}

\* validate_operator_request finds an issue unless the request may be executed,
\* and a fault exactly for a faulty request.
LEMMA ValidateFacts ==
    ASSUME NEW request \in Request
    PROVE  LET found == ValidateOperatorRequest(request, Contract, AcceptedScope)
           IN  /\ found \in Seq(ContractIssue)
               /\ found = <<>> <=> Executable(request)
               /\ HasSeverity(found, "fault") <=> FaultyRequest(request)
<1> DEFINE b1 == request.requested_operator_id # Contract.operator_id
           b2 == request.requested_operator_version # Contract.operator_version
           b3 == ~ request.refusal_allowed
           b4 == request.expected_output_kind_set \ Contract.output_record_kind_set # {}
           b5 == request.authority_basis_state # "current"
           b6 == request.generated_projection_presented_as_authority
           b7 == request.input_identity_state = "ambiguous"
           b8 == request.requested_scope # AcceptedScope
           b9 == IsUnsafe(request)
           i1 == Issue("invalid_field", "fault", "requested_operator_id")
           i2 == Issue("missing_field", "blocked", "requested_operator_version")
           i3 == Issue("invalid_field", "fault", "refusal_allowed")
           i4 == Issue("undeclared_output", "fault", "expected_output_kind_set")
           i5 == Issue("stale_authority", "blocked", "authority_basis_state")
           i6 == Issue("generated_authority", "fault", "authority_basis_ref_set")
           i7 == Issue("ambiguous_identity", "interrupt", "input_identity_state")
           i8 == Issue("unsupported_scope", "blocked", "requested_scope")
           i9 == Issue("unsafe_operation", "fault", "unsafe_operation_set")
           s1 == Raise(b1, i1)
           s2 == s1 \o Raise(b2, i2)
           s3 == s2 \o Raise(b3, i3)
           s4 == s3 \o Raise(b4, i4)
           s5 == s4 \o Raise(b5, i5)
           s6 == s5 \o Raise(b6, i6)
           s7 == s6 \o Raise(b7, i7)
           s8 == s7 \o Raise(b8, i8)
           s9 == s8 \o Raise(b9, i9)
<1>1. ValidateOperatorRequest(request, Contract, AcceptedScope) = s9
  BY DEF ValidateOperatorRequest
<1>2. /\ b1 \in BOOLEAN /\ b2 \in BOOLEAN /\ b3 \in BOOLEAN /\ b4 \in BOOLEAN
      /\ b5 \in BOOLEAN /\ b6 \in BOOLEAN /\ b7 \in BOOLEAN /\ b8 \in BOOLEAN
      /\ b9 \in BOOLEAN
  BY DEF Request, IsUnsafe
<1>3. Executable(request) <=> ~ (b1 \/ b2 \/ b3 \/ b4 \/ b5 \/ b6 \/ b7 \/ b8 \/ b9)
  BY DEF Executable, Request, IsUnsafe
<1>4. FaultyRequest(request) <=> b1 \/ b3 \/ b4 \/ b6 \/ b9
  BY DEF FaultyRequest, IsUnsafe
<1>11. i1 \in ContractIssue /\ i1.severity = "fault"
  BY DEF Issue, ContractIssue, IssueKinds, Severities, IssueFields, RequiredFieldSet
<1>12. i2 \in ContractIssue /\ i2.severity # "fault"
  BY DEF Issue, ContractIssue, IssueKinds, Severities, IssueFields, RequiredFieldSet
<1>13. i3 \in ContractIssue /\ i3.severity = "fault"
  BY DEF Issue, ContractIssue, IssueKinds, Severities, IssueFields, RequiredFieldSet
<1>14. i4 \in ContractIssue /\ i4.severity = "fault"
  BY DEF Issue, ContractIssue, IssueKinds, Severities, IssueFields, RequiredFieldSet
<1>15. i5 \in ContractIssue /\ i5.severity # "fault"
  BY DEF Issue, ContractIssue, IssueKinds, Severities, IssueFields, RequiredFieldSet
<1>16. i6 \in ContractIssue /\ i6.severity = "fault"
  BY DEF Issue, ContractIssue, IssueKinds, Severities, IssueFields, RequiredFieldSet
<1>17. i7 \in ContractIssue /\ i7.severity # "fault"
  BY DEF Issue, ContractIssue, IssueKinds, Severities, IssueFields, RequiredFieldSet
<1>18. i8 \in ContractIssue /\ i8.severity # "fault"
  BY DEF Issue, ContractIssue, IssueKinds, Severities, IssueFields, RequiredFieldSet
<1>19. i9 \in ContractIssue /\ i9.severity = "fault"
  BY DEF Issue, ContractIssue, IssueKinds, Severities, IssueFields, RequiredFieldSet
<1> HIDE DEF b1, b2, b3, b4, b5, b6, b7, b8, b9, i1, i2, i3, i4, i5, i6, i7, i8, i9
<1>21. s1 \in Seq(ContractIssue) /\ (s1 = <<>> <=> ~ b1)
       /\ (HasSeverity(s1, "fault") <=> b1)
  BY <1>2, <1>11, RaiseFacts DEF Severities
<1> HIDE DEF s1
<1>22. s2 \in Seq(ContractIssue) /\ (s2 = <<>> <=> s1 = <<>> /\ ~ b2)
       /\ (HasSeverity(s2, "fault") <=> HasSeverity(s1, "fault"))
  BY <1>2, <1>12, <1>21, NextCheck
<1> HIDE DEF s2
<1>23. s3 \in Seq(ContractIssue) /\ (s3 = <<>> <=> s2 = <<>> /\ ~ b3)
       /\ (HasSeverity(s3, "fault") <=> HasSeverity(s2, "fault") \/ b3)
  BY <1>2, <1>13, <1>22, NextCheck
<1> HIDE DEF s3
<1>24. s4 \in Seq(ContractIssue) /\ (s4 = <<>> <=> s3 = <<>> /\ ~ b4)
       /\ (HasSeverity(s4, "fault") <=> HasSeverity(s3, "fault") \/ b4)
  BY <1>2, <1>14, <1>23, NextCheck
<1> HIDE DEF s4
<1>25. s5 \in Seq(ContractIssue) /\ (s5 = <<>> <=> s4 = <<>> /\ ~ b5)
       /\ (HasSeverity(s5, "fault") <=> HasSeverity(s4, "fault"))
  BY <1>2, <1>15, <1>24, NextCheck
<1> HIDE DEF s5
<1>26. s6 \in Seq(ContractIssue) /\ (s6 = <<>> <=> s5 = <<>> /\ ~ b6)
       /\ (HasSeverity(s6, "fault") <=> HasSeverity(s5, "fault") \/ b6)
  BY <1>2, <1>16, <1>25, NextCheck
<1> HIDE DEF s6
<1>27. s7 \in Seq(ContractIssue) /\ (s7 = <<>> <=> s6 = <<>> /\ ~ b7)
       /\ (HasSeverity(s7, "fault") <=> HasSeverity(s6, "fault"))
  BY <1>2, <1>17, <1>26, NextCheck
<1> HIDE DEF s7
<1>28. s8 \in Seq(ContractIssue) /\ (s8 = <<>> <=> s7 = <<>> /\ ~ b8)
       /\ (HasSeverity(s8, "fault") <=> HasSeverity(s7, "fault"))
  BY <1>2, <1>18, <1>27, NextCheck
<1> HIDE DEF s8
<1>29. s9 \in Seq(ContractIssue) /\ (s9 = <<>> <=> s8 = <<>> /\ ~ b9)
       /\ (HasSeverity(s9, "fault") <=> HasSeverity(s8, "fault") \/ b9)
  BY <1>2, <1>19, <1>28, NextCheck
<1> HIDE DEF s9
<1>30. /\ s9 = <<>> <=> Executable(request)
       /\ HasSeverity(s9, "fault") <=> FaultyRequest(request)
  BY <1>3, <1>4, <1>21, <1>22, <1>23, <1>24, <1>25, <1>26, <1>27, <1>28, <1>29
<1> QED
  BY <1>1, <1>29, <1>30

-----------------------------------------------------------------------------
(* The first issue of a severity.                                          *)

\* A set of numbers that is not empty has a least member.
LEMMA LeastNumber ==
    ASSUME NEW T \in SUBSET Nat, T # {}
    PROVE  \E m \in T : \A k \in T : m <= k
<1>1. PICK x \in T : \A y \in T : ~ (<<y, x>> \in OpToRel(<, Nat))
  BY NatLessThanWellFounded, WFMin
<1>2. ASSUME NEW y \in T PROVE x <= y
  <2>1. <<y, x>> \in Nat \X Nat /\ <<y, x>>[1] = y /\ <<y, x>>[2] = x
    OBVIOUS
  <2>2. ~ (y < x)
    BY <1>1, <2>1 DEF OpToRel
  <2> QED
    BY <2>1, <2>2
<1> QED
  BY <1>2

\* First finds an issue of the list with one of the severities, if there is one.
LEMMA FirstFacts ==
    ASSUME NEW list \in Seq(ContractIssue), NEW severities,
           \E i \in 1 .. Len(list) : list[i].severity \in severities
    PROVE  /\ First(list, severities) \in ContractIssue
           /\ \E i \in 1 .. Len(list) : First(list, severities) = list[i]
           /\ First(list, severities).severity \in severities
<1> DEFINE T == {i \in 1 .. Len(list) : list[i].severity \in severities}
           chosen == CHOOSE i \in 1 .. Len(list) : IsFirst(i, list, severities)
<1>0. T \in SUBSET Nat /\ T # {}
  OBVIOUS
<1>1. PICK m \in T : \A k \in T : m <= k
  <2> HIDE DEF T
  <2> QED
    BY <1>0, LeastNumber
<1>2. IsFirst(m, list, severities)
  BY <1>1 DEF IsFirst
<1>3. chosen \in 1 .. Len(list) /\ IsFirst(chosen, list, severities)
  BY <1>1, <1>2
<1>4. First(list, severities) = list[chosen]
  BY DEF First
<1> HIDE DEF chosen, T
<1>5. list[chosen] \in ContractIssue /\ list[chosen].severity \in severities
  BY <1>3 DEF IsFirst
<1> QED
  BY <1>3, <1>4, <1>5

\* The outcome of a list of issues, the primary issue of that outcome, and what
\* _blocked_or_fault_result makes of it.
LEMMA OutcomeFacts ==
    ASSUME NEW list \in Seq(ContractIssue), list # <<>>
    PROVE  LET outcome == OutcomeFromValidation(list)
           IN  /\ outcome \in OutcomeKinds \ {"success"}
               /\ RefusedOutcome(outcome) = outcome
               /\ HasSeverity(list, "fault") <=> outcome = "fault_output"
               /\ PrimaryIssue(list, outcome) \in ContractIssue
               /\ \E i \in 1 .. Len(list) : list[i] = PrimaryIssue(list, outcome)
               /\ PrimaryIssue(list, outcome).severity = SeverityOf(outcome)
<1> DEFINE outcome == OutcomeFromValidation(list)
<1>1. 1 \in 1 .. Len(list) /\ list[1] \in ContractIssue
  OBVIOUS
<1>2. HasSeverity(list, "fault") \/ HasSeverity(list, "interrupt") \/ HasSeverity(list, "blocked")
  BY <1>1 DEF HasSeverity, ContractIssue, Severities
<1>3. /\ outcome \in OutcomeKinds \ {"success"}
      /\ HasSeverity(list, "fault") <=> outcome = "fault_output"
      /\ HasSeverity(list, SeverityOf(outcome))
  BY <1>2 DEF OutcomeFromValidation, OutcomeKinds, SeverityOf
<1> HIDE DEF outcome
<1>4. \E i \in 1 .. Len(list) : list[i].severity \in {SeverityOf(outcome)}
  BY <1>3 DEF HasSeverity
<1>5. /\ PrimaryIssue(list, outcome) \in ContractIssue
      /\ \E i \in 1 .. Len(list) : list[i] = PrimaryIssue(list, outcome)
      /\ PrimaryIssue(list, outcome).severity = SeverityOf(outcome)
  BY <1>4, FirstFacts DEF PrimaryIssue
<1>6. RefusedOutcome(outcome) = outcome
  BY <1>3 DEF RefusedOutcome, OutcomeKinds
<1> QED
  BY <1>3, <1>5, <1>6 DEF outcome

-----------------------------------------------------------------------------
(* What a call finds before it executes anything.                          *)

\* The issues of the shape of an invocation, or else those of its validation.
FoundIssues(inv) ==
    IF ShapeIssues(inv) # <<>> THEN ShapeIssues(inv)
    ELSE ValidateOperatorRequest(inv.request, Contract, AcceptedScope)

\* A call finds nothing exactly in a request that it may execute, and a fault
\* exactly in a faulty one.
LEMMA FoundFacts ==
    ASSUME NEW inv \in Invocation
    PROVE  /\ FoundIssues(inv) \in Seq(ContractIssue)
           /\ FoundIssues(inv) = <<>> <=> WellFormed(inv) /\ Executable(inv.request)
           /\ HasSeverity(FoundIssues(inv), "fault") <=> Faulty(inv)
<1> DEFINE shape == ShapeIssues(inv)
           found == ValidateOperatorRequest(inv.request, Contract, AcceptedScope)
<1>1. inv.request \in Request
  BY DEF Invocation
<1>2. /\ shape \in Seq(ContractIssue)
      /\ shape = <<>> <=> WellFormed(inv)
      /\ shape # <<>> => HasSeverity(shape, "fault")
  BY ShapeFacts
<1>3. /\ found \in Seq(ContractIssue)
      /\ found = <<>> <=> Executable(inv.request)
      /\ HasSeverity(found, "fault") <=> FaultyRequest(inv.request)
  BY <1>1, ValidateFacts
<1>4. Faulty(inv) <=> ~ WellFormed(inv) \/ FaultyRequest(inv.request)
  BY DEF Faulty, FaultyRequest
<1>5. FoundIssues(inv) = IF shape # <<>> THEN shape ELSE found
  BY DEF FoundIssues
<1> HIDE DEF shape, found
<1> QED
  BY <1>2, <1>3, <1>4, <1>5

\* The issue of an operator function that raised.
LEMMA RaisedFacts ==
    /\ OperatorRaised \in Seq(ContractIssue)
    /\ OperatorRaised # <<>>
    /\ HasSeverity(OperatorRaised, "fault")
<1> DEFINE issue == Issue("invalid_field", "fault", "operator_function")
<1>1. issue \in ContractIssue /\ issue.severity = "fault"
  BY DEF Issue, ContractIssue, IssueKinds, Severities, IssueFields
<1>2. OperatorRaised = <<issue>>
  BY DEF OperatorRaised
<1> HIDE DEF issue
<1>3. Len(<<issue>>) = 1 /\ <<issue>>[1] = issue
  OBVIOUS
<1> QED
  BY <1>1, <1>2, <1>3 DEF HasSeverity

-----------------------------------------------------------------------------
(* The state of a call, and of its results.                                *)

\* The types of the variables of a call.
CallTypes ==
    /\ pc \in {"idle", "resolve", "validate", "call", "refuse", "succeed"}
    /\ IF pc = "idle" THEN invocation = Idle ELSE invocation \in Invocation
    /\ issues \in Seq(ContractIssue)
    /\ executed \in BOOLEAN
    /\ generated \in SUBSET Refs

\* Where a call is says what it has found and done.
CallFacts ==
    /\ pc # "refuse" => issues = <<>>
    /\ pc \in {"idle", "resolve", "validate", "call"} => executed = FALSE
    /\ pc = "validate" => ShapeIssues(invocation) = <<>>
    /\ pc \in {"call", "succeed"} => FoundIssues(invocation) = <<>>
    /\ pc = "refuse" =>
         \/ /\ executed = FALSE
            /\ issues = FoundIssues(invocation)
            /\ issues # <<>>
         \/ /\ FoundIssues(invocation) = <<>>
            /\ invocation.has_function
            /\ issues = OperatorRaised

\* What the four properties say of one result.
SoundResult(r) ==
    /\ r.executed \/ r.outcome_kind = "success" =>
         WellFormed(r.invocation) /\ Executable(r.invocation.request)
    /\ Faulty(r.invocation) => /\ r.outcome_kind = "fault_output"
                               /\ r.record_kind = "fault_record"
    /\ r.operator_trace.outcome_kind = r.outcome_kind
    /\ IF r.outcome_kind = "success"
       THEN r.issue_set = <<>>
       ELSE /\ \E i \in 1 .. Len(r.issue_set) : r.issue_set[i] = r.primary_issue
            /\ r.primary_issue.severity = SeverityOf(r.outcome_kind)
    /\ r.operator_trace.fault_code =
         IF r.outcome_kind = "fault_output" THEN r.primary_issue.issue_kind ELSE "none"
    /\ r.outcome_kind \in RunOutcomes(r.invocation, Contract, AcceptedScope)

\* Every result that was returned is sound.
ResultsState == /\ results \in Seq(RunResult)
                /\ \A n \in 1 .. Len(results) : SoundResult(results[n])

\* The inductive invariant.
RunnerInv == CallTypes /\ CallFacts /\ ResultsState

\* The invariant holds initially.
LEMMA RunnerInit == Init => RunnerInv
<1> SUFFICES ASSUME Init PROVE RunnerInv
  OBVIOUS
<1>1. /\ pc = "idle" /\ invocation = Idle /\ issues = <<>>
      /\ executed = FALSE /\ generated = {} /\ results = <<>>
  BY DEF Init
<1>2. issues \in Seq(ContractIssue) /\ generated \in SUBSET Refs
  BY <1>1
<1>3. executed \in BOOLEAN
  BY <1>1
<1>4. CallTypes
  BY <1>1, <1>2, <1>3 DEF CallTypes
<1>5. CallFacts
  BY <1>1 DEF CallFacts
<1>6. ResultsState
  BY <1>1 DEF ResultsState
<1> QED
  BY <1>4, <1>5, <1>6 DEF RunnerInv

-----------------------------------------------------------------------------
(* The steps of a call.                                                    *)

\* A caller submits an invocation.
LEMMA SubmitStep == ASSUME RunnerInv, NEW inv \in Invocations, Submit(inv) PROVE RunnerInv'
<1>1. inv \in Invocation
  BY InvocationsAssumption
<1>2. CallTypes'
  <2>1. issues' \in Seq(ContractIssue) /\ generated' \in SUBSET Refs
    BY DEF Submit
  <2>2. executed' \in BOOLEAN
    BY DEF Submit
  <2>3. pc' = "resolve" /\ invocation' = inv
    BY DEF Submit
  <2> QED
    BY <1>1, <2>1, <2>2, <2>3 DEF CallTypes
<1>3. CallFacts'
  BY DEF CallFacts, Submit
<1>4. ResultsState'
  BY DEF RunnerInv, ResultsState, Submit
<1> QED
  BY <1>2, <1>3, <1>4 DEF RunnerInv

\* _resolve_request: the issues of the shape are those that are found.
LEMMA ResolveStep == ASSUME RunnerInv, ResolveRequest PROVE RunnerInv'
<1> DEFINE shape == ShapeIssues(invocation)
<1>1. /\ pc = "resolve" /\ issues' = shape
      /\ pc' = (IF shape = <<>> THEN "validate" ELSE "refuse")
      /\ invocation' = invocation /\ generated' = generated /\ results' = results
  BY DEF ResolveRequest
<1>2. executed' = FALSE
  BY <1>1 DEF ResolveRequest, RunnerInv, CallFacts
<1>3. invocation \in Invocation
  BY <1>1 DEF RunnerInv, CallTypes
<1>4. shape \in Seq(ContractIssue)
  BY <1>3, ShapeFacts
<1>5. shape # <<>> => FoundIssues(invocation) = shape
  BY DEF FoundIssues
<1>6. ShapeIssues(invocation) = shape
  OBVIOUS
<1> HIDE DEF shape
<1>7. CallTypes'
  <2>1. executed' \in BOOLEAN
    BY <1>2
  <2>2. generated' \in SUBSET Refs
    BY <1>1 DEF RunnerInv, CallTypes
  <2> QED
    BY <1>1, <1>3, <1>4, <2>1, <2>2 DEF CallTypes
<1>8. CallFacts'
  BY <1>1, <1>2, <1>5, <1>6 DEF CallFacts
<1>9. ResultsState'
  BY <1>1 DEF RunnerInv, ResultsState
<1> QED
  BY <1>7, <1>8, <1>9 DEF RunnerInv

\* validate_operator_request: the shape had no issue, so that its issues are
\* those that are found.
LEMMA ValidateStep == ASSUME RunnerInv, ValidateRequest PROVE RunnerInv'
<1> DEFINE found == ValidateOperatorRequest(invocation.request, Contract, AcceptedScope)
<1>1. /\ pc = "validate" /\ issues' = found
      /\ pc' = (IF found = <<>> THEN "call" ELSE "refuse")
      /\ invocation' = invocation /\ generated' = generated /\ results' = results
  BY DEF ValidateRequest
<1>2. executed' = FALSE
  BY <1>1 DEF ValidateRequest, RunnerInv, CallFacts
<1>3. invocation \in Invocation /\ ShapeIssues(invocation) = <<>>
  BY <1>1 DEF RunnerInv, CallTypes, CallFacts
<1>4. FoundIssues(invocation) = found
  BY <1>3 DEF FoundIssues
<1>5. found \in Seq(ContractIssue)
  BY <1>3, <1>4, FoundFacts
<1> HIDE DEF found
<1>6. CallTypes'
  <2>1. executed' \in BOOLEAN
    BY <1>2
  <2>2. generated' \in SUBSET Refs
    BY <1>1 DEF RunnerInv, CallTypes
  <2> QED
    BY <1>1, <1>3, <1>5, <2>1, <2>2 DEF CallTypes
<1>7. CallFacts'
  BY <1>1, <1>2, <1>4 DEF CallFacts
<1>8. ResultsState'
  BY <1>1 DEF RunnerInv, ResultsState
<1> QED
  BY <1>6, <1>7, <1>8 DEF RunnerInv

\* The operator function returns, raises, or there is none.
LEMMA CallStep ==
    ASSUME RunnerInv, OperatorReturns \/ NoOperator \/ OperatorRaises
    PROVE  RunnerInv'
<1>1. /\ pc = "call" /\ invocation' = invocation /\ results' = results
      /\ generated' = generated \/ generated' \in SUBSET Refs
  BY DEF OperatorReturns, NoOperator, OperatorRaises
<1>2. /\ invocation \in Invocation /\ FoundIssues(invocation) = <<>> /\ issues = <<>>
      /\ generated \in SUBSET Refs
  BY <1>1 DEF RunnerInv, CallTypes, CallFacts
<1>3. executed' \in BOOLEAN
  BY DEF OperatorReturns, NoOperator, OperatorRaises, RunnerInv, CallTypes
<1>4. \/ pc' = "succeed" /\ issues' = <<>>
      \/ pc' = "refuse" /\ issues' = OperatorRaised /\ invocation.has_function
  BY <1>2 DEF OperatorReturns, NoOperator, OperatorRaises
<1>5. issues' \in Seq(ContractIssue)
  <2>1. CASE issues' = <<>>
    BY <2>1
  <2>2. CASE issues' = OperatorRaised
    BY <2>2, RaisedFacts
  <2> QED
    BY <1>4, <2>1, <2>2
<1>6. CallTypes'
  BY <1>1, <1>2, <1>3, <1>4, <1>5 DEF CallTypes
<1>7. CallFacts'
  BY <1>1, <1>2, <1>4 DEF CallFacts
<1>8. ResultsState'
  BY <1>1 DEF RunnerInv, ResultsState
<1> QED
  BY <1>6, <1>7, <1>8 DEF RunnerInv

\* A sound result joins the results, and no call is running.
LEMMA ReturnStep ==
    ASSUME RunnerInv, NEW r \in RunResult, SoundResult(r), Return(r)
    PROVE  RunnerInv'
<1>1. /\ pc' = "idle" /\ invocation' = Idle /\ issues' = <<>> /\ executed' = FALSE
      /\ generated' = {} /\ results' = Append(results, r)
  BY DEF Return
<1>2. CallTypes'
  <2>1. executed' \in BOOLEAN
    BY <1>1
  <2>2. issues' \in Seq(ContractIssue) /\ generated' \in SUBSET Refs
    BY <1>1
  <2> QED
    BY <1>1, <2>1, <2>2 DEF CallTypes
<1>3. CallFacts'
  BY <1>1 DEF CallFacts
<1>4. ResultsState'
  <2>1. /\ results \in Seq(RunResult)
        /\ \A n \in 1 .. Len(results) : SoundResult(results[n])
    BY DEF RunnerInv, ResultsState
  <2>2. /\ results' \in Seq(RunResult)
        /\ Len(results') = Len(results) + 1
        /\ \A n \in 1 .. Len(results) : results'[n] = results[n]
        /\ results'[Len(results) + 1] = r
    BY <1>1, <2>1
  <2>3. ASSUME NEW n \in 1 .. Len(results') PROVE SoundResult(results'[n])
    <3>1. CASE n \in 1 .. Len(results)
      BY <2>1, <2>2, <3>1
    <3>2. CASE n = Len(results) + 1
      BY <2>2, <3>2
    <3> QED
      BY <2>1, <2>2, <3>1, <3>2
  <2> QED
    BY <2>2, <2>3 DEF ResultsState, SoundResult
<1> QED
  BY <1>2, <1>3, <1>4 DEF RunnerInv

-----------------------------------------------------------------------------
(* What a call returns.                                                    *)

\* The trace identity of a running call.
LEMMA TraceIdType == ASSUME invocation \in Invocation PROVE TraceId \in TraceIds
<1>1. invocation.request \in Request
  BY DEF Invocation
<1>2. /\ invocation.request.request_id \in RequestIds
      /\ invocation.request.input_ref_set \in SUBSET Refs
      /\ invocation.request.authority_basis_ref_set \in SUBSET Refs
  BY <1>1 DEF Request
<1>3. RequestRef \in RequestIds \cup {InvalidRequestId}
  BY <1>2 DEF RequestRef
<1>4. InputRefs \in SUBSET Refs /\ AuthorityRefs \in SUBSET Refs
  BY <1>2 DEF InputRefs, AuthorityRefs
<1>5. SourceRefs \in UNION {[S -> {1, 2}] : S \in SUBSET Refs}
  <2>1. CASE invocation.source_ref_set # NoSources
    <3> DEFINE S == invocation.source_ref_set
    <3>1. S \in SUBSET Refs
      BY <2>1 DEF Invocation
    <3>2. SourceRefs \in [S -> {1, 2}]
      BY <2>1 DEF SourceRefs
    <3> HIDE DEF S
    <3> QED
      BY <3>1, <3>2
  <2>2. CASE invocation.source_ref_set = NoSources
    <3> DEFINE S == AuthorityRefs \cup InputRefs
    <3>1. S \in SUBSET Refs
      BY <1>4
    <3>2. SourceRefs \in [S -> {1, 2}]
      BY <2>2 DEF SourceRefs
    <3> HIDE DEF S
    <3> QED
      BY <3>1, <3>2
  <2> QED
    BY <2>1, <2>2
<1> QED
  BY <1>3, <1>5 DEF TraceId, TraceIds

\* The first issue of the trace is one of the issues, or none.
LEMMA FirstOrNoneType ==
    ASSUME issues \in Seq(ContractIssue), NEW severities
    PROVE  FirstOrNone(severities) \in MaybeIssue
<1>1. CASE \E i \in 1 .. Len(issues) : issues[i].severity \in severities
  BY <1>1, FirstFacts DEF FirstOrNone, MaybeIssue
<1>2. CASE ~ \E i \in 1 .. Len(issues) : issues[i].severity \in severities
  BY <1>2 DEF FirstOrNone, MaybeIssue
<1> QED
  BY <1>1, <1>2

\* The trace of a running call.
LEMMA TraceType ==
    ASSUME invocation \in Invocation, issues \in Seq(ContractIssue), NEW outcome \in OutcomeKinds
    PROVE  Trace(outcome) \in OperatorTrace
<1>1. TraceId \in TraceIds
  BY TraceIdType
<1>2. FirstOrNone({"blocked", "interrupt"}) \in MaybeIssue
  BY FirstOrNoneType
<1>3. FirstOrNone({"fault"}).issue_kind \in IssueKinds \cup {"none"}
  BY FirstOrNoneType DEF MaybeIssue, ContractIssue, NoIssue, Issue
<1> QED
  BY <1>1, <1>2, <1>3 DEF Trace, OperatorTrace

\* The result of a running call.
LEMMA ResultType ==
    ASSUME invocation \in Invocation, issues \in Seq(ContractIssue),
           executed \in BOOLEAN, generated \in SUBSET Refs,
           NEW outcome \in OutcomeKinds, NEW primary \in MaybeIssue,
           NEW output \in OutputKinds \cup {NoRef}
    PROVE  Result(Trace(outcome), outcome, primary, output) \in RunResult
<1>1. Trace(outcome) \in OperatorTrace
  BY TraceType
<1>2. RecordKindOf(outcome) \in {"operator_result", "runner_refusal", "sop_first_interrupt",
                                 "fault_record"}
  BY DEF RecordKindOf, OutcomeKinds
<1> QED
  BY <1>1, <1>2 DEF Result, RunResult

\* A success is returned for a request in which nothing was found.
LEMMA SuccessStep == ASSUME RunnerInv, ReturnSuccess PROVE RunnerInv'
<1> DEFINE r == Result(Trace("success"), "success", NoIssue, SuccessOutputKind)
<1>1. /\ pc = "succeed" /\ Return(r)
  BY DEF ReturnSuccess
<1>2. /\ invocation \in Invocation /\ executed \in BOOLEAN /\ generated \in SUBSET Refs
      /\ issues = <<>> /\ issues \in Seq(ContractIssue) /\ FoundIssues(invocation) = <<>>
  BY <1>1 DEF RunnerInv, CallTypes, CallFacts
<1>3. r \in RunResult
  <2>1. SuccessOutputKind \in OutputKinds \cup {NoRef}
    BY ContractAssumption DEF SuccessOutputKind, OutputKinds, OperatorContract
  <2>2. NoIssue \in MaybeIssue /\ "success" \in OutcomeKinds
    BY DEF MaybeIssue, OutcomeKinds
  <2> QED
    BY <1>2, <2>1, <2>2, ResultType
<1>4. /\ r.invocation = invocation /\ r.executed = executed /\ r.outcome_kind = "success"
      /\ r.operator_trace = Trace("success") /\ r.issue_set = <<>>
  BY <1>2 DEF Result
<1>5. /\ Trace("success").outcome_kind = "success"
      /\ Trace("success").fault_code = "none"
  <2>1. ~ \E i \in 1 .. Len(issues) : issues[i].severity \in {"fault"}
    BY <1>2
  <2>2. FirstOrNone({"fault"}).issue_kind = "none"
    BY <2>1 DEF FirstOrNone, NoIssue, Issue
  <2> QED
    BY <2>2 DEF Trace
<1>6. WellFormed(invocation) /\ Executable(invocation.request)
  BY <1>2, FoundFacts
<1>7. ~ Faulty(invocation)
  BY <1>2, <1>6, FoundFacts DEF HasSeverity
<1>8. "success" \in RunOutcomes(invocation, Contract, AcceptedScope)
  BY <1>2 DEF FoundIssues, RunOutcomes
<1> HIDE DEF r
<1>9. SoundResult(r)
  BY <1>4, <1>5, <1>6, <1>7, <1>8 DEF SoundResult
<1> QED
  BY <1>1, <1>3, <1>9, ReturnStep

\* A refusal is returned with the issues found, or that of the function that
\* raised.
LEMMA RefusalStep == ASSUME RunnerInv, ReturnRefusal PROVE RunnerInv'
<1> DEFINE outcome == OutcomeFromValidation(issues)
           primary == PrimaryIssue(issues, outcome)
           r == Result(Trace(outcome), RefusedOutcome(outcome), primary, NoRef)
<1>1. /\ pc = "refuse" /\ Return(r)
  BY DEF ReturnRefusal
<1>2. /\ invocation \in Invocation /\ executed \in BOOLEAN /\ generated \in SUBSET Refs
      /\ issues \in Seq(ContractIssue)
  BY <1>1 DEF RunnerInv, CallTypes
<1>3. \/ executed = FALSE /\ issues = FoundIssues(invocation) /\ issues # <<>>
      \/ /\ FoundIssues(invocation) = <<>>
         /\ invocation.has_function
         /\ issues = OperatorRaised
  BY <1>1 DEF RunnerInv, CallFacts
<1>4. issues # <<>>
  BY <1>3, RaisedFacts
<1>5. /\ outcome \in OutcomeKinds \ {"success"}
      /\ RefusedOutcome(outcome) = outcome
      /\ HasSeverity(issues, "fault") <=> outcome = "fault_output"
      /\ primary \in ContractIssue
      /\ \E i \in 1 .. Len(issues) : issues[i] = primary
      /\ primary.severity = SeverityOf(outcome)
  BY <1>2, <1>4, OutcomeFacts
<1>6. outcome = "fault_output" => primary = First(issues, {"fault"})
  BY DEF PrimaryIssue, SeverityOf
<1>7. outcome \in RunOutcomes(invocation, Contract, AcceptedScope)
  <2>1. CASE issues = FoundIssues(invocation)
    BY <1>4, <2>1 DEF FoundIssues, RunOutcomes
  <2>2. CASE /\ FoundIssues(invocation) = <<>>
             /\ invocation.has_function
             /\ issues = OperatorRaised
    <3>1. outcome = "fault_output"
      BY <1>5, <2>2, RaisedFacts
    <3> QED
      BY <2>2, <3>1 DEF FoundIssues, RunOutcomes
  <2> QED
    BY <1>3, <2>1, <2>2
<1>8. Faulty(invocation) => outcome = "fault_output"
  <2>1. CASE issues = FoundIssues(invocation)
    BY <1>2, <1>5, <2>1, FoundFacts
  <2>2. CASE issues = OperatorRaised
    BY <1>5, <2>2, RaisedFacts
  <2> QED
    BY <1>3, <2>1, <2>2
<1>9. executed => WellFormed(invocation) /\ Executable(invocation.request)
  <2>1. executed => FoundIssues(invocation) = <<>>
    BY <1>3
  <2> QED
    BY <1>2, <2>1, FoundFacts
<1> HIDE DEF outcome, primary
<1>10. Trace(outcome).fault_code = IF outcome = "fault_output" THEN primary.issue_kind ELSE "none"
  <2>1. CASE outcome = "fault_output"
    <3>1. \E i \in 1 .. Len(issues) : issues[i].severity \in {"fault"}
      BY <1>5, <2>1 DEF HasSeverity
    <3>2. FirstOrNone({"fault"}) = primary
      BY <1>6, <2>1, <3>1 DEF FirstOrNone
    <3> QED
      BY <2>1, <3>2 DEF Trace
  <2>2. CASE outcome # "fault_output"
    <3>1. ~ \E i \in 1 .. Len(issues) : issues[i].severity \in {"fault"}
      BY <1>5, <2>2 DEF HasSeverity
    <3>2. FirstOrNone({"fault"}).issue_kind = "none"
      BY <3>1 DEF FirstOrNone, NoIssue, Issue
    <3> QED
      BY <2>2, <3>2 DEF Trace
  <2> QED
    BY <2>1, <2>2
<1>11. r \in RunResult
  <2>1. outcome \in OutcomeKinds /\ primary \in MaybeIssue /\ NoRef \in OutputKinds \cup {NoRef}
    BY <1>5 DEF MaybeIssue
  <2> QED
    BY <1>2, <1>5, <2>1, ResultType
<1>12. /\ r.invocation = invocation /\ r.executed = executed /\ r.outcome_kind = outcome
       /\ r.operator_trace = Trace(outcome) /\ r.issue_set = issues
       /\ r.primary_issue = primary /\ r.record_kind = RecordKindOf(outcome)
  BY <1>5 DEF Result
<1>13. Trace(outcome).outcome_kind = outcome
  BY DEF Trace
<1>14. RecordKindOf("fault_output") = "fault_record"
  BY DEF RecordKindOf
<1> HIDE DEF r
<1>15. SoundResult(r)
  BY <1>5, <1>7, <1>8, <1>9, <1>10, <1>12, <1>13, <1>14 DEF SoundResult
<1> QED
  BY <1>1, <1>11, <1>15, ReturnStep

-----------------------------------------------------------------------------
(* The theorems.                                                           *)

\* Every step keeps the invariant.
LEMMA RunnerStep == RunnerInv /\ [Next]_vars => RunnerInv'
<1> SUFFICES ASSUME RunnerInv, [Next]_vars PROVE RunnerInv'
  OBVIOUS
<1>1. CASE UNCHANGED vars
  BY <1>1 DEF vars, RunnerInv, CallTypes, CallFacts, ResultsState
<1>2. CASE \E inv \in Invocations : Submit(inv)
  BY <1>2, SubmitStep
<1>3. CASE ResolveRequest
  BY <1>3, ResolveStep
<1>4. CASE ValidateRequest
  BY <1>4, ValidateStep
<1>5. CASE OperatorReturns \/ NoOperator \/ OperatorRaises
  BY <1>5, CallStep
<1>6. CASE ReturnRefusal
  BY <1>6, RefusalStep
<1>7. CASE ReturnSuccess
  BY <1>7, SuccessStep
<1> QED
  BY <1>1, <1>2, <1>3, <1>4, <1>5, <1>6, <1>7 DEF Next

\* The invariant holds always.
LEMMA RunnerInvariant == Spec => []RunnerInv
  BY RunnerInit, RunnerStep, PTL DEF Spec

\* What the invariant says of the results that were returned.
LEMMA ReturnedSound == RunnerInv => \A r \in Returned : SoundResult(r)
BY DEF RunnerInv, ResultsState, Returned

\* The runner's variables and results have their types.
THEOREM RunnerTypeCorrect == Spec => []TypeOK
<1>1. RunnerInv => TypeOK
  BY DEF RunnerInv, CallTypes, ResultsState, TypeOK
<1> QED
  BY <1>1, RunnerInvariant, PTL

\* run_contract_operator calls the operator function, and reports success, for
\* no request that request_from_mapping or validate_operator_request objects to.
THEOREM AcceptedOnlyCorrect == Spec => []ExecutesOnlyAcceptedRequests
<1>1. RunnerInv => ExecutesOnlyAcceptedRequests
  <2> SUFFICES ASSUME RunnerInv PROVE ExecutesOnlyAcceptedRequests
    OBVIOUS
  <2>1. ASSUME executed PROVE WellFormed(invocation) /\ Executable(invocation.request)
    <3>1. pc \in {"refuse", "succeed"}
      BY <2>1 DEF RunnerInv, CallTypes, CallFacts
    <3>2. invocation \in Invocation /\ FoundIssues(invocation) = <<>>
      BY <2>1, <3>1 DEF RunnerInv, CallTypes, CallFacts
    <3> QED
      BY <3>2, FoundFacts
  <2>2. \A r \in Returned : r.executed \/ r.outcome_kind = "success" =>
          WellFormed(r.invocation) /\ Executable(r.invocation.request)
    BY ReturnedSound DEF SoundResult
  <2> QED
    BY <2>1, <2>2 DEF ExecutesOnlyAcceptedRequests
<1> QED
  BY <1>1, RunnerInvariant, PTL

\* A request with a fault ends in a fault record.
THEOREM FaultCorrect == Spec => []FaultsAreNeverDowngraded
<1>1. RunnerInv => FaultsAreNeverDowngraded
  BY ReturnedSound DEF SoundResult, FaultsAreNeverDowngraded
<1> QED
  BY <1>1, RunnerInvariant, PTL

\* Result, record, primary issue and trace agree.
THEOREM RecordCorrect == Spec => []RecordExplainsOutcome
<1>1. RunnerInv => RecordExplainsOutcome
  BY ReturnedSound DEF SoundResult, RecordExplainsOutcome
<1> QED
  BY <1>1, RunnerInvariant, PTL

\* Every result has an outcome that the runtime graph's view of a call allows.
THEOREM OutcomeCorrect == Spec => []OutcomeAsPromised
<1>1. RunnerInv => OutcomeAsPromised
  BY ReturnedSound DEF SoundResult, OutcomeAsPromised
<1> QED
  BY <1>1, RunnerInvariant, PTL
=============================================================================
