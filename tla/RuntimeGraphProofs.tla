-------------------------- MODULE RuntimeGraphProofs --------------------------
(***************************************************************************)
(* Theorems about RuntimeGraph, for every operator contract and every set  *)
(* of inputs: what the run promises of its outcome, and that it implements *)
(* the graph contract.                                                     *)
(***************************************************************************)
EXTENDS RuntimeGraph, TLAPS

-----------------------------------------------------------------------------
(* Lists of issues.                                                        *)

\* The severities in a list of issues, and those that one check adds.
SeveritiesIn(s) == {s[i].severity : i \in 1 .. Len(s)}
Adds(b, severity) == IF b THEN {severity} ELSE {}

\* The lists are read through HasSeverity only.
LEMMA HasFacts ==
    ASSUME NEW s, NEW v
    PROVE  HasSeverity(s, v) <=> v \in SeveritiesIn(s)
BY DEF HasSeverity, SeveritiesIn

\* A list without severities is empty.
LEMMA EmptyFacts ==
    ASSUME NEW s \in Seq(GraphIssue)
    PROVE  /\ s = <<>> <=> SeveritiesIn(s) = {}
           /\ SeveritiesIn(s) \subseteq GraphSeverities
<1>1. s # <<>> => s[1].severity \in SeveritiesIn(s)
  BY DEF SeveritiesIn
<1>2. s = <<>> => SeveritiesIn(s) = {}
  BY DEF SeveritiesIn
<1>3. SeveritiesIn(s) \subseteq GraphSeverities
  <2>1. ASSUME NEW i \in 1 .. Len(s)
        PROVE  s[i].severity \in GraphSeverities
    <3>1. s[i] \in GraphIssue
      OBVIOUS
    <3> QED
      BY <3>1 DEF GraphIssue
  <2> QED
    BY <2>1 DEF SeveritiesIn
<1> QED
  BY <1>1, <1>2, <1>3

\* A raised issue makes a list of issues, empty unless the condition holds.
LEMMA RaiseFacts ==
    ASSUME NEW b, NEW issue \in GraphIssue
    PROVE  /\ Raise(b, issue) \in Seq(GraphIssue)
           /\ SeveritiesIn(Raise(b, issue)) = Adds(b, issue.severity)
           /\ b => Raise(b, issue) # <<>> /\ Raise(b, issue)[1] = issue
<1>1. CASE b
  <2>1. Raise(b, issue) = <<issue>>
    BY <1>1 DEF Raise
  <2>2. /\ <<issue>> \in Seq(GraphIssue) /\ <<issue>> # <<>>
        /\ Len(<<issue>>) = 1 /\ <<issue>>[1] = issue
    OBVIOUS
  <2>3. SeveritiesIn(<<issue>>) = {issue.severity}
    BY <2>2 DEF SeveritiesIn
  <2> QED
    BY <1>1, <2>1, <2>2, <2>3 DEF Adds
<1>2. CASE ~ b
  <2>1. Raise(b, issue) = <<>>
    BY <1>2 DEF Raise
  <2> QED
    BY <1>2, <2>1 DEF SeveritiesIn, Adds
<1> QED
  BY <1>1, <1>2

\* Lists of issues are concatenated: nothing is lost, nothing is added, and
\* the first issue stays the first.
LEMMA ConcatFacts ==
    ASSUME NEW s \in Seq(GraphIssue), NEW t \in Seq(GraphIssue)
    PROVE  /\ s \o t \in Seq(GraphIssue)
           /\ SeveritiesIn(s \o t) = SeveritiesIn(s) \cup SeveritiesIn(t)
           /\ s # <<>> => s \o t # <<>> /\ (s \o t)[1] = s[1]
           /\ s = <<>> => s \o t = t
<1>1. /\ s \o t \in Seq(GraphIssue)
      /\ Len(s \o t) = Len(s) + Len(t)
      /\ \A i \in 1 .. Len(s) : (s \o t)[i] = s[i]
      /\ \A i \in 1 .. Len(t) : (s \o t)[Len(s) + i] = t[i]
  OBVIOUS
<1>2. s # <<>> => s \o t # <<>> /\ (s \o t)[1] = s[1]
  BY <1>1
<1>3. s = <<>> => s \o t = t
  OBVIOUS
<1>4. ASSUME NEW i \in 1 .. Len(s \o t)
      PROVE  (s \o t)[i].severity \in SeveritiesIn(s) \cup SeveritiesIn(t)
  <2>1. CASE i <= Len(s)
    BY <1>1, <1>4, <2>1 DEF SeveritiesIn
  <2>2. CASE i > Len(s)
    <3>1. i - Len(s) \in 1 .. Len(t) /\ i = Len(s) + (i - Len(s))
      BY <1>1, <2>2
    <3> QED
      BY <1>1, <3>1 DEF SeveritiesIn
  <2> QED
    BY <2>1, <2>2
<1>5. ASSUME NEW i \in 1 .. Len(s)
      PROVE  s[i].severity \in SeveritiesIn(s \o t)
  BY <1>1, <1>5 DEF SeveritiesIn
<1>6. ASSUME NEW i \in 1 .. Len(t)
      PROVE  t[i].severity \in SeveritiesIn(s \o t)
  <2>1. Len(s) + i \in 1 .. Len(s \o t)
    BY <1>1
  <2> QED
    BY <1>1, <2>1 DEF SeveritiesIn
<1>7. SeveritiesIn(s \o t) = SeveritiesIn(s) \cup SeveritiesIn(t)
  BY <1>4, <1>5, <1>6 DEF SeveritiesIn
<1> QED
  BY <1>1, <1>2, <1>3, <1>7

\* One more check of a validation: its issue joins those found.
Then(s, b, issue) == s \o Raise(b, issue)

LEMMA NextCheck ==
    ASSUME NEW s \in Seq(GraphIssue), NEW b, NEW issue \in GraphIssue
    PROVE  /\ Then(s, b, issue) \in Seq(GraphIssue)
           /\ SeveritiesIn(Then(s, b, issue)) = SeveritiesIn(s) \cup Adds(b, issue.severity)
           /\ s # <<>> => Then(s, b, issue) # <<>> /\ Then(s, b, issue)[1] = s[1]
           /\ s = <<>> /\ b => Then(s, b, issue)[1] = issue
<1> DEFINE r == Raise(b, issue)
<1>1. /\ r \in Seq(GraphIssue)
      /\ SeveritiesIn(r) = Adds(b, issue.severity)
      /\ b => r[1] = issue
  BY RaiseFacts
<1> HIDE DEF r
<1>2. /\ s \o r \in Seq(GraphIssue)
      /\ SeveritiesIn(s \o r) = SeveritiesIn(s) \cup SeveritiesIn(r)
      /\ s # <<>> => s \o r # <<>> /\ (s \o r)[1] = s[1]
      /\ s = <<>> => s \o r = r
  BY <1>1, ConcatFacts
<1>3. Then(s, b, issue) = s \o r
  BY DEF Then, r
<1> QED
  BY <1>1, <1>2, <1>3

\* An issue is what it is made of.
LEMMA IssueFacts ==
    ASSUME NEW kind \in GraphIssueKinds, NEW severity \in GraphSeverities,
           NEW field \in GraphIssueFields
    PROVE  /\ Issue(kind, severity, field) \in GraphIssue
           /\ Issue(kind, severity, field).severity = severity
           /\ Issue(kind, severity, field).issue_kind = kind
BY DEF Issue, GraphIssue

\* Issues have one of four severities, so that an issue decides the outcome.
LEMMA ClassifyFacts ==
    ASSUME NEW s \in Seq(GraphIssue)
    PROVE  LET outcome == ClassifyTerminalOutcome(s)
           IN  /\ outcome \in TerminalOutcomes
               /\ outcome = "terminal_success" <=> s = <<>>
               /\ "fault" \in SeveritiesIn(s) <=> outcome = "terminal_fault"
               /\ outcome = "terminal_interrupt" =>
                    "interrupt" \in SeveritiesIn(s) /\ "fault" \notin SeveritiesIn(s)
               /\ "interrupt" \notin SeveritiesIn(s) /\ "stale" \in SeveritiesIn(s)
                    => outcome \in {"terminal_fault", "terminal_stale"}
               /\ "interrupt" \in SeveritiesIn(s)
                    => outcome \in {"terminal_fault", "terminal_interrupt"}
               /\ outcome = "terminal_blocked" => SeveritiesIn(s) = {"blocked"}
<1>1. /\ s = <<>> <=> SeveritiesIn(s) = {}
      /\ SeveritiesIn(s) \subseteq GraphSeverities
  BY EmptyFacts
<1>2. \A v : HasSeverity(s, v) <=> v \in SeveritiesIn(s)
  BY HasFacts
<1> QED
  BY <1>1, <1>2 DEF ClassifyTerminalOutcome, TerminalOutcomes, GraphSeverities

-----------------------------------------------------------------------------
(* What each node finds.                                                   *)

\* The types of the run's arguments.
LEMMA InputFacts ==
    ASSUME input \in Inputs
    PROVE  /\ state \in GraphState
           /\ policy \in GraphRunPolicy
           /\ checkpoint \in CheckpointEnvelope \cup {NoCheckpoint}
           /\ input.operator_request \in Invocation \cup {NoRequest}
BY InputsAssumption DEF Input, state, policy, checkpoint

\* validate_node_preconditions finds nothing but faults.
LEMMA NodeFacts ==
    ASSUME input \in Inputs, NEW node \in GraphNodeIds
    PROVE  /\ NodeIssues(node) \in Seq(GraphIssue)
           /\ SeveritiesIn(NodeIssues(node)) \subseteq {"fault"}
<1>1. CASE node # state.current_node_id
  <2>1. NodeIssues(node) = <<>>
    BY <1>1 DEF NodeIssues
  <2>2. <<>> \in Seq(GraphIssue) /\ SeveritiesIn(<<>>) = {}
    BY DEF SeveritiesIn
  <2> QED
    BY <2>1, <2>2
<1>2. CASE node = state.current_node_id
  <2> DEFINE b1 == state.graph_phase # node
             b2 == node \in {"packet_intake", "readiness_guard"} /\ ~ state.active_work_packet_ref
             b3 == node = "packet_intake" /\ ~ state.accepted_boundary_pack_ref_set
             i1 == Issue("invalid_transition", "fault", "graph_phase")
             i2 == Issue("missing_field", "fault", "active_work_packet_ref")
             i3 == Issue("missing_field", "fault", "accepted_boundary_pack_ref_set")
             i4 == Issue("missing_authority", "fault", "accepted_boundary_pack_ref_set")
             s1 == Raise(b1, i1)
             s2 == Then(s1, b2, i2)
             s3 == Then(s2, b3, i3)
             s4 == Then(s3, b3, i4)
  <2>1. NodeIssues(node) = s4
    BY <1>2 DEF NodeIssues, Then
  <2>3. /\ i1 \in GraphIssue /\ i1.severity = "fault"
        /\ i2 \in GraphIssue /\ i2.severity = "fault"
        /\ i3 \in GraphIssue /\ i3.severity = "fault"
        /\ i4 \in GraphIssue /\ i4.severity = "fault"
    BY IssueFacts DEF GraphIssueKinds, GraphSeverities, GraphIssueFields
  <2> HIDE DEF b1, b2, b3, i1, i2, i3, i4
  <2>4. s1 \in Seq(GraphIssue) /\ SeveritiesIn(s1) \subseteq {"fault"}
    BY <2>3, RaiseFacts DEF Adds
  <2> HIDE DEF s1
  <2>5. s2 \in Seq(GraphIssue) /\ SeveritiesIn(s2) \subseteq {"fault"}
    BY <2>3, <2>4, NextCheck DEF Adds
  <2> HIDE DEF s2
  <2>6. s3 \in Seq(GraphIssue) /\ SeveritiesIn(s3) \subseteq {"fault"}
    BY <2>3, <2>5, NextCheck DEF Adds
  <2> HIDE DEF s3
  <2>7. s4 \in Seq(GraphIssue) /\ SeveritiesIn(s4) \subseteq {"fault"}
    BY <2>3, <2>6, NextCheck DEF Adds
  <2> QED
    BY <2>1, <2>7
<1> QED
  BY <1>1, <1>2

\* The lists of issues that can end a run before the readiness guard.
PacketFound == NodeIssues("packet_intake") \o GraphStateIssues
CheckpointFound == IF checkpoint = NoCheckpoint THEN <<>> ELSE CheckpointIssues

\* A packet that is let through has its references, its authority limit, and
\* neither stale projections nor fault records; one that is not is a fault, or
\* stale if a stale projection is all that is wrong with it.
LEMMA PacketFacts ==
    ASSUME input \in Inputs
    PROVE  /\ PacketFound \in Seq(GraphIssue)
           /\ SeveritiesIn(PacketFound) \subseteq {"fault", "stale"}
           /\ state.fault_record_ref_set => "fault" \in SeveritiesIn(PacketFound)
           /\ "stale" \in SeveritiesIn(PacketFound) <=> state.stale_projection_ref_set
           /\ PacketFound = <<>> => /\ state.active_work_packet_ref
                                    /\ state.accepted_boundary_pack_ref_set
                                    /\ state.authority_limit = "execution_state_only"
<1> DEFINE b1 == ~ state.active_work_packet_ref
           b2 == ~ state.accepted_boundary_pack_ref_set
           b3 == state.authority_limit # "execution_state_only"
           b4 == state.stale_projection_ref_set
           b5 == state.fault_record_ref_set
           i1 == Issue("missing_field", "fault", "active_work_packet_ref")
           i2 == Issue("missing_authority", "fault", "accepted_boundary_pack_ref_set")
           i3 == Issue("generated_authority", "fault", "authority_limit")
           i4 == Issue("stale_projection", "stale", "stale_projection_ref_set")
           i5 == Issue("hidden_write_attempt", "fault", "fault_record_ref_set")
           s1 == Raise(b1, i1)
           s2 == Then(s1, b2, i2)
           s3 == Then(s2, b3, i3)
           s4 == Then(s3, b4, i4)
           s5 == Then(s4, b5, i5)
           n == NodeIssues("packet_intake")
<1>1. PacketFound = n \o s5
  BY DEF PacketFound, GraphStateIssues, Then
<1>3. /\ i1 \in GraphIssue /\ i1.severity = "fault"
      /\ i2 \in GraphIssue /\ i2.severity = "fault"
      /\ i3 \in GraphIssue /\ i3.severity = "fault"
      /\ i4 \in GraphIssue /\ i4.severity = "stale"
      /\ i5 \in GraphIssue /\ i5.severity = "fault"
  BY IssueFacts DEF GraphIssueKinds, GraphSeverities, GraphIssueFields
<1>4. n \in Seq(GraphIssue) /\ SeveritiesIn(n) \subseteq {"fault"}
  BY NodeFacts DEF GraphNodeIds
<1>5. (~ b1 <=> state.active_work_packet_ref) /\ (~ b2 <=> state.accepted_boundary_pack_ref_set)
  OBVIOUS
<1> HIDE DEF b1, b2, b3, b4, b5, i1, i2, i3, i4, i5, n
<1>6. s1 \in Seq(GraphIssue) /\ SeveritiesIn(s1) = Adds(b1, "fault")
  BY <1>3, RaiseFacts
<1> HIDE DEF s1
<1>7. s2 \in Seq(GraphIssue) /\ SeveritiesIn(s2) = Adds(b1, "fault") \cup Adds(b2, "fault")
  BY <1>3, <1>6, NextCheck
<1> HIDE DEF s2
<1>8. /\ s3 \in Seq(GraphIssue)
      /\ SeveritiesIn(s3) = Adds(b1, "fault") \cup Adds(b2, "fault") \cup Adds(b3, "fault")
  BY <1>3, <1>7, NextCheck
<1> HIDE DEF s3
<1>9. /\ s4 \in Seq(GraphIssue)
      /\ SeveritiesIn(s4) = Adds(b1, "fault") \cup Adds(b2, "fault") \cup Adds(b3, "fault")
                            \cup Adds(b4, "stale")
  BY <1>3, <1>8, NextCheck
<1> HIDE DEF s4
<1>10. /\ s5 \in Seq(GraphIssue)
       /\ SeveritiesIn(s5) = Adds(b1, "fault") \cup Adds(b2, "fault") \cup Adds(b3, "fault")
                             \cup Adds(b4, "stale") \cup Adds(b5, "fault")
  BY <1>3, <1>9, NextCheck
<1> HIDE DEF s5
<1>11. /\ n \o s5 \in Seq(GraphIssue)
       /\ SeveritiesIn(n \o s5) = SeveritiesIn(n) \cup SeveritiesIn(s5)
  BY <1>4, <1>10, ConcatFacts
<1>12. n \o s5 = <<>> => SeveritiesIn(s5) = {}
  BY <1>11, EmptyFacts
<1>13. /\ SeveritiesIn(n \o s5) \subseteq {"fault", "stale"}
       /\ b5 => "fault" \in SeveritiesIn(n \o s5)
       /\ "stale" \in SeveritiesIn(n \o s5) <=> b4
  BY <1>4, <1>10, <1>11 DEF Adds
<1>14. n \o s5 = <<>> => ~ b1 /\ ~ b2 /\ ~ b3
  BY <1>10, <1>12 DEF Adds
<1> QED
  BY <1>1, <1>5, <1>11, <1>13, <1>14 DEF b3, b4, b5

\* A checkpoint that is let through claims nothing and rests on the accepted
\* basis; one that is presented as authority interrupts, and its confusion is
\* the first issue; one that claims readiness is a fault.
LEMMA CheckpointFacts ==
    ASSUME input \in Inputs
    PROVE  /\ CheckpointFound \in Seq(GraphIssue)
           /\ "interrupt" \in SeveritiesIn(CheckpointFound) =>
                /\ checkpoint # NoCheckpoint /\ checkpoint.presented_as_authority
                /\ CheckpointFound[1].issue_kind = "checkpoint_authority_confusion"
           /\ checkpoint # NoCheckpoint /\ checkpoint.claims_readiness =>
                "fault" \in SeveritiesIn(CheckpointFound)
           /\ checkpoint # NoCheckpoint /\ checkpoint.presented_as_authority =>
                "interrupt" \in SeveritiesIn(CheckpointFound)
           /\ SeveritiesIn(CheckpointFound) \subseteq {"fault", "interrupt", "stale"}
           /\ CheckpointFound = <<>> /\ checkpoint # NoCheckpoint =>
                /\ ~ checkpoint.presented_as_authority
                /\ ~ checkpoint.claims_readiness
                /\ checkpoint.freshness_basis_ref_set = policy.accepted_freshness_basis_ref_set
<1>1. CASE checkpoint = NoCheckpoint
  <2>1. CheckpointFound = <<>>
    BY <1>1 DEF CheckpointFound
  <2>2. <<>> \in Seq(GraphIssue) /\ SeveritiesIn(<<>>) = {}
    BY DEF SeveritiesIn
  <2> QED
    BY <1>1, <2>1, <2>2
<1>2. CASE checkpoint # NoCheckpoint
  <2> DEFINE b1 == checkpoint.presented_as_authority
             b2 == checkpoint.claims_readiness
             b3 == ~ BasisIsAccepted
             b4 == checkpoint.checkpoint_status # "generated_projection_only"
             i1 == Issue("checkpoint_authority_confusion", "interrupt", "presented_as_authority")
             i2 == Issue("checkpoint_authority_confusion", "fault", "claims_readiness")
             i3 == Issue("stale_projection", "stale", "freshness_basis_ref_set")
             i4 == Issue("generated_authority", "fault", "checkpoint_status")
             s1 == Raise(b1, i1)
             s2 == Then(s1, b2, i2)
             s3 == Then(s2, b3, i3)
             s4 == Then(s3, b4, i4)
  <2>1. CheckpointFound = s4
    BY <1>2 DEF CheckpointFound, CheckpointIssues, Then
  <2>3. /\ i1 \in GraphIssue /\ i1.severity = "interrupt"
        /\ i2 \in GraphIssue /\ i2.severity = "fault"
        /\ i3 \in GraphIssue /\ i3.severity = "stale"
        /\ i4 \in GraphIssue /\ i4.severity = "fault"
        /\ i1.issue_kind = "checkpoint_authority_confusion"
    BY IssueFacts DEF GraphIssueKinds, GraphSeverities, GraphIssueFields
  <2> HIDE DEF b1, b2, b3, b4, i1, i2, i3, i4
  <2>4. /\ s1 \in Seq(GraphIssue)
        /\ SeveritiesIn(s1) = Adds(b1, "interrupt")
        /\ b1 => s1 # <<>> /\ s1[1] = i1
    BY <2>3, RaiseFacts
  <2> HIDE DEF s1
  <2>5. /\ s2 \in Seq(GraphIssue)
        /\ SeveritiesIn(s2) = Adds(b1, "interrupt") \cup Adds(b2, "fault")
        /\ b1 => s2 # <<>> /\ s2[1] = i1
    BY <2>3, <2>4, NextCheck
  <2> HIDE DEF s2
  <2>6. /\ s3 \in Seq(GraphIssue)
        /\ SeveritiesIn(s3) = Adds(b1, "interrupt") \cup Adds(b2, "fault") \cup Adds(b3, "stale")
        /\ b1 => s3 # <<>> /\ s3[1] = i1
    BY <2>3, <2>5, NextCheck
  <2> HIDE DEF s3
  <2>7. /\ s4 \in Seq(GraphIssue)
        /\ SeveritiesIn(s4) = Adds(b1, "interrupt") \cup Adds(b2, "fault") \cup Adds(b3, "stale")
                              \cup Adds(b4, "fault")
        /\ b1 => s4 # <<>> /\ s4[1] = i1
    BY <2>3, <2>6, NextCheck
  <2> HIDE DEF s4
  <2>8. "interrupt" \in SeveritiesIn(s4) =>
          b1 /\ s4[1].issue_kind = "checkpoint_authority_confusion"
    BY <2>3, <2>7 DEF Adds
  <2>9. /\ b2 => "fault" \in SeveritiesIn(s4)
        /\ b1 => "interrupt" \in SeveritiesIn(s4)
        /\ SeveritiesIn(s4) \subseteq {"fault", "interrupt", "stale"}
    BY <2>7 DEF Adds
  <2>10. s4 = <<>> => ~ b1 /\ ~ b2 /\ ~ b3
    BY <2>7, EmptyFacts DEF Adds
  <2> QED
    BY <1>2, <2>1, <2>7, <2>8, <2>9, <2>10 DEF b1, b2, b3, BasisIsAccepted
<1> QED
  BY <1>1, <1>2


\* The readiness guard finds no interrupt, and nothing only if a proof that is
\* required is there.
LEMMA ReadinessFacts ==
    ASSUME input \in Inputs
    PROVE  /\ ReadinessIssues \in Seq(GraphIssue)
           /\ SeveritiesIn(ReadinessIssues) \subseteq {"fault", "blocked"}
           /\ "blocked" \in SeveritiesIn(ReadinessIssues) =>
                policy.require_readiness_proof /\ ~ state.proof_result_ref_set
           /\ ReadinessIssues = <<>> =>
                (policy.require_readiness_proof => state.proof_result_ref_set)
<1> DEFINE b == policy.require_readiness_proof /\ ~ state.proof_result_ref_set
           i == Issue("missing_authority", "blocked", "proof_result_ref_set")
           n == NodeIssues("readiness_guard")
           s == Then(n, b, i)
<1>1. ReadinessIssues = s
  BY DEF ReadinessIssues, Then
<1>3. i \in GraphIssue /\ i.severity = "blocked" /\ i.issue_kind = "missing_authority"
  BY IssueFacts DEF GraphIssueKinds, GraphSeverities, GraphIssueFields
<1>4. n \in Seq(GraphIssue) /\ SeveritiesIn(n) \subseteq {"fault"}
  BY NodeFacts DEF GraphNodeIds
<1> HIDE DEF b, i, n
<1>5. /\ s \in Seq(GraphIssue)
      /\ SeveritiesIn(s) = SeveritiesIn(n) \cup Adds(b, "blocked")
      /\ n = <<>> /\ b => s[1] = i
  BY <1>3, <1>4, NextCheck
<1> HIDE DEF s
<1>6. s = <<>> => ~ b
  BY <1>5, EmptyFacts DEF Adds
<1>7. SeveritiesIn(s) \subseteq {"fault", "blocked"} /\ ("blocked" \in SeveritiesIn(s) => b)
  BY <1>4, <1>5 DEF Adds
<1> QED
  BY <1>1, <1>5, <1>6, <1>7, InputFacts DEF b

\* The selection of the contract finds no interrupt, and nothing only if there
\* is a request.
LEMMA SelectFacts ==
    ASSUME input \in Inputs
    PROVE  /\ SelectIssues \in Seq(GraphIssue)
           /\ SeveritiesIn(SelectIssues) \subseteq {"fault", "blocked"}
           /\ SelectIssues = <<>> => input.operator_request \in Invocation
<1> DEFINE b == input.operator_request = NoRequest
           i == Issue("missing_authority", "blocked", "operator_request")
           n == NodeIssues("operator_contract_select")
           s == Then(n, b, i)
<1>1. SelectIssues = s
  BY DEF SelectIssues, Then
<1>3. i \in GraphIssue /\ i.severity = "blocked" /\ i.issue_kind = "missing_authority"
  BY IssueFacts DEF GraphIssueKinds, GraphSeverities, GraphIssueFields
<1>4. n \in Seq(GraphIssue) /\ SeveritiesIn(n) \subseteq {"fault"}
  BY NodeFacts DEF GraphNodeIds
<1> HIDE DEF b, i, n
<1>5. /\ s \in Seq(GraphIssue)
      /\ SeveritiesIn(s) = SeveritiesIn(n) \cup Adds(b, "blocked")
      /\ n = <<>> /\ b => s[1] = i
  BY <1>3, <1>4, NextCheck
<1> HIDE DEF s
<1>6. s = <<>> => ~ b
  BY <1>5, EmptyFacts DEF Adds
<1>7. SeveritiesIn(s) \subseteq {"fault", "blocked"}
  BY <1>4, <1>5 DEF Adds
<1> QED
  BY <1>1, <1>5, <1>6, <1>7, InputFacts DEF b

\* The coordination guard interrupts for contested claims, which are the first
\* issue unless there is a fault.
LEMMA CoordinationFacts ==
    ASSUME input \in Inputs
    PROVE  /\ CoordinationIssues \in Seq(GraphIssue)
           /\ CoordinationIssues = <<>> => ~ state.contested_claims
           /\ state.contested_claims => "interrupt" \in SeveritiesIn(CoordinationIssues)
           /\ /\ "interrupt" \in SeveritiesIn(CoordinationIssues)
              /\ "fault" \notin SeveritiesIn(CoordinationIssues)
              =>
                /\ state.contested_claims
                /\ CoordinationIssues[1].issue_kind = "contested_coordination"
<1> DEFINE b == state.contested_claims
           i == Issue("contested_coordination", "interrupt", "coordination_claim_ref_set")
           n == NodeIssues("coordination_guard")
           s == Then(n, b, i)
<1>1. CoordinationIssues = s
  BY DEF CoordinationIssues, Then
<1>3. i \in GraphIssue /\ i.severity = "interrupt" /\ i.issue_kind = "contested_coordination"
  BY IssueFacts DEF GraphIssueKinds, GraphSeverities, GraphIssueFields
<1>4. n \in Seq(GraphIssue) /\ SeveritiesIn(n) \subseteq {"fault"}
  BY NodeFacts DEF GraphNodeIds
<1> HIDE DEF b, i, n
<1>5. /\ s \in Seq(GraphIssue)
      /\ SeveritiesIn(s) = SeveritiesIn(n) \cup Adds(b, "interrupt")
      /\ n = <<>> /\ b => s[1] = i
  BY <1>3, <1>4, NextCheck
<1> HIDE DEF s
<1>6. (s = <<>> => ~ b) /\ (b => "interrupt" \in SeveritiesIn(s))
  BY <1>5, EmptyFacts DEF Adds
<1>7. "interrupt" \in SeveritiesIn(s) /\ "fault" \notin SeveritiesIn(s) =>
        b /\ s[1].issue_kind = "contested_coordination"
  <2> SUFFICES ASSUME "interrupt" \in SeveritiesIn(s), "fault" \notin SeveritiesIn(s)
               PROVE  b /\ s[1].issue_kind = "contested_coordination"
    OBVIOUS
  <2>1. SeveritiesIn(n) = {}
    BY <1>4, <1>5
  <2>2. n = <<>>
    BY <1>4, <2>1, EmptyFacts
  <2>3. b
    BY <1>5, <2>1 DEF Adds
  <2> QED
    BY <1>3, <1>5, <2>2, <2>3
<1> QED
  BY <1>1, <1>5, <1>6, <1>7 DEF b

\* The completion gate blocks a run, unless it has a review and a proof.
LEMMA CompletionFacts ==
    ASSUME input \in Inputs
    PROVE  /\ CompletionIssues \in Seq(GraphIssue)
           /\ SeveritiesIn(CompletionIssues) \subseteq {"blocked"}
           /\ CompletionIssues = <<>> =>
                state.completion_review_ref /\ state.no_hidden_write_proof_ref
<1> DEFINE b1 == ~ state.completion_review_ref
           b2 == ~ state.no_hidden_write_proof_ref
           b3 == policy.require_completion_review_for_success /\ ~ state.completion_review_ref
           b4 == policy.require_no_hidden_write_proof_for_success
                   /\ ~ state.no_hidden_write_proof_ref
           i1 == Issue("missing_field", "blocked", "completion_review_ref")
           i2 == Issue("missing_field", "blocked", "no_hidden_write_proof_ref")
           i3 == Issue("missing_completion_review", "blocked", "completion_review_ref")
           i4 == Issue("hidden_write_attempt", "blocked", "no_hidden_write_proof_ref")
           s1 == Raise(b1, i1)
           s2 == Then(s1, b2, i2)
           s3 == Then(s2, b3, i3)
           s4 == Then(s3, b4, i4)
<1>1. CompletionIssues = s4
  BY DEF CompletionIssues, Then
<1>3. /\ i1 \in GraphIssue /\ i1.severity = "blocked"
      /\ i2 \in GraphIssue /\ i2.severity = "blocked"
      /\ i3 \in GraphIssue /\ i3.severity = "blocked"
      /\ i4 \in GraphIssue /\ i4.severity = "blocked"
  BY IssueFacts DEF GraphIssueKinds, GraphSeverities, GraphIssueFields
<1>4. ~ b1 /\ ~ b2 => state.completion_review_ref /\ state.no_hidden_write_proof_ref
  OBVIOUS
<1> HIDE DEF b1, b2, b3, b4, i1, i2, i3, i4
<1>5. s1 \in Seq(GraphIssue) /\ SeveritiesIn(s1) = Adds(b1, "blocked")
  BY <1>3, RaiseFacts
<1> HIDE DEF s1
<1>6. s2 \in Seq(GraphIssue) /\ SeveritiesIn(s2) = Adds(b1, "blocked") \cup Adds(b2, "blocked")
  BY <1>3, <1>5, NextCheck
<1> HIDE DEF s2
<1>7. /\ s3 \in Seq(GraphIssue)
      /\ SeveritiesIn(s3) = Adds(b1, "blocked") \cup Adds(b2, "blocked") \cup Adds(b3, "blocked")
  BY <1>3, <1>6, NextCheck
<1> HIDE DEF s3
<1>8. /\ s4 \in Seq(GraphIssue)
      /\ SeveritiesIn(s4) = Adds(b1, "blocked") \cup Adds(b2, "blocked") \cup Adds(b3, "blocked")
                            \cup Adds(b4, "blocked")
  BY <1>3, <1>7, NextCheck
<1> HIDE DEF s4
<1>9. s4 = <<>> => ~ b1 /\ ~ b2
  BY <1>8, EmptyFacts DEF Adds
<1>10. SeveritiesIn(s4) \subseteq {"blocked"}
  BY <1>8 DEF Adds
<1> QED
  BY <1>1, <1>4, <1>8, <1>9, <1>10

\* The operator runner's outcome is the outcome of the run, up to its name.
LEMMA OperatorFacts ==
    ASSUME NEW outcome \in OutcomeKinds
    PROVE  /\ OperatorIssues(outcome) \in Seq(GraphIssue)
           /\ OperatorIssues(outcome) = <<>> <=> outcome = "success"
           /\ SeveritiesIn(OperatorIssues(outcome)) \subseteq {"blocked", "interrupt", "fault"}
           /\ "interrupt" \in SeveritiesIn(OperatorIssues(outcome)) =>
                /\ outcome = "sop_first_interrupt"
                /\ OperatorIssues(outcome)[1].issue_kind = "ambiguous_identity"
<1> DEFINE i1 == Issue("missing_authority", "blocked", "operator_run_result")
           i2 == Issue("ambiguous_identity", "interrupt", "operator_run_result")
           i3 == Issue("hidden_write_attempt", "fault", "operator_run_result")
<1>1. /\ i1 \in GraphIssue /\ i1.severity = "blocked"
      /\ i2 \in GraphIssue /\ i2.severity = "interrupt" /\ i2.issue_kind = "ambiguous_identity"
      /\ i3 \in GraphIssue /\ i3.severity = "fault"
  BY IssueFacts DEF GraphIssueKinds, GraphSeverities, GraphIssueFields
<1>2. /\ outcome = "success" => OperatorIssues(outcome) = <<>>
      /\ outcome = "blocked_output" => OperatorIssues(outcome) = <<i1>>
      /\ outcome = "sop_first_interrupt" => OperatorIssues(outcome) = <<i2>>
      /\ outcome = "fault_output" => OperatorIssues(outcome) = <<i3>>
  BY DEF OperatorIssues
<1>3. ASSUME NEW i \in GraphIssue
      PROVE  /\ <<i>> \in Seq(GraphIssue) /\ <<i>> # <<>> /\ <<i>>[1] = i
             /\ SeveritiesIn(<<i>>) = {i.severity}
  <2>1. Len(<<i>>) = 1 /\ <<i>>[1] = i
    OBVIOUS
  <2> QED
    BY <2>1 DEF SeveritiesIn
<1>4. SeveritiesIn(<<>>) = {} /\ <<>> \in Seq(GraphIssue)
  BY DEF SeveritiesIn
<1> HIDE DEF i1, i2, i3
<1> QED
  BY <1>1, <1>2, <1>3, <1>4 DEF OutcomeKinds

\* Running the operator has an outcome.
LEMMA RunOutcomesFacts ==
    ASSUME NEW invocation
    PROVE  RunOutcomes(invocation, Contract, AcceptedScope) \subseteq OutcomeKinds
BY DEF RunOutcomes, OutcomeFromValidation, OutcomeKinds

-----------------------------------------------------------------------------
(* The invariant.                                                          *)

\* The guards that a run has passed, in the order of graph_runner.py.
PacketPassed       == PacketFound = <<>>
CheckpointPassed   == PacketPassed /\ CheckpointFound = <<>>
ReadinessPassed    == CheckpointPassed /\ ReadinessIssues = <<>>
CoordinationPassed == ReadinessPassed /\ CoordinationIssues = <<>>
SelectPassed       == CoordinationPassed /\ SelectIssues = <<>>
OperatorPassed     == SelectPassed /\ operator_run = "success"

NothingFound(node) == CurrentNode = node /\ issues = <<>> /\ operator_run = "none"

\* Where a run that ends was stopped: at the first check that found anything,
\* or at the completion gate.
Refused(found) == issues = found /\ found # <<>>
StoppedEarly ==
    /\ operator_run = "none"
    /\ \/ Refused(PacketFound)
       \/ PacketPassed /\ Refused(CheckpointFound)
       \/ CheckpointPassed /\ Refused(ReadinessIssues)
       \/ ReadinessPassed /\ Refused(CoordinationIssues)
       \/ CoordinationPassed /\ Refused(SelectIssues)
StoppedLate ==
    \/ /\ SelectPassed
       /\ operator_run \in OutcomeKinds
       /\ Refused(OperatorIssues(operator_run))
    \/ OperatorPassed /\ issues = CompletionIssues
Stopped == StoppedEarly \/ StoppedLate

\* The node at which a run stops has an edge to the end.
LastNode ==
    /\ CurrentNode \in {"packet_intake", "readiness_guard", "coordination_guard",
                        "operator_contract_select", "trace_recording", "completion_gate"}
    /\ issues = <<>> => CurrentNode = "completion_gate"

\* The record of a run that stopped.
StoppedRecord ==
    LET outcome     == ClassifyTerminalOutcome(issues)
        interrupted == outcome = "terminal_interrupt"
    IN  [terminal_outcome       |-> outcome,
         interrupt_kind         |-> IF interrupted THEN InterruptKindForIssue(issues[1]) ELSE "none",
         originating_node_id    |-> IF interrupted THEN state.current_node_id ELSE "none",
         pending_interrupt_ref  |-> interrupted \/ state.pending_interrupt_ref,
         operator_trace_ref_set |-> operator_run # "none"]

\* What holds before each step of the run.
Progress ==
    /\ pc = "packet_intake" => node_visits = <<>> /\ NothingFound("start")
    /\ pc = "checkpoint" => PacketPassed /\ NothingFound("packet_intake")
    /\ pc = "readiness_guard" => CheckpointPassed /\ NothingFound("packet_intake")
    /\ pc = "coordination_guard" => ReadinessPassed /\ NothingFound("readiness_guard")
    /\ pc = "operator_contract_select" => CoordinationPassed /\ NothingFound("coordination_guard")
    /\ pc = "operator_invocation" => SelectPassed /\ NothingFound("operator_contract_select")
    /\ pc = "trace_recording" => /\ SelectPassed
                                 /\ CurrentNode = "operator_invocation"
                                 /\ issues = <<>>
                                 /\ operator_run \in OutcomeKinds
    /\ pc = "completion_gate" => /\ OperatorPassed
                                 /\ CurrentNode = "trace_recording"
                                 /\ issues = <<>>
    /\ pc = "terminate" => Stopped /\ LastNode
    /\ pc = "done" => Stopped /\ terminal = StoppedRecord

RunInv == /\ TypeOK
          /\ pc \notin {"sop_first_interrupt", "terminal_outcome"}
          /\ pc # "done" => terminal = NoRecord
          /\ Progress

\* The checks read the arguments of the run, which no step changes.
LEMMA ChecksStay ==
    ASSUME input' = input
    PROVE  /\ PacketFound' = PacketFound
           /\ CheckpointFound' = CheckpointFound
           /\ ReadinessIssues' = ReadinessIssues
           /\ CoordinationIssues' = CoordinationIssues
           /\ SelectIssues' = SelectIssues
           /\ CompletionIssues' = CompletionIssues
           /\ SelectPassed' = SelectPassed
           /\ CoordinationPassed' = CoordinationPassed
           /\ ReadinessPassed' = ReadinessPassed
           /\ CheckpointPassed' = CheckpointPassed
           /\ PacketPassed' = PacketPassed
BY DEF PacketFound, CheckpointFound, ReadinessIssues, CoordinationIssues, SelectIssues,
       CompletionIssues, NodeIssues, GraphStateIssues, CheckpointIssues, BasisIsAccepted,
       state, policy, checkpoint, SelectPassed, CoordinationPassed, ReadinessPassed,
       CheckpointPassed, PacketPassed

\* A visit appends its node.
LEMMA VisitFacts ==
    ASSUME node_visits \in Seq(GraphNodeIds), phase_sequence \in Seq(GraphNodeIds),
           Len(node_visits) = Len(phase_sequence),
           NEW node \in GraphNodeIds, NEW phase \in GraphNodeIds, Visit(node, phase)
    PROVE  /\ node_visits' \in Seq(GraphNodeIds)
           /\ phase_sequence' \in Seq(GraphNodeIds)
           /\ Len(node_visits') = Len(phase_sequence')
           /\ node_visits' # <<>>
           /\ CurrentNode' = node
<1>1. /\ node_visits' = Append(node_visits, node)
      /\ phase_sequence' = Append(phase_sequence, phase)
  BY DEF Visit
<1>2. /\ node_visits' \in Seq(GraphNodeIds) /\ phase_sequence' \in Seq(GraphNodeIds)
      /\ Len(node_visits') = Len(node_visits) + 1
      /\ Len(phase_sequence') = Len(phase_sequence) + 1
      /\ node_visits'[Len(node_visits) + 1] = node
  BY <1>1
<1>3. node_visits' # <<>>
  BY <1>2
<1> QED
  BY <1>2, <1>3 DEF CurrentNode

\* The run starts in the invariant.
LEMMA GraphInit == Init => RunInv
BY DEF Init, RunInv, TypeOK, Progress, NothingFound, CurrentNode, GraphNodeIds

\* A check that finds nothing leads to the next step; one that finds something
\* ends the run.
LEMMA CheckFacts ==
    ASSUME NEW found \in Seq(GraphIssue), NEW next, Check(found, next)
    PROVE  /\ issues' = found /\ issues' \in Seq(GraphIssue)
           /\ found = <<>> => pc' = next
           /\ found # <<>> => pc' = "terminate"
BY DEF Check


\* The packet intake lets the packet through, or ends the run with what it found.
LEMMA PacketIntakeStep == ASSUME RunInv, PacketIntake PROVE RunInv'
<1>1. /\ pc = "packet_intake" /\ Visit("packet_intake", state.graph_phase)
      /\ Check(PacketFound, "checkpoint")
      /\ input' = input /\ operator_run' = operator_run /\ terminal' = terminal
  BY DEF PacketIntake, PacketFound
<1>2. /\ TypeOK /\ input \in Inputs /\ operator_run = "none" /\ terminal = NoRecord
      /\ TRUE
  BY <1>1 DEF RunInv, TypeOK, Progress, NothingFound
<1>3. "packet_intake" \in GraphNodeIds /\ state.graph_phase \in GraphNodeIds
  BY <1>2, InputFacts DEF GraphNodeIds, GraphState
<1>4. /\ node_visits' \in Seq(GraphNodeIds) /\ phase_sequence' \in Seq(GraphNodeIds)
      /\ Len(node_visits') = Len(phase_sequence') /\ node_visits' # <<>>
      /\ CurrentNode' = "packet_intake"
  BY <1>1, <1>2, <1>3, VisitFacts DEF TypeOK
<1>5. PacketFound \in Seq(GraphIssue)
  BY <1>2, PacketFacts
<1>6. /\ issues' = PacketFound /\ issues' \in Seq(GraphIssue)
      /\ PacketFound = <<>> => pc' = "checkpoint"
      /\ PacketFound # <<>> => pc' = "terminate"
  BY <1>1, <1>5, CheckFacts
<1>7. TypeOK'
  BY <1>1, <1>2, <1>4, <1>6 DEF TypeOK, GraphNodeIds
<1>8. /\ PacketFound' = PacketFound
      /\ TRUE'
  BY <1>1, <1>2, ChecksStay
<1>9. CASE PacketFound = <<>>
  <2>1. PacketPassed' /\ NothingFound("packet_intake")'
    BY <1>1, <1>2, <1>4, <1>6, <1>8, <1>9 DEF PacketPassed, NothingFound
  <2> QED
    BY <1>1, <1>2, <1>6, <1>7, <1>9, <2>1 DEF RunInv, Progress
<1>10. CASE PacketFound # <<>>
  <2>1. StoppedEarly' /\ LastNode'
    BY <1>1, <1>2, <1>4, <1>6, <1>8, <1>10 DEF StoppedEarly, Refused, LastNode
  <2> QED
    BY <1>1, <1>2, <1>6, <1>7, <1>10, <2>1 DEF RunInv, Progress, Stopped
<1> QED
  BY <1>9, <1>10

\* The readiness guard.
LEMMA ReadinessGuardStep == ASSUME RunInv, ReadinessGuard PROVE RunInv'
<1>1. /\ pc = "readiness_guard" /\ Visit("readiness_guard", "readiness_guard")
      /\ Check(ReadinessIssues, "coordination_guard")
      /\ input' = input /\ operator_run' = operator_run /\ terminal' = terminal
  BY DEF ReadinessGuard
<1>2. /\ TypeOK /\ input \in Inputs /\ operator_run = "none" /\ terminal = NoRecord
      /\ CheckpointPassed
  BY <1>1 DEF RunInv, TypeOK, Progress, NothingFound
<1>3. "readiness_guard" \in GraphNodeIds /\ "readiness_guard" \in GraphNodeIds
  BY <1>2, InputFacts DEF GraphNodeIds, GraphState
<1>4. /\ node_visits' \in Seq(GraphNodeIds) /\ phase_sequence' \in Seq(GraphNodeIds)
      /\ Len(node_visits') = Len(phase_sequence') /\ node_visits' # <<>>
      /\ CurrentNode' = "readiness_guard"
  BY <1>1, <1>2, <1>3, VisitFacts DEF TypeOK
<1>5. ReadinessIssues \in Seq(GraphIssue)
  BY <1>2, ReadinessFacts
<1>6. /\ issues' = ReadinessIssues /\ issues' \in Seq(GraphIssue)
      /\ ReadinessIssues = <<>> => pc' = "coordination_guard"
      /\ ReadinessIssues # <<>> => pc' = "terminate"
  BY <1>1, <1>5, CheckFacts
<1>7. TypeOK'
  BY <1>1, <1>2, <1>4, <1>6 DEF TypeOK, GraphNodeIds
<1>8. /\ ReadinessIssues' = ReadinessIssues
      /\ CheckpointPassed'
  BY <1>1, <1>2, ChecksStay
<1>9. CASE ReadinessIssues = <<>>
  <2>1. ReadinessPassed' /\ NothingFound("readiness_guard")'
    BY <1>1, <1>2, <1>4, <1>6, <1>8, <1>9 DEF ReadinessPassed, NothingFound
  <2> QED
    BY <1>1, <1>2, <1>6, <1>7, <1>9, <2>1 DEF RunInv, Progress
<1>10. CASE ReadinessIssues # <<>>
  <2>1. StoppedEarly' /\ LastNode'
    BY <1>1, <1>2, <1>4, <1>6, <1>8, <1>10 DEF StoppedEarly, Refused, LastNode
  <2> QED
    BY <1>1, <1>2, <1>6, <1>7, <1>10, <2>1 DEF RunInv, Progress, Stopped
<1> QED
  BY <1>9, <1>10

\* The coordination guard.
LEMMA CoordinationGuardStep == ASSUME RunInv, CoordinationGuard PROVE RunInv'
<1>1. /\ pc = "coordination_guard" /\ Visit("coordination_guard", "coordination_guard")
      /\ Check(CoordinationIssues, "operator_contract_select")
      /\ input' = input /\ operator_run' = operator_run /\ terminal' = terminal
  BY DEF CoordinationGuard
<1>2. /\ TypeOK /\ input \in Inputs /\ operator_run = "none" /\ terminal = NoRecord
      /\ ReadinessPassed
  BY <1>1 DEF RunInv, TypeOK, Progress, NothingFound
<1>3. "coordination_guard" \in GraphNodeIds /\ "coordination_guard" \in GraphNodeIds
  BY <1>2, InputFacts DEF GraphNodeIds, GraphState
<1>4. /\ node_visits' \in Seq(GraphNodeIds) /\ phase_sequence' \in Seq(GraphNodeIds)
      /\ Len(node_visits') = Len(phase_sequence') /\ node_visits' # <<>>
      /\ CurrentNode' = "coordination_guard"
  BY <1>1, <1>2, <1>3, VisitFacts DEF TypeOK
<1>5. CoordinationIssues \in Seq(GraphIssue)
  BY <1>2, CoordinationFacts
<1>6. /\ issues' = CoordinationIssues /\ issues' \in Seq(GraphIssue)
      /\ CoordinationIssues = <<>> => pc' = "operator_contract_select"
      /\ CoordinationIssues # <<>> => pc' = "terminate"
  BY <1>1, <1>5, CheckFacts
<1>7. TypeOK'
  BY <1>1, <1>2, <1>4, <1>6 DEF TypeOK, GraphNodeIds
<1>8. /\ CoordinationIssues' = CoordinationIssues
      /\ ReadinessPassed'
  BY <1>1, <1>2, ChecksStay
<1>9. CASE CoordinationIssues = <<>>
  <2>1. CoordinationPassed' /\ NothingFound("coordination_guard")'
    BY <1>1, <1>2, <1>4, <1>6, <1>8, <1>9 DEF CoordinationPassed, NothingFound
  <2> QED
    BY <1>1, <1>2, <1>6, <1>7, <1>9, <2>1 DEF RunInv, Progress
<1>10. CASE CoordinationIssues # <<>>
  <2>1. StoppedEarly' /\ LastNode'
    BY <1>1, <1>2, <1>4, <1>6, <1>8, <1>10 DEF StoppedEarly, Refused, LastNode
  <2> QED
    BY <1>1, <1>2, <1>6, <1>7, <1>10, <2>1 DEF RunInv, Progress, Stopped
<1> QED
  BY <1>9, <1>10

\* The selection of the contract.
LEMMA OperatorContractSelectStep == ASSUME RunInv, OperatorContractSelect PROVE RunInv'
<1>1. /\ pc = "operator_contract_select" /\ Visit("operator_contract_select", "operator_contract_select")
      /\ Check(SelectIssues, "operator_invocation")
      /\ input' = input /\ operator_run' = operator_run /\ terminal' = terminal
  BY DEF OperatorContractSelect
<1>2. /\ TypeOK /\ input \in Inputs /\ operator_run = "none" /\ terminal = NoRecord
      /\ CoordinationPassed
  BY <1>1 DEF RunInv, TypeOK, Progress, NothingFound
<1>3. "operator_contract_select" \in GraphNodeIds /\ "operator_contract_select" \in GraphNodeIds
  BY <1>2, InputFacts DEF GraphNodeIds, GraphState
<1>4. /\ node_visits' \in Seq(GraphNodeIds) /\ phase_sequence' \in Seq(GraphNodeIds)
      /\ Len(node_visits') = Len(phase_sequence') /\ node_visits' # <<>>
      /\ CurrentNode' = "operator_contract_select"
  BY <1>1, <1>2, <1>3, VisitFacts DEF TypeOK
<1>5. SelectIssues \in Seq(GraphIssue)
  BY <1>2, SelectFacts
<1>6. /\ issues' = SelectIssues /\ issues' \in Seq(GraphIssue)
      /\ SelectIssues = <<>> => pc' = "operator_invocation"
      /\ SelectIssues # <<>> => pc' = "terminate"
  BY <1>1, <1>5, CheckFacts
<1>7. TypeOK'
  BY <1>1, <1>2, <1>4, <1>6 DEF TypeOK, GraphNodeIds
<1>8. /\ SelectIssues' = SelectIssues
      /\ CoordinationPassed'
  BY <1>1, <1>2, ChecksStay
<1>9. CASE SelectIssues = <<>>
  <2>1. SelectPassed' /\ NothingFound("operator_contract_select")'
    BY <1>1, <1>2, <1>4, <1>6, <1>8, <1>9 DEF SelectPassed, NothingFound
  <2> QED
    BY <1>1, <1>2, <1>6, <1>7, <1>9, <2>1 DEF RunInv, Progress
<1>10. CASE SelectIssues # <<>>
  <2>1. StoppedEarly' /\ LastNode'
    BY <1>1, <1>2, <1>4, <1>6, <1>8, <1>10 DEF StoppedEarly, Refused, LastNode
  <2> QED
    BY <1>1, <1>2, <1>6, <1>7, <1>10, <2>1 DEF RunInv, Progress, Stopped
<1> QED
  BY <1>9, <1>10

\* The check of the checkpoint, which visits no node.
LEMMA ValidateCheckpointStep == ASSUME RunInv, ValidateCheckpoint PROVE RunInv'
<1>1. /\ pc = "checkpoint" /\ Check(CheckpointFound, "readiness_guard")
      /\ input' = input /\ operator_run' = operator_run /\ terminal' = terminal
      /\ node_visits' = node_visits /\ phase_sequence' = phase_sequence
  BY DEF ValidateCheckpoint, CheckpointFound
<1>2. /\ TypeOK /\ input \in Inputs /\ operator_run = "none" /\ terminal = NoRecord
      /\ PacketPassed /\ CurrentNode = "packet_intake"
  BY <1>1 DEF RunInv, TypeOK, Progress, NothingFound
<1>3. CurrentNode' = "packet_intake"
  BY <1>1, <1>2 DEF CurrentNode
<1>4. CheckpointFound \in Seq(GraphIssue)
  BY <1>2, CheckpointFacts
<1>5. /\ issues' = CheckpointFound /\ issues' \in Seq(GraphIssue)
      /\ CheckpointFound = <<>> => pc' = "readiness_guard"
      /\ CheckpointFound # <<>> => pc' = "terminate"
  BY <1>1, <1>4, CheckFacts
<1>6. TypeOK'
  BY <1>1, <1>2, <1>5 DEF TypeOK, GraphNodeIds
<1>7. CheckpointFound' = CheckpointFound /\ PacketPassed'
  BY <1>1, <1>2, ChecksStay
<1>8. CASE CheckpointFound = <<>>
  <2>1. CheckpointPassed' /\ NothingFound("packet_intake")'
    BY <1>1, <1>2, <1>3, <1>5, <1>7, <1>8 DEF CheckpointPassed, NothingFound
  <2> QED
    BY <1>1, <1>2, <1>5, <1>6, <1>8, <2>1 DEF RunInv, Progress
<1>9. CASE CheckpointFound # <<>>
  <2>1. StoppedEarly' /\ LastNode'
    BY <1>1, <1>2, <1>3, <1>5, <1>7, <1>9 DEF StoppedEarly, Refused, LastNode
  <2> QED
    BY <1>1, <1>2, <1>5, <1>6, <1>9, <2>1 DEF RunInv, Progress, Stopped
<1> QED
  BY <1>8, <1>9

\* The operator runs behind all the guards.
LEMMA OperatorInvocationStep == ASSUME RunInv, OperatorInvocation PROVE RunInv'
<1>1. /\ pc = "operator_invocation" /\ pc' = "trace_recording"
      /\ Visit("operator_invocation", "operator_invocation")
      /\ operator_run' \in RunOutcomes(input.operator_request, Contract, AcceptedScope)
      /\ input' = input /\ issues' = issues /\ terminal' = terminal
  BY DEF OperatorInvocation
<1>2. /\ TypeOK /\ SelectPassed /\ issues = <<>> /\ terminal = NoRecord
  BY <1>1 DEF RunInv, Progress, NothingFound
<1>3. "operator_invocation" \in GraphNodeIds
  BY DEF GraphNodeIds
<1>4. /\ node_visits' \in Seq(GraphNodeIds) /\ phase_sequence' \in Seq(GraphNodeIds)
      /\ Len(node_visits') = Len(phase_sequence') /\ node_visits' # <<>>
      /\ CurrentNode' = "operator_invocation"
  BY <1>1, <1>2, <1>3, VisitFacts DEF TypeOK
<1>5. operator_run' \in OutcomeKinds
  BY <1>1, RunOutcomesFacts
<1>6. TypeOK'
  BY <1>1, <1>2, <1>4, <1>5 DEF TypeOK, GraphNodeIds
<1>7. SelectPassed'
  BY <1>1, <1>2, ChecksStay
<1> QED
  BY <1>1, <1>2, <1>4, <1>5, <1>6, <1>7 DEF RunInv, Progress

\* The outcome of the operator is recorded, and ends the run unless it is a
\* success.
LEMMA TraceRecordingStep == ASSUME RunInv, TraceRecording PROVE RunInv'
<1> DEFINE found == OperatorIssues(operator_run)
<1>1. /\ pc = "trace_recording" /\ Visit("trace_recording", "trace_recording")
      /\ Check(found, "completion_gate")
      /\ input' = input /\ operator_run' = operator_run /\ terminal' = terminal
  BY DEF TraceRecording
<1>2. /\ TypeOK /\ SelectPassed /\ operator_run \in OutcomeKinds /\ terminal = NoRecord
  BY <1>1 DEF RunInv, Progress
<1>3. "trace_recording" \in GraphNodeIds
  BY DEF GraphNodeIds
<1>4. /\ node_visits' \in Seq(GraphNodeIds) /\ phase_sequence' \in Seq(GraphNodeIds)
      /\ Len(node_visits') = Len(phase_sequence') /\ node_visits' # <<>>
      /\ CurrentNode' = "trace_recording"
  BY <1>1, <1>2, <1>3, VisitFacts DEF TypeOK
<1>5. found \in Seq(GraphIssue) /\ (found = <<>> <=> operator_run = "success")
  BY <1>2, OperatorFacts
<1>6. found' = found
  BY <1>1
<1> HIDE DEF found
<1>7. /\ issues' = found /\ issues' \in Seq(GraphIssue)
      /\ found = <<>> => pc' = "completion_gate"
      /\ found # <<>> => pc' = "terminate"
  BY <1>1, <1>5, CheckFacts
<1>8. TypeOK'
  BY <1>1, <1>2, <1>4, <1>7 DEF TypeOK, GraphNodeIds
<1>9. SelectPassed'
  BY <1>1, <1>2, ChecksStay
<1>10. CASE found = <<>>
  <2>1. OperatorPassed'
    BY <1>1, <1>5, <1>9, <1>10 DEF OperatorPassed
  <2> QED
    BY <1>1, <1>2, <1>4, <1>7, <1>8, <1>10, <2>1 DEF RunInv, Progress
<1>11. CASE found # <<>>
  <2>1. StoppedLate' /\ LastNode'
    BY <1>1, <1>2, <1>4, <1>6, <1>7, <1>9, <1>11 DEF StoppedLate, Refused, LastNode, found
  <2> QED
    BY <1>1, <1>2, <1>7, <1>8, <1>11, <2>1 DEF RunInv, Progress, Stopped
<1> QED
  BY <1>10, <1>11

\* The completion gate ends the run, whatever it finds.
LEMMA CompletionGateStep == ASSUME RunInv, CompletionGate PROVE RunInv'
<1>1. /\ pc = "completion_gate" /\ Visit("completion_gate", "completion_gate")
      /\ Check(CompletionIssues, "terminate")
      /\ input' = input /\ operator_run' = operator_run /\ terminal' = terminal
  BY DEF CompletionGate
<1>2. /\ TypeOK /\ input \in Inputs /\ OperatorPassed /\ terminal = NoRecord
  BY <1>1 DEF RunInv, TypeOK, Progress
<1>3. "completion_gate" \in GraphNodeIds
  BY DEF GraphNodeIds
<1>4. /\ node_visits' \in Seq(GraphNodeIds) /\ phase_sequence' \in Seq(GraphNodeIds)
      /\ Len(node_visits') = Len(phase_sequence') /\ node_visits' # <<>>
      /\ CurrentNode' = "completion_gate"
  BY <1>1, <1>2, <1>3, VisitFacts DEF TypeOK
<1>5. CompletionIssues \in Seq(GraphIssue)
  BY <1>2, CompletionFacts
<1>6. issues' = CompletionIssues /\ issues' \in Seq(GraphIssue) /\ pc' = "terminate"
  BY <1>1, <1>5, CheckFacts
<1>7. TypeOK'
  BY <1>1, <1>2, <1>4, <1>6 DEF TypeOK, GraphNodeIds
<1>8. CompletionIssues' = CompletionIssues /\ OperatorPassed'
  BY <1>1, <1>2, ChecksStay DEF OperatorPassed
<1>9. StoppedLate' /\ LastNode'
  BY <1>4, <1>6, <1>8 DEF StoppedLate, LastNode
<1> QED
  BY <1>1, <1>2, <1>6, <1>7, <1>9 DEF RunInv, Progress, Stopped

\* The record of a run has its type.
LEMMA RecordFacts ==
    ASSUME input \in Inputs, issues \in Seq(GraphIssue), operator_run \in OutcomeKinds \cup {"none"}
    PROVE  /\ StoppedRecord \in TerminalOutcomeRecord
           /\ StoppedRecord.terminal_outcome = ClassifyTerminalOutcome(issues)
<1>1. ClassifyTerminalOutcome(issues) \in TerminalOutcomes
  BY ClassifyFacts
<1>2. InterruptKindForIssue(issues[1]) \in InterruptKinds
  BY DEF InterruptKindForIssue, InterruptKinds
<1>3. state \in GraphState
  BY InputFacts
<1> QED
  BY <1>1, <1>2, <1>3 DEF StoppedRecord, TerminalOutcomeRecord, InterruptKinds, GraphState

\* The end of the run records what stopped it.
LEMMA TerminateStep == ASSUME RunInv, Terminate PROVE RunInv'
<1>1. /\ pc = "terminate" /\ pc' = "done" /\ terminal' = StoppedRecord
      /\ input' = input /\ issues' = issues /\ operator_run' = operator_run
      /\ \/ UNCHANGED <<node_visits, phase_sequence>>
         \/ Visit("terminal_outcome", "terminal_outcome")
  BY DEF Terminate, StoppedRecord
<1>2. TypeOK /\ Stopped
  BY <1>1 DEF RunInv, Progress
<1>3. /\ node_visits' \in Seq(GraphNodeIds) /\ phase_sequence' \in Seq(GraphNodeIds)
      /\ Len(node_visits') = Len(phase_sequence')
  <2>1. "terminal_outcome" \in GraphNodeIds
    BY DEF GraphNodeIds
  <2> QED
    BY <1>1, <1>2, <2>1, VisitFacts DEF TypeOK
<1>4. terminal' \in TerminalOutcomeRecord
  BY <1>1, <1>2, RecordFacts DEF TypeOK
<1>5. TypeOK'
  BY <1>1, <1>2, <1>3, <1>4 DEF TypeOK
<1>6. Stopped'
  BY <1>1, <1>2, ChecksStay DEF Stopped, StoppedEarly, StoppedLate, Refused, OperatorPassed
<1>7. terminal' = StoppedRecord'
  BY <1>1 DEF StoppedRecord, state
<1> QED
  BY <1>1, <1>5, <1>6, <1>7 DEF RunInv, Progress

\* Every step keeps the invariant.
LEMMA GraphStep == RunInv /\ [Next]_vars => RunInv'
<1> SUFFICES ASSUME RunInv, [Next]_vars PROVE RunInv'
  OBVIOUS
<1>1. CASE UNCHANGED vars
  <2>1. /\ input' = input /\ pc' = pc /\ node_visits' = node_visits
        /\ phase_sequence' = phase_sequence /\ issues' = issues
        /\ operator_run' = operator_run /\ terminal' = terminal
    BY <1>1 DEF vars
  <2>2. Progress'
    BY <2>1, ChecksStay DEF RunInv, Progress, NothingFound, CurrentNode, Stopped, StoppedEarly,
       StoppedLate, Refused, OperatorPassed, LastNode, StoppedRecord, state
  <2> QED
    BY <2>1, <2>2 DEF RunInv, TypeOK
<1>2. CASE PacketIntake
  BY <1>2, PacketIntakeStep
<1>3. CASE ValidateCheckpoint
  BY <1>3, ValidateCheckpointStep
<1>4. CASE ReadinessGuard
  BY <1>4, ReadinessGuardStep
<1>5. CASE CoordinationGuard
  BY <1>5, CoordinationGuardStep
<1>6. CASE OperatorContractSelect
  BY <1>6, OperatorContractSelectStep
<1>7. CASE OperatorInvocation
  BY <1>7, OperatorInvocationStep
<1>8. CASE TraceRecording
  BY <1>8, TraceRecordingStep
<1>9. CASE CompletionGate
  BY <1>9, CompletionGateStep
<1>10. CASE Terminate
  BY <1>10, TerminateStep
<1> QED
  BY <1>1, <1>2, <1>3, <1>4, <1>5, <1>6, <1>7, <1>8, <1>9, <1>10 DEF Next

\* The invariant holds always.
LEMMA GraphInvariant == Spec => []RunInv
BY GraphInit, GraphStep, PTL DEF Spec

-----------------------------------------------------------------------------
(* What the invariant says of a run that stopped.                          *)

\* The guards a run has passed have found nothing.
LEMMA PassedFacts ==
    ASSUME input \in Inputs, SelectPassed
    PROVE  /\ state.active_work_packet_ref /\ state.accepted_boundary_pack_ref_set
           /\ state.authority_limit = "execution_state_only"
           /\ ~ state.stale_projection_ref_set /\ ~ state.fault_record_ref_set
           /\ ~ state.contested_claims
           /\ policy.require_readiness_proof => state.proof_result_ref_set
           /\ checkpoint # NoCheckpoint =>
                /\ ~ checkpoint.presented_as_authority /\ ~ checkpoint.claims_readiness
                /\ checkpoint.freshness_basis_ref_set = policy.accepted_freshness_basis_ref_set
<1>1. /\ PacketFound = <<>> /\ CheckpointFound = <<>> /\ ReadinessIssues = <<>>
      /\ CoordinationIssues = <<>>
  BY DEF SelectPassed, CoordinationPassed, ReadinessPassed, CheckpointPassed, PacketPassed
<1>2. SeveritiesIn(PacketFound) = {}
  BY <1>1 DEF SeveritiesIn
<1> QED
  BY <1>1, <1>2, PacketFacts, CheckpointFacts, ReadinessFacts, CoordinationFacts

\* A run that a guard, the operator or the gate refused is no success.
LEMMA StoppedSuccess ==
    ASSUME input \in Inputs, issues \in Seq(GraphIssue), Stopped,
           ClassifyTerminalOutcome(issues) = "terminal_success"
    PROVE  OperatorPassed /\ CompletionIssues = <<>> /\ issues = <<>>
<1>1. issues = <<>>
  BY ClassifyFacts
<1> QED
  BY <1>1 DEF Stopped, StoppedEarly, StoppedLate, Refused

\* The evidence of the packet and the checkpoint is found before anything else
\* can end the run.
LEMMA StoppedWorst ==
    ASSUME input \in Inputs, issues \in Seq(GraphIssue), Stopped
    PROVE  LET outcome == ClassifyTerminalOutcome(issues)
           IN  /\ state.fault_record_ref_set => outcome = "terminal_fault"
               /\ state.stale_projection_ref_set => outcome \in {"terminal_fault", "terminal_stale"}
               /\ /\ checkpoint # NoCheckpoint
                  /\ ~ (outcome = "terminal_stale" /\ state.stale_projection_ref_set)
                  => /\ checkpoint.claims_readiness => outcome = "terminal_fault"
                     /\ checkpoint.presented_as_authority
                          => outcome \in {"terminal_fault", "terminal_interrupt"}
<1> DEFINE outcome == ClassifyTerminalOutcome(issues)
<1>1. /\ "fault" \in SeveritiesIn(issues) <=> outcome = "terminal_fault"
      /\ /\ "interrupt" \notin SeveritiesIn(issues)
         /\ "stale" \in SeveritiesIn(issues)
         => outcome \in {"terminal_fault", "terminal_stale"}
      /\ "interrupt" \in SeveritiesIn(issues)
         => outcome \in {"terminal_fault", "terminal_interrupt"}
  BY ClassifyFacts
<1> HIDE DEF outcome
<1>2. CASE Refused(PacketFound)
  <2>1. issues = PacketFound /\ issues # <<>>
    BY <1>2 DEF Refused
  <2>2. SeveritiesIn(issues) \subseteq {"fault", "stale"} /\ SeveritiesIn(issues) # {}
    BY <2>1, PacketFacts, EmptyFacts
  <2>3. /\ state.fault_record_ref_set => "fault" \in SeveritiesIn(issues)
        /\ "stale" \in SeveritiesIn(issues) <=> state.stale_projection_ref_set
    BY <2>1, PacketFacts
  <2> QED
    BY <1>1, <2>2, <2>3 DEF outcome
<1>3. CASE PacketPassed
  <2>1. PacketFound = <<>> /\ SeveritiesIn(PacketFound) = {}
    BY <1>3 DEF PacketPassed, SeveritiesIn
  <2>2. ~ state.fault_record_ref_set /\ ~ state.stale_projection_ref_set
    BY <2>1, PacketFacts
  <2>3. checkpoint # NoCheckpoint /\ checkpoint.claims_readiness =>
          /\ "fault" \in SeveritiesIn(CheckpointFound)
          /\ CheckpointFound # <<>>
    BY CheckpointFacts
  <2>7. checkpoint # NoCheckpoint /\ checkpoint.presented_as_authority =>
          /\ "interrupt" \in SeveritiesIn(CheckpointFound)
          /\ CheckpointFound # <<>>
    BY CheckpointFacts
  <2>4. CASE Refused(CheckpointFound)
    BY <1>1, <2>2, <2>3, <2>4, <2>7 DEF Refused, outcome
  <2>5. CASE CheckpointFound = <<>>
    BY <2>2, <2>3, <2>5, <2>7
  <2>6. CheckpointFound = <<>> \/ Refused(CheckpointFound) \/ PacketFound # <<>>
    BY DEF Stopped, StoppedEarly, StoppedLate, Refused, OperatorPassed, SelectPassed,
           CoordinationPassed, ReadinessPassed, CheckpointPassed
  <2> QED
    BY <2>1, <2>4, <2>5, <2>6
<1>4. Refused(PacketFound) \/ PacketPassed
  BY DEF Stopped, StoppedEarly, StoppedLate, OperatorPassed, SelectPassed,
         CoordinationPassed, ReadinessPassed, CheckpointPassed
<1> QED
  BY <1>2, <1>3, <1>4

\* A contested claim is blocked only where a proof of readiness is missing, and
\* never passed over.
LEMMA StoppedContested ==
    ASSUME input \in Inputs, issues \in Seq(GraphIssue), Stopped, state.contested_claims
    PROVE  LET outcome == ClassifyTerminalOutcome(issues)
           IN  \/ outcome \in {"terminal_fault", "terminal_interrupt", "terminal_stale"}
               \/ /\ outcome = "terminal_blocked"
                  /\ policy.require_readiness_proof /\ ~ state.proof_result_ref_set
<1> DEFINE outcome == ClassifyTerminalOutcome(issues)
<1>1. CoordinationIssues # <<>> /\ "interrupt" \in SeveritiesIn(CoordinationIssues)
  BY CoordinationFacts
<1>2. \/ Refused(PacketFound) \/ Refused(CheckpointFound)
      \/ Refused(ReadinessIssues) \/ Refused(CoordinationIssues)
  BY <1>1 DEF Stopped, StoppedEarly, StoppedLate, OperatorPassed, SelectPassed, CoordinationPassed
<1>3. /\ outcome \in TerminalOutcomes
      /\ outcome = "terminal_success" <=> issues = <<>>
      /\ outcome = "terminal_blocked" => SeveritiesIn(issues) = {"blocked"}
  BY ClassifyFacts
<1> HIDE DEF outcome
<1>4. issues # <<>>
  BY <1>2 DEF Refused
<1>5. outcome = "terminal_blocked" => issues = ReadinessIssues
  BY <1>1, <1>2, <1>3, PacketFacts, CheckpointFacts DEF Refused
<1>6. outcome = "terminal_blocked" =>
        policy.require_readiness_proof /\ ~ state.proof_result_ref_set
  BY <1>3, <1>5, ReadinessFacts
<1> QED
  BY <1>3, <1>4, <1>6 DEF outcome, TerminalOutcomes

\* Only three checks interrupt, and their issue is the first one.
LEMMA StoppedInterrupt ==
    ASSUME input \in Inputs, issues \in Seq(GraphIssue), Stopped,
           ClassifyTerminalOutcome(issues) = "terminal_interrupt"
    PROVE  \/ /\ issues[1].issue_kind = "checkpoint_authority_confusion"
              /\ checkpoint.presented_as_authority
           \/ /\ issues[1].issue_kind = "contested_coordination"
              /\ state.contested_claims
           \/ /\ issues[1].issue_kind = "ambiguous_identity"
              /\ operator_run = "sop_first_interrupt"
<1>1. "interrupt" \in SeveritiesIn(issues) /\ "fault" \notin SeveritiesIn(issues)
  BY ClassifyFacts
<1>2. issues # PacketFound /\ issues # ReadinessIssues /\ issues # SelectIssues
  BY <1>1, PacketFacts, ReadinessFacts, SelectFacts
<1>3. issues # CompletionIssues
  BY <1>1, CompletionFacts
<1>4. CASE issues = CheckpointFound
  BY <1>1, <1>4, CheckpointFacts
<1>5. CASE issues = CoordinationIssues
  BY <1>1, <1>5, CoordinationFacts
<1>6. CASE operator_run \in OutcomeKinds /\ issues = OperatorIssues(operator_run)
  BY <1>1, <1>6, OperatorFacts
<1> QED
  BY <1>2, <1>3, <1>4, <1>5, <1>6 DEF Stopped, StoppedEarly, StoppedLate, Refused

-----------------------------------------------------------------------------
(* The theorems.                                                           *)

\* A run that is not over has no outcome.
LEMMA OutcomeFacts ==
    ASSUME RunInv
    PROVE  /\ input \in Inputs /\ issues \in Seq(GraphIssue)
           /\ Outcome # "none" =>
                /\ pc = "done" /\ Stopped /\ terminal = StoppedRecord
                /\ Outcome = ClassifyTerminalOutcome(issues)
           /\ Outcome = "none" => terminal = NoRecord
<1>1. /\ input \in Inputs /\ issues \in Seq(GraphIssue)
      /\ operator_run \in OutcomeKinds \cup {"none"}
  BY DEF RunInv, TypeOK
<1>2. CASE pc # "done"
  BY <1>1, <1>2 DEF RunInv, Outcome, NoRecord
<1>3. CASE pc = "done"
  <2>1. Stopped /\ terminal = StoppedRecord
    BY <1>3 DEF RunInv, Progress
  <2>2. Outcome = ClassifyTerminalOutcome(issues) /\ Outcome \in TerminalOutcomes
    BY <1>1, <2>1, RecordFacts DEF Outcome, TerminalOutcomeRecord
  <2> QED
    BY <1>1, <1>3, <2>1, <2>2 DEF TerminalOutcomes
<1> QED
  BY <1>2, <1>3

\* The operator is called only behind every guard before it, and a run that
\* reports success has passed all of them, the operator and the gate.
THEOREM SuccessCorrect == Spec => []SuccessIsGuarded
<1>1. RunInv => SuccessIsGuarded
  <2> SUFFICES ASSUME RunInv PROVE SuccessIsGuarded
    OBVIOUS
  <2>1. TypeOK /\ input \in Inputs
    BY DEF RunInv, TypeOK
  <2>2. OperatorNeedsGuards
    <3>1. operator_run # "none" => SelectPassed
      BY DEF RunInv, TypeOK, Progress, NothingFound, Stopped, StoppedEarly, StoppedLate,
             OperatorPassed, GraphNodeIds
    <3> QED
      BY <2>1, <3>1, PassedFacts DEF OperatorNeedsGuards
  <2>3. SuccessIsEarned
    <3> SUFFICES ASSUME Outcome = "terminal_success" PROVE SuccessIsEarned
      BY DEF SuccessIsEarned
    <3>1. Stopped /\ terminal = StoppedRecord
          /\ ClassifyTerminalOutcome(issues) = "terminal_success" /\ issues \in Seq(GraphIssue)
      BY OutcomeFacts
    <3>2. SelectPassed /\ operator_run = "success" /\ CompletionIssues = <<>>
      BY <2>1, <3>1, StoppedSuccess DEF OperatorPassed
    <3>3. terminal.operator_trace_ref_set
      BY <3>1, <3>2 DEF StoppedRecord
    <3> QED
      BY <2>1, <3>2, <3>3, PassedFacts, CompletionFacts DEF SuccessIsEarned
  <2> QED
    BY <2>1, <2>2, <2>3 DEF SuccessIsGuarded
<1> QED
  BY <1>1, GraphInvariant, PTL

\* Fault records, stale projections, a checkpoint that says too much and a
\* contested claim decide the outcome, whatever else is wrong, unless a check
\* before the one that looks at them has ended the run.
THEOREM WorstCorrect == Spec => []WorstEvidenceDecides
<1>1. RunInv => WorstEvidenceDecides
  <2> SUFFICES ASSUME RunInv, Outcome # "none" PROVE WorstEvidenceDecides
    BY DEF WorstEvidenceDecides
  <2>1. /\ input \in Inputs /\ issues \in Seq(GraphIssue) /\ Stopped
        /\ Outcome = ClassifyTerminalOutcome(issues)
    BY OutcomeFacts
  <2>2. /\ state.fault_record_ref_set => Outcome = "terminal_fault"
        /\ state.stale_projection_ref_set => Outcome \in {"terminal_fault", "terminal_stale"}
        /\ /\ checkpoint # NoCheckpoint
           /\ ~ (Outcome = "terminal_stale" /\ state.stale_projection_ref_set)
           => /\ checkpoint.claims_readiness => Outcome = "terminal_fault"
              /\ checkpoint.presented_as_authority
                   => Outcome \in {"terminal_fault", "terminal_interrupt"}
    BY <2>1, StoppedWorst
  <2>3. state.contested_claims =>
          \/ Outcome \in {"terminal_fault", "terminal_interrupt", "terminal_stale"}
          \/ /\ Outcome = "terminal_blocked"
             /\ policy.require_readiness_proof /\ ~ state.proof_result_ref_set
    BY <2>1, StoppedContested
  <2> QED
    BY <2>2, <2>3 DEF WorstEvidenceDecides, StaleStateDecided, MissingProofDecided
<1> QED
  BY <1>1, GraphInvariant, PTL

\* An interrupt context names the check that asked for judgment.
THEOREM InterruptCorrect == Spec => []InterruptNamesItsCause
<1>1. RunInv => InterruptNamesItsCause
  <2> SUFFICES ASSUME RunInv PROVE InterruptNamesItsCause
    OBVIOUS
  <2>1. CASE Outcome = "none"
    BY <2>1 DEF InterruptNamesItsCause
  <2>2. CASE Outcome # "none"
    <3>1. /\ Stopped /\ terminal = StoppedRecord /\ input \in Inputs /\ issues \in Seq(GraphIssue)
          /\ Outcome = ClassifyTerminalOutcome(issues)
      BY <2>2, OutcomeFacts
    <3>2. CASE Outcome # "terminal_interrupt"
      <4>1. terminal.interrupt_kind = "none"
        BY <3>1, <3>2 DEF StoppedRecord
      <4> QED
        BY <3>2, <4>1 DEF InterruptNamesItsCause
    <3>3. CASE Outcome = "terminal_interrupt"
      <4>1. /\ terminal.interrupt_kind = InterruptKindForIssue(issues[1])
            /\ terminal.pending_interrupt_ref
        BY <3>1, <3>3 DEF StoppedRecord
      <4>2. \/ /\ issues[1].issue_kind = "checkpoint_authority_confusion"
               /\ checkpoint.presented_as_authority
            \/ /\ issues[1].issue_kind = "contested_coordination"
               /\ state.contested_claims
            \/ /\ issues[1].issue_kind = "ambiguous_identity"
               /\ operator_run = "sop_first_interrupt"
        BY <3>1, <3>3, StoppedInterrupt
      <4>3. InterruptKindForIssue(issues[1]) # "none"
        BY DEF InterruptKindForIssue
      <4> QED
        BY <3>3, <4>1, <4>2, <4>3 DEF InterruptNamesItsCause, InterruptKindForIssue
    <3> QED
      BY <3>2, <3>3
  <2> QED
    BY <2>1, <2>2
<1> QED
  BY <1>1, GraphInvariant, PTL

-----------------------------------------------------------------------------
(* The refinement of the graph contract.                                   *)

\* The verdict of a run with these issues and this outcome of the operator: that
\* of the issues, while the operator has not run or has succeeded.
VerdictOf(found, run) ==
    IF found # <<>> \/ run = "none" THEN ClassifyTerminalOutcome(found)
    ELSE ClassifyTerminalOutcome(OperatorIssues(run))

LEMMA VerdictFacts ==
    ASSUME NEW found \in Seq(GraphIssue), NEW run \in OutcomeKinds \cup {"none"}
    PROVE  /\ VerdictOf(found, run) \in TerminalOutcomes
           /\ found # <<>> => VerdictOf(found, run) # "terminal_success"
           /\ found = <<>> /\ run \in {"none", "success"} =>
                VerdictOf(found, run) = "terminal_success"
           /\ found = <<>> /\ run \in OutcomeKinds =>
                /\ VerdictOf(found, run) = ClassifyTerminalOutcome(OperatorIssues(run))
                /\ VerdictOf(found, run) # "terminal_stale"
                /\ VerdictOf(found, run) = "terminal_success" <=> run = "success"
<1>1. /\ ClassifyTerminalOutcome(found) \in TerminalOutcomes
      /\ ClassifyTerminalOutcome(found) = "terminal_success" <=> found = <<>>
  BY ClassifyFacts
<1>2. ASSUME run \in OutcomeKinds
      PROVE  LET v == ClassifyTerminalOutcome(OperatorIssues(run))
             IN  /\ v \in TerminalOutcomes /\ v # "terminal_stale"
                 /\ v = "terminal_success" <=> run = "success"
  <2>1. /\ OperatorIssues(run) \in Seq(GraphIssue)
        /\ OperatorIssues(run) = <<>> <=> run = "success"
        /\ "stale" \notin SeveritiesIn(OperatorIssues(run))
    BY <1>2, OperatorFacts
  <2>2. ~ HasSeverity(OperatorIssues(run), "stale")
    BY <2>1, HasFacts
  <2> QED
    BY <2>1, <2>2, ClassifyFacts DEF ClassifyTerminalOutcome
<1>3. "none" \notin OutcomeKinds /\ "success" \in OutcomeKinds
  BY DEF OutcomeKinds
<1> QED
  BY <1>1, <1>2, <1>3 DEF VerdictOf

\* The run starts where the contract starts.
LEMMA ContractInit == Init => GC!Init
<1> SUFFICES ASSUME Init PROVE GC!Init
  OBVIOUS
<1>1. CurrentNode = "start"
  BY DEF Init, CurrentNode
<1>2. Verdict = "terminal_success"
  BY DEF Init, Verdict, ClassifyTerminalOutcome, HasSeverity
<1> QED
  BY <1>1, <1>2 DEF GC!Init

\* The verdict before and after a step.
LEMMA VerdictStep ==
    ASSUME RunInv, RunInv'
    PROVE  /\ Verdict = VerdictOf(issues, operator_run)
           /\ Verdict' = VerdictOf(issues', operator_run')
           /\ issues \in Seq(GraphIssue) /\ operator_run \in OutcomeKinds \cup {"none"}
           /\ issues' \in Seq(GraphIssue) /\ operator_run' \in OutcomeKinds \cup {"none"}
           /\ Verdict \in TerminalOutcomes /\ Verdict' \in TerminalOutcomes
           /\ issues' # <<>> => Verdict' # "terminal_success"
           /\ issues = <<>> /\ operator_run \in {"none", "success"} =>
                Verdict = "terminal_success"
<1>1. /\ issues \in Seq(GraphIssue) /\ operator_run \in OutcomeKinds \cup {"none"}
      /\ issues' \in Seq(GraphIssue) /\ operator_run' \in OutcomeKinds \cup {"none"}
  BY DEF RunInv, TypeOK
<1>2. Verdict = VerdictOf(issues, operator_run) /\ Verdict' = VerdictOf(issues', operator_run')
  BY DEF Verdict, VerdictOf
<1> QED
  BY <1>1, <1>2, VerdictFacts

\* A guard that is entered after a success is an edge of the contract.
LEMMA SuccessEdge ==
    ASSUME RunInv, RunInv', NEW node \in GraphNodeIds, node # "terminal_outcome",
           CurrentNode' = node, <<CurrentNode, node>> \in GC!SuccessEdges,
           issues = <<>>, operator_run \in {"none", "success"}
    PROVE  GC!FollowSuccess
BY VerdictStep DEF GC!FollowSuccess, GC!GraphNodeIds, GraphNodeIds,
                   GC!TerminalOutcomes, TerminalOutcomes

\* Every step of the run is a step of the contract, or leaves its node and its
\* verdict alone.
LEMMA ContractStep == RunInv /\ RunInv' /\ [Next]_vars => [GC!Next]_(GC!vars)
<1> SUFFICES ASSUME RunInv, RunInv', [Next]_vars
             PROVE  GC!Next \/ (CurrentNode' = CurrentNode /\ Verdict' = Verdict)
  BY DEF GC!vars
<1>0. /\ node_visits \in Seq(GraphNodeIds) /\ phase_sequence \in Seq(GraphNodeIds)
      /\ Len(node_visits) = Len(phase_sequence) /\ input \in Inputs
  BY DEF RunInv, TypeOK
<1>1. CASE UNCHANGED vars
  BY <1>1 DEF vars, CurrentNode, Verdict
<1>2. CASE PacketIntake
  <2>1. CurrentNode = "start"
    BY <1>2 DEF PacketIntake, RunInv, Progress, NothingFound
  <2>2. CurrentNode' = "packet_intake"
    <3>1. Visit("packet_intake", state.graph_phase)
      BY <1>2 DEF PacketIntake
    <3>2. "packet_intake" \in GraphNodeIds /\ state.graph_phase \in GraphNodeIds
      BY <1>0, InputFacts DEF GraphNodeIds, GraphState
    <3> QED
      BY <1>0, <3>1, <3>2, VisitFacts
  <2>3. GC!Enter
    BY <2>1, <2>2, VerdictStep DEF GC!Enter, GC!TerminalOutcomes, TerminalOutcomes
  <2> QED
    BY <2>3 DEF GC!Next
<1>3. CASE ValidateCheckpoint
  <2>1. /\ CurrentNode = "packet_intake" /\ issues = <<>> /\ operator_run = "none"
        /\ CurrentNode' = CurrentNode /\ operator_run' = operator_run
    BY <1>3 DEF ValidateCheckpoint, RunInv, Progress, NothingFound, CurrentNode
  <2>2. CASE issues' = <<>>
    BY <2>1, <2>2, VerdictStep
  <2>3. CASE issues' # <<>>
    <3>1. GC!Reject
      BY <2>1, <2>3, VerdictStep DEF GC!Reject, GC!Refusals, GC!TerminalOutcomes, TerminalOutcomes
    <3> QED
      BY <3>1 DEF GC!Next
  <2> QED
    BY <2>2, <2>3
<1>4. CASE ReadinessGuard
  <2>1. /\ CurrentNode = "packet_intake" /\ issues = <<>> /\ operator_run = "none"
        /\ Visit("readiness_guard", "readiness_guard")
    BY <1>4 DEF ReadinessGuard, RunInv, Progress, NothingFound
  <2>2. CurrentNode' = "readiness_guard" /\ "readiness_guard" \in GraphNodeIds
    BY <1>0, <2>1, VisitFacts DEF GraphNodeIds
  <2> QED
    BY <2>1, <2>2, SuccessEdge DEF GC!SuccessEdges, GC!Next
<1>5. CASE CoordinationGuard
  <2>1. /\ CurrentNode = "readiness_guard" /\ issues = <<>> /\ operator_run = "none"
        /\ Visit("coordination_guard", "coordination_guard")
    BY <1>5 DEF CoordinationGuard, RunInv, Progress, NothingFound
  <2>2. CurrentNode' = "coordination_guard" /\ "coordination_guard" \in GraphNodeIds
    BY <1>0, <2>1, VisitFacts DEF GraphNodeIds
  <2> QED
    BY <2>1, <2>2, SuccessEdge DEF GC!SuccessEdges, GC!Next
<1>6. CASE OperatorContractSelect
  <2>1. /\ CurrentNode = "coordination_guard" /\ issues = <<>> /\ operator_run = "none"
        /\ Visit("operator_contract_select", "operator_contract_select")
    BY <1>6 DEF OperatorContractSelect, RunInv, Progress, NothingFound
  <2>2. CurrentNode' = "operator_contract_select" /\ "operator_contract_select" \in GraphNodeIds
    BY <1>0, <2>1, VisitFacts DEF GraphNodeIds
  <2> QED
    BY <2>1, <2>2, SuccessEdge DEF GC!SuccessEdges, GC!Next
<1>7. CASE OperatorInvocation
  <2>1. /\ CurrentNode = "operator_contract_select" /\ issues = <<>> /\ operator_run = "none"
        /\ Visit("operator_invocation", "operator_invocation")
    BY <1>7 DEF OperatorInvocation, RunInv, Progress, NothingFound
  <2>2. CurrentNode' = "operator_invocation" /\ "operator_invocation" \in GraphNodeIds
    BY <1>0, <2>1, VisitFacts DEF GraphNodeIds
  <2> QED
    BY <2>1, <2>2, SuccessEdge DEF GC!SuccessEdges, GC!Next
<1>8. CASE TraceRecording
  <2>1. /\ CurrentNode = "operator_invocation" /\ issues = <<>> /\ operator_run \in OutcomeKinds
        /\ Visit("trace_recording", "trace_recording")
        /\ issues' = OperatorIssues(operator_run) /\ operator_run' = operator_run
    BY <1>8 DEF TraceRecording, RunInv, Progress, Check
  <2>2. CurrentNode' = "trace_recording" /\ "trace_recording" \in GraphNodeIds
    BY <1>0, <2>1, VisitFacts DEF GraphNodeIds
  <2>3. CASE operator_run = "success"
    BY <2>1, <2>2, <2>3, SuccessEdge DEF GC!SuccessEdges, GC!Next
  <2>4. CASE operator_run # "success"
    <3>1. issues' # <<>>
      BY <2>1, <2>4, OperatorFacts
    <3>2. /\ Verdict = ClassifyTerminalOutcome(OperatorIssues(operator_run))
          /\ Verdict # "terminal_stale" /\ Verdict # "terminal_success"
      BY <2>1, <2>4, VerdictStep, VerdictFacts
    <3>3. Verdict' = Verdict
      BY <2>1, <3>1, <3>2, VerdictStep DEF VerdictOf
    <3>4. <<CurrentNode, Verdict, "trace_recording">> \in GC!RefusalEdges
      BY <2>1, <3>2, VerdictStep DEF GC!RefusalEdges, GC!Refusals, GC!TerminalOutcomes,
                                     TerminalOutcomes
    <3>5. GC!FollowRefusal
      BY <2>2, <3>3, <3>4 DEF GC!FollowRefusal, GC!GraphNodeIds, GraphNodeIds
    <3> QED
      BY <3>5 DEF GC!Next
  <2> QED
    BY <2>3, <2>4
<1>9. CASE CompletionGate
  <2>1. /\ CurrentNode = "trace_recording" /\ issues = <<>> /\ operator_run = "success"
        /\ Visit("completion_gate", "completion_gate")
    BY <1>9 DEF CompletionGate, RunInv, Progress, OperatorPassed
  <2>2. CurrentNode' = "completion_gate" /\ "completion_gate" \in GraphNodeIds
    BY <1>0, <2>1, VisitFacts DEF GraphNodeIds
  <2> QED
    BY <2>1, <2>2, SuccessEdge DEF GC!SuccessEdges, GC!Next
<1>10. CASE Terminate
  <2>1. /\ issues' = issues /\ operator_run' = operator_run
        /\ \/ UNCHANGED <<node_visits, phase_sequence>>
           \/ Visit("terminal_outcome", "terminal_outcome")
        /\ Stopped /\ LastNode
    BY <1>10 DEF Terminate, RunInv, Progress
  <2>2. Verdict' = Verdict
    BY <2>1 DEF Verdict
  <2>3. CASE UNCHANGED <<node_visits, phase_sequence>>
    BY <2>2, <2>3 DEF CurrentNode
  <2>4. CASE Visit("terminal_outcome", "terminal_outcome")
    <3>1. CurrentNode' = "terminal_outcome" /\ "terminal_outcome" \in GraphNodeIds
      BY <1>0, <2>4, VisitFacts DEF GraphNodeIds
    <3>2. CASE issues = <<>>
      <4>1. CurrentNode = "completion_gate" /\ operator_run = "success"
        BY <2>1, <3>2 DEF LastNode, Stopped, StoppedEarly, StoppedLate, Refused, OperatorPassed
      <4>2. Verdict = "terminal_success"
        BY <3>2, <4>1, VerdictStep
      <4>3. GC!FollowSuccess
        BY <2>2, <3>1, <4>1, <4>2 DEF GC!FollowSuccess, GC!SuccessEdges, GC!GraphNodeIds,
                                      GraphNodeIds
      <4> QED
        BY <4>3 DEF GC!Next
    <3>3. CASE issues # <<>>
      <4>1. Verdict # "terminal_success" /\ Verdict \in TerminalOutcomes
        BY <3>3, VerdictStep, VerdictFacts
      <4>2. CurrentNode \in {"packet_intake", "readiness_guard", "coordination_guard",
                             "operator_contract_select", "trace_recording", "completion_gate"}
        BY <2>1 DEF LastNode
      <4>3. <<CurrentNode, Verdict, "terminal_outcome">> \in GC!RefusalEdges
        BY <4>1, <4>2 DEF GC!RefusalEdges, GC!Refusals, GC!TerminalOutcomes, TerminalOutcomes
      <4>4. GC!FollowRefusal
        BY <2>2, <3>1, <4>3 DEF GC!FollowRefusal, GC!GraphNodeIds, GraphNodeIds
      <4> QED
        BY <4>4 DEF GC!Next
    <3> QED
      BY <3>2, <3>3
  <2> QED
    BY <2>1, <2>3, <2>4
<1> QED
  BY <1>1, <1>2, <1>3, <1>4, <1>5, <1>6, <1>7, <1>8, <1>9, <1>10 DEF Next

\* The run walks along the edges of the accepted contract, for every contract
\* and every input: it implements GraphContract.
THEOREM ContractCorrect == Spec => FollowsGraphContract
BY ContractInit, ContractStep, GraphInvariant, PTL DEF Spec, FollowsGraphContract, GC!Spec

=============================================================================
