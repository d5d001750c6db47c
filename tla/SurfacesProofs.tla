---------------------------- MODULE SurfacesProofs ----------------------------
(***************************************************************************)
(* Theorems about Surfaces, for every packet, action and display.  A       *)
(* record is what one of the twelve projectors makes of some packet        *)
(* (DisplayInv); the rest is about the cascades and the issues that they   *)
(* find, and about what a projector may take and show (ProjectorFacts).    *)
(***************************************************************************)
EXTENDS Surfaces, TLAPS

-----------------------------------------------------------------------------
(* Cascades and issues.                                                    *)

LEMMA First3 ==
    ASSUME NEW c1, NEW v1, NEW c2, NEW v2, NEW c3, NEW v3, NEW o
    PROVE  FirstOf(<< <<c1, v1>>, <<c2, v2>>, <<c3, v3>> >>, o)
               = IF c1 THEN v1 ELSE IF c2 THEN v2 ELSE IF c3 THEN v3 ELSE o
  BY DEF FirstOf

LEMMA First4 ==
    ASSUME NEW c1, NEW v1, NEW c2, NEW v2, NEW c3, NEW v3, NEW c4, NEW v4, NEW o
    PROVE  FirstOf(<< <<c1, v1>>, <<c2, v2>>, <<c3, v3>>, <<c4, v4>> >>, o)
               = IF c1 THEN v1 ELSE IF c2 THEN v2 ELSE IF c3 THEN v3 ELSE IF c4 THEN v4 ELSE o
  BY DEF FirstOf

LEMMA First7 ==
    ASSUME NEW c1, NEW v1, NEW c2, NEW v2, NEW c3, NEW v3, NEW c4, NEW v4, NEW c5, NEW v5,
           NEW c6, NEW v6, NEW c7, NEW v7, NEW o
    PROVE  FirstOf(<< <<c1, v1>>, <<c2, v2>>, <<c3, v3>>, <<c4, v4>>, <<c5, v5>>, <<c6, v6>>, <<c7, v7>> >>, o)
               = IF c1 THEN v1 ELSE IF c2 THEN v2 ELSE IF c3 THEN v3 ELSE IF c4 THEN v4
                 ELSE IF c5 THEN v5 ELSE IF c6 THEN v6 ELSE IF c7 THEN v7 ELSE o
<1> DEFINE cases == << <<c1, v1>>, <<c2, v2>>, <<c3, v3>>, <<c4, v4>>, <<c5, v5>>, <<c6, v6>>, <<c7, v7>> >>
           holding == {i \in 1 .. 7 : cases[i][1]}
<1>1. Len(cases) = 7
  OBVIOUS
<1>2. /\ 1 \in holding <=> c1
      /\ 2 \in holding <=> c2
      /\ 3 \in holding <=> c3
      /\ 4 \in holding <=> c4
      /\ 5 \in holding <=> c5
      /\ 6 \in holding <=> c6
      /\ 7 \in holding <=> c7
  OBVIOUS
<1>3. /\ cases[1][2] = v1 /\ cases[2][2] = v2 /\ cases[3][2] = v3 /\ cases[4][2] = v4
      /\ cases[5][2] = v5 /\ cases[6][2] = v6 /\ cases[7][2] = v7
  OBVIOUS
<1>4. FirstOf(cases, o) = IF holding = {} THEN o
                          ELSE cases[CHOOSE i \in holding : \A j \in holding : i <= j][2]
  BY <1>1 DEF FirstOf
<1>5. holding \subseteq {1, 2, 3, 4, 5, 6, 7}
  OBVIOUS
<1> HIDE DEF cases, holding
<1>6. ASSUME NEW n \in holding, \A j \in holding : n <= j
      PROVE  FirstOf(cases, o) = cases[n][2]
  <2> DEFINE m == CHOOSE i \in holding : \A j \in holding : i <= j
  <2>0. m \in holding /\ \A j \in holding : m <= j
    BY <1>6
  <2> HIDE DEF m
  <2>1. m = n
    BY <1>5, <1>6, <2>0
  <2> QED BY <1>4, <1>6, <2>1 DEF m
<1>7. CASE c1
  <2>1. \A j \in holding : 1 <= j
    BY <1>5
  <2> QED BY <1>2, <1>3, <1>6, <1>7, <2>1 DEF cases
<1>8. CASE ~c1 /\ c2
  <2>1. \A j \in holding : 2 <= j
    BY <1>2, <1>5, <1>8
  <2> QED BY <1>2, <1>3, <1>6, <1>8, <2>1 DEF cases
<1>9. CASE ~c1 /\ ~c2 /\ c3
  <2>1. \A j \in holding : 3 <= j
    BY <1>2, <1>5, <1>9
  <2> QED BY <1>2, <1>3, <1>6, <1>9, <2>1 DEF cases
<1>10. CASE ~c1 /\ ~c2 /\ ~c3 /\ c4
  <2>1. \A j \in holding : 4 <= j
    BY <1>2, <1>5, <1>10
  <2> QED BY <1>2, <1>3, <1>6, <1>10, <2>1 DEF cases
<1>11. CASE ~c1 /\ ~c2 /\ ~c3 /\ ~c4 /\ c5
  <2>1. \A j \in holding : 5 <= j
    BY <1>2, <1>5, <1>11
  <2> QED BY <1>2, <1>3, <1>6, <1>11, <2>1 DEF cases
<1>12. CASE ~c1 /\ ~c2 /\ ~c3 /\ ~c4 /\ ~c5 /\ c6
  <2>1. \A j \in holding : 6 <= j
    BY <1>2, <1>5, <1>12
  <2> QED BY <1>2, <1>3, <1>6, <1>12, <2>1 DEF cases
<1>13. CASE ~c1 /\ ~c2 /\ ~c3 /\ ~c4 /\ ~c5 /\ ~c6 /\ c7
  <2>1. \A j \in holding : 7 <= j
    BY <1>2, <1>5, <1>13
  <2> QED BY <1>2, <1>3, <1>6, <1>13, <2>1 DEF cases
<1>14. CASE ~c1 /\ ~c2 /\ ~c3 /\ ~c4 /\ ~c5 /\ ~c6 /\ ~c7
  <2>1. holding = {}
    BY <1>2, <1>5, <1>14
  <2> QED BY <1>4, <1>14, <2>1 DEF cases
<1> QED BY <1>7, <1>8, <1>9, <1>10, <1>11, <1>12, <1>13, <1>14

\* Of one condition, an issue of one kind and one severity.
LEMMA WhenFacts ==
    ASSUME NEW c, NEW kind, NEW severity
    PROVE  /\ c => When(c, kind, severity) = {Issue(kind, severity)}
           /\ c => Issue(kind, severity) \in When(c, kind, severity)
           /\ ~c => When(c, kind, severity) = {}
           /\ Issue(kind, severity).severity = severity
           /\ Issue(kind, severity).issue_kind = kind
BY DEF When, Issue

\* Whether that issue is there and how severe it is.
LEMMA WhenSeverity ==
    ASSUME NEW c, NEW kind, NEW severity, NEW other
    PROVE  HasSeverity(When(c, kind, severity), other) <=> c /\ other = severity
BY WhenFacts DEF HasSeverity

LEMMA StatusOfEvidenceCascade ==
    ASSUME NEW s
    PROVE  StatusForEvidence(s)
               = IF s.fault_record_ref_set # {} THEN "faulted" ELSE IF s.interrupt_context_ref_set # {} THEN "interrupted"
                 ELSE IF s.stale_source_ref_set # {} THEN "stale" ELSE IF s.refusal_reason_set # {} THEN "refused"
                 ELSE IF s.blocker_ref_set # {} THEN "blocked" ELSE IF s.contested_claim_ref_set # {} THEN "contested"
                 ELSE IF s.pending_review_ref_set # {} THEN "pending_review" ELSE "ready"
<1> DEFINE c1 == s.fault_record_ref_set # {}
           c2 == s.interrupt_context_ref_set # {}
           c3 == s.stale_source_ref_set # {}
           c4 == s.refusal_reason_set # {}
           c5 == s.blocker_ref_set # {}
           c6 == s.contested_claim_ref_set # {}
           c7 == s.pending_review_ref_set # {}
<1>1. StatusForEvidence(s)
          = FirstOf(<< <<c1, "faulted">>, <<c2, "interrupted">>, <<c3, "stale">>, <<c4, "refused">>,
                           <<c5, "blocked">>, <<c6, "contested">>, <<c7, "pending_review">> >>, "ready")
  BY DEF StatusForEvidence
<1> HIDE DEF c1, c2, c3, c4, c5, c6, c7
<1>2. StatusForEvidence(s)
          = IF c1 THEN "faulted" ELSE IF c2 THEN "interrupted" ELSE IF c3 THEN "stale" ELSE IF c4 THEN "refused"
            ELSE IF c5 THEN "blocked" ELSE IF c6 THEN "contested" ELSE IF c7 THEN "pending_review" ELSE "ready"
  BY <1>1, First7
<1> QED BY <1>2 DEF c1, c2, c3, c4, c5, c6, c7

LEMMA StopSeverityCascade ==
    ASSUME NEW s
    PROVE  SeverityForStopEvidence(s)
               = IF s.fault_record_ref_set # {} THEN "fault" ELSE IF s.interrupt_context_ref_set # {} THEN "interrupt"
                 ELSE IF s.stale_source_ref_set # {} \/ s.invalidation_ref_set # {} THEN "stale"
                 ELSE IF s.refusal_reason_set # {} THEN "refused" ELSE "blocked"
<1> DEFINE c1 == s.fault_record_ref_set # {}
           c2 == s.interrupt_context_ref_set # {}
           c3 == s.stale_source_ref_set # {} \/ s.invalidation_ref_set # {}
           c4 == s.refusal_reason_set # {}
<1>1. SeverityForStopEvidence(s)
          = FirstOf(<< <<c1, "fault">>, <<c2, "interrupt">>, <<c3, "stale">>, <<c4, "refused">> >>, "blocked")
  BY DEF SeverityForStopEvidence
<1> HIDE DEF c1, c2, c3, c4
<1>2. SeverityForStopEvidence(s)
          = IF c1 THEN "fault" ELSE IF c2 THEN "interrupt" ELSE IF c3 THEN "stale" ELSE IF c4 THEN "refused"
            ELSE "blocked"
  BY <1>1, First4
<1> QED BY <1>2 DEF c1, c2, c3, c4

LEMMA StopsPresent ==
    ASSUME NEW s
    PROVE  /\ StopEvidencePresent(s) <=> \/ s.invalidation_ref_set # {} \/ s.stop_state_context_set # {}
                                          \/ StatusForEvidence(s) # "ready"
           /\ StatusForEvidence(s) \in ProjectionStatus
<1>1. StopEvidencePresent(s) <=>
          \/ s.stop_state_context_set # {} \/ s.invalidation_ref_set # {} \/ s.blocker_ref_set # {} \/ s.stale_source_ref_set # {}
          \/ s.fault_record_ref_set # {} \/ s.interrupt_context_ref_set # {} \/ s.contested_claim_ref_set # {}
          \/ s.pending_review_ref_set # {} \/ s.refusal_reason_set # {}
  <2>1. \A field : field \in StopFields <=>
            \/ field = "stop_state_context_set"
            \/ field = "invalidation_ref_set" \/ field = "blocker_ref_set" \/ field = "stale_source_ref_set"
            \/ field = "fault_record_ref_set" \/ field = "interrupt_context_ref_set"
            \/ field = "contested_claim_ref_set" \/ field = "pending_review_ref_set" \/ field = "refusal_reason_set"
    BY DEF StopFields, EvidenceFields
  <2> QED BY <2>1 DEF StopEvidencePresent
<1> QED BY <1>1, StatusOfEvidenceCascade DEF ProjectionStatus

\* Which issues of a state envelope say that it is not ready, and which refuse.
LEMMA StateFound ==
    ASSUME NEW s
    PROVE  /\ HasKind(StateIssues(s), "ready_with_stop_state")
                  <=> s.projected_status = "ready" /\ StopEvidencePresent(s)
           /\ HasKind(StateIssues(s), "ready_with_unfresh_state")
                  <=> s.projected_status = "ready" /\ s.freshness_state # "fresh"
           /\ s.projected_status = "ready" /\ StopEvidencePresent(s)
                  => Issue("ready_with_stop_state", SeverityForStopEvidence(s)) \in StateIssues(s)
           /\ s.source_authority_mutation_requested => HasSeverity(StateIssues(s), "refused")
<1> DEFINE c1 == MissingFields(s, {"projection_id", "projected_subject_ref", "generated_at"})
           c2 == s.source_record_ref_set = {}
           c3 == s.lineage_edge_set = {}
           c4 == s.authority_notice_ref = NoValue
           c5 == s.projected_status = "ready" /\ StopEvidencePresent(s)
           c6 == s.projected_status = "ready" /\ s.freshness_state # "fresh"
           c7 == s.generated_projection_claimed_as_authority
           c8 == s.source_authority_mutation_requested
           v5 == SeverityForStopEvidence(s)
           v6 == SeverityForFreshness(s.freshness_state)
           i1 == When(c1, "missing_field", "fault")
           i2 == When(c2, "missing_source_ref_set", "fault")
           i3 == When(c3, "missing_lineage_edge_set", "fault")
           i4 == When(c4, "missing_authority_notice", "fault")
           i5 == When(c5, "ready_with_stop_state", v5)
           i6 == When(c6, "ready_with_unfresh_state", v6)
           i7 == When(c7, "generated_authority", "fault")
           i8 == When(c8, "source_authority_mutation_requested", "refused")
<1>1. StateIssues(s) = i1 \cup i2 \cup i3 \cup i4 \cup i5 \cup i6 \cup i7 \cup i8
  BY DEF StateIssues
<1> HIDE DEF c1, c2, c3, c4, c5, c6, c7, c8, v5, v6
<1>2. ASSUME NEW issue \in StateIssues(s), issue.issue_kind = "ready_with_stop_state" PROVE c5
  BY <1>1, <1>2, WhenFacts
<1>3. ASSUME NEW issue \in StateIssues(s), issue.issue_kind = "ready_with_unfresh_state" PROVE c6
  BY <1>1, <1>3, WhenFacts
<1>4. c5 => Issue("ready_with_stop_state", v5) \in StateIssues(s)
  <2>1. c5 => Issue("ready_with_stop_state", v5) \in i5
    BY WhenFacts
  <2> HIDE DEF i1, i2, i3, i4, i5, i6, i7, i8
  <2> QED BY <1>1, <2>1
<1>5. c6 => Issue("ready_with_unfresh_state", v6) \in StateIssues(s)
  <2>1. c6 => Issue("ready_with_unfresh_state", v6) \in i6
    BY WhenFacts
  <2> HIDE DEF i1, i2, i3, i4, i5, i6, i7, i8
  <2> QED BY <1>1, <2>1
<1>6. c8 => Issue("source_authority_mutation_requested", "refused") \in StateIssues(s)
  <2>1. c8 => Issue("source_authority_mutation_requested", "refused") \in i8
    BY WhenFacts
  <2> HIDE DEF i1, i2, i3, i4, i5, i6, i7, i8
  <2> QED BY <1>1, <2>1
<1> HIDE DEF i1, i2, i3, i4, i5, i6, i7, i8
<1>7. /\ HasKind(StateIssues(s), "ready_with_stop_state") <=> c5
      /\ HasKind(StateIssues(s), "ready_with_unfresh_state") <=> c6
      /\ c8 => HasSeverity(StateIssues(s), "refused")
  <2>1. \A kind, severity : /\ Issue(kind, severity).issue_kind = kind
                            /\ Issue(kind, severity).severity = severity
    BY DEF Issue
  <2>2. c5 => HasKind(StateIssues(s), "ready_with_stop_state")
    BY <1>4, <2>1 DEF HasKind
  <2>3. c6 => HasKind(StateIssues(s), "ready_with_unfresh_state")
    BY <1>5, <2>1 DEF HasKind
  <2>4. c8 => HasSeverity(StateIssues(s), "refused")
    BY <1>6, <2>1 DEF HasSeverity
  <2> QED BY <1>2, <1>3, <2>2, <2>3, <2>4 DEF HasKind
<1> QED BY <1>4, <1>7 DEF c5, c6, c8, v5

\* The two cascades over evidence rank it alike.
LEMMA SeverityFits == StatusFitsSeverity
<1> SUFFICES ASSUME NEW s \in state, s.projected_status = "ready"
             PROVE  IF /\ StatusForEvidence(s) = "ready" /\ s.invalidation_ref_set = {}
                       /\ s.stop_state_context_set = {}
                    THEN ~HasKind(StateIssues(s), "ready_with_stop_state")
                    ELSE Issue("ready_with_stop_state", SeverityOfClaim(s)) \in StateIssues(s)
  BY DEF StatusFitsSeverity
<1> DEFINE stopped == \/ s.invalidation_ref_set # {} \/ s.stop_state_context_set # {}
                      \/ StatusForEvidence(s) # "ready"
<1>1. CASE ~stopped
  BY <1>1, StopsPresent, StateFound
<1>2. CASE stopped
  <2>1. SeverityOfClaim(s) = SeverityForStopEvidence(s)
    <3>1. /\ SeverityOfStatus["faulted"] = "fault" /\ SeverityOfStatus["interrupted"] = "interrupt"
          /\ SeverityOfStatus["stale"] = "stale" /\ SeverityOfStatus["refused"] = "refused"
          /\ SeverityOfStatus["blocked"] = "blocked" /\ SeverityOfStatus["contested"] = "blocked"
          /\ SeverityOfStatus["pending_review"] = "blocked" /\ SeverityOfStatus["ready"] = "blocked"
      BY DEF SeverityOfStatus
    <3> QED BY <3>1, StatusOfEvidenceCascade, StopSeverityCascade DEF SeverityOfClaim
  <2>2. Issue("ready_with_stop_state", SeverityForStopEvidence(s)) \in StateIssues(s)
    BY <1>2, StopsPresent, StateFound
  <2> QED BY <1>2, <2>1, <2>2
<1> QED BY <1>1, <1>2

-----------------------------------------------------------------------------
(* Displays and actions.                                                   *)

\* What validate_authority_display_envelope finds of a request for a mutation.
LEMMA DisplayFound ==
    ASSUME NEW d
    PROVE  /\ d.source_authority_mutation_requested => HasSeverity(DisplayIssues(d), "refused")
           /\ DisplayIssues(d) = {} => /\ ~d.source_authority_mutation_requested
                                           /\ d.permitted_action_set \cap DIRECT_MUTATION_ACTION_SET = {}
                                           /\ d.authority_notice_ref # NoValue
<1> DEFINE c == \/ d.source_authority_mutation_requested
                \/ d.permitted_action_set \cap DIRECT_MUTATION_ACTION_SET # {}
           i == When(c, "source_authority_mutation_requested", "refused")
           noNotice == d.authority_notice_ref = NoValue
           n == When(noNotice, "missing_authority_notice", "fault")
<1>1. i \subseteq DisplayIssues(d) /\ n \subseteq DisplayIssues(d)
  BY DEF DisplayIssues
<1>2. c => Issue("source_authority_mutation_requested", "refused") \in i
  <2> HIDE DEF c
  <2> QED BY WhenFacts
<1>3. Issue("source_authority_mutation_requested", "refused").severity = "refused"
  BY DEF Issue
<1>4. noNotice => Issue("missing_authority_notice", "fault") \in n
  <2> HIDE DEF noNotice
  <2> QED BY WhenFacts
<1> HIDE DEF i, n
<1>5. /\ c => HasSeverity(DisplayIssues(d), "refused")
      /\ c => DisplayIssues(d) # {}
      /\ noNotice => DisplayIssues(d) # {}
  <2> HIDE DEF c, noNotice
  <2> QED BY <1>1, <1>2, <1>3, <1>4 DEF HasSeverity
<1> QED BY <1>5 DEF c, noNotice

\* The cascade of _decision_status_for_issues.
LEMMA DecisionCascade ==
    ASSUME NEW p
    PROVE  ActionDecision(p)
               = IF HasSeverity(ActionIssues(p), "refused") THEN "refused"
                 ELSE IF HasSeverity(ActionIssues(p), "interrupt") THEN "interrupt"
                 ELSE IF HasSeverity(ActionIssues(p), "blocked") THEN "blocked"
                 ELSE IF p.authority_notice_ref = NoValue THEN "refused" ELSE "allowed"
<1> DEFINE H(s) == HasSeverity(ActionIssues(p), s)
           o == IF p.authority_notice_ref = NoValue THEN "refused" ELSE "allowed"
           cases == << <<"refused", "refused">>, <<"interrupt", "interrupt">>, <<"blocked", "blocked">> >>
<1>1. ActionDecision(p) = FirstOf([i \in 1 .. Len(cases) |-> <<H(cases[i][1]), cases[i][2]>>], o)
  BY DEF ActionDecision, BySeverity
<1>2. [i \in 1 .. Len(cases) |-> <<H(cases[i][1]), cases[i][2]>>]
          = << <<H("refused"), "refused">>, <<H("interrupt"), "interrupt">>, <<H("blocked"), "blocked">> >>
  <2> HIDE DEF H
  <2> QED OBVIOUS
<1> HIDE DEF H, o
<1>3. ActionDecision(p)
          = IF H("refused") THEN "refused" ELSE IF H("interrupt") THEN "interrupt"
            ELSE IF H("blocked") THEN "blocked" ELSE o
  BY <1>1, <1>2, First3
<1> QED BY <1>3 DEF H, o

\* What refuses an action, what interrupts it and what blocks it.
Refuses(p) == \/ p.authority_notice_ref = NoValue
              \/ p.action_kind \in DIRECT_MUTATION_ACTION_SET \/ p.direct_mutation_requested
              \/ p.action_kind \in LIVE_CONTROL_ACTION_SET \/ p.live_control_requested
Stops(p) == IsStoppedOrStale(p) /\ p.action_kind \notin ResolutionActions

\* What classify_surface_action decides of an action.
LEMMA ActionDecided ==
    ASSUME NEW p
    PROVE  ActionDecision(p)
               = IF Refuses(p) THEN "refused"
                 ELSE IF Stops(p) /\ StoppedSeverity(p) = "interrupt" THEN "interrupt"
                 ELSE IF p.action_kind = NoValue \/ Stops(p) \/ IsUnsupported(p) THEN "blocked" ELSE "allowed"
<1> DEFINE c1 == p.action_kind = NoValue
           c2 == p.authority_notice_ref = NoValue
           c3 == p.action_kind \in DIRECT_MUTATION_ACTION_SET \/ p.direct_mutation_requested
           c4 == p.action_kind \in LIVE_CONTROL_ACTION_SET \/ p.live_control_requested
           c5 == Stops(p)
           c6 == IsUnsupported(p)
           v5 == StoppedSeverity(p)
           i1 == When(c1, "missing_action", "blocked")
           i2 == When(c2, "missing_authority_notice", "refused")
           i3 == When(c3, "direct_mutation_requested", "refused")
           i4 == When(c4, "live_control_requested", "refused")
           i5 == When(c5, "stale_or_stopped_projection", v5)
           i6 == When(c6, "unsupported_action_route", "blocked")
           issues == ActionIssues(p)
           H(severity) == HasSeverity(issues, severity)
<1>1. issues = i1 \cup i2 \cup i3 \cup i4 \cup i5 \cup i6
  BY DEF ActionIssues, Stops
<1>2. v5 \in {"interrupt", "blocked"}
  BY DEF StoppedSeverity
<1>3. Refuses(p) <=> c2 \/ c3 \/ c4
  BY DEF Refuses
<1>4. ActionDecision(p) = IF H("refused") THEN "refused" ELSE IF H("interrupt") THEN "interrupt"
                          ELSE IF H("blocked") THEN "blocked" ELSE IF c2 THEN "refused" ELSE "allowed"
  BY DecisionCascade
<1> HIDE DEF c1, c2, c3, c4, c5, c6, v5, issues
<1>5. \A severity : H(severity) <=> \/ HasSeverity(i1, severity) \/ HasSeverity(i2, severity)
                                   \/ HasSeverity(i3, severity) \/ HasSeverity(i4, severity)
                                   \/ HasSeverity(i5, severity) \/ HasSeverity(i6, severity)
  <2> HIDE DEF i1, i2, i3, i4, i5, i6
  <2> QED BY <1>1 DEF HasSeverity
<1>6. \A severity : /\ HasSeverity(i1, severity) <=> c1 /\ severity = "blocked"
                    /\ HasSeverity(i2, severity) <=> c2 /\ severity = "refused"
                    /\ HasSeverity(i3, severity) <=> c3 /\ severity = "refused"
                    /\ HasSeverity(i4, severity) <=> c4 /\ severity = "refused"
                    /\ HasSeverity(i5, severity) <=> c5 /\ severity = v5
                    /\ HasSeverity(i6, severity) <=> c6 /\ severity = "blocked"
  BY WhenSeverity
<1> HIDE DEF i1, i2, i3, i4, i5, i6, H
<1>7. /\ H("refused") <=> c2 \/ c3 \/ c4
      /\ H("interrupt") <=> c5 /\ v5 = "interrupt"
      /\ H("blocked") <=> c1 \/ c6 \/ (c5 /\ v5 = "blocked")
  BY <1>2, <1>5, <1>6
<1>8. ActionDecision(p) = IF c2 \/ c3 \/ c4 THEN "refused" ELSE IF c5 /\ v5 = "interrupt" THEN "interrupt"
                          ELSE IF c1 \/ c5 \/ c6 THEN "blocked" ELSE "allowed"
  BY <1>2, <1>4, <1>7
<1> QED BY <1>3, <1>8 DEF c1, c5, c6, v5

\* What follows for the decisions.
LEMMA ActionFound ==
    ASSUME NEW p
    PROVE  /\ ActionDecision(p) \in {"allowed", "blocked", "refused", "interrupt"}
           /\ p.direct_mutation_requested => ActionDecision(p) = "refused"
           /\ ActionDecision(p) = "allowed"
                  => /\ ~IsUnsupported(p)
                     /\ IsStoppedOrStale(p) => p.action_kind \in ResolutionActions
BY ActionDecided DEF Refuses, Stops

\* An action of kind on a state beside a display, when the display has a notice
\* and permits the kind, which is no direct mutation, and the state offers what
\* the display permits.
LEMMA PermittedDecided ==
    ASSUME NEW d, NEW s, NEW kind \in d.permitted_action_set \ {NoValue}, DisplayIssues(d) = {},
           s.supported_action_route_set = d.permitted_action_set
    PROVE  LET a == ActionPacket(d, s, kind, FALSE)
           IN  ActionDecision(a)
                   = IF kind \in LIVE_CONTROL_ACTION_SET THEN "refused"
                     ELSE IF ~IsStoppedOrStale(a) \/ kind \in ResolutionActions THEN "allowed"
                     ELSE StoppedSeverity(a)
<1> DEFINE a == ActionPacket(d, s, kind, FALSE)
<1>1. /\ ~d.source_authority_mutation_requested /\ kind \notin DIRECT_MUTATION_ACTION_SET
      /\ d.authority_notice_ref # NoValue
  BY DisplayFound
<1>2. /\ a.action_kind = kind /\ a.authority_notice_ref = d.authority_notice_ref
      /\ a.direct_mutation_requested = d.source_authority_mutation_requested
      /\ a.live_control_requested = FALSE
      /\ a.supported_action_route_set = s.supported_action_route_set
  BY DEF ActionPacket
<1> HIDE DEF a
<1>3. Refuses(a) <=> kind \in LIVE_CONTROL_ACTION_SET
  BY <1>1, <1>2 DEF Refuses
<1>4. ~IsUnsupported(a)
  BY <1>2 DEF IsUnsupported
<1>5. Stops(a) <=> IsStoppedOrStale(a) /\ kind \notin ResolutionActions
  BY <1>2 DEF Stops
<1>6. StoppedSeverity(a) \in {"interrupt", "blocked"}
  BY DEF StoppedSeverity
<1>7. ActionDecision(a)
          = IF kind \in LIVE_CONTROL_ACTION_SET THEN "refused"
            ELSE IF ~IsStoppedOrStale(a) \/ kind \in ResolutionActions THEN "allowed"
            ELSE StoppedSeverity(a)
  BY <1>2, <1>3, <1>4, <1>5, <1>6, ActionDecided
<1> QED BY <1>7 DEF a

\* What an accepted display permits is decided by the freshness.
LEMMA DisplaysDecide == AcceptedDisplayDecides
<1> SUFFICES ASSUME NEW d \in display, DisplayIssues(d) = {}, NEW kind \in d.permitted_action_set \ {NoValue},
                    NEW freshness
             PROVE  LET w == [supported_action_route_set |-> d.permitted_action_set, freshness_state |-> freshness]
                        decision == ActionDecision(ActionPacket(d, Merged(w, NoEvidence), kind, FALSE))
                    IN  decision = IF kind \in LIVE_CONTROL_ACTION_SET THEN "refused"
                                   ELSE IF freshness = "fresh" \/ kind \in ResolutionActions THEN "allowed"
                                   ELSE IF freshness = "interrupted" THEN "interrupt" ELSE "blocked"
  BY DEF AcceptedDisplayDecides
<1> DEFINE w == [supported_action_route_set |-> d.permitted_action_set, freshness_state |-> freshness]
           s == Merged(w, NoEvidence)
           a == ActionPacket(d, s, kind, FALSE)
<1>1. /\ s.supported_action_route_set = d.permitted_action_set
      /\ s.freshness_state = freshness
  BY DEF Merged
<1>2. \A field \in EvidenceFields : s[field] = {}
  <2>1. \A field \in EvidenceFields : field \notin DOMAIN w
    BY DEF EvidenceFields
  <2>2. DOMAIN NoEvidence = StopFields /\ \A field \in StopFields : NoEvidence[field] = {}
    BY DEF NoEvidence
  <2>3. EvidenceFields \subseteq StopFields
    BY DEF StopFields
  <2> HIDE DEF w
  <2> QED BY <2>1, <2>2, <2>3 DEF Merged
<1> HIDE DEF s
<1>3. /\ a.freshness_state = freshness
      /\ a.stop_state_ref_set = UNION {s[field] : field \in EvidenceFields \ {"interrupt_context_ref_set"}}
      /\ a.interrupt_context_ref_set = s.interrupt_context_ref_set
  BY <1>1 DEF ActionPacket
<1>4. a.interrupt_context_ref_set = {} /\ a.stop_state_ref_set = {}
  <2>1. "interrupt_context_ref_set" \in EvidenceFields
    BY DEF EvidenceFields
  <2>2. UNION {s[field] : field \in EvidenceFields \ {"interrupt_context_ref_set"}} = {}
    BY <1>2
  <2> QED BY <1>2, <1>3, <2>1, <2>2
<1>5. ActionDecision(a)
          = IF kind \in LIVE_CONTROL_ACTION_SET THEN "refused"
            ELSE IF ~IsStoppedOrStale(a) \/ kind \in ResolutionActions THEN "allowed"
            ELSE StoppedSeverity(a)
  BY <1>1, PermittedDecided
<1> HIDE DEF a
<1>6. /\ IsStoppedOrStale(a) <=> freshness # "fresh"
      /\ StoppedSeverity(a) = IF freshness = "interrupted" THEN "interrupt" ELSE "blocked"
  BY <1>3, <1>4 DEF IsStoppedOrStale, StoppedSeverity
<1>7. ActionDecision(a) = IF kind \in LIVE_CONTROL_ACTION_SET THEN "refused"
                          ELSE IF freshness = "fresh" \/ kind \in ResolutionActions THEN "allowed"
                          ELSE IF freshness = "interrupted" THEN "interrupt" ELSE "blocked"
  BY <1>5, <1>6
<1> QED BY <1>7 DEF a, s, w

-----------------------------------------------------------------------------
(* The projectors.                                                         *)

Names == DOMAIN Projectors

\* A projector that shows something as ready shows it as fresh, takes no
\* evidence and permits no live control; one that does not takes some evidence
\* and shows it as not fresh.
IsProjector(j) ==
    /\ j.authority_tier \in AuthorityTier
    /\ j.projected_status \in ProjectionStatus
    /\ DOMAIN j.evidence \subseteq EvidenceFields
    /\ j.projected_status = "ready" => /\ j.freshness_state = "fresh" /\ DOMAIN j.evidence = {}
                                       /\ j.permitted_action_set \cap LIVE_CONTROL_ACTION_SET = {}
    /\ j.projected_status # "ready" => j.freshness_state # "fresh" /\ DOMAIN j.evidence # {}

LEMMA ProjectorFacts ==
    ASSUME NEW name \in Names
    PROVE  IsProjector(Projectors[name])
<1> USE DEF Projector, IsProjector, AuthorityTier, ProjectionStatus, EvidenceFields, LIVE_CONTROL_ACTION_SET
<1>1. IsProjector(ManagerSummary) /\ IsProjector(Narrative) /\ IsProjector(LangflowView)
  BY DEF ManagerSummary, Narrative, LangflowView
<1>2. IsProjector(RuntimeProofHandoff) /\ IsProjector(WorkerPacket) /\ IsProjector(StaleProjection)
  BY DEF RuntimeProofHandoff, WorkerPacket, StaleProjection
<1>3. IsProjector(DebugTrace) /\ IsProjector(Conversation) /\ IsProjector(AdapterEvent)
  BY DEF DebugTrace, Conversation, AdapterEvent
<1>4. /\ IsProjector(DivergenceNotice) /\ IsProjector(CompletionGateRefusal)
      /\ IsProjector(OperationRequest)
  BY DEF DivergenceNotice, CompletionGateRefusal, OperationRequest
<1> HIDE DEF Projector, IsProjector, AuthorityTier, ProjectionStatus, EvidenceFields, LIVE_CONTROL_ACTION_SET
<1>5. Projectors[name] \in
          {ManagerSummary, Narrative, LangflowView, RuntimeProofHandoff, WorkerPacket,
           StaleProjection, DebugTrace, Conversation, AdapterEvent, DivergenceNotice,
           CompletionGateRefusal, OperationRequest}
  BY DEF Names, Projectors
<1> QED BY <1>1, <1>2, <1>3, <1>4, <1>5

\* What _build_surface_projection makes of a packet.
LEMMA ProjectionFields ==
    ASSUME NEW j, NEW p, NEW d, NEW s, d = DisplayOf(j, p), s = StateOf(j, p)
    PROVE  /\ d.authority_tier = j.authority_tier
           /\ d.permitted_action_set = j.permitted_action_set
           /\ d.required_route_set = j.required_route_set
           /\ d.source_authority_mutation_requested = p.source_authority_mutation_requested
           /\ s.freshness_state = j.freshness_state
           /\ s.projected_status = ResolvedStatus(j, p)
           /\ s.supported_action_route_set = j.permitted_action_set
           /\ s.source_authority_mutation_requested = p.source_authority_mutation_requested
           /\ \A field \in EvidenceFields : s[field] = TakenEvidence(j, p)[field]
           /\ s.stop_state_context_set = {}
<1>1. /\ d.authority_tier = j.authority_tier
      /\ d.permitted_action_set = j.permitted_action_set
      /\ d.required_route_set = j.required_route_set
      /\ d.source_authority_mutation_requested = p.source_authority_mutation_requested
  BY DEF DisplayOf
<1> DEFINE t == TakenEvidence(j, p)
           v == ResolvedStatus(j, p)
           w == [projection_id |-> p.projection_id, projected_subject_ref |-> p.projected_subject_ref,
                 generated_at |-> p.generated_at,
                 source_record_ref_set |-> IF "source_record_ref_set" \in DOMAIN p THEN p.source_record_ref_set
                                           ELSE p.source_authority_ref_set,
                 lineage_edge_set |-> p.lineage_edge_set, authority_notice_ref |-> p.authority_notice_ref,
                 projected_status |-> v, freshness_state |-> j.freshness_state,
                 supported_action_route_set |-> j.permitted_action_set, stop_state_context_set |-> {},
                 generated_projection_claimed_as_authority |-> p.generated_projection_claimed_as_authority,
                 source_authority_mutation_requested |-> p.source_authority_mutation_requested]
<1>2. s = Merged(w, t)
  BY DEF StateOf
<1> HIDE DEF t, v
<1>3. /\ DOMAIN w = {"projection_id", "projected_subject_ref", "generated_at", "source_record_ref_set", "lineage_edge_set",
                     "authority_notice_ref", "projected_status", "freshness_state", "supported_action_route_set",
                     "stop_state_context_set", "generated_projection_claimed_as_authority", "source_authority_mutation_requested"}
      /\ w.freshness_state = j.freshness_state /\ w.projected_status = v
      /\ w.supported_action_route_set = j.permitted_action_set
      /\ w.source_authority_mutation_requested = p.source_authority_mutation_requested
      /\ w.stop_state_context_set = {}
  OBVIOUS
<1> HIDE DEF w
<1>4. /\ s.freshness_state = j.freshness_state /\ s.projected_status = v
      /\ s.supported_action_route_set = j.permitted_action_set
      /\ s.source_authority_mutation_requested = p.source_authority_mutation_requested
      /\ s.stop_state_context_set = {}
  BY <1>2, <1>3 DEF Merged
<1>5. ASSUME NEW field \in EvidenceFields PROVE s[field] = t[field]
  <2>1. field \notin DOMAIN w
    BY <1>3 DEF EvidenceFields
  <2>2. field \in DOMAIN t
    BY DEF t, TakenEvidence
  <2> QED BY <1>2, <2>1, <2>2 DEF Merged
<1> QED BY <1>1, <1>4, <1>5 DEF t, v

\* The status of a record, and what it says about the projector.
LEMMA ResolvedFacts ==
    ASSUME NEW j, IsProjector(j), NEW p, NEW s, s = StateOf(j, p)
    PROVE  /\ s.projected_status \in ProjectionStatus
           /\ s.projected_status = "ready" <=> j.projected_status = "ready"
           /\ s.projected_status = "ready" => s.freshness_state = "fresh" /\ ~StopEvidencePresent(s)
           /\ s.projected_status # "ready" => s.freshness_state # "fresh"
<1> DEFINE t == TakenEvidence(j, p)
<1>1. /\ s.projected_status = IF StatusForEvidence(t) = "ready" THEN j.projected_status
                              ELSE StatusForEvidence(t)
      /\ s.freshness_state = j.freshness_state
      /\ \A field \in EvidenceFields : s[field] = t[field]
      /\ s.stop_state_context_set = {}
  BY ProjectionFields DEF ResolvedStatus
<1>2. ASSUME j.projected_status = "ready"
      PROVE  \A field \in EvidenceFields : t[field] = {}
  BY <1>2 DEF IsProjector, TakenEvidence
<1>3. j.projected_status = "ready" => ~StopEvidencePresent(s)
  BY <1>1, <1>2 DEF StopEvidencePresent, StopFields
<1> HIDE DEF t
<1>4. j.projected_status = "ready" => StatusForEvidence(t) = "ready"
  BY <1>2, StatusOfEvidenceCascade DEF EvidenceFields
<1> QED BY <1>1, <1>3, <1>4, StopsPresent DEF IsProjector

-----------------------------------------------------------------------------
(* The invariant.                                                          *)

\* A record shows a packet by the projector that it names.
IsShown(r) ==
    /\ r.projector \in Names
    /\ r.decision \in {"none", "allowed", "blocked", "refused", "interrupt"}
    /\ \E p : /\ r.display = DisplayOf(Projectors[r.projector], p)
              /\ r.state = StateOf(Projectors[r.projector], p)
              /\ \A field \in EvidenceFields \cap DOMAIN r.packet :
                     field \in DOMAIN p /\ p[field] = r.packet[field]

DisplayInv ==
    /\ learned \in 0 .. MaxLearned
    /\ \A r \in shown : shown = {r} /\ IsShown(r)
    /\ \A s \in state : state = {s} /\ s.projected_status \in ProjectionStatus

LEMMA DisplayInit == Init => DisplayInv
BY SurfacesAssumption DEF Init, DisplayInv

LEMMA DisplayLearn ==
    ASSUME DisplayInv, NEW change \in Learnable, Learn(change)
    PROVE  DisplayInv'
BY SurfacesAssumption DEF DisplayInv, Learn

LEMMA DisplayProject ==
    ASSUME DisplayInv, NEW name \in Names, NEW action, Project(name, action)
    PROVE  DisplayInv'
<1> DEFINE q == Merged([requested_action |-> action], packet)
           j == Projectors[name]
           p == Merged(q, PacketDefaults)
           d == DisplayOf(j, p)
           s == StateOf(j, p)
           c == IF p.requested_action = NoValue THEN "none"
                ELSE ActionDecision(ActionPacket(d, s, p.requested_action, p.live_control_requested))
           head == [projector |-> name, packet |-> packet]
           body == [display |-> d, state |-> s, requested_action |-> p.requested_action, decision |-> c]
           r == Merged(head, body)
<1>1. shown' = {r} /\ state' = {} /\ learned' = learned
  BY DEF Project, SurfaceProjection
<1>2. c \in {"none", "allowed", "blocked", "refused", "interrupt"}
  <2> HIDE DEF d, s, p
  <2> QED BY ActionFound
<1>3. ASSUME NEW field \in EvidenceFields \cap DOMAIN packet
      PROVE  field \in DOMAIN p /\ p[field] = packet[field]
  <2>1. field # "requested_action"
    BY DEF EvidenceFields
  <2>2. field \in DOMAIN q /\ q[field] = packet[field]
    BY <2>1 DEF Merged
  <2> HIDE DEF q
  <2> QED BY <2>2 DEF Merged
<1> HIDE DEF d, s, c, p, j
<1>4. r.projector = name /\ r.display = d /\ r.state = s /\ r.decision = c /\ r.packet = packet
  BY DEF Merged
<1> HIDE DEF r
<1>5. IsShown(r)
  BY <1>2, <1>3, <1>4 DEF IsShown, d, s, j
<1> QED BY <1>1, <1>5 DEF DisplayInv

LEMMA DisplayAssemble ==
    ASSUME DisplayInv, NEW freshness, NEW claimsReady, Assemble(freshness, claimsReady)
    PROVE  DisplayInv'
<1> DEFINE evidence == [field \in StopFields |-> IF field \in DOMAIN packet THEN packet[field] ELSE {}]
           v == IF claimsReady THEN "ready" ELSE StatusForEvidence(evidence)
           w == [projection_id |-> "projection", projected_subject_ref |-> "subject", generated_at |-> "now",
                 source_record_ref_set |-> {"contract"}, lineage_edge_set |-> {"edge"},
                 authority_notice_ref |-> "notice", freshness_state |-> freshness,
                 projected_status |-> v, generated_projection_claimed_as_authority |-> FALSE,
                 source_authority_mutation_requested |-> FALSE]
           s == Merged(w, evidence)
<1>1. state' = {s} /\ shown' = {} /\ learned' = learned
  BY DEF Assemble
<1>2. v \in ProjectionStatus
  BY StopsPresent DEF ProjectionStatus
<1> HIDE DEF v, evidence
<1>3. s.projected_status = v
  BY DEF Merged
<1> HIDE DEF s
<1> QED BY <1>1, <1>2, <1>3 DEF DisplayInv

LEMMA DisplayStep == DisplayInv /\ [Next]_vars => DisplayInv'
<1> SUFFICES ASSUME DisplayInv, [Next]_vars PROVE DisplayInv'
  OBVIOUS
<1>1. CASE \E change \in Learnable : Learn(change)
  BY <1>1, DisplayLearn
<1>2. CASE \E name \in Names, action \in Requests \cup {NoValue} : Project(name, action)
  BY <1>2, DisplayProject
<1>3. CASE \E freshness \in FreshnessState, claimsReady \in BOOLEAN : Assemble(freshness, claimsReady)
  BY <1>3, DisplayAssemble
<1>4. CASE \E parts \in Displays : Announce(parts)
  BY <1>4 DEF Announce, DisplayInv
<1>5. CASE UNCHANGED vars
  BY <1>5 DEF vars, DisplayInv
<1> QED BY <1>1, <1>2, <1>3, <1>4, <1>5 DEF Next, Names

\* What is on display is what a projector makes of a packet.
LEMMA DisplayInvariant == Spec => []DisplayInv
BY DisplayInit, DisplayStep, PTL DEF Spec

-----------------------------------------------------------------------------
(* What follows.                                                           *)

LEMMA DisplayTypes == DisplayInv => TypeOK
<1> SUFFICES ASSUME DisplayInv, NEW r \in shown
             PROVE  /\ r.display.authority_tier \in AuthorityTier
                    /\ r.state.projected_status \in ProjectionStatus
                    /\ r.decision \in {"none", "allowed", "blocked", "refused", "interrupt"}
                    /\ shown = {r}
  BY DEF TypeOK, DisplayInv
<1> DEFINE j == Projectors[r.projector]
<1>1. shown = {r} /\ IsShown(r)
  BY DEF DisplayInv
<1>2. PICK p : r.display = DisplayOf(j, p) /\ r.state = StateOf(j, p)
  BY <1>1 DEF IsShown
<1>3. IsProjector(j)
  BY <1>1, ProjectorFacts DEF IsShown
<1> HIDE DEF j
<1>4. r.display.authority_tier \in AuthorityTier
  BY <1>2, <1>3, ProjectionFields DEF IsProjector
<1>5. r.state.projected_status \in ProjectionStatus
  BY <1>2, <1>3, ResolvedFacts
<1> QED BY <1>1, <1>4, <1>5 DEF IsShown

\* A record that is ready is fresh and without evidence, and its projector takes
\* none and permits no live control; one that is not ready is not fresh, and its
\* projector takes some.
LEMMA RecordFacts ==
    ASSUME DisplayInv, NEW r \in shown
    PROVE  LET j == Projectors[r.projector] IN
           /\ r.state.projected_status = "ready"
                  => /\ DOMAIN j.evidence = {} /\ r.state.freshness_state = "fresh"
                     /\ ~StopEvidencePresent(r.state)
                     /\ r.display.permitted_action_set \cap LIVE_CONTROL_ACTION_SET = {}
           /\ r.state.projected_status # "ready" => DOMAIN j.evidence # {} /\ r.state.freshness_state # "fresh"
           /\ \A field \in DOMAIN j.evidence \cap DOMAIN r.packet : r.state[field] = r.packet[field]
           /\ r.state.supported_action_route_set = r.display.permitted_action_set
           /\ r.state.source_authority_mutation_requested = r.display.source_authority_mutation_requested
<1> DEFINE j == Projectors[r.projector]
<1>1. IsShown(r)
  BY DEF DisplayInv
<1>2. PICK p : /\ r.display = DisplayOf(j, p) /\ r.state = StateOf(j, p)
               /\ \A field \in EvidenceFields \cap DOMAIN r.packet :
                      field \in DOMAIN p /\ p[field] = r.packet[field]
  BY <1>1 DEF IsShown
<1>3. IsProjector(j)
  BY <1>1, ProjectorFacts DEF IsShown
<1> HIDE DEF j
<1>4. /\ r.state.supported_action_route_set = r.display.permitted_action_set
      /\ r.state.source_authority_mutation_requested = r.display.source_authority_mutation_requested
      /\ r.display.permitted_action_set = j.permitted_action_set
      /\ \A field \in EvidenceFields : r.state[field] = TakenEvidence(j, p)[field]
  BY <1>2, ProjectionFields
<1>5. /\ r.state.projected_status = "ready" <=> j.projected_status = "ready"
      /\ r.state.projected_status = "ready" => r.state.freshness_state = "fresh" /\ ~StopEvidencePresent(r.state)
      /\ r.state.projected_status # "ready" => r.state.freshness_state # "fresh"
  BY <1>2, <1>3, ResolvedFacts
<1>6. ASSUME NEW field \in DOMAIN j.evidence \cap DOMAIN r.packet
      PROVE  r.state[field] = r.packet[field]
  <2>1. field \in EvidenceFields
    BY <1>3 DEF IsProjector
  <2>2. TakenEvidence(j, p)[field] = p[field]
    BY <1>2, <2>1 DEF TakenEvidence
  <2> QED BY <1>2, <1>4, <2>1, <2>2
<1> QED BY <1>3, <1>4, <1>5, <1>6 DEF j, IsProjector

LEMMA EvidenceStops == DisplayInv => TakenEvidenceStops
BY RecordFacts DEF TakenEvidenceStops

LEMMA ReadyIsClear == DisplayInv => ReadyRecordsAreClear
<1> SUFFICES ASSUME DisplayInv, NEW r \in shown
             PROVE  KindsOf(StateIssues(r.state)) \cap {"ready_with_stop_state", "ready_with_unfresh_state"} = {}
  BY DEF ReadyRecordsAreClear
<1>1. /\ ~HasKind(StateIssues(r.state), "ready_with_stop_state")
      /\ ~HasKind(StateIssues(r.state), "ready_with_unfresh_state")
  BY RecordFacts, StateFound
<1> QED BY <1>1 DEF KindsOf, HasKind

LEMMA ResolutionOnly == DisplayInv => StoppedOffersResolutionOnly
<1> SUFFICES ASSUME DisplayInv, NEW r \in shown, r.state.projected_status # "ready",
                    NEW kind, DecisionOn(r, kind) = "allowed"
             PROVE  kind \in ResolutionActions
  BY DEF StoppedOffersResolutionOnly
<1> DEFINE a == ActionPacket(r.display, r.state, kind, FALSE)
<1>1. ActionDecision(a) = "allowed"
  BY DEF DecisionOn
<1>2. a.action_kind = kind /\ a.freshness_state = r.state.freshness_state
  BY DEF ActionPacket
<1> HIDE DEF a
<1>3. IsStoppedOrStale(a)
  BY <1>2, RecordFacts DEF IsStoppedOrStale
<1> QED BY <1>1, <1>2, <1>3, ActionFound

\* What the display of a record permits is allowed if the record is ready, and
\* otherwise if it resolves what stopped it.
LEMMA ShownDecide == DisplayInv => ShownDisplayDecides
<1> SUFFICES ASSUME DisplayInv, NEW r \in shown, DisplayIssues(r.display) = {},
                    NEW kind \in r.display.permitted_action_set \ {NoValue}
             PROVE  DecisionOn(r, kind) = "allowed"
                        <=> r.state.projected_status = "ready" \/ kind \in ResolutionActions
  BY DEF ShownDisplayDecides
<1> DEFINE a == ActionPacket(r.display, r.state, kind, FALSE)
<1>1. ActionDecision(a)
          = IF kind \in LIVE_CONTROL_ACTION_SET THEN "refused"
            ELSE IF ~IsStoppedOrStale(a) \/ kind \in ResolutionActions THEN "allowed"
            ELSE StoppedSeverity(a)
  BY RecordFacts, PermittedDecided
<1>2. /\ a.freshness_state = r.state.freshness_state
      /\ a.stop_state_ref_set = UNION {r.state[field] : field \in EvidenceFields \ {"interrupt_context_ref_set"}}
      /\ a.interrupt_context_ref_set = r.state.interrupt_context_ref_set
  BY DEF ActionPacket
<1>3. DecisionOn(r, kind) = ActionDecision(a)
  BY DEF DecisionOn
<1> HIDE DEF a
<1>4. StoppedSeverity(a) # "allowed"
  BY DEF StoppedSeverity
<1>5. CASE r.state.projected_status = "ready"
  <2>1. /\ r.state.freshness_state = "fresh" /\ kind \notin LIVE_CONTROL_ACTION_SET
        /\ \A field \in StopFields : r.state[field] = {}
    BY <1>5, RecordFacts DEF StopEvidencePresent
  <2>2. /\ r.state.interrupt_context_ref_set = {}
        /\ \A field \in EvidenceFields : r.state[field] = {}
    BY <2>1 DEF StopFields, EvidenceFields
  <2>3. UNION {r.state[field] : field \in EvidenceFields \ {"interrupt_context_ref_set"}} = {}
    BY <2>2
  <2>4. ~IsStoppedOrStale(a)
    BY <1>2, <2>1, <2>2, <2>3 DEF IsStoppedOrStale
  <2> QED BY <1>1, <1>3, <1>5, <2>1, <2>4
<1>6. CASE r.state.projected_status # "ready"
  <2>1. IsStoppedOrStale(a)
    BY <1>2, <1>6, RecordFacts DEF IsStoppedOrStale
  <2>2. kind \in ResolutionActions => kind \notin LIVE_CONTROL_ACTION_SET
    BY DEF ResolutionActions, LIVE_CONTROL_ACTION_SET
  <2> QED BY <1>1, <1>3, <1>4, <1>6, <2>1, <2>2
<1> QED BY <1>5, <1>6

LEMMA SensitiveDisplayed == DisplayInv => SensitiveActionsAreDisplayed
<1> SUFFICES ASSUME DisplayInv, NEW r \in shown, NEW kind \in AUTHORITY_SENSITIVE_ACTION_SET,
                    DecisionOn(r, kind) = "allowed"
             PROVE  kind \in r.display.permitted_action_set \cup r.display.required_route_set
  BY DEF SensitiveActionsAreDisplayed
<1> DEFINE a == ActionPacket(r.display, r.state, kind, FALSE)
<1>1. ActionDecision(a) = "allowed"
  BY DEF DecisionOn
<1>2. /\ a.action_kind = kind /\ a.supported_action_route_set = r.state.supported_action_route_set
      /\ a.required_route_set = r.display.required_route_set
  BY DEF ActionPacket
<1> HIDE DEF a
<1>3. ~IsUnsupported(a)
  BY <1>1, ActionFound
<1> QED BY <1>2, <1>3, RecordFacts DEF IsUnsupported

LEMMA MutationRefused == DisplayInv => MutationIsRefusedEverywhere
<1> SUFFICES ASSUME DisplayInv, NEW r \in shown, r.display.source_authority_mutation_requested
             PROVE  /\ HasSeverity(DisplayIssues(r.display), "refused")
                    /\ HasSeverity(StateIssues(r.state), "refused")
                    /\ \A kind \in ActionKinds : DecisionOn(r, kind) = "refused"
                    /\ ~IsAccepted(r)
  BY DEF MutationIsRefusedEverywhere
<1>1. HasSeverity(DisplayIssues(r.display), "refused")
  BY DisplayFound
<1>2. HasSeverity(StateIssues(r.state), "refused")
  BY RecordFacts, StateFound
<1>3. ASSUME NEW kind PROVE DecisionOn(r, kind) = "refused"
  <2> DEFINE a == ActionPacket(r.display, r.state, kind, FALSE)
  <2>1. a.direct_mutation_requested = r.display.source_authority_mutation_requested
    BY DEF ActionPacket
  <2> HIDE DEF a
  <2>2. ActionDecision(a) = "refused"
    BY <2>1, ActionFound
  <2> QED BY <2>2 DEF a, DecisionOn
<1>4. ~IsAccepted(r)
  BY DEF IsAccepted
<1> QED BY <1>1, <1>2, <1>3, <1>4

\* Whatever evidence a state envelope holds, validate_projection_state_envelope
\* rejects its claim to be ready if there is any, and with the severity of the
\* status that projected_status_for_evidence gives the same evidence; for
\* invalidations and stop contexts, which that function is not asked about, with
\* stale and blocked.
THEOREM SeverityCorrect == Spec => []StatusFitsSeverity
BY SeverityFits, PTL

\* Whatever the packet, a projector that takes evidence has what the packet says
\* of it on its record and shows nothing as ready, one that takes none shows
\* everything as ready; a ready record is fresh and carries no evidence, and on
\* one that is not classify_surface_action allows only a resolution.
THEOREM StopsCorrect == Spec => []StopsAreHeld
<1>1. DisplayInv => StopsAreHeld
  BY DisplayTypes, EvidenceStops, ReadyIsClear, ResolutionOnly DEF StopsAreHeld
<1> QED BY <1>1, DisplayInvariant, PTL

\* Which of the actions that an accepted display permits classify_surface_action
\* allows, on every freshness and on every record: all on a fresh or ready one,
\* on others those that resolve, never live control; and no authority-sensitive
\* action that is not displayed, nothing at all when a mutation is requested.
THEOREM DisplayCorrect == Spec => []DecisionFollowsDisplay
<1>1. DisplayInv => DecisionFollowsDisplay
  BY DisplaysDecide, ShownDecide, SensitiveDisplayed, MutationRefused DEF DecisionFollowsDisplay
<1> QED BY <1>1, DisplayInvariant, PTL

=============================================================================
