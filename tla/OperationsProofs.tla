--------------------------- MODULE OperationsProofs ---------------------------
(***************************************************************************)
(* Proofs about the planner of operations.  What the planner records is a  *)
(* function of the request at hand, so the invariant only says which       *)
(* records belong to which request (PlannerInv).  The rest is about the    *)
(* functions themselves, for every request: which issues it has            *)
(* (IssueFacts), what the cascades make of them (Statuses, Decisions), and *)
(* which of them is the first of the worst (PrimaryFacts).                 *)
(***************************************************************************)
EXTENDS Operations, TLAPS, WellFoundedInduction, FiniteSetTheorems

-----------------------------------------------------------------------------
(* Cascades of early returns as nested conditions.                         *)

\* FirstOf of two to six cases.
LEMMA First2 ==
    ASSUME NEW c1, NEW v1, NEW c2, NEW v2, NEW o
    PROVE  FirstOf(<< <<c1, v1>>, <<c2, v2>> >>, o) = IF c1 THEN v1 ELSE IF c2 THEN v2 ELSE o
  BY DEF FirstOf

LEMMA First3 ==
    ASSUME NEW c1, NEW v1, NEW c2, NEW v2, NEW c3, NEW v3, NEW o
    PROVE  FirstOf(<< <<c1, v1>>, <<c2, v2>>, <<c3, v3>> >>, o)
               = IF c1 THEN v1 ELSE IF c2 THEN v2 ELSE IF c3 THEN v3 ELSE o
  BY DEF FirstOf

LEMMA First4 ==
    ASSUME NEW c1, NEW v1, NEW c2, NEW v2, NEW c3, NEW v3, NEW c4, NEW v4, NEW o
    PROVE  FirstOf(<< <<c1, v1>>, <<c2, v2>>, <<c3, v3>>, <<c4, v4>> >>, o)
               = IF c1 THEN v1 ELSE IF c2 THEN v2 ELSE IF c3 THEN v3 ELSE IF c4 THEN v4 ELSE o
  BY DEF FirstOf

LEMMA First5 ==
    ASSUME NEW c1, NEW v1, NEW c2, NEW v2, NEW c3, NEW v3, NEW c4, NEW v4, NEW c5, NEW v5, NEW o
    PROVE  FirstOf(<< <<c1, v1>>, <<c2, v2>>, <<c3, v3>>, <<c4, v4>>, <<c5, v5>> >>, o)
               = IF c1 THEN v1 ELSE IF c2 THEN v2 ELSE IF c3 THEN v3 ELSE IF c4 THEN v4
                 ELSE IF c5 THEN v5 ELSE o
  BY DEF FirstOf

LEMMA First6 ==
    ASSUME NEW c1, NEW v1, NEW c2, NEW v2, NEW c3, NEW v3, NEW c4, NEW v4, NEW c5, NEW v5, NEW c6, NEW v6, NEW o
    PROVE  FirstOf(<< <<c1, v1>>, <<c2, v2>>, <<c3, v3>>, <<c4, v4>>, <<c5, v5>>, <<c6, v6>> >>, o)
               = IF c1 THEN v1 ELSE IF c2 THEN v2 ELSE IF c3 THEN v3 ELSE IF c4 THEN v4
                 ELSE IF c5 THEN v5 ELSE IF c6 THEN v6 ELSE o
  BY DEF FirstOf

\* BySeverity of three to five severities.
LEMMA BySeverity3 ==
    ASSUME NEW issues, NEW s1, NEW v1, NEW s2, NEW v2, NEW s3, NEW v3, NEW o
    PROVE  BySeverity(issues, << <<s1, v1>>, <<s2, v2>>, <<s3, v3>> >>, o)
               = IF HasSeverity(issues, s1) THEN v1 ELSE IF HasSeverity(issues, s2) THEN v2
                 ELSE IF HasSeverity(issues, s3) THEN v3 ELSE o
<1> DEFINE cases == << <<s1, v1>>, <<s2, v2>>, <<s3, v3>> >>
           H(s) == HasSeverity(issues, s)
<1>1. [i \in 1 .. Len(cases) |-> <<H(cases[i][1]), cases[i][2]>>]
        = << <<H(s1), v1>>, <<H(s2), v2>>, <<H(s3), v3>> >>
  OBVIOUS
<1> QED  BY <1>1, First3 DEF BySeverity

LEMMA BySeverity4 ==
    ASSUME NEW issues, NEW s1, NEW v1, NEW s2, NEW v2, NEW s3, NEW v3, NEW s4, NEW v4, NEW o
    PROVE  BySeverity(issues, << <<s1, v1>>, <<s2, v2>>, <<s3, v3>>, <<s4, v4>> >>, o)
               = IF HasSeverity(issues, s1) THEN v1 ELSE IF HasSeverity(issues, s2) THEN v2
                 ELSE IF HasSeverity(issues, s3) THEN v3 ELSE IF HasSeverity(issues, s4) THEN v4 ELSE o
<1> DEFINE cases == << <<s1, v1>>, <<s2, v2>>, <<s3, v3>>, <<s4, v4>> >>
           H(s) == HasSeverity(issues, s)
<1>1. [i \in 1 .. Len(cases) |-> <<H(cases[i][1]), cases[i][2]>>]
        = << <<H(s1), v1>>, <<H(s2), v2>>, <<H(s3), v3>>, <<H(s4), v4>> >>
  OBVIOUS
<1> QED  BY <1>1, First4 DEF BySeverity

LEMMA BySeverity5 ==
    ASSUME NEW issues, NEW s1, NEW v1, NEW s2, NEW v2, NEW s3, NEW v3, NEW s4, NEW v4, NEW s5, NEW v5, NEW o
    PROVE  BySeverity(issues, << <<s1, v1>>, <<s2, v2>>, <<s3, v3>>, <<s4, v4>>, <<s5, v5>> >>, o)
               = IF HasSeverity(issues, s1) THEN v1 ELSE IF HasSeverity(issues, s2) THEN v2
                 ELSE IF HasSeverity(issues, s3) THEN v3 ELSE IF HasSeverity(issues, s4) THEN v4
                 ELSE IF HasSeverity(issues, s5) THEN v5 ELSE o
<1> DEFINE cases == << <<s1, v1>>, <<s2, v2>>, <<s3, v3>>, <<s4, v4>>, <<s5, v5>> >>
           H(s) == HasSeverity(issues, s)
<1>1. [i \in 1 .. Len(cases) |-> <<H(cases[i][1]), cases[i][2]>>]
        = << <<H(s1), v1>>, <<H(s2), v2>>, <<H(s3), v3>>, <<H(s4), v4>>, <<H(s5), v5>> >>
  OBVIOUS
<1> QED  BY <1>1, First5 DEF BySeverity

-----------------------------------------------------------------------------
(* Concatenations: where the elements are, and which they are.             *)

LEMMA ConcatFacts ==
    ASSUME NEW T, NEW s \in Seq(T), NEW t \in Seq(T)
    PROVE  /\ s \o t \in Seq(T) /\ Len(s \o t) = Len(s) + Len(t)
           /\ \A n \in 1 .. Len(s) : (s \o t)[n] = s[n]
           /\ \A n \in 1 .. Len(t) : (s \o t)[Len(s) + n] = t[n]
<1>1. /\ s \o t \in Seq(T) /\ Len(s \o t) = Len(s) + Len(t) /\ Len(s) \in Nat /\ Len(t) \in Nat
      /\ \A n \in 1 .. Len(s) + Len(t) : (s \o t)[n] = IF n <= Len(s) THEN s[n] ELSE t[n - Len(s)]
  OBVIOUS
<1>2. ASSUME NEW n \in 1 .. Len(t)  PROVE  (s \o t)[Len(s) + n] = t[n]
  <2>1. Len(s) + n \in 1 .. Len(s) + Len(t) /\ ~(Len(s) + n <= Len(s)) /\ (Len(s) + n) - Len(s) = n
    BY <1>1
  <2> QED BY <1>1, <2>1
<1> QED BY <1>1, <1>2

\* The elements of a list and of a concatenation.
LEMMA RangeOfSeq ==
    ASSUME NEW T, NEW s \in Seq(T)
    PROVE  Range(s) \subseteq T
  BY DEF Range

LEMMA RangeConcat ==
    ASSUME NEW T, NEW s \in Seq(T), NEW t \in Seq(T)
    PROVE  Range(s \o t) = Range(s) \cup Range(t)
<1>1. /\ DOMAIN (s \o t) = 1 .. Len(s) + Len(t) /\ DOMAIN s = 1 .. Len(s) /\ DOMAIN t = 1 .. Len(t)
      /\ Len(s) \in Nat /\ Len(t) \in Nat
  BY ConcatFacts
<1>2. ASSUME NEW n \in 1 .. Len(s)  PROVE s[n] \in Range(s \o t)
  <2>1. n \in 1 .. Len(s) + Len(t) /\ (s \o t)[n] = s[n]
    BY <1>1, ConcatFacts
  <2> QED BY <1>1, <2>1 DEF Range
<1>3. ASSUME NEW n \in 1 .. Len(t)  PROVE t[n] \in Range(s \o t)
  <2>1. Len(s) + n \in 1 .. Len(s) + Len(t) /\ (s \o t)[Len(s) + n] = t[n]
    BY <1>1, ConcatFacts
  <2> QED BY <1>1, <2>1 DEF Range
<1>4. ASSUME NEW n \in 1 .. Len(s) + Len(t)  PROVE (s \o t)[n] \in Range(s) \cup Range(t)
  <2>1. CASE n <= Len(s)
    <3>1. n \in 1 .. Len(s) /\ (s \o t)[n] = s[n]
      BY <1>1, <2>1, ConcatFacts
    <3> QED BY <1>1, <3>1 DEF Range
  <2>2. CASE n > Len(s)
    <3>1. n - Len(s) \in 1 .. Len(t) /\ Len(s) + (n - Len(s)) = n
      BY <1>1, <2>2
    <3>2. (s \o t)[n] = t[n - Len(s)]
      BY <3>1, ConcatFacts
    <3> QED BY <1>1, <3>1, <3>2 DEF Range
  <2> QED BY <1>1, <2>1, <2>2
<1>5. Range(s) \cup Range(t) \subseteq Range(s \o t)
  BY <1>1, <1>2, <1>3 DEF Range
<1>6. Range(s \o t) \subseteq Range(s) \cup Range(t)
  BY <1>1, <1>4 DEF Range
<1> QED BY <1>5, <1>6

LEMMA Range1 == ASSUME NEW a  PROVE Range(<<a>>) = {a}
  BY DEF Range

\* Four lists in a row, as IssuesInOrder is built.
LEMMA ConcatFour ==
    ASSUME NEW S, NEW s1 \in Seq(S), NEW s2 \in Seq(S), NEW s3 \in Seq(S), NEW s4 \in Seq(S)
    PROVE  /\ DOMAIN (s1 \o s2 \o s3 \o s4) = 1 .. (Len(s1) + Len(s2) + Len(s3) + Len(s4))
           /\ Range(s1 \o s2 \o s3 \o s4) = Range(s1) \cup Range(s2) \cup Range(s3) \cup Range(s4)
           /\ \A n \in 1 .. Len(s1) : (s1 \o s2 \o s3 \o s4)[n] = s1[n]
<1> DEFINE u == s1 \o s2
           w == u \o s3
<1>1. /\ u \in Seq(S) /\ Len(u) = Len(s1) + Len(s2) /\ \A n \in 1 .. Len(s1) : u[n] = s1[n]
      /\ Len(s1) \in Nat /\ Len(s2) \in Nat /\ Len(s3) \in Nat /\ Len(s4) \in Nat
  BY ConcatFacts
<1>2. Range(u) = Range(s1) \cup Range(s2)
  BY RangeConcat
<1> HIDE DEF u
<1>3. w \in Seq(S) /\ Len(w) = Len(u) + Len(s3) /\ \A n \in 1 .. Len(u) : w[n] = u[n]
  BY <1>1, ConcatFacts
<1>4. Range(w) = Range(u) \cup Range(s3)
  BY <1>1, RangeConcat
<1> HIDE DEF w
<1>5. w \o s4 \in Seq(S) /\ Len(w \o s4) = Len(w) + Len(s4) /\ \A n \in 1 .. Len(w) : (w \o s4)[n] = w[n]
  BY <1>3, ConcatFacts
<1>6. Range(w \o s4) = Range(w) \cup Range(s4)
  BY <1>3, RangeConcat
<1>7. \A n \in 1 .. Len(s1) : n \in 1 .. Len(u) /\ n \in 1 .. Len(w)
  BY <1>1, <1>3
<1>8. \A n \in 1 .. Len(s1) : (w \o s4)[n] = s1[n]
  BY <1>1, <1>3, <1>5, <1>7
<1>9. DOMAIN (w \o s4) = 1 .. (Len(s1) + Len(s2) + Len(s3) + Len(s4))
  BY <1>1, <1>3, <1>5
<1> QED BY <1>2, <1>4, <1>6, <1>8, <1>9 DEF u, w

-----------------------------------------------------------------------------
(* The issues of a request.                                                *)

AnyIssue == [issue_kind: OperationRequestIssueKind, severity: OperationRequestIssueSeverity]

\* Staleness is never a reason to refuse.
LEMMA FreshnessIssue == ASSUME NEW f  PROVE FreshnessSeverity(f) \in {"fault", "interrupt", "stale", "blocked"}
  BY First3 DEF FreshnessSeverity

\* The places of the list, and what is in which.
LEMMA PlaceFacts ==
    ASSUME NEW e
    PROVE  /\ DOMAIN IssuesInOrder(e) = 1 .. 20
           /\ \A n \in 1 .. 12 : IssuesInOrder(e)[n] = EnvelopeIssues(e)[n]
           /\ Range(IssuesInOrder(e)) =
                  Range(EnvelopeIssues(e)) \cup Range(TargetSpecificIssues(e)) \cup Range(AuthorityPromotionIssues(e))
                      \cup {When(RequiresResourceSafetyReview(e),
                                 "high_risk_target_without_IR7-S03_review", "review_required")}
           /\ Range(IssuesInOrder(e)) \subseteq SUBSET AnyIssue
<1> DEFINE S == SUBSET AnyIssue
           s1 == EnvelopeIssues(e)
           s2 == TargetSpecificIssues(e)
           s3 == AuthorityPromotionIssues(e)
           safety == When(RequiresResourceSafetyReview(e), "high_risk_target_without_IR7-S03_review",
                          "review_required")
<1>1. s1 \in Seq(S) /\ Len(s1) = 12
  BY FreshnessIssue DEF EnvelopeIssues, When, Issue, AnyIssue, OperationRequestIssueKind,
         OperationRequestIssueSeverity
<1>2. s2 \in Seq(S) /\ Len(s2) = 3 /\ s3 \in Seq(S) /\ Len(s3) = 4
  BY DEF TargetSpecificIssues, AuthorityPromotionIssues, When, Issue, AnyIssue, OperationRequestIssueKind,
         OperationRequestIssueSeverity
<1>3. safety \in S
  BY DEF When, Issue, AnyIssue, OperationRequestIssueKind, OperationRequestIssueSeverity
<1> HIDE DEF S, s1, s2, s3, safety
<1> DEFINE s4 == <<safety>>
<1>4. s4 \in Seq(S) /\ Len(s4) = 1 /\ Range(s4) = {safety}
  BY <1>3, Range1
<1>5. IssuesInOrder(e) = s1 \o s2 \o s3 \o s4
  BY DEF IssuesInOrder, s1, s2, s3, safety
<1> HIDE DEF s4
<1>6. /\ DOMAIN (s1 \o s2 \o s3 \o s4) = 1 .. (Len(s1) + Len(s2) + Len(s3) + Len(s4))
      /\ Range(s1 \o s2 \o s3 \o s4) = Range(s1) \cup Range(s2) \cup Range(s3) \cup Range(s4)
      /\ \A n \in 1 .. Len(s1) : (s1 \o s2 \o s3 \o s4)[n] = s1[n]
  <2>1. s1 \in Seq(S) /\ s2 \in Seq(S) /\ s3 \in Seq(S) /\ s4 \in Seq(S)
    BY <1>1, <1>2, <1>4
  <2> QED BY <2>1, ConcatFour
<1>7. DOMAIN IssuesInOrder(e) = 1 .. 20 /\ \A n \in 1 .. 12 : IssuesInOrder(e)[n] = s1[n]
  <2>1. Len(s1) + Len(s2) + Len(s3) + Len(s4) = 20
    BY <1>1, <1>2, <1>4
  <2>2. DOMAIN IssuesInOrder(e) = 1 .. 20
    BY <1>5, <1>6, <2>1
  <2>3. \A n \in 1 .. 12 : n \in 1 .. Len(s1)
    BY <1>1
  <2> QED BY <1>5, <1>6, <2>2, <2>3
<1>8. Range(s1) \subseteq S /\ Range(s2) \subseteq S /\ Range(s3) \subseteq S
  <2>1. s1 \in Seq(S) /\ s2 \in Seq(S) /\ s3 \in Seq(S)
    BY <1>1, <1>2
  <2> QED BY <2>1, RangeOfSeq
<1>9. Range(IssuesInOrder(e)) = Range(s1) \cup Range(s2) \cup Range(s3) \cup {safety}
  <2>1. Range(IssuesInOrder(e)) = Range(s1) \cup Range(s2) \cup Range(s3) \cup Range(s4)
    BY <1>5, <1>6
  <2> QED BY <1>4, <2>1
<1> QED BY <1>3, <1>7, <1>8, <1>9 DEF S, s1, s2, s3, safety

\* classify_intended_effect
LEMMA EffectClasses ==
    ASSUME NEW effect
    PROVE  EffectClass(effect) = IF effect \in SAFE_DRY_RUN_EFFECT_SET THEN "safe_dry_run"
                                 ELSE IF effect \in BLOCKED_LIVE_EFFECT_SET THEN "blocked_live_effect"
                                 ELSE "unknown"
<1> DEFINE c1 == effect \in SAFE_DRY_RUN_EFFECT_SET
           c2 == effect \in BLOCKED_LIVE_EFFECT_SET
<1>1. EffectClass(effect) = FirstOf(<< <<c1, "safe_dry_run">>, <<c2, "blocked_live_effect">> >>, "unknown")
  BY DEF EffectClass
<1> HIDE DEF c1, c2
<1>2. EffectClass(effect) = IF c1 THEN "safe_dry_run" ELSE IF c2 THEN "blocked_live_effect" ELSE "unknown"
  BY <1>1, First2
<1> QED BY <1>2 DEF c1, c2

\* Which issues a request has, and why.
LEMMA IssueFacts ==
    ASSUME NEW e, NEW i
    PROVE  i \in IssuesOf(e) <=>
             \/ IsMissing(e, IdentityFields) /\ i = Issue("missing_field", "fault")
             \/ IsMissing(e, SafetyFields) /\ i = Issue("missing_required_safety_field", "fault")
             \/ e.source_ref_set = {} /\ i = Issue("missing_source_ref", "fault")
             \/ e.completion_review_ref = NoValue /\ i = Issue("missing_completion_review", "fault")
             \/ e.authority_notice_ref = NoValue /\ i = Issue("missing_authority_notice", "fault")
             \/ /\ e.authority_notice_state \in {"missing", "missing_or_stale", "stale"}
                /\ i = Issue("stale_authority_notice", "stale")
             \/ /\ e.freshness_state # "fresh"
                /\ i = Issue("stale_authority_notice", FreshnessSeverity(e.freshness_state))
             \/ /\ e.authority_tier \in FORBIDDEN_AUTHORITY_TIER_SET
                /\ i = Issue("forbidden_authority_tier", "refused")
             \/ ~e.dry_run_required /\ i = Issue("dry_run_not_required", "refused")
             \/ /\ EffectClass(e.intended_effect) = "blocked_live_effect"
                /\ i = Issue("live_effect_requested", "refused")
             \/ /\ TargetRisk(e.resource_target) = "ambiguous"
                /\ i = Issue("ambiguous_resource_target", "interrupt")
             \/ e.rollback_or_abort_route = NoValue /\ i = Issue("missing_rollback_or_abort_route", "blocked")
             \/ \E s \in Range(TargetSpecificIssues(e)) : i \in s
             \/ \E s \in Range(AuthorityPromotionIssues(e)) : i \in s
             \/ /\ RequiresResourceSafetyReview(e)
                /\ i = Issue("high_risk_target_without_IR7-S03_review", "review_required")
<1>1. i \in IssuesOf(e) <=>
        \/ \E s \in Range(EnvelopeIssues(e)) : i \in s
        \/ \E s \in Range(TargetSpecificIssues(e)) : i \in s
        \/ \E s \in Range(AuthorityPromotionIssues(e)) : i \in s
        \/ i \in When(RequiresResourceSafetyReview(e),
                      "high_risk_target_without_IR7-S03_review", "review_required")
  BY PlaceFacts DEF IssuesOf
<1>2. (\E s \in Range(EnvelopeIssues(e)) : i \in s) <=> \E n \in 1 .. 12 : i \in EnvelopeIssues(e)[n]
  <2>1. DOMAIN EnvelopeIssues(e) = 1 .. 12
    BY DEF EnvelopeIssues
  <2> QED BY <2>1 DEF Range
<1>3. EnvelopeIssues(e)[1] = When(IsMissing(e, IdentityFields), "missing_field", "fault")
  BY DEF EnvelopeIssues, When
<1>4. EnvelopeIssues(e)[2] = When(IsMissing(e, SafetyFields), "missing_required_safety_field", "fault")
  BY DEF EnvelopeIssues, When
<1>5. EnvelopeIssues(e)[3] = When(e.source_ref_set = {}, "missing_source_ref", "fault")
  BY DEF EnvelopeIssues, When
<1>6. EnvelopeIssues(e)[4] = When(e.completion_review_ref = NoValue, "missing_completion_review", "fault")
  BY DEF EnvelopeIssues, When
<1>7. EnvelopeIssues(e)[5] = When(e.authority_notice_ref = NoValue, "missing_authority_notice", "fault")
  BY DEF EnvelopeIssues, When
<1>8. EnvelopeIssues(e)[6] = When(e.authority_notice_state \in {"missing", "missing_or_stale", "stale"},
                    "stale_authority_notice", "stale")
  BY DEF EnvelopeIssues, When
<1>9. EnvelopeIssues(e)[7] = When(e.freshness_state # "fresh", "stale_authority_notice",
                    FreshnessSeverity(e.freshness_state))
  BY DEF EnvelopeIssues, When
<1>10. EnvelopeIssues(e)[8] = When(e.authority_tier \in FORBIDDEN_AUTHORITY_TIER_SET, "forbidden_authority_tier", "refused")
  BY DEF EnvelopeIssues, When
<1>11. EnvelopeIssues(e)[9] = When(~e.dry_run_required, "dry_run_not_required", "refused")
  BY DEF EnvelopeIssues, When
<1>12. EnvelopeIssues(e)[10] = When(EffectClass(e.intended_effect) = "blocked_live_effect", "live_effect_requested", "refused")
  BY DEF EnvelopeIssues, When
<1>13. EnvelopeIssues(e)[11] = When(TargetRisk(e.resource_target) = "ambiguous", "ambiguous_resource_target", "interrupt")
  BY DEF EnvelopeIssues, When
<1>14. EnvelopeIssues(e)[12] = When(e.rollback_or_abort_route = NoValue, "missing_rollback_or_abort_route", "blocked")
  BY DEF EnvelopeIssues, When
<1>15. \A n \in 1 .. 12 : \/ n = 1 \/ n = 2 \/ n = 3 \/ n = 4 \/ n = 5 \/ n = 6
                          \/ n = 7 \/ n = 8 \/ n = 9 \/ n = 10 \/ n = 11 \/ n = 12
  OBVIOUS
<1>16. (\E n \in 1 .. 12 : i \in EnvelopeIssues(e)[n]) <=>
         \/ i \in EnvelopeIssues(e)[1] \/ i \in EnvelopeIssues(e)[2] \/ i \in EnvelopeIssues(e)[3]
         \/ i \in EnvelopeIssues(e)[4] \/ i \in EnvelopeIssues(e)[5] \/ i \in EnvelopeIssues(e)[6]
         \/ i \in EnvelopeIssues(e)[7] \/ i \in EnvelopeIssues(e)[8] \/ i \in EnvelopeIssues(e)[9]
         \/ i \in EnvelopeIssues(e)[10] \/ i \in EnvelopeIssues(e)[11] \/ i \in EnvelopeIssues(e)[12]
  BY <1>15
<1> QED
  BY <1>1, <1>2, <1>3, <1>4, <1>5, <1>6, <1>7, <1>8, <1>9, <1>10, <1>11, <1>12, <1>13, <1>14, <1>16 DEF When

\* The issues of _target_specific_issues.
LEMMA TargetIssueFacts ==
    ASSUME NEW e, NEW i
    PROVE  (\E s \in Range(TargetSpecificIssues(e)) : i \in s) <=>
             \/ /\ \/ e.resource_target = "credential_or_secret"
                   \/ e.intended_effect = "credential_access_or_mutation"
                /\ i = Issue("credential_boundary_touched", "refused")
             \/ /\ \/ e.resource_target = "network_service"
                   \/ e.intended_effect = "network_exposure_mutation"
                /\ i = Issue("network_exposure_requested", "refused")
             \/ /\ \/ e.resource_target = "filesystem_destructive_target"
                   \/ e.intended_effect = "destructive_filesystem_action"
                /\ i = Issue("destructive_action_possible", "refused")
  BY DEF TargetSpecificIssues, When, Range

\* The issues of _authority_promotion_issues.
LEMMA PromotionIssueFacts ==
    ASSUME NEW e, NEW i
    PROVE  (\E s \in Range(AuthorityPromotionIssues(e)) : i \in s) <=>
             \/ /\ e.intended_effect \in {"job_dispatch", "job_cancellation"}
                /\ \/ /\ "coordination_claim" \in e.cited_authority_set
                      /\ i = Issue("coordination_claim_promoted_to_dispatch", "refused")
                   \/ /\ "mailbox_carrier_context" \in e.cited_authority_set
                      /\ i = Issue("mailbox_carrier_promoted_to_dispatch", "refused")
                   \/ /\ e.cited_authority_set \cap {"successful_dry_run_record", "dry_run_result"} # {}
                      /\ i = Issue("live_effect_requested", "refused")
             \/ /\ \/ e.requested_authority_promotion
                   \/ e.cited_authority_set \cap {"generated_projection", "fixture_success"} # {}
                /\ i = Issue("generated_projection_promoted_to_authority", "refused")
<1>1. DOMAIN AuthorityPromotionIssues(e) = 1 .. 4
  BY DEF AuthorityPromotionIssues
<1>2. (\E s \in Range(AuthorityPromotionIssues(e)) : i \in s) <=>
        \/ i \in AuthorityPromotionIssues(e)[1] \/ i \in AuthorityPromotionIssues(e)[2]
        \/ i \in AuthorityPromotionIssues(e)[3] \/ i \in AuthorityPromotionIssues(e)[4]
  BY <1>1 DEF Range
<1> QED BY <1>2 DEF AuthorityPromotionIssues, When

-----------------------------------------------------------------------------
(* The status of a request and of its dry run.                             *)

\* operation_request_status_for_issues
LEMMA Statuses ==
    ASSUME NEW e
    PROVE  RequestStatus(e) =
             IF HasSeverity(IssuesOf(e), "fault") THEN "faulted"
             ELSE IF HasKind(IssuesOf(e), "live_effect_requested") THEN "blocked_for_live_effect"
             ELSE IF HasSeverity(IssuesOf(e), "refused") THEN "refused"
             ELSE IF HasSeverity(IssuesOf(e), "interrupt") THEN "interrupted"
             ELSE IF HasSeverity(IssuesOf(e), "stale") THEN "stale"
             ELSE IF HasSeverity(IssuesOf(e), "review_required") THEN "review_required"
             ELSE IF HasSeverity(IssuesOf(e), "blocked") THEN "blocked"
             ELSE IF EffectClass(e.intended_effect) = "unknown" THEN "interrupted" ELSE "accepted"
  BY BySeverity5 DEF RequestStatus

\* A live effect is named as such, by an issue that refuses it.
LEMMA LiveIsRefused ==
    ASSUME NEW e
    PROVE  /\ HasKind(IssuesOf(e), "live_effect_requested") <=> e.intended_effect \in BLOCKED_LIVE_EFFECT_SET
           /\ HasKind(IssuesOf(e), "live_effect_requested") => HasSeverity(IssuesOf(e), "refused")
<1>1. ASSUME e.intended_effect \in BLOCKED_LIVE_EFFECT_SET
      PROVE  Issue("live_effect_requested", "refused") \in IssuesOf(e)
  <2>1. EffectClass(e.intended_effect) = "blocked_live_effect"
    BY <1>1, EffectClasses DEF SAFE_DRY_RUN_EFFECT_SET, BLOCKED_LIVE_EFFECT_SET
  <2> QED BY <2>1, IssueFacts
<1>2. ASSUME NEW i \in IssuesOf(e), i.issue_kind = "live_effect_requested"
      PROVE  e.intended_effect \in BLOCKED_LIVE_EFFECT_SET
  <2>1. \/ EffectClass(e.intended_effect) = "blocked_live_effect"
        \/ e.intended_effect \in {"job_dispatch", "job_cancellation"}
    <3>1. CASE \E s \in Range(TargetSpecificIssues(e)) : i \in s
      BY <1>2, <3>1, TargetIssueFacts DEF Issue
    <3>2. CASE \E s \in Range(AuthorityPromotionIssues(e)) : i \in s
      BY <1>2, <3>2, PromotionIssueFacts DEF Issue
    <3>3. \A k, s : Issue(k, s).issue_kind = k
      BY DEF Issue
    <3> QED BY <1>2, <3>1, <3>2, <3>3, IssueFacts
  <2> QED BY <2>1, EffectClasses DEF BLOCKED_LIVE_EFFECT_SET
<1> QED BY <1>1, <1>2 DEF HasKind, HasSeverity, Issue

\* A request is accepted if and only if there is nothing against it.
LEMMA AcceptedIsClear ==
    ASSUME NEW e
    PROVE  RequestStatus(e) = "accepted" <=> IssuesOf(e) = {} /\ EffectClass(e.intended_effect) # "unknown"
<1>1. \A i \in IssuesOf(e) : i.severity \in OperationRequestIssueSeverity
  BY PlaceFacts DEF IssuesOf, AnyIssue
<1>2. IssuesOf(e) = {} <=> \A s \in OperationRequestIssueSeverity : ~HasSeverity(IssuesOf(e), s)
  BY <1>1 DEF HasSeverity
<1>3. IssuesOf(e) = {} => ~HasKind(IssuesOf(e), "live_effect_requested")
  BY DEF HasKind
<1> QED BY <1>2, <1>3, Statuses DEF OperationRequestIssueSeverity

\* _result_status_for_request_validation
LEMMA ResultStatuses ==
    ASSUME NEW issues
    PROVE  ResultStatus(issues) = IF HasSeverity(issues, "fault") THEN "faulted"
                                  ELSE IF HasSeverity(issues, "refused") THEN "refused"
                                  ELSE IF HasSeverity(issues, "review_required") THEN "review_required"
                                  ELSE "blocked"
  BY BySeverity3 DEF ResultStatus

\* The status that validate_dry_run_result_record gives a result.
LEMMA ResultValidations ==
    ASSUME NEW r
    PROVE  ResultValidationStatus(r) = IF HasSeverity(ResultIssues(r), "fault") THEN "faulted"
                                       ELSE IF HasSeverity(ResultIssues(r), "refused") THEN "refused"
                                       ELSE IF HasSeverity(ResultIssues(r), "blocked") THEN "blocked"
                                       ELSE r.review_status
  BY BySeverity3 DEF ResultValidationStatus

\* A dry run never looks better than the request it is of.
LEMMA DryRunAgrees ==
    ASSUME NEW r, r.validated
    PROVE  /\ GivenStatus(r) = "accepted" <=> RequestStatus(r.request) = "accepted"
           /\ GivenStatus(r) = "refused" <=> RequestStatus(r.request) \in {"refused", "blocked_for_live_effect"}
           /\ GivenStatus(r) = "faulted" <=> RequestStatus(r.request) = "faulted"
<1> DEFINE issues == IssuesOf(r.request)
<1>1. GivenStatus(r) = IF RequestStatus(r.request) = "accepted" THEN "accepted" ELSE ResultStatus(issues)
  BY DEF DryRunResult, GivenStatus
<1> QED BY <1>1, ResultStatuses, Statuses, LiveIsRefused

\* What validation adds to the status of a result.
LEMMA ValidationAgrees ==
    ASSUME NEW r, r.authority_tier \in OperationAuthorityTier
    PROVE  /\ ResultValidationStatus(r) = "accepted" => r.review_status = "accepted"
           /\ r.review_status = "faulted" /\ IsNonAuthoritative(r) /\ ~r.authority_promotion_claimed
                  => ResultValidationStatus(r) = "faulted"
           /\ ResultValidationStatus(r) = "accepted" => ResultIssues(r) = {} /\ IsNonAuthoritative(r)
<1>1. ResultValidationStatus(r) = "accepted" => r.review_status = "accepted"
  BY ResultValidations
<1>2. ASSUME IsNonAuthoritative(r), ~r.authority_promotion_claimed
      PROVE  ~HasSeverity(ResultIssues(r), "refused") /\ ~HasSeverity(ResultIssues(r), "blocked")
  BY <1>2 DEF IsNonAuthoritative, ResultIssues, HasSeverity, When, Issue, FORBIDDEN_AUTHORITY_TIER_SET
<1>3. ASSUME ResultValidationStatus(r) = "accepted"
      PROVE  ResultIssues(r) = {} /\ IsNonAuthoritative(r)
  <2>1. \A s \in {"fault", "refused", "blocked"} : ~HasSeverity(ResultIssues(r), s)
    BY <1>3, ResultValidations
  <2>2. \A i \in ResultIssues(r) : i.severity \in {"fault", "refused", "blocked"}
    BY DEF ResultIssues, When, Issue
  <2>3. ResultIssues(r) = {}
    BY <2>1, <2>2 DEF HasSeverity
  <2> QED BY <2>3 DEF ResultIssues, IsNonAuthoritative, When, FORBIDDEN_AUTHORITY_TIER_SET
<1> QED BY <1>1, <1>2, <1>3, ResultValidations

-----------------------------------------------------------------------------
(* What is against live effects and critical targets.                      *)

\* As a request, a live effect and a critical target have an issue,
LEMMA CriticalIsRefused ==
    ASSUME NEW e, e.intended_effect \in BLOCKED_LIVE_EFFECT_SET \/ e.resource_target \in CRITICAL_TARGET_SET
    PROVE  RequestStatus(e) # "accepted" /\ IssuesOf(e) # {}
<1>1. CASE e.intended_effect \in BLOCKED_LIVE_EFFECT_SET
  <2>1. HasKind(IssuesOf(e), "live_effect_requested")
    BY <1>1, LiveIsRefused
  <2>2. IssuesOf(e) # {}
    BY <2>1 DEF HasKind
  <2> QED BY <2>1, <2>2, AcceptedIsClear
<1>2. CASE e.resource_target \in CRITICAL_TARGET_SET
  <2>1. \E i : \E s \in Range(TargetSpecificIssues(e)) : i \in s
    BY <1>2, TargetIssueFacts DEF CRITICAL_TARGET_SET
  <2>2. IssuesOf(e) # {}
    BY <2>1, IssueFacts
  <2> QED BY <2>2, AcceptedIsClear
<1> QED BY <1>1, <1>2

\* and in a review too, with whatever evidence.
LEMMA CriticalHasSafetyIssues ==
    ASSUME NEW e, NEW blast, NEW rollback, NEW used,
           e.intended_effect \in BLOCKED_LIVE_EFFECT_SET \/ e.resource_target \in CRITICAL_TARGET_SET
    PROVE  SafetyIssues(e, blast, rollback, used) # {}
<1>1. RequestSafetyIssues(e, blast) # {}
  <2>1. CASE e.intended_effect \in BLOCKED_LIVE_EFFECT_SET
    <3>1. EffectClass(e.intended_effect) = "blocked_live_effect"
      BY <2>1, EffectClasses DEF SAFE_DRY_RUN_EFFECT_SET, BLOCKED_LIVE_EFFECT_SET
    <3>2. Issue("live_control_implication", "refused") \in RequestSafetyIssues(e, blast)
      BY <3>1 DEF RequestSafetyIssues, When
    <3> QED BY <3>2
  <2>2. CASE e.resource_target = "credential_or_secret"
    <3>1. Issue("credential_boundary_unreviewed", "critical") \in RequestSafetyIssues(e, blast)
      BY <2>2 DEF RequestSafetyIssues, When
    <3> QED BY <3>1
  <2>3. CASE e.resource_target = "network_service"
    <3>1. Issue("network_boundary_unreviewed", "critical") \in RequestSafetyIssues(e, blast)
      BY <2>3 DEF RequestSafetyIssues, When
    <3> QED BY <3>1
  <2>4. CASE e.resource_target = "filesystem_destructive_target"
    <3>1. Issue("destructive_action_possible", "critical") \in RequestSafetyIssues(e, blast)
      BY <2>4 DEF RequestSafetyIssues, When
    <3> QED BY <3>1
  <2> QED BY <2>1, <2>2, <2>3, <2>4 DEF CRITICAL_TARGET_SET
<1>2. RequestSafetyIssues(e, blast) \subseteq SafetyIssues(e, blast, rollback, used)
  BY DEF SafetyIssues
<1> QED BY <1>1, <1>2

\* A review with nothing to say of a request at risk had an approval, and the
\* approval was for this request.
LEMMA ClearReviewIsApproved ==
    ASSUME NEW e, NEW blast, NEW rollback, NEW used, SafetyIssues(e, blast, rollback, used) = {}
    PROVE  /\ RequiresHumanReview(e, blast) => used # {}
           /\ \A a \in used : /\ a.approved_operation_request_ref = e.operation_request_id
                             /\ a.approved_intended_effect = e.intended_effect
                             /\ a.approved_resource_target = e.resource_target
                             /\ a.complete /\ ~a.broad_approval_requested /\ ~a.live_control_authority_claimed
                             /\ a.approval_state \notin Withdrawn
<1>1. IssuesOfApproval(e, blast, used) = {}
  BY DEF SafetyIssues
<1>2. /\ RequiresHumanReview(e, blast) => used # {}
      /\ \A a \in used : ApprovalIssues(a, e) = {}
  BY <1>1 DEF IssuesOfApproval, When
<1>3. ASSUME NEW a, ApprovalIssues(a, e) = {}
      PROVE  /\ a.approved_operation_request_ref = e.operation_request_id
             /\ a.approved_intended_effect = e.intended_effect
             /\ a.approved_resource_target = e.resource_target
             /\ a.complete /\ ~a.broad_approval_requested /\ ~a.live_control_authority_claimed
             /\ a.approval_state \notin Withdrawn
  BY <1>3 DEF ApprovalIssues, When, Withdrawn
<1> QED BY <1>2, <1>3

\* What a request that is not faulted has, its result has.
LEMMA UnfaultedIsComplete ==
    ASSUME NEW r, RequestStatus(r.request) # "faulted", r.has_non_authority_notice
    PROVE  ~HasSeverity(ResultIssues(r), "fault")
<1>1. ~HasSeverity(IssuesOf(r.request), "fault")
  BY Statuses
<1>2. ~IsMissing(r.request, IdentityFields)
  <2>1. ASSUME IsMissing(r.request, IdentityFields)  PROVE Issue("missing_field", "fault") \in IssuesOf(r.request)
    BY <2>1, IssueFacts
  <2> QED BY <1>1, <2>1 DEF HasSeverity, Issue
<1>3. ~IsMissing(r.request, SafetyFields)
  <2>1. ASSUME IsMissing(r.request, SafetyFields)
        PROVE  Issue("missing_required_safety_field", "fault") \in IssuesOf(r.request)
    BY <2>1, IssueFacts
  <2> QED BY <1>1, <2>1 DEF HasSeverity, Issue
<1>4. ~IsMissing(r.request, ResultFields)
  BY <1>2, <1>3 DEF IsMissing, IdentityFields, SafetyFields, ResultFields
<1> QED BY <1>4 DEF ResultIssues, HasSeverity, When, Issue

-----------------------------------------------------------------------------
(* The inductive invariant: there is at most one record of each kind, it is *)
(* of the request at hand, and what was computed of that request still is   *)
(* what the functions say; an edit of a result changes other fields only.   *)

Flags == {"required_human_approval", "live_effect_performed", "completion_review_required",
          "has_non_authority_notice", "authority_promotion_claimed"}
ResultNames == Flags \cup {"validated", "request", "review_status", "refused_effect_set", "authority_tier"}

IsResult(r) ==
    /\ DOMAIN r = ResultNames
    /\ r.validated \in BOOLEAN
    /\ r.review_status \in DryRunResultStatus
    /\ r.refused_effect_set = DryRunResult(r.request, r.validated).refused_effect_set
    /\ r.refused_effect_set \subseteq OperationRequestIssueKind
    /\ \A f \in Flags : r[f] \in BOOLEAN
    /\ r.authority_tier \in OperationAuthorityTier

IsReview(v) ==
    \E blast \in Optional(BlastEvidence), rollback \in Optional(RollbackEvidence) :
        /\ v.issues = SafetyIssues(v.request, blast, rollback, v.approval)
        /\ v.risk_level = RiskLevel(v.request, blast)
        /\ v.required_human_review = (RequiresHumanReview(v.request, blast) \/ v.issues # {})

PlannerInv ==
    /\ \A e \in request : e \in OperationRequestEnvelope /\ request = {e}
    /\ \A a \in approval : a \in HumanApprovalEnvelope /\ approval = {a}
    /\ \A r \in result : r.request \in request /\ IsResult(r)
    /\ \A r \in refusal : r.request \in request /\ RequestStatus(r.request) # "accepted" /\ r = Refusal(r.request)
    /\ \A v \in review : v.request \in request /\ IsReview(v)

\* A simulation makes a result that fits its request,
LEMMA NewResult ==
    ASSUME NEW e, NEW validated \in BOOLEAN, NEW r,
           r = Merged([validated |-> validated], DryRunResult(e, validated))
    PROVE  r.request = e /\ IsResult(r)
<1> DEFINE d == DryRunResult(e, validated)
           p == [validated |-> validated]
<1>1. /\ DOMAIN d = ResultNames \ {"validated"}
      /\ DOMAIN p = {"validated"} /\ p["validated"] = validated
      /\ d["request"] = e
      /\ d["live_effect_performed"] = FALSE /\ d["completion_review_required"] = TRUE
      /\ d["has_non_authority_notice"] = TRUE /\ d["authority_promotion_claimed"] = FALSE
      /\ d["authority_tier"] = "operations_planning_record"
  BY DEF DryRunResult, ResultNames, Flags
<1>2. d["required_human_approval"] \in BOOLEAN
  BY DEF DryRunResult, RequiresHumanApproval
<1>3. d["refused_effect_set"] \subseteq OperationRequestIssueKind
  <2>1. d["refused_effect_set"] = KindsOf(IF validated THEN IssuesOf(e) ELSE {})
    BY DEF DryRunResult
  <2>2. \A i \in IssuesOf(e) : i.issue_kind \in OperationRequestIssueKind
    BY PlaceFacts DEF IssuesOf, AnyIssue
  <2> QED BY <2>1, <2>2 DEF KindsOf
<1> HIDE DEF d, p
<1>4. /\ DOMAIN r = ResultNames /\ r["validated"] = validated
      /\ \A f \in ResultNames \ {"validated"} : r[f] = d[f]
  <2>1. r = Merged(p, d)
    BY DEF p, d
  <2>2. /\ DOMAIN r = DOMAIN p \cup DOMAIN d
        /\ \A f \in DOMAIN p : r[f] = p[f]
        /\ \A f \in DOMAIN d \ DOMAIN p : r[f] = d[f]
    BY <2>1 DEF Merged
  <2> QED BY <1>1, <2>2 DEF ResultNames
<1>5. /\ r.validated = validated /\ r.request = e
      /\ r.review_status = d.review_status /\ r.refused_effect_set = d.refused_effect_set
  BY <1>1, <1>4 DEF ResultNames
<1>8. d.review_status \in DryRunResultStatus
  BY ResultStatuses DEF DryRunResult, DryRunResultStatus, d
<1>6. \A f \in Flags : r[f] \in BOOLEAN
  <2>1. Flags \subseteq ResultNames \ {"validated"} /\ \A f \in Flags : d[f] \in BOOLEAN
    BY <1>1, <1>2 DEF ResultNames, Flags
  <2> QED BY <1>4, <2>1
<1>7. r.refused_effect_set \subseteq OperationRequestIssueKind /\ r.authority_tier \in OperationAuthorityTier
  BY <1>1, <1>3, <1>4 DEF ResultNames, OperationAuthorityTier
<1> QED BY <1>4, <1>5, <1>6, <1>7, <1>8 DEF IsResult, d

\* and an edit leaves what ties the result to it.
LEMMA EditedResult ==
    ASSUME NEW r, IsResult(r), NEW edit \in ResultEdits, NEW s, s = Merged(edit, r)
    PROVE  s.request = r.request /\ IsResult(s)
<1>1. /\ DOMAIN edit \subseteq EditableFields
      /\ \A f \in DOMAIN edit : edit[f] \in EditableValues(f)
  BY OperationsAssumption
<1>2. /\ DOMAIN s = ResultNames
      /\ \A f \in DOMAIN edit : s[f] = edit[f]
      /\ \A f \in ResultNames \ DOMAIN edit : s[f] = r[f]
  <2>1. /\ DOMAIN s = DOMAIN edit \cup DOMAIN r
        /\ \A f \in DOMAIN edit : s[f] = edit[f]
        /\ \A f \in DOMAIN r \ DOMAIN edit : s[f] = r[f]
    BY DEF Merged
  <2>2. EditableFields \subseteq ResultNames
    BY DEF EditableFields, ResultNames, Flags
  <2> QED BY <1>1, <2>1, <2>2 DEF IsResult
<1>3. s.request = r.request /\ s.validated = r.validated /\ s.refused_effect_set = r.refused_effect_set
  BY <1>1, <1>2 DEF EditableFields, ResultNames
<1>4. \A f \in Flags : s[f] \in BOOLEAN
  BY <1>1, <1>2 DEF IsResult, Flags, ResultNames, EditableValues
<1>5. s.authority_tier \in OperationAuthorityTier /\ s.review_status \in DryRunResultStatus
  BY <1>1, <1>2 DEF IsResult, ResultNames, EditableValues
<1> QED BY <1>2, <1>3, <1>4, <1>5 DEF IsResult

\* A review is what the review function says of its request.
LEMMA NewReview ==
    ASSUME NEW e, NEW blast \in Optional(BlastEvidence), NEW rollback \in Optional(RollbackEvidence), NEW used, NEW v,
           v = Merged([request |-> e, approval |-> used], ReviewResourceSafety(e, blast, rollback, used))
    PROVE  v.request = e /\ v.approval = used /\ IsReview(v)
<1> DEFINE p == [request |-> e, approval |-> used]
           d == ReviewResourceSafety(e, blast, rollback, used)
<1>1. /\ DOMAIN p = {"request", "approval"} /\ p["request"] = e /\ p["approval"] = used
      /\ DOMAIN d = {"operation_request_ref", "issues", "risk_level", "required_human_review", "safe_next_route_set"}
      /\ d["issues"] = SafetyIssues(e, blast, rollback, used)
      /\ d["risk_level"] = RiskLevel(e, blast)
      /\ d["required_human_review"] = (RequiresHumanReview(e, blast) \/ d["issues"] # {})
  BY DEF ReviewResourceSafety
<1> HIDE DEF p, d
<1>2. /\ v["request"] = e /\ v["approval"] = used
      /\ v["issues"] = d["issues"] /\ v["risk_level"] = d["risk_level"]
      /\ v["required_human_review"] = d["required_human_review"]
  <2>1. v = Merged(p, d)
    BY DEF p, d
  <2>2. /\ \A f \in DOMAIN p : v[f] = p[f]
        /\ \A f \in DOMAIN d \ DOMAIN p : v[f] = d[f]
    BY <2>1 DEF Merged
  <2> QED BY <1>1, <2>2
<1> QED BY <1>1, <1>2 DEF IsReview

\* An approval is a record of its type.
LEMMA NewApproval ==
    ASSUME NEW e \in OperationRequestEnvelope, NEW form \in ApprovalForms, NEW a,
           a = Merged([approved_operation_request_ref |-> e.operation_request_id,
                       approved_intended_effect |-> e.intended_effect,
                       approved_resource_target |-> e.resource_target,
                       risk_classification |-> e.risk_classification], form)
    PROVE  a \in HumanApprovalEnvelope
<1> DEFINE p == [approved_operation_request_ref |-> e.operation_request_id,
                 approved_intended_effect |-> e.intended_effect,
                 approved_resource_target |-> e.resource_target,
                 risk_classification |-> e.risk_classification]
           Copied == {"approved_operation_request_ref", "approved_intended_effect",
                      "approved_resource_target", "risk_classification"}
<1>1. DOMAIN p = Copied /\ \A f \in Copied : p[f] \in STRING
  BY DEF OperationRequestEnvelope
<1>2. form \in ApprovalForm
  BY OperationsAssumption
<1>3. /\ DOMAIN form = {"complete", "approval_state", "broad_approval_requested", "live_control_authority_claimed"}
      /\ form["complete"] \in BOOLEAN /\ form["approval_state"] \in HumanApprovalState
      /\ form["broad_approval_requested"] \in BOOLEAN /\ form["live_control_authority_claimed"] \in BOOLEAN
  BY <1>2 DEF ApprovalForm
<1> HIDE DEF p
<1>4. /\ DOMAIN a = Copied \cup DOMAIN form
      /\ \A f \in Copied : a[f] = p[f]
      /\ \A f \in DOMAIN form : a[f] = form[f]
  <2>1. a = Merged(p, form)
    BY DEF p
  <2>2. /\ DOMAIN a = DOMAIN p \cup DOMAIN form
        /\ \A f \in DOMAIN p : a[f] = p[f]
        /\ \A f \in DOMAIN form \ DOMAIN p : a[f] = form[f]
    BY <2>1 DEF Merged
  <2> QED BY <1>1, <1>3, <2>2
<1>5. a = [f \in DOMAIN a |-> a[f]]
  BY DEF Merged
<1> QED BY <1>1, <1>3, <1>4, <1>5 DEF HumanApprovalEnvelope

LEMMA PlannerInit == Init => PlannerInv
  BY DEF Init, PlannerInv

\* One step for each action; the records that an action leaves alone are of
\* the request that it leaves alone.
LEMMA PlannerStep == PlannerInv /\ [Next]_vars => PlannerInv'
<1> SUFFICES ASSUME PlannerInv, [Next]_vars  PROVE PlannerInv'
  OBVIOUS
<1>1. ASSUME NEW data \in RequestData, Submit(data)  PROVE PlannerInv'
  <2>1. request' = {EnvelopeFromMapping(data)} /\ EnvelopeFromMapping(data) \in OperationRequestEnvelope
    BY <1>1, OperationsAssumption DEF Submit
  <2>2. result = {} /\ refusal = {} /\ review = {}
    BY <1>1 DEF Submit, PlannerInv
  <2>3. approval' = approval /\ result' = {} /\ refusal' = {} /\ review' = {}
    BY <1>1, <2>2 DEF Submit
  <2> QED BY <2>1, <2>3 DEF PlannerInv
<1>2. ASSUME NEW form \in ApprovalForms, Approve(form)  PROVE PlannerInv'
  <2>1. PICK e \in request :
            approval' = {Merged([approved_operation_request_ref |-> e.operation_request_id,
                                 approved_intended_effect |-> e.intended_effect,
                                 approved_resource_target |-> e.resource_target,
                                 risk_classification |-> e.risk_classification], form)}
    BY <1>2 DEF Approve
  <2>2. e \in OperationRequestEnvelope
    BY DEF PlannerInv
  <2>3. \A a \in approval' : a \in HumanApprovalEnvelope /\ approval' = {a}
    BY <2>1, <2>2, NewApproval
  <2>4. UNCHANGED <<request, result, refusal, review>>
    BY <1>2 DEF Approve
  <2> QED BY <2>3, <2>4 DEF PlannerInv
<1>3. ASSUME NEW validated \in BOOLEAN, Simulate(validated)  PROVE PlannerInv'
  <2>1. PICK e \in request : result' = {Merged([validated |-> validated], DryRunResult(e, validated))}
    BY <1>3 DEF Simulate
  <2>2. \A r \in result' : r.request \in request /\ IsResult(r)
    BY <2>1, NewResult
  <2>3. UNCHANGED <<request, approval, refusal, review>>
    BY <1>3 DEF Simulate
  <2> QED BY <2>2, <2>3 DEF PlannerInv
<1>4. ASSUME NEW edit \in ResultEdits, Reread(edit)  PROVE PlannerInv'
  <2>1. PICK r \in result : result' = {Merged(edit, r)}
    BY <1>4 DEF Reread
  <2>2. r.request \in request /\ IsResult(r)
    BY DEF PlannerInv
  <2>3. \A s \in result' : s.request \in request /\ IsResult(s)
    BY <2>1, <2>2, EditedResult
  <2>4. UNCHANGED <<request, approval, refusal, review>>
    BY <1>4 DEF Reread
  <2> QED BY <2>3, <2>4 DEF PlannerInv
<1>5. CASE Refuse
  <2>1. PICK e \in request : RequestStatus(e) # "accepted" /\ refusal' = {Refusal(e)}
    BY <1>5 DEF Refuse
  <2>2. Refusal(e).request = e
    BY DEF Refusal
  <2>3. \A r \in refusal' : r.request \in request /\ RequestStatus(r.request) # "accepted" /\ r = Refusal(r.request)
    BY <2>1, <2>2
  <2>4. UNCHANGED <<request, approval, result, review>>
    BY <1>5 DEF Refuse
  <2> QED BY <2>3, <2>4 DEF PlannerInv
<1>6. ASSUME NEW blast \in Optional(BlastEvidence), NEW rollback \in Optional(RollbackEvidence),
             NEW used \in {{}, approval}, Review(blast, rollback, used)
      PROVE  PlannerInv'
  <2>1. PICK e \in request :
            review' = {Merged([request |-> e, approval |-> used], ReviewResourceSafety(e, blast, rollback, used))}
    BY <1>6 DEF Review
  <2>2. \A v \in review' : v.request \in request /\ IsReview(v)
    BY <2>1, NewReview
  <2>3. UNCHANGED <<request, approval, result, refusal>>
    BY <1>6 DEF Review
  <2> QED BY <2>2, <2>3 DEF PlannerInv
<1>7. CASE Discard
  BY <1>7 DEF Discard, PlannerInv
<1>8. CASE UNCHANGED vars
  BY <1>8 DEF vars, PlannerInv
<1> QED BY <1>1, <1>2, <1>3, <1>4, <1>5, <1>6, <1>7, <1>8 DEF Next

\* The records at hand are always those of the request at hand, and say of it
\* what the functions of operations/ say.
THEOREM PlannerInvariant == Spec => []PlannerInv
<1> QED BY PlannerInit, PlannerStep, PTL DEF Spec

-----------------------------------------------------------------------------
(* Results.                                                                *)

\* Every result is a record of its type.
LEMMA ResultIsTyped ==
    ASSUME NEW r, IsResult(r), r.request \in OperationRequestEnvelope
    PROVE  [f \in DOMAIN r \ {"validated"} |-> r[f]] \in DryRunResultRecord
<1>1. DOMAIN r \ {"validated"} =
          {"request", "review_status", "refused_effect_set", "required_human_approval", "live_effect_performed",
           "completion_review_required", "has_non_authority_notice", "authority_tier", "authority_promotion_claimed"}
  BY DEF IsResult, ResultNames, Flags
<1>2. r.review_status \in DryRunResultStatus
  BY DEF IsResult
<1> DEFINE d == [f \in DOMAIN r \ {"validated"} |-> r[f]]
<1>3. d = [request |-> r.request, review_status |-> r.review_status, refused_effect_set |-> r.refused_effect_set,
           required_human_approval |-> r.required_human_approval, live_effect_performed |-> r.live_effect_performed,
           completion_review_required |-> r.completion_review_required,
           has_non_authority_notice |-> r.has_non_authority_notice, authority_tier |-> r.authority_tier,
           authority_promotion_claimed |-> r.authority_promotion_claimed]
  BY <1>1
<1>4. /\ r.required_human_approval \in BOOLEAN /\ r.live_effect_performed \in BOOLEAN
      /\ r.completion_review_required \in BOOLEAN /\ r.has_non_authority_notice \in BOOLEAN
      /\ r.authority_promotion_claimed \in BOOLEAN
  BY DEF IsResult, Flags
<1> HIDE DEF d
<1>5. d \in DryRunResultRecord
  BY <1>2, <1>3, <1>4 DEF IsResult, DryRunResultRecord
<1> QED BY <1>5 DEF d

LEMMA StatusTyped == ASSUME NEW e  PROVE RequestStatus(e) \in OperationRequestStatus
  BY Statuses DEF OperationRequestStatus

LEMMA ResultsFollow == PlannerInv => ResultsFollowRequests
<1> SUFFICES ASSUME PlannerInv  PROVE ResultsFollowRequests
  OBVIOUS
<1>1. ASSUME NEW r \in result
      PROVE  /\ IsResult(r)
             /\ r.request \in OperationRequestEnvelope
             /\ [f \in DOMAIN r \ {"validated"} |-> r[f]] \in DryRunResultRecord
  BY ResultIsTyped DEF PlannerInv
<1>2. \A v \in review : v.required_human_review = FALSE => v.issues = {}
  BY DEF PlannerInv, IsReview
<1>3. TypeOK
  BY <1>1, <1>2, StatusTyped DEF PlannerInv, TypeOK
<1>4. DryRunFollowsRequest
  <2> SUFFICES ASSUME NEW r \in result, r.validated
               PROVE  /\ GivenStatus(r) = "accepted" <=> RequestStatus(r.request) = "accepted"
                      /\ GivenStatus(r) = "refused"
                             <=> RequestStatus(r.request) \in {"refused", "blocked_for_live_effect"}
                      /\ GivenStatus(r) = "faulted" <=> RequestStatus(r.request) = "faulted"
                      /\ ResultValidationStatus(r) = "accepted"
                             => RequestStatus(r.request) = "accepted" \/ r.review_status # GivenStatus(r)
                      /\ AsSimulated(r) => (RequestStatus(r.request) = "faulted"
                                                <=> ResultValidationStatus(r) = "faulted")
    BY DEF DryRunFollowsRequest
  <2>1. r.authority_tier \in OperationAuthorityTier
    BY <1>1 DEF IsResult
  <2>2. ASSUME AsSimulated(r)
        PROVE  RequestStatus(r.request) = "faulted" <=> ResultValidationStatus(r) = "faulted"
    <3>1. r.review_status = GivenStatus(r) /\ IsNonAuthoritative(r) /\ ~r.authority_promotion_claimed
      BY <2>2 DEF AsSimulated, EditableFields, DryRunResult, GivenStatus, IsNonAuthoritative
    <3>2. ASSUME RequestStatus(r.request) # "faulted"  PROVE ~HasSeverity(ResultIssues(r), "fault")
      BY <3>1, <3>2, UnfaultedIsComplete DEF IsNonAuthoritative
    <3> QED BY <2>1, <3>1, <3>2, DryRunAgrees, ValidationAgrees, ResultValidations
  <2> QED BY <2>1, <2>2, DryRunAgrees, ValidationAgrees
<1>5. AcceptedResultsAreNonAuthoritative
  BY <1>1, ValidationAgrees DEF AcceptedResultsAreNonAuthoritative, IsResult
<1> QED BY <1>3, <1>4, <1>5 DEF ResultsFollowRequests

LEMMA NothingLive == PlannerInv => NothingLiveIsAccepted
<1> SUFFICES ASSUME PlannerInv, NEW e \in request,
                    e.intended_effect \in BLOCKED_LIVE_EFFECT_SET \/ e.resource_target \in CRITICAL_TARGET_SET
             PROVE  /\ RequestStatus(e) # "accepted"
                    /\ \A r \in result : r.validated /\ ResultValidationStatus(r) = "accepted" =>
                           r.review_status # GivenStatus(r) /\ r.refused_effect_set # {}
                    /\ \A v \in review : v.issues # {}
  BY DEF NothingLiveIsAccepted
<1>1. RequestStatus(e) # "accepted"
  BY CriticalIsRefused
<1>2. \A r \in result : r.request = e
  BY DEF PlannerInv
<1>3. \A v \in review : v.request = e
  BY DEF PlannerInv
<1>4. ASSUME NEW r \in result, r.validated, ResultValidationStatus(r) = "accepted"
      PROVE  r.review_status # GivenStatus(r) /\ r.refused_effect_set # {}
  <2>1. GivenStatus(r) # "accepted" /\ r.review_status = "accepted"
    BY <1>1, <1>2, <1>4, DryRunAgrees, ValidationAgrees DEF PlannerInv, IsResult
  <2>2. r.refused_effect_set = KindsOf(IssuesOf(e))
    BY <1>2, <1>4 DEF PlannerInv, IsResult, DryRunResult
  <2>3. IssuesOf(e) # {}
    BY CriticalIsRefused
  <2> QED BY <2>1, <2>2, <2>3 DEF KindsOf
<1>5. ASSUME NEW v \in review  PROVE v.issues # {}
  BY <1>3, CriticalHasSafetyIssues DEF PlannerInv, IsReview
<1> QED BY <1>1, <1>4, <1>5

LEMMA RecordsFit == PlannerInv => ApprovalRecordsFitTheirRequest
<1> SUFFICES ASSUME PlannerInv, NEW v \in review, v.issues = {}
             PROVE  /\ v.risk_level \in {"high", "critical", "unknown"} => v.approval # {}
                    /\ \A a \in v.approval :
                           /\ a.approved_operation_request_ref = v.request.operation_request_id
                           /\ a.approved_intended_effect = v.request.intended_effect
                           /\ a.approved_resource_target = v.request.resource_target
                           /\ a.complete /\ ~a.broad_approval_requested /\ ~a.live_control_authority_claimed
                           /\ a.approval_state \notin Withdrawn
  BY DEF ApprovalRecordsFitTheirRequest
<1>1. PICK blast \in Optional(BlastEvidence), rollback \in Optional(RollbackEvidence) :
          /\ v.issues = SafetyIssues(v.request, blast, rollback, v.approval)
          /\ v.risk_level = RiskLevel(v.request, blast)
  BY DEF PlannerInv, IsReview
<1>2. v.risk_level \in {"high", "critical", "unknown"} <=> RequiresHumanReview(v.request, blast)
  BY <1>1 DEF RequiresHumanReview
<1> QED BY <1>1, <1>2, ClearReviewIsApproved

-----------------------------------------------------------------------------
(* Refusals.                                                               *)

\* A set of numbers that is not empty has a least member.
LEMMA LeastNumber ==
    ASSUME NEW T \in SUBSET Nat, T # {}
    PROVE  \E m \in T : \A k \in T : m <= k
<1>1. PICK x \in T : \A y \in T : ~ (<<y, x>> \in OpToRel(<, Nat))
  BY NatLessThanWellFounded, WFMin
<1>2. ASSUME NEW y \in T  PROVE x <= y
  <2>1. <<y, x>> \in Nat \X Nat /\ <<y, x>>[1] = y /\ <<y, x>>[2] = x
    OBVIOUS
  <2>2. ~ (y < x)
    BY <1>1, <2>1 DEF OpToRel
  <2> QED BY <2>1, <2>2
<1> QED BY <1>2

\* The severities are ranked.
LEMMA Priorities ==
    ASSUME NEW e, NEW i \in IssuesOf(e)
    PROVE  i.severity \in OperationRequestIssueSeverity /\ Priority[i.severity] \in Nat
<1>1. i.severity \in OperationRequestIssueSeverity
  BY PlaceFacts DEF IssuesOf, AnyIssue
<1> QED BY <1>1 DEF Priority, OperationRequestIssueSeverity

\* The primary issue is one of the worst, and of those the first.
LEMMA PrimaryFacts ==
    ASSUME NEW e, IssuesOf(e) # {}
    PROVE  LET primary == PrimaryIssue(e)
           IN  /\ primary \in IssuesOf(e)
               /\ \E n \in 1 .. 20 :
                      /\ primary \in IssuesInOrder(e)[n]
                      /\ \A m \in 1 .. 20 : \A j \in IssuesInOrder(e)[m] :
                             \/ Priority[primary.severity] < Priority[j.severity]
                             \/ Priority[primary.severity] = Priority[j.severity] /\ n <= m
<1> DEFINE found == {<<Priority[i.severity], n, i>> : n \in DOMAIN IssuesInOrder(e), i \in IssuesOf(e)}
           placed == {f \in found : f[3] \in IssuesInOrder(e)[f[2]]}
           Worst(f) == \A g \in placed : f[1] < g[1] \/ (f[1] = g[1] /\ f[2] <= g[2])
           P == {f[1] : f \in placed}
<1>1. /\ DOMAIN IssuesInOrder(e) = 1 .. 20
      /\ \A i : i \in IssuesOf(e) <=> \E n \in 1 .. 20 : i \in IssuesInOrder(e)[n]
  BY PlaceFacts DEF IssuesOf, Range
<1>2. \A f \in placed : /\ f[1] = Priority[f[3].severity] /\ f[1] \in Nat /\ f[2] \in 1 .. 20
                         /\ f[3] \in IssuesOf(e) /\ f[3] \in IssuesInOrder(e)[f[2]]
  BY <1>1, Priorities
<1>3. ASSUME NEW m \in 1 .. 20, NEW j \in IssuesInOrder(e)[m]  PROVE <<Priority[j.severity], m, j>> \in placed
  <2>1. j \in IssuesOf(e)
    BY <1>1
  <2>2. <<Priority[j.severity], m, j>> \in found
    BY <1>1, <2>1
  <2> QED BY <2>2
<1>4. placed # {}
  <2>1. PICK i : i \in IssuesOf(e)
    OBVIOUS
  <2>2. PICK m \in 1 .. 20 : i \in IssuesInOrder(e)[m]
    BY <1>1, <2>1
  <2>3. <<Priority[i.severity], m, i>> \in placed
    BY <1>3, <2>2
  <2> QED BY <2>3
<1> HIDE DEF placed
<1>5. PICK p \in P : \A k \in P : p <= k
  <2>1. P \in SUBSET Nat /\ P # {}
    BY <1>2, <1>4
  <2> QED BY <2>1, LeastNumber
<1> DEFINE N == {f[2] : f \in {g \in placed : g[1] = p}}
<1>6. PICK n \in N : \A k \in N : n <= k
  <2>1. N \in SUBSET Nat
    BY <1>2
  <2>2. N # {}
    BY <1>5
  <2> QED BY <2>1, <2>2, LeastNumber
<1>7. \E f \in placed : Worst(f)
  <2>1. PICK f \in placed : f[1] = p /\ f[2] = n
    BY <1>6
  <2>2. \A g \in placed : p <= g[1] /\ (g[1] = p => n <= g[2])
    BY <1>5, <1>6
  <2>3. p \in Nat /\ \A g \in placed : g[1] \in Nat
    BY <1>2, <2>1
  <2> QED BY <2>1, <2>2, <2>3
<1> DEFINE chosen == CHOOSE f \in placed : Worst(f)
<1>8. chosen \in placed /\ Worst(chosen)
  BY <1>7
<1>9. PrimaryIssue(e) = chosen[3]
  BY DEF PrimaryIssue, placed
<1> HIDE DEF chosen
<1>10. ASSUME NEW m \in 1 .. 20, NEW j \in IssuesInOrder(e)[m]
       PROVE  \/ Priority[chosen[3].severity] < Priority[j.severity]
              \/ Priority[chosen[3].severity] = Priority[j.severity] /\ chosen[2] <= m
  <2> DEFINE g == <<Priority[j.severity], m, j>>
  <2>1. g \in placed /\ g[1] = Priority[j.severity] /\ g[2] = m
    BY <1>3
  <2>2. chosen[1] = Priority[chosen[3].severity]
    BY <1>2, <1>8
  <2> HIDE DEF g
  <2> QED BY <1>8, <2>1, <2>2
<1>11. chosen[3] \in IssuesOf(e) /\ chosen[2] \in 1 .. 20 /\ chosen[3] \in IssuesInOrder(e)[chosen[2]]
  BY <1>2, <1>8
<1> QED BY <1>9, <1>10, <1>11

\* The primary issue and the status of a request rank its issues alike.
LEMMA PrimaryFitsStatus ==
    ASSUME NEW e, IssuesOf(e) # {}
    PROVE  PrimaryIssue(e).severity \in SeveritiesOfStatus[RequestStatus(e)]
<1> DEFINE worst == PrimaryIssue(e).severity
           Found(s) == HasSeverity(IssuesOf(e), s)
<1>1. worst \in OperationRequestIssueSeverity /\ Found(worst)
  BY PrimaryFacts, Priorities DEF HasSeverity
<1>2. \A i \in IssuesOf(e) : Priority[worst] <= Priority[i.severity]
  <2> TAKE i \in IssuesOf(e)
  <2>1. PICK m \in 1 .. 20 : i \in IssuesInOrder(e)[m]
    BY PlaceFacts DEF IssuesOf, Range
  <2>2. Priority[worst] \in Nat /\ Priority[i.severity] \in Nat
    BY PrimaryFacts, Priorities
  <2>3. Priority[worst] < Priority[i.severity] \/ Priority[worst] = Priority[i.severity]
    BY <2>1, PrimaryFacts
  <2> QED BY <2>2, <2>3
<1>3. \A s \in OperationRequestIssueSeverity : Found(s) => Priority[worst] <= Priority[s]
  BY <1>2 DEF HasSeverity
<1> HIDE DEF worst
<1>4. /\ Found("fault") => worst = "fault"
      /\ ~Found("fault") /\ Found("refused") => worst = "refused"
      /\ ~Found("fault") /\ ~Found("refused") /\ Found("interrupt") => worst = "interrupt"
      /\ ~Found("fault") /\ ~Found("refused") /\ ~Found("interrupt") /\ Found("stale") => worst = "stale"
      /\ ~Found("fault") /\ ~Found("refused") /\ ~Found("interrupt") /\ ~Found("stale")
         /\ Found("review_required") => worst = "review_required"
      /\ ~Found("fault") /\ ~Found("refused") /\ ~Found("interrupt") /\ ~Found("stale")
         /\ ~Found("review_required") => worst = "blocked" /\ Found("blocked")
  <2> HIDE DEF Found
  <2> QED BY <1>1, <1>3 DEF OperationRequestIssueSeverity, Priority
<1>5. worst \in SeveritiesOfStatus[RequestStatus(e)]
  BY <1>4, Statuses, LiveIsRefused DEF SeveritiesOfStatus
<1> QED BY <1>5 DEF worst

\* refusal_reason_for_issue
LEMMA Reasons ==
    ASSUME NEW kind
    PROVE  ReasonForKind(kind) =
             IF kind \in {"missing_field", "missing_authority_notice", "missing_source_ref",
                          "missing_completion_review"} THEN "missing_required_identity_field"
             ELSE IF kind = "forbidden_authority_tier" THEN "generated_projection_promoted_to_authority"
             ELSE IF kind = "dry_run_not_required" THEN "live_effect_requested" ELSE kind
<1> DEFINE c1 == kind \in {"missing_field", "missing_authority_notice", "missing_source_ref",
                           "missing_completion_review"}
           c2 == kind = "forbidden_authority_tier"
           c3 == kind = "dry_run_not_required"
<1>1. ReasonForKind(kind) = FirstOf(<< <<c1, "missing_required_identity_field">>,
                                       <<c2, "generated_projection_promoted_to_authority">>,
                                       <<c3, "live_effect_requested">> >>, kind)
  BY DEF ReasonForKind
<1> HIDE DEF c1, c2, c3
<1>2. ReasonForKind(kind) = IF c1 THEN "missing_required_identity_field"
                            ELSE IF c2 THEN "generated_projection_promoted_to_authority"
                            ELSE IF c3 THEN "live_effect_requested" ELSE kind
  BY <1>1, First3
<1> QED BY <1>2 DEF c1, c2, c3

\* When a live effect is refused, the issue that names the refusal is the live
\* effect itself, or one of the two refusals that are collected before it; all
\* three are reported as a reason to refuse control.
LEMMA LiveReason ==
    ASSUME NEW e, RequestStatus(e) = "blocked_for_live_effect"
    PROVE  RefusalReason(e) \in {"live_effect_requested", "generated_projection_promoted_to_authority"}
<1> DEFINE primary == PrimaryIssue(e)
<1>1. e.intended_effect \in BLOCKED_LIVE_EFFECT_SET
  BY Statuses, LiveIsRefused
<1>2. EffectClass(e.intended_effect) = "blocked_live_effect"
  BY <1>1, EffectClasses DEF SAFE_DRY_RUN_EFFECT_SET, BLOCKED_LIVE_EFFECT_SET
<1>3. Issue("live_effect_requested", "refused") \in IssuesInOrder(e)[10]
  <2>1. EnvelopeIssues(e)[10] = {Issue("live_effect_requested", "refused")}
    BY <1>2 DEF EnvelopeIssues, When
  <2> QED BY <2>1, PlaceFacts
<1>4. IssuesOf(e) # {}
  BY <1>2, IssueFacts
<1>5. primary.severity = "refused"
  BY <1>4, PrimaryFitsStatus DEF SeveritiesOfStatus
<1>6. PICK n \in 1 .. 20 :
          /\ primary \in IssuesInOrder(e)[n]
          /\ \A m \in 1 .. 20 : \A j \in IssuesInOrder(e)[m] :
                 \/ Priority[primary.severity] < Priority[j.severity]
                 \/ Priority[primary.severity] = Priority[j.severity] /\ n <= m
  BY <1>4, PrimaryFacts
<1>7. n <= 10
  <2>1. Issue("live_effect_requested", "refused").severity = "refused"
    BY DEF Issue
  <2>2. \/ Priority[primary.severity] < Priority["refused"]
        \/ Priority[primary.severity] = Priority["refused"] /\ n <= 10
    BY <1>3, <1>6, <2>1
  <2>3. Priority["refused"] = 1
    BY DEF Priority
  <2> QED BY <1>5, <2>2, <2>3
<1>8. primary \in EnvelopeIssues(e)[n] /\ n \in 1 .. 10
  BY <1>6, <1>7, PlaceFacts
<1> HIDE DEF primary
<1>9. \A k, s : Issue(k, s).issue_kind = k /\ Issue(k, s).severity = s
  BY DEF Issue
<1>10. primary.issue_kind \in {"forbidden_authority_tier", "dry_run_not_required", "live_effect_requested"}
  <2>1. CASE n \in 1 .. 5
    <3>1. primary.severity = "fault"
      BY <1>8, <1>9, <2>1 DEF EnvelopeIssues, When
    <3> QED BY <1>5, <3>1
  <2>2. CASE n = 6
    <3>1. primary.severity = "stale"
      BY <1>8, <1>9, <2>2 DEF EnvelopeIssues, When
    <3> QED BY <1>5, <3>1
  <2>3. CASE n = 7
    <3>1. primary.severity = FreshnessSeverity(e.freshness_state)
      BY <1>8, <1>9, <2>3 DEF EnvelopeIssues, When
    <3> QED BY <1>5, <3>1, FreshnessIssue
  <2>4. CASE n = 8
    BY <1>8, <1>9, <2>4 DEF EnvelopeIssues, When
  <2>5. CASE n = 9
    BY <1>8, <1>9, <2>5 DEF EnvelopeIssues, When
  <2>6. CASE n = 10
    BY <1>8, <1>9, <2>6 DEF EnvelopeIssues, When
  <2>7. n \in 1 .. 5 \/ n = 6 \/ n = 7 \/ n = 8 \/ n = 9 \/ n = 10
    BY <1>8
  <2> QED BY <2>1, <2>2, <2>3, <2>4, <2>5, <2>6, <2>7
<1>11. RefusalReason(e) = ReasonForKind(primary.issue_kind)
  BY <1>4 DEF RefusalReason, primary
<1> QED BY <1>10, <1>11, Reasons

\* The refusal of control names one kind of control.
LEMMA OneControl ==
    ASSUME NEW e, NEW reason \in {"live_effect_requested", "generated_projection_promoted_to_authority"}
    PROVE  \E c \in Controls : RefusedControl(e, reason) = {c}
<1> DEFINE touches(target, effects) == e.resource_target = target \/ e.intended_effect \in effects
           c1 == touches("gpu", GpuEffects)
           c2 == touches("model_runtime", ModelRuntimeEffects)
           c3 == touches("job_queue", {"job_dispatch", "job_cancellation", "job_dispatch_or_cancellation"})
           c4 == touches("credential_or_secret", {"credential_access_or_mutation"})
           c5 == touches("network_service", {"network_exposure_mutation"})
           c6 == touches("filesystem_destructive_target", {"destructive_filesystem_action"})
<1>1. RefusedControl(e, reason) =
        FirstOf(<< <<c1, {"refused_gpu_control"}>>, <<c2, {"refused_model_runtime_control"}>>,
                   <<c3, {"refused_job_control"}>>, <<c4, {"refused_credential_control"}>>,
                   <<c5, {"refused_network_control"}>>, <<c6, {"refused_destructive_filesystem_control"}>> >>,
                ControlOfReason(e, reason))
  BY DEF RefusedControl
<1>2. ControlOfReason(e, reason) = {"refused_live_control"}
  BY DEF ControlOfReason
<1> HIDE DEF c1, c2, c3, c4, c5, c6
<1>3. RefusedControl(e, reason) =
        IF c1 THEN {"refused_gpu_control"} ELSE IF c2 THEN {"refused_model_runtime_control"}
        ELSE IF c3 THEN {"refused_job_control"} ELSE IF c4 THEN {"refused_credential_control"}
        ELSE IF c5 THEN {"refused_network_control"} ELSE IF c6 THEN {"refused_destructive_filesystem_control"}
        ELSE {"refused_live_control"}
  BY <1>1, <1>2, First6
<1> QED BY <1>3 DEF Controls

LEMMA RefusalsFaithful == PlannerInv => RefusalsAreFaithful
<1> SUFFICES ASSUME PlannerInv, NEW r \in refusal
             PROVE  /\ IssuesOf(r.request) # {} =>
                         \E i \in IssuesOf(r.request) :
                             /\ i.severity \in SeveritiesOfStatus[RequestStatus(r.request)]
                             /\ ReasonForKind(i.issue_kind) = r.refusal_reason
                    /\ RequestStatus(r.request) = "blocked_for_live_effect" =>
                         Cardinality(r.refusal_output_set \cap Controls) = 1
  BY DEF RefusalsAreFaithful, RefusalNamesTheWorst, LiveRefusalNamesControl
<1> DEFINE e == r.request
<1>1. r = Refusal(e)
  BY DEF PlannerInv
<1>2. r.refusal_reason = RefusalReason(e) /\ r.refusal_output_set = RefusalOutputs(e, RefusalReason(e))
  <2>1. /\ Refusal(e).refusal_reason = RefusalReason(e)
        /\ Refusal(e).refusal_output_set = RefusalOutputs(e, RefusalReason(e))
    BY DEF Refusal
  <2> QED BY <1>1, <2>1
<1> HIDE DEF e
<1>3. ASSUME IssuesOf(e) # {}
      PROVE  \E i \in IssuesOf(e) : /\ i.severity \in SeveritiesOfStatus[RequestStatus(e)]
                                    /\ ReasonForKind(i.issue_kind) = r.refusal_reason
  <2>1. PrimaryIssue(e) \in IssuesOf(e)
    BY <1>3, PrimaryFacts
  <2>2. r.refusal_reason = ReasonForKind(PrimaryIssue(e).issue_kind)
    BY <1>2, <1>3 DEF RefusalReason
  <2> QED BY <1>3, <2>1, <2>2, PrimaryFitsStatus
<1>4. ASSUME RequestStatus(e) = "blocked_for_live_effect"
      PROVE  Cardinality(r.refusal_output_set \cap Controls) = 1
  <2> DEFINE reason == RefusalReason(e)
  <2>1. PICK c \in Controls : RefusedControl(e, reason) = {c}
    BY <1>4, LiveReason, OneControl
  <2>2. r.refusal_output_set \cap Controls = {c}
    BY <1>2, <2>1 DEF RefusalOutputs, Controls
  <2> QED BY <2>2, FS_Singleton
<1> QED BY <1>3, <1>4 DEF e

-----------------------------------------------------------------------------
(* Actions.                                                                *)

\* _decision_status_for_issues
LEMMA Decisions ==
    ASSUME NEW p
    PROVE  ActionDecision(p) =
             IF HasSeverity(ActionIssues(p), "refused") THEN "refused"
             ELSE IF HasSeverity(ActionIssues(p), "interrupt") THEN "interrupt"
             ELSE IF HasSeverity(ActionIssues(p), "review_required") THEN "review_required"
             ELSE IF HasSeverity(ActionIssues(p), "blocked") THEN "blocked"
             ELSE IF p.action_kind \in SAFE_DRY_RUN_EFFECT_SET \cup LOW_AUTHORITY_REVIEW_ACTION_SET
                  THEN "allowed" ELSE "blocked"
  BY BySeverity4 DEF ActionDecision

\* The issues of a request depend on its effect by three tests only, and no
\* effect that is safe meets one of them.
LEMMA SafeEffectAddsNothing ==
    ASSUME NEW e \in OperationRequestEnvelope, IssuesOf(e) = {}, EffectClass(e.intended_effect) # "unknown",
           NEW kind \in SAFE_DRY_RUN_EFFECT_SET
    PROVE  RequestStatus([e EXCEPT !.intended_effect = kind]) = "accepted"
<1> DEFINE x == [e EXCEPT !.intended_effect = kind]
           Same == {"operation_request_id", "requested_by", "source_ref_set", "authority_notice_ref",
                    "authority_tier", "freshness_state", "completion_review_ref", "resource_target",
                    "risk_classification", "blast_radius", "dry_run_required", "rollback_or_abort_route",
                    "predicted_side_effect_set", "stale_after", "cited_authority_set", "authority_notice_state",
                    "requested_authority_promotion"}
<1>1. x["intended_effect"] = kind /\ \A f \in Same : x[f] = e[f]
  BY DEF OperationRequestEnvelope
<1> HIDE DEF x
<1>2. kind # NoValue
  BY Zenon DEF SAFE_DRY_RUN_EFFECT_SET, NoValue
<1>3. EffectClass(kind) = "safe_dry_run"
  BY EffectClasses
<1>4. EffectClass(e.intended_effect) = "safe_dry_run"
  <2>1. EffectClass(e.intended_effect) # "blocked_live_effect"
    BY IssueFacts
  <2> QED BY <2>1, EffectClasses
<1>5. ~IsMissing(x, IdentityFields) /\ ~IsMissing(x, SafetyFields)
  <2>1. ~IsMissing(e, IdentityFields) /\ ~IsMissing(e, SafetyFields)
    BY IssueFacts
  <2>2. /\ \A f \in IdentityFields : f \in Same
        /\ \A f \in SafetyFields : f = "intended_effect" \/ f \in Same
    BY DEF IdentityFields, SafetyFields
  <2> QED BY <1>1, <1>2, <2>1, <2>2 DEF IsMissing
<1>6. RequiresResourceSafetyReview(x) <=> RequiresResourceSafetyReview(e)
  BY <1>1, <1>3, <1>4 DEF RequiresResourceSafetyReview
<1>7. ASSUME NEW i  PROVE ~ \E s \in Range(TargetSpecificIssues(x)) : i \in s
  <2>1. ~ \E s \in Range(TargetSpecificIssues(e)) : i \in s
    BY IssueFacts
  <2> QED BY <1>1, <2>1, TargetIssueFacts DEF SAFE_DRY_RUN_EFFECT_SET
<1>8. ASSUME NEW i  PROVE ~ \E s \in Range(AuthorityPromotionIssues(x)) : i \in s
  <2>1. ~ \E s \in Range(AuthorityPromotionIssues(e)) : i \in s
    BY IssueFacts
  <2> QED BY <1>1, <2>1, PromotionIssueFacts DEF SAFE_DRY_RUN_EFFECT_SET
<1>9. ASSUME NEW i  PROVE i \notin IssuesOf(x)
  <2>1. /\ e.source_ref_set # {} /\ e.completion_review_ref # NoValue /\ e.authority_notice_ref # NoValue
        /\ e.authority_notice_state \notin {"missing", "missing_or_stale", "stale"}
        /\ e.freshness_state = "fresh" /\ e.authority_tier \notin FORBIDDEN_AUTHORITY_TIER_SET
        /\ e.dry_run_required /\ TargetRisk(e.resource_target) # "ambiguous"
        /\ e.rollback_or_abort_route # NoValue /\ ~RequiresResourceSafetyReview(e)
    BY IssueFacts
  <2>2. /\ x.source_ref_set # {} /\ x.completion_review_ref # NoValue /\ x.authority_notice_ref # NoValue
        /\ x.authority_notice_state \notin {"missing", "missing_or_stale", "stale"}
        /\ x.freshness_state = "fresh" /\ x.authority_tier \notin FORBIDDEN_AUTHORITY_TIER_SET
        /\ x.dry_run_required /\ TargetRisk(x.resource_target) # "ambiguous"
        /\ x.rollback_or_abort_route # NoValue /\ ~RequiresResourceSafetyReview(x)
        /\ EffectClass(x.intended_effect) # "blocked_live_effect"
    BY <1>1, <1>3, <1>6, <2>1
  <2> QED BY <1>5, <1>7, <1>8, <2>2, IssueFacts
<1>10. IssuesOf(x) = {}
  BY <1>9
<1> QED BY <1>1, <1>3, <1>10, AcceptedIsClear DEF x

\* An effect is refused for itself only if it is a live effect.
LEMMA RefusedEffectIsLive ==
    ASSUME NEW e \in OperationRequestEnvelope, IssuesOf(e) = {}, NEW kind,
           RequestStatus([e EXCEPT !.intended_effect = kind]) \in {"refused", "blocked_for_live_effect"}
    PROVE  kind \in BLOCKED_LIVE_EFFECT_SET
<1> DEFINE x == [e EXCEPT !.intended_effect = kind]
           Same == {"authority_tier", "resource_target", "dry_run_required", "cited_authority_set",
                    "requested_authority_promotion"}
<1>1. x["intended_effect"] = kind /\ \A f \in Same : x[f] = e[f]
  BY DEF OperationRequestEnvelope
<1> HIDE DEF x
<1>2. HasKind(IssuesOf(x), "live_effect_requested") \/ HasSeverity(IssuesOf(x), "refused")
  BY Statuses DEF x
<1>3. ASSUME HasKind(IssuesOf(x), "live_effect_requested")  PROVE kind \in BLOCKED_LIVE_EFFECT_SET
  BY <1>1, <1>3, LiveIsRefused
<1>4. ASSUME NEW i \in IssuesOf(x), i.severity = "refused"  PROVE kind \in BLOCKED_LIVE_EFFECT_SET
  <2>1. /\ e.authority_tier \notin FORBIDDEN_AUTHORITY_TIER_SET /\ e.dry_run_required
        /\ \A j : ~ \E s \in Range(TargetSpecificIssues(e)) : j \in s
        /\ \A j : ~ \E s \in Range(AuthorityPromotionIssues(e)) : j \in s
    BY IssueFacts
  <2>2. \A k, s : Issue(k, s).severity = s
    BY DEF Issue
  <2>3. \/ EffectClass(x.intended_effect) = "blocked_live_effect"
        \/ \E s \in Range(TargetSpecificIssues(x)) : i \in s
        \/ \E s \in Range(AuthorityPromotionIssues(x)) : i \in s
    <3>1. x.authority_tier \notin FORBIDDEN_AUTHORITY_TIER_SET /\ x.dry_run_required
      BY <1>1, <2>1
    <3> QED BY <1>4, <2>2, <3>1, IssueFacts, FreshnessIssue
  <2>4. CASE EffectClass(x.intended_effect) = "blocked_live_effect"
    BY <1>1, <2>4, EffectClasses
  <2>5. CASE \E s \in Range(TargetSpecificIssues(x)) : i \in s
    <3>1. ~ \E s \in Range(TargetSpecificIssues(e)) : i \in s
      BY <2>1
    <3> QED BY <1>1, <2>5, <3>1, TargetIssueFacts DEF BLOCKED_LIVE_EFFECT_SET
  <2>6. CASE \E s \in Range(AuthorityPromotionIssues(x)) : i \in s
    <3>1. ~ \E s \in Range(AuthorityPromotionIssues(e)) : i \in s
      BY <2>1
    <3> QED BY <1>1, <2>6, <3>1, PromotionIssueFacts DEF BLOCKED_LIVE_EFFECT_SET
  <2> QED BY <2>3, <2>4, <2>5, <2>6
<1> QED BY <1>2, <1>3, <1>4 DEF HasSeverity

\* An action with a live effect is refused, whatever else its packet says.
LEMMA LiveActionIsRefused ==
    ASSUME NEW p, p.action_kind \in BLOCKED_LIVE_EFFECT_SET
    PROVE  ActionDecision(p) = "refused"
<1>1. Issue("live_control_requested", "refused") \in ActionIssues(p)
  BY DEF ActionIssues, When
<1>2. HasSeverity(ActionIssues(p), "refused")
  BY <1>1 DEF HasSeverity, Issue
<1> QED BY <1>2, Decisions

\* An action is judged as its effect would be.
LEMMA ActionsAsEffects == PlannerInv => ActionsFollowEffects
<1> SUFFICES ASSUME PlannerInv, NEW e \in request, RequestStatus(e) = "accepted", NEW kind \in ActionKinds
             PROVE  LET decision == ActionDecision(ActionPacket(e, kind, {}, {"unlisted"}))
                        asEffect == RequestStatus([e EXCEPT !.intended_effect = kind])
                    IN  /\ decision = "allowed" => \/ kind \in LOW_AUTHORITY_REVIEW_ACTION_SET
                                                   \/ asEffect = "accepted"
                        /\ asEffect \in {"refused", "blocked_for_live_effect"} => decision = "refused"
  BY DEF ActionsFollowEffects
<1> DEFINE p == ActionPacket(e, kind, {}, {"unlisted"})
<1>1. p.action_kind = kind
  BY DEF ActionPacket
<1> HIDE DEF p
<1>2. e \in OperationRequestEnvelope /\ IssuesOf(e) = {} /\ EffectClass(e.intended_effect) # "unknown"
  BY AcceptedIsClear DEF PlannerInv
<1>3. ASSUME ActionDecision(p) = "allowed", kind \notin LOW_AUTHORITY_REVIEW_ACTION_SET
      PROVE  RequestStatus([e EXCEPT !.intended_effect = kind]) = "accepted"
  <2>1. kind \in SAFE_DRY_RUN_EFFECT_SET
    BY <1>1, <1>3, Decisions
  <2> QED BY <1>2, <2>1, SafeEffectAddsNothing
<1>4. ASSUME RequestStatus([e EXCEPT !.intended_effect = kind]) \in {"refused", "blocked_for_live_effect"}
      PROVE  ActionDecision(p) = "refused"
  <2>1. kind \in BLOCKED_LIVE_EFFECT_SET
    BY <1>2, <1>4, RefusedEffectIsLive
  <2> QED BY <1>1, <2>1, LiveActionIsRefused
<1> QED BY <1>3, <1>4 DEF p

\* The interrupt context of a refusal stops every action.
LEMMA RefusedHasNoAction == PlannerInv => RefusedMeansNoAction
<1> SUFFICES ASSUME PlannerInv, NEW r \in refusal, NEW kind \in ActionKinds
             PROVE  LET packet == ActionPacket(r.request, kind, refusal, {"unlisted"})
                    IN  /\ ActionDecision(packet) # "allowed"
                        /\ "request_sop_first_interrupt" \in ReviewRoutesOf(packet)
  BY DEF RefusedMeansNoAction
<1> DEFINE p == ActionPacket(r.request, kind, refusal, {"unlisted"})
<1>1. p.stop_state_ref_set = refusal /\ p.interrupt_context_ref_set = {InterruptContext(x) : x \in refusal}
  BY DEF ActionPacket
<1> HIDE DEF p
<1>2. Issue("stale_or_stopped_request", "interrupt") \in ActionIssues(p)
  BY <1>1 DEF ActionIssues, When
<1>3. ActionDecision(p) # "allowed"
  <2>1. HasSeverity(ActionIssues(p), "interrupt")
    BY <1>2 DEF HasSeverity, Issue
  <2> QED BY <2>1, Decisions
<1>4. "stale_or_stopped_request" \in KindsOf(ActionIssues(p))
  BY <1>2 DEF KindsOf, Issue
<1>5. "request_sop_first_interrupt" \in ReviewRoutesOf(p)
  BY <1>4 DEF ReviewRoutesOf
<1> QED BY <1>3, <1>5 DEF p

LEMMA ActionsFollow == PlannerInv => ActionsFollowRequests
  BY ActionsAsEffects, RefusedHasNoAction DEF ActionsFollowRequests

-----------------------------------------------------------------------------
(* The theorems.                                                           *)

\* What is recorded of a request follows from the request: the status that the
\* dry run of a validated request is given is accepted, refused or faulted
\* exactly when the request is (operation_request_status_for_issues against
\* _result_status_for_request_validation), no edit but one of review_status
\* itself turns a record that is not accepted into one that is, and whatever was
\* edited, a record that is accepted is non-authoritative by its own definition
\* (validate_dry_run_result_record against is_non_authoritative).
THEOREM ResultsCorrect == Spec => []ResultsFollowRequests
<1> QED BY PlannerInvariant, ResultsFollow, PTL

\* Whatever a request asks for, its refusal names an issue of the severity that
\* gave the request its status (_primary_issue against
\* operation_request_status_for_issues), and the refusal of a live effect names
\* exactly one control (refusal_output_set_for_request).
THEOREM RefusalsCorrect == Spec => []RefusalsAreFaithful
<1> QED BY PlannerInvariant, RefusalsFaithful, PTL

\* No live effect and no critical target is accepted in a request or in a
\* review, with whatever evidence and approval, nor in the dry run of a
\* validated request, whatever is edited but its review_status; if that is
\* edited, the record still says what was refused.
THEOREM NothingLiveCorrect == Spec => []NothingLiveIsAccepted
<1> QED BY PlannerInvariant, NothingLive, PTL

\* A review that has nothing to say of a request at high risk was given an
\* approval record, and the record it was given is complete, scoped, not
\* withdrawn and of this request, effect and target
\* (validate_human_approval_for_request), whichever record the planner had.
\* A record in the state requested or absent passes.
THEOREM ApprovalCorrect == Spec => []ApprovalRecordsFitTheirRequest
<1> QED BY PlannerInvariant, RecordsFit, PTL

\* classify_operation_action agrees with the validation of requests: what it
\* allows would be accepted as an effect, what would be refused as an effect it
\* refuses, and with a refusal it allows nothing and routes to the interrupt.
THEOREM ActionsCorrect == Spec => []ActionsFollowRequests
<1> QED BY PlannerInvariant, ActionsFollow, PTL
=============================================================================
