----------------------------- MODULE ManagerProofs -----------------------------
(***************************************************************************)
(* Proofs about the manager.  Whatever turned up in between, a record that *)
(* was made of a cycle is what the functions of manager/ make of that      *)
(* cycle (ManagerInv); the properties then follow from what stops a cycle  *)
(* (FirstStops, GateStops) and what it means that nothing does.            *)
(***************************************************************************)
EXTENDS Manager, TLAPS, WellFoundedInduction, FiniteSetTheorems

-----------------------------------------------------------------------------
(* Cascades of early returns.                                              *)

\* A set of numbers that is not empty has a least member.
LEMMA LeastNumber ==
    ASSUME NEW T \in SUBSET Nat, T # {}
    PROVE  \E m \in T : \A k \in T : m <= k
<1>1. PICK x \in T : \A y \in T : ~ (<<y, x>> \in OpToRel(<, Nat))
  BY NatLessThanWellFounded, WFMin
<1>2. ASSUME NEW y \in T  PROVE x <= y
  <2>1. <<y, x>> \in Nat \X Nat /\ <<y, x>>[1] = y /\ <<y, x>>[2] = x
    OBVIOUS
  <2>2. ~ (y < x)
    BY <1>1, <2>1 DEF OpToRel
  <2> QED BY <2>1, <2>2
<1> QED BY <1>2

\* A cascade returns the value of a case that holds, or of none if none does.
LEMMA FirstOfFacts ==
    ASSUME NEW cases, Len(cases) \in Nat, NEW o
    PROVE  \/ \E i \in 1 .. Len(cases) : cases[i][1] /\ FirstOf(cases, o) = cases[i][2]
           \/ (\A i \in 1 .. Len(cases) : ~cases[i][1]) /\ FirstOf(cases, o) = o
<1> DEFINE holding == {i \in 1 .. Len(cases) : cases[i][1]}
           first == CHOOSE i \in holding : \A j \in holding : i <= j
<1>1. FirstOf(cases, o) = IF holding = {} THEN o ELSE cases[first][2]
  BY DEF FirstOf
<1>2. holding \in SUBSET Nat
  OBVIOUS
<1>3. ASSUME holding # {}  PROVE first \in holding
  <2>1. \E i \in holding : \A j \in holding : i <= j
    BY <1>2, <1>3, LeastNumber
  <2> QED BY <2>1
<1>4. \A i \in holding : i \in 1 .. Len(cases) /\ cases[i][1]
  OBVIOUS
<1>5. holding = {} => \A i \in 1 .. Len(cases) : ~cases[i][1]
  OBVIOUS
<1> HIDE DEF holding, first
<1> QED BY <1>1, <1>3, <1>4, <1>5

\* Three cases, and four severities.
LEMMA First3 ==
    ASSUME NEW c1, NEW v1, NEW c2, NEW v2, NEW c3, NEW v3, NEW o
    PROVE  FirstOf(<< <<c1, v1>>, <<c2, v2>>, <<c3, v3>> >>, o)
               = IF c1 THEN v1 ELSE IF c2 THEN v2 ELSE IF c3 THEN v3 ELSE o
  BY DEF FirstOf

LEMMA First4 ==
    ASSUME NEW c1, NEW v1, NEW c2, NEW v2, NEW c3, NEW v3, NEW c4, NEW v4, NEW o
    PROVE  FirstOf(<< <<c1, v1>>, <<c2, v2>>, <<c3, v3>>, <<c4, v4>> >>, o)
               = IF c1 THEN v1 ELSE IF c2 THEN v2 ELSE IF c3 THEN v3 ELSE IF c4 THEN v4 ELSE o
  BY DEF FirstOf

LEMMA BySeverity4 ==
    ASSUME NEW issues, NEW s1, NEW v1, NEW s2, NEW v2, NEW s3, NEW v3, NEW s4, NEW v4, NEW o
    PROVE  BySeverity(issues, << <<s1, v1>>, <<s2, v2>>, <<s3, v3>>, <<s4, v4>> >>, o)
               = IF HasSeverity(issues, s1) THEN v1 ELSE IF HasSeverity(issues, s2) THEN v2
                 ELSE IF HasSeverity(issues, s3) THEN v3 ELSE IF HasSeverity(issues, s4) THEN v4 ELSE o
<1> DEFINE cases == << <<s1, v1>>, <<s2, v2>>, <<s3, v3>>, <<s4, v4>> >>
           H(s) == HasSeverity(issues, s)
<1>1. [i \in 1 .. Len(cases) |-> <<H(cases[i][1]), cases[i][2]>>]
        = << <<H(s1), v1>>, <<H(s2), v2>>, <<H(s3), v3>>, <<H(s4), v4>> >>
  OBVIOUS
<1> QED  BY <1>1, First4 DEF BySeverity

-----------------------------------------------------------------------------
(* What stops a cycle.                                                     *)

\* The stop with this projection, if there is one.
IsStop(s, state, work, kind, severity) ==
    /\ s.readiness_state = state /\ s.work_packet_state = work
    /\ s.issue.issue_kind = kind /\ s.issue.severity = severity /\ s.issue = Issue(kind, severity)

\* Which stop _first_stop_projection projects, and what then holds.
FirstStopCase(c, s) ==
    \/ IsStale(c) /\ IsStop(s, "blocked_stale", "not_ready", "stale_boundary_input", "stale")
    \/ IsStop(s, "blocked_unsupported", "not_ready", "unsupported_requirement", "blocked")
    \/ /\ c.coordination_state \in {"contested_by_active_claim", "contested"}
       /\ IsStop(s, "interrupted_contested", "not_ready", "contested_coordination_claim", "interrupt")
    \/ IsStop(s, "context_recorded_no_promotion", "unchanged_without_source_authority",
              "missing_source_authority", "blocked")
    \/ /\ c.requested_effect_classification_state = "missing"
       /\ IsStop(s, "interrupted_unclassified", "not_ready", "unclassified_authority_sensitive_record", "interrupt")
    \/ /\ c.operations_dry_run_state = "success"
       /\ c.requested_promotion \in {"dispatch_authority", "live_control"}
       /\ IsStop(s, "evidence_recorded", "not_dispatched", "dry_run_to_live_control_promotion", "refused")
    \/ IsStop(s, "blocked", "not_ready", "human_override_required", "blocked")
    \/ IsStop(s, "contextual_override_recorded", "bounded_by_override_scope", "missing_source_authority", "blocked")
    \/ /\ c.generated_projection_state # NoValue /\ c.requested_promotion = "source_authority"
       /\ IsStop(s, "source_authority_required", "not_ready_from_projection_alone",
                 "generated_output_authority_promotion", "refused")
    \/ /\ c.graph_checkpoint_state # NoValue /\ c.requested_promotion = "source_authority"
       /\ IsStop(s, "blocked_until_kernel_reference_checked", "not_ready_from_checkpoint_alone",
                 "graph_checkpoint_authority_promotion", "refused")
    \/ /\ RequestsForbiddenLiveScope(c)
       /\ IsStop(s, "refused_forbidden_scope", "not_ready", "requested_forbidden_scope", "refused")

\* What none of the tests of _first_stop_projection found.
NotStopped(c) ==
    /\ ~IsStale(c)
    /\ c.coordination_state \notin {"contested_by_active_claim", "contested"}
    /\ c.requested_effect_classification_state # "missing"
    /\ ~(c.operations_dry_run_state = "success" /\ c.requested_promotion \in {"dispatch_authority", "live_control"})
    /\ ~(c.generated_projection_state # NoValue /\ c.requested_promotion = "source_authority")
    /\ ~(c.graph_checkpoint_state # NoValue /\ c.requested_promotion = "source_authority")
    /\ ~RequestsForbiddenLiveScope(c)

\* A stop is one projection.
LEMMA Stops ==
    ASSUME NEW r, NEW w, NEW k, NEW v
    PROVE  \E s : Stop(r, w, k, v) = {s} /\ IsStop(s, r, w, k, v)
<1> DEFINE s == [readiness_state |-> r, work_packet_state |-> w, issue |-> Issue(k, v)]
<1>1. Stop(r, w, k, v) = {s}
  BY DEF Stop
<1>2. s.readiness_state = r /\ s.work_packet_state = w /\ s.issue = Issue(k, v)
  OBVIOUS
<1>3. Issue(k, v).issue_kind = k /\ Issue(k, v).severity = v
  BY DEF Issue
<1> HIDE DEF s
<1>4. IsStop(s, r, w, k, v)
  BY <1>2, <1>3 DEF IsStop
<1> QED BY <1>1, <1>4

\* _first_stop_projection: a stop, and why, or none, and what does not hold then.
LEMMA FirstStops ==
    ASSUME NEW c
    PROVE  \/ \E s : FirstStop(c) = {s} /\ FirstStopCase(c, s)
           \/ FirstStop(c) = {} /\ NotStopped(c)
<1> DEFINE promotes(authority) == c.requested_promotion \in authority
           c1 == IsStale(c)
           c2 == c.support_state \in {"missing_required_support", "missing", "unsupported"}
           c3 == c.coordination_state \in {"contested_by_active_claim", "contested"}
           c4 == c.carrier_context_kind # NoValue \/ c.carrier_context_state = "informative_only"
           c5 == c.requested_effect_classification_state = "missing"
           c6 == c.operations_dry_run_state = "success" /\ promotes({"dispatch_authority", "live_control"})
           c7 == c.human_override_state \notin {NoValue, "present_fresh_scoped_revocable"}
           c8 == c.human_override_state = "present_fresh_scoped_revocable"
           c9 == c.generated_projection_state # NoValue /\ promotes({"source_authority"})
           c10 == c.graph_checkpoint_state # NoValue /\ promotes({"source_authority"})
           c11 == RequestsForbiddenLiveScope(c)
           s1 == Stop("blocked_stale", "not_ready", "stale_boundary_input", "stale")
           s2 == Stop("blocked_unsupported", "not_ready", "unsupported_requirement", "blocked")
           s3 == Stop("interrupted_contested", "not_ready", "contested_coordination_claim", "interrupt")
           s4 == Stop("context_recorded_no_promotion", "unchanged_without_source_authority",
                      "missing_source_authority", "blocked")
           s5 == Stop("interrupted_unclassified", "not_ready", "unclassified_authority_sensitive_record",
                      "interrupt")
           s6 == Stop("evidence_recorded", "not_dispatched", "dry_run_to_live_control_promotion", "refused")
           s7 == Stop("blocked", "not_ready", "human_override_required", "blocked")
           s8 == Stop("contextual_override_recorded", "bounded_by_override_scope",
                      "missing_source_authority", "blocked")
           s9 == Stop("source_authority_required", "not_ready_from_projection_alone",
                      "generated_output_authority_promotion", "refused")
           s10 == Stop("blocked_until_kernel_reference_checked", "not_ready_from_checkpoint_alone",
                       "graph_checkpoint_authority_promotion", "refused")
           s11 == Stop("refused_forbidden_scope", "not_ready", "requested_forbidden_scope", "refused")
           cases == << <<c1, s1>>, <<c2, s2>>, <<c3, s3>>, <<c4, s4>>, <<c5, s5>>, <<c6, s6>>, <<c7, s7>>,
                       <<c8, s8>>, <<c9, s9>>, <<c10, s10>>, <<c11, s11>> >>
           One(S) == \E s : S = {s} /\ FirstStopCase(c, s)
<1>1. FirstStop(c) = FirstOf(cases, {})
  BY DEF FirstStop
<1>2. /\ c1 => One(s1)
      /\ One(s2)
      /\ c3 => One(s3)
  BY Stops DEF FirstStopCase
<1>3. One(s4) /\ (c5 => One(s5)) /\ (c6 => One(s6))
  BY Stops DEF FirstStopCase
<1>4. One(s7) /\ One(s8)
  BY Stops DEF FirstStopCase
<1>5. (c9 => One(s9)) /\ (c10 => One(s10)) /\ (c11 => One(s11))
  BY Stops DEF FirstStopCase
<1>6. ~c1 /\ ~c3 /\ ~c5 /\ ~c6 /\ ~c9 /\ ~c10 /\ ~c11 => NotStopped(c)
  BY DEF NotStopped
<1> HIDE DEF c1, c2, c3, c4, c5, c6, c7, c8, c9, c10, c11, s1, s2, s3, s4, s5, s6, s7, s8, s9, s10, s11, One
<1>7. Len(cases) = 11
  OBVIOUS
<1>8. ASSUME NEW i \in 1 .. 11, cases[i][1]  PROVE One(cases[i][2])
  BY <1>2, <1>3, <1>4, <1>5, <1>8
<1>9. ASSUME \A i \in 1 .. 11 : ~cases[i][1]  PROVE NotStopped(c)
  <2>1. ~c1 /\ ~c3 /\ ~c5 /\ ~c6 /\ ~c9 /\ ~c10 /\ ~c11
    BY <1>9
  <2> QED BY <1>6, <2>1
<1> HIDE DEF cases
<1>10. \/ \E i \in 1 .. 11 : cases[i][1] /\ FirstOf(cases, {}) = cases[i][2]
       \/ (\A i \in 1 .. 11 : ~cases[i][1]) /\ FirstOf(cases, {}) = {}
  <2>1. Len(cases) \in Nat
    BY <1>7
  <2>2. \/ \E i \in 1 .. Len(cases) : cases[i][1] /\ FirstOf(cases, {}) = cases[i][2]
        \/ (\A i \in 1 .. Len(cases) : ~cases[i][1]) /\ FirstOf(cases, {}) = {}
    BY <2>1, FirstOfFacts
  <2> QED BY <1>7, <2>2
<1>11. One(FirstStop(c)) \/ (FirstStop(c) = {} /\ NotStopped(c))
  <2>1. CASE \E i \in 1 .. 11 : cases[i][1] /\ FirstOf(cases, {}) = cases[i][2]
    <3>1. PICK i \in 1 .. 11 : cases[i][1] /\ FirstOf(cases, {}) = cases[i][2]
      BY <2>1
    <3>2. One(cases[i][2]) /\ FirstStop(c) = cases[i][2]
      BY <1>1, <1>8, <3>1
    <3>3. PICK s : cases[i][2] = {s} /\ FirstStopCase(c, s)
      BY <3>2 DEF One
    <3>4. FirstStop(c) = {s} /\ FirstStopCase(c, s)
      BY <3>2, <3>3
    <3>5. One(FirstStop(c))
      BY <3>4 DEF One
    <3> QED BY <3>5
  <2>2. CASE (\A i \in 1 .. 11 : ~cases[i][1]) /\ FirstOf(cases, {}) = {}
    BY <1>1, <1>9, <2>2
  <2> QED BY <1>10, <2>1, <2>2
<1> QED BY <1>11 DEF One

\* The gates of a cycle that nothing else stopped.
GateStopCase(c, s) ==
    \/ IsStop(s, "blocked", "not_ready", "completion_gate_bypass", "blocked")
    \/ IsStop(s, "blocked", "not_ready", "proof_obligation_bypass", "blocked")
    \/ ModelRouteMissing(c)
       /\ IsStop(s, "refused_until_model_route_declared", "not_ready", "model_route_ambiguity", "interrupt")

NotGated(c) ==
    /\ CompletionGateOpened(c)
    /\ \A obligation \in ProofObligations(c) : obligation.satisfied
    /\ ~ModelRouteMissing(c)

\* recompute_manager_readiness, after the stops.
LEMMA GateStops ==
    ASSUME NEW c
    PROVE  \/ \E s : GateStop(c) = {s} /\ GateStopCase(c, s)
           \/ GateStop(c) = {} /\ NotGated(c)
<1> DEFINE c1 == ~CompletionGateOpened(c)
           c2 == \E obligation \in ProofObligations(c) : ~obligation.satisfied
           c3 == ModelRouteMissing(c)
           s1 == Stop("blocked", "not_ready", "completion_gate_bypass", "blocked")
           s2 == Stop("blocked", "not_ready", "proof_obligation_bypass", "blocked")
           s3 == Stop("refused_until_model_route_declared", "not_ready", "model_route_ambiguity", "interrupt")
           One(S) == \E s : S = {s} /\ GateStopCase(c, s)
<1>1. GateStop(c) = FirstOf(<< <<c1, s1>>, <<c2, s2>>, <<c3, s3>> >>, {})
  BY DEF GateStop
<1>2. One(s1) /\ One(s2) /\ (c3 => One(s3))
  BY Stops DEF GateStopCase
<1>3. ~c1 /\ ~c2 /\ ~c3 => NotGated(c)
  BY DEF NotGated
<1> HIDE DEF c1, c2, c3, s1, s2, s3
<1>4. GateStop(c) = IF c1 THEN s1 ELSE IF c2 THEN s2 ELSE IF c3 THEN s3 ELSE {}
  BY <1>1, First3
<1>5. One(GateStop(c)) \/ (GateStop(c) = {} /\ NotGated(c))
  <2>1. CASE c1
    <3>1. PICK s : s1 = {s} /\ GateStopCase(c, s)
      BY <1>2, <2>1
    <3>2. GateStop(c) = {s} /\ GateStopCase(c, s)
      BY <1>4, <2>1, <3>1
    <3> QED BY <3>2
  <2>2. CASE ~c1 /\ c2
    <3>1. PICK s : s2 = {s} /\ GateStopCase(c, s)
      BY <1>2, <2>2
    <3>2. GateStop(c) = {s} /\ GateStopCase(c, s)
      BY <1>4, <2>2, <3>1
    <3> QED BY <3>2
  <2>3. CASE ~c1 /\ ~c2 /\ c3
    <3>1. PICK s : s3 = {s} /\ GateStopCase(c, s)
      BY <1>2, <2>3
    <3>2. GateStop(c) = {s} /\ GateStopCase(c, s)
      BY <1>4, <2>3, <3>1
    <3> QED BY <3>2
  <2>4. CASE ~c1 /\ ~c2 /\ ~c3
    BY <1>3, <1>4, <2>4
  <2> QED BY <2>1, <2>2, <2>3, <2>4
<1> QED BY <1>5

-----------------------------------------------------------------------------
(* Readiness.                                                              *)

\* The issues of the identity of a cycle.
FaultsOf(c) == When(c.source_ref_set = {}, "missing_source_authority", "fault")
                   \cup When(c.authority_notice_ref = NoValue, "missing_authority_notice", "fault")

\* A cycle is stopped by at most one thing, which its readiness projects; if
\* by nothing, it is ready for claim with the faults that it has.
LEMMA ReadinessFacts ==
    ASSUME NEW c
    PROVE  /\ DOMAIN Readiness(c) = {"accepted", "issues", "readiness_state", "work_packet_state",
                                     "proof_obligation_set", "completion_gate", "interrupt_context"}
           /\ Readiness(c).accepted = (Readiness(c).issues = {})
           /\ Readiness(c).interrupt_context = InterruptKinds(Readiness(c).issues)
           /\ Readiness(c).completion_gate = CompletionGateOpened(c)
           /\ \/ \E s : /\ FirstStopCase(c, s) \/ GateStopCase(c, s)
                        /\ Readiness(c).issues = FaultsOf(c) \cup {s.issue}
                        /\ Readiness(c).readiness_state = s.readiness_state
                        /\ Readiness(c).work_packet_state = s.work_packet_state
              \/ /\ NotStopped(c) /\ NotGated(c)
                 /\ Readiness(c).issues = FaultsOf(c)
                 /\ Readiness(c).readiness_state = "ready_for_claim"
                 /\ Readiness(c).work_packet_state = "ready_for_claim"
<1> DEFINE stops == IF FirstStop(c) # {} THEN FirstStop(c) ELSE GateStop(c)
           issues == FaultsOf(c) \cup {s.issue : s \in stops}
           Projected(field) == IF stops = {} THEN "ready_for_claim" ELSE (CHOOSE s \in stops : TRUE)[field]
           r == Readiness(c)
<1>1. r = [accepted |-> issues = {}, issues |-> issues, readiness_state |-> Projected("readiness_state"),
           work_packet_state |-> Projected("work_packet_state"), proof_obligation_set |-> ProofObligations(c),
           completion_gate |-> CompletionGateOpened(c), interrupt_context |-> InterruptKinds(issues)]
  BY DEF Readiness, FaultsOf
<1>2. \/ \E s : stops = {s} /\ (FirstStopCase(c, s) \/ GateStopCase(c, s))
      \/ stops = {} /\ NotStopped(c) /\ NotGated(c)
  BY FirstStops, GateStops
<1> HIDE DEF stops, r
<1>3. /\ DOMAIN r = {"accepted", "issues", "readiness_state", "work_packet_state",
                     "proof_obligation_set", "completion_gate", "interrupt_context"}
      /\ r.issues = issues /\ r.accepted = (issues = {})
      /\ r.readiness_state = Projected("readiness_state")
      /\ r.work_packet_state = Projected("work_packet_state")
      /\ r.completion_gate = CompletionGateOpened(c) /\ r.interrupt_context = InterruptKinds(issues)
  BY <1>1
<1>4. ASSUME NEW s, stops = {s}
      PROVE  issues = FaultsOf(c) \cup {s.issue} /\ \A field : Projected(field) = s[field]
  BY <1>4
<1>5. ASSUME stops = {}
      PROVE  issues = FaultsOf(c) /\ \A field : Projected(field) = "ready_for_claim"
  BY <1>5
<1> HIDE DEF issues, Projected
<1>6. CASE stops = {}
  BY <1>2, <1>3, <1>5, <1>6 DEF r
<1>7. CASE stops # {}
  <2>1. PICK s : stops = {s} /\ (FirstStopCase(c, s) \/ GateStopCase(c, s))
    BY <1>2, <1>7
  <2>2. r.issues = FaultsOf(c) \cup {s.issue} /\ r.readiness_state = s.readiness_state
        /\ r.work_packet_state = s.work_packet_state
    BY <1>3, <1>4, <2>1
  <2> QED BY <1>3, <2>1, <2>2 DEF r
<1> QED BY <1>6, <1>7

\* These issues are faults, and there are none of a cycle with source and notice.
LEMMA FaultFacts ==
    ASSUME NEW c
    PROVE  /\ \A i \in FaultsOf(c) : /\ i.severity = "fault"
                                     /\ i.issue_kind \in {"missing_source_authority", "missing_authority_notice"}
           /\ FaultsOf(c) = {} <=> c.source_ref_set # {} /\ c.authority_notice_ref # NoValue
<1>1. \A i \in FaultsOf(c) : \E k \in {"missing_source_authority", "missing_authority_notice"} : i = Issue(k, "fault")
  BY DEF FaultsOf, When
<1>2. \A k, v : Issue(k, v).issue_kind = k /\ Issue(k, v).severity = v
  BY DEF Issue
<1>3. FaultsOf(c) = {} <=> c.source_ref_set # {} /\ c.authority_notice_ref # NoValue
  BY DEF FaultsOf, When
<1> QED BY <1>1, <1>2, <1>3

\* No projection of a stop makes work ready for claim.
LEMMA ReadyIsClear ==
    ASSUME NEW c, Readiness(c).work_packet_state = "ready_for_claim"
    PROVE  NotStopped(c) /\ NotGated(c) /\ Readiness(c).issues = FaultsOf(c)
<1>1. ASSUME NEW s, FirstStopCase(c, s)  PROVE s.work_packet_state # "ready_for_claim"
  BY <1>1 DEF FirstStopCase, IsStop
<1>2. ASSUME NEW s, GateStopCase(c, s)  PROVE s.work_packet_state # "ready_for_claim"
  BY <1>2 DEF GateStopCase, IsStop
<1> QED BY <1>1, <1>2, ReadinessFacts

-----------------------------------------------------------------------------
(* The inductive invariant: the records at hand are those that the         *)
(* functions make of the cycle they were made in, whatever the facts and   *)
(* the cycle at hand are now; only the packet is of the cycle at hand.     *)

KnownFreshness(data) ==
    "freshness_state" \in DOMAIN data => data["freshness_state"] \in ManagerFreshnessState

IsReadiness(r) ==
    /\ r.accepted = Readiness(r.cycleOf).accepted
    /\ r.issues = Readiness(r.cycleOf).issues
    /\ r.readiness_state = Readiness(r.cycleOf).readiness_state
    /\ r.interrupt_context = Readiness(r.cycleOf).interrupt_context

IsPacket(p) ==
    /\ p.packet_state = Readiness(p.cycleOf).work_packet_state
    /\ p.model_route = p.cycleOf.model_route
    /\ p.issue_set = Readiness(p.cycleOf).issues
    /\ p.completion_gate = Readiness(p.cycleOf).completion_gate

ManagerInv ==
    /\ learned \in 0 .. MaxEvidence
    /\ KnownFreshness(facts)
    /\ \A c \in cycle : cycle = {c} /\ c.freshness_state \in ManagerFreshnessState
    /\ \A r \in readiness : readiness = {r} /\ IsReadiness(r)
    /\ \A p \in packet : packet = {p} /\ p.cycleOf \in cycle /\ IsPacket(p)
    /\ \A h \in handoff : h.status = HandoffStatus(Readiness(h.cycleOf))

\* A cycle has the freshness that is known, or the default.
LEMMA NewCycle ==
    ASSUME NEW data, KnownFreshness(data)
    PROVE  CycleFromMapping(data).freshness_state \in ManagerFreshnessState
<1> DEFINE x == Merged(data, CycleDefaults)
           y == Merged(x, [work_ref |-> x.cycle_id])
<1>1. "freshness_state" \in DOMAIN CycleDefaults /\ CycleDefaults["freshness_state"] = "fresh"
  BY DEF CycleDefaults
<1>2. "freshness_state" \in DOMAIN x /\ x["freshness_state"] \in ManagerFreshnessState
  <2>1. CASE "freshness_state" \in DOMAIN data
    BY <1>1, <2>1 DEF Merged, KnownFreshness
  <2>2. CASE "freshness_state" \notin DOMAIN data
    BY <1>1, <2>2 DEF Merged, ManagerFreshnessState
  <2> QED BY <2>1, <2>2
<1> HIDE DEF x
<1>3. y["freshness_state"] = x["freshness_state"]
  BY <1>2 DEF Merged
<1>4. CycleFromMapping(data) = y
  BY DEF CycleFromMapping, x
<1> QED BY <1>2, <1>3, <1>4

\* What turns up has a freshness that is known, if it has one.
LEMMA NewFacts ==
    ASSUME NEW change \in Evidence, NEW data, KnownFreshness(data)
    PROVE  KnownFreshness(Merged(change, data))
<1>1. KnownFreshness(change)
  BY ManagerAssumption DEF KnownFreshness
<1> QED BY <1>1 DEF KnownFreshness, Merged

\* Recompute, BuildPacket and HandOff record what the functions say.
LEMMA NewReadiness ==
    ASSUME NEW c, NEW r, r = Merged([cycleOf |-> c], Readiness(c))
    PROVE  r.cycleOf = c /\ IsReadiness(r)
<1> DEFINE p == [cycleOf |-> c]
           d == Readiness(c)
<1>1. DOMAIN p = {"cycleOf"} /\ p["cycleOf"] = c
  OBVIOUS
<1>2. DOMAIN d = {"accepted", "issues", "readiness_state", "work_packet_state",
                  "proof_obligation_set", "completion_gate", "interrupt_context"}
  BY ReadinessFacts
<1> HIDE DEF p, d
<1>3. /\ r["cycleOf"] = c /\ r["accepted"] = d["accepted"] /\ r["issues"] = d["issues"]
      /\ r["readiness_state"] = d["readiness_state"] /\ r["interrupt_context"] = d["interrupt_context"]
  <2>1. r = Merged(p, d)
    BY DEF p, d
  <2>2. /\ \A f \in DOMAIN p : r[f] = p[f]
        /\ \A f \in DOMAIN d \ DOMAIN p : r[f] = d[f]
    BY <2>1 DEF Merged
  <2> QED BY <1>1, <1>2, <2>2
<1> QED BY <1>3 DEF IsReadiness, d

LEMMA NewPacket ==
    ASSUME NEW c, NEW p, p = Merged([cycleOf |-> c], WorkPacketCandidate(c))
    PROVE  p.cycleOf = c /\ IsPacket(p)
<1> DEFINE a == [cycleOf |-> c]
           d == WorkPacketCandidate(c)
<1>1. DOMAIN a = {"cycleOf"} /\ a["cycleOf"] = c
  OBVIOUS
<1>2. /\ DOMAIN d = {"work_ref", "readiness_state", "packet_state", "model_route", "proof_obligation_set",
                     "completion_gate", "issue_set", "source_ref_set"}
      /\ d["packet_state"] = Readiness(c).work_packet_state
      /\ d["model_route"] = c.model_route
      /\ d["issue_set"] = Readiness(c).issues
      /\ d["completion_gate"] = Readiness(c).completion_gate
  BY DEF WorkPacketCandidate
<1> HIDE DEF a, d
<1>3. /\ p["cycleOf"] = c /\ p["packet_state"] = d["packet_state"] /\ p["model_route"] = d["model_route"]
      /\ p["issue_set"] = d["issue_set"] /\ p["completion_gate"] = d["completion_gate"]
  <2>1. p = Merged(a, d)
    BY DEF a, d
  <2>2. /\ \A f \in DOMAIN a : p[f] = a[f]
        /\ \A f \in DOMAIN d \ DOMAIN a : p[f] = d[f]
    BY <2>1 DEF Merged
  <2> QED BY <1>1, <1>2, <2>2
<1> QED BY <1>2, <1>3 DEF IsPacket

LEMMA NewHandoff ==
    ASSUME NEW r, IsReadiness(r), NEW notice, NEW h, h = Merged([cycleOf |-> r.cycleOf], HandoffRecord(r, notice))
    PROVE  h.status = HandoffStatus(Readiness(h.cycleOf))
<1> DEFINE a == [cycleOf |-> r.cycleOf]
           d == HandoffRecord(r, notice)
<1>1. DOMAIN a = {"cycleOf"} /\ a["cycleOf"] = r.cycleOf
  OBVIOUS
<1>2. DOMAIN d = {"status", "authority_notice_ref", "fault_ref_set"} /\ d["status"] = HandoffStatus(r)
  BY DEF HandoffRecord
<1> HIDE DEF a, d
<1>3. h["cycleOf"] = r.cycleOf /\ h["status"] = HandoffStatus(r)
  <2>1. h = Merged(a, d)
    BY DEF a, d
  <2>2. /\ \A f \in DOMAIN a : h[f] = a[f]
        /\ \A f \in DOMAIN d \ DOMAIN a : h[f] = d[f]
    BY <2>1 DEF Merged
  <2> QED BY <1>1, <1>2, <2>2
<1>4. HandoffStatus(r) = HandoffStatus(Readiness(r.cycleOf))
  BY DEF HandoffStatus, IsReadiness
<1> QED BY <1>3, <1>4

LEMMA ManagerInit == Init => ManagerInv
<1> SUFFICES ASSUME Init  PROVE ManagerInv
  OBVIOUS
<1>1. KnownFreshness(facts)
  BY ManagerAssumption DEF Init, KnownFreshness
<1>2. learned \in 0 .. MaxEvidence
  BY ManagerAssumption DEF Init
<1> QED BY <1>1, <1>2 DEF Init, ManagerInv

\* One step for each action.
LEMMA ManagerStep == ManagerInv /\ [Next]_vars => ManagerInv'
<1> SUFFICES ASSUME ManagerInv, [Next]_vars  PROVE ManagerInv'
  OBVIOUS
<1>1. ASSUME NEW change \in Evidence, Learn(change)  PROVE ManagerInv'
  <2>1. KnownFreshness(facts')
    BY <1>1, NewFacts DEF Learn, ManagerInv
  <2>2. learned' \in 0 .. MaxEvidence
    BY <1>1, ManagerAssumption DEF Learn, ManagerInv
  <2>3. UNCHANGED <<cycle, readiness, packet, handoff, refusals>>
    BY <1>1 DEF Learn
  <2> QED BY <2>1, <2>2, <2>3 DEF ManagerInv
<1>2. CASE BeginCycle
  <2>1. \A c \in cycle' : cycle' = {c} /\ c.freshness_state \in ManagerFreshnessState
    BY <1>2, NewCycle DEF BeginCycle, ManagerInv
  <2>2. packet' = {} /\ UNCHANGED <<facts, learned, readiness, handoff, refusals>>
    BY <1>2 DEF BeginCycle
  <2> QED BY <2>1, <2>2 DEF ManagerInv
<1>3. CASE Recompute
  <2>1. PICK c \in cycle : readiness' = {Merged([cycleOf |-> c], Readiness(c))}
    BY <1>3 DEF Recompute
  <2>2. \A r \in readiness' : readiness' = {r} /\ IsReadiness(r)
    BY <2>1, NewReadiness
  <2>3. UNCHANGED <<facts, learned, cycle, packet, handoff, refusals>>
    BY <1>3 DEF Recompute
  <2> QED BY <2>2, <2>3 DEF ManagerInv
<1>4. CASE BuildPacket
  <2>1. PICK c \in cycle : packet' = {Merged([cycleOf |-> c], WorkPacketCandidate(c))}
    BY <1>4 DEF BuildPacket
  <2>2. \A p \in packet' : packet' = {p} /\ p.cycleOf \in cycle /\ IsPacket(p)
    BY <2>1, NewPacket
  <2>3. UNCHANGED <<facts, learned, cycle, readiness, handoff, refusals>>
    BY <1>4 DEF BuildPacket
  <2> QED BY <2>2, <2>3 DEF ManagerInv
<1>5. CASE HandOff
  <2>1. PICK r \in readiness, c \in cycle :
            handoff' = {Merged([cycleOf |-> r.cycleOf], HandoffRecord(r, c.authority_notice_ref))}
    BY <1>5 DEF HandOff
  <2>2. IsReadiness(r)
    BY DEF ManagerInv
  <2>3. \A h \in handoff' : h.status = HandoffStatus(Readiness(h.cycleOf))
    BY <2>1, <2>2, NewHandoff
  <2>4. UNCHANGED <<facts, learned, cycle, readiness, packet, refusals>>
    BY <1>5 DEF HandOff
  <2> QED BY <2>3, <2>4 DEF ManagerInv
<1>6. CASE Refuse
  BY <1>6 DEF Refuse, ManagerInv
<1>7. CASE UNCHANGED vars
  BY <1>7 DEF vars, ManagerInv
<1> QED BY <1>1, <1>2, <1>3, <1>4, <1>5, <1>6, <1>7 DEF Next

\* Every record at hand is what the functions of manager/ make of the cycle it
\* was made in.
THEOREM ManagerInvariant == Spec => []ManagerInv
<1> QED BY ManagerInit, ManagerStep, PTL DEF Spec

-----------------------------------------------------------------------------
(* What a packet that can be claimed, and an interrupt, say.               *)

\* A packet that can be claimed is of a cycle that nothing stops or gates.
LEMMA ClaimableIsClear ==
    ASSUME NEW p, IsPacket(p), IsClaimable(p)
    PROVE  NotStopped(p.cycleOf) /\ NotGated(p.cycleOf) /\ p.issue_set = FaultsOf(p.cycleOf)
  BY ReadyIsClear DEF IsPacket, IsClaimable

\* The proof obligations of a claimable packet were all proved, so none is listed.
LEMMA ClaimableHasNothing == ManagerInv => ClaimableHasNothingOpen
<1> SUFFICES ASSUME ManagerInv, NEW p \in packet, IsClaimable(p)
             PROVE  /\ \A i \in p.issue_set : i.severity = "fault"
                    /\ p.completion_gate
                    /\ p.cycleOf.proof_obligation_ref_set = {}
                    /\ p.cycleOf.source_authority_state = "accepted_and_fresh"
                    /\ p.cycleOf.coordination_state \notin {"contested_by_active_claim", "contested"}
                    /\ p.cycleOf.freshness_state # "stale"
                    /\ p.cycleOf.model_route_state \notin {"missing", "unknown", NoValue}
  BY DEF ClaimableHasNothingOpen
<1> DEFINE c == p.cycleOf
<1>1. IsPacket(p)
  BY DEF ManagerInv
<1>2. NotStopped(c) /\ NotGated(c) /\ p.issue_set = FaultsOf(c)
  BY <1>1, ClaimableIsClear
<1>3. p.completion_gate = CompletionGateOpened(c)
  BY <1>1, ReadinessFacts DEF IsPacket
<1> HIDE DEF c
<1>4. c.proof_obligation_ref_set = {}
  <2> SUFFICES ASSUME c.proof_obligation_ref_set # {}  PROVE FALSE
    OBVIOUS
  <2>1. PICK ref : ref \in c.proof_obligation_ref_set
    OBVIOUS
  <2>2. [obligation_id |-> ref, satisfied |-> FALSE] \in ProofObligations(c)
    BY <2>1 DEF ProofObligations
  <2>3. [obligation_id |-> ref, satisfied |-> FALSE].satisfied
    BY <1>2, <2>2 DEF NotGated
  <2> QED BY <2>3
<1>5. c.source_authority_state = "accepted_and_fresh"
  <2> DEFINE o == [obligation_id |-> "source_authority",
                   satisfied |-> c.source_authority_state = "accepted_and_fresh"]
  <2>1. o \in ProofObligations(c)
    BY <1>4 DEF ProofObligations
  <2>2. o.satisfied
    BY <1>2, <2>1 DEF NotGated
  <2> QED BY <2>2
<1>6. c.coordination_state \notin {"contested_by_active_claim", "contested"} /\ c.freshness_state # "stale"
  BY <1>2 DEF NotStopped, IsStale
<1>7. c.model_route_state \notin {"missing", "unknown", NoValue}
  BY <1>2 DEF NotGated, ModelRouteMissing
<1> QED BY <1>2, <1>3, <1>4, <1>5, <1>6, <1>7, FaultFacts DEF NotGated, c

\* What the facts behind an interrupt are, for each kind of interrupt.
Interrupts(c, kind) ==
    \/ kind = "stale_boundary_input" /\ IsStale(c)
    \/ /\ kind = "contested_coordination_claim"
       /\ c.coordination_state \in {"contested_by_active_claim", "contested"}
    \/ kind = "unclassified_authority_sensitive_record" /\ c.requested_effect_classification_state = "missing"
    \/ /\ kind = "dry_run_to_live_control_promotion"
       /\ c.operations_dry_run_state = "success" /\ c.requested_promotion \in {"dispatch_authority", "live_control"}
    \/ /\ kind = "generated_output_authority_promotion"
       /\ c.generated_projection_state # NoValue /\ c.requested_promotion = "source_authority"
    \/ /\ kind = "graph_checkpoint_authority_promotion"
       /\ c.graph_checkpoint_state # NoValue /\ c.requested_promotion = "source_authority"
    \/ kind = "requested_forbidden_scope" /\ RequestsForbiddenLiveScope(c)
    \/ kind = "model_route_ambiguity" /\ ModelRouteMissing(c)

\* What stops a cycle with one of these severities interrupts it, and the
\* severity is that of being stale only for what is stale.
LEMMA StopInterrupts ==
    ASSUME NEW c, NEW s, FirstStopCase(c, s) \/ GateStopCase(c, s),
           s.issue.severity \in {"interrupt", "stale", "refused"}
    PROVE  /\ Interrupts(c, s.issue.issue_kind)
           /\ s.issue.severity = "stale" <=> s.issue.issue_kind = "stale_boundary_input"
<1>1. CASE FirstStopCase(c, s)
  BY <1>1 DEF FirstStopCase, IsStop, Interrupts
<1>2. CASE GateStopCase(c, s)
  BY <1>2 DEF GateStopCase, IsStop, Interrupts
<1> QED BY <1>1, <1>2

LEMMA IssueInterrupts ==
    ASSUME NEW c, NEW i \in Readiness(c).issues, i.severity \in {"interrupt", "stale", "refused"}
    PROVE  /\ Interrupts(c, i.issue_kind)
           /\ i.severity = "stale" <=> i.issue_kind = "stale_boundary_input"
           /\ Readiness(c).interrupt_context = {i.issue_kind}
<1>1. i \notin FaultsOf(c)
  BY FaultFacts
<1>2. PICK s : /\ FirstStopCase(c, s) \/ GateStopCase(c, s)
               /\ Readiness(c).issues = FaultsOf(c) \cup {s.issue}
  BY <1>1, ReadinessFacts
<1>3. i = s.issue
  BY <1>1, <1>2
<1>4. InterruptKinds(Readiness(c).issues) = {i.issue_kind}
  BY <1>2, <1>3, FaultFacts DEF InterruptKinds
<1> QED BY <1>2, <1>3, <1>4, StopInterrupts, ReadinessFacts

\* Work that is neither stopped nor gated has none of these facts.
LEMMA ClearIsNotInterrupted ==
    ASSUME NEW c, NotStopped(c), NotGated(c), NEW kind
    PROVE  ~Interrupts(c, kind)
  BY DEF NotStopped, NotGated, Interrupts

\* The facts behind an interrupt are all that it depends on.
LEMMA FactsDecide ==
    ASSUME NEW c, NEW d, NEW kind, Interrupts(c, kind),
           \A field \in FactsBehind[kind] : d[field] = c[field]
    PROVE  Interrupts(d, kind)
<1>1. CASE kind = "stale_boundary_input" /\ IsStale(c)
  BY <1>1 DEF FactsBehind, Interrupts, IsStale
<1>2. CASE kind = "requested_forbidden_scope" /\ RequestsForbiddenLiveScope(c)
  BY <1>2 DEF FactsBehind, Interrupts, RequestsForbiddenLiveScope
<1>3. CASE kind = "model_route_ambiguity" /\ ModelRouteMissing(c)
  BY <1>3 DEF FactsBehind, Interrupts, ModelRouteMissing
<1>4. CASE kind \in {"contested_coordination_claim", "unclassified_authority_sensitive_record"}
  BY <1>4 DEF FactsBehind, Interrupts
<1>5. CASE kind \in {"dry_run_to_live_control_promotion", "generated_output_authority_promotion",
                     "graph_checkpoint_authority_promotion"}
  BY <1>5 DEF FactsBehind, Interrupts
<1> QED BY <1>1, <1>2, <1>3, <1>4, <1>5 DEF Interrupts

LEMMA InterruptHolds == ManagerInv => InterruptHoldsUntilResolved
<1> SUFFICES ASSUME ManagerInv, NEW p \in packet, NEW r \in readiness, IsClaimable(p),
                    NEW kind \in r.interrupt_context,
                    \A field \in FactsBehind[kind] : p.cycleOf[field] = r.cycleOf[field]
             PROVE  FALSE
  BY DEF InterruptHoldsUntilResolved
<1>1. IsPacket(p) /\ IsReadiness(r)
  BY DEF ManagerInv
<1>2. ~Interrupts(p.cycleOf, kind)
  BY <1>1, ClaimableIsClear, ClearIsNotInterrupted
<1>3. Interrupts(r.cycleOf, kind)
  <2>1. kind \in InterruptKinds(Readiness(r.cycleOf).issues)
    BY <1>1, ReadinessFacts DEF IsReadiness
  <2>2. PICK i \in Readiness(r.cycleOf).issues :
            i.severity \in {"interrupt", "stale", "refused"} /\ i.issue_kind = kind
    BY <2>1 DEF InterruptKinds
  <2> QED BY <2>2, IssueInterrupts
<1> QED BY <1>2, <1>3, FactsDecide

-----------------------------------------------------------------------------
(* The records made of one readiness.                                      *)

\* There is one interrupt at most.
LEMMA OneInterrupt ==
    ASSUME NEW c
    PROVE  Cardinality(Readiness(c).interrupt_context) <= 1
<1> DEFINE kinds == Readiness(c).interrupt_context
<1>1. kinds = InterruptKinds(Readiness(c).issues)
  BY ReadinessFacts
<1>2. kinds = {} \/ \E kind : kinds = {kind}
  <2>1. ASSUME NEW kind \in kinds  PROVE kinds = {kind}
    <3>1. PICK i \in Readiness(c).issues : i.severity \in {"interrupt", "stale", "refused"} /\ i.issue_kind = kind
      BY <1>1 DEF InterruptKinds
    <3> QED BY <3>1, IssueInterrupts
  <2> QED BY <2>1
<1>3. kinds = {} => Cardinality(kinds) = 0
  BY FS_EmptySet
<1>4. ASSUME NEW kind, kinds = {kind}  PROVE Cardinality(kinds) = 1
  BY <1>4, FS_Singleton
<1> QED BY <1>2, <1>3, <1>4

\* handoff_record_from_readiness, safe_next_route_for_refusal and
\* safe_next_route_for_fault as nested conditions.
LEMMA HandoffStatuses ==
    ASSUME NEW r
    PROVE  HandoffStatus(r) = IF HasSeverity(r.issues, "refused") THEN "refused"
                              ELSE IF HasSeverity(r.issues, "interrupt") THEN "interrupted"
                              ELSE IF HasSeverity(r.issues, "blocked") THEN "blocked"
                              ELSE IF HasSeverity(r.issues, "fault") THEN "blocked"
                              ELSE IF r.accepted THEN "ready_for_review" ELSE "context_only"
  BY BySeverity4 DEF HandoffStatus

LEMMA ManagerTypes == ManagerInv => TypeOK
<1> SUFFICES ASSUME ManagerInv  PROVE TypeOK
  OBVIOUS
<1>1. \A r \in readiness : Cardinality(r.interrupt_context) <= 1
  BY OneInterrupt DEF ManagerInv, IsReadiness
<1>2. \A h \in handoff : h.status \in {"ready_for_review", "blocked", "interrupted", "refused", "context_only"}
  BY HandoffStatuses DEF ManagerInv
<1>3. \A p \in packet : packet = {p} /\ cycle = {p.cycleOf}
  BY DEF ManagerInv
<1> QED BY <1>1, <1>2, <1>3 DEF ManagerInv, TypeOK

LEMMA RefusalRoutes ==
    ASSUME NEW kind
    PROVE  SafeNextRouteForRefusal(kind) =
             IF kind \in PromotionKinds THEN "refuse_and_require_separate_authority"
             ELSE IF kind = "model_route_ambiguity" THEN "declare_model_route"
             ELSE IF kind = "stale_boundary_input" THEN "rebake_or_refresh_authority" ELSE "SOP_first_review"
<1> DEFINE c1 == kind \in PromotionKinds
           c2 == kind = "model_route_ambiguity"
           c3 == kind = "stale_boundary_input"
<1>1. SafeNextRouteForRefusal(kind) =
        FirstOf(<< <<c1, "refuse_and_require_separate_authority">>, <<c2, "declare_model_route">>,
                   <<c3, "rebake_or_refresh_authority">> >>, "SOP_first_review")
  BY DEF SafeNextRouteForRefusal
<1> HIDE DEF c1, c2, c3
<1>2. SafeNextRouteForRefusal(kind) =
        IF c1 THEN "refuse_and_require_separate_authority" ELSE IF c2 THEN "declare_model_route"
        ELSE IF c3 THEN "rebake_or_refresh_authority" ELSE "SOP_first_review"
  BY <1>1, First3
<1> QED BY <1>2 DEF c1, c2, c3

LEMMA FaultRoutes ==
    ASSUME NEW kind
    PROVE  SafeNextRouteForFault(kind) =
             IF kind \in {"stale_boundary_input", "completion_gate_bypass", "proof_obligation_bypass"}
             THEN "rebake_or_refresh_authority"
             ELSE IF kind \in {"unclassified_authority_sensitive_record", "model_route_ambiguity"}
             THEN "classify_and_route_before_action"
             ELSE IF kind \in PromotionKinds \cup {"dispatch_requested", "live_effect_requested"}
             THEN "refuse_and_require_separate_authority" ELSE "SOP_first_review"
<1> DEFINE c1 == kind \in {"stale_boundary_input", "completion_gate_bypass", "proof_obligation_bypass"}
           c2 == kind \in {"unclassified_authority_sensitive_record", "model_route_ambiguity"}
           c3 == kind \in PromotionKinds \cup {"dispatch_requested", "live_effect_requested"}
<1>1. SafeNextRouteForFault(kind) =
        FirstOf(<< <<c1, "rebake_or_refresh_authority">>, <<c2, "classify_and_route_before_action">>,
                   <<c3, "refuse_and_require_separate_authority">> >>, "SOP_first_review")
  BY DEF SafeNextRouteForFault
<1> HIDE DEF c1, c2, c3
<1>2. SafeNextRouteForFault(kind) =
        IF c1 THEN "rebake_or_refresh_authority" ELSE IF c2 THEN "classify_and_route_before_action"
        ELSE IF c3 THEN "refuse_and_require_separate_authority" ELSE "SOP_first_review"
  BY <1>1, First3
<1> QED BY <1>2 DEF c1, c2, c3

\* The kinds of interrupt are kinds of fault, and the routes that the two
\* functions give them agree on which need a separate authority.
LEMMA InterruptRoutes ==
    ASSUME NEW c, NEW kind, Interrupts(c, kind)
    PROVE  /\ FaultKind(kind) = kind
           /\ SafeNextRouteForRefusal(kind) = "refuse_and_require_separate_authority"
                  <=> SafeNextRouteForFault(kind) = "refuse_and_require_separate_authority"
<1>1. kind \in {"stale_boundary_input", "contested_coordination_claim", "unclassified_authority_sensitive_record",
                "dry_run_to_live_control_promotion", "generated_output_authority_promotion",
                "graph_checkpoint_authority_promotion", "requested_forbidden_scope", "model_route_ambiguity"}
  BY DEF Interrupts
<1>2. FaultKind(kind) = kind
  BY <1>1 DEF FaultKind, ManagerFaultKind
<1>3. /\ SafeNextRouteForRefusal(kind) = "refuse_and_require_separate_authority" <=> kind \in PromotionKinds
      /\ SafeNextRouteForFault(kind) = "refuse_and_require_separate_authority" <=> kind \in PromotionKinds
  BY <1>1, RefusalRoutes, FaultRoutes DEF PromotionKinds
<1> QED BY <1>2, <1>3

\* Each interrupting issue has its refusal, and each refusal its fault.
LEMMA RefusalsMatch == ManagerInv => RefusalMatchesInterrupt
<1> SUFFICES ASSUME ManagerInv, NEW r \in readiness
             PROVE  /\ {f.refusal_reason : f \in RefusalRecords(r, r.cycleOf.work_ref)} = r.interrupt_context
                    /\ \A f \in RefusalRecords(r, r.cycleOf.work_ref) :
                           /\ f.fault_record_set # {}
                           /\ \A g \in f.fault_record_set :
                                  (f.safe_next_route = "refuse_and_require_separate_authority")
                                      <=> (g.safe_next_route = "refuse_and_require_separate_authority")
  BY DEF RefusalMatchesInterrupt
<1> DEFINE work == r.cycleOf.work_ref
           Refusing == {j \in r.issues : j.severity \in {"refused", "interrupt", "stale"}}
           Record(i) == [work_ref |-> work, refusal_reason |-> i.issue_kind,
                         safe_next_route |-> SafeNextRouteForRefusal(i.issue_kind),
                         fault_record_set |-> {f \in FaultRecords(r, work) : f.fault_kind = i.issue_kind}]
           Fault(i) == [fault_id |-> <<work, FaultKind(i.issue_kind)>>, fault_kind |-> FaultKind(i.issue_kind),
                        severity |-> i.severity, work_ref |-> work,
                        missing_requirement_set |-> MissingRequirements(i.issue_kind),
                        safe_next_route |-> SafeNextRouteForFault(FaultKind(i.issue_kind))]
<1>1. IsReadiness(r) /\ r.issues = Readiness(r.cycleOf).issues
  BY DEF ManagerInv, IsReadiness
<1>2. RefusalRecords(r, work) = {Record(i) : i \in Refusing}
  BY DEF RefusalRecords
<1>3. FaultRecords(r, work) = {Fault(i) : i \in r.issues}
  BY DEF FaultRecords
<1>4. \A i : /\ Record(i).refusal_reason = i.issue_kind
             /\ Record(i).safe_next_route = SafeNextRouteForRefusal(i.issue_kind)
             /\ Record(i).fault_record_set = {f \in FaultRecords(r, work) : f.fault_kind = i.issue_kind}
  OBVIOUS
<1>5. \A i : /\ Fault(i).fault_kind = FaultKind(i.issue_kind)
             /\ Fault(i).safe_next_route = SafeNextRouteForFault(FaultKind(i.issue_kind))
  OBVIOUS
<1>6. \A i \in Refusing : i \in r.issues /\ Interrupts(r.cycleOf, i.issue_kind)
  BY <1>1, IssueInterrupts
<1>7. r.interrupt_context = {i.issue_kind : i \in Refusing}
  BY <1>1, ReadinessFacts DEF IsReadiness, InterruptKinds
<1> HIDE DEF Refusing, Record, Fault, work
<1>8. {f.refusal_reason : f \in RefusalRecords(r, work)} = r.interrupt_context
  BY <1>2, <1>4, <1>7
<1>9. ASSUME NEW i \in Refusing
      PROVE  /\ Record(i).fault_record_set # {}
             /\ \A g \in Record(i).fault_record_set :
                    (Record(i).safe_next_route = "refuse_and_require_separate_authority")
                        <=> (g.safe_next_route = "refuse_and_require_separate_authority")
  <2>1. /\ FaultKind(i.issue_kind) = i.issue_kind
        /\ SafeNextRouteForRefusal(i.issue_kind) = "refuse_and_require_separate_authority"
               <=> SafeNextRouteForFault(i.issue_kind) = "refuse_and_require_separate_authority"
    BY <1>6, InterruptRoutes
  <2>2. Fault(i) \in Record(i).fault_record_set
    BY <1>3, <1>4, <1>5, <1>6, <2>1
  <2>3. ASSUME NEW g \in Record(i).fault_record_set
        PROVE  g.safe_next_route = SafeNextRouteForFault(i.issue_kind)
    <3>1. g.fault_kind = i.issue_kind /\ \E j \in r.issues : g = Fault(j)
      BY <1>3, <1>4
    <3> QED BY <1>5, <3>1
  <2> QED BY <1>4, <2>1, <2>2, <2>3
<1> QED BY <1>2, <1>8, <1>9 DEF work

\* A handoff is ready for review only if its cycle has no issue.
LEMMA HandoffsFit == ManagerInv => HandoffFitsPacket
<1> SUFFICES ASSUME ManagerInv, NEW h \in handoff
             PROVE  LET candidate == WorkPacketCandidate(h.cycleOf)
                        identified == h.cycleOf.source_ref_set # {} /\ h.cycleOf.authority_notice_ref # NoValue
                        interrupts == InterruptKinds(candidate.issue_set)
                    IN  /\ h.status = "ready_for_review" <=> IsClaimable(candidate) /\ identified
                        /\ interrupts \ {"stale_boundary_input"} # {} => h.status \in {"refused", "interrupted"}
                        /\ "stale_boundary_input" \in interrupts
                               => h.status = IF identified THEN "context_only" ELSE "blocked"
  BY DEF HandoffFitsPacket
<1> DEFINE c == h.cycleOf
           issues == Readiness(c).issues
           candidate == WorkPacketCandidate(c)
<1>1. h.status = HandoffStatus(Readiness(c))
  BY DEF ManagerInv
<1> HIDE DEF c
<1>2. /\ candidate.packet_state = Readiness(c).work_packet_state /\ candidate.model_route = c.model_route
      /\ candidate.issue_set = issues
  BY DEF WorkPacketCandidate
<1> HIDE DEF candidate
<1>3. h.status = "ready_for_review" <=> issues = {}
  <2>1. Readiness(c).accepted = (issues = {})
    BY ReadinessFacts
  <2> QED BY <1>1, <2>1, HandoffStatuses DEF HasSeverity
<1>4. issues = {} <=> /\ Readiness(c).work_packet_state = "ready_for_claim"
                      /\ c.source_ref_set # {} /\ c.authority_notice_ref # NoValue
  <2>1. issues = {} => Readiness(c).work_packet_state = "ready_for_claim" /\ FaultsOf(c) = {}
    BY ReadinessFacts
  <2>2. Readiness(c).work_packet_state = "ready_for_claim" => issues = FaultsOf(c)
    BY ReadyIsClear
  <2> QED BY <2>1, <2>2, FaultFacts
<1>5. Readiness(c).work_packet_state = "ready_for_claim" => c.model_route # "missing"
  BY ReadyIsClear DEF NotGated, ModelRouteMissing
<1>6. ASSUME InterruptKinds(issues) \ {"stale_boundary_input"} # {}
      PROVE  h.status \in {"refused", "interrupted"}
  <2>1. PICK i \in issues : i.severity \in {"interrupt", "stale", "refused"} /\ i.issue_kind # "stale_boundary_input"
    BY <1>6 DEF InterruptKinds
  <2>2. HasSeverity(issues, "interrupt") \/ HasSeverity(issues, "refused")
    BY <2>1, IssueInterrupts DEF HasSeverity
  <2> QED BY <1>1, <2>2, HandoffStatuses
<1>7. ASSUME "stale_boundary_input" \in InterruptKinds(issues)
      PROVE  /\ FaultsOf(c) = {} => h.status = "context_only"
             /\ FaultsOf(c) # {} => h.status = "blocked"
  <2>1. PICK i \in issues : i.severity \in {"interrupt", "stale", "refused"} /\ i.issue_kind = "stale_boundary_input"
    BY <1>7 DEF InterruptKinds
  <2>2. i.severity = "stale"
    BY <2>1, IssueInterrupts
  <2>3. i \notin FaultsOf(c)
    BY <2>2, FaultFacts
  <2>4. issues = FaultsOf(c) \cup {i}
    BY <2>1, <2>3, ReadinessFacts
  <2>5. /\ ~HasSeverity(issues, "refused") /\ ~HasSeverity(issues, "interrupt") /\ ~HasSeverity(issues, "blocked")
        /\ HasSeverity(issues, "fault") <=> FaultsOf(c) # {}
    BY <2>2, <2>4, FaultFacts DEF HasSeverity
  <2>6. Readiness(c).accepted = FALSE
    BY <2>1, ReadinessFacts
  <2> QED BY <1>1, <2>5, <2>6, HandoffStatuses
<1>8. "stale_boundary_input" \in InterruptKinds(issues)
          => h.status = IF c.source_ref_set # {} /\ c.authority_notice_ref # NoValue THEN "context_only" ELSE "blocked"
  BY <1>7, FaultFacts
<1> QED BY <1>2, <1>3, <1>4, <1>5, <1>6, <1>8 DEF IsClaimable, c, candidate

\* The stop of a promotion is the issue that its classification raises.
LEMMA PromotionsAlike == ManagerInv => PromotionIsNamedAlike
<1> SUFFICES ASSUME ManagerInv, NEW r \in readiness
             PROVE  /\ r.readiness_state = "source_authority_required"
                           => \A kind \in KindSets.generated_projection :
                                  ClassificationIssues(kind, r.cycleOf.requested_promotion) \subseteq r.issues
                    /\ r.readiness_state = "blocked_until_kernel_reference_checked"
                           => \A kind \in KindSets.graph_checkpoint :
                                  ClassificationIssues(kind, r.cycleOf.requested_promotion) \subseteq r.issues
  BY DEF PromotionIsNamedAlike
<1> DEFINE c == r.cycleOf
<1>1. r.issues = Readiness(c).issues /\ r.readiness_state = Readiness(c).readiness_state
  BY DEF ManagerInv, IsReadiness
<1> HIDE DEF c
<1>2. ASSUME r.readiness_state = "source_authority_required"
      PROVE  Issue("generated_output_authority_promotion", "refused") \in r.issues
  <2>1. PICK s : /\ FirstStopCase(c, s) \/ GateStopCase(c, s)
                 /\ r.issues = FaultsOf(c) \cup {s.issue}
                 /\ r.readiness_state = s.readiness_state
    <3>1. Readiness(c).readiness_state # "ready_for_claim"
      BY <1>1, <1>2
    <3> QED BY <1>1, <3>1, ReadinessFacts
  <2>2. ~GateStopCase(c, s)
    BY <1>2, <2>1 DEF GateStopCase, IsStop
  <2>3. s.issue = Issue("generated_output_authority_promotion", "refused")
    BY <1>2, <2>1, <2>2 DEF FirstStopCase, IsStop
  <2> QED BY <2>1, <2>3
<1>3. ASSUME r.readiness_state = "blocked_until_kernel_reference_checked"
      PROVE  Issue("graph_checkpoint_authority_promotion", "refused") \in r.issues
  <2>1. PICK s : /\ FirstStopCase(c, s) \/ GateStopCase(c, s)
                 /\ r.issues = FaultsOf(c) \cup {s.issue}
                 /\ r.readiness_state = s.readiness_state
    <3>1. Readiness(c).readiness_state # "ready_for_claim"
      BY <1>1, <1>3
    <3> QED BY <1>1, <3>1, ReadinessFacts
  <2>2. ~GateStopCase(c, s)
    BY <1>3, <2>1 DEF GateStopCase, IsStop
  <2>3. s.issue = Issue("graph_checkpoint_authority_promotion", "refused")
    BY <1>3, <2>1, <2>2 DEF FirstStopCase, IsStop
  <2> QED BY <2>1, <2>3
<1>4. ASSUME NEW kind \in KindSets.generated_projection, NEW promotion
      PROVE  ClassificationIssues(kind, promotion) \subseteq {Issue("generated_output_authority_promotion", "refused")}
  <2>1. {x \in DOMAIN KindSets : kind \in KindSets[x]} = {"generated_projection"}
    BY DEF KindSets
  <2>2. AuthorityClass(kind, promotion) = "generated_projection"
    BY <2>1 DEF AuthorityClass
  <2>3. PromotionIssue("generated_projection") = Issue("generated_output_authority_promotion", "refused")
    BY DEF PromotionIssue
  <2> QED BY <2>2, <2>3 DEF ClassificationIssues
<1>5. ASSUME NEW kind \in KindSets.graph_checkpoint, NEW promotion
      PROVE  ClassificationIssues(kind, promotion) \subseteq {Issue("graph_checkpoint_authority_promotion", "refused")}
  <2>1. {x \in DOMAIN KindSets : kind \in KindSets[x]} = {"graph_checkpoint"}
    BY DEF KindSets
  <2>2. AuthorityClass(kind, promotion) = "graph_checkpoint"
    BY <2>1 DEF AuthorityClass
  <2>3. PromotionIssue("graph_checkpoint") = Issue("graph_checkpoint_authority_promotion", "refused")
    BY DEF PromotionIssue
  <2> QED BY <2>2, <2>3 DEF ClassificationIssues
<1> QED BY <1>2, <1>3, <1>4, <1>5

LEMMA RecordsFit == ManagerInv => RecordsAgree
  BY ManagerTypes, RefusalsMatch, HandoffsFit, PromotionsAlike DEF RecordsAgree

-----------------------------------------------------------------------------
(* The theorems.                                                           *)

\* A packet that packet_is_claimable lets through has nothing against it but
\* faults of its identity: none of the eleven tests of _first_stop_projection
\* and none of the gates after them (recompute_manager_readiness) hides that
\* its cycle is not reviewed, fresh, proved, routed and uncontested.
THEOREM ClaimableCorrect == Spec => []ClaimableHasNothingOpen
<1> QED BY ManagerInvariant, ClaimableHasNothing, PTL

\* However many facts turn up between two cycles, work that was interrupted or
\* refused is not claimable before one of the facts changed that it was
\* interrupted for.
THEOREM InterruptHoldsCorrect == Spec => []InterruptHoldsUntilResolved
<1> QED BY ManagerInvariant, InterruptHolds, PTL

\* The refusals, the faults, the handoff and the classification of authority
\* that are made of one readiness agree with it and with the packet of its
\* cycle (faults.py, handoffs.py and authority.py against readiness.py), with
\* one exception: what interrupts as stale input is handed off as context only,
\* or as blocked.
THEOREM RecordsCorrect == Spec => []RecordsAgree
<1> QED BY ManagerInvariant, RecordsFit, PTL
=============================================================================
