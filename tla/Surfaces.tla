------------------------------- MODULE Surfaces -------------------------------
(***************************************************************************)
(* A surface that shows one subject.  The packet that is projected grows   *)
(* as evidence about the subject turns up; a projector takes from it what  *)
(* it takes, and what is shown stays until something else is shown.  Other *)
(* callers make the two envelopes by themselves: the state from the        *)
(* evidence of the packet, the display from parts of their own.  Only the  *)
(* envelope that was made last is looked at.                               *)
(***************************************************************************)
EXTENDS SurfaceProjectors

CONSTANTS Learnable,     \* what may turn up: fields of the packet
          MaxLearned,    \* how often something does
          Requests,      \* the actions that users ask for
          Displays       \* the displays that callers make by themselves

ASSUME SurfacesAssumption == MaxLearned \in Nat

VARIABLES packet,   \* the input packet, as far as it is known
          learned,  \* how much of it turned up
          shown,    \* the record on display, with its projector, at most one
          state,    \* the state envelope that a caller made, at most one
          display   \* the display envelope that a caller made, at most one

vars == <<packet, learned, shown, state, display>>

Init == packet = << >> /\ learned = 0 /\ shown = {} /\ state = {} /\ display = {}

Learn(change) == /\ learned < MaxLearned
                 /\ packet' = Merged(change, packet)
                 /\ packet' # packet
                 /\ learned' = learned + 1
                 /\ UNCHANGED <<shown, state, display>>

\* The project_* functions, with the action that the user asked for, if any.
Project(name, action) ==
    /\ shown' = {Merged([projector |-> name, packet |-> packet],
                        SurfaceProjection(Projectors[name], Merged([requested_action |-> action], packet)))}
    /\ state' = {} /\ display' = {}
    /\ UNCHANGED <<packet, learned>>

\* projected_status_for_evidence and projection_state_envelope_from_parts, by a
\* caller that may say ready anyway.
Assemble(freshness, claimsReady) ==
    LET evidence == [field \in StopFields |-> IF field \in DOMAIN packet THEN packet[field] ELSE {}]
    IN  /\ state' = {Merged([projection_id |-> "projection", projected_subject_ref |-> "subject",
                             generated_at |-> "now",
                             source_record_ref_set |-> {"contract"}, lineage_edge_set |-> {"edge"},
                             authority_notice_ref |-> "notice", freshness_state |-> freshness,
                             projected_status |-> IF claimsReady THEN "ready" ELSE StatusForEvidence(evidence),
                             generated_projection_claimed_as_authority |-> FALSE,
                             source_authority_mutation_requested |-> FALSE], evidence)}
        /\ shown' = {} /\ display' = {}
        /\ UNCHANGED <<packet, learned>>

\* authority_display_envelope_from_parts
Announce(parts) == /\ display' = {parts}
                   /\ shown' = {} /\ state' = {}
                   /\ UNCHANGED <<packet, learned>>

Next == \/ \E change \in Learnable : Learn(change)
        \/ \E name \in DOMAIN Projectors, action \in Requests \cup {NoValue} : Project(name, action)
        \/ \E freshness \in FreshnessState, claimsReady \in BOOLEAN : Assemble(freshness, claimsReady)
        \/ \E parts \in Displays : Announce(parts)

Spec == Init /\ [][Next]_vars

-----------------------------------------------------------------------------
(* Properties.                                                             *)

ActionKinds == LOW_AUTHORITY_ACTION_SET \cup AUTHORITY_SENSITIVE_ACTION_SET \cup DIRECT_MUTATION_ACTION_SET
                   \cup LIVE_CONTROL_ACTION_SET \cup {"runtime_execution"}
DecisionOn(r, kind) == ActionDecision(ActionPacket(r.display, r.state, kind, FALSE))

TypeOK ==
    /\ learned \in 0 .. MaxLearned
    /\ \A r \in shown : /\ r.display.authority_tier \in AuthorityTier
                        /\ r.state.projected_status \in ProjectionStatus
                        /\ r.decision \in {"none", "allowed", "blocked", "refused", "interrupt"}
                        /\ shown = {r}
    /\ \A s \in state : s.projected_status \in ProjectionStatus /\ state = {s}

\* The status that evidence gets and the severity with which the same evidence
\* rejects a claim of readiness come from two cascades, which rank evidence
\* alike.  Of invalidations and of contexts only the second knows: an
\* invalidation rejects the claim as stale, unless there is a fault or an
\* interrupt, and a context by itself rejects it as blocked.
SeverityOfStatus == [faulted |-> "fault", interrupted |-> "interrupt", stale |-> "stale", refused |-> "refused",
                     blocked |-> "blocked", contested |-> "blocked", pending_review |-> "blocked", ready |-> "blocked"]
SeverityOfClaim(s) ==
    IF s.invalidation_ref_set # {} /\ StatusForEvidence(s) \notin {"faulted", "interrupted"} THEN "stale"
    ELSE SeverityOfStatus[StatusForEvidence(s)]
StatusFitsSeverity ==
    \A s \in state : s.projected_status = "ready" =>
        IF StatusForEvidence(s) = "ready" /\ s.invalidation_ref_set = {} /\ s.stop_state_context_set = {}
        THEN ~HasKind(StateIssues(s), "ready_with_stop_state")
        ELSE Issue("ready_with_stop_state", SeverityOfClaim(s)) \in StateIssues(s)

\* Evidence of a kind that a projector takes is on its record as the packet has
\* it, and a projector that takes any shows nothing as ready, not even a packet
\* that denies it.  The other projectors take none: whatever stops the packet,
\* they show it as ready.
TakenEvidenceStops ==
    \A r \in shown :
        LET taken == DOMAIN Projectors[r.projector].evidence
        IN  /\ \A field \in taken \cap DOMAIN r.packet : r.state[field] = r.packet[field]
            /\ r.state.projected_status = "ready" <=> taken = {}

\* A record that is ready is fresh and has no evidence against it that its
\* validation has to find.
ReadyRecordsAreClear ==
    \A r \in shown : KindsOf(StateIssues(r.state)) \cap {"ready_with_stop_state", "ready_with_unfresh_state"} = {}

\* On a record that is not ready, no action is allowed but one that resolves
\* what stopped it: the status of projection_state.py and the stop test of
\* action_routes.py agree on what is stopped.
StoppedOffersResolutionOnly ==
    \A r \in shown : r.state.projected_status # "ready" =>
        \A kind \in ActionKinds : DecisionOn(r, kind) = "allowed" => kind \in ResolutionActions

\* An authority-sensitive action is allowed only if the display of the record
\* permits it or requires it.
SensitiveActionsAreDisplayed ==
    \A r \in shown : \A kind \in AUTHORITY_SENSITIVE_ACTION_SET :
        DecisionOn(r, kind) = "allowed" =>
            kind \in r.display.permitted_action_set \cup r.display.required_route_set

\* A packet that asks for a mutation is refused by both envelopes and for every
\* action, and its record is not accepted, however well formed it is.
MutationIsRefusedEverywhere ==
    \A r \in shown : r.display.source_authority_mutation_requested =>
        /\ HasSeverity(DisplayIssues(r.display), "refused")
        /\ HasSeverity(StateIssues(r.state), "refused")
        /\ \A kind \in ActionKinds : DecisionOn(r, kind) = "refused"
        /\ ~IsAccepted(r)

\* What an accepted display permits is decided by the freshness beside it: on a
\* fresh state it is allowed, on another one only if it resolves what stopped
\* it.  Live control, which a display may permit, is refused on every state.
AcceptedDisplayDecides ==
    \A d \in display : DisplayIssues(d) = {} =>
        \A kind \in d.permitted_action_set \ {NoValue}, freshness \in FreshnessState :
            LET s == [supported_action_route_set |-> d.permitted_action_set, freshness_state |-> freshness]
                decision == ActionDecision(ActionPacket(d, Merged(s, NoEvidence), kind, FALSE))
            IN  decision = IF kind \in LIVE_CONTROL_ACTION_SET THEN "refused"
                           ELSE IF freshness = "fresh" \/ kind \in ResolutionActions THEN "allowed"
                           ELSE IF freshness = "interrupted" THEN "interrupt" ELSE "blocked"

\* So a projector's own display permits some actions that are not allowed on its
\* record: those that do not resolve what stopped it.
ShownDisplayDecides ==
    \A r \in shown : DisplayIssues(r.display) = {} =>
        \A kind \in r.display.permitted_action_set \ {NoValue} :
            DecisionOn(r, kind) = "allowed" <=> r.state.projected_status = "ready" \/ kind \in ResolutionActions

\* A projector that takes evidence is never talked out of a stop, one that takes
\* none never shows a stop; and on a record that is stopped, by the status of
\* projection_state.py, action_routes.py allows nothing but a resolution.
StopsAreHeld == TypeOK /\ TakenEvidenceStops /\ ReadyRecordsAreClear /\ StoppedOffersResolutionOnly

\* How display and decision go together: which actions that a display permits
\* are allowed, that no sensitive action is allowed which is not displayed, and
\* that a request for a mutation is refused in all three parts.
DecisionFollowsDisplay == /\ AcceptedDisplayDecides /\ ShownDisplayDecides
                          /\ SensitiveActionsAreDisplayed /\ MutationIsRefusedEverywhere

=============================================================================
