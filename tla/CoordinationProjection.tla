------------------------ MODULE CoordinationProjection ------------------------
(***************************************************************************)
(* What coordination/ projects of a claim: the work boundary with the      *)
(* evidence to stop that a caller gathered, the mailbox it was told about  *)
(* by, the review of conflicts, and which actions are classified as        *)
(* allowed on the projection.                                              *)
(*                                                                         *)
(* A ref set of the code is present or absent here; evidence is the set of *)
(* the kinds of ref sets that are not empty.  A projection is a frozen     *)
(* record, kept while claims and verdicts go on changing.                  *)
(***************************************************************************)
EXTENDS CoordinationClaims

CONSTANTS Times,          \* clock values of mailboxes and read cursors
          Circumstances,  \* what a caller may project from
          SupportedSets,  \* the supported_action_route_sets of action packets
          ActionKinds     \* the actions that are asked for, of any name

ASSUME TimesAssumption == Times \subseteq Nat

-----------------------------------------------------------------------------
(* Mailboxes.                                                              *)


\* mailbox_last_modified_ms and read_cursor_ms are optional: a set of at most
\* one time.
Optional == {{}} \cup {{t} : t \in Times}
Mailbox == [missing_message_hash: BOOLEAN, last_modified: Optional, read_cursor: Optional]

\* mailbox_last_modified_ms > read_cursor_ms
\* Mutant: compared in seconds, a notice right after the cursor is not seen.
NoticeLongAfterCursor(m, c) == m > c + 1
NoticeAfterCursor(m, c) == m > c

\* classify_mailbox_freshness
MailboxFreshness(mailbox) ==
    FirstOf(<< <<mailbox.missing_message_hash, "stale">>,
               <<mailbox.last_modified = {} \/ mailbox.read_cursor = {}, "unknown">>,
               <<\E m \in mailbox.last_modified, c \in mailbox.read_cursor : NoticeAfterCursor(m, c),
                 "pending_review">> >>, "fresh")

\* The fields of MailboxCarrierEnvelope that its validation reads.
MailboxCarrierEnvelope ==
    [has_required_fields: BOOLEAN, has_authority_notice: BOOLEAN, attempted_effect_set: SUBSET STRING,
     mailbox_io_requested: BOOLEAN, promoted: BOOLEAN]

\* The effect sets of mailbox.py, which are other lists than those of claims.py.
ClaimTransitionEffects ==
    {"directly_activate_claim", "activate_claim", "release_claim", "supersede_claim",
     "accept_completion", "completion_acceptance", "claim_state_transition"}
MailboxIoEffects ==
    {"mailbox_file_read", "mailbox_file_write", "mailbox_file_create", "read_cursor_persist",
     "watch_mailbox_directory", "platform_mailbox_mutation"}
DispatchEffects == {"assign_agent", "agent_dispatch", "dispatch_work"}
LiveControlEffects ==
    {"operations_control", "live_machine_control", "process_control", "gpu_control",
     "model_runtime_control"}

\* validate_mailbox_carrier_envelope; promoted: it claims to be authority, or
\* has another status than carrier_context_only.
\* Mutant: a notice may bring what changes the state of a claim.
CarrierIssuesExceptTransitions(c) ==
         When(~c.has_required_fields \/ ~c.has_authority_notice, "missing_field", "fault")
    \cup When(~c.has_authority_notice, "missing_authority_notice", "fault")
    \cup When(c.promoted, "carrier_authority_promotion", "fault")
    \cup When(c.mailbox_io_requested \/ c.attempted_effect_set \cap MailboxIoEffects # {},
              "mailbox_io_requested", "refused")
    \cup When(c.attempted_effect_set \cap DispatchEffects # {}, "agent_dispatch_requested", "refused")
    \cup When(c.attempted_effect_set \cap LiveControlEffects # {}, "live_machine_control_requested", "refused")
MailboxCarrierIssues(c) ==
         When(~c.has_required_fields \/ ~c.has_authority_notice, "missing_field", "fault")
    \cup When(~c.has_authority_notice, "missing_authority_notice", "fault")
    \cup When(c.promoted, "carrier_authority_promotion", "fault")
    \cup When(c.mailbox_io_requested \/ c.attempted_effect_set \cap MailboxIoEffects # {},
              "mailbox_io_requested", "refused")
    \cup When(c.attempted_effect_set \cap ClaimTransitionEffects # {}, "claim_transition_requested", "refused")
    \cup When(c.attempted_effect_set \cap DispatchEffects # {}, "agent_dispatch_requested", "refused")
    \cup When(c.attempted_effect_set \cap LiveControlEffects # {}, "live_machine_control_requested", "refused")

-----------------------------------------------------------------------------
(* Work boundaries.                                                        *)

ClaimFreshnessState == {"fresh", "stale", "unknown", "contested", "interrupted",
                        "blocked", "faulted", "pending_review"}
WorkBoundaryStatus == {"dependency_closed", "compatible_parallel", "blocked", "stale",
                       "contested", "interrupted", "faulted", "pending_review", "refused"}
EvidenceKinds == {"blocker", "stale_trigger", "contested_claim", "ambiguous_identity",
                  "pending_review", "fault", "refusal_reason"}

\* What a projection is made from: the evidence the caller gathered, the
\* mailbox, whether it computes the status, and what is wrong with the record.
Flaws == {"none", "no_notice", "generated", "mutation"}
Circumstance == [evidence: SUBSET EvidenceKinds, mailbox: Mailbox, computed: BOOLEAN, flaw: Flaws]

ASSUME CircumstancesAssumption == Circumstances \subseteq Circumstance

\* boundary_status_for_claim_evidence
\* Mutant: staleness is looked at after refusals.
StatusRefusalFirst(evidence) ==
    FirstOf(<< <<"fault" \in evidence, "faulted">>, <<"ambiguous_identity" \in evidence, "interrupted">>,
               <<"refusal_reason" \in evidence, "refused">>, <<"stale_trigger" \in evidence, "stale">>,
               <<"blocker" \in evidence, "blocked">>, <<"contested_claim" \in evidence, "contested">>,
               <<"pending_review" \in evidence, "pending_review">> >>, "dependency_closed")
BoundaryStatus(evidence) ==
    FirstOf(<< <<"fault" \in evidence, "faulted">>, <<"ambiguous_identity" \in evidence, "interrupted">>,
               <<"stale_trigger" \in evidence, "stale">>, <<"refusal_reason" \in evidence, "refused">>,
               <<"blocker" \in evidence, "blocked">>, <<"contested_claim" \in evidence, "contested">>,
               <<"pending_review" \in evidence, "pending_review">> >>, "dependency_closed")

\* _severity_for_boundary
SeverityForBoundary(evidence) ==
    FirstOf(<< <<"fault" \in evidence, "fault">>, <<"ambiguous_identity" \in evidence, "interrupt">>,
               <<"stale_trigger" \in evidence, "stale">>, <<"refusal_reason" \in evidence, "refused">> >>,
            "blocked")

\* _severity_for_freshness
SeverityForFreshness(freshness) ==
    FirstOf(<< <<freshness = "faulted", "fault">>, <<freshness = "interrupted", "interrupt">>,
               <<freshness = "stale", "stale">> >>, "blocked")

\* _required_routes_for_issues
RoutesForIssue == [hidden_scope_expansion |-> {"fault_review", "packet_rebake"},
                   ambiguous_identity     |-> {"identity_clarification", "human_override"},
                   stale_claim            |-> {"refresh_claim", "release_claim", "supersede_claim", "rebake"},
                   contested_claim        |-> {"coordination_conflict_signal", "SOP_first_interrupt",
                                               "completion_review"},
                   pending_human_override |-> {"human_override_review", "completion_review"}]
CoordinationRoutes == UNION {RoutesForIssue[kind] : kind \in DOMAIN RoutesForIssue}

\* The fields of WorkBoundaryProjectionEnvelope that functions read; ref sets
\* that are only tested for presence are evidence or a Boolean.
WorkBoundaryProjectionEnvelope ==
    [claim_ref: Agents, evidence: SUBSET EvidenceKinds, freshness_state: ClaimFreshnessState,
     boundary_status: WorkBoundaryStatus, compatibility_relation: ClaimCompatibilityRelation,
     required_route_set: SUBSET CoordinationRoutes, has_authority_basis: BOOLEAN, has_authority_notice: BOOLEAN,
     generated_projection_claimed_as_authority: BOOLEAN,
     source_authority_mutation_requested: BOOLEAN, mailbox: Mailbox]

\* validate_work_boundary_projection_envelope
ClosedWithEvidence(b) == b.boundary_status = "dependency_closed" /\ b.evidence # {}
ClosedUnfresh(b) == b.boundary_status = "dependency_closed" /\ b.freshness_state # "fresh"
WorkBoundaryIssues(b) ==
         When(~b.has_authority_basis, "missing_authority_basis", "fault")
    \cup When(~b.has_authority_notice, "missing_field", "fault")
    \cup When(~b.has_authority_notice, "missing_authority_notice", "fault")
    \cup When(ClosedWithEvidence(b), "ready_with_stop_evidence", SeverityForBoundary(b.evidence))
    \cup When(ClosedUnfresh(b), "ready_with_unfresh_state", SeverityForFreshness(b.freshness_state))
    \cup When(b.generated_projection_claimed_as_authority, "generated_authority", "fault")
    \cup When(b.source_authority_mutation_requested, "source_authority_mutation_requested", "refused")
    \cup ForbiddenPermittedActionIssues(b.required_route_set)

-----------------------------------------------------------------------------
(* Reviews.                                                                *)

ConflictKinds == {"hidden_scope_expansion", "ambiguous_identity", "stale_claim",
                  "contested_claim", "pending_human_override"}

\* review_coordination_conflict, for the kinds of refs its context holds
ConflictIssues(context) ==
         When("hidden_scope_expansion" \in context, "hidden_scope_expansion", "fault")
    \cup When("ambiguous_identity" \in context, "ambiguous_identity", "interrupt")
    \cup When("stale_claim" \in context, "stale_claim", "stale")
    \cup When("contested_claim" \in context, "contested_claim", "blocked")
    \cup When("pending_human_override" \in context, "pending_human_override", "blocked")

\* _decision_for_issues
ReviewDecision(issues) ==
    BySeverity(issues, << <<"fault", "rebake">>, <<"interrupt", "interrupt">>, <<"stale", "refresh">>,
                          <<"refused", "refuse">>, <<"blocked", "block">> >>, "proceed")

RequiredRoutes(issues) == UNION {RoutesForIssue[kind] : kind \in KindsOf(issues)}

-----------------------------------------------------------------------------
(* Actions on a projection.                                                *)

LowAuthorityActions == {"observe", "comment", "propose"}
ResolutionActions == {"request_review", "request_rebake", "request_human_override",
                      "request_completion_review"}
AuthoritySensitiveActions ==
    {"create_fixture_source", "create_expected_ledger", "request_claim", "release_claim",
     "supersede_claim", "refresh_claim"} \cup ResolutionActions

\* The packet that presents an action on a boundary to the classifier, as
\* CoordinationActionPacket lays out: what stops the boundary is its stop
\* state, an ambiguous identity its interrupt context.
Packet(b, kind, supported) ==
    [action_kind |-> kind, has_authority_notice |-> b.has_authority_notice,
     freshness_state |-> b.freshness_state, supported_action_route_set |-> supported,
     required_route_set |-> b.required_route_set,
     stop_state |-> b.evidence \ {"ambiguous_identity"},
     interrupt_context |-> b.evidence \cap {"ambiguous_identity"}]

\* _is_stopped_or_stale
\* Mutant: an interrupt context does not stop an action.
StoppedByEvidence(packet) == packet.stop_state # {} \/ packet.freshness_state # "fresh"
IsStoppedOrStale(packet) ==
    packet.stop_state # {} \/ packet.interrupt_context # {} \/ packet.freshness_state # "fresh"

\* _stopped_or_stale_severity
StoppedOrStaleSeverity(packet) ==
    IF packet.interrupt_context # {} \/ packet.freshness_state = "interrupted" THEN "interrupt" ELSE "blocked"

\* _is_unsupported_authority_sensitive_action
IsUnsupported(packet) ==
    /\ packet.action_kind \in AuthoritySensitiveActions
    /\ packet.action_kind \notin packet.supported_action_route_set \cup packet.required_route_set

\* classify_coordination_action; the flags of a packet repeat what its kind
\* says and are left FALSE.
ActionIssues(packet) ==
         When(packet.action_kind = NoValue, "missing_action", "blocked")
    \cup When(~packet.has_authority_notice, "missing_authority_notice", "refused")
    \cup When(packet.action_kind \in DirectSourceMutationActions, "direct_mutation_requested", "refused")
    \cup When(packet.action_kind \in MailboxIoActions, "mailbox_io_requested", "refused")
    \cup When(packet.action_kind \in DispatchActions, "agent_dispatch_requested", "refused")
    \cup When(packet.action_kind \in LiveControlActions, "live_control_requested", "refused")
    \cup When(IsStoppedOrStale(packet) /\ packet.action_kind \notin ResolutionActions,
              "stopped_or_stale_projection", StoppedOrStaleSeverity(packet))
    \cup When(IsUnsupported(packet), "unsupported_action_route", "blocked")

\* _decision_status_for_issues
ActionDecision(packet) ==
    BySeverity(ActionIssues(packet),
               << <<"refused", "refused">>, <<"interrupt", "interrupt">>, <<"blocked", "blocked">> >>,
               IF packet.has_authority_notice THEN "allowed" ELSE "refused")

\* _allowed_route_set
AllowedRoutes(packet) ==
    IF /\ ActionDecision(packet) = "allowed"
       /\ packet.action_kind \in LowAuthorityActions \cup packet.supported_action_route_set
                                     \cup packet.required_route_set
    THEN {packet.action_kind} ELSE {}

-----------------------------------------------------------------------------
(* The projection.                                                         *)

VARIABLE boundary   \* the latest projection, with the mailbox it was made from

vars == <<claims, verdicts, working, boundary>>

NoBoundary == [claim_ref |-> NoRef]

Init == ClaimsInit /\ boundary = NoBoundary

\* The conflict context of the same evidence: the fixtures call a hidden scope
\* expansion faulted and a pending override pending review.
ContextOf(evidence) ==
         {k \in {"ambiguous_identity", "contested_claim"} : k \in evidence}
    \cup (IF "fault" \in evidence THEN {"hidden_scope_expansion"} ELSE {})
    \cup (IF "stale_trigger" \in evidence THEN {"stale_claim"} ELSE {})
    \cup (IF "pending_review" \in evidence THEN {"pending_human_override"} ELSE {})

\* A caller projects the boundary of a's claim after a comparison with b's.
\* The status is computed from the evidence, or declared closed without it.
Project(a, b, from) ==
    /\ boundary = NoBoundary
    /\ verdicts[a][b] # NoVerdict
    /\ boundary' = [claim_ref |-> a, evidence |-> from.evidence,
                    freshness_state |-> MailboxFreshness(from.mailbox),
                    boundary_status |-> IF from.computed THEN BoundaryStatus(from.evidence)
                                                         ELSE "dependency_closed",
                    compatibility_relation |-> verdicts[a][b].relation,
                    required_route_set |-> RequiredRoutes(ConflictIssues(ContextOf(from.evidence))),
                    has_authority_basis |-> claims[a].has_authority_basis,
                    has_authority_notice |-> from.flaw # "no_notice",
                    generated_projection_claimed_as_authority |-> from.flaw = "generated",
                    source_authority_mutation_requested |-> from.flaw = "mutation",
                    mailbox |-> from.mailbox]
    /\ UNCHANGED claimVars

\* The caller is done with the projection, and may make another one.
Discard == /\ boundary # NoBoundary
           /\ boundary' = NoBoundary
           /\ UNCHANGED claimVars

Next == \/ ClaimsNext /\ UNCHANGED boundary
        \/ \E a, b \in Agents, from \in Circumstances : Project(a, b, from)
        \/ Discard

Spec == Init /\ [][Next]_vars

-----------------------------------------------------------------------------
(* Properties.                                                             *)

TypeOK == /\ ClaimsTypeOK
          /\ boundary = NoBoundary \/ boundary \in WorkBoundaryProjectionEnvelope

Projected == boundary # NoBoundary
AcceptedClosed == /\ Projected
                  /\ boundary.boundary_status = "dependency_closed"
                  /\ WorkBoundaryIssues(boundary) = {}

\* A boundary that validate_work_boundary_projection_envelope accepts as closed
\* has nothing that should stop it, and the mailbox it was projected from was
\* read: it had a hash, and the cursor is not before its last notice.
ClosedMeansReadAndClear ==
    AcceptedClosed =>
        /\ boundary.evidence = {}
        /\ ~boundary.mailbox.missing_message_hash
        /\ \E m \in boundary.mailbox.last_modified, c \in boundary.mailbox.read_cursor : m <= c

\* A boundary whose status was computed from its evidence by
\* boundary_status_for_claim_evidence is never faulted for stop evidence, and
\* if it is declared closed all the same, the severity of the issue is that of
\* the status it should have had: two cascades in claims.py agree.
StatusSeverity == [faulted |-> "fault", interrupted |-> "interrupt", stale |-> "stale", refused |-> "refused",
                   blocked |-> "blocked", contested |-> "blocked", pending_review |-> "blocked"]
SeverityFitsStatus ==
    Projected =>
        /\ HasKind(WorkBoundaryIssues(boundary), "ready_with_stop_evidence")
               => /\ BoundaryStatus(boundary.evidence) # boundary.boundary_status
                  /\ Issue("ready_with_stop_evidence", StatusSeverity[BoundaryStatus(boundary.evidence)])
                         \in WorkBoundaryIssues(boundary)
        /\ boundary.boundary_status = "dependency_closed" /\ boundary.evidence # {}
               => WorkBoundaryIssues(boundary) # {}

\* review_coordination_conflict decides of the evidence of a boundary what its
\* status says, unless refusals or blockers, which reviews do not see, decide it.
DecisionOfStatus == [dependency_closed |-> "proceed", faulted |-> "rebake", interrupted |-> "interrupt",
                     stale |-> "refresh", contested |-> "block", pending_review |-> "block"]
ReviewFollowsStatus ==
    Projected =>
        LET status == BoundaryStatus(boundary.evidence)
        IN  status \in {"refused", "blocked"}
            \/ ReviewDecision(ConflictIssues(ContextOf(boundary.evidence))) = DecisionOfStatus[status]

\* What no action on a boundary may do.
ForbiddenActions == DirectSourceMutationActions \cup MailboxIoActions \cup DispatchActions
                        \cup LiveControlActions

\* The contracts name these as ways out of a stale claim, and the classifier
\* closes them on every stop: the property says nothing of them.
ClaimRemedies == {"refresh_claim", "release_claim", "supersede_claim"}

\* Whatever stops a boundary with a notice, every request for a review that
\* the caller supports is allowed on it, and of the other actions none passes
\* the stop by, the remedies of a stale claim left aside: the stop is no dead
\* end and no other way leads around it (classify_coordination_action).
StopsLeadToReviews ==
    Projected /\ boundary.has_authority_notice =>
        \A supported \in SupportedSets, kind \in ActionKinds :
            LET stopped == boundary.evidence # {} \/ boundary.freshness_state # "fresh"
                allowed == ActionDecision(Packet(boundary, kind, supported)) = "allowed"
            IN  /\ kind \in ResolutionActions \cap supported => allowed
                /\ stopped /\ allowed => kind \in (ResolutionActions \cap supported) \cup ClaimRemedies
                /\ allowed => kind \notin ForbiddenActions \cup {NoValue}

\* An agent that works was accepted by validate_claim_identity_envelope, and
\* no action that its claim permits is one that classify_coordination_action
\* refuses: the two modules refuse the same actions.
PermittedIsNotRefused ==
    \A a \in working : \A kind \in claims[a].permitted_action_set :
        Projected /\ boundary.has_authority_notice =>
            ActionDecision(Packet(boundary, kind, {})) # "refused"

\* Mailbox and action routes close each other's gaps.  Of what an agent's
\* claim permits, a notice is refused as IO or as live control exactly where
\* the claim is, and as dispatch only where the claim is (mailbox.py does not
\* know start_agent and direct_agent_dispatch).  And what a notice is accepted
\* with and the classifier allows on the boundary is nothing that acts
\* directly or changes the state of a claim: the names that one of the two
\* lists lacks (start_agent; release_claim) are stopped by the other.
Notice(effects) == [has_required_fields |-> TRUE, has_authority_notice |-> TRUE, promoted |-> FALSE,
                    mailbox_io_requested |-> FALSE, attempted_effect_set |-> effects]
CarriersRefuseWithClaims ==
    \A a \in Published :
        LET ofClaim   == KindsOf(ForbiddenPermittedActionIssues(claims[a].permitted_action_set))
            ofCarrier == KindsOf(MailboxCarrierIssues(Notice(claims[a].permitted_action_set)))
        IN  /\ \A kind \in {"mailbox_io_requested", "live_machine_control_requested"} :
                 kind \in ofCarrier <=> kind \in ofClaim
            /\ "agent_dispatch_requested" \in ofCarrier => "agent_dispatch_requested" \in ofClaim
CarriersBringNoRights ==
    /\ CarriersRefuseWithClaims
    /\ Projected => \A supported \in SupportedSets, kind \in ActionKinds :
         /\ MailboxCarrierIssues(Notice({kind})) = {}
         /\ ActionDecision(Packet(boundary, kind, supported)) = "allowed"
         => kind \notin ForbiddenActions \cup ClaimTransitionEffects

\* The cascades that read the evidence of one boundary agree: the severity of
\* its validation and the decision of its review are those of its status.
CascadesAgree == TypeOK /\ SeverityFitsStatus /\ ReviewFollowsStatus

\* The lists of actions in claims.py, mailbox.py and action_routes.py work
\* together: what a claim may permit is not refused, and a carrier brings
\* nothing past both of the other lists.
ListsAgree == PermittedIsNotRefused /\ CarriersBringNoRights

=============================================================================
