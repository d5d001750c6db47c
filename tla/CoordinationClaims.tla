-------------------------- MODULE CoordinationClaims --------------------------
(***************************************************************************)
(* Claims on shared work: coordination/claims.py, called by several agents *)
(* at once.                                                                *)
(*                                                                         *)
(* An agent publishes a claim, compares it with every published claim, and *)
(* starts to work if it is valid and compatible with all of them.  The     *)
(* comparison classify_claim_compatibility is the only thing that keeps    *)
(* two agents from writing the same subject: nothing is locked, and what   *)
(* an agent found out about a claim may be stale when it starts.  In which *)
(* order the agents do this, and when, is up to them.                      *)
(***************************************************************************)
EXTENDS Issues

CONSTANTS Agents,      \* who claims work
          Refs,        \* identifiers and references
          Subjects,    \* the subjects of work, which claims take as scopes
          NoRef,       \* a missing reference, the empty string of the code
          Submissions  \* the claims that each agent may publish

-----------------------------------------------------------------------------
(* Claims and their validation.                                            *)

DirectSourceMutationActions ==
    {"direct_source_authority_write", "direct_source_write", "source_authority_mutation",
     "source_mutation", "direct_completion_acceptance", "completion_acceptance",
     "direct_claim_acceptance", "claim_state_transition"}
MailboxIoActions ==
    {"mailbox_file_read", "mailbox_file_write", "mailbox_file_create",
     "platform_mailbox_mutation", "read_cursor_persist", "watch_mailbox_directory"}
DispatchActions ==
    {"agent_dispatch", "direct_agent_dispatch", "assign_agent", "start_agent", "dispatch_work"}
LiveControlActions ==
    {"operations_control", "live_machine_control", "process_control", "gpu_control",
     "model_runtime_control"}

\* missing: which of the string fields that are only tested for presence are
\* empty.  write and read: the scopes the claimant gives when claims are
\* compared.
ClaimIdentityEnvelope ==
    [claim_id: Refs, claimant_ref: Refs \cup {NoRef}, conversation_ref: Refs \cup {NoRef},
     missing: SUBSET {"work_packet_ref", "authority_notice_ref", "trust_limit"},
     scope_subject_ref_set: SUBSET Subjects, has_authority_basis: BOOLEAN,
     permitted_action_set: SUBSET STRING, forbidden_action_set: SUBSET STRING,
     generated_projection_claimed_as_authority: BOOLEAN, identity_collapse_detected: BOOLEAN,
     write: SUBSET Subjects, read: SUBSET Subjects]

ASSUME SubmissionsAssumption == Submissions \in [Agents -> SUBSET ClaimIdentityEnvelope]

\* _forbidden_permitted_action_issues
ForbiddenPermittedActionIssues(actions) ==
         When(actions \cap DirectSourceMutationActions # {}, "source_authority_mutation_requested", "refused")
    \cup When(actions \cap MailboxIoActions # {}, "mailbox_io_requested", "refused")
    \cup When(actions \cap DispatchActions # {}, "agent_dispatch_requested", "refused")
    \cup When(actions \cap LiveControlActions # {}, "live_machine_control_requested", "refused")

\* validate_claim_identity_envelope
ClaimIdentityIssues(claim) ==
         When(claim.missing # {} \/ NoRef \in {claim.claimant_ref, claim.conversation_ref},
              "missing_field", "fault")
    \cup When(~claim.has_authority_basis, "missing_authority_basis", "fault")
    \cup When("authority_notice_ref" \in claim.missing, "missing_authority_notice", "fault")
    \cup When(claim.forbidden_action_set = {}, "missing_forbidden_action_set", "blocked")
    \cup When(claim.identity_collapse_detected \/ claim.claimant_ref = claim.conversation_ref,
              "identity_collapse", "interrupt")
    \cup When(claim.generated_projection_claimed_as_authority, "generated_authority", "fault")
    \cup ForbiddenPermittedActionIssues(claim.permitted_action_set)

-----------------------------------------------------------------------------
(* The comparison of two claims.                                           *)

ClaimCompatibilityRelation == {"same_claim", "non_overlapping_write_scope", "read_only_overlap",
                               "overlapping_write_scope", "identical_write_scope",
                               "ambiguous_scope_relation"}
CompatibleRelations == {"same_claim", "read_only_overlap", "non_overlapping_write_scope"}

\* An empty write scope is replaced by the whole scope of the claim.
WriteScope(claim) == IF claim.write # {} THEN claim.write ELSE claim.scope_subject_ref_set

\* Mutant: only the write scope of the first claim is held against reads.
OneSidedReadOverlap(a, b) == WriteScope(a) \cap b.read # {}
ReadOverlap(a, b) == WriteScope(a) \cap b.read # {} \/ WriteScope(b) \cap a.read # {}

\* classify_claim_compatibility
\* Mutant: only identical write scopes are incompatible.
CompatibilityUnlessIdentical(a, b) ==
    IF a.claim_id = b.claim_id THEN "same_claim"
    ELSE IF WriteScope(a) = {} \/ WriteScope(b) = {} THEN "ambiguous_scope_relation"
    ELSE IF WriteScope(a) = WriteScope(b) THEN "identical_write_scope"
    ELSE IF ReadOverlap(a, b) THEN "read_only_overlap"
    ELSE "non_overlapping_write_scope"
Compatibility(a, b) ==
    IF a.claim_id = b.claim_id THEN "same_claim"
    ELSE IF WriteScope(a) = {} \/ WriteScope(b) = {} THEN "ambiguous_scope_relation"
    ELSE IF WriteScope(a) = WriteScope(b) THEN "identical_write_scope"
    ELSE IF WriteScope(a) \cap WriteScope(b) # {} THEN "overlapping_write_scope"
    ELSE IF ReadOverlap(a, b) THEN "read_only_overlap"
    ELSE "non_overlapping_write_scope"

-----------------------------------------------------------------------------
(* The agents.                                                             *)

VARIABLES claims,    \* the published claim of each agent
          verdicts,  \* what each agent found of each other agent's claim
          working    \* the agents that started to work

claimVars == <<claims, verdicts, working>>

NoClaim == [claim_id |-> NoRef]
NoVerdict == [relation |-> "none"]

Published == {a \in Agents : claims[a] # NoClaim}

\* The relation, with the claims that it is a comparison of.
Verdict(a, b) == [relation |-> Compatibility(claims[a], claims[b]),
                  mine |-> claims[a], theirs |-> claims[b]]
Compatible(verdict) == verdict # NoVerdict /\ verdict.relation \in CompatibleRelations

ClaimsInit == /\ claims = [a \in Agents |-> NoClaim]
              /\ verdicts = [a \in Agents |-> [b \in Agents |-> NoVerdict]]
              /\ working = {}

Publish(a, claim) ==
    /\ a \notin Published
    /\ claims' = [claims EXCEPT ![a] = claim]
    /\ UNCHANGED <<verdicts, working>>

\* a compares its claim with b's, which may be released or replaced later.
Compare(a, b) ==
    /\ a # b
    /\ {a, b} \subseteq Published
    /\ a \notin working
    /\ verdicts' = [verdicts EXCEPT ![a][b] = Verdict(a, b)]
    /\ UNCHANGED <<claims, working>>

\* a has looked at every other claim that is published now.
Start(a) ==
    /\ a \in Published \ working
    /\ ClaimIdentityIssues(claims[a]) = {}
    /\ \A b \in Published \ {a} : Compatible(verdicts[a][b])
    /\ working' = working \cup {a}
    /\ UNCHANGED <<claims, verdicts>>

\* a gives its claim up, working or not, and forgets what it found.  What
\* the others found of it stays.
Release(a) ==
    /\ a \in Published
    /\ claims' = [claims EXCEPT ![a] = NoClaim]
    /\ verdicts' = [verdicts EXCEPT ![a] = [b \in Agents |-> NoVerdict]]
    /\ working' = working \ {a}

ClaimsNext == \E a \in Agents :
    \/ \E claim \in Submissions[a] : Publish(a, claim)
    \/ \E b \in Agents : Compare(a, b)
    \/ Start(a)
    \/ Release(a)

-----------------------------------------------------------------------------
(* Properties.                                                             *)

ClaimsTypeOK ==
    /\ claims \in [Agents -> (UNION {Submissions[a] : a \in Agents}) \cup {NoClaim}]
    /\ working \subseteq Published
    /\ \A a, b \in Agents : verdicts[a][b] # NoVerdict =>
           /\ verdicts[a][b].relation \in ClaimCompatibilityRelation
           /\ verdicts[a][b].mine = claims[a]

\* Two agents that work write no subject in common, unless they hold the same
\* claim: the comparison in classify_claim_compatibility is enough, even if
\* an agent starts on a verdict about a claim that was replaced meanwhile.
WorkersDoNotCollide ==
    \A a, b \in working : \/ a = b
                          \/ claims[a].claim_id = claims[b].claim_id
                          \/ WriteScope(claims[a]) \cap WriteScope(claims[b]) = {}

\* Two agents that compared the same two claims, each from its side, came to
\* the same relation (classify_claim_compatibility does not depend on the
\* order of its arguments).
VerdictsAgree ==
    \A a, b \in Agents :
        LET mine == verdicts[a][b]  theirs == verdicts[b][a]
        IN  (mine # NoVerdict /\ theirs # NoVerdict /\ mine.theirs = theirs.mine
                 /\ theirs.theirs = mine.mine)
            => mine.relation = theirs.relation
=============================================================================
