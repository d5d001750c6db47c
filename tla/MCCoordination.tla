---------------------------- MODULE MCCoordination ----------------------------
(* Two agents on two subjects.  Each may publish a claim on everything, on one *)
(* subject with or without reading the other one, one without any scope, or    *)
(* one that does not validate; the claims named "shared" are the same claim.   *)
EXTENDS CoordinationProjection

MCRefs == {"alice", "bob", "shared", "talk"}

Claim(id, scope, write, read) ==
    [claim_id |-> id, claimant_ref |-> id, conversation_ref |-> "talk", missing |-> {},
     scope_subject_ref_set |-> scope, has_authority_basis |-> TRUE,
     permitted_action_set |-> {"observe"}, forbidden_action_set |-> {"source_mutation"},
     generated_projection_claimed_as_authority |-> FALSE, identity_collapse_detected |-> FALSE,
     write |-> write, read |-> read]

MCSubmissions ==
    [alice |-> {Claim("alice", {"code", "docs"}, {}, {}), Claim("alice", {"code", "docs"}, {"code"}, {"docs"}),
                Claim("shared", {"code"}, {}, {})},
     bob   |-> {Claim("bob", {"code", "docs"}, {"docs"}, {}),
                Claim("bob", {}, {}, {"code"}), Claim("shared", {"code"}, {}, {}),
                [Claim("bob", {"docs"}, {}, {}) EXCEPT
                    !.permitted_action_set = {"gpu_control", "start_agent", "assign_agent", "mailbox_file_read"}]}]

\* Every set of at most two kinds of evidence, which is enough to tell any
\* order of a cascade from any other; or one kind, with another mailbox or flaw.
Pairs == {e \in SUBSET EvidenceKinds : Cardinality(e) <= 2}
Singles == {e \in Pairs : Cardinality(e) <= 1}
ReadMailbox == [missing_message_hash |-> FALSE, last_modified |-> {1}, read_cursor |-> {1}]
Mailboxes == {ReadMailbox, [ReadMailbox EXCEPT !.missing_message_hash = TRUE],
              [ReadMailbox EXCEPT !.last_modified = {}], [ReadMailbox EXCEPT !.read_cursor = {}],
              [ReadMailbox EXCEPT !.read_cursor = {0}], [ReadMailbox EXCEPT !.last_modified = {0}]}
From(evidences, mailboxes, computed, flaws) ==
    [evidence: evidences, mailbox: mailboxes, computed: computed, flaw: flaws]
MCCircumstances == From(Pairs, {ReadMailbox}, {FALSE}, {"none"})
                       \cup From({{}, {"stale_trigger"}}, Mailboxes, {FALSE}, {"none"})
                       \cup From(Singles, {ReadMailbox}, {TRUE}, {"none"})
                       \cup From({{}}, {ReadMailbox}, {TRUE}, Flaws)
MCSupportedSets == {ResolutionActions, {"refresh_claim", "release_claim", "request_review"}}

\* Each kind of action that the classifier tells apart, those that only one of
\* the lists names, and two that neither knows.
MCActionKinds ==
    {"observe", "request_claim", "refresh_claim", "release_claim",
     "request_review", "completion_acceptance", "source_mutation",
     "mailbox_file_write", "assign_agent", "start_agent", "gpu_control",
     "activate_claim", "unlisted_action", NoValue}
=============================================================================
