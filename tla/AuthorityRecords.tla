--------------------------- MODULE AuthorityRecords ---------------------------
(***************************************************************************)
(* The pure functions between a parsed SOP document and its validation:    *)
(* _extract_field_map, extract_kernel_record_candidates and                *)
(* _validate_candidate.                                                    *)
(*                                                                         *)
(* A document is abstracted to the fields these functions read.  "absent"  *)
(* is a field the document does not declare.  The statuses, reasons and    *)
(* classifications keep the source's names.                                *)
(***************************************************************************)

\* Values of the expected_record_status field.  The last three stand for the
\* values with no branch of their own: those that start with "blocked", those
\* that contain "stale", and any other.  "parser_fault" and, without its
\* prefix, "blocked_parser_fault" become the reason that marks a parse fault;
\* only the second is blocked by extraction, as any value with that prefix.
ExpectedStatuses ==
    {"absent", "accepted_authority_candidate", "blocked_missing_sjs_signature",
     "blocked_wrong_signature_protocol", "blocked_stale_source_hash",
     "blocked_unresolved_identity", "blocked_broken_lineage",
     "projection_only_not_authority", "source_mutation_refused",
     "source_only_not_authority", "parser_fault_preserved",
     "parser_fault", "blocked_parser_fault", "blocked_unlisted", "stale_unlisted", "unlisted"}

StartsWithBlocked ==
    {"blocked_missing_sjs_signature", "blocked_wrong_signature_protocol",
     "blocked_stale_source_hash", "blocked_unresolved_identity",
     "blocked_broken_lineage", "blocked_parser_fault", "blocked_unlisted"}
ContainsStale == {"blocked_stale_source_hash", "stale_unlisted"}

\* authority_state as the document declares it, or by the role of its path.
AuthorityStates == {"source_only", "signed_sjs_authority_candidate", "other_state"}

Identities == {"fixture_a", "fixture_b"}   \* record_kind and fixture_id
Protocols  == {"absent", "expected_uuid", "other_uuid"}
Signatures == {"absent", "valid", "other"}

Document == [faults: BOOLEAN, expected_record_status: ExpectedStatuses,
             signature_protocol_uuid: Protocols, signature_status: Signatures,
             natural_key_state: {"resolved", "unresolved"},
             authority_state: AuthorityStates, identity: Identities]

-----------------------------------------------------------------------------
(* Extraction.                                                             *)

IsBlocked(doc) ==
    \/ doc.faults
    \/ doc.expected_record_status \in StartsWithBlocked
    \/ doc.expected_record_status \in {"parser_fault_preserved", "source_mutation_refused"}

RecordStatus(doc) == IF IsBlocked(doc) THEN "blocked" ELSE "draft"

\* blocked_or_fault_reason is "parser_fault".
\* Mutant: the reason is taken from the declared status alone.
DeclaresParserFault(doc) ==
    doc.expected_record_status \in {"parser_fault", "blocked_parser_fault"}
HasParserFaultReason(doc) ==
    doc.faults \/ doc.expected_record_status \in {"parser_fault", "blocked_parser_fault"}

FreshnessState(doc) ==
    IF doc.faults THEN "unknown"
    ELSE IF doc.expected_record_status \in ContainsStale THEN "stale" ELSE "current"

\* The candidate that a document yields, but for the identifiers that come
\* from its path and hash.  Every candidate has source refs and lineage edges.
Extract(doc) ==
    [natural_key_state |-> doc.natural_key_state,
     authority_state   |-> doc.authority_state,
     freshness_state   |-> FreshnessState(doc),
     status            |-> RecordStatus(doc),
     parser_fault      |-> HasParserFaultReason(doc),
     payload           |-> doc]

-----------------------------------------------------------------------------
(* Validation.                                                             *)

\* A signature of another protocol, or a document that says it has one.  A
\* signature that names no protocol is not wrong: the code tests a UUID that
\* is there, and "absent" passes.
\* Mutant: the protocol is not compared with the expected one.
DeclaresWrongProtocol(candidate) ==
    candidate.payload.expected_record_status = "blocked_wrong_signature_protocol"
HasWrongProtocol(candidate) ==
    \/ candidate.payload.expected_record_status = "blocked_wrong_signature_protocol"
    \/ candidate.payload.signature_protocol_uuid = "other_uuid"

\* The first condition that holds, in the order of the elif cascade, decides
\* every field of the result.  It is named for the fault it reports.
Branch(candidate) ==
    LET expected == candidate.payload.expected_record_status
    IN  IF candidate.parser_fault THEN "malformed_line"
        ELSE IF expected = "blocked_missing_sjs_signature" THEN "missing_signature"
        ELSE IF HasWrongProtocol(candidate) THEN "wrong_protocol"
        ELSE IF expected = "blocked_stale_source_hash" THEN "stale_source_hash"
        ELSE IF \/ expected = "blocked_unresolved_identity"
                \/ candidate.natural_key_state = "unresolved"
             THEN "unresolved_identity"
        ELSE IF expected = "blocked_broken_lineage" THEN "broken_lineage"
        ELSE IF expected = "projection_only_not_authority" THEN "generated_projection"
        ELSE IF expected = "source_mutation_refused" THEN "source_mutation_forbidden"
        ELSE IF expected = "source_only_not_authority" THEN "unprocessed_source"
        ELSE IF expected = "accepted_authority_candidate" THEN "accepted"
        ELSE "default"

HasValidSignature(candidate) == candidate.payload.signature_status = "valid"

SignatureCheckStatus(candidate) ==
    LET branch == Branch(candidate)
        valid  == HasValidSignature(candidate)
    IN  CASE branch = "malformed_line"       -> "signature_not_reached"
          [] branch = "missing_signature"    -> "signature_missing"
          [] branch = "wrong_protocol"       -> "signature_wrong_protocol"
          [] branch = "stale_source_hash"    -> "signature_stale"
          [] branch = "generated_projection" -> "signature_not_authority"
          [] branch = "unprocessed_source"   -> "signature_absent_allowed_for_source"
          [] branch = "accepted"             -> IF valid THEN "signature_valid"
                                                ELSE "signature_missing"
          [] branch \in {"unresolved_identity", "broken_lineage"} ->
                                                IF valid THEN "signature_valid"
                                                ELSE "signature_not_required"
          [] OTHER                           -> "signature_not_required"

\* What no branch recognises is verified unless extraction blocked it.
DefaultProofStatus(candidate) == IF candidate.status = "blocked" THEN "blocked" ELSE "verified"

ProofResultStatus(candidate) ==
    LET branch == Branch(candidate)
    IN  CASE branch \in {"missing_signature", "wrong_protocol",
                         "source_mutation_forbidden"}              -> "failed"
          [] branch = "stale_source_hash"                          -> "stale"
          [] branch \in {"malformed_line", "unresolved_identity",
                         "broken_lineage"}                         -> "blocked"
          [] branch \in {"generated_projection", "unprocessed_source"} -> "verified"
          [] branch = "accepted" -> IF HasValidSignature(candidate) THEN "verified"
                                    ELSE "blocked"
          [] branch = "default"  -> DefaultProofStatus(candidate)

Classification(candidate) ==
    LET branch == Branch(candidate)
    IN  CASE branch = "generated_projection"      -> "projection_only"
          [] branch = "source_mutation_forbidden" -> "refused"
          [] branch = "unprocessed_source"        -> "source_only"
          [] branch = "accepted"                  -> "signed_sjs_authority_candidate"
          [] branch = "default"                   -> candidate.authority_state
          [] OTHER                                -> "blocked"

FaultOrInterrupt(candidate) ==
    LET branch == Branch(candidate)
    IN  CASE branch = "default"  -> "none"
          [] branch = "accepted" -> IF HasValidSignature(candidate) THEN "none"
                                    ELSE "missing_signature"
          [] OTHER               -> branch

FreshnessCheckStatus(candidate) ==
    IF Branch(candidate) = "stale_source_hash" THEN "stale" ELSE candidate.freshness_state

\* _validate_candidate.  The hash and lineage statuses only restate the branch.
Validate(candidate) ==
    [signature_check_status   |-> SignatureCheckStatus(candidate),
     freshness_check_status   |-> FreshnessCheckStatus(candidate),
     authority_classification |-> Classification(candidate),
     proof_result_status      |-> ProofResultStatus(candidate),
     fault_or_interrupt       |-> FaultOrInterrupt(candidate)]

ProofStatuses == {"verified", "failed", "blocked", "stale"}
FreshnessStates == {"current", "stale", "unknown"}
Branches == {"malformed_line", "missing_signature", "wrong_protocol", "stale_source_hash",
             "unresolved_identity", "broken_lineage", "generated_projection",
             "source_mutation_forbidden", "unprocessed_source", "accepted", "default"}
Faults == (Branches \ {"accepted", "default"}) \cup {"none"}
=============================================================================
