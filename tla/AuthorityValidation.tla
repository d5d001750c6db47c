------------------------- MODULE AuthorityValidation -------------------------
(***************************************************************************)
(* Extraction and validation of one document, as two steps: the candidate  *)
(* of extract_kernel_record_candidates, then the result that               *)
(* validate_kernel_record_candidates gives for it.                         *)
(***************************************************************************)
EXTENDS AuthorityRecords

VARIABLES document,    \* the parsed document
          candidate,   \* the extracted candidate, <<>> before extraction
          result       \* its validation, <<>> before validation

validationVars == <<document, candidate, result>>

ValidationInit == /\ document \in Document
                  /\ candidate = <<>>
                  /\ result = <<>>

ExtractCandidate == /\ candidate = <<>>
                    /\ candidate' = Extract(document)
                    /\ UNCHANGED <<document, result>>

ValidateCandidate == /\ candidate # <<>>
                     /\ result = <<>>
                     /\ result' = Validate(candidate)
                     /\ UNCHANGED <<document, candidate>>

ValidationNext == ExtractCandidate \/ ValidateCandidate

ValidationSpec == ValidationInit /\ [][ValidationNext]_validationVars

-----------------------------------------------------------------------------
Validated == result # <<>>

\* An artifact that expects to be accepted as authority is verified only with
\* a signature that is declared valid and names no protocol but the expected
\* one (it may name none), a resolved identity and no parse fault, whichever
\* branch of the cascade decided (_validate_candidate).
AcceptanceNeedsEvidence ==
    /\ Validated
    /\ document.expected_record_status = "accepted_authority_candidate"
    /\ result.proof_result_status = "verified"
    => /\ document.signature_status = "valid"
       /\ document.signature_protocol_uuid # "other_uuid"
       /\ document.natural_key_state = "resolved"
       /\ ~ document.faults

\* A document with a parse fault is classified blocked and proves nothing,
\* whatever its fields declare.
ParserFaultBlocks ==
    Validated /\ document.faults => /\ result.authority_classification = "blocked"
                                    /\ result.proof_result_status = "blocked"
                                    /\ result.freshness_check_status # "current"

\* Extraction and validation agree: a candidate that extraction blocked is
\* never verified by validation, also when no branch knows its status.
BlockedNeverVerified ==
    Validated /\ candidate.status = "blocked" => result.proof_result_status # "verified"

\* A document that says it is stale is never reported current, also when an
\* earlier branch of the cascade hides the stale one.
StaleNeverCurrent ==
    Validated /\ document.expected_record_status \in ContainsStale
        => result.freshness_check_status # "current"

\* Every failed proof is accompanied by a fault (the report's faults).
FailedProofHasFault ==
    Validated /\ result.proof_result_status = "failed" => result.fault_or_interrupt # "none"

\* What stops a document in one stage stops it in the others: a parse fault,
\* an extraction that blocked, a text that says it is stale and a proof that
\* failed each survive every branch of the cascade of _validate_candidate.
StopsSurviveCascade ==
    ParserFaultBlocks /\ BlockedNeverVerified /\ StaleNeverCurrent /\ FailedProofHasFault

=============================================================================
