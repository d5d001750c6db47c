------------------------ MODULE MCAuthorityProjection ------------------------
(* Instances of AuthorityProjection for TLC: two paths and three texts.    *)
EXTENDS AuthorityProjection

\* A record with a text that is accepted, one that is refused for its stale
\* signature, both of one identity, and a text that cannot be decoded.
Doc(expected) ==
    [faults |-> FALSE, expected_record_status |-> expected,
     signature_protocol_uuid |-> "expected_uuid", signature_status |-> "valid",
     natural_key_state |-> "resolved", authority_state |-> "other_state",
     identity |-> "fixture_a"]

MCPaths == {1, 2}
MCContents == {"accepted", "stale", "binary"}
MCUndecodable == {"binary"}
MCDocumentOf == [c \in MCContents |->
                   CASE c = "accepted" -> Doc("accepted_authority_candidate")
                     [] c = "stale"    -> Doc("blocked_stale_source_hash")
                     [] c = "binary"   -> Doc("absent")]
=============================================================================
