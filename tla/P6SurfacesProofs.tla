--------------------------- MODULE P6SurfacesProofs ---------------------------
(***************************************************************************)
(* Theorems about P6Surfaces, for every packet, family, user and action.   *)
(* What is shown and what was classified is made of the packet at hand     *)
(* (ShownInv); the rest is about the functions: what stops a record        *)
(* (StopsFound), which issue nonpromotion finds (NonpromotionFinds), and   *)
(* what decides the classification of an action (ClassificationFacts).     *)
(***************************************************************************)
EXTENDS P6Surfaces, WellFoundedInduction, TLAPS

-----------------------------------------------------------------------------
(* Cascades.                                                               *)

\* A set of numbers that is not empty has a least member.
LEMMA LeastNumber ==
    ASSUME NEW T \in SUBSET Nat, T # {}
    PROVE  \E m \in T : \A k \in T : m <= k
<1>1. PICK x \in T : \A y \in T : ~ (<<y, x>> \in OpToRel(<, Nat))
  BY NatLessThanWellFounded, WFMin
<1>2. ASSUME NEW y \in T PROVE x <= y
  <2>1. <<y, x>> \in Nat \X Nat /\ <<y, x>>[1] = y /\ <<y, x>>[2] = x
    OBVIOUS
  <2>2. ~ (y < x)
    BY <1>1, <2>1 DEF OpToRel
  <2> QED
    BY <2>1, <2>2
<1> QED
  BY <1>2

\* The first case of a cascade decides it, or it is decided by the others.
LEMMA FirstStep ==
    ASSUME NEW cases, NEW rest, NEW o, Len(rest) \in Nat, Len(cases) = Len(rest) + 1,
           \A i \in 1 .. Len(rest) : rest[i] = cases[i + 1]
    PROVE  FirstOf(cases, o) = IF cases[1][1] THEN cases[1][2] ELSE FirstOf(rest, o)
<1> DEFINE n == Len(rest)
           all == {i \in 1 .. n + 1 : cases[i][1]}
           others == {i \in 1 .. n : rest[i][1]}
           first == CHOOSE i \in all : \A j \in all : i <= j
           next == CHOOSE i \in others : \A j \in others : i <= j
<1>1. FirstOf(cases, o) = IF all = {} THEN o ELSE cases[first][2]
  BY DEF FirstOf
<1>2. FirstOf(rest, o) = IF others = {} THEN o ELSE rest[next][2]
  BY DEF FirstOf
<1>3. \A i \in 1 .. n : i \in others <=> i + 1 \in all
  OBVIOUS
<1>4. 1 \in all <=> cases[1][1]
  OBVIOUS
<1>5. all \subseteq 1 .. n + 1 /\ others \subseteq 1 .. n
  OBVIOUS
<1>6. ASSUME NEW S \in SUBSET Nat, NEW k \in S, \A j \in S : k <= j
      PROVE  k = CHOOSE i \in S : \A j \in S : i <= j
  <2> DEFINE m == CHOOSE i \in S : \A j \in S : i <= j
  <2>1. m \in S /\ \A j \in S : m <= j
    BY <1>6
  <2> HIDE DEF m
  <2>2. m = k
    BY <1>6, <2>1
  <2> QED BY <2>2 DEF m
<1>7. all \in SUBSET Nat /\ others \in SUBSET Nat
  BY <1>5
<1> HIDE DEF all, others
<1>8. CASE cases[1][1]
  <2>1. \A j \in all : 1 <= j
    BY <1>5
  <2>2. 1 = first
    BY <1>4, <1>6, <1>7, <1>8, <2>1
  <2> QED BY <1>1, <1>4, <1>8, <2>2
<1>9. CASE ~cases[1][1] /\ others = {}
  <2>1. all = {}
    <3> SUFFICES ASSUME NEW i \in all PROVE FALSE
      OBVIOUS
    <3>1. i \in 2 .. n + 1
      BY <1>4, <1>5, <1>9
    <3>2. i - 1 \in 1 .. n /\ (i - 1) + 1 = i
      BY <3>1
    <3> QED BY <1>3, <1>9, <3>2
  <2> QED BY <1>1, <1>2, <1>9, <2>1
<1>10. CASE ~cases[1][1] /\ others # {}
  <2>1. PICK k \in others : \A j \in others : k <= j
    BY <1>7, <1>10, LeastNumber
  <2>2. k + 1 \in all
    BY <1>3, <1>5, <2>1
  <2>3. ASSUME NEW j \in all PROVE k + 1 <= j
    <3>1. j \in 2 .. n + 1
      BY <1>4, <1>5, <1>10
    <3>2. j - 1 \in 1 .. n /\ (j - 1) + 1 = j
      BY <3>1
    <3>3. j - 1 \in others
      BY <1>3, <3>2
    <3> QED BY <1>5, <2>1, <3>2, <3>3
  <2>4. k = next
    BY <1>6, <1>7, <2>1
  <2>5. k + 1 = first
    BY <1>6, <1>7, <2>2, <2>3
  <2>6. rest[k] = cases[k + 1]
    BY <1>5, <2>1
  <2>7. all # {}
    BY <2>2
  <2> HIDE DEF first, next
  <2> QED BY <1>1, <1>2, <1>10, <2>4, <2>5, <2>6, <2>7
<1> QED BY <1>8, <1>9, <1>10

\* The cascades of one to ten cases.
LEMMA First1 ==
    ASSUME NEW c1, NEW v1, NEW o
    PROVE  FirstOf(<< <<c1, v1>> >>, o) = IF c1 THEN v1 ELSE o
<1> DEFINE cases == << <<c1, v1>> >>
           rest == << >>
<1>1. /\ Len(cases) = Len(rest) + 1 /\ Len(rest) \in Nat /\ cases[1] = <<c1, v1>>
      /\ \A i \in 1 .. Len(rest) : rest[i] = cases[i + 1]
  OBVIOUS
<1>2. FirstOf(rest, o) = o
  BY DEF FirstOf
<1> HIDE DEF cases, rest
<1>3. FirstOf(cases, o) = IF cases[1][1] THEN cases[1][2] ELSE FirstOf(rest, o)
  BY <1>1, FirstStep
<1> QED BY <1>1, <1>2, <1>3 DEF cases

LEMMA First2 ==
    ASSUME NEW c1, NEW v1, NEW c2, NEW v2, NEW o
    PROVE  FirstOf(<< <<c1, v1>>, <<c2, v2>> >>, o)
               = IF c1 THEN v1 ELSE IF c2 THEN v2 ELSE o
<1> DEFINE cases == << <<c1, v1>>, <<c2, v2>> >>
           rest == << <<c2, v2>> >>
<1>1. /\ Len(cases) = Len(rest) + 1 /\ Len(rest) \in Nat /\ cases[1] = <<c1, v1>>
      /\ \A i \in 1 .. Len(rest) : rest[i] = cases[i + 1]
  OBVIOUS
<1> HIDE DEF cases, rest
<1>2. FirstOf(cases, o) = IF cases[1][1] THEN cases[1][2] ELSE FirstOf(rest, o)
  BY <1>1, FirstStep
<1> QED BY <1>1, <1>2, First1 DEF cases, rest

LEMMA First3 ==
    ASSUME NEW c1, NEW v1, NEW c2, NEW v2, NEW c3, NEW v3, NEW o
    PROVE  FirstOf(<< <<c1, v1>>, <<c2, v2>>, <<c3, v3>> >>, o)
               = IF c1 THEN v1 ELSE IF c2 THEN v2 ELSE IF c3 THEN v3 ELSE o
<1> DEFINE cases == << <<c1, v1>>, <<c2, v2>>, <<c3, v3>> >>
           rest == << <<c2, v2>>, <<c3, v3>> >>
<1>1. /\ Len(cases) = Len(rest) + 1 /\ Len(rest) \in Nat /\ cases[1] = <<c1, v1>>
      /\ \A i \in 1 .. Len(rest) : rest[i] = cases[i + 1]
  OBVIOUS
<1> HIDE DEF cases, rest
<1>2. FirstOf(cases, o) = IF cases[1][1] THEN cases[1][2] ELSE FirstOf(rest, o)
  BY <1>1, FirstStep
<1> QED BY <1>1, <1>2, First2 DEF cases, rest

LEMMA First4 ==
    ASSUME NEW c1, NEW v1, NEW c2, NEW v2, NEW c3, NEW v3, NEW c4, NEW v4, NEW o
    PROVE  FirstOf(<< <<c1, v1>>, <<c2, v2>>, <<c3, v3>>, <<c4, v4>> >>, o)
               = IF c1 THEN v1 ELSE IF c2 THEN v2 ELSE IF c3 THEN v3 ELSE IF c4 THEN v4 ELSE o
<1> DEFINE cases == << <<c1, v1>>, <<c2, v2>>, <<c3, v3>>, <<c4, v4>> >>
           rest == << <<c2, v2>>, <<c3, v3>>, <<c4, v4>> >>
<1>1. /\ Len(cases) = Len(rest) + 1 /\ Len(rest) \in Nat /\ cases[1] = <<c1, v1>>
      /\ \A i \in 1 .. Len(rest) : rest[i] = cases[i + 1]
  OBVIOUS
<1> HIDE DEF cases, rest
<1>2. FirstOf(cases, o) = IF cases[1][1] THEN cases[1][2] ELSE FirstOf(rest, o)
  BY <1>1, FirstStep
<1> QED BY <1>1, <1>2, First3 DEF cases, rest

LEMMA First5 ==
    ASSUME NEW c1, NEW v1, NEW c2, NEW v2, NEW c3, NEW v3, NEW c4, NEW v4, NEW c5, NEW v5, NEW o
    PROVE  FirstOf(<< <<c1, v1>>, <<c2, v2>>, <<c3, v3>>, <<c4, v4>>, <<c5, v5>> >>, o)
               = IF c1 THEN v1 ELSE IF c2 THEN v2 ELSE IF c3 THEN v3 ELSE IF c4 THEN v4 ELSE
                 IF c5 THEN v5 ELSE o
<1> DEFINE cases == << <<c1, v1>>, <<c2, v2>>, <<c3, v3>>, <<c4, v4>>, <<c5, v5>> >>
           rest == << <<c2, v2>>, <<c3, v3>>, <<c4, v4>>, <<c5, v5>> >>
<1>1. /\ Len(cases) = Len(rest) + 1 /\ Len(rest) \in Nat /\ cases[1] = <<c1, v1>>
      /\ \A i \in 1 .. Len(rest) : rest[i] = cases[i + 1]
  OBVIOUS
<1> HIDE DEF cases, rest
<1>2. FirstOf(cases, o) = IF cases[1][1] THEN cases[1][2] ELSE FirstOf(rest, o)
  BY <1>1, FirstStep
<1> QED BY <1>1, <1>2, First4 DEF cases, rest

LEMMA First6 ==
    ASSUME NEW c1, NEW v1, NEW c2, NEW v2, NEW c3, NEW v3, NEW c4, NEW v4, NEW c5, NEW v5,
           NEW c6, NEW v6, NEW o
    PROVE  FirstOf(<< <<c1, v1>>, <<c2, v2>>, <<c3, v3>>, <<c4, v4>>, <<c5, v5>>, <<c6, v6>> >>, o)
               = IF c1 THEN v1 ELSE IF c2 THEN v2 ELSE IF c3 THEN v3 ELSE IF c4 THEN v4 ELSE
                 IF c5 THEN v5 ELSE IF c6 THEN v6 ELSE o
<1> DEFINE cases == << <<c1, v1>>, <<c2, v2>>, <<c3, v3>>, <<c4, v4>>, <<c5, v5>>, <<c6, v6>> >>
           rest == << <<c2, v2>>, <<c3, v3>>, <<c4, v4>>, <<c5, v5>>, <<c6, v6>> >>
<1>1. /\ Len(cases) = Len(rest) + 1 /\ Len(rest) \in Nat /\ cases[1] = <<c1, v1>>
      /\ \A i \in 1 .. Len(rest) : rest[i] = cases[i + 1]
  OBVIOUS
<1> HIDE DEF cases, rest
<1>2. FirstOf(cases, o) = IF cases[1][1] THEN cases[1][2] ELSE FirstOf(rest, o)
  BY <1>1, FirstStep
<1> QED BY <1>1, <1>2, First5 DEF cases, rest

LEMMA First7 ==
    ASSUME NEW c1, NEW v1, NEW c2, NEW v2, NEW c3, NEW v3, NEW c4, NEW v4, NEW c5, NEW v5,
           NEW c6, NEW v6, NEW c7, NEW v7, NEW o
    PROVE  FirstOf(<< <<c1, v1>>, <<c2, v2>>, <<c3, v3>>, <<c4, v4>>, <<c5, v5>>, <<c6, v6>>,
                      <<c7, v7>> >>, o)
               = IF c1 THEN v1 ELSE IF c2 THEN v2 ELSE IF c3 THEN v3 ELSE IF c4 THEN v4 ELSE
                 IF c5 THEN v5 ELSE IF c6 THEN v6 ELSE IF c7 THEN v7 ELSE o
<1> DEFINE cases == << <<c1, v1>>, <<c2, v2>>, <<c3, v3>>, <<c4, v4>>, <<c5, v5>>, <<c6, v6>>,
                      <<c7, v7>> >>
           rest == << <<c2, v2>>, <<c3, v3>>, <<c4, v4>>, <<c5, v5>>, <<c6, v6>>, <<c7, v7>> >>
<1>1. /\ Len(cases) = Len(rest) + 1 /\ Len(rest) \in Nat /\ cases[1] = <<c1, v1>>
      /\ \A i \in 1 .. Len(rest) : rest[i] = cases[i + 1]
  OBVIOUS
<1> HIDE DEF cases, rest
<1>2. FirstOf(cases, o) = IF cases[1][1] THEN cases[1][2] ELSE FirstOf(rest, o)
  BY <1>1, FirstStep
<1> QED BY <1>1, <1>2, First6 DEF cases, rest

LEMMA First8 ==
    ASSUME NEW c1, NEW v1, NEW c2, NEW v2, NEW c3, NEW v3, NEW c4, NEW v4, NEW c5, NEW v5,
           NEW c6, NEW v6, NEW c7, NEW v7, NEW c8, NEW v8, NEW o
    PROVE  FirstOf(<< <<c1, v1>>, <<c2, v2>>, <<c3, v3>>, <<c4, v4>>, <<c5, v5>>, <<c6, v6>>,
                      <<c7, v7>>, <<c8, v8>> >>, o)
               = IF c1 THEN v1 ELSE IF c2 THEN v2 ELSE IF c3 THEN v3 ELSE IF c4 THEN v4 ELSE
                 IF c5 THEN v5 ELSE IF c6 THEN v6 ELSE IF c7 THEN v7 ELSE IF c8 THEN v8 ELSE o
<1> DEFINE cases == << <<c1, v1>>, <<c2, v2>>, <<c3, v3>>, <<c4, v4>>, <<c5, v5>>, <<c6, v6>>,
                      <<c7, v7>>, <<c8, v8>> >>
           rest == << <<c2, v2>>, <<c3, v3>>, <<c4, v4>>, <<c5, v5>>, <<c6, v6>>, <<c7, v7>>,
                      <<c8, v8>> >>
<1>1. /\ Len(cases) = Len(rest) + 1 /\ Len(rest) \in Nat /\ cases[1] = <<c1, v1>>
      /\ \A i \in 1 .. Len(rest) : rest[i] = cases[i + 1]
  OBVIOUS
<1> HIDE DEF cases, rest
<1>2. FirstOf(cases, o) = IF cases[1][1] THEN cases[1][2] ELSE FirstOf(rest, o)
  BY <1>1, FirstStep
<1> QED BY <1>1, <1>2, First7 DEF cases, rest

LEMMA First9 ==
    ASSUME NEW c1, NEW v1, NEW c2, NEW v2, NEW c3, NEW v3, NEW c4, NEW v4, NEW c5, NEW v5,
           NEW c6, NEW v6, NEW c7, NEW v7, NEW c8, NEW v8, NEW c9, NEW v9, NEW o
    PROVE  FirstOf(<< <<c1, v1>>, <<c2, v2>>, <<c3, v3>>, <<c4, v4>>, <<c5, v5>>, <<c6, v6>>,
                      <<c7, v7>>, <<c8, v8>>, <<c9, v9>> >>, o)
               = IF c1 THEN v1 ELSE IF c2 THEN v2 ELSE IF c3 THEN v3 ELSE IF c4 THEN v4 ELSE
                 IF c5 THEN v5 ELSE IF c6 THEN v6 ELSE IF c7 THEN v7 ELSE IF c8 THEN v8 ELSE
                 IF c9 THEN v9 ELSE o
<1> DEFINE cases == << <<c1, v1>>, <<c2, v2>>, <<c3, v3>>, <<c4, v4>>, <<c5, v5>>, <<c6, v6>>,
                      <<c7, v7>>, <<c8, v8>>, <<c9, v9>> >>
           rest == << <<c2, v2>>, <<c3, v3>>, <<c4, v4>>, <<c5, v5>>, <<c6, v6>>, <<c7, v7>>,
                      <<c8, v8>>, <<c9, v9>> >>
<1>1. /\ Len(cases) = Len(rest) + 1 /\ Len(rest) \in Nat /\ cases[1] = <<c1, v1>>
      /\ \A i \in 1 .. Len(rest) : rest[i] = cases[i + 1]
  OBVIOUS
<1> HIDE DEF cases, rest
<1>2. FirstOf(cases, o) = IF cases[1][1] THEN cases[1][2] ELSE FirstOf(rest, o)
  BY <1>1, FirstStep
<1> QED BY <1>1, <1>2, First8 DEF cases, rest

LEMMA First10 ==
    ASSUME NEW c1, NEW v1, NEW c2, NEW v2, NEW c3, NEW v3, NEW c4, NEW v4, NEW c5, NEW v5,
           NEW c6, NEW v6, NEW c7, NEW v7, NEW c8, NEW v8, NEW c9, NEW v9, NEW c10, NEW v10, NEW o
    PROVE  FirstOf(<< <<c1, v1>>, <<c2, v2>>, <<c3, v3>>, <<c4, v4>>, <<c5, v5>>, <<c6, v6>>,
                      <<c7, v7>>, <<c8, v8>>, <<c9, v9>>, <<c10, v10>> >>, o)
               = IF c1 THEN v1 ELSE IF c2 THEN v2 ELSE IF c3 THEN v3 ELSE IF c4 THEN v4 ELSE
                 IF c5 THEN v5 ELSE IF c6 THEN v6 ELSE IF c7 THEN v7 ELSE IF c8 THEN v8 ELSE
                 IF c9 THEN v9 ELSE IF c10 THEN v10 ELSE o
<1> DEFINE cases == << <<c1, v1>>, <<c2, v2>>, <<c3, v3>>, <<c4, v4>>, <<c5, v5>>, <<c6, v6>>,
                      <<c7, v7>>, <<c8, v8>>, <<c9, v9>>, <<c10, v10>> >>
           rest == << <<c2, v2>>, <<c3, v3>>, <<c4, v4>>, <<c5, v5>>, <<c6, v6>>, <<c7, v7>>,
                      <<c8, v8>>, <<c9, v9>>, <<c10, v10>> >>
<1>1. /\ Len(cases) = Len(rest) + 1 /\ Len(rest) \in Nat /\ cases[1] = <<c1, v1>>
      /\ \A i \in 1 .. Len(rest) : rest[i] = cases[i + 1]
  OBVIOUS
<1> HIDE DEF cases, rest
<1>2. FirstOf(cases, o) = IF cases[1][1] THEN cases[1][2] ELSE FirstOf(rest, o)
  BY <1>1, FirstStep
<1> QED BY <1>1, <1>2, First9 DEF cases, rest

-----------------------------------------------------------------------------
(* What is read of a packet.                                               *)

\* A field is what was learned of it last.
LEMMA GetMerged ==
    ASSUME NEW change, NEW p, NEW field, NEW default
    PROVE  Get(Merged(change, p), field, default)
               = IF field \in DOMAIN change THEN change[field] ELSE Get(p, field, default)
BY DEF Get, Merged

LEMMA PacketMerged ==
    ASSUME NEW change, NEW p, IsPacket(change), IsPacket(p)
    PROVE  IsPacket(Merged(change, p))
<1> DEFINE m == Merged(change, p)
<1>1. \A flag \in PacketFlags \cap DOMAIN m : m[flag] \in BOOLEAN
  BY DEF IsPacket, Merged
<1>2. /\ Get(m, "authority_tier", "carrier_context") \in AuthorityTier
      /\ Get(m, "freshness_state", "fresh") \in FreshnessWord
      /\ Get(m, "projected_status", "ready") \in StatusWord
  <2>1. /\ Get(change, "authority_tier", "carrier_context") \in AuthorityTier
        /\ Get(change, "freshness_state", "fresh") \in FreshnessWord
        /\ Get(change, "projected_status", "ready") \in StatusWord
        /\ Get(p, "authority_tier", "carrier_context") \in AuthorityTier
        /\ Get(p, "freshness_state", "fresh") \in FreshnessWord
        /\ Get(p, "projected_status", "ready") \in StatusWord
    BY DEF IsPacket
  <2> QED BY <2>1 DEF Get, Merged
<1> QED BY <1>1, <1>2 DEF IsPacket

\* The freshness, the status and the stops that project_p6_surface computes.
FreshnessOf(p) == Freshness(Get(p, "freshness_state", "unknown"))
ProjectedStatus(p) == StatusOf(p, FreshnessOf(p), NonpromotionIssue(p))
StopsOf(p) == StopStateRefs(p, ProjectedStatus(p), NonpromotionIssue(p))

\* The fields of a projected envelope that validation and actions look at.
LEMMA ProjectedFields ==
    ASSUME NEW family, NEW p, NEW e, e = ProjectedEnvelope(family, p)
    PROVE  /\ e.surface_family = family
           /\ e.authority_notice_ref = Get(p, "authority_notice_ref", Get(p, "required_notice", NoValue))
           /\ e.authority_tier = TierOf(p, SURFACE_CAPABILITY_MAP[family])
           /\ e.freshness_state = FreshnessOf(p)
           /\ e.projected_status = ProjectedStatus(p)
           /\ e.permitted_action_set = SURFACE_CAPABILITY_MAP[family].may_request_set
           /\ e.forbidden_action_set = SURFACE_CAPABILITY_MAP[family].forbidden_effect_set
           /\ e.stop_state_ref_set = StopsOf(p)
<1> HIDE DEF SURFACE_CAPABILITY_MAP, NonpromotionIssue, Get, StatusOf, StopStateRefs, TierOf, Freshness,
             SourceMutationRequested
<1> QED BY DEF ProjectedEnvelope, FreshnessOf, ProjectedStatus, StopsOf

\* and of one that is read as it is.
LEMMA ReadFields ==
    ASSUME NEW p, NEW e, e = EnvelopeFromMapping(p)
    PROVE  /\ e.authority_tier = Get(p, "authority_tier", "generated_projection_evidence")
           /\ e.freshness_state = FreshnessOf(p)
           /\ e.projected_status = StatusValue(Get(p, "projected_status", "blocked"))
BY DEF EnvelopeFromMapping, FreshnessOf

LEMMA TierType ==
    ASSUME NEW p, IsPacket(p), NEW capability
    PROVE  TierOf(p, capability) \in AuthorityTier
<1> DEFINE c1 == "authority_tier" \in DOMAIN p
           c2 == capability.carrier_context_only
           c3 == Get(p, "source_authority_state", NoValue) \in {"accepted", "accepted_and_fresh"}
           v1 == Get(p, "authority_tier", NoValue)
<1>1. TierOf(p, capability)
          = FirstOf(<< <<c1, v1>>, <<c2, "carrier_context">>, <<c3, "source_authority">> >>,
                    "generated_projection_evidence")
  BY DEF TierOf
<1>2. c1 => v1 \in AuthorityTier
  BY DEF IsPacket, Get
<1> HIDE DEF c1, c2, c3, v1
<1>3. TierOf(p, capability) = IF c1 THEN v1 ELSE IF c2 THEN "carrier_context"
                              ELSE IF c3 THEN "source_authority" ELSE "generated_projection_evidence"
  BY <1>1, First3
<1> QED BY <1>2, <1>3 DEF AuthorityTier

LEMMA FreshnessType ==
    ASSUME NEW p, IsPacket(p)
    PROVE  FreshnessOf(p) \in FreshnessState
<1>1. Get(p, "freshness_state", "unknown") \in FreshnessWord
  BY DEF IsPacket, Get, FreshnessWord, FreshnessState
<1> QED BY <1>1 DEF FreshnessOf, Freshness, FreshnessWord, FreshnessState

LEMMA StatusValueType ==
    ASSUME NEW word \in StatusWord
    PROVE  StatusValue(word) \in ProjectionStatus
<1> DEFINE c1 == word \in {"visible_authority_notice", "generated_projection_non_authority"}
           c2 == word = "visible_stale_notice"
           c3 == word = "surface_cannot_mutate_source_authority"
<1>1. StatusValue(word) = FirstOf(<< <<c1, "ready">>, <<c2, "stale">>, <<c3, "refused">> >>, word)
  BY DEF StatusValue
<1>2. c1 \/ c2 \/ c3 \/ word \in ProjectionStatus
  BY DEF StatusWord
<1> HIDE DEF c1, c2, c3
<1>3. StatusValue(word) = IF c1 THEN "ready" ELSE IF c2 THEN "stale" ELSE IF c3 THEN "refused" ELSE word
  BY <1>1, First3
<1> QED BY <1>2, <1>3 DEF ProjectionStatus

\* The branches of _projection_status.
LEMMA StatusCascade ==
    ASSUME NEW p, NEW freshness, NEW issue
    PROVE  StatusOf(p, freshness, issue)
               = IF "projected_status" \in DOMAIN p THEN Get(p, "projected_status", NoValue)
                 ELSE IF SourceMutationRequested(p) THEN "refused" ELSE IF freshness = "stale" THEN "stale"
                 ELSE IF issue # "none" THEN "faulted" ELSE IF freshness = "faulted" THEN "faulted"
                 ELSE IF freshness = "interrupted" THEN "interrupted" ELSE IF freshness = "fresh" THEN "ready"
                 ELSE "blocked"
<1> DEFINE c1 == "projected_status" \in DOMAIN p
           c2 == SourceMutationRequested(p)
           c3 == freshness = "stale"
           c4 == issue # "none"
           c5 == freshness = "faulted"
           c6 == freshness = "interrupted"
           c7 == freshness = "fresh"
           v1 == Get(p, "projected_status", NoValue)
<1>1. StatusOf(p, freshness, issue)
          = FirstOf(<< <<c1, v1>>, <<c2, "refused">>, <<c3, "stale">>, <<c4, "faulted">>, <<c5, "faulted">>,
                       <<c6, "interrupted">>, <<c7, "ready">> >>, "blocked")
  BY DEF StatusOf
<1> HIDE DEF c1, c2, c3, c4, c5, c6, c7, v1
<1>2. StatusOf(p, freshness, issue)
          = IF c1 THEN v1 ELSE IF c2 THEN "refused" ELSE IF c3 THEN "stale" ELSE IF c4 THEN "faulted"
            ELSE IF c5 THEN "faulted" ELSE IF c6 THEN "interrupted" ELSE IF c7 THEN "ready" ELSE "blocked"
  BY <1>1, First7
<1> QED BY <1>2 DEF c1, c2, c3, c4, c5, c6, c7, v1

\* Project has a status of its enumeration to show.
LEMMA StatusType ==
    ASSUME NEW p, Get(p, "projected_status", "ready") \in ProjectionStatus
    PROVE  ProjectedStatus(p) \in ProjectionStatus
<1>1. "projected_status" \in DOMAIN p => Get(p, "projected_status", NoValue) \in ProjectionStatus
  BY DEF Get
<1> QED BY <1>1, StatusCascade DEF ProjectedStatus, ProjectionStatus

-----------------------------------------------------------------------------
(* Nonpromotion and stops.                                                 *)

\* What evaluate_p6_nonpromotion_fields finds at fault with a packet.
Promoting(p) ==
    LET class == RecordClass(p)
    IN  \/ class = NoValue
        \/ class \notin NonpromotedClass
        \/ ~HasNotice(p)
        \/ Get(p, "claimed_authority_class", NoValue) \in ForbiddenAuthorityClass
        \/ Get(p, "assignment_authority", FALSE)
        \/ Get(p, "dispatch_authority", FALSE)
        \/ Get(p, "operations_control_authority", FALSE)
        \/ Get(p, "live_control_authority", FALSE)
        \/ Get(p, "live_effect", FALSE)
        \/ Get(p, "freshness_state", NoValue) = "stale"
        \/ Get(p, "source_authority_state", NoValue) = "stale"

LEMMA PromotionIsNamed ==
    ASSUME NEW class
    PROVE  PromotionIssue(class) # "none"
<1> DEFINE c1 == class \in {"graph_checkpoint_state", "graph_transition_trace"}
           c2 == class = "carrier_context"
           c3 == class = "dry_run_output"
           c4 == class = "human_approval_display"
<1>1. PromotionIssue(class)
          = FirstOf(<< <<c1, "checkpoint_promoted_to_authority">>, <<c2, "carrier_context_promoted_to_authority">>,
                       <<c3, "dry_run_promoted_to_live_control">>,
                       <<c4, "human_approval_promoted_to_live_control">> >>,
                    "generated_projection_promoted_to_authority")
  BY DEF PromotionIssue
<1> HIDE DEF c1, c2, c3, c4
<1> QED BY <1>1, First4

\* No branch before it hides what is at fault.
LEMMA NonpromotionFinds ==
    ASSUME NEW p
    PROVE  NonpromotionIssue(p) # "none" <=> Promoting(p)
<1> DEFINE class == RecordClass(p)
           c1 == class = NoValue
           c2 == class \notin NonpromotedClass
           c3 == ~HasNotice(p)
           c4 == Get(p, "claimed_authority_class", NoValue) \in ForbiddenAuthorityClass
           c5 == Get(p, "assignment_authority", FALSE)
           c6 == Get(p, "dispatch_authority", FALSE)
           c7 == Get(p, "operations_control_authority", FALSE)
           c8 == Get(p, "live_control_authority", FALSE) \/ Get(p, "live_effect", FALSE)
           c9 == Get(p, "freshness_state", NoValue) = "stale" \/ Get(p, "source_authority_state", NoValue) = "stale"
           v4 == PromotionIssue(class)
<1>1. NonpromotionIssue(p)
          = FirstOf(<< <<c1, "missing_record_class">>, <<c2, "unsupported_record_class">>,
                       <<c3, "missing_nonpromotion_notice">>, <<c4, v4>>, <<c5, "assignment_authority_requested">>,
                       <<c6, "dispatch_authority_requested">>, <<c7, "operations_control_requested">>,
                       <<c8, "live_control_requested">>, <<c9, "stale_source_basis">> >>, "none")
  BY DEF NonpromotionIssue
<1>2. v4 # "none"
  BY PromotionIsNamed
<1>3. Promoting(p) <=> c1 \/ c2 \/ c3 \/ c4 \/ c5 \/ c6 \/ c7 \/ c8 \/ c9
  BY DEF Promoting
<1> HIDE DEF c1, c2, c3, c4, c5, c6, c7, c8, c9, v4
<1> QED BY <1>1, <1>2, <1>3, First9

\* What stops a projected record: its evidence, an issue, or its status.
LEMMA StopsFound ==
    ASSUME NEW p, NEW status, NEW issue
    PROVE  StopStateRefs(p, status, issue) # {}
               <=> Get(p, "stop_state_ref_set", {}) # {} \/ issue # "none" \/ status # "ready"
BY DEF StopStateRefs

-----------------------------------------------------------------------------
(* The classification of actions.                                          *)

Resolving == {"rebake_request", "interrupt_resolution_request"}
Requested == {"direct_mutation", "assignment", "dispatch", "operations_control", "live_control"}

\* An action is refused for its kind or for what it requests besides, and for
\* nothing that was seen.
Refused(a) == a.requested_action_kind \in FORBIDDEN_ACTION_SET \/ a.requests \in Requested
Interrupted(a) == StaleOrStopped(a) /\ a.requested_action_kind \notin Resolving
Unidentified(a) == \/ a.requested_action_kind = NoValue
                   \/ a.actor_ref = NoValue
                   \/ a.carrier_surface = NoValue
                   \/ ~a.authority_notice_seen

\* An issue that is found or not.
LEMMA WhenFacts ==
    ASSUME NEW c, NEW kind, NEW severity
    PROVE  /\ When(c, kind, severity) = {} <=> ~c
           /\ HasSeverity(When(c, kind, severity), severity) <=> c
           /\ \A s : s # severity => ~HasSeverity(When(c, kind, severity), s)
<1>1. CASE c
  <2>1. When(c, kind, severity) = {Issue(kind, severity)} /\ Issue(kind, severity).severity = severity
    BY <1>1 DEF When, Issue
  <2> QED BY <1>1, <2>1 DEF HasSeverity
<1>2. CASE ~c
  <2>1. When(c, kind, severity) = {}
    BY <1>2 DEF When
  <2> QED BY <1>2, <2>1 DEF HasSeverity
<1> QED BY <1>1, <1>2

LEMMA SeverityOfUnion ==
    ASSUME NEW A, NEW B, NEW s
    PROVE  HasSeverity(A \cup B, s) <=> HasSeverity(A, s) \/ HasSeverity(B, s)
BY DEF HasSeverity

LEMMA InboundFound ==
    ASSUME NEW a
    PROVE  /\ HasSeverity(InboundIssues(a), "refused") <=> Refused(a)
           /\ HasSeverity(InboundIssues(a), "interrupt") <=> Interrupted(a)
           /\ InboundIssues(a) = {} <=> ~Unidentified(a) /\ ~Refused(a) /\ ~Interrupted(a)
<1> DEFINE kind == a.requested_action_kind
           i1 == When(kind \in FORBIDDEN_ACTION_SET \/ a.requests = "direct_mutation",
                      "direct_mutation_requested", "refused")
           i2 == When(kind = "direct_assignment" \/ a.requests = "assignment", "assignment_requested", "refused")
           i3 == When(kind \in {"direct_dispatch", "job_dispatch"} \/ a.requests = "dispatch",
                      "dispatch_requested", "refused")
           i4 == When(kind \in {"direct_operations_control", "operations_control"}
                          \/ a.requests = "operations_control",
                      "operations_control_requested", "refused")
           i5 == When(kind \in {"direct_live_machine_control", "live_machine_control"}
                          \/ a.requests = "live_control",
                      "live_control_requested", "refused")
           i6 == When(StaleOrStopped(a) /\ kind \notin {"rebake_request", "interrupt_resolution_request"},
                      "stale_or_stopped_projection", "interrupt")
           found == i1 \cup i2 \cup i3 \cup i4 \cup i5
<1>1. InboundIssues(a) = IdentityIssues(a) \cup found \cup i6
  BY DEF InboundIssues
<1>2. /\ HasSeverity(found, "refused") <=> Refused(a)
      /\ ~HasSeverity(found, "interrupt")
      /\ found = {} <=> ~Refused(a)
  <2>1. {"direct_assignment", "direct_dispatch", "job_dispatch", "direct_operations_control", "operations_control",
         "direct_live_machine_control", "live_machine_control"} \subseteq FORBIDDEN_ACTION_SET
    BY DEF FORBIDDEN_ACTION_SET
  <2> DEFINE c1 == kind \in FORBIDDEN_ACTION_SET \/ a.requests = "direct_mutation"
             c2 == kind = "direct_assignment" \/ a.requests = "assignment"
             c3 == kind \in {"direct_dispatch", "job_dispatch"} \/ a.requests = "dispatch"
             c4 == kind \in {"direct_operations_control", "operations_control"} \/ a.requests = "operations_control"
             c5 == kind \in {"direct_live_machine_control", "live_machine_control"} \/ a.requests = "live_control"
  <2>2. Refused(a) <=> c1 \/ c2 \/ c3 \/ c4 \/ c5
    BY <2>1 DEF Refused, Requested
  <2>3. /\ i1 = When(c1, "direct_mutation_requested", "refused")
        /\ i2 = When(c2, "assignment_requested", "refused")
        /\ i3 = When(c3, "dispatch_requested", "refused")
        /\ i4 = When(c4, "operations_control_requested", "refused")
        /\ i5 = When(c5, "live_control_requested", "refused")
    OBVIOUS
  <2> HIDE DEF i1, i2, i3, i4, i5, c1, c2, c3, c4, c5
  <2>4. /\ i1 = {} <=> ~c1
        /\ i2 = {} <=> ~c2
        /\ i3 = {} <=> ~c3
        /\ i4 = {} <=> ~c4
        /\ i5 = {} <=> ~c5
    BY <2>3, WhenFacts
  <2>5. /\ HasSeverity(i1, "refused") <=> c1
        /\ HasSeverity(i2, "refused") <=> c2
        /\ HasSeverity(i3, "refused") <=> c3
        /\ HasSeverity(i4, "refused") <=> c4
        /\ HasSeverity(i5, "refused") <=> c5
    BY <2>3, WhenFacts
  <2>6. /\ ~HasSeverity(i1, "interrupt") /\ ~HasSeverity(i2, "interrupt") /\ ~HasSeverity(i3, "interrupt")
        /\ ~HasSeverity(i4, "interrupt") /\ ~HasSeverity(i5, "interrupt")
    BY <2>3, WhenFacts
  <2>7. found = {} <=> i1 = {} /\ i2 = {} /\ i3 = {} /\ i4 = {} /\ i5 = {}
    OBVIOUS
  <2>8. \A s : HasSeverity(found, s) <=> \/ HasSeverity(i1, s) \/ HasSeverity(i2, s) \/ HasSeverity(i3, s)
                                         \/ HasSeverity(i4, s) \/ HasSeverity(i5, s)
    BY DEF HasSeverity
  <2> HIDE DEF found
  <2> QED BY <2>2, <2>4, <2>5, <2>6, <2>7, <2>8
<1>3. /\ ~HasSeverity(IdentityIssues(a), "refused") /\ ~HasSeverity(IdentityIssues(a), "interrupt")
      /\ IdentityIssues(a) = {} <=> ~Unidentified(a)
  <2> DEFINE c1 == kind = NoValue
             c2 == a.actor_ref = NoValue
             c3 == a.carrier_surface = NoValue
             c4 == ~a.authority_notice_seen
             j1 == When(c1, "missing_action", "blocked")
             j2 == When(c2, "missing_actor", "blocked")
             j3 == When(c3, "missing_carrier", "blocked")
             j4 == When(c4, "missing_authority_notice", "blocked")
  <2>1. IdentityIssues(a) = j1 \cup j2 \cup j3 \cup j4
    BY DEF IdentityIssues
  <2>2. Unidentified(a) <=> c1 \/ c2 \/ c3 \/ c4
    BY DEF Unidentified
  <2> HIDE DEF c1, c2, c3, c4
  <2>3. /\ j1 = {} <=> ~c1
        /\ j2 = {} <=> ~c2
        /\ j3 = {} <=> ~c3
        /\ j4 = {} <=> ~c4
    BY WhenFacts
  <2>4. \A s : s # "blocked" => /\ ~HasSeverity(j1, s) /\ ~HasSeverity(j2, s)
                                /\ ~HasSeverity(j3, s) /\ ~HasSeverity(j4, s)
    BY WhenFacts
  <2> HIDE DEF j1, j2, j3, j4
  <2>5. \A s : HasSeverity(IdentityIssues(a), s)
                 <=> HasSeverity(j1, s) \/ HasSeverity(j2, s) \/ HasSeverity(j3, s) \/ HasSeverity(j4, s)
    BY <2>1 DEF HasSeverity
  <2>6. IdentityIssues(a) = {} <=> j1 = {} /\ j2 = {} /\ j3 = {} /\ j4 = {}
    BY <2>1
  <2> QED BY <2>2, <2>3, <2>4, <2>5, <2>6
<1>4. /\ HasSeverity(i6, "interrupt") <=> Interrupted(a)
      /\ ~HasSeverity(i6, "refused")
      /\ i6 = {} <=> ~Interrupted(a)
  <2>1. i6 = When(Interrupted(a), "stale_or_stopped_projection", "interrupt")
    BY DEF Interrupted, Resolving
  <2> HIDE DEF i6
  <2> QED BY <2>1, WhenFacts
<1> HIDE DEF found, i6
<1>5. /\ HasSeverity(InboundIssues(a), "refused") <=> Refused(a)
      /\ HasSeverity(InboundIssues(a), "interrupt") <=> Interrupted(a)
  BY <1>1, <1>2, <1>3, <1>4, SeverityOfUnion
<1>6. InboundIssues(a) = {} <=> ~Unidentified(a) /\ ~Refused(a) /\ ~Interrupted(a)
  BY <1>1, <1>2, <1>3, <1>4
<1> QED BY <1>5, <1>6

\* Where an action goes that is neither refused nor interrupted.
Route(kind) == ClassificationForAction(kind, {})

LEMMA ClassificationCascade ==
    ASSUME NEW kind, NEW issues
    PROVE  ClassificationForAction(kind, issues)
               = IF HasSeverity(issues, "refused") THEN "refused"
                 ELSE IF HasSeverity(issues, "interrupt") THEN "SOP_first_interrupt_required"
                 ELSE IF kind \in LOW_AUTHORITY_ACTION_SET THEN "low_authority_context"
                 ELSE IF kind = "proposal" THEN "proposal_record_required"
                 ELSE IF kind = "work_request" THEN "work_request_record_required"
                 ELSE IF kind = "claim_request" THEN "coordination_review_required"
                 ELSE IF kind \in {"review_request", "rebake_request"} THEN "completion_review_required"
                 ELSE IF kind = "interrupt_resolution_request" THEN "SOP_first_interrupt_required"
                 ELSE IF kind = "human_override_request" THEN "human_override_review_required"
                 ELSE IF kind \in OPERATION_LIKE_ACTION_SET THEN "dry_run_or_safety_review_required"
                 ELSE "SOP_first_interrupt_required"
<1> DEFINE c1 == HasSeverity(issues, "refused")
           c2 == HasSeverity(issues, "interrupt")
           c3 == kind \in LOW_AUTHORITY_ACTION_SET
           c4 == kind = "proposal"
           c5 == kind = "work_request"
           c6 == kind = "claim_request"
           c7 == kind \in {"review_request", "rebake_request"}
           c8 == kind = "interrupt_resolution_request"
           c9 == kind = "human_override_request"
           c10 == kind \in OPERATION_LIKE_ACTION_SET
<1>1. ClassificationForAction(kind, issues)
          = FirstOf(<< <<c1, "refused">>, <<c2, "SOP_first_interrupt_required">>, <<c3, "low_authority_context">>,
                       <<c4, "proposal_record_required">>, <<c5, "work_request_record_required">>,
                       <<c6, "coordination_review_required">>, <<c7, "completion_review_required">>,
                       <<c8, "SOP_first_interrupt_required">>, <<c9, "human_override_review_required">>,
                       <<c10, "dry_run_or_safety_review_required">> >>, "SOP_first_interrupt_required")
  BY DEF ClassificationForAction
<1> HIDE DEF c1, c2, c3, c4, c5, c6, c7, c8, c9, c10
<1>2. ClassificationForAction(kind, issues)
          = IF c1 THEN "refused" ELSE IF c2 THEN "SOP_first_interrupt_required"
            ELSE IF c3 THEN "low_authority_context" ELSE IF c4 THEN "proposal_record_required"
            ELSE IF c5 THEN "work_request_record_required" ELSE IF c6 THEN "coordination_review_required"
            ELSE IF c7 THEN "completion_review_required" ELSE IF c8 THEN "SOP_first_interrupt_required"
            ELSE IF c9 THEN "human_override_review_required"
            ELSE IF c10 THEN "dry_run_or_safety_review_required" ELSE "SOP_first_interrupt_required"
  BY <1>1, First10
<1> QED BY <1>2 DEF c1, c2, c3, c4, c5, c6, c7, c8, c9, c10

\* What was seen of a record decides only between the route of the kind and an
\* interrupt.
LEMMA ClassificationFacts ==
    ASSUME NEW a
    PROVE  /\ Classification(a) = IF Refused(a) THEN "refused"
                                  ELSE IF Interrupted(a) THEN "SOP_first_interrupt_required"
                                  ELSE Route(a.requested_action_kind)
           /\ Route(a.requested_action_kind) # "refused"
           /\ InboundAccepted(a) <=> ~Unidentified(a) /\ ~Refused(a) /\ ~Interrupted(a)
<1> DEFINE kind == a.requested_action_kind
<1>1. ~HasSeverity({}, "refused") /\ ~HasSeverity({}, "interrupt")
  BY DEF HasSeverity
<1>2. Route(kind) # "refused"
  BY <1>1, ClassificationCascade DEF Route
<1>3. ClassificationForAction(kind, InboundIssues(a))
          = IF HasSeverity(InboundIssues(a), "refused") THEN "refused"
            ELSE IF HasSeverity(InboundIssues(a), "interrupt") THEN "SOP_first_interrupt_required"
            ELSE Route(kind)
  BY <1>1, ClassificationCascade DEF Route
<1>4. Classification(a) = IF Refused(a) THEN "refused"
                          ELSE IF Interrupted(a) THEN "SOP_first_interrupt_required" ELSE Route(kind)
  BY <1>3, InboundFound DEF Classification
<1> HIDE DEF kind
<1>5. InboundAccepted(a) <=> ~Unidentified(a) /\ ~Refused(a) /\ ~Interrupted(a)
  BY <1>2, <1>4, InboundFound DEF InboundAccepted
<1> QED BY <1>2, <1>4, <1>5 DEF kind

-----------------------------------------------------------------------------
(* The invariant.                                                          *)

Families == DOMAIN SURFACE_CAPABILITY_MAP

\* A record shows its packet p, projected or read as it is.
IsRecord(r, p) ==
    /\ r.packet = p
    /\ IsPacket(p)
    /\ IF r.projected
       THEN /\ ProjectedStatus(p) \in ProjectionStatus
            /\ \E family \in Families : r.envelope = ProjectedEnvelope(family, p)
       ELSE r.envelope = EnvelopeFromMapping(p)

\* The packet at hand is one, what is shown is made of one, which may be an
\* earlier one, and an action was classified on such a record.
ShownInv ==
    /\ IsPacket(packet)
    /\ learned \in 0 .. MaxLearned
    /\ \A r \in shown : shown = {r} /\ IsRecord(r, r.packet)
    /\ \A i \in inbound : /\ inbound = {i}
                          /\ shown = {}
                          /\ IsRecord(i.record, i.record.packet)
                          /\ i.classification = Classification(InboundPacket(i.record.envelope, i.asked))
                          /\ i.accepted = InboundAccepted(InboundPacket(i.record.envelope, i.asked))

LEMMA ShownInit == Init => ShownInv
BY P6Assumption DEF Init, ShownInv

LEMMA LearnStep ==
    ASSUME ShownInv, NEW change \in Learnable, Learn(change)
    PROVE  ShownInv'
<1>1. IsPacket(packet')
  <2>1. IsPacket(change)
    BY P6Assumption
  <2>2. packet' = Merged(change, packet)
    BY DEF Learn
  <2> QED BY <2>1, <2>2, PacketMerged DEF ShownInv
<1>2. learned' \in 0 .. MaxLearned /\ shown' = shown /\ inbound' = {}
  BY P6Assumption DEF Learn, ShownInv
<1>3. IsPacket(packet)'
  BY <1>1 DEF IsPacket
<1> QED BY <1>2, <1>3 DEF ShownInv

LEMMA ProjectStep ==
    ASSUME ShownInv, NEW family \in Families, Project(family)
    PROVE  ShownInv'
<1> DEFINE r == [projected |-> TRUE, packet |-> packet, envelope |-> ProjectedEnvelope(family, packet)]
<1>1. shown' = {r} /\ inbound' = {} /\ packet' = packet /\ learned' = learned
  BY DEF Project
<1>2. r.packet = packet /\ r.projected /\ r.envelope = ProjectedEnvelope(family, packet)
  OBVIOUS
<1>3. ProjectedStatus(packet) \in ProjectionStatus
  BY StatusType DEF Project
<1> HIDE DEF r
<1>4. IsRecord(r, packet)
  BY <1>2, <1>3 DEF IsRecord, ShownInv
<1>5. IsPacket(packet)'
  BY <1>1 DEF IsPacket, ShownInv
<1>6. \A q \in shown' : shown' = {q} /\ IsRecord(q, q.packet)
  BY <1>1, <1>2, <1>4
<1> QED BY <1>1, <1>5, <1>6 DEF ShownInv

LEMMA ReadStep == ASSUME ShownInv, Read PROVE ShownInv'
<1> DEFINE r == [projected |-> FALSE, packet |-> packet, envelope |-> EnvelopeFromMapping(packet)]
<1>1. shown' = {r} /\ inbound' = {} /\ packet' = packet /\ learned' = learned
  BY DEF Read
<1>2. r.packet = packet /\ ~r.projected /\ r.envelope = EnvelopeFromMapping(packet)
  OBVIOUS
<1> HIDE DEF r
<1>3. IsRecord(r, packet)
  BY <1>2 DEF IsRecord, ShownInv
<1>4. IsPacket(packet)'
  BY <1>1 DEF IsPacket, ShownInv
<1>5. \A q \in shown' : shown' = {q} /\ IsRecord(q, q.packet)
  BY <1>1, <1>2, <1>3
<1> QED BY <1>1, <1>4, <1>5 DEF ShownInv

LEMMA AskStep ==
    ASSUME ShownInv, NEW asked, Ask(asked)
    PROVE  ShownInv'
<1>1. PICK r \in shown :
          inbound' = {[record |-> r, asked |-> asked,
                       classification |-> Classification(InboundPacket(r.envelope, asked)),
                       accepted |-> InboundAccepted(InboundPacket(r.envelope, asked))]}
  BY DEF Ask
<1> DEFINE c == Classification(InboundPacket(r.envelope, asked))
           b == InboundAccepted(InboundPacket(r.envelope, asked))
           i == [record |-> r, asked |-> asked, classification |-> c, accepted |-> b]
<1>2. inbound' = {i} /\ shown' = {} /\ packet' = packet /\ learned' = learned
  BY <1>1 DEF Ask
<1>3. i.record = r /\ i.asked = asked /\ i.classification = c /\ i.accepted = b
  OBVIOUS
<1>4. IsRecord(r, r.packet)
  BY DEF ShownInv
<1> HIDE DEF i
<1>5. /\ IsRecord(i.record, i.record.packet)
      /\ i.classification = Classification(InboundPacket(i.record.envelope, i.asked))
      /\ i.accepted = InboundAccepted(InboundPacket(i.record.envelope, i.asked))
  BY <1>3, <1>4
<1> HIDE DEF c, b
<1> QED BY <1>2, <1>5 DEF ShownInv

LEMMA ShownStep == ShownInv /\ [Next]_vars => ShownInv'
<1> SUFFICES ASSUME ShownInv, [Next]_vars PROVE ShownInv'
  OBVIOUS
<1>1. CASE \E change \in Learnable : Learn(change)
  BY <1>1, LearnStep
<1>2. CASE \E family \in Families : Project(family)
  BY <1>2, ProjectStep
<1>3. CASE Read
  BY <1>3, ReadStep
<1>4. CASE \E asked \in Asked : Ask(asked)
  BY <1>4, AskStep
<1>5. CASE UNCHANGED vars
  BY <1>5 DEF vars, ShownInv
<1> QED BY <1>1, <1>2, <1>3, <1>4, <1>5 DEF Next, Families

\* What is on display and what was classified is made of a packet.
LEMMA ShownInvariant == Spec => []ShownInv
BY ShownInit, ShownStep, PTL DEF Spec

-----------------------------------------------------------------------------
(* What follows.                                                           *)

LEMMA ShownTypes == ShownInv => TypeOK
<1> SUFFICES ASSUME ShownInv PROVE TypeOK
  OBVIOUS
<1>1. ASSUME NEW r \in shown
      PROVE  /\ r.envelope.authority_tier \in AuthorityTier
             /\ r.envelope.freshness_state \in FreshnessState
             /\ r.envelope.projected_status \in ProjectionStatus
  <2> DEFINE p == r.packet
  <2>1. IsRecord(r, p) /\ IsPacket(p)
    BY DEF ShownInv, IsRecord
  <2>2. CASE r.projected
    <3>1. PICK family \in Families : r.envelope = ProjectedEnvelope(family, p)
      BY <2>1, <2>2 DEF IsRecord
    <3>2. ProjectedStatus(p) \in ProjectionStatus
      BY <2>1, <2>2 DEF IsRecord
    <3> QED BY <2>1, <3>1, <3>2, ProjectedFields, TierType, FreshnessType
  <2>3. CASE ~r.projected
    <3>1. r.envelope = EnvelopeFromMapping(p)
      BY <2>1, <2>3 DEF IsRecord
    <3>2. Get(p, "authority_tier", "generated_projection_evidence") \in AuthorityTier
      BY <2>1 DEF IsPacket, Get, AuthorityTier
    <3>3. Get(p, "projected_status", "blocked") \in StatusWord
      BY <2>1 DEF IsPacket, Get, StatusWord, ProjectionStatus
    <3> QED BY <2>1, <3>1, <3>2, <3>3, ReadFields, FreshnessType, StatusValueType
  <2> QED BY <2>2, <2>3
<1>2. ASSUME NEW i \in inbound PROVE i.accepted \in BOOLEAN
  <2>1. i.accepted = InboundAccepted(InboundPacket(i.record.envelope, i.asked))
    BY DEF ShownInv
  <2> QED BY <2>1 DEF InboundAccepted
<1> QED BY <1>1, <1>2 DEF TypeOK, ShownInv

\* What the validation of an envelope requires of one that it accepts.
LEMMA ValidEnvelope ==
    ASSUME NEW e, EnvelopeIssues(e) = {}
    PROVE  /\ e.authority_notice_ref # NoValue
           /\ e.projected_status = "ready" => e.stop_state_ref_set = {} /\ e.freshness_state = "fresh"
<1> DEFINE c1 == e.authority_notice_ref = NoValue
           c2 == e.projected_status = "ready" /\ HasStopState(e)
           c3 == e.projected_status = "ready" /\ e.freshness_state # "fresh"
           severity == SeverityForFreshness(e.freshness_state)
<1>1. /\ When(c1, "missing_authority_notice", "fault") = {}
      /\ When(c2, "ready_with_stop_state", severity) = {}
      /\ When(c3, "ready_with_unfresh_state", severity) = {}
  BY DEF EnvelopeIssues
<1>2. ~c1 /\ ~c2 /\ ~c3
  <2> HIDE DEF c1, c2, c3, severity
  <2> QED BY <1>1, WhenFacts
<1> QED BY <1>2 DEF HasStopState

\* What a user of a record sends.
LEMMA SentFacts ==
    ASSUME NEW e, NEW asked, NEW a, a = InboundPacket(e, asked)
    PROVE  /\ a.requested_action_kind = asked.kind
           /\ a.requests = asked.requests
           /\ a.actor_ref = asked.actor
           /\ a.carrier_surface = e.surface_family
           /\ a.authority_notice_seen <=> e.authority_notice_ref # NoValue
           /\ StaleOrStopped(a) <=> e.stop_state_ref_set # {} \/ e.freshness_state # "fresh"
BY DEF InboundPacket, StaleOrStopped

\* No surface offers an action that the classifier refuses, and what surfaces
\* forbid it refuses or does not know.
LEMMA CapabilityFacts ==
    ASSUME NEW family \in Families
    PROVE  /\ family # NoValue
           /\ \A kind \in SURFACE_CAPABILITY_MAP[family].may_request_set :
                  kind # NoValue /\ kind \notin FORBIDDEN_ACTION_SET
           /\ \A kind \in SURFACE_CAPABILITY_MAP[family].forbidden_effect_set :
                  kind \in FORBIDDEN_ACTION_SET \/ Route(kind) = "SOP_first_interrupt_required"
<1> DEFINE Offered == {"packet_proposal", "review_request", "rebake_request", "claim_request", "scope_question",
                       "completion_review_request", "reentry_packet_request", "source_reconsideration_request",
                       "fault_review_request", "trace_review_request", "observation", "comment", "proposal",
                       "work_request", "diagram_review_request", "export_reconsideration_request"}
           Specific == {"claim_acceptance", "scope_expansion", "source_narrative_rewrite",
                        "canonical_specification_rewrite", "fault_repair", "checkpoint_authority_promotion",
                        "transcript_as_source_authority", "Codex_thread_state_as_authority",
                        "terminal_output_as_authority", "IRC_event_as_authority", "Matrix_event_as_authority",
                        "web_UI_state_as_authority", "Langflow_flow_execution",
                        "Langflow_node_success_to_completion_acceptance"}
<1>1. Families = {"manager", "worker", "narrative", "debug", "chat", "Codex", "terminal", "IRC", "Matrix", "web",
                  "Langflow"}
  BY DEF Families, SURFACE_CAPABILITY_MAP
<1>2. /\ SURFACE_CAPABILITY_MAP[family].may_request_set \subseteq Offered
      /\ SURFACE_CAPABILITY_MAP[family].forbidden_effect_set \subseteq COMMON_FORBIDDEN_EFFECT_SET \cup Specific
  <2>1. CASE family \in {"manager", "worker", "narrative", "debug"}
    BY <2>1 DEF SURFACE_CAPABILITY_MAP, Capability
  <2>2. CASE family \in {"chat", "Codex", "terminal", "IRC"}
    BY <2>2 DEF SURFACE_CAPABILITY_MAP, Capability, Talk
  <2>3. CASE family \in {"Matrix", "web", "Langflow"}
    BY <2>3 DEF SURFACE_CAPABILITY_MAP, Capability, Talk
  <2> QED BY <1>1, <2>1, <2>2, <2>3
<1>3. family # NoValue
  BY <1>1, Zenon DEF NoValue
<1>4. \A kind \in Offered : kind # NoValue
  BY Zenon DEF NoValue
<1>5. \A kind \in Offered : kind \notin FORBIDDEN_ACTION_SET
  BY DEF FORBIDDEN_ACTION_SET
<1>6. COMMON_FORBIDDEN_EFFECT_SET \subseteq FORBIDDEN_ACTION_SET
  BY DEF COMMON_FORBIDDEN_EFFECT_SET, FORBIDDEN_ACTION_SET
<1>7. ASSUME NEW kind \in Specific PROVE Route(kind) = "SOP_first_interrupt_required"
  <2>1. ~HasSeverity({}, "refused") /\ ~HasSeverity({}, "interrupt")
    BY DEF HasSeverity
  <2>2. /\ kind \notin LOW_AUTHORITY_ACTION_SET /\ kind \notin OPERATION_LIKE_ACTION_SET
        /\ kind \notin {"proposal", "work_request", "claim_request", "review_request", "rebake_request",
                        "interrupt_resolution_request", "human_override_request"}
    BY DEF LOW_AUTHORITY_ACTION_SET, OPERATION_LIKE_ACTION_SET
  <2> HIDE DEF Specific
  <2> QED BY <2>1, <2>2, ClassificationCascade DEF Route
<1> HIDE DEF Offered, Specific
<1> QED BY <1>2, <1>3, <1>4, <1>5, <1>6, <1>7

\* A projected record that is not ready is stopped for the classifier.
LEMMA UnreadyIsStopped ==
    ASSUME NEW p
    PROVE  ProjectedStatus(p) # "ready" => StopsOf(p) # {}
BY StopsFound DEF StopsOf

LEMMA ReadyIsClear == ShownInv => AcceptedReadyIsClear
<1> SUFFICES ASSUME ShownInv, NEW r \in shown, r.projected, r.envelope.projected_status = "ready",
                    EnvelopeIssues(r.envelope) = {}
             PROVE  /\ NonpromotionIssue(r.packet) = "none"
                    /\ \A kind \in r.envelope.permitted_action_set : InboundAccepted(Sighted(r.envelope, kind))
  BY DEF AcceptedReadyIsClear
<1> DEFINE e == r.envelope
           p == r.packet
<1>1. PICK family \in Families : e = ProjectedEnvelope(family, p)
  BY DEF ShownInv, IsRecord
<1>2. e.stop_state_ref_set = {} /\ e.freshness_state = "fresh" /\ e.authority_notice_ref # NoValue
  BY ValidEnvelope
<1> HIDE DEF e, p
<1>3. NonpromotionIssue(p) = "none"
  BY <1>1, <1>2, ProjectedFields, StopsFound DEF StopsOf
<1>4. ASSUME NEW kind \in e.permitted_action_set PROVE InboundAccepted(Sighted(e, kind))
  <2> DEFINE asked == [kind |-> kind, requests |-> "none", actor |-> "user"]
             a == InboundPacket(e, asked)
  <2>1. Sighted(e, kind) = a /\ asked.kind = kind /\ asked.requests = "none" /\ asked.actor = "user"
    BY DEF Sighted
  <2>2. kind # NoValue /\ kind \notin FORBIDDEN_ACTION_SET /\ e.surface_family # NoValue
    BY <1>1, ProjectedFields, CapabilityFacts
  <2>3. "user" # NoValue
    BY Zenon DEF NoValue
  <2> HIDE DEF asked
  <2>4. /\ a.requested_action_kind = kind /\ a.requests = "none" /\ a.actor_ref = "user"
        /\ a.carrier_surface = e.surface_family /\ a.authority_notice_seen /\ ~StaleOrStopped(a)
    BY <1>2, <2>1, SentFacts
  <2>5. ~Unidentified(a) /\ ~Refused(a) /\ ~Interrupted(a)
    BY <2>2, <2>3, <2>4 DEF Unidentified, Refused, Requested, Interrupted
  <2> HIDE DEF a
  <2> QED BY <2>1, <2>5, ClassificationFacts
<1> QED BY <1>1, <1>3, <1>4 DEF e, p

\* The cascade of status_for_p6_evidence.
LEMMA StoppedEvidence ==
    ASSUME NEW stops, NEW invalidations, NEW issues, stops # {}
    PROVE  StatusForEvidence(stops, invalidations, issues) # "ready"
<1> DEFINE c1 == HasSeverity(issues, "fault")
           c2 == HasSeverity(issues, "refused")
           c3 == HasSeverity(issues, "interrupt")
           c4 == HasSeverity(issues, "stale") \/ invalidations # {}
           c5 == HasSeverity(issues, "blocked") \/ stops # {}
<1>1. StatusForEvidence(stops, invalidations, issues)
          = FirstOf(<< <<c1, "faulted">>, <<c2, "refused">>, <<c3, "interrupted">>, <<c4, "stale">>,
                       <<c5, "blocked">> >>, "ready")
  BY DEF StatusForEvidence
<1>2. c5
  OBVIOUS
<1> HIDE DEF c1, c2, c3, c4, c5
<1>3. StatusForEvidence(stops, invalidations, issues)
          = IF c1 THEN "faulted" ELSE IF c2 THEN "refused" ELSE IF c3 THEN "interrupted"
            ELSE IF c4 THEN "stale" ELSE IF c5 THEN "blocked" ELSE "ready"
  BY <1>1, First5
<1> QED BY <1>2, <1>3

LEMMA RereadKeeps == ShownInv => RereadKeepsStop
<1> SUFFICES ASSUME ShownInv, NEW r \in shown, r.projected, r.envelope.projected_status # "ready"
             PROVE  r.envelope.stop_state_ref_set # {}
  BY StoppedEvidence DEF RereadKeepsStop
<1>1. PICK family \in Families : r.envelope = ProjectedEnvelope(family, r.packet)
  BY DEF ShownInv, IsRecord
<1> QED BY <1>1, ProjectedFields, UnreadyIsStopped

-----------------------------------------------------------------------------
(* What is stopped or forbidden, and what evidence does.                   *)

\* What a user of a projected record sends.
LEMMA ProjectedSent ==
    ASSUME NEW family \in Families, NEW p, NEW asked, NEW a, a = InboundPacket(ProjectedEnvelope(family, p), asked)
    PROVE  /\ a.requested_action_kind = asked.kind
           /\ a.requests = asked.requests
           /\ a.actor_ref = asked.actor
           /\ a.carrier_surface # NoValue
           /\ StaleOrStopped(a) <=> StopsOf(p) # {} \/ FreshnessOf(p) # "fresh"
<1> DEFINE e == ProjectedEnvelope(family, p)
<1>1. /\ e.surface_family = family /\ e.freshness_state = FreshnessOf(p)
      /\ e.stop_state_ref_set = StopsOf(p)
  BY ProjectedFields
<1>2. family # NoValue
  BY CapabilityFacts
<1> HIDE DEF e
<1>3. a = InboundPacket(e, asked)
  BY DEF e
<1> QED BY <1>1, <1>2, <1>3, SentFacts

LEMMA StoppedRoutesNothing == ShownInv => StoppedRecordsRouteNothing
<1> SUFFICES ASSUME ShownInv, NEW i \in inbound, i.record.projected, ShowsStop(i.record.envelope)
             PROVE  IF i.asked.kind \in Resolving
                    THEN /\ i.asked.requests = "none" /\ i.asked.actor # NoValue
                         /\ i.record.envelope.authority_notice_ref # NoValue
                         => i.accepted
                    ELSE i.classification \in Halted /\ ~i.accepted
  BY DEF StoppedRecordsRouteNothing, Resolving
<1> DEFINE e == i.record.envelope
           p == i.record.packet
           a == InboundPacket(e, i.asked)
<1>1. PICK family \in Families : e = ProjectedEnvelope(family, p)
  BY DEF ShownInv, IsRecord
<1>2. i.classification = Classification(a) /\ i.accepted = InboundAccepted(a)
  BY DEF ShownInv
<1>3. /\ e.projected_status = ProjectedStatus(p) /\ e.stop_state_ref_set = StopsOf(p)
      /\ e.freshness_state = FreshnessOf(p)
  BY <1>1, ProjectedFields
<1>4. StopsOf(p) # {} \/ FreshnessOf(p) # "fresh"
  BY <1>3, UnreadyIsStopped DEF ShowsStop
<1> HIDE DEF e, p
<1>5. /\ a.requested_action_kind = i.asked.kind /\ a.requests = i.asked.requests /\ a.actor_ref = i.asked.actor
      /\ a.carrier_surface # NoValue /\ StaleOrStopped(a)
  BY <1>1, <1>4, ProjectedSent
<1>6. a.authority_notice_seen <=> e.authority_notice_ref # NoValue
  BY SentFacts
<1> HIDE DEF a
<1>7. CASE i.asked.kind \in Resolving
  <2>1. i.asked.kind # NoValue
    BY <1>7, Zenon DEF Resolving, NoValue
  <2>2. i.asked.kind \notin FORBIDDEN_ACTION_SET
    BY <1>7 DEF Resolving, FORBIDDEN_ACTION_SET
  <2>3. ASSUME i.asked.requests = "none", i.asked.actor # NoValue, e.authority_notice_ref # NoValue
        PROVE  i.accepted
    <3>1. ~Refused(a)
      BY <1>5, <2>2, <2>3 DEF Refused, Requested
    <3>2. ~Interrupted(a)
      BY <1>5, <1>7 DEF Interrupted
    <3>3. ~Unidentified(a)
      BY <1>5, <1>6, <2>1, <2>3 DEF Unidentified
    <3> QED BY <1>2, <3>1, <3>2, <3>3, ClassificationFacts
  <2> QED BY <1>7, <2>3 DEF e
<1>8. CASE i.asked.kind \notin Resolving
  <2>1. Interrupted(a)
    BY <1>5, <1>8 DEF Interrupted
  <2>2. Classification(a) \in Halted /\ ~InboundAccepted(a)
    BY <2>1, ClassificationFacts DEF Halted
  <2> QED BY <1>2, <1>8, <2>2
<1> QED BY <1>7, <1>8

\* The validation of a ready record finds its invalidations, and those of a
\* record that is not ready are not needed to stop the actions on it.
LEMMA RoutedIsClear == ShownInv => RoutedRecordsAreClearOrRejected
<1> SUFFICES ASSUME ShownInv, NEW i \in inbound, i.record.projected,
                    i.asked.kind \notin Resolving, i.classification \notin Halted,
                    HasStopState(i.record.envelope)
             PROVE  HasKind(EnvelopeIssues(i.record.envelope), "ready_with_stop_state")
  BY DEF RoutedRecordsAreClearOrRejected, Resolving
<1> DEFINE e == i.record.envelope
<1>1. e.projected_status = "ready"
  BY StoppedRoutesNothing DEF StoppedRecordsRouteNothing, Resolving, ShowsStop
<1> DEFINE c == e.projected_status = "ready" /\ HasStopState(e)
           severity == SeverityForFreshness(e.freshness_state)
           w == When(c, "ready_with_stop_state", severity)
<1>3. w \subseteq EnvelopeIssues(e)
  BY DEF EnvelopeIssues
<1>4. c
  BY <1>1
<1> HIDE DEF c, severity
<1>5. Issue("ready_with_stop_state", severity) \in w
  BY <1>4 DEF When
<1>6. Issue("ready_with_stop_state", severity).issue_kind = "ready_with_stop_state"
  BY DEF Issue
<1> QED BY <1>3, <1>5, <1>6 DEF HasKind

LEMMA ForbiddenRoutesNothing == ShownInv => ForbiddenIsNeverRouted
<1> SUFFICES ASSUME ShownInv, NEW r \in shown, r.projected, NEW kind \in r.envelope.forbidden_action_set
             PROVE  Classification(Sighted(r.envelope, kind)) \in Halted
  BY DEF ForbiddenIsNeverRouted
<1> DEFINE asked == [kind |-> kind, requests |-> "none", actor |-> "user"]
           a == InboundPacket(r.envelope, asked)
<1>1. PICK family \in Families : r.envelope = ProjectedEnvelope(family, r.packet)
  BY DEF ShownInv, IsRecord
<1>2. kind \in FORBIDDEN_ACTION_SET \/ Route(kind) = "SOP_first_interrupt_required"
  BY <1>1, ProjectedFields, CapabilityFacts
<1>3. Sighted(r.envelope, kind) = a /\ asked.kind = kind
  BY DEF Sighted
<1> HIDE DEF asked
<1>4. a.requested_action_kind = kind
  BY <1>3, SentFacts
<1> HIDE DEF a
<1> QED BY <1>2, <1>3, <1>4, ClassificationFacts DEF Refused, Halted

\* A change for the worse stops what was stopped.
LEMMA WorseIsStopped ==
    ASSUME NEW change \in Adverse, NEW p, StopsOf(p) # {} \/ FreshnessOf(p) # "fresh"
    PROVE  StopsOf(Merged(change, p)) # {} \/ FreshnessOf(Merged(change, p)) # "fresh"
<1> DEFINE m == Merged(change, p)
<1>0. ASSUME NEW q
      PROVE  StopsOf(q) # {} <=> \/ Get(q, "stop_state_ref_set", {}) # {}
                                 \/ Promoting(q)
                                 \/ ProjectedStatus(q) # "ready"
  BY StopsFound, NonpromotionFinds DEF StopsOf
<1>1. \A field, default : Get(m, field, default)
                              = IF field \in DOMAIN change THEN change[field] ELSE Get(p, field, default)
  BY GetMerged
<1>2. CASE change = [f \in {"stop_state_ref_set"} |-> {"evidence"}]
  <2>1. Get(m, "stop_state_ref_set", {}) # {}
    BY <1>1, <1>2
  <2> QED BY <1>0, <2>1
<1>3. CASE \E flag \in {"dispatch_authority", "live_effect"} : change = [f \in {flag} |-> TRUE]
  <2>1. Get(m, "dispatch_authority", FALSE) \/ Get(m, "live_effect", FALSE)
    BY <1>1, <1>3
  <2> QED BY <1>0, <2>1 DEF Promoting
<1>4. CASE change = [freshness_state |-> "stale"]
  <2>1. Get(m, "freshness_state", "unknown") = "stale"
    BY <1>1, <1>4
  <2> QED BY <2>1 DEF FreshnessOf, Freshness
<1>6. CASE change = [claimed_authority_class |-> "source_authority"]
  <2>1. Get(m, "claimed_authority_class", NoValue) = "source_authority"
    BY <1>1, <1>6
  <2> QED BY <1>0, <2>1 DEF Promoting, ForbiddenAuthorityClass
<1>7. CASE \/ change = [f \in {"invalidation_ref_set"} |-> {"evidence"}]
           \/ change = [f \in {"source_authority_mutation_requested"} |-> TRUE]
           \/ change = [required_notice |-> NoValue]
  <2>1. /\ Get(m, "stop_state_ref_set", {}) = Get(p, "stop_state_ref_set", {})
        /\ Get(m, "freshness_state", "unknown") = Get(p, "freshness_state", "unknown")
        /\ Get(m, "freshness_state", NoValue) = Get(p, "freshness_state", NoValue)
        /\ Get(m, "projected_status", NoValue) = Get(p, "projected_status", NoValue)
        /\ Get(m, "requested_action_kind", NoValue) = Get(p, "requested_action_kind", NoValue)
        /\ \A default : Get(m, "inbound_action_kind", default) = Get(p, "inbound_action_kind", default)
        /\ "projected_status" \in DOMAIN m <=> "projected_status" \in DOMAIN p
    BY <1>1, <1>7 DEF Merged
  <2>2. FreshnessOf(m) = FreshnessOf(p)
    BY <2>1 DEF FreshnessOf
  <2>3. Promoting(p) => Promoting(m)
    <3>1. RecordClass(m) = RecordClass(p)
      <4>1. /\ \A default : Get(m, "projection_record_kind", default) = Get(p, "projection_record_kind", default)
            /\ \A default : Get(m, "record_class", default) = Get(p, "record_class", default)
            /\ \A default : Get(m, "nonpromoted_class", default) = Get(p, "nonpromoted_class", default)
        BY <1>1, <1>7
      <4> QED BY <4>1 DEF RecordClass
    <3>2. HasNotice(m) => HasNotice(p)
      BY <1>1, <1>7 DEF HasNotice
    <3>3. \A field \in {"claimed_authority_class", "assignment_authority", "dispatch_authority",
                        "operations_control_authority", "live_control_authority", "live_effect",
                        "freshness_state", "source_authority_state"} :
              \A default : Get(m, field, default) = Get(p, field, default)
      BY <1>1, <1>7
    <3> HIDE DEF m
    <3> QED BY <3>1, <3>2, <3>3 DEF Promoting
  <2>4. SourceMutationRequested(p) => SourceMutationRequested(m)
    BY <1>1, <1>7, <2>1 DEF SourceMutationRequested
  <2>5. ASSUME ~Promoting(m), ProjectedStatus(m) = "ready"
        PROVE  ProjectedStatus(p) = "ready"
    <3>1. NonpromotionIssue(p) = "none" /\ NonpromotionIssue(m) = "none"
      BY <2>3, <2>5, NonpromotionFinds
    <3> QED BY <2>1, <2>2, <2>4, <2>5, <3>1, StatusCascade DEF ProjectedStatus
  <2> QED BY <1>0, <2>1, <2>2, <2>3, <2>5
<1>8. \/ change = [f \in {"stop_state_ref_set"} |-> {"evidence"}]
      \/ change = [f \in {"invalidation_ref_set"} |-> {"evidence"}]
      \/ change = [f \in {"source_authority_mutation_requested"} |-> TRUE]
      \/ \E flag \in {"dispatch_authority", "live_effect"} : change = [f \in {flag} |-> TRUE]
      \/ change = [freshness_state |-> "stale"]
      \/ change = [claimed_authority_class |-> "source_authority"]
      \/ change = [required_notice |-> NoValue]
  BY DEF Adverse
<1> QED BY <1>2, <1>3, <1>4, <1>6, <1>7, <1>8

LEMMA WorseIsNoLooser == ShownInv => EvidenceNeverLoosens
<1> SUFFICES ASSUME ShownInv, NEW i \in inbound, i.record.projected, NEW change \in Adverse
             PROVE  Strictness(Classification(InboundPacket(
                        ProjectedEnvelope(i.record.envelope.surface_family, Merged(change, i.record.packet)), i.asked)))
                        >= Strictness(i.classification)
  BY DEF EvidenceNeverLoosens
<1>1. PICK family \in Families : i.record.envelope = ProjectedEnvelope(family, i.record.packet)
  BY DEF ShownInv, IsRecord
<1>2. i.record.envelope.surface_family = family
  BY <1>1, ProjectedFields
<1> DEFINE a == InboundPacket(ProjectedEnvelope(family, i.record.packet), i.asked)
           b == InboundPacket(ProjectedEnvelope(family, Merged(change, i.record.packet)), i.asked)
<1>3. i.classification = Classification(a)
  BY <1>1 DEF ShownInv
<1>4. /\ a.requested_action_kind = b.requested_action_kind /\ a.requests = b.requests
      /\ StaleOrStopped(a) => StaleOrStopped(b)
  BY ProjectedSent, WorseIsStopped
<1> HIDE DEF a, b
<1>5. /\ Refused(a) <=> Refused(b)
      /\ Interrupted(a) => Interrupted(b)
  BY <1>4 DEF Refused, Interrupted
<1>6. Route(a.requested_action_kind) # "refused" /\ Route(b.requested_action_kind) # "refused"
  BY ClassificationFacts
<1>7. \A c : Strictness(c) = IF c = "refused" THEN 2 ELSE IF c = "SOP_first_interrupt_required" THEN 1 ELSE 0
  BY DEF Strictness
<1>8. Strictness(Classification(b)) >= Strictness(Classification(a))
  BY <1>4, <1>5, <1>6, <1>7, ClassificationFacts
<1> QED BY <1>2, <1>3, <1>8 DEF b

-----------------------------------------------------------------------------
(* The theorems.                                                           *)

\* A projected record that passes its validation and is ready has no issue of
\* nonpromotion behind it, and every action that its surface offers is accepted
\* (project_p6_surface, validate_p6_projection_envelope,
\* classify_p6_inbound_action).
THEOREM AcceptedReadyCorrect == Spec => []AcceptedReadyIsClear
BY ShownInvariant, ReadyIsClear, PTL

\* status_for_p6_evidence, asked anew about the stops of a projected record and
\* the issues of its validation, never finds ready what is shown as stopped.
THEOREM RereadCorrect == Spec => []RereadKeepsStop
BY ShownInvariant, RereadKeeps, PTL

\* On a projected record that is not ready, not fresh or has stops
\* classify_p6_inbound_action lets nothing pass but the two actions that resolve
\* a stop, however old the record is; an action passes on one that is invalidated
\* only after validate_p6_projection_envelope rejected it; and what a surface
\* forbids is routed nowhere.
THEOREM StoppedCorrect == Spec => []ShownStopsHalt
<1>1. ShownInv => ShownStopsHalt
  BY ShownTypes, StoppedRoutesNothing, RoutedIsClear, ForbiddenRoutesNothing DEF ShownStopsHalt
<1> QED BY <1>1, ShownInvariant, PTL

\* More evidence against a packet never loosens the classification of an action
\* on the record that is projected of it.
THEOREM EvidenceCorrect == Spec => []EvidenceNeverLoosens
BY ShownInvariant, WorseIsNoLooser, PTL

=============================================================================
