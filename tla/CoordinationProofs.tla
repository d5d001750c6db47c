-------------------------- MODULE CoordinationProofs --------------------------
(***************************************************************************)
(* Two agents that work never write the same subject, and two agents that  *)
(* compare the same claims agree, for any agents, subjects and claims; and *)
(* what is projected of a claim reads its evidence the same way everywhere.*)
(*                                                                         *)
(* The argument for the workers: of two agents with a published claim, the *)
(* one that published last has looked at the claim the other one has now,  *)
(* if it has looked at all.  So when an agent starts on a verdict about a  *)
(* claim that was replaced, the agent that replaced it has looked at this  *)
(* one's claim before it started itself.                                   *)
(***************************************************************************)
EXTENDS CoordinationProjection, TLAPS

NoConflict(p, q) == \/ p.claim_id = q.claim_id
                    \/ WriteScope(p) \cap WriteScope(q) = {}

\* The verdict of a on b is about the claim that b has now.
Current(a, b) == verdicts[a][b].theirs = claims[b]
Found(a, b) == verdicts[a][b] # NoVerdict

\* The inductive invariant, part by part.
Functions == /\ DOMAIN claims = Agents
             /\ claims = [a \in Agents |-> claims[a]]
             /\ verdicts = [a \in Agents |-> verdicts[a]]
             /\ \A a \in Agents : verdicts[a] = [b \in Agents |-> verdicts[a][b]]
WorkersPublished == working \subseteq Published
UnpublishedFoundNothing == \A a \in Agents \ Published : \A b \in Agents : ~Found(a, b)
VerdictsAreRight ==
    \A a, b \in Agents : Found(a, b) =>
        /\ verdicts[a][b].mine = claims[a]
        /\ verdicts[a][b].relation = Compatibility(verdicts[a][b].mine, verdicts[a][b].theirs)
OneIsCurrent ==
    \A a, b \in Published : a # b /\ Found(a, b) /\ Found(b, a) => Current(a, b) \/ Current(b, a)
StaleIsCovered ==
    \A a \in Published, b \in working :
        a # b /\ Found(a, b) /\ ~Current(a, b) => Compatible(verdicts[b][a]) /\ Current(b, a)
NoCollision == \A a, b \in working : a = b \/ NoConflict(claims[a], claims[b])

IInv == /\ Functions
        /\ WorkersPublished
        /\ UnpublishedFoundNothing
        /\ VerdictsAreRight
        /\ OneIsCurrent
        /\ StaleIsCovered
        /\ NoCollision

-----------------------------------------------------------------------------
(* The comparison.                                                         *)

\* A compatible relation is one of claims that do not conflict.
LEMMA CompatibleMeansNoConflict ==
    ASSUME NEW p, NEW q, Compatibility(p, q) \in CompatibleRelations
    PROVE  NoConflict(p, q)
  BY DEF Compatibility, CompatibleRelations, NoConflict

\* The comparison does not depend on which claim comes first.
LEMMA CompatibilityIsSymmetric ==
    ASSUME NEW p, NEW q
    PROVE  Compatibility(p, q) = Compatibility(q, p)
  BY DEF Compatibility, ReadOverlap

LEMMA NoConflictIsSymmetric ==
    ASSUME NEW p, NEW q, NoConflict(p, q)
    PROVE  NoConflict(q, p)
  BY DEF NoConflict

-----------------------------------------------------------------------------
(* The invariant.                                                          *)

LEMMA InitInvariant == Init => IInv
  BY DEF Init, ClaimsInit, IInv, Functions, WorkersPublished, UnpublishedFoundNothing, VerdictsAreRight,
         OneIsCurrent, StaleIsCovered, NoCollision, Found, Published

LEMMA PublishInvariant ==
    ASSUME IInv, NEW a \in Agents, NEW claim, Publish(a, claim)
    PROVE  IInv'
  <1> USE DEF Publish
  <1>1. Functions'
    BY DEF IInv, Functions
  <1>2. \A x \in Agents : x # a => claims'[x] = claims[x]
    BY DEF IInv, Functions
  <1>3. /\ Published' \subseteq Published \cup {a}
        /\ Published \subseteq Published'
        /\ a \notin Published
    BY <1>2 DEF Published
  <1>4. \A b \in Agents : ~Found(a, b)
    BY <1>3 DEF IInv, UnpublishedFoundNothing
  <1>5. /\ \A x, y \in Agents : Found(x, y)' <=> Found(x, y)
        /\ \A x, y \in Agents : y # a => (Current(x, y)' <=> Current(x, y))
    BY <1>2 DEF Found, Current
  <1>6. WorkersPublished'
    BY <1>3 DEF IInv, WorkersPublished
  <1>7. UnpublishedFoundNothing'
    BY <1>3, <1>5 DEF IInv, UnpublishedFoundNothing
  <1>8. VerdictsAreRight'
    BY <1>2, <1>4, <1>5 DEF IInv, VerdictsAreRight
  <1>9. OneIsCurrent'
    BY <1>3, <1>4, <1>5 DEF IInv, OneIsCurrent, Published
  <1>10. StaleIsCovered'
    BY <1>3, <1>4, <1>5 DEF IInv, StaleIsCovered, WorkersPublished, Compatible, Published
  <1>11. NoCollision'
    BY <1>2, <1>3 DEF IInv, NoCollision, WorkersPublished, Published
  <1> QED
    BY <1>1, <1>6, <1>7, <1>8, <1>9, <1>10, <1>11 DEF IInv

LEMMA CompareInvariant ==
    ASSUME IInv, NEW a \in Agents, NEW b \in Agents, Compare(a, b)
    PROVE  IInv'
  <1>0. claims' = claims /\ verdicts' = [verdicts EXCEPT ![a][b] = Verdict(a, b)]
    BY DEF Compare
  <1>1. Functions'
    <2> DEFINE v == Verdict(a, b)
    <2>1. /\ DOMAIN claims = Agents /\ claims = [x \in Agents |-> claims[x]]
          /\ DOMAIN verdicts = Agents
          /\ \A x \in Agents : verdicts[x] = [y \in Agents |-> verdicts[x][y]]
      BY DEF IInv, Functions
    <2> HIDE DEF v
    <2>2. verdicts' = [verdicts EXCEPT ![a] = [verdicts[a] EXCEPT ![b] = v]]
      BY <1>0 DEF v
    <2>3. \A x \in Agents : verdicts'[x] = [y \in Agents |-> verdicts'[x][y]]
      BY <2>1, <2>2
    <2>4. verdicts' = [x \in Agents |-> verdicts'[x]]
      BY <2>1, <2>2
    <2> QED BY <1>0, <2>1, <2>3, <2>4 DEF Functions
  <1> USE DEF Compare
  <1>2. /\ verdicts'[a][b] = Verdict(a, b)
        /\ \A x, y \in Agents : <<x, y>> # <<a, b>> => verdicts'[x][y] = verdicts[x][y]
    BY DEF IInv, Functions
  <1>3. Published' = Published
    BY DEF Published
  <1>4. Current(a, b)'
    BY <1>2 DEF Current, Verdict
  <1>5. \A x, y \in Agents : <<x, y>> # <<a, b>> =>
            /\ Found(x, y)' <=> Found(x, y)
            /\ Current(x, y)' <=> Current(x, y)
    BY <1>2 DEF Found, Current
  <1>6. WorkersPublished' /\ NoCollision'
    BY <1>3 DEF IInv, WorkersPublished, NoCollision
  <1>7. UnpublishedFoundNothing'
    BY <1>3, <1>5 DEF IInv, UnpublishedFoundNothing
  <1>8. VerdictsAreRight'
    BY <1>2, <1>5 DEF IInv, VerdictsAreRight, Verdict
  <1>9. OneIsCurrent'
    BY <1>3, <1>4, <1>5 DEF IInv, OneIsCurrent, Published
  <1>10. StaleIsCovered'
    BY <1>2, <1>3, <1>4, <1>5 DEF IInv, StaleIsCovered, WorkersPublished, Compatible, Published
  <1> QED
    BY <1>1, <1>6, <1>7, <1>8, <1>9, <1>10 DEF IInv

LEMMA StartInvariant ==
    ASSUME IInv, NEW a \in Agents, Start(a)
    PROVE  IInv'
  <1> USE DEF Start
  <1>1. Published' = Published /\ claims' = claims /\ verdicts' = verdicts
    BY DEF Published
  <1>2. Functions' /\ WorkersPublished' /\ UnpublishedFoundNothing' /\ VerdictsAreRight' /\ OneIsCurrent'
    <2>1. Functions'
      BY <1>1 DEF IInv, Functions
    <2>2. WorkersPublished'
      BY <1>1 DEF IInv, WorkersPublished
    <2>3. UnpublishedFoundNothing' /\ OneIsCurrent'
      BY <1>1 DEF IInv, UnpublishedFoundNothing, OneIsCurrent, Found, Current
    <2>4. VerdictsAreRight'
      BY <1>1 DEF IInv, VerdictsAreRight, Found
    <2> QED
      BY <2>1, <2>2, <2>3, <2>4
  <1>3. ASSUME NEW b \in Published, a # b
        PROVE  Found(a, b) /\ Compatible(verdicts[a][b])
    BY <1>3 DEF Compatible, Found
  <1>4. StaleIsCovered'
    <2> SUFFICES ASSUME NEW x \in Published, NEW y \in working \cup {a},
                        x # y, Found(x, y), ~Current(x, y)
                 PROVE  Compatible(verdicts[y][x]) /\ Current(y, x)
      BY <1>1 DEF StaleIsCovered, Found, Current, Compatible
    <2>1. CASE y \in working
      BY <2>1 DEF IInv, StaleIsCovered
    <2>2. CASE y = a
      <3>1. Found(a, x) /\ Compatible(verdicts[a][x])
        BY <1>3, <2>2
      <3> QED
        BY <3>1, <2>2 DEF IInv, OneIsCurrent
    <2> QED
      BY <2>1, <2>2
  <1>5. ASSUME NEW b \in working, a # b
        PROVE  NoConflict(claims[a], claims[b])
    <2>1. b \in Published /\ b \in Agents
      BY DEF IInv, WorkersPublished, Published
    <2>2. Found(a, b) /\ Compatible(verdicts[a][b])
      BY <1>3, <1>5, <2>1
    <2>3. CASE Current(a, b)
      <3>1. Compatibility(claims[a], claims[b]) \in CompatibleRelations
        BY <2>1, <2>2, <2>3 DEF IInv, VerdictsAreRight, Current, Compatible
      <3> QED
        BY <3>1, CompatibleMeansNoConflict
    <2>4. CASE ~Current(a, b)
      <3>1. Compatible(verdicts[b][a]) /\ Current(b, a)
        BY <1>5, <2>2, <2>4 DEF IInv, StaleIsCovered
      <3>2. Compatibility(claims[b], claims[a]) \in CompatibleRelations
        BY <2>1, <3>1 DEF IInv, VerdictsAreRight, Current, Compatible, Found
      <3> QED
        BY <3>2, CompatibleMeansNoConflict, NoConflictIsSymmetric
    <2> QED
      BY <2>3, <2>4
  <1>6. NoCollision'
    BY <1>1, <1>5, NoConflictIsSymmetric DEF IInv, NoCollision
  <1> QED
    BY <1>2, <1>4, <1>6 DEF IInv

LEMMA ReleaseInvariant ==
    ASSUME IInv, NEW a \in Agents, Release(a)
    PROVE  IInv'
  <1> USE DEF Release
  <1>1. Functions'
    <2>1. /\ DOMAIN claims' = Agents
          /\ claims' = [x \in Agents |-> claims'[x]]
      BY DEF IInv, Functions
    <2>2. verdicts' = [x \in Agents |-> verdicts'[x]]
      BY DEF IInv, Functions
    <2>3. \A x \in Agents : verdicts'[x] = [b \in Agents |-> verdicts'[x][b]]
      BY DEF IInv, Functions
    <2> QED
      BY <2>1, <2>2, <2>3 DEF Functions
  <1>2. /\ \A x \in Agents : x # a => claims'[x] = claims[x]
        /\ \A x, y \in Agents : x # a => verdicts'[x][y] = verdicts[x][y]
        /\ \A y \in Agents : verdicts'[a][y] = NoVerdict
    BY DEF IInv, Functions
  <1>3. Published' = Published \ {a}
    BY <1>2 DEF Published, IInv, Functions
  <1>4. /\ \A y \in Agents : ~Found(a, y)'
        /\ \A x, y \in Agents : x # a => (Found(x, y)' <=> Found(x, y))
        /\ \A x, y \in Agents : x # a /\ y # a => (Current(x, y)' <=> Current(x, y))
    BY <1>2 DEF Found, Current
  <1>5. WorkersPublished' /\ UnpublishedFoundNothing'
    BY <1>3, <1>4 DEF IInv, WorkersPublished, UnpublishedFoundNothing
  <1>6. VerdictsAreRight'
    BY <1>2, <1>4 DEF IInv, VerdictsAreRight
  <1>7. OneIsCurrent'
    BY <1>3, <1>4 DEF IInv, OneIsCurrent, Published
  <1>8. StaleIsCovered'
    BY <1>2, <1>3, <1>4 DEF IInv, StaleIsCovered, WorkersPublished, Compatible, Published
  <1>9. NoCollision'
    BY <1>2, <1>3 DEF IInv, NoCollision, WorkersPublished, Published
  <1> QED
    BY <1>1, <1>5, <1>6, <1>7, <1>8, <1>9 DEF IInv

LEMMA StepInvariant == IInv /\ [Next]_vars => IInv'
  <1> SUFFICES ASSUME IInv, [Next]_vars
               PROVE  IInv'
    OBVIOUS
  <1>1. ASSUME UNCHANGED claimVars
        PROVE  IInv'
    <2> USE <1>1 DEF claimVars, IInv
    <2>1. Functions'
      BY DEF Functions
    <2>2. Published' = Published
      BY DEF Published
    <2>3. WorkersPublished' /\ NoCollision'
      BY <2>2 DEF WorkersPublished, NoCollision
    <2>4. UnpublishedFoundNothing' /\ OneIsCurrent'
      BY <2>2 DEF UnpublishedFoundNothing, OneIsCurrent, Found, Current
    <2>5. VerdictsAreRight'
      BY DEF VerdictsAreRight, Found
    <2>6. StaleIsCovered'
      BY <2>2 DEF StaleIsCovered, Found, Current, Compatible
    <2> QED
      BY <2>1, <2>3, <2>4, <2>5, <2>6
  <1>2. CASE ClaimsNext
    BY <1>2, PublishInvariant, CompareInvariant, StartInvariant, ReleaseInvariant DEF ClaimsNext
  <1>3. CASE \E a, b \in Agents, from \in Circumstances : Project(a, b, from)
    BY <1>1, <1>3 DEF Project
  <1>4. CASE Discard
    BY <1>1, <1>4 DEF Discard
  <1>5. CASE UNCHANGED vars
    BY <1>1, <1>5 DEF vars, claimVars
  <1> QED
    BY <1>2, <1>3, <1>4, <1>5 DEF Next

LEMMA Invariance == Spec => []IInv
  BY InitInvariant, StepInvariant, PTL DEF Spec

-----------------------------------------------------------------------------
(* What follows.                                                           *)

\* classify_claim_compatibility keeps agents that work from writing the same
\* subject, however their comparisons interleave with new claims.
THEOREM WorkersDoNotCollideTheorem == Spec => []WorkersDoNotCollide
  <1>1. IInv => WorkersDoNotCollide
    BY DEF IInv, NoCollision, NoConflict, WorkersDoNotCollide
  <1> QED
    BY <1>1, Invariance, PTL

\* Two agents that compared the same two claims found the same relation.
THEOREM VerdictsAgreeTheorem == Spec => []VerdictsAgree
  <1>1. IInv => VerdictsAgree
    BY CompatibilityIsSymmetric DEF IInv, VerdictsAreRight, Found, VerdictsAgree
  <1> QED
    BY <1>1, Invariance, PTL
-----------------------------------------------------------------------------
(* Cascades of early returns as nested conditions.                         *)

LEMMA First3 ==
    ASSUME NEW c1, NEW v1, NEW c2, NEW v2, NEW c3, NEW v3, NEW o
    PROVE  FirstOf(<< <<c1, v1>>, <<c2, v2>>, <<c3, v3>> >>, o)
               = IF c1 THEN v1 ELSE IF c2 THEN v2 ELSE IF c3 THEN v3 ELSE o
  BY DEF FirstOf

LEMMA First4 ==
    ASSUME NEW c1, NEW v1, NEW c2, NEW v2, NEW c3, NEW v3, NEW c4, NEW v4, NEW o
    PROVE  FirstOf(<< <<c1, v1>>, <<c2, v2>>, <<c3, v3>>, <<c4, v4>> >>, o)
               = IF c1 THEN v1 ELSE IF c2 THEN v2 ELSE IF c3 THEN v3 ELSE IF c4 THEN v4 ELSE o
  BY DEF FirstOf

LEMMA First5 ==
    ASSUME NEW c1, NEW v1, NEW c2, NEW v2, NEW c3, NEW v3, NEW c4, NEW v4, NEW c5, NEW v5, NEW o
    PROVE  FirstOf(<< <<c1, v1>>, <<c2, v2>>, <<c3, v3>>, <<c4, v4>>, <<c5, v5>> >>, o)
               = IF c1 THEN v1 ELSE IF c2 THEN v2 ELSE IF c3 THEN v3 ELSE IF c4 THEN v4
                 ELSE IF c5 THEN v5 ELSE o
  BY DEF FirstOf

LEMMA First7 ==
    ASSUME NEW c1, NEW v1, NEW c2, NEW v2, NEW c3, NEW v3, NEW c4, NEW v4, NEW c5, NEW v5,
           NEW c6, NEW v6, NEW c7, NEW v7, NEW o
    PROVE  FirstOf(<< <<c1, v1>>, <<c2, v2>>, <<c3, v3>>, <<c4, v4>>, <<c5, v5>>, <<c6, v6>>, <<c7, v7>> >>, o)
               = IF c1 THEN v1 ELSE IF c2 THEN v2 ELSE IF c3 THEN v3 ELSE IF c4 THEN v4
                 ELSE IF c5 THEN v5 ELSE IF c6 THEN v6 ELSE IF c7 THEN v7 ELSE o
<1> DEFINE cases == << <<c1, v1>>, <<c2, v2>>, <<c3, v3>>, <<c4, v4>>, <<c5, v5>>, <<c6, v6>>, <<c7, v7>> >>
           holding == {i \in 1 .. 7 : cases[i][1]}
<1>1. Len(cases) = 7
  OBVIOUS
<1>2. /\ 1 \in holding <=> c1
      /\ 2 \in holding <=> c2
      /\ 3 \in holding <=> c3
      /\ 4 \in holding <=> c4
      /\ 5 \in holding <=> c5
      /\ 6 \in holding <=> c6
      /\ 7 \in holding <=> c7
  OBVIOUS
<1>3. /\ cases[1][2] = v1 /\ cases[2][2] = v2 /\ cases[3][2] = v3 /\ cases[4][2] = v4
      /\ cases[5][2] = v5 /\ cases[6][2] = v6 /\ cases[7][2] = v7
  OBVIOUS
<1>4. FirstOf(cases, o) = IF holding = {} THEN o
                          ELSE cases[CHOOSE i \in holding : \A j \in holding : i <= j][2]
  BY <1>1 DEF FirstOf
<1>5. holding \subseteq {1, 2, 3, 4, 5, 6, 7}
  OBVIOUS
<1> HIDE DEF cases, holding
<1>6. ASSUME NEW n \in holding, \A j \in holding : n <= j
      PROVE  FirstOf(cases, o) = cases[n][2]
  <2> DEFINE m == CHOOSE i \in holding : \A j \in holding : i <= j
  <2>0. m \in holding /\ \A j \in holding : m <= j
    BY <1>6
  <2> HIDE DEF m
  <2>1. m = n
    BY <1>5, <1>6, <2>0
  <2> QED BY <1>4, <1>6, <2>1 DEF m
<1>7. CASE c1
  <2>1. \A j \in holding : 1 <= j
    BY <1>5
  <2> QED BY <1>2, <1>3, <1>6, <1>7, <2>1 DEF cases
<1>8. CASE ~c1 /\ c2
  <2>1. \A j \in holding : 2 <= j
    BY <1>2, <1>5, <1>8
  <2> QED BY <1>2, <1>3, <1>6, <1>8, <2>1 DEF cases
<1>9. CASE ~c1 /\ ~c2 /\ c3
  <2>1. \A j \in holding : 3 <= j
    BY <1>2, <1>5, <1>9
  <2> QED BY <1>2, <1>3, <1>6, <1>9, <2>1 DEF cases
<1>10. CASE ~c1 /\ ~c2 /\ ~c3 /\ c4
  <2>1. \A j \in holding : 4 <= j
    BY <1>2, <1>5, <1>10
  <2> QED BY <1>2, <1>3, <1>6, <1>10, <2>1 DEF cases
<1>11. CASE ~c1 /\ ~c2 /\ ~c3 /\ ~c4 /\ c5
  <2>1. \A j \in holding : 5 <= j
    BY <1>2, <1>5, <1>11
  <2> QED BY <1>2, <1>3, <1>6, <1>11, <2>1 DEF cases
<1>12. CASE ~c1 /\ ~c2 /\ ~c3 /\ ~c4 /\ ~c5 /\ c6
  <2>1. \A j \in holding : 6 <= j
    BY <1>2, <1>5, <1>12
  <2> QED BY <1>2, <1>3, <1>6, <1>12, <2>1 DEF cases
<1>13. CASE ~c1 /\ ~c2 /\ ~c3 /\ ~c4 /\ ~c5 /\ ~c6 /\ c7
  <2>1. \A j \in holding : 7 <= j
    BY <1>2, <1>5, <1>13
  <2> QED BY <1>2, <1>3, <1>6, <1>13, <2>1 DEF cases
<1>14. CASE ~c1 /\ ~c2 /\ ~c3 /\ ~c4 /\ ~c5 /\ ~c6 /\ ~c7
  <2>1. holding = {}
    BY <1>2, <1>5, <1>14
  <2> QED BY <1>4, <1>14, <2>1 DEF cases
<1> QED BY <1>7, <1>8, <1>9, <1>10, <1>11, <1>12, <1>13, <1>14

LEMMA BySeverity3 ==
    ASSUME NEW issues, NEW s1, NEW v1, NEW s2, NEW v2, NEW s3, NEW v3, NEW o
    PROVE  BySeverity(issues, << <<s1, v1>>, <<s2, v2>>, <<s3, v3>> >>, o)
               = IF HasSeverity(issues, s1) THEN v1 ELSE IF HasSeverity(issues, s2) THEN v2
                 ELSE IF HasSeverity(issues, s3) THEN v3 ELSE o
<1> DEFINE cases == << <<s1, v1>>, <<s2, v2>>, <<s3, v3>> >>
           H(s) == HasSeverity(issues, s)
<1>1. [i \in 1 .. Len(cases) |-> <<H(cases[i][1]), cases[i][2]>>]
        = << <<H(s1), v1>>, <<H(s2), v2>>, <<H(s3), v3>> >>
  OBVIOUS
<1> QED  BY <1>1, First3 DEF BySeverity

LEMMA BySeverity5 ==
    ASSUME NEW issues, NEW s1, NEW v1, NEW s2, NEW v2, NEW s3, NEW v3, NEW s4, NEW v4, NEW s5, NEW v5, NEW o
    PROVE  BySeverity(issues, << <<s1, v1>>, <<s2, v2>>, <<s3, v3>>, <<s4, v4>>, <<s5, v5>> >>, o)
               = IF HasSeverity(issues, s1) THEN v1 ELSE IF HasSeverity(issues, s2) THEN v2
                 ELSE IF HasSeverity(issues, s3) THEN v3 ELSE IF HasSeverity(issues, s4) THEN v4
                 ELSE IF HasSeverity(issues, s5) THEN v5 ELSE o
<1> DEFINE cases == << <<s1, v1>>, <<s2, v2>>, <<s3, v3>>, <<s4, v4>>, <<s5, v5>> >>
           H(s) == HasSeverity(issues, s)
<1>1. [i \in 1 .. Len(cases) |-> <<H(cases[i][1]), cases[i][2]>>]
        = << <<H(s1), v1>>, <<H(s2), v2>>, <<H(s3), v3>>, <<H(s4), v4>>, <<H(s5), v5>> >>
  OBVIOUS
<1> QED  BY <1>1, First5 DEF BySeverity

-----------------------------------------------------------------------------
(* The projections.                                                        *)

\* What is published was submitted, what works was accepted, and a projection
\* has the freshness of its mailbox and the routes of its evidence.
ClaimsSubmitted == \A a \in Published : claims[a] \in Submissions[a]
WorkersAccepted == \A a \in working : ClaimIdentityIssues(claims[a]) = {}
BoundaryRight ==
    Projected => /\ boundary \in WorkBoundaryProjectionEnvelope
                 /\ boundary.freshness_state = MailboxFreshness(boundary.mailbox)
BoundaryInv == ClaimsSubmitted /\ WorkersAccepted /\ BoundaryRight

LEMMA FreshnessIs ==
    ASSUME NEW m
    PROVE  /\ MailboxFreshness(m) =
                  IF m.missing_message_hash THEN "stale"
                  ELSE IF m.last_modified = {} \/ m.read_cursor = {} THEN "unknown"
                  ELSE IF \E t \in m.last_modified, c \in m.read_cursor : NoticeAfterCursor(t, c)
                       THEN "pending_review" ELSE "fresh"
           /\ MailboxFreshness(m) \in ClaimFreshnessState
<1> DEFINE c1 == m.missing_message_hash
           c2 == m.last_modified = {} \/ m.read_cursor = {}
           c3 == \E t \in m.last_modified, c \in m.read_cursor : NoticeAfterCursor(t, c)
<1>1. MailboxFreshness(m) = FirstOf(<< <<c1, "stale">>, <<c2, "unknown">>, <<c3, "pending_review">> >>, "fresh")
  BY DEF MailboxFreshness
<1> HIDE DEF c1, c2, c3
<1>2. MailboxFreshness(m) = IF c1 THEN "stale" ELSE IF c2 THEN "unknown" ELSE IF c3 THEN "pending_review" ELSE "fresh"
  BY <1>1, First3
<1> QED BY <1>2 DEF c1, c2, c3, ClaimFreshnessState

\* boundary_status_for_claim_evidence and _severity_for_boundary, unfolded.
LEMMA StatusIs ==
    ASSUME NEW evidence
    PROVE  BoundaryStatus(evidence) =
               IF "fault" \in evidence THEN "faulted"
               ELSE IF "ambiguous_identity" \in evidence THEN "interrupted"
               ELSE IF "stale_trigger" \in evidence THEN "stale"
               ELSE IF "refusal_reason" \in evidence THEN "refused"
               ELSE IF "blocker" \in evidence THEN "blocked"
               ELSE IF "contested_claim" \in evidence THEN "contested"
               ELSE IF "pending_review" \in evidence THEN "pending_review" ELSE "dependency_closed"
<1> DEFINE c1 == "fault" \in evidence
           c2 == "ambiguous_identity" \in evidence
           c3 == "stale_trigger" \in evidence
           c4 == "refusal_reason" \in evidence
           c5 == "blocker" \in evidence
           c6 == "contested_claim" \in evidence
           c7 == "pending_review" \in evidence
<1>1. BoundaryStatus(evidence) =
        FirstOf(<< <<c1, "faulted">>, <<c2, "interrupted">>, <<c3, "stale">>, <<c4, "refused">>,
                   <<c5, "blocked">>, <<c6, "contested">>, <<c7, "pending_review">> >>, "dependency_closed")
  BY DEF BoundaryStatus
<1> HIDE DEF c1, c2, c3, c4, c5, c6, c7
<1>2. BoundaryStatus(evidence) =
        IF c1 THEN "faulted" ELSE IF c2 THEN "interrupted" ELSE IF c3 THEN "stale" ELSE IF c4 THEN "refused"
        ELSE IF c5 THEN "blocked" ELSE IF c6 THEN "contested" ELSE IF c7 THEN "pending_review"
        ELSE "dependency_closed"
  BY <1>1, First7
<1> QED BY <1>2 DEF c1, c2, c3, c4, c5, c6, c7

LEMMA SeverityIs ==
    ASSUME NEW evidence
    PROVE  SeverityForBoundary(evidence) =
               IF "fault" \in evidence THEN "fault"
               ELSE IF "ambiguous_identity" \in evidence THEN "interrupt"
               ELSE IF "stale_trigger" \in evidence THEN "stale"
               ELSE IF "refusal_reason" \in evidence THEN "refused" ELSE "blocked"
<1> DEFINE c1 == "fault" \in evidence
           c2 == "ambiguous_identity" \in evidence
           c3 == "stale_trigger" \in evidence
           c4 == "refusal_reason" \in evidence
<1>1. SeverityForBoundary(evidence) =
        FirstOf(<< <<c1, "fault">>, <<c2, "interrupt">>, <<c3, "stale">>, <<c4, "refused">> >>, "blocked")
  BY DEF SeverityForBoundary
<1> HIDE DEF c1, c2, c3, c4
<1>2. SeverityForBoundary(evidence) =
        IF c1 THEN "fault" ELSE IF c2 THEN "interrupt" ELSE IF c3 THEN "stale" ELSE IF c4 THEN "refused"
        ELSE "blocked"
  BY <1>1, First4
<1> QED BY <1>2 DEF c1, c2, c3, c4

LEMMA RoutesAreRoutes ==
    ASSUME NEW context
    PROVE  RequiredRoutes(ConflictIssues(context)) \subseteq CoordinationRoutes
<1>1. KindsOf(ConflictIssues(context)) \subseteq DOMAIN RoutesForIssue
  BY DEF KindsOf, ConflictIssues, When, Issue, RoutesForIssue
<1> QED BY <1>1 DEF RequiredRoutes, CoordinationRoutes

LEMMA InitBoundary == Init => BoundaryInv
  BY DEF Init, ClaimsInit, BoundaryInv, ClaimsSubmitted, WorkersAccepted, BoundaryRight, Published, Projected

LEMMA ClaimsStep ==
    ASSUME IInv, BoundaryInv, ClaimsNext
    PROVE  ClaimsSubmitted' /\ WorkersAccepted'
<1> PICK a \in Agents : \/ \E claim \in Submissions[a] : Publish(a, claim)
                        \/ \E b \in Agents : Compare(a, b)
                        \/ Start(a)
                        \/ Release(a)
  BY DEF ClaimsNext
<1> USE DEF BoundaryInv, IInv, Functions
<1>1. ASSUME NEW claim \in Submissions[a], Publish(a, claim)
      PROVE  ClaimsSubmitted' /\ WorkersAccepted'
  <2>1. claims'[a] = claim /\ \A x \in Agents : x # a => claims'[x] = claims[x]
    BY <1>1 DEF Publish
  <2>2. Published' \subseteq Published \cup {a} /\ a \notin working
    BY <1>1, <2>1 DEF Publish, Published, WorkersPublished
  <2>3. ClaimsSubmitted'
    BY <2>1, <2>2 DEF ClaimsSubmitted, Published
  <2>4. WorkersAccepted'
    BY <1>1, <2>1, <2>2 DEF Publish, WorkersAccepted, WorkersPublished, Published
  <2> QED BY <2>3, <2>4
<1>2. ASSUME NEW b \in Agents, Compare(a, b)
      PROVE  ClaimsSubmitted' /\ WorkersAccepted'
  BY <1>2 DEF Compare, ClaimsSubmitted, WorkersAccepted, Published
<1>3. ASSUME Start(a)
      PROVE  ClaimsSubmitted' /\ WorkersAccepted'
  BY <1>3 DEF Start, ClaimsSubmitted, WorkersAccepted, Published
<1>4. ASSUME Release(a)
      PROVE  ClaimsSubmitted' /\ WorkersAccepted'
  <2>1. claims'[a] = NoClaim /\ \A x \in Agents : x # a => claims'[x] = claims[x]
    BY <1>4 DEF Release
  <2>2. ClaimsSubmitted'
    BY <2>1 DEF ClaimsSubmitted, Published
  <2>3. WorkersAccepted'
    BY <1>4, <2>1 DEF Release, WorkersAccepted, WorkersPublished, Published
  <2> QED BY <2>2, <2>3
<1> QED BY <1>1, <1>2, <1>3, <1>4

LEMMA RelationIs == ASSUME NEW p, NEW q  PROVE Compatibility(p, q) \in ClaimCompatibilityRelation
  BY DEF Compatibility, ClaimCompatibilityRelation

LEMMA ProjectStep ==
    ASSUME IInv, BoundaryInv, NEW a \in Agents, NEW b \in Agents, NEW from \in Circumstances, Project(a, b, from)
    PROVE  BoundaryInv'
<1>1. from \in Circumstance
  BY CircumstancesAssumption
<1>2. Published' = Published /\ claims' = claims /\ working' = working
  BY DEF Project, claimVars, Published
<1>3. a \in Published
  BY DEF Project, IInv, UnpublishedFoundNothing, Found
<1>4. claims[a] \in ClaimIdentityEnvelope
  BY <1>3, SubmissionsAssumption DEF BoundaryInv, ClaimsSubmitted
<1>5. claims[a].has_authority_basis \in BOOLEAN
  BY <1>4 DEF ClaimIdentityEnvelope
<1>6. verdicts[a][b].relation \in ClaimCompatibilityRelation
  BY RelationIs DEF Project, IInv, VerdictsAreRight, Found
<1>7. MailboxFreshness(from.mailbox) \in ClaimFreshnessState
  BY FreshnessIs
<1>8. BoundaryStatus(from.evidence) \in WorkBoundaryStatus /\ "dependency_closed" \in WorkBoundaryStatus
  BY StatusIs DEF WorkBoundaryStatus
<1>9. RequiredRoutes(ConflictIssues(ContextOf(from.evidence))) \in SUBSET CoordinationRoutes
  BY RoutesAreRoutes
<1>10. from.evidence \in SUBSET EvidenceKinds /\ from.mailbox \in Mailbox /\ from.computed \in BOOLEAN
  BY <1>1 DEF Circumstance
<1>11. boundary' \in WorkBoundaryProjectionEnvelope
  BY <1>5, <1>6, <1>7, <1>8, <1>9, <1>10 DEF Project, WorkBoundaryProjectionEnvelope
<1>12. boundary'.freshness_state = MailboxFreshness(boundary'.mailbox)
  BY DEF Project
<1>13. BoundaryRight'
  BY <1>11, <1>12 DEF BoundaryRight
<1> QED BY <1>2, <1>13 DEF BoundaryInv, ClaimsSubmitted, WorkersAccepted

LEMMA BoundaryStep == IInv /\ BoundaryInv /\ [Next]_vars => BoundaryInv'
<1> SUFFICES ASSUME IInv, BoundaryInv, [Next]_vars
             PROVE  BoundaryInv'
  OBVIOUS
<1>1. ASSUME UNCHANGED claimVars
      PROVE  ClaimsSubmitted' /\ WorkersAccepted'
  BY <1>1 DEF claimVars, BoundaryInv, ClaimsSubmitted, WorkersAccepted, Published
<1>2. CASE ClaimsNext /\ UNCHANGED boundary
  <2>1. BoundaryRight'
    BY <1>2 DEF BoundaryInv, BoundaryRight, Projected
  <2> QED BY <1>2, <2>1, ClaimsStep DEF BoundaryInv
<1>3. CASE \E a, b \in Agents, from \in Circumstances : Project(a, b, from)
  BY <1>3, ProjectStep
<1>4. CASE Discard
  BY <1>1, <1>4 DEF Discard, BoundaryInv, BoundaryRight, Projected
<1>5. CASE UNCHANGED vars
  <2>1. UNCHANGED claimVars /\ UNCHANGED boundary
    BY <1>5 DEF vars, claimVars
  <2>2. BoundaryRight'
    BY <2>1 DEF BoundaryInv, BoundaryRight, Projected
  <2> QED BY <1>1, <2>1, <2>2 DEF BoundaryInv
<1> QED BY <1>2, <1>3, <1>4, <1>5 DEF Next

LEMMA BoundaryInvariant == Spec => [](IInv /\ BoundaryInv)
  BY InitInvariant, StepInvariant, InitBoundary, BoundaryStep, PTL DEF Spec
-----------------------------------------------------------------------------
(* What follows for the projections.                                       *)

\* A boundary that validate_work_boundary_projection_envelope accepts as closed
\* has no stop evidence, and its mailbox was read up to its last notice.
THEOREM ClosedMeansReadAndClearTheorem == Spec => []ClosedMeansReadAndClear
<1>1. ASSUME IInv /\ BoundaryInv, AcceptedClosed
      PROVE  /\ boundary.evidence = {}
             /\ ~boundary.mailbox.missing_message_hash
             /\ \E m \in boundary.mailbox.last_modified, c \in boundary.mailbox.read_cursor : m <= c
  <2>1. /\ boundary \in WorkBoundaryProjectionEnvelope
        /\ boundary.freshness_state = MailboxFreshness(boundary.mailbox)
    BY <1>1 DEF BoundaryInv, BoundaryRight, AcceptedClosed
  <2>2. ~ClosedWithEvidence(boundary) /\ ~ClosedUnfresh(boundary)
    BY <1>1 DEF AcceptedClosed, WorkBoundaryIssues, When
  <2>3. boundary.evidence = {} /\ MailboxFreshness(boundary.mailbox) = "fresh"
    BY <1>1, <2>1, <2>2 DEF AcceptedClosed, ClosedWithEvidence, ClosedUnfresh
  <2> DEFINE mailbox == boundary.mailbox
  <2>4. /\ ~mailbox.missing_message_hash /\ mailbox.last_modified # {} /\ mailbox.read_cursor # {}
        /\ ~\E t \in mailbox.last_modified, c \in mailbox.read_cursor : NoticeAfterCursor(t, c)
    BY <2>3, FreshnessIs
  <2>5. mailbox \in Mailbox
    BY <2>1 DEF WorkBoundaryProjectionEnvelope
  <2>6. mailbox.last_modified \subseteq Nat /\ mailbox.read_cursor \subseteq Nat
    BY <2>5, TimesAssumption DEF Mailbox, Optional
  <2> HIDE DEF mailbox
  <2>7. PICK t \in mailbox.last_modified, c \in mailbox.read_cursor : TRUE
    BY <2>4
  <2>8. t <= c
    BY <2>4, <2>6, <2>7 DEF NoticeAfterCursor
  <2> QED BY <2>3, <2>4, <2>7, <2>8 DEF mailbox
<1>2. IInv /\ BoundaryInv => ClosedMeansReadAndClear
  BY <1>1 DEF ClosedMeansReadAndClear
<1> QED BY <1>2, BoundaryInvariant, PTL

\* The severities that a review sees are those of the evidence.
LEMMA ReviewedSeverities ==
    ASSUME NEW evidence
    PROVE  LET issues == ConflictIssues(ContextOf(evidence)) IN
           /\ HasSeverity(issues, "fault") <=> "fault" \in evidence
           /\ HasSeverity(issues, "interrupt") <=> "ambiguous_identity" \in evidence
           /\ HasSeverity(issues, "stale") <=> "stale_trigger" \in evidence
           /\ ~HasSeverity(issues, "refused")
           /\ HasSeverity(issues, "blocked") <=> "contested_claim" \in evidence \/ "pending_review" \in evidence
<1> DEFINE context == ContextOf(evidence)
<1>1. /\ "hidden_scope_expansion" \in context <=> "fault" \in evidence
      /\ "ambiguous_identity" \in context <=> "ambiguous_identity" \in evidence
      /\ "stale_claim" \in context <=> "stale_trigger" \in evidence
      /\ "contested_claim" \in context <=> "contested_claim" \in evidence
      /\ "pending_human_override" \in context <=> "pending_review" \in evidence
  BY DEF ContextOf
<1> HIDE DEF context
<1> DEFINE issues == ConflictIssues(context)
<1>2. \A i \in issues : i.severity \in {"fault", "interrupt", "stale", "blocked"}
  BY DEF ConflictIssues, When, Issue
<1>3. ~HasSeverity(issues, "refused")
  BY <1>2 DEF HasSeverity
<1>4. \A s : HasSeverity(issues, s) <=>
         \/ s = "fault" /\ "hidden_scope_expansion" \in context
         \/ s = "interrupt" /\ "ambiguous_identity" \in context
         \/ s = "stale" /\ "stale_claim" \in context
         \/ s = "blocked" /\ "contested_claim" \in context
         \/ s = "blocked" /\ "pending_human_override" \in context
  <2>1. \A i : i \in issues <=>
            \/ i = Issue("hidden_scope_expansion", "fault") /\ "hidden_scope_expansion" \in context
            \/ i = Issue("ambiguous_identity", "interrupt") /\ "ambiguous_identity" \in context
            \/ i = Issue("stale_claim", "stale") /\ "stale_claim" \in context
            \/ i = Issue("contested_claim", "blocked") /\ "contested_claim" \in context
            \/ i = Issue("pending_human_override", "blocked") /\ "pending_human_override" \in context
    BY DEF ConflictIssues, When
  <2>2. \A k, s : Issue(k, s).severity = s
    BY DEF Issue
  <2> HIDE DEF issues
  <2> QED BY <2>1, <2>2 DEF HasSeverity
<1> QED BY <1>1, <1>3, <1>4 DEF context

\* review_coordination_conflict agrees with boundary_status_for_claim_evidence.
LEMMA ReviewIsOfStatus ==
    ASSUME NEW evidence
    PROVE  \/ BoundaryStatus(evidence) \in {"refused", "blocked"}
           \/ ReviewDecision(ConflictIssues(ContextOf(evidence))) = DecisionOfStatus[BoundaryStatus(evidence)]
<1> DEFINE issues == ConflictIssues(ContextOf(evidence))
           decision == ReviewDecision(issues)
           status == BoundaryStatus(evidence)
           H(s) == HasSeverity(issues, s)
<1>1. decision = IF H("fault") THEN "rebake" ELSE IF H("interrupt") THEN "interrupt"
                 ELSE IF H("stale") THEN "refresh" ELSE IF H("refused") THEN "refuse"
                 ELSE IF H("blocked") THEN "block" ELSE "proceed"
  BY BySeverity5 DEF ReviewDecision
<1>2. decision = IF "fault" \in evidence THEN "rebake" ELSE IF "ambiguous_identity" \in evidence THEN "interrupt"
                 ELSE IF "stale_trigger" \in evidence THEN "refresh"
                 ELSE IF "contested_claim" \in evidence \/ "pending_review" \in evidence THEN "block"
                 ELSE "proceed"
  BY <1>1, ReviewedSeverities
<1>3. /\ DecisionOfStatus["faulted"] = "rebake" /\ DecisionOfStatus["interrupted"] = "interrupt"
      /\ DecisionOfStatus["stale"] = "refresh" /\ DecisionOfStatus["contested"] = "block"
      /\ DecisionOfStatus["pending_review"] = "block" /\ DecisionOfStatus["dependency_closed"] = "proceed"
  BY DEF DecisionOfStatus
<1> HIDE DEF decision
<1> QED BY <1>2, <1>3, StatusIs DEF decision

\* What is declared closed against its evidence has the severity of its status.
LEMMA SeverityIsOfStatus ==
    ASSUME NEW evidence \in SUBSET EvidenceKinds, evidence # {}
    PROVE  /\ BoundaryStatus(evidence) # "dependency_closed"
           /\ SeverityForBoundary(evidence) = StatusSeverity[BoundaryStatus(evidence)]
<1>1. \E kind \in EvidenceKinds : kind \in evidence
  OBVIOUS
<1>2. BoundaryStatus(evidence) # "dependency_closed"
  BY <1>1, StatusIs DEF EvidenceKinds
<1>3. /\ StatusSeverity["faulted"] = "fault" /\ StatusSeverity["interrupted"] = "interrupt"
      /\ StatusSeverity["stale"] = "stale" /\ StatusSeverity["refused"] = "refused"
      /\ StatusSeverity["contested"] = "blocked" /\ StatusSeverity["pending_review"] = "blocked"
      /\ StatusSeverity["blocked"] = "blocked"
  BY DEF StatusSeverity
<1> QED BY <1>1, <1>2, <1>3, StatusIs, SeverityIs DEF EvidenceKinds

\* The issue ready_with_stop_evidence has one cause.
LEMMA StopEvidenceIssue ==
    ASSUME NEW b
    PROVE  /\ ClosedWithEvidence(b) =>
                  Issue("ready_with_stop_evidence", SeverityForBoundary(b.evidence)) \in WorkBoundaryIssues(b)
           /\ HasKind(WorkBoundaryIssues(b), "ready_with_stop_evidence") => ClosedWithEvidence(b)
<1>1. \A k, s : Issue(k, s).issue_kind = k
  BY DEF Issue
<1>2. ASSUME ClosedWithEvidence(b)
      PROVE  Issue("ready_with_stop_evidence", SeverityForBoundary(b.evidence)) \in WorkBoundaryIssues(b)
  BY <1>2 DEF WorkBoundaryIssues, When
<1>3. \A i \in ForbiddenPermittedActionIssues(b.required_route_set) :
          i.issue_kind # "ready_with_stop_evidence"
  BY <1>1 DEF ForbiddenPermittedActionIssues, When
<1>4. \A i \in WorkBoundaryIssues(b) :
          i.issue_kind = "ready_with_stop_evidence" => ClosedWithEvidence(b)
  BY <1>1, <1>3 DEF WorkBoundaryIssues, When
<1> QED BY <1>2, <1>4 DEF HasKind

\* The validation of a boundary, the review of its conflicts and its status read
\* the same evidence the same way, whatever was projected.
THEOREM CascadesAgreeTheorem == Spec => []CascadesAgree
<1>1. ASSUME IInv /\ BoundaryInv
      PROVE  TypeOK
  <2>1. claims \in [Agents -> (UNION {Submissions[a] : a \in Agents}) \cup {NoClaim}]
    <3>1. claims = [a \in Agents |-> claims[a]]
      BY <1>1 DEF IInv, Functions
    <3>2. \A a \in Agents : claims[a] = NoClaim \/ claims[a] \in Submissions[a]
      BY <1>1 DEF BoundaryInv, ClaimsSubmitted, Published
    <3>3. \A a \in Agents : claims[a] \in (UNION {Submissions[x] : x \in Agents}) \cup {NoClaim}
      <4> SUFFICES ASSUME NEW a \in Agents
                   PROVE  claims[a] \in (UNION {Submissions[x] : x \in Agents}) \cup {NoClaim}
        OBVIOUS
      <4>1. CASE claims[a] \in Submissions[a]
        BY <4>1
      <4>2. CASE claims[a] = NoClaim
        BY <4>2
      <4> QED BY <3>2, <4>1, <4>2
    <3> HIDE DEF NoClaim
    <3> QED BY <3>1, <3>3
  <2>2. ASSUME NEW a \in Agents, NEW b \in Agents, verdicts[a][b] # NoVerdict
        PROVE  verdicts[a][b].relation \in ClaimCompatibilityRelation /\ verdicts[a][b].mine = claims[a]
    BY <1>1, <2>2, RelationIs DEF IInv, VerdictsAreRight, Found
  <2> QED BY <1>1, <2>1, <2>2 DEF TypeOK, ClaimsTypeOK, IInv, BoundaryInv, WorkersPublished, BoundaryRight, Projected
<1>2. ASSUME IInv /\ BoundaryInv
      PROVE  SeverityFitsStatus
  <2> SUFFICES ASSUME Projected
               PROVE  /\ HasKind(WorkBoundaryIssues(boundary), "ready_with_stop_evidence")
                            => /\ BoundaryStatus(boundary.evidence) # boundary.boundary_status
                               /\ Issue("ready_with_stop_evidence", StatusSeverity[BoundaryStatus(boundary.evidence)])
                                      \in WorkBoundaryIssues(boundary)
                      /\ boundary.boundary_status = "dependency_closed" /\ boundary.evidence # {}
                            => WorkBoundaryIssues(boundary) # {}
    BY DEF SeverityFitsStatus
  <2>1. boundary.evidence \in SUBSET EvidenceKinds
    BY <1>2 DEF BoundaryInv, BoundaryRight, WorkBoundaryProjectionEnvelope
  <2>2. ASSUME ClosedWithEvidence(boundary)
        PROVE  /\ BoundaryStatus(boundary.evidence) # boundary.boundary_status
               /\ Issue("ready_with_stop_evidence", StatusSeverity[BoundaryStatus(boundary.evidence)])
                      \in WorkBoundaryIssues(boundary)
    <3>1. boundary.boundary_status = "dependency_closed" /\ boundary.evidence # {}
      BY <2>2 DEF ClosedWithEvidence
    <3> QED BY <2>1, <2>2, <3>1, SeverityIsOfStatus, StopEvidenceIssue
  <2>3. boundary.boundary_status = "dependency_closed" /\ boundary.evidence # {} => ClosedWithEvidence(boundary)
    BY DEF ClosedWithEvidence
  <2> QED BY <2>2, <2>3, StopEvidenceIssue
<1>3. ReviewFollowsStatus
  BY ReviewIsOfStatus DEF ReviewFollowsStatus
<1>4. IInv /\ BoundaryInv => CascadesAgree
  BY <1>1, <1>2, <1>3 DEF CascadesAgree
<1> QED BY <1>4, BoundaryInvariant, PTL
\* The issues of an action: which there are, and what the decision makes of them.
LEMMA ActionIssueIs ==
    ASSUME NEW p, NEW i
    PROVE  i \in ActionIssues(p) <=>
               \/ i = Issue("missing_action", "blocked") /\ p.action_kind = NoValue
               \/ i = Issue("missing_authority_notice", "refused") /\ ~p.has_authority_notice
               \/ i = Issue("direct_mutation_requested", "refused") /\ p.action_kind \in DirectSourceMutationActions
               \/ i = Issue("mailbox_io_requested", "refused") /\ p.action_kind \in MailboxIoActions
               \/ i = Issue("agent_dispatch_requested", "refused") /\ p.action_kind \in DispatchActions
               \/ i = Issue("live_control_requested", "refused") /\ p.action_kind \in LiveControlActions
               \/ /\ i = Issue("stopped_or_stale_projection", StoppedOrStaleSeverity(p))
                  /\ IsStoppedOrStale(p) /\ p.action_kind \notin ResolutionActions
               \/ i = Issue("unsupported_action_route", "blocked") /\ IsUnsupported(p)
  BY DEF ActionIssues, When

LEMMA StopSeverity == ASSUME NEW p  PROVE StoppedOrStaleSeverity(p) \in {"interrupt", "blocked"}
  BY DEF StoppedOrStaleSeverity

LEMMA ActionDecisionIs ==
    ASSUME NEW p
    PROVE  /\ ActionDecision(p) = "allowed" <=> p.has_authority_notice /\ ActionIssues(p) = {}
           /\ ActionDecision(p) = "refused" <=> HasSeverity(ActionIssues(p), "refused") \/ ~p.has_authority_notice
<1> DEFINE issues == ActionIssues(p)
           H(s) == HasSeverity(issues, s)
<1>1. \A k, s : Issue(k, s).severity = s
  BY DEF Issue
<1>2. \A i \in issues : i.severity \in {"refused", "interrupt", "blocked"}
  BY <1>1, ActionIssueIs, StopSeverity
<1>3. issues = {} <=> ~H("refused") /\ ~H("interrupt") /\ ~H("blocked")
  BY <1>2 DEF HasSeverity
<1>4. ~p.has_authority_notice => H("refused")
  BY <1>1, ActionIssueIs DEF HasSeverity
<1>5. ActionDecision(p) = IF H("refused") THEN "refused" ELSE IF H("interrupt") THEN "interrupt"
                          ELSE IF H("blocked") THEN "blocked"
                          ELSE IF p.has_authority_notice THEN "allowed" ELSE "refused"
  BY BySeverity3 DEF ActionDecision
<1> HIDE DEF issues
<1> QED BY <1>3, <1>4, <1>5 DEF issues

\* When an action on a boundary is allowed.
LEMMA AllowedIs ==
    ASSUME NEW b, b.has_authority_notice, NEW kind, NEW supported,
           ActionDecision(Packet(b, kind, supported)) = "allowed"
    PROVE  /\ kind # NoValue
           /\ kind \notin DirectSourceMutationActions \cup MailboxIoActions \cup DispatchActions \cup LiveControlActions
           /\ b.evidence # {} \/ b.freshness_state # "fresh" => kind \in ResolutionActions
           /\ kind \in AuthoritySensitiveActions => kind \in supported \cup b.required_route_set
<1> DEFINE p == Packet(b, kind, supported)
<1>1. /\ p.action_kind = kind /\ p.supported_action_route_set = supported
      /\ p.required_route_set = b.required_route_set /\ p.freshness_state = b.freshness_state
      /\ p.stop_state = b.evidence \ {"ambiguous_identity"}
      /\ p.interrupt_context = b.evidence \cap {"ambiguous_identity"}
  BY DEF Packet
<1>2. ActionIssues(p) = {}
  BY ActionDecisionIs
<1> HIDE DEF p
<1>3. /\ p.action_kind # NoValue
      /\ p.action_kind \notin DirectSourceMutationActions /\ p.action_kind \notin MailboxIoActions
      /\ p.action_kind \notin DispatchActions /\ p.action_kind \notin LiveControlActions
      /\ IsStoppedOrStale(p) => p.action_kind \in ResolutionActions
      /\ ~IsUnsupported(p)
  BY <1>2, ActionIssueIs
<1>4. b.evidence # {} \/ b.freshness_state # "fresh" => IsStoppedOrStale(p)
  BY <1>1 DEF IsStoppedOrStale
<1>5. kind \in AuthoritySensitiveActions => kind \in supported \cup b.required_route_set
  BY <1>1, <1>3 DEF IsUnsupported
<1> QED BY <1>1, <1>3, <1>4, <1>5

\* A supported request for a review is allowed, whatever is wrong.
LEMMA ReviewIsAllowed ==
    ASSUME NEW b, b.has_authority_notice, NEW supported, NEW kind \in ResolutionActions \cap supported
    PROVE  ActionDecision(Packet(b, kind, supported)) = "allowed"
<1> DEFINE p == Packet(b, kind, supported)
<1>1. p.action_kind = kind /\ p.supported_action_route_set = supported /\ p.has_authority_notice
  BY DEF Packet
<1>2. kind # NoValue
  BY Zenon DEF ResolutionActions, NoValue
<1>3. /\ kind \notin DirectSourceMutationActions /\ kind \notin MailboxIoActions
      /\ kind \notin DispatchActions /\ kind \notin LiveControlActions
  BY DEF ResolutionActions, DirectSourceMutationActions, MailboxIoActions, DispatchActions, LiveControlActions
<1> HIDE DEF p
<1>4. ~IsUnsupported(p)
  BY <1>1 DEF IsUnsupported
<1>5. ActionIssues(p) = {}
  BY <1>1, <1>2, <1>3, <1>4, ActionIssueIs
<1>6. ActionDecision(p) = "allowed"
  BY <1>1, <1>5, ActionDecisionIs
<1> QED BY <1>6 DEF p

LEMMA RoutesAreNoRequests == CoordinationRoutes \cap ResolutionActions = {}
<1>1. \A kind \in DOMAIN RoutesForIssue : RoutesForIssue[kind] \cap ResolutionActions = {}
  BY DEF RoutesForIssue, ResolutionActions
<1> QED BY <1>1 DEF CoordinationRoutes

\* A stop is no dead end and no way leads around it: on a boundary with stop
\* evidence or an unread mailbox, classify_coordination_action allows every
\* request for a review that the caller supports and, but for the remedies of a
\* stale claim, no other action, of whatever name; and nothing that writes,
\* dispatches or controls is ever allowed.
THEOREM StopsLeadToReviewsTheorem == Spec => []StopsLeadToReviews
<1>1. ASSUME IInv /\ BoundaryInv, Projected, boundary.has_authority_notice, NEW supported, NEW kind
      PROVE  LET stopped == boundary.evidence # {} \/ boundary.freshness_state # "fresh"
                 allowed == ActionDecision(Packet(boundary, kind, supported)) = "allowed"
             IN  /\ kind \in ResolutionActions \cap supported => allowed
                 /\ stopped /\ allowed => kind \in (ResolutionActions \cap supported) \cup ClaimRemedies
                 /\ allowed => kind \notin ForbiddenActions \cup {NoValue}
  <2> DEFINE allowed == ActionDecision(Packet(boundary, kind, supported)) = "allowed"
             stopped == boundary.evidence # {} \/ boundary.freshness_state # "fresh"
  <2>1. boundary.required_route_set \cap ResolutionActions = {}
    BY <1>1, RoutesAreNoRequests DEF BoundaryInv, BoundaryRight, WorkBoundaryProjectionEnvelope
  <2>2. ASSUME allowed
        PROVE  /\ stopped => kind \in ResolutionActions \cap supported
               /\ kind \notin ForbiddenActions \cup {NoValue}
    <3>1. ActionDecision(Packet(boundary, kind, supported)) = "allowed"
      BY <2>2
    <3>2. /\ kind # NoValue
          /\ kind \notin DirectSourceMutationActions \cup MailboxIoActions \cup DispatchActions \cup LiveControlActions
          /\ stopped => kind \in ResolutionActions
          /\ kind \in AuthoritySensitiveActions => kind \in supported \cup boundary.required_route_set
      BY <1>1, <3>1, AllowedIs
    <3>3. ResolutionActions \subseteq AuthoritySensitiveActions
      BY DEF AuthoritySensitiveActions
    <3> HIDE DEF stopped
    <3> QED BY <2>1, <3>2, <3>3 DEF ForbiddenActions
  <2>3. kind \in ResolutionActions \cap supported => allowed
    BY <1>1, ReviewIsAllowed
  <2> HIDE DEF allowed, stopped
  <2>4. /\ kind \in ResolutionActions \cap supported => allowed
        /\ stopped /\ allowed => kind \in (ResolutionActions \cap supported) \cup ClaimRemedies
        /\ allowed => kind \notin ForbiddenActions \cup {NoValue}
    BY <2>2, <2>3
  <2> QED BY <2>4 DEF allowed, stopped
<1>2. IInv /\ BoundaryInv => StopsLeadToReviews
  BY <1>1 DEF StopsLeadToReviews
<1> QED BY <1>2, BoundaryInvariant, PTL

\* What validate_claim_identity_envelope lets a claim permit.
LEMMA NothingForbidden ==
    ASSUME NEW actions
    PROVE  ForbiddenPermittedActionIssues(actions) = {} <=>
               /\ actions \cap DirectSourceMutationActions = {} /\ actions \cap MailboxIoActions = {}
               /\ actions \cap DispatchActions = {} /\ actions \cap LiveControlActions = {}
  BY DEF ForbiddenPermittedActionIssues, When

\* The kinds of the issues that are appended under a condition, one by one.
LEMMA KindsGrow ==
    ASSUME NEW issues, NEW c, NEW k, NEW s
    PROVE  KindsOf(issues \cup When(c, k, s)) = KindsOf(issues) \cup (IF c THEN {k} ELSE {})
<1>1. Issue(k, s).issue_kind = k
  BY DEF Issue
<1> QED BY <1>1 DEF KindsOf, When
LEMMA KindsStart ==
    ASSUME NEW c, NEW k, NEW s
    PROVE  KindsOf(When(c, k, s)) = IF c THEN {k} ELSE {}
<1>1. Issue(k, s).issue_kind = k
  BY DEF Issue
<1> QED BY <1>1 DEF KindsOf, When

\* The kinds of issues of a claim that permits actions, and of a notice that
\* attempts effects.
LEMMA ClaimKinds ==
    ASSUME NEW actions
    PROVE  LET kinds == KindsOf(ForbiddenPermittedActionIssues(actions))
           IN  /\ "mailbox_io_requested" \in kinds <=> actions \cap MailboxIoActions # {}
               /\ "agent_dispatch_requested" \in kinds <=> actions \cap DispatchActions # {}
               /\ "live_machine_control_requested" \in kinds <=> actions \cap LiveControlActions # {}
<1> DEFINE c1 == actions \cap DirectSourceMutationActions # {}
           c2 == actions \cap MailboxIoActions # {}
           c3 == actions \cap DispatchActions # {}
           c4 == actions \cap LiveControlActions # {}
           s1 == When(c1, "source_authority_mutation_requested", "refused")
           s2 == s1 \cup When(c2, "mailbox_io_requested", "refused")
           s3 == s2 \cup When(c3, "agent_dispatch_requested", "refused")
           s4 == s3 \cup When(c4, "live_machine_control_requested", "refused")
<1>1. ForbiddenPermittedActionIssues(actions) = s4
  BY DEF ForbiddenPermittedActionIssues
<1> HIDE DEF c1, c2, c3, c4
<1>2. KindsOf(s1) = IF c1 THEN {"source_authority_mutation_requested"} ELSE {}
  BY KindsStart
<1> HIDE DEF s1
<1>3. KindsOf(s2) = KindsOf(s1) \cup (IF c2 THEN {"mailbox_io_requested"} ELSE {})
  BY KindsGrow
<1> HIDE DEF s2
<1>4. KindsOf(s3) = KindsOf(s2) \cup (IF c3 THEN {"agent_dispatch_requested"} ELSE {})
  BY KindsGrow
<1> HIDE DEF s3
<1>5. KindsOf(s4) = KindsOf(s3) \cup (IF c4 THEN {"live_machine_control_requested"} ELSE {})
  BY KindsGrow
<1> HIDE DEF s4
<1>6. /\ "mailbox_io_requested" \in KindsOf(s4) <=> c2
      /\ "agent_dispatch_requested" \in KindsOf(s4) <=> c3
      /\ "live_machine_control_requested" \in KindsOf(s4) <=> c4
  BY <1>2, <1>3, <1>4, <1>5
<1> QED BY <1>1, <1>6 DEF c2, c3, c4

LEMMA CarrierKinds ==
    ASSUME NEW effects
    PROVE  LET kinds == KindsOf(MailboxCarrierIssues(Notice(effects)))
           IN  /\ "mailbox_io_requested" \in kinds <=> effects \cap MailboxIoEffects # {}
               /\ "agent_dispatch_requested" \in kinds <=> effects \cap DispatchEffects # {}
               /\ "live_machine_control_requested" \in kinds <=> effects \cap LiveControlEffects # {}
               /\ "claim_transition_requested" \in kinds <=> effects \cap ClaimTransitionEffects # {}
<1> DEFINE notice == Notice(effects)
<1>1. /\ notice.has_required_fields /\ notice.has_authority_notice /\ ~notice.promoted
      /\ ~notice.mailbox_io_requested /\ notice.attempted_effect_set = effects
  BY DEF Notice
<1> HIDE DEF notice
<1> DEFINE c4 == notice.mailbox_io_requested \/ notice.attempted_effect_set \cap MailboxIoEffects # {}
           c5 == notice.attempted_effect_set \cap ClaimTransitionEffects # {}
           c6 == notice.attempted_effect_set \cap DispatchEffects # {}
           c7 == notice.attempted_effect_set \cap LiveControlEffects # {}
           s1 == When(~notice.has_required_fields \/ ~notice.has_authority_notice, "missing_field", "fault")
           s2 == s1 \cup When(~notice.has_authority_notice, "missing_authority_notice", "fault")
           s3 == s2 \cup When(notice.promoted, "carrier_authority_promotion", "fault")
           s4 == s3 \cup When(c4, "mailbox_io_requested", "refused")
           s5 == s4 \cup When(c5, "claim_transition_requested", "refused")
           s6 == s5 \cup When(c6, "agent_dispatch_requested", "refused")
           s7 == s6 \cup When(c7, "live_machine_control_requested", "refused")
<1>2. MailboxCarrierIssues(notice) = s7
  BY DEF MailboxCarrierIssues
<1>3. s3 = {}
  BY <1>1 DEF When
<1>4. KindsOf(s3) = {}
  BY <1>3 DEF KindsOf
<1> HIDE DEF c4, c5, c6, c7, s3
<1>5. KindsOf(s4) = KindsOf(s3) \cup (IF c4 THEN {"mailbox_io_requested"} ELSE {})
  BY KindsGrow
<1> HIDE DEF s4
<1>6. KindsOf(s5) = KindsOf(s4) \cup (IF c5 THEN {"claim_transition_requested"} ELSE {})
  BY KindsGrow
<1> HIDE DEF s5
<1>7. KindsOf(s6) = KindsOf(s5) \cup (IF c6 THEN {"agent_dispatch_requested"} ELSE {})
  BY KindsGrow
<1> HIDE DEF s6
<1>8. KindsOf(s7) = KindsOf(s6) \cup (IF c7 THEN {"live_machine_control_requested"} ELSE {})
  BY KindsGrow
<1> HIDE DEF s7
<1>9. /\ "mailbox_io_requested" \in KindsOf(s7) <=> c4
      /\ "agent_dispatch_requested" \in KindsOf(s7) <=> c6
      /\ "live_machine_control_requested" \in KindsOf(s7) <=> c7
      /\ "claim_transition_requested" \in KindsOf(s7) <=> c5
  BY <1>4, <1>5, <1>6, <1>7, <1>8
<1> QED BY <1>1, <1>2, <1>9 DEF notice, c4, c5, c6, c7

\* The lists of actions in claims.py, mailbox.py and action_routes.py work
\* together, for actions and effects of any name.
THEOREM ListsAgreeTheorem == Spec => []ListsAgree
<1>1. ASSUME IInv /\ BoundaryInv, NEW a \in working, NEW kind \in claims[a].permitted_action_set,
             Projected, boundary.has_authority_notice
      PROVE  ActionDecision(Packet(boundary, kind, {})) # "refused"
  <2> DEFINE p == Packet(boundary, kind, {})
  <2>1. p.action_kind = kind /\ p.has_authority_notice
    BY <1>1 DEF Packet
  <2>2. ForbiddenPermittedActionIssues(claims[a].permitted_action_set) = {}
    BY <1>1 DEF BoundaryInv, WorkersAccepted, ClaimIdentityIssues
  <2>3. /\ kind \notin DirectSourceMutationActions /\ kind \notin MailboxIoActions
        /\ kind \notin DispatchActions /\ kind \notin LiveControlActions
    BY <2>2, NothingForbidden
  <2> HIDE DEF p
  <2>4. \A k, s : Issue(k, s).severity = s
    BY DEF Issue
  <2>5. \A i \in ActionIssues(p) : i.severity \in {"interrupt", "blocked"}
    BY <2>1, <2>3, <2>4, ActionIssueIs, StopSeverity
  <2>6. ~HasSeverity(ActionIssues(p), "refused")
    BY <2>5 DEF HasSeverity
  <2>7. ActionDecision(p) # "refused"
    BY <2>1, <2>6, ActionDecisionIs
  <2> QED BY <2>7 DEF p
<1>2. ASSUME NEW permitted
      PROVE  LET ofClaim   == KindsOf(ForbiddenPermittedActionIssues(permitted))
                 ofCarrier == KindsOf(MailboxCarrierIssues(Notice(permitted)))
             IN  /\ \A kind \in {"mailbox_io_requested", "live_machine_control_requested"} :
                      kind \in ofCarrier <=> kind \in ofClaim
                 /\ "agent_dispatch_requested" \in ofCarrier => "agent_dispatch_requested" \in ofClaim
  <2>1. /\ MailboxIoEffects = MailboxIoActions /\ LiveControlEffects = LiveControlActions
        /\ DispatchEffects \subseteq DispatchActions
    BY DEF MailboxIoEffects, MailboxIoActions, LiveControlEffects, LiveControlActions,
           DispatchEffects, DispatchActions
  <2> QED BY <2>1, ClaimKinds, CarrierKinds
<1>3. ASSUME NEW supported, NEW kind, Projected, MailboxCarrierIssues(Notice({kind})) = {},
             ActionDecision(Packet(boundary, kind, supported)) = "allowed"
      PROVE  kind \notin ForbiddenActions \cup ClaimTransitionEffects
  <2>1. boundary.has_authority_notice
    <3>1. Packet(boundary, kind, supported).has_authority_notice
      BY <1>3, ActionDecisionIs
    <3> QED BY <3>1 DEF Packet
  <2>2. kind \notin ForbiddenActions
    BY <1>3, <2>1, AllowedIs DEF ForbiddenActions
  <2>3. kind \notin ClaimTransitionEffects
    BY <1>3, CarrierKinds DEF KindsOf
  <2> QED BY <2>2, <2>3
<1>4. IInv /\ BoundaryInv => ListsAgree
  BY <1>1, <1>2, <1>3 DEF ListsAgree, PermittedIsNotRefused, CarriersBringNoRights, CarriersRefuseWithClaims
<1> QED BY <1>4, BoundaryInvariant, PTL
=============================================================================
