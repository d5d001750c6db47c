# LangSOP: specifications and proofs

TLA+ specifications of LangSOP, a Python library that reads standard operating
procedures (SOP files), projects them into a generated database, and runs
contract-bound operators and planner graphs over them. The paths below are
those of the repository; `langsop/` stands for `src/langsop/`.

## The system

LangSOP is one in-process library. It has no thread and no event loop. What
makes it hard is not parallelism inside the library. Each component reads a
record written by somebody else (an author of SOP files, a caller, another
agent, an earlier build) and must not turn weak evidence into authority; its
verdict is the result of long cascades of conditions, of which the first that
holds, the worst, or the last decides; and what it reads may change between two
reads, or be left over from a run that failed.

| Component (package) | State it keeps | Operations | What makes it correct |
|---|---|---|---|
| IR2 parser (`authority/sop_parser.py`) | events, faults and the parent stack of one text | one loop iteration per line | a line's parent is a scope that indentation leaves open, and the innermost one where no inert line was indented less; faults and events agree |
| IR2 discovery (`authority/discovery.py`) | the artifacts found, with their hashes | walk a root, hash files | the hash recorded is that of what is parsed |
| IR2 extraction, validation (`authority/extraction.py`, `validation.py`) | none | derive a candidate, validate it by a cascade | nothing blocked or stale is verified or current, nothing is accepted without a signature declared valid |
| IR2 projection (`projections/`) | a SQLite database | rebuild from a validation report in one transaction | readers see whole, labelled builds; rows agree with their source hash; rebuilding is repeatable |
| IR3 operator runner (`operators/`) | none between calls | validate a request against a contract, call the operator function, return a record and a trace | only accepted requests are executed; faults are never downgraded; record, trace and outcome agree |
| IR4 runtime graph (`runtime/`) | the visits, phases and issues of a run | visit the nodes in order, end at the first issue | the run follows the edge contracts; success is earned; every run ends |
| P5 runtime models (`runtime/p5_models.py`) | none | evaluate a model by a cascade | refusals win over permissions |
| IR5 surfaces (`surfaces/`) | records on display, held by callers | project a packet, validate display and state, classify actions | a stop that a record shows is held by display, state and decision, each with its own cascade |
| IR6 coordination (`coordination/`) | claims, boundaries, mailbox packets and reviews, held by agents | validate and compare claims, project a boundary, review conflicts, classify actions | agents that compare their claims never write the same subject; no stop evidence is lost on the way from claim to action |
| IR7 operations (`operations/`) | requests and what is recorded of them, held by callers | validate a request, review its safety, dry-run it, refuse it, classify actions | the four cascades agree on a request; nothing live is accepted but by an edit of the result itself |
| IR8 manager (`manager/`) | cycles, readiness, packets and handoffs, held by callers | recompute readiness, make packet, faults, refusals and handoff | what can be claimed has nothing open; a stop holds until its cause is gone |
| P6 surfaces (`surfaces_p6/`) | projected records, held by callers | project a packet to a surface, validate, classify inbound actions | a stop that is shown halts what a user asks on it |
| Generated paths (`*/generated_paths.py`) | files under a generated root | check a path, write to it | no write outside the root |
| Fixture runners (`*/fixture_runner.py`) | a summary of results | call a component on each fixture | they restate the components |

How they interact: discovery, parser, extraction, validation and the rebuild
form a pipeline (the tests compose it in `tests/test_ir2_parser_projection_contracts.py`);
the database and the files are its shared state. The runtime graph calls the
operator runner. The manager, the operations and the surfaces read references
to the records of the others; nothing but frozen values passes between them.
Those packages (IR5 to IR8 and P6) have one shape: a function collects issues,
each with a kind and a severity, and a cascade of early returns reduces them to
one status. What is hard about them is that several functions reduce the same
evidence by cascades and lists of their own, and that a caller keeps a frozen
record while what it was made from goes on changing. Their models therefore
have a caller in them: it learns facts, makes records in any order, keeps them,
and hands them to the next function.

The hard behaviours, at their lines, are the `hazards` of `PROJECT.json`.

## Modules

| Module | Models | State and actions |
|---|---|---|
| `SopParser` | `parse_sop_text` | the three lists of the loop; `ParseNextLine` is one iteration, with the `while` of `_parent_for` as "the first `kept` scopes stay" |
| `AuthorityRecords` | the pure functions of extraction and validation | `Extract`, `Branch` (the `elif` cascade) and one operator per field of the result |
| `AuthorityValidation` | one document through both | `ExtractCandidate`, `ValidateCandidate` |
| `AuthorityProjection` (extends `AuthorityRecords`) | the IR2 pipeline over a changing directory | files, the stages of a build, the open transaction (`work`) and the committed database (`db`); `EditFile` and `BuildFails` may happen at any step |
| `AuthorityProofs` | | theorems about `SopParser`, `AuthorityValidation` and `AuthorityProjection` |
| `OperatorContracts` | requests, contracts, issues | `ShapeIssues`, `ValidateOperatorRequest`, `OutcomeFromValidation`, `PrimaryIssue`; `RunOutcomes` is the abstract view of a run |
| `OperatorRunner` (extends `OperatorContracts`) | `run_contract_operator` | one action per stage of a call: resolve, validate, call (returns, raises, absent), return a refusal or a success |
| `OperatorRunnerProofs` | | theorems about `OperatorRunner` |
| `GraphContract` | what the edge contracts of the graph allow | abstract: a node and a verdict that walk along `DEFAULT_EDGE_CONTRACTS` |
| `RuntimeGraph` (extends `OperatorContracts`) | `run_whole_field_planner_graph` | one action per node, the checkpoint check, and `Terminate` (`_terminal_result`); the operator's outcome is taken from `RunOutcomes`, which a theorem about `OperatorRunner` shows to be right (`OutcomeAsPromised`) |
| `RuntimeGraphProofs` | | theorems about `RuntimeGraph`, and that it implements `GraphContract` |
| `Issues` | the shape shared by the packages below | issues, their severities, and the first entry of a cascade that holds |
| `CoordinationClaims` | `coordination/claims.py`: claim identity, write scopes, compatibility | the published claim of each agent, the verdicts it keeps of the others, and who works; `Publish`, `Compare`, `Start`, `Release` interleave freely, so that a verdict may be of a claim that is gone |
| `CoordinationProjection` (extends `CoordinationClaims`) | the rest of `coordination/`: mailbox freshness and carriers, work boundaries, conflict reviews, action routes | `Project` makes a boundary of a claim, an earlier comparison, evidence and a mailbox; `Discard` drops it; claims go on changing underneath |
| `CoordinationProofs` | | theorems about `CoordinationClaims` and `CoordinationProjection` |
| `OperationRequests` | `operations/requests.py` | the envelope made of a mapping with its defaults, its issues and its status |
| `ResourceSafety` | `operations/resource_safety.py` | the risk of a request and the issues of request, blast radius, rollback route and approval |
| `OperationRecords` | `dry_run.py`, `refusals.py`, `action_routes.py` of `operations/` | dry run result, refusal, interrupt context, and the decision on an action |
| `Operations` (extends the two above) | a planner of operations | the request at hand, the last approval and the records made; requests come and go while the approval stays, a result is edited and read again, once |
| `OperationsProofs` | | theorems about `Operations` |
| `ManagerRecords` | the functions of `manager/` | readiness with its first stop, packet candidate, faults, refusals, handoff status, classification of authority |
| `Manager` (extends `ManagerRecords`) | a manager that plans one work | facts that change, the frozen cycle, and the records made of it; facts and cycles go on while the records are kept |
| `ManagerProofs` | | theorems about `Manager` |
| `SurfaceRecords` | `surfaces/authority.py`, `projection_state.py`, `action_routes.py` | issues of display and state, the status and the severity of evidence, the decision on an action |
| `SurfaceProjectors` | `surfaces/projectors.py` | the twelve projectors as a table of what each takes from a packet and what it sets, and the record it makes |
| `Surfaces` (extends both) | a surface that shows one subject | a packet that grows, and the record, state or display made last |
| `SurfacesProofs` | | theorems about `Surfaces` |
| `P6Records` | `nonpromotion.py`, `action_classifier.py` of `surfaces_p6/` | nonpromotion issue, action issues and their classification |
| `P6Surfaces` (extends `P6Records`) | `envelope.py`, `surface_matrix.py` in use | a packet that grows, the record on display (projected to one of eleven families, or read as it is), which stays on display when the packet changes, and the action a user takes on it |
| `P6SurfacesProofs` | | theorems about `P6Surfaces` |

Each `MC` module gives the constants of its component their values for TLC. The
operators marked "Mutant" beside some definitions are variants with a plausible
mistake; they are used by nothing in the specifications, and show that the
property named with them in `PROJECT.json` can fail.

`GraphContract` is the abstract specification of the runtime graph. The runner
never reads the edge map; `FollowsGraphContract` says that the order of its
code walks along it, with `CurrentNode` (the last visited node) and `Verdict`
(its issues, or the operator's outcome) as refinement mapping.

## Abstractions

- A line is its leading spaces and tabs, the shape of its text, and the shape of
  what remains of the text when the parser cuts more characters than the line
  has indentation. Ten marker kinds that are treated alike are one.
- A document is the fields that extraction and validation read; an expected
  status with no branch of its own is a representative of those that start with
  `blocked`, of those that contain `stale`, or of the others.
- A hash is the content it is computed from (SHA-256 without collisions), and a
  derived identifier is the record of what it is hashed from.
- SQLite is external: a transaction commits as a whole or leaves what was there.
- A reference set in a graph state is whether it has a member, as the code only
  asks that. The graph contract is the default one.
- A set of references of IR5 to IR8 and P6 is empty or not, unless its members
  are compared; the reason of the risk stands for every text of an IR5 envelope in
  which source authority may be named.
- The issues of these packages are a set: nothing looks at their order, but for
  the first stop of a readiness, which the model computes by the order of the
  code.
- An action kind is one of those that a list of the code names, or one that no
  list names.
- Wording, JSON layout and file names are left out.

## Runs

All runs but that of the runtime graph have no fairness: they check safety.
Deadlock is not checked where the system may stop: a text ends, a call returns,
bounds are reached. The callers of the other components always have a next step.

| Run | Question | Result |
|---|---|---|
| `SopParser` | are the parents those that the indentation of scopes declares, and what do blank lines and comments change? | the declared ones, but where an inert line was indented less than the parent |
| `AuthorityValidation` | does any combination of fields let weak evidence through the cascade? | holds |
| `AuthorityProjection` | what do readers see when files change under builds that may fail? | whole, labelled builds with complete evidence, true to every file that nobody edited meanwhile |
| `ProjectionHash` | are the fields of a record those of the text with its hash? | violated |
| `OperatorRunner` | is only what is accepted executed, and is the outcome explained? | holds |
| `RuntimeGraph` | does a run follow the contract, end, and earn its success? | holds |
| `Coordination` | do agents that compare claims in any order ever write the same subject, and do boundary, review, carrier and action route, with lists of their own, fit together? | they do not collide; what one list lets through another stops |
| `Operations` | do validation, dry run, safety review and action route agree on a request, and what do edited, cut or left-over records make of it? | they agree; only an edit of its own review status makes the result of a refused request look accepted |
| `Manager` | what survives of a stop when inputs change and only the first stop is projected? | the stop holds until its cause is gone, and the records agree, but for the handoff of stale input |
| `Surfaces` | how do display, state and action decision of a record go together? | a stop that a record shows leaves only its resolution; projectors that take no evidence show none |
| `P6Surfaces` | which stops of a packet reach the classification of what a user asks? | status, stops and freshness do, invalidations do not |
| `ApprovalTracksRisk` | does an approval go stale when the risk classification changes? | violated |

Several invariants of a run are conjunctions of named parts, each with its own
comment, that answer the same question about one pair of functions:
`ScopesFollowIndentation`, `StopsSurviveCascade`, `CommittedIsSound`,
`SuccessIsGuarded`, `CascadesAgree`, `ListsAgree`, `ResultsFollowRequests`,
`RefusalsAreFaithful`, `ActionsFollowRequests`, `RecordsAgree`, `StopsAreHeld`,
`DecisionFollowsDisplay` and `ShownStopsHalt`. When one fails, the state that TLC
prints shows which part does; the parts can be put in the `.cfg` instead.

A violated run checks one sentence of the documentation under `docs/`, quoted
in the `findings` of `PROJECT.json` with the line of the code that departs from
it.

Other sentences of the documents that the code does not keep, seen in the same
definitions but without a run of their own:

- A blank line or a comment pops every scope at its column or deeper, so that the
  next deeper line has another parent, or none (`ParseNextLine`;
  `langsop/authority/sop_parser.py:238`):
  `docs/implementation/IR2_SOP_Artifact_Discovery_And_Parser_Profile.v1.sop:116`
  and `:115` say that neither alters scope. `ParentIsInnermostDeclared` is the
  rule of the profile for every line that no such line has touched; of the others
  `ParentIsDeclaredOpen` says that the parent is one that the profile has open. A
  tab counts for four columns and is
  one character, so that text is cut and the marker may be lost
  (`sop_parser.py:107`; `:120`, "preserve ... marker kind").
- A signature that names no protocol is accepted and verified
  (`HasWrongProtocol`; `langsop/authority/validation.py:120`):
  `docs/implementation/IR2_Hash_Ledger_Signature_And_Freshness_Validation.v1.sop:52`
  asks to validate the protocol before a signature is evidence. So
  `AcceptanceNeedsEvidence` excludes other protocols, not absent ones.
- An artifact that expects acceptance is classified as signed whether or not its
  signature is valid (`langsop/authority/validation.py:162`):
  `docs/implementation/IR2_Hash_Ledger_Signature_And_Freshness_Validation.v1.sop:70`.
- A rebuild after an edit adds a record and leaves the one of the replaced text
  current (`langsop/projections/sqlite_projection.py:141`):
  `docs/implementation/IR2_SQLite_Projection_Schema_And_Rebuild_Policy.v1.sop:117`.
- A trace may lack the reason of an interrupt that comes with a blocked issue
  before it (`langsop/operators/traces.py:131`), and the context
  of an interrupt names the node at which the caller was, not the one that
  interrupted (`langsop/runtime/interrupts.py:117`):
  `docs/operators/IR3_Contract_Driven_Operator_Runner_And_Trace_Contract.v1.sop:160`
  and `docs/runtime/IR4_Checkpoint_And_SOP_First_Interrupt_Policy.v1.sop:43`.
- A second build of unchanged files inserts source refs and lineage edges again
  (`Insert`; `langsop/projections/sqlite_projection.py:165`), where
  `docs/implementation/IR2_SQLite_Projection_Schema_And_Rebuild_Policy.v1.sop:122`
  asks for a repeatable rebuild.
- A request need not cite the authority of its contract
  (`ValidateOperatorRequest`), a success may yield an `operator_result` that the
  contract does not declare (`SuccessOutputKind`), and a replay has the trace
  identity of the first run whatever its outcome (`TraceId`):
  `docs/operators/IR3_Contract_Driven_Operator_Runner_And_Trace_Contract.v1.sop:42`,
  `:50` and `:196`.
- A state whose phase is already `terminal_outcome` is refused without a visit
  of the terminal node (`Terminate`), a run refused before the operator has no
  trace, and a run succeeds without source lineage (`CompletionIssues`):
  `docs/runtime/IR4_WholeFieldPlannerGraph_Implementation_Contract.v1.sop:71`,
  `:110` and `:115`.
- A checkpoint presented as authority interrupts and does not fault
  (`CheckpointIssues`), a checkpoint without a basis is current when none is
  accepted (`BasisIsAccepted`), and a pending interrupt is no obstacle to the
  operator (`OperatorInvocation`):
  `docs/runtime/IR4_Checkpoint_And_SOP_First_Interrupt_Policy.v1.sop:38`, `:37`
  and `:22`.

- Every stop of a coordination boundary closes `refresh_claim`, `release_claim`
  and `supersede_claim` (`ActionIssues`; `langsop/coordination/action_routes.py:174`),
  which are the ways out of a stale claim by
  `docs/coordination/IR6_Conflict_Stale_And_Human_Override_Review_Contract.v1.sop:81`
  to `:83` and
  `docs/coordination/IR6_Claim_Identity_And_Work_Boundary_Projection_Contract.v1.sop:151`
  to `:153`. Only the requests for reviews resolve a stop; `StopsLeadToReviews`
  leaves the three open (`ClaimRemedies`). Two claims with the same identity are
  compatible whoever makes them (`Compatibility`; `claims.py:515`), where `:107`
  of the latter asks for the same claimant.
- An approval record that is absent or only requested raises no issue and so
  counts (`ApprovalIssues`; `langsop/operations/resource_safety.py:410`), where
  `docs/operations/Resource_Safety_Human_Override_Contract.v1.sop:19` and
  `docs/operations/IR7_Operations_Boundary_Import_And_Invariant_Reconciliation.v1.sop:72`
  ask for an explicit one. `ApprovalRecordsFitTheirRequest` is about which record
  may count, not about its having been granted.
- A cycle on stale input has an interrupt and a refusal and is handed off as
  context only, or as blocked without sources or notice (`HandoffStatus`;
  `langsop/manager/readiness.py:277`, `handoffs.py:247`), where
  `docs/manager/IR8_Coordination_Surface_And_Operations_Dry_Run_Handoff_Contract.v1.sop:23`
  requires the interrupt. `HandoffFitsPacket` says what is handed off there.
- The projectors of manager summaries, narratives, Langflow views and runtime
  proof handoffs take no evidence from the packet: a packet that is stopped is
  shown as ready and fresh, and the record accepted (`TakenEvidence`;
  `langsop/surfaces/projectors.py:78`, `:371`), where
  `docs/surfaces/IR5_Authority_Display_And_Projection_State_Contract.v1.sop:84`,
  `:129` and `:202` say that it must not be. `TakenEvidenceStops` says which
  projectors those are, and that all others hold what they are given.

What the models of IR4 to IR8 and P6 keep of the code and a reader might not
expect:

- Runtime graph. A node that ends a run hides what later nodes would find: on a
  stale state the run ends stale before its checkpoint is looked at, even one that
  claims readiness. `WorstEvidenceDecides` names the gate that may come first.
- Coordination. An incompatible relation does not make a boundary contested
  (`WorkBoundaryIssues`; `claims.py:440`); an empty write scope falls back to the
  whole scope (`WriteScope`); and the dispatch effects that a carrier may not
  attempt (`mailbox.py:86`) lack `start_agent` and `direct_agent_dispatch`, which
  claims refuse (`claims.py:143`): the action route has them, and
  `CarriersBringNoRights` says that nothing passes both.
- Operations. The expiry of an approval is compared with nothing; a dry run of a
  request that was not validated is accepted (`DryRunFollowsRequest` is about
  validated ones); the review status of a result that is read from a mapping is
  taken at its word, and is accepted if the mapping has none
  (`dry_run.py:222`, `:323`, `:348`), so that the result of a refused request can
  be made to look accepted, and only by that; a stopped request names an
  interrupt as its route, and the classifier blocks it.
- Manager. Readiness may be reached with a fault of identity remaining
  (`readiness.py:37`), which the packet keeps
  (`docs/manager/IR8_Manager_Loop_Authority_Readiness_Packet_And_Proof_Contract.v1.sop:71`);
  a refusal is not seen when carrier context is found first (`readiness.py:132`;
  `docs/manager/IR8_Coordination_Surface_And_Operations_Dry_Run_Handoff_Contract.v1.sop:130`);
  obligations that a caller lists are never satisfied; freshness other than
  stale stops nothing.
- Surfaces. A display is not asked about the state beside it: it may permit live
  control, which the classifier refuses, and, on a record that is not ready,
  actions that the classifier blocks, such as the review that a faulted debug
  trace offers (`action_routes.py:208`; `AcceptedDisplayDecides` and
  `ShownDisplayDecides` say which are allowed); an action that no list names is
  allowed without a route; `projected_status_for_evidence` is not asked about
  invalidations and stop contexts, which reject a claim of readiness and give no
  status (`projection_state.py:347`; `StatusFitsSeverity` says with which
  severity).
- P6. A projection that is declared ready with stops is shown as ready and only
  its validation says otherwise (`AcceptedReadyIsClear` asks for both;
  `docs/surfaces/P6_Authority_Notice_Freshness_And_Nonpromotion_Rendering_Contract.v1.sop:142`);
  the classifier compares neither the reference of the projection nor its
  conversation, evidence or effect
  (`docs/surfaces/P6_Inbound_Action_Classification_And_Surface_Mutation_Boundary_Contract.v1.sop:72`);
  several kinds that a surface offers are unknown to it and interrupt. An action
  carries the freshness and the stops that its user saw and no invalidations: on
  a packet that has only those, or that was stopped after its record was shown as
  clear, what he asks is routed, the record being rejected by its validation in
  the first case (`RoutedRecordsAreClearOrRejected`) and out of date in the
  second. The flags of a packet are words: a Python truth value raises a
  `TypeError` (`surface_matrix.py:346` to `:360`; `python_bool` stands for it), and
  the three functions that read a word (`surface_matrix.py:363`,
  `nonpromotion.py:282`, `action_classifier.py:333`) differ on words other than
  true and false, which the model leaves out. A packet
  that is read as an envelope may forbid any kind, `comment` for one, and the
  classifier, which has a list of its own, routes it all the same:
  `ForbiddenIsNeverRouted` is about records that are projected.

### Bounds

- `SopParser`: texts of up to four lines. The stack needs three scopes before a
  line can pop two and keep one, and a fourth line to do it; three columns, one
  inert and one scope-opening shape of each kind, a line with each kind of
  fault, and tab-indented lines whose text is cut. The proofs have no bound.
- `AuthorityValidation`: none. The fields take every value that the functions
  tell apart.
- `AuthorityProjection`: two paths (order and partial progress), three texts
  (accepted, refused as stale, undecodable) of which two have one identity, two
  builds and three edits: an edit can hit each of discovery and parsing and come
  between the builds, and a build follows a failed or a committed one, over a
  text that was replaced or restored. `edited`, the paths changed since the build
  started, is the one variable that the code does not have.
- `OperatorRunner`: every request that differs from an acceptable one in at most
  two fields, so that two issues of different severity meet in each order;
  mappings that lack none, one or two fields, or hold bad values. One call,
  as calls share no state.
- `RuntimeGraph`: states with at most two deviations from a good one and
  checkpoints with at most one; and states with at most one deviation, checkpoints
  with at most two and each policy switch.

- `Coordination`: two agents (the proof is for any number), two subjects, and for
  each agent a claim on everything, one on a part with or without reading the
  rest, one without a scope, one that both share and one that does not validate;
  up to two kinds of evidence at once, which tells any order of a cascade from
  any other; mailboxes that lack each part or were read before, at and after the
  last notice.
- `Operations`: requests that differ from a good one in at most two fields, of
  those that any cascade reads, or lack a field; approvals of two requests in
  each form, and in four of seven states, the other three being withdrawn like one of
  those; a result edited in each field that its validation looks
  at, its review status among them, and read again once. Requests change while approvals and records are kept, in any order and
  any number of times.
- `Manager`: works with at most one deviation from a ready one and two facts that
  turn up afterwards, among them each that stops a cycle and those that resolve
  it: three deviations at once, and a stop that is resolved while another comes.
- `Surfaces`: packets with up to two fields, given or denied, for each of the
  twelve projectors and every action kind; displays that permit each kind at
  each tier.
- `P6Surfaces`: packets with up to two fields, or two more than that of the manager
  surface in the fixtures, for eleven families and actions of each class.

### Fairness

`RuntimeGraph` has weak fairness of its next-state relation, for `EveryRunEnds`.
A run is one synchronous call that never waits; the only foreign code it calls
is the operator function, which is assumed to return or to raise. Nothing else
assumes fairness: nobody has to edit a file or to start a build.

## Proofs

`AuthorityProofs` has the theorems of the three components of IR2. Of the parser it
proves, for every set of lines and texts of any length:

| Theorem | Says |
|---|---|
| `TypeCorrect` | `ParserSpec => []ParserTypeOK` |
| `StackCorrect` | `ParserSpec => []StackHoldsOpenScopes` |
| `ParentCorrect` | `ParserSpec => []ParentIsInnermostOpenScope` |
| `ScopesNestCorrect` | `ParserSpec => []ScopesNest` |
| `ScopeRuleCorrect` | `ParserSpec => []ScopeRuleWithoutInertLines` |
| `ScopesFollowIndentationCorrect` | `ParserSpec => []ScopesFollowIndentation`: parents against the scopes that the lines which open scopes declare |
| `FaultsCorrect` | `ParserSpec => []FaultsMatchEvents` |

The assumptions are those of `SopParser`: `RawLines` is a set of lines and
`MaxLines` a natural number, which the steps do not use otherwise.

The argument. `StackCorrect` and `ParentCorrect` are about the scopes as the loop
has them open, blank lines and comments popping; what the profile has open is
compared with them in `ScopesFollowIndentation`, where the column of an inert line
matters only if it is not deeper than the parent. That a parent is the innermost
scope that the loop has open is not inductive: it
speaks of lines already read, and the next line's parent comes from the stack.
`StackHoldsOpenScopes` is the strengthening: the stack holds exactly the scopes
that no line since, inert ones included, has popped, with strictly growing lines and columns. A
step keeps it because the columns grow along the stack, so that the scopes that
a line closes are those above one point of it, and what stays below is what is
still open. The top of what stays is then the innermost open scope, which is the
line's parent. `ScopesNest` and the scope rule are not invariants on their own:
they follow in every state from where each line's parent is.

That the fault list and the events tell the same story (`FaultsCorrect`)
is inductive given the types: a step adds one event, and at most one fault, which
is of that event and the last of the list.

Of extraction and validation it proves the five statements about the cascade
(`AcceptanceCorrect`, `ParserFaultCorrect`, `BlockedCorrect`, `StaleCorrect`,
`FailedCorrect`; the last four together are `StopsSurviveCorrect`), as
invariants of `ValidationSpec` for every document of the type. The inductive
invariant `Computed` (`StagesCorrect`) says that the candidate is what `Extract`
makes of the document, and the result what validation makes of both. What
remains is a fact about the pure functions: lemmas say what each group of
branches of the cascade implies for the document (`AcceptedBranch`,
`FaultyBranch`, `BlockedBranch`, `StaleFreshness`, `FailedBranch`), and each
theorem follows from its lemma.

Of the projection it proves, for any paths, texts, numbers of builds and
edits:

| Theorem | Says |
|---|---|
| `CommittedCorrect` | `Spec => []CommittedIsSound` |
| `PublishCorrect` | `Spec => PublishesWholeBuilds`, an action property |
| `CommitCorrect` | `Spec => CommitMatchesFiles`, an action property |

What is committed was written in many steps, between which files change and
anything may fail, so nothing about the database is inductive alone.
`ProjectionInv` adds the build and the open transaction. The build (`BuildInv`):
what was parsed was found, and of a file that nobody edited since the build
started what was found and parsed is what it holds now; a record that was
written is the row of its path. The transaction (`WorkInv`): its rows are linked
and labelled at every step, and each has its evidence or is owed it (`Owed`),
which only a record written by this build can be; at the commit nothing is owed.
A failure drops the transaction and leaves the database, whose soundness is part
of the invariant. The action properties then say of the commit what the
invariant says just before it. The assumptions are `PathsAssumption`,
`ContentsAssumption`, `NoFileAssumption` and `BoundsAssumption`.

`OperatorRunnerProofs` proves every property of the operator runner, for every
contract, accepted scope, set of invocations and number of calls:

| Theorem | Says |
|---|---|
| `RunnerTypeCorrect` | `Spec => []TypeOK` |
| `AcceptedOnlyCorrect` | `Spec => []ExecutesOnlyAcceptedRequests` |
| `FaultCorrect` | `Spec => []FaultsAreNeverDowngraded` |
| `RecordCorrect` | `Spec => []RecordExplainsOutcome` |
| `OutcomeCorrect` | `Spec => []OutcomeAsPromised` |

The assumptions are `ContractAssumption` (the contract is one) and
`InvocationsAssumption` (callers submit requests or mappings). The argument has
two parts. Lemmas about lists of issues (`ConcatFacts`, `NextCheck`) establish
what the checks find as a whole: `FoundFacts` says that the list is empty exactly
for a well-formed, executable request and has a fault exactly for a faulty one;
`FirstFacts`, by the least index, and `OutcomeFacts` say that the outcome always
has a primary issue of its severity. The inductive invariant `RunnerInv` ties the
place of a call to that list: a call that reached the operator function found
nothing, one that is about to refuse holds what was found or the fault of the
function that raised; and every result returned so far is sound. The
properties are not inductive without it, as the results say nothing of the call
that is running.

`RuntimeGraphProofs` proves, for every operator contract and every set of inputs
(`ContractAssumption`, `InputsAssumption`):

| Theorem | Says |
|---|---|
| `SuccessCorrect` | `Spec => []SuccessIsGuarded` |
| `WorstCorrect` | `Spec => []WorstEvidenceDecides` |
| `InterruptCorrect` | `Spec => []InterruptNamesItsCause` |
| `ContractCorrect` | `Spec => FollowsGraphContract`, the refinement |

All three invariants are about the record in which a run ends, which says little
of how it got there. The strengthening `RunInv` says of each place in the run
which checks were passed before it (`Progress`), and of a run that stops
(`Stopped`) that its issues are those of the first check that found anything, or
of the completion gate; the record is `ClassifyTerminalOutcome` of those. The
three properties are then facts about the checks: what severities each can find,
and that the classification of a list of issues is decided by the worst one
(`RuntimeGraph.tla` has no bound on the length of such a list). For the
refinement, `ContractInit` maps the initial states and `ContractStep` every step
to a step along an edge of `GraphContract` or to a stutter, using that a run can
only stop at a node that has an edge to the end (`LastNode`).

`OperationsProofs` proves every property of the planner of operations:

| Theorem | Says |
|---|---|
| `ResultsCorrect` | `Spec => []ResultsFollowRequests` |
| `RefusalsCorrect` | `Spec => []RefusalsAreFaithful` |
| `NothingLiveCorrect` | `Spec => []NothingLiveIsAccepted` |
| `ApprovalCorrect` | `Spec => []ApprovalRecordsFitTheirRequest` |
| `ActionsCorrect` | `Spec => []ActionsFollowRequests` |

`OperationsAssumption` says that a mapping has the fields of an envelope with
values of their types, and that a caller edits six fields of a result. The
inductive invariant `PlannerInv` says which records belong to the request at
hand: results and refusals are what the functions make of it up to those edits,
and a review was made of it with some approval, blast radius and rollback route.
The rest is about the functions, for every request: which issues it has
(`IssueFacts`), what each cascade makes of them, and which is the first of the
worst (`PrimaryFacts`, by the least index). That the approval outlives its request
is what `ClearReviewIsApproved` is about: a review with nothing to say names the
approval's request, effect and target.

`ManagerProofs` proves every property of the manager:

| Theorem | Says |
|---|---|
| `ClaimableCorrect` | `Spec => []ClaimableHasNothingOpen` |
| `InterruptHoldsCorrect` | `Spec => []InterruptHoldsUntilResolved` |
| `RecordsCorrect` | `Spec => []RecordsAgree` |

`ManagerAssumption` keeps a freshness to the values of its enumeration, as others
raise. The inductive invariant `ManagerInv` says that each record is what the
functions make of the cycle that it was made in, whatever the facts and the
cycle at hand have become; only the packet is of the cycle at hand. The lemmas
say which stop the readiness projects in which order (`FirstStops`, `GateStops`)
and what holds of a cycle that none stopped (`ReadyIsClear`). That an interrupt
holds is then a matter of two cycles: the facts behind it have not changed, so
the later cycle meets the same stop, or one that comes before it.

`CoordinationProofs` proves `WorkersDoNotCollideTheorem` and
`VerdictsAgreeTheorem`, for any agents, subjects and claims and every order of
steps, without an assumption on the constants. That workers do not collide is
not inductive: an agent may start on a verdict about a claim that was replaced
since. The strengthening is about who looked when. An agent that publishes has
looked at nobody, so of two published agents that looked at each other, one has
looked at the claim the other has now (`OneIsCurrent`). And an agent that works
while another one's verdict about it is outdated has itself found that other one
compatible, with its present claim (`StaleIsCovered`): it published later, and
could not start before it looked. With that, whoever starts last starts on at
least one verdict about the two present claims, and `CompatibleMeansNoConflict`
says that it excludes a common write. The symmetry of the comparison
(`CompatibilityIsSymmetric`) gives the second theorem and the step from one
agent's verdict to the other's.

Of the projection it proves `ClosedMeansReadAndClearTheorem`,
`CascadesAgreeTheorem`, `StopsLeadToReviewsTheorem` and `ListsAgreeTheorem`, with
`BoundaryInv`: what is published was submitted, who works had a claim without
issues, and a boundary has the type of its envelope and the freshness of its
mailbox. The boundary, its validation, its review and the action route read the
same evidence by four cascades; the lemmas unfold each of them to the evidence
that it asks for, and the theorems compare them.

`SurfacesProofs` proves every invariant of the IR5 surfaces:

| Theorem | Says |
|---|---|
| `SeverityCorrect` | `Spec => []StatusFitsSeverity` |
| `StopsCorrect` | `Spec => []StopsAreHeld` |
| `DisplayCorrect` | `Spec => []DecisionFollowsDisplay` |

The packets are not restricted; `SurfacesAssumption` only bounds how often
something is learned by a natural number. The inductive invariant `DisplayInv`
says that the record on display is what a projector makes of some packet, of
which the present one may say more. `ProjectorFacts` says of the twelve projectors
that one that is ready is fresh and takes no evidence, and one that is not is not
fresh (so a stop in a packet is held by the eight that take any, and lost by the
other four); `StateFound`, `DisplayFound` and `ActionFound` say what each of the three
cascades finds. `StatusFitsSeverity` and `AcceptedDisplayDecides` need no
invariant, as they hold of any evidence and any display.

`P6SurfacesProofs` proves every invariant of the P6 surfaces:

| Theorem | Says |
|---|---|
| `AcceptedReadyCorrect` | `Spec => []AcceptedReadyIsClear` |
| `RereadCorrect` | `Spec => []RereadKeepsStop` |
| `StoppedCorrect` | `Spec => []ShownStopsHalt` |
| `EvidenceCorrect` | `Spec => []EvidenceNeverLoosens` |

The assumption (`P6Assumption`) is that packets hold truth values and words of
their enumerations, as the constructors raise on others. The inductive invariant
`ShownInv` says that what is on display, and what was classified, is what the code
makes of some packet. The argument goes through two lemmas: what stops a
projected record is its evidence, an issue of nonpromotion or its status
(`StopsFound`), no branch of nonpromotion hiding another (`NonpromotionFinds`);
and what a user saw decides only between the route of an action and an interrupt
(`ClassificationFacts`). So evidence can only stop more (`WorseIsStopped`).

The cascades of all five packages are `FirstOf` over a list of cases. The lemmas
`First2` to `First10` turn them into nested conditions; `FirstStep` is the step from
one length to the next.

Each inductive invariant was first checked by TLC on the instance of its
component's run. Proving changed three statements and no behaviour of a model.
`ClaimableHasNothingOpen` asked of two free strings that they have one of the
known values, and now says which values stop a claim. `StoppedRecordsRouteNothing`
promised that a resolution is accepted from nobody: the code wants an actor.
`ForbiddenIsNeverRouted` was about every record, and holds of projected ones. In
each case the instance of TLC was too small to show it. Some operators were
rewritten to the same effect where the prover has no rule for an operator of the
TLC module (`Merged` for its override of functions, `NoValue` for the empty
string).

Only model-checked: `EveryRunEnds` of the runtime graph, as liveness under
fairness is out of the prover's reach, and the two violated runs, which show a
counterexample.

## Plan

What is left to prove: that a rebuild without an edit in between leaves the rows
of candidates as they are; that the verdict of `OperatorRunner` implements
`RunOutcomes` as a refinement, where now `OutcomeAsPromised` says it of the result;
and lemmas shared by the proof modules (the cascades) in one place.

The next modules: the P5 cascade (`runtime/p5_models.py`) against a reference
definition, and the review of a human override in coordination.

## Not modelled

- `runtime/p5_models.py` is one stateless cascade over one mapping that no other
  component calls.
- The checks of a generated path (`*/generated_paths.py`) decide by how the
  operating system resolves a path, which a model could only restate.
- `*/fixture_runner.py` call the components on files and write what comes out.
- Of coordination, the review of a human override: three refusals over fields
  that nothing else writes. Of the manager, the record of a human override and
  the validation of records whose caller sets dispatch and live-effect flags.
- Of the graph runtime, helpers that the runner does not call
  (`graph_state_from_mapping`, the merge of states).

Not planned: the glob matching of discovery, JSON and text layout, and the
fixture runners, which only call the components. `kernel/` has no code.
