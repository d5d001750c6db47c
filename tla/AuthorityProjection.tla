------------------------- MODULE AuthorityProjection -------------------------
(***************************************************************************)
(* The IR2 pipeline: discover the SOP files under a root, parse, extract   *)
(* and validate each of them, and rebuild the SQLite projection from the   *)
(* validation report.  The pipeline is the one that the tests compose from *)
(* discover_sop_artifacts, parse_sop_document,                             *)
(* extract_kernel_record_candidates, validate_kernel_record_candidates and *)
(* rebuild_sqlite_projection.                                              *)
(*                                                                         *)
(* Discovery hashes a file; parsing reads it again, later.  Between the    *)
(* two, and between two builds, files are edited, created and deleted.  A  *)
(* build may raise, or its process may stop, at any point; the projection  *)
(* then keeps what SQLite had committed.                                   *)
(*                                                                         *)
(* The content of a file stands for its hash too: SHA256 is taken to be    *)
(* free of collisions.  Paths are the discovered ones only (included by a  *)
(* glob and not excluded), numbered in the order of their names.           *)
(***************************************************************************)
EXTENDS AuthorityRecords, Naturals

CONSTANTS Paths,              \* paths of SOP files, as ranks in sort order
          Contents,           \* texts a file may contain
          Undecodable,        \* contents that are not UTF-8
          DocumentOf,         \* the fields of each text: [Contents -> Document]
          MaxEdits, MaxBuilds \* bounds (for model checking)

NoFile == "no file"

ASSUME PathsAssumption == Paths \subseteq Nat
ASSUME ContentsAssumption == /\ Undecodable \subseteq Contents
                             /\ DocumentOf \in [Contents -> Document]
ASSUME NoFileAssumption == NoFile \notin Contents
ASSUME BoundsAssumption == MaxEdits \in Nat /\ MaxBuilds \in Nat

VARIABLES files,     \* the current text of each path, or NoFile
          phase,     \* where the running build is
          visited,   \* paths the discovery has reached
          found,     \* discovered artifacts: path -> source_hash
          parsed,    \* parsed artifacts: path -> [source_hash, document]
          written,   \* paths whose candidate the open transaction has written
          work,      \* the projection as the open transaction sees it
          db,        \* the projection as committed
          edited,    \* paths edited since the last build started (not in the code)
          edits,     \* number of edits so far
          builds     \* number of builds so far

build == <<visited, found, parsed, written>>
vars == <<files, phase, build, work, db, edited, edits, builds>>

-----------------------------------------------------------------------------
(* Rows.                                                                   *)

\* f with f[k] = v: INSERT OR REPLACE into a table with a primary key.
Replace(f, k, v) == [x \in DOMAIN f \cup {k} |-> IF x = k THEN v ELSE f[x]]

\* One more copy of k in the bag f: INSERT into a table without a key.
Insert(f, k) ==
    [x \in DOMAIN f \cup {k} |->
        IF x = k THEN (IF k \in DOMAIN f THEN f[k] + 1 ELSE 1) ELSE f[x]]

\* _record_id: what the identifier is hashed from.
RecordId(path, source_hash, doc) ==
    [path |-> path, source_hash |-> source_hash, identity |-> doc.identity]

\* The tables.  source_refs also stands for lineage_edges: the rows of both
\* are inserted together, a fixed number per record.
EmptyProjection == [notice             |-> FALSE,
                    source_artifacts   |-> <<>>,
                    candidates         |-> <<>>,
                    source_refs        |-> <<>>,
                    validation_results |-> <<>>,
                    proof_results      |-> {},
                    projection_faults  |-> {},
                    freshness_events   |-> {}]

\* _write_candidate, _write_source_refs, _write_lineage_edges and
\* _write_validation_result for the candidate of one parsed artifact.
WriteCandidate(tables, path, artifact) ==
    LET candidate == Extract(artifact.document)
        record    == RecordId(path, artifact.source_hash, artifact.document)
    IN  [tables EXCEPT
           !.source_artifacts   = Replace(@, path, [source_hash |-> artifact.source_hash,
                                                    freshness_state |-> candidate.freshness_state]),
           !.candidates         = Replace(@, record, candidate),
           !.source_refs        = Insert(@, record),
           !.validation_results = Replace(@, record, Validate(candidate))]

ResultOf(path) == Validate(Extract(parsed[path].document))
RecordOf(path) == RecordId(path, parsed[path].source_hash, parsed[path].document)

\* The rows of the report's proof_results, faults and stale_projection_refs.
\* Mutant: faults and stale references are left out.
WriteProofsOnly(tables) ==
    [tables EXCEPT !.proof_results =
        @ \cup {<<RecordOf(p), ResultOf(p).proof_result_status>> : p \in DOMAIN parsed}]
WriteEvidence(tables) ==
    LET reported == DOMAIN parsed
        faulty   == {p \in reported : ResultOf(p).fault_or_interrupt # "none"}
        stale    == {p \in reported : ResultOf(p).freshness_check_status = "stale"}
    IN  [tables EXCEPT
           !.proof_results     = @ \cup {<<RecordOf(p), ResultOf(p).proof_result_status>> : p \in reported},
           !.projection_faults = @ \cup {<<RecordOf(p), ResultOf(p).fault_or_interrupt>> : p \in faulty},
           !.freshness_events  = @ \cup {RecordOf(p) : p \in stale}]

-----------------------------------------------------------------------------
(* Actions.                                                                *)

Init == /\ files \in [Paths -> Contents \cup {NoFile}]
        /\ phase = "idle"
        /\ visited = {} /\ found = <<>> /\ parsed = <<>> /\ written = {}
        /\ work = EmptyProjection
        /\ db = EmptyProjection
        /\ edited = {}
        /\ edits = 0 /\ builds = 0

\* A file is written, created or deleted by its author.
EditFile(path) ==
    /\ edits < MaxEdits
    /\ \E c \in (Contents \cup {NoFile}) \ {files[path]} : files' = [files EXCEPT ![path] = c]
    /\ edited' = edited \cup {path}
    /\ edits' = edits + 1
    /\ UNCHANGED <<phase, build, work, db, builds>>

StartBuild ==
    /\ phase = "idle"
    /\ builds < MaxBuilds
    /\ phase' = "discovering"
    /\ builds' = builds + 1
    /\ visited' = {} /\ found' = <<>> /\ parsed' = <<>> /\ written' = {}
    /\ edited' = {}
    /\ UNCHANGED <<files, work, db, edits>>

\* The hash discovery computes from the bytes of the file.
\* Mutant: the hash of a path that is already projected is not computed again.
SourceHashFromProjection(path) ==
    IF path \in DOMAIN db.source_artifacts
    THEN db.source_artifacts[path].source_hash ELSE files[path]
SourceHash(path) == files[path]

\* One path of the walk; a file that does not exist, or vanished before it
\* could be read, yields no artifact.
DiscoverFile(path) ==
    /\ phase = "discovering"
    /\ path \notin visited
    /\ visited' = visited \cup {path}
    /\ found' = IF files[path] = NoFile THEN found
                ELSE Replace(found, path, SourceHash(path))
    /\ UNCHANGED <<files, phase, parsed, written, work, db, edited, edits, builds>>

EndDiscovery ==
    /\ phase = "discovering"
    /\ visited = Paths
    /\ phase' = "parsing"
    /\ UNCHANGED <<files, build, work, db, edited, edits, builds>>

\* The next artifact in the order of source paths.
IsNext(path, remaining) == path \in remaining /\ \A q \in remaining : path <= q

Readable(path) == files[path] \in Contents \ Undecodable

\* parse_sop_document reads the file again, and keeps the discovered hash.
ParseFile(path) ==
    /\ phase = "parsing"
    /\ IsNext(path, DOMAIN found \ DOMAIN parsed)
    /\ Readable(path)
    /\ parsed' = Replace(parsed, path, [source_hash |-> found[path],
                                        document    |-> DocumentOf[files[path]]])
    /\ UNCHANGED <<files, phase, visited, found, written, work, db, edited, edits, builds>>

\* read_text raises (no such file, not UTF-8): nothing is projected.
ParseRaises(path) ==
    /\ phase = "parsing"
    /\ IsNext(path, DOMAIN found \ DOMAIN parsed)
    /\ ~ Readable(path)
    /\ phase' = "idle"
    /\ UNCHANGED <<files, build, work, db, edited, edits, builds>>

\* The projection once initialize_projection_schema has run.
InitializedProjection == [db EXCEPT !.notice = TRUE]

\* rebuild_sqlite_projection connects, and initialize_projection_schema
\* writes the notice, which opens the transaction of the whole rebuild.
OpenProjection ==
    /\ phase = "parsing"
    /\ DOMAIN found = DOMAIN parsed
    /\ work' = InitializedProjection
    /\ phase' = "writing"
    /\ UNCHANGED <<files, build, db, edited, edits, builds>>

WriteRecord(path) ==
    /\ phase = "writing"
    /\ IsNext(path, DOMAIN parsed \ written)
    /\ work' = WriteCandidate(work, path, parsed[path])
    /\ written' = written \cup {path}
    /\ UNCHANGED <<files, phase, visited, found, parsed, db, edited, edits, builds>>

WriteReport ==
    /\ phase = "writing"
    /\ written = DOMAIN parsed
    /\ work' = WriteEvidence(work)
    /\ phase' = "committing"
    /\ UNCHANGED <<files, build, db, edited, edits, builds>>

\* The end of "with connection:".
Commit ==
    /\ phase = "committing"
    /\ db' = work
    /\ phase' = "idle"
    /\ UNCHANGED <<files, build, work, edited, edits, builds>>

\* What SQLite has of a transaction that does not commit: what was there.
\* Mutant: the rows are written in autocommit mode.
AutocommitProjection == work
RolledBackProjection == db

\* A statement raises, or the process stops: "with connection:" rolls back,
\* or the next connection does, from the journal.
BuildFails ==
    /\ phase # "idle"
    /\ db' = RolledBackProjection
    /\ work' = db'
    /\ phase' = "idle"
    /\ UNCHANGED <<files, build, edited, edits, builds>>

Next == \/ \E path \in Paths : \/ EditFile(path)
                               \/ DiscoverFile(path)
                               \/ ParseFile(path)
                               \/ ParseRaises(path)
                               \/ WriteRecord(path)
        \/ StartBuild \/ EndDiscovery \/ OpenProjection \/ WriteReport
        \/ Commit \/ BuildFails

Spec == Init /\ [][Next]_vars

-----------------------------------------------------------------------------
(* What the projection promises.                                           *)

Records == [path: Paths, source_hash: Contents, identity: Identities]
Phases == {"idle", "discovering", "parsing", "writing", "committing"}

\* f is a table whose keys are in K and whose rows are in R.
IsTable(f, K, R) == DOMAIN f \subseteq K /\ \A k \in DOMAIN f : f[k] \in R

CandidateRows == {Extract(DocumentOf[c]) : c \in Contents}
ResultRows == {Validate(row) : row \in CandidateRows}

ProjectionOK(p) ==
    /\ p.notice \in BOOLEAN
    /\ IsTable(p.source_artifacts, Paths,
               [source_hash: Contents, freshness_state: FreshnessStates])
    /\ IsTable(p.candidates, Records, CandidateRows)
    /\ IsTable(p.source_refs, Records, Nat \ {0})
    /\ IsTable(p.validation_results, Records, ResultRows)
    /\ p.proof_results \subseteq Records \X ProofStatuses
    /\ p.projection_faults \subseteq Records \X Faults
    /\ p.freshness_events \subseteq Records

\* Types of the build's variables and of the tables' rows.
TypeOK ==
    /\ files \in [Paths -> Contents \cup {NoFile}]
    /\ phase \in Phases
    /\ visited \subseteq Paths /\ written \subseteq Paths
    /\ IsTable(found, Paths, Contents)
    /\ IsTable(parsed, Paths, [source_hash: Contents, document: {DocumentOf[c] : c \in Contents}])
    /\ ProjectionOK(work) /\ ProjectionOK(db)
    /\ edited \subseteq Paths
    /\ edits \in 0 .. MaxEdits /\ builds \in 0 .. MaxBuilds

\* The evidence a reader of the committed projection relies on is complete,
\* however builds were interrupted: a candidate has its validation, computed
\* from this very row, its source refs, and the proof row, fault row and
\* freshness event that the validation calls for.
EvidenceComplete ==
    /\ DOMAIN db.candidates = DOMAIN db.validation_results
    /\ DOMAIN db.candidates = DOMAIN db.source_refs
    /\ \A r \in DOMAIN db.candidates :
         LET result == db.validation_results[r]
         IN  /\ result = Validate(db.candidates[r])
             /\ <<r, result.proof_result_status>> \in db.proof_results
             /\ result.fault_or_interrupt # "none" =>
                  <<r, result.fault_or_interrupt>> \in db.projection_faults
             /\ result.freshness_check_status = "stale" => r \in db.freshness_events

\* A projection that shows a record also shows the notice that it is not an
\* authority, and the artifact each path was last projected from has a record.
ProjectionIsLabelled ==
    /\ DOMAIN db.candidates # {} => db.notice
    /\ \A p \in DOMAIN db.source_artifacts :
         \E r \in DOMAIN db.candidates :
           r.path = p /\ r.source_hash = db.source_artifacts[p].source_hash

\* The projection changes by whole builds only: what a reader sees changes in
\* one step, to a projection with the rows of every artifact of the build.
PublishesWholeBuilds ==
    [][db' # db =>
         \A p \in DOMAIN found :
           /\ p \in DOMAIN db'.source_artifacts
           /\ db'.source_artifacts[p].source_hash = found[p]
           /\ RecordOf(p) \in DOMAIN db'.candidates]_vars

\* A build that commits has projected every file that nobody edited under it
\* as it is: its hash, and a record with the fields of its text.
CommitMatchesFiles ==
    [][phase = "committing" /\ phase' = "idle" /\ db' # db =>
         \A p \in Paths \ edited : files[p] # NoFile =>
           LET doc == DocumentOf[files[p]]
               r   == RecordId(p, files[p], doc)
           IN  /\ p \in DOMAIN db'.source_artifacts
               /\ db'.source_artifacts[p].source_hash = files[p]
               /\ r \in DOMAIN db'.candidates
               /\ db'.candidates[r] = Extract(doc)]_vars

\* Whatever is committed is sound by itself, after any mix of builds, edits,
\* exceptions and crashes: whole rows, complete evidence, and labelled.
CommittedIsSound == TypeOK /\ ProjectionIsLabelled /\ EvidenceComplete

-----------------------------------------------------------------------------
(* What the projection policy says and the code does not do.               *)

\* "hash_match_result is current when computed hash equals recorded hash": the
\* fields projected for a record may be those of another text than the one with
\* its hash, as the file is read again after it was hashed.
HashBindsFields ==
    \A r \in DOMAIN db.candidates : db.candidates[r] = Extract(DocumentOf[r.source_hash])
=============================================================================
