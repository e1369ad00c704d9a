----------------------------- MODULE PostingIndex -----------------------------
(***************************************************************************)
(* The immutable semantic posting index of native_semantic_index.py, kept  *)
(* beside a registry that any other thread may write.  Three ways publish  *)
(* a new index: a full build, an incremental refresh from the registry's   *)
(* mutation journal, and a refresh from changed-key hints the caller       *)
(* supplies and the code does not trust.  Each registry call of a refresh  *)
(* is a step of its own: the registry may move between any two of them.    *)
(*                                                                         *)
(* Abstraction: a tool stands for all its endpoints (the code moves the    *)
(* routes of a tool together), and what it declares is the set of semantic *)
(* identifiers its fingerprinted contract publishes.  A failed refresh     *)
(* raises PolicyViolationError and leaves the previous index in place.     *)
(***************************************************************************)
EXTENDS Registry

CONSTANTS
    SemIds,     \* declared semantic identifiers
    SemOf,      \* Fps -> SUBSET SemIds: what a contract lets the index post
    NoIndex     \* nothing published yet

ASSUME PostingIndexAssumption ==
    /\ SemOf \in [Fps -> SUBSET SemIds]
    /\ NoIndex \notin [version : Nat,
                       fps : [Keys -> Fps \cup {Absent}],
                       postings : [SemIds -> SUBSET Keys]]

VARIABLES
    index,   \* the published index: its registry_version, tool_fingerprints, postings
    phase,   \* where the running refresh is
    job      \* its locals: prev index, target version, changed keys, tools read so far

indexVars == <<index, phase, job>>
vars == <<registryVars, indexVars>>

Indexes == [version : Nat,
            fps : [Keys -> Fps \cup {Absent}],
            postings : [SemIds -> SUBSET Keys]]

\* Posts(fp, s): a tool with this fingerprint is posted under s.
Posts(fp, s) == fp # Absent /\ s \in SemOf[fp]

\* The index a full build of a catalog yields.
BuildOf(cat, v) ==
    [version |-> v,
     fps |-> [k \in Keys |-> FpAt(cat, k)],
     postings |-> [s \in SemIds |-> {k \in Keys : Posts(FpAt(cat, k), s)}]]

\* Mutant: a changed tool's old postings survive the delta.
AssembleDeltaKeepingStale(prev, v, changed, fresh) ==
    [version |-> v,
     fps |-> fresh,
     postings |-> [s \in SemIds |->
         prev.postings[s] \cup {k \in changed : Posts(fresh[k], s)}]]

\* _assemble_verified_posting_delta: drop the changed keys' routes from the
\* previous index and add the routes of the tools that were read.
AssembleDelta(prev, v, changed, fresh) ==
    [version |-> v,
     fps |-> fresh,
     postings |-> [s \in SemIds |->
         (prev.postings[s] \ changed) \cup {k \in changed : Posts(fresh[k], s)}]]

NoJob == [prev |-> NoIndex, to |-> 0, changed |-> {}, todo |-> {},
          fresh |-> [k \in Keys |-> Absent]]

Fail == phase' = "idle" /\ job' = NoJob /\ UNCHANGED index

Publish(new) == phase' = "idle" /\ job' = NoJob /\ index' = new

-----------------------------------------------------------------------------
(* build: version, then tools() in one call, then the version again *)

BuildStart ==
    /\ phase = "idle"
    /\ phase' = "scan"
    /\ job' = [NoJob EXCEPT !.to = version]
    /\ UNCHANGED <<index, registryVars>>

BuildScan ==
    /\ phase = "scan"
    /\ phase' = "built"
    /\ job' = [job EXCEPT !.fresh = [k \in Keys |-> FpAt(tools, k)]]
    /\ UNCHANGED <<index, registryVars>>

BuildPublish ==
    /\ phase = "built"
    /\ IF version = job.to
       THEN Publish([version |-> job.to, fps |-> job.fresh,
                     postings |-> [s \in SemIds |->
                         {k \in Keys : Posts(job.fresh[k], s)}]])
       ELSE Fail
    /\ UNCHANGED registryVars

-----------------------------------------------------------------------------
(* refresh from the journal: one atomic receipt, one get per changed key,  *)
(* a version check before assembly and another before publication          *)

JournalStart ==
    /\ phase = "idle"
    /\ index # NoIndex
    /\ ReceiptServed(index.version)
    /\ version > index.version
    /\ ChangedSince(index.version) # {}
    /\ phase' = "read"
    /\ job' = [prev |-> index, to |-> version,
               changed |-> ChangedSince(index.version),
               todo |-> ChangedSince(index.version),
               fresh |-> index.fps]
    /\ UNCHANGED <<index, registryVars>>

JournalRead ==
    /\ phase = "read"
    /\ \E k \in job.todo :
          job' = [job EXCEPT !.todo = @ \ {k}, !.fresh[k] = FpAt(tools, k)]
    /\ UNCHANGED <<phase, index, registryVars>>

\* Mutant: the delta is assembled before every changed key was read.
JournalVerifyEarly ==
    /\ phase = "read"
    /\ IF version = job.to
       THEN phase' = "assemble" /\ UNCHANGED <<job, index>>
       ELSE Fail
    /\ UNCHANGED registryVars

JournalVerify ==
    /\ phase = "read" /\ job.todo = {}
    /\ IF version = job.to
       THEN phase' = "assemble" /\ UNCHANGED <<job, index>>
       ELSE Fail
    /\ UNCHANGED registryVars

-----------------------------------------------------------------------------
(* refresh from hints: read the key set, then every tool, and refuse if a  *)
(* tool outside the hints differs from what the previous index pinned      *)

HintStart ==
    /\ phase = "idle"
    /\ index # NoIndex
    /\ version > index.version
    /\ \E hints \in SUBSET Keys :
          /\ hints # {}
          /\ phase' = "manifest"
          /\ job' = [NoJob EXCEPT !.prev = index, !.to = version, !.changed = hints]
    /\ UNCHANGED <<index, registryVars>>

Indexed(ix) == {k \in Keys : ix.fps[k] # Absent}

HintManifest ==
    /\ phase = "manifest"
    /\ IF job.changed \subseteq Present(tools) \cup Indexed(job.prev)
       THEN /\ phase' = "verify"
            /\ job' = [job EXCEPT !.todo = Present(tools)]
            /\ UNCHANGED index
       ELSE Fail
    /\ UNCHANGED registryVars

\* One tool of the manifest: it must still exist, and match the pin unless hinted.
HintRead ==
    /\ phase = "verify"
    /\ \E k \in job.todo :
          IF tools[k] # Absent /\ (k \in job.changed \/ job.prev.fps[k] = FpAt(tools, k))
          THEN /\ job' = [job EXCEPT !.todo = @ \ {k}, !.fresh[k] = FpAt(tools, k)]
               /\ UNCHANGED <<phase, index>>
          ELSE Fail
    /\ UNCHANGED registryVars

\* No indexed tool may have disappeared unhinted, and the version must not have moved.
HintVerify ==
    /\ phase = "verify" /\ job.todo = {}
    /\ IF /\ \A k \in Indexed(job.prev) \ job.changed : job.fresh[k] # Absent
          /\ version = job.to
       THEN phase' = "assemble" /\ UNCHANGED <<job, index>>
       ELSE Fail
    /\ UNCHANGED registryVars

-----------------------------------------------------------------------------
\* Both refreshes end in _assemble_verified_posting_delta's own version check.
AssemblePublish ==
    /\ phase = "assemble"
    /\ IF version = job.to
       THEN Publish(AssembleDelta(job.prev, job.to, job.changed, job.fresh))
       ELSE Fail
    /\ UNCHANGED registryVars

RegistryWrite == AnyWrite /\ UNCHANGED indexVars

Init ==
    /\ RegistryInit
    /\ index = NoIndex
    /\ phase = "idle"
    /\ job = NoJob

Next ==
    \/ BuildStart \/ BuildScan \/ BuildPublish
    \/ JournalStart \/ JournalRead \/ JournalVerify
    \/ HintStart \/ HintManifest \/ HintRead \/ HintVerify
    \/ AssemblePublish
    \/ RegistryWrite

Spec == Init /\ [][Next]_vars

-----------------------------------------------------------------------------
(* Properties *)

\* Types of the index and of the running refresh; a delta is assembled only
\* when nothing is left to read, and a refresh that ended keeps no locals.
IndexTypeOK ==
    /\ index \in Indexes \cup {NoIndex}
    /\ phase \in {"idle", "scan", "built", "read", "manifest", "verify", "assemble"}
    /\ job \in [prev : Indexes \cup {NoIndex}, to : Nat,
                changed : SUBSET Keys, todo : SUBSET Keys,
                fresh : [Keys -> Fps \cup {Absent}]]
    /\ phase = "assemble" => job.todo = {}
    /\ phase = "idle" => job = NoJob

\* Whatever way it was produced, and whatever other threads wrote while it was
\* being assembled, a published index is exactly the index a full build would
\* give of the catalog at the index's own version: no half-applied delta, no
\* tool read from another version, no stale posting left behind, no omitted
\* change believed from a caller's hints.
IndexIsSnapshot ==
    index # NoIndex =>
        /\ index.version \in 0 .. version
        /\ index = BuildOf(history[index.version], index.version)

=============================================================================
