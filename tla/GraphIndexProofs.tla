--------------------------- MODULE GraphIndexProofs ---------------------------
(***************************************************************************)
(* Proofs about GraphIndex and PostingIndex, for any tools, contracts,     *)
(* identifiers, numbers of writes and worlds: both indexes are always what *)
(* full builds of their version would give, and a lookup answers for the   *)
(* catalog and the policy of the moment it answers.  Neither is inductive: *)
(* what is published was read piece by piece from a registry that may have *)
(* moved, so the invariant says what the pieces in hand are worth if it    *)
(* has not (`version = target').                                           *)
(***************************************************************************)
EXTENDS GraphIndex, RegistryProofs

\* The catalogs up to version w are in h2 what they are in h.
Extends(h, w, h2, w2) == w <= w2 /\ \A v \in 0 .. w : h2[v] = h[v]

\* ix is the index a full build gave of a version there was.
SnapshotIn(ix, h, w) ==
    /\ ix \in Indexes
    /\ ix.version \in 0 .. w
    /\ ix = BuildOf(h[ix.version], ix.version)

\* What a full build makes of a catalog, under the approvals given.
CapsOf(cat, approved) == [k \in Keys |-> CapOf(k, cat[k], approved)]

GraphIn(g, h, w) ==
    /\ g \in Graphs
    /\ SnapshotIn(g.posting, h, w)
    /\ g.caps = CapsOf(h[g.posting.version], g.approved)
    /\ g.edges = EdgesOf(g.caps)

-----------------------------------------------------------------------------
(* The posting index *)

\* While the version is the target of the refresh, what it has read is what is
\* registered, and what it has not is what the previous index pinned.
JobCurrent ==
    /\ phase = "built" => \A k \in Keys : job.fresh[k] = FpAt(tools, k)
    /\ phase \in {"read", "verify", "assemble"} =>
          \A k \in Keys \ job.todo : job.fresh[k] = FpAt(tools, k)
    /\ phase \in {"read", "assemble"} =>
          \A k \in Keys \ job.changed : job.prev.fps[k] = FpAt(tools, k)

JobOK ==
    /\ job.to \in 0 .. version
    /\ job.prev # NoIndex => SnapshotIn(job.prev, history, version)
    /\ phase \in {"read", "manifest", "verify", "assemble"} => job.prev # NoIndex
    /\ phase = "read" => job.todo \subseteq job.changed
    /\ phase = "manifest" => \A k \in Keys : job.fresh[k] = Absent
    /\ phase = "verify" =>
          \A k \in Keys \ (job.changed \cup job.todo) :
              job.fresh[k] # Absent => job.fresh[k] = job.prev.fps[k]
    /\ version = job.to => JobCurrent

PostingInv ==
    /\ RegistryInv
    /\ IndexTypeOK
    /\ index # NoIndex => SnapshotIn(index, history, version)
    /\ JobOK

-----------------------------------------------------------------------------
(* The graph *)

Caps == [needs : SUBSET SemIds, gives : SUBSET SemIds, root : BOOLEAN]

Works == [posting : Indexes \cup {NoIndex}, to : Nat, changed : SUBSET Keys,
          todo : SUBSET Keys, caps : [Keys -> Caps], approved : SUBSET Keys,
          policy : 1 .. 2]

\* While the version is that of the posting index in hand, the capabilities in
\* hand are those of the registered tools, but for the tools still to be read.
WorkCurrent(s, w) ==
    /\ s = "scanned" => w.caps = CapsOf(tools, w.approved)
    /\ s \in {"revise", "delta"} =>
          \A k \in Keys \ w.todo : w.caps[k] = CapOf(k, tools[k], w.approved)

\* The receipt a journal refresh holds, while the version is the one it ends at.
ReceiptCurrent(w) ==
    \A k \in Keys \ w.changed : history[graph.posting.version][k] = tools[k]

\* What a build, revision or refresh at stage s relies on in its locals w.
WorkFits(s, w) ==
    /\ s = "idle" => w = NoWork
    /\ s # "idle" => index # NoIndex
    /\ s \in {"scan", "scanned", "revise", "manifest", "pins", "delta"} =>
          /\ w.posting # NoIndex
          /\ SnapshotIn(w.posting, history, version)
          /\ version = w.posting.version => WorkCurrent(s, w)
    /\ s \in {"revise", "manifest", "pins", "receipt", "posting", "delta"} =>
          graph # NoIndex
    /\ s \in {"manifest", "pins", "receipt", "posting", "delta"} =>
          w.approved = graph.approved
    /\ s \in {"manifest", "pins", "delta"} => w.posting.version > graph.posting.version
    /\ s \in {"manifest", "pins"} => w.changed = Differ(graph.posting, w.posting)
    /\ s \in {"receipt", "posting"} =>
          /\ w.to \in 0 .. version /\ graph.posting.version < w.to
          /\ version = w.to => ReceiptCurrent(w)

Stages == {"idle", "scan", "scanned", "revise", "manifest", "pins", "receipt", "posting",
           "delta"}

GraphInv ==
    /\ stage \in Stages /\ work \in Works
    /\ graph # NoIndex => index # NoIndex /\ GraphIn(graph, history, version)
    /\ WorkFits(stage, work)

-----------------------------------------------------------------------------
(* The lookup *)

QueryType ==
    query \in [at : {"idle", "look", "recheck"}, graph : Graphs \cup {NoIndex},
               wants : SUBSET SemIds, policy : 1 .. 2, todo : SUBSET (Keys \X Keys),
               found : SUBSET (Keys \X Keys), flapped : SUBSET Keys,
               answer : {"none", "complete"}]

\* The edges a lookup has to look at.
Candidates ==
    {e \in query.graph.edges : \A s \in query.wants : e[2] \in query.graph.posting.postings[s]}

Disclosable(e) ==
    {e[1], e[2]} \subseteq Policy(query.policy).permits \cap Policy(query.policy).shows

\* What was looked at was found if it could be, as far as the policy and the
\* health of the tools are those of the start.
Looking ==
    /\ query.answer = "none"
    /\ GraphIn(query.graph, history, version)
    /\ down \subseteq query.flapped
    /\ query.todo \subseteq Candidates /\ query.found \subseteq Candidates
    /\ \A e \in query.found : query.graph.caps[e[1]].root
    /\ ~Does("restores") => query.policy <= policy
    /\ ~Does("restores") /\ policy = query.policy =>
          /\ \A e \in query.found : Disclosable(e)
          /\ \A e \in Candidates \ query.found :
                \/ query.at = "look" /\ e \in query.todo
                \/ ~query.graph.caps[e[1]].root
                \/ ~Disclosable(e)
                \/ {e[1], e[2]} \cap query.flapped # {}

QueryInv ==
    /\ world \in Worlds /\ policy \in 1 .. 2 /\ down \subseteq Keys
    /\ QueryType
    /\ query.at # "idle" => Looking

SessionInv == PostingInv /\ GraphInv /\ QueryInv

-----------------------------------------------------------------------------
(* Fingerprints, builds and deltas of postings *)

LEMMA FpType ==
    ASSUME NEW cat \in Catalogs, NEW k \in Keys
    PROVE  FpAt(cat, k) \in Fps \cup {Absent} /\ (FpAt(cat, k) = Absent <=> cat[k] = Absent)
  BY RegistryAssumption DEF FpAt, Catalogs

LEMMA BuildType ==
    ASSUME NEW cat \in Catalogs, NEW v \in Nat
    PROVE  BuildOf(cat, v) \in Indexes
<1>1. [k \in Keys |-> FpAt(cat, k)] \in [Keys -> Fps \cup {Absent}]
  BY FpType
<1>2. [s \in SemIds |-> {k \in Keys : Posts(FpAt(cat, k), s)}] \in [SemIds -> SUBSET Keys]
  OBVIOUS
<1> QED
  BY <1>1, <1>2 DEF BuildOf, Indexes

LEMMA IndexIsSomething == NoIndex \notin Indexes
  BY PostingIndexAssumption DEF Indexes

LEMMA SnapshotGrows ==
    ASSUME NEW ix, NEW h, NEW w \in Nat, NEW h2, NEW w2 \in Nat,
           SnapshotIn(ix, h, w), Extends(h, w, h2, w2)
    PROVE  SnapshotIn(ix, h2, w2)
  BY DEF SnapshotIn, Extends

LEMMA GraphGrows ==
    ASSUME NEW g, NEW h, NEW w \in Nat, NEW h2, NEW w2 \in Nat,
           GraphIn(g, h, w), Extends(h, w, h2, w2)
    PROVE  GraphIn(g, h2, w2)
<1>1. SnapshotIn(g.posting, h2, w2)
  BY SnapshotGrows DEF GraphIn
<1>2. h2[g.posting.version] = h[g.posting.version]
  BY DEF GraphIn, SnapshotIn, Extends
<1> QED
  BY <1>1, <1>2 DEF GraphIn

\* A delta over keys outside which nothing differs is the full build
\* (_assemble_verified_posting_delta).
LEMMA DeltaIsBuild ==
    ASSUME NEW old \in Catalogs, NEW pv, NEW cat \in Catalogs, NEW v, NEW changed \in SUBSET Keys,
           NEW fresh \in [Keys -> Fps \cup {Absent}],
           \A k \in Keys : fresh[k] = FpAt(cat, k),
           \A k \in Keys \ changed : BuildOf(old, pv).fps[k] = FpAt(cat, k)
    PROVE  AssembleDelta(BuildOf(old, pv), v, changed, fresh) = BuildOf(cat, v)
<1>1. fresh = [k \in Keys |-> FpAt(cat, k)]
  OBVIOUS
<1>2. ASSUME NEW s \in SemIds
      PROVE  (BuildOf(old, pv).postings[s] \ changed) \cup {k \in changed : Posts(fresh[k], s)}
                 = {k \in Keys : Posts(FpAt(cat, k), s)}
  <2>1. BuildOf(old, pv).postings[s] = {k \in Keys : Posts(FpAt(old, k), s)}
    BY DEF BuildOf
  <2>2. \A k \in Keys \ changed : FpAt(old, k) = FpAt(cat, k)
    BY DEF BuildOf
  <2>3. \A k \in Keys \ changed : Posts(FpAt(old, k), s) <=> Posts(FpAt(cat, k), s)
    BY <2>2
  <2>4. \A k \in changed : Posts(fresh[k], s) <=> Posts(FpAt(cat, k), s)
    OBVIOUS
  <2> HIDE DEF Posts
  <2> QED
    BY <2>1, <2>3, <2>4
<1>3. [s \in SemIds |-> (BuildOf(old, pv).postings[s] \ changed)
                           \cup {k \in changed : Posts(fresh[k], s)}]
        = [s \in SemIds |-> {k \in Keys : Posts(FpAt(cat, k), s)}]
  BY <1>2
<1> QED
  BY <1>1, <1>3 DEF AssembleDelta, BuildOf

-----------------------------------------------------------------------------
(* Capabilities and edges *)

LEMMA NoCapType == NoCap \in Caps
<1> PICK no \in BOOLEAN : no = FALSE
  OBVIOUS
<1>1. [needs |-> {}, gives |-> {}, root |-> no] \in Caps
  BY DEF Caps
<1> QED
  BY <1>1, Zenon DEF NoCap

LEMMA CapType ==
    ASSUME NEW k \in Keys, NEW c \in Contracts \cup {Absent}, NEW approved
    PROVE  CapOf(k, c, approved) \in Caps
<1> PICK no \in BOOLEAN, yes \in BOOLEAN : no = FALSE /\ yes = TRUE
  OBVIOUS
<1> DEFINE R(needs, gives, root) == [needs |-> needs, gives |-> gives, root |-> root]
<1>1. CASE c = Absent
  BY <1>1, NoCapType DEF CapOf
<1>2. CASE c # Absent
  <2>1. Shape[c] \in Shapes
    BY <1>2, GraphIndexAssumption
  <2>2. Shape[c].needs \in SUBSET SemIds /\ Shape[c].gives \in SUBSET SemIds
    BY <2>1 DEF Shapes
  <2>3. R({}, Shape[c].gives, yes) \in Caps /\ R(Shape[c].needs, Shape[c].gives, no) \in Caps
    BY <2>2 DEF Caps
  <2>4. \/ CapOf(k, c, approved) = R({}, Shape[c].gives, yes)
        \/ CapOf(k, c, approved) = R(Shape[c].needs, Shape[c].gives, no)
        \/ CapOf(k, c, approved) = NoCap
    BY <1>2, Zenon DEF CapOf
  <2> QED
    BY <2>3, <2>4, NoCapType
<1> QED
  BY <1>1, <1>2

LEMMA CapsType ==
    ASSUME NEW cat \in Catalogs, NEW approved
    PROVE  /\ CapsOf(cat, approved) \in [Keys -> Caps]
           /\ \A k \in Keys : CapsOf(cat, approved)[k] = CapOf(k, cat[k], approved)
  BY CapType DEF CapsOf, Catalogs

\* Contracts of one fingerprint have one capability under one approval: the
\* review an approval relies on is metadata and decides no more than whether it
\* is accepted.
LEMMA CapOfFingerprint ==
    ASSUME NEW k \in Keys, NEW old \in Catalogs, NEW cat \in Catalogs, NEW a, NEW b,
           FpAt(old, k) = FpAt(cat, k), k \in a <=> k \in b
    PROVE  CapOf(k, old[k], a) = CapOf(k, cat[k], b)
<1>1. old[k] = Absent <=> cat[k] = Absent
  BY FpType
<1>2. CASE old[k] = Absent
  BY <1>1, <1>2 DEF CapOf
<1>3. CASE old[k] # Absent
  <2>1. old[k] \in Contracts /\ cat[k] \in Contracts /\ FpOf[old[k]] = FpOf[cat[k]]
    BY <1>1, <1>3 DEF Catalogs, FpAt
  <2>2. PICK c \in Contracts, d \in Contracts : c = old[k] /\ d = cat[k]
    BY <2>1
  <2>3. [Shape[c] EXCEPT !.reviewed = TRUE] = [Shape[d] EXCEPT !.reviewed = TRUE]
    BY <2>1, <2>2, GraphIndexAssumption
  <2>4. Shape[c] \in Shapes /\ Shape[d] \in Shapes
    BY <2>2, GraphIndexAssumption
  <2>5. /\ Shape[c].root = [Shape[c] EXCEPT !.reviewed = TRUE].root
        /\ Shape[c].needs = [Shape[c] EXCEPT !.reviewed = TRUE].needs
        /\ Shape[c].gives = [Shape[c] EXCEPT !.reviewed = TRUE].gives
        /\ Shape[d].root = [Shape[d] EXCEPT !.reviewed = TRUE].root
        /\ Shape[d].needs = [Shape[d] EXCEPT !.reviewed = TRUE].needs
        /\ Shape[d].gives = [Shape[d] EXCEPT !.reviewed = TRUE].gives
    <3> PICK yes \in BOOLEAN : yes = TRUE
      OBVIOUS
    <3>1. \A r \in Shapes : [r EXCEPT !.reviewed = yes].root = r.root
                         /\ [r EXCEPT !.reviewed = yes].needs = r.needs
                         /\ [r EXCEPT !.reviewed = yes].gives = r.gives
      BY DEF Shapes
    <3> QED
      BY <2>4, <3>1, Zenon
  <2>6. Shape[c].root = Shape[d].root /\ Shape[c].needs = Shape[d].needs
        /\ Shape[c].gives = Shape[d].gives
    BY <2>3, <2>5, Zenon
  <2> QED
    BY <2>1, <2>2, <2>6, RegistryAssumption, Zenon DEF CapOf
<1> QED
  BY <1>2, <1>3

\* Comparing only what is incident to a changed capability finds the edges a
\* full build would (update_capability_dependency_graph).
LEMMA UpdateIsBuild ==
    ASSUME NEW old \in [Keys -> Caps], NEW new \in [Keys -> Caps]
    PROVE  UpdatedEdges(EdgesOf(old), old, new) = EdgesOf(new)
<1> DEFINE changed == {k \in Keys : old[k] # new[k]}
<1>1. \A e \in Keys \X Keys : e[1] \in Keys /\ e[2] \in Keys
  OBVIOUS
<1>2. \A e \in Keys \X Keys : e[1] \notin changed /\ e[2] \notin changed =>
          (Joins(old, e[1], e[2]) <=> Joins(new, e[1], e[2]))
  BY <1>1 DEF Joins
<1> QED
  BY <1>1, <1>2 DEF UpdatedEdges, EdgesOf

LEMMA RootsAreCounted ==
    ASSUME NEW S \in SUBSET Keys
    PROVE  Cardinality(S) \in Nat
  BY RegistryAssumption, FS_Subset, FS_CardinalityType

-----------------------------------------------------------------------------
(* The registry beneath *)

LEMMA RegistryFacts ==
    ASSUME RegistryInv
    PROVE  version \in Nat /\ tools \in Catalogs /\ history[version] = tools
           /\ \A v \in 0 .. version : history[v] \in Catalogs
  BY RegistryAssumption DEF RegistryInv, RegistryTypeOK

\* What a write leaves: all that was said of earlier versions.
LEMMA RegistryMoves ==
    ASSUME RegistryInv, AnyWrite
    PROVE  /\ RegistryInv'
           /\ version' = version + 1
           /\ Extends(history, version, history', version')
<1>1. PICK keys, newTools : WriteOf(keys, newTools)
  BY EveryWriteIsAWrite DEF RegistryInv
<1>2. version' = version + 1
  BY <1>1 DEF WriteOf, CommitChangedToolKeys
<1>3. \A v \in 0 .. version : history'[v] = history[v]
  BY <1>1, WriteKeepsHistory DEF RegistryInv
<1>4. Extends(history, version, history', version')
  BY <1>2, <1>3, RegistryFacts DEF Extends
<1> QED
  BY <1>2, <1>4, RegistryStepInv

LEMMA RegistryStands ==
    ASSUME RegistryInv, UNCHANGED registryVars
    PROVE  /\ RegistryInv'
           /\ tools' = tools /\ version' = version /\ history' = history
  BY RegistryStepInv DEF registryVars

\* A served receipt names every key whose fingerprint moved since the cursor.
LEMMA ReceiptCovers ==
    ASSUME RegistryInv, NEW from \in 0 .. version, ReceiptServed(from)
    PROVE  /\ \A k \in Keys \ ChangedSince(from) : history[from][k] = tools[k]
           /\ ChangedSince(from) \in SUBSET Keys
<1>1. {k \in Keys : history[from][k] # tools[k]} \subseteq ChangedSince(from)
  BY DEF RegistryInv, ReceiptComplete, ReceiptServed
<1>2. ChangedSince(from) \in SUBSET Keys
  BY DEF ChangedSince, RegistryInv, RegistryTypeOK
<1> QED
  BY <1>1, <1>2

-----------------------------------------------------------------------------
(* Steps of the posting index *)

Jobs == [prev : Indexes \cup {NoIndex}, to : Nat, changed : SUBSET Keys,
         todo : SUBSET Keys, fresh : [Keys -> Fps \cup {Absent}]]

LEMMA NoJobType == NoJob \in Jobs
  BY DEF NoJob, Jobs

LEMMA PostingInit == Init => PostingInv
<1> SUFFICES ASSUME Init PROVE PostingInv
  OBVIOUS
<1>1. RegistryInv
  BY RegistryInitInv DEF Init
<1>2. IndexTypeOK
  BY NoJobType DEF Init, IndexTypeOK, Jobs
<1>3. JobOK
  BY <1>1, RegistryFacts DEF Init, JobOK, JobCurrent, NoJob
<1> QED
  BY <1>1, <1>2, <1>3 DEF PostingInv, Init

LEMMA PostingStands == PostingInv /\ UNCHANGED vars => PostingInv'
<1> SUFFICES ASSUME PostingInv, UNCHANGED vars PROVE PostingInv'
  OBVIOUS
<1>1. RegistryInv'
  BY RegistryStands DEF PostingInv, vars
<1>2. UNCHANGED <<tools, version, history, index, phase, job>>
  BY DEF vars, registryVars, indexVars
<1>3. IndexTypeOK'
  BY <1>2 DEF PostingInv, IndexTypeOK
<1>4. JobOK'
  BY <1>2 DEF PostingInv, JobOK, JobCurrent
<1> QED
  BY <1>1, <1>2, <1>3, <1>4 DEF PostingInv

\* A write moves the version past every target.
LEMMA PostingOutlivesWrites == PostingInv /\ RegistryWrite => PostingInv'
<1> SUFFICES ASSUME PostingInv, RegistryWrite PROVE PostingInv'
  OBVIOUS
<1>1. RegistryInv' /\ version' = version + 1 /\ Extends(history, version, history', version')
  BY RegistryMoves DEF PostingInv, RegistryWrite
<1>2. UNCHANGED <<index, phase, job>>
  BY DEF RegistryWrite, indexVars
<1>3. version \in Nat /\ version' \in Nat
  BY <1>1, RegistryFacts DEF PostingInv
<1>4. IndexTypeOK'
  BY <1>2 DEF PostingInv, IndexTypeOK
<1>5. index' # NoIndex => SnapshotIn(index', history', version')
  BY <1>1, <1>2, <1>3, SnapshotGrows DEF PostingInv
<1>6. job'.prev # NoIndex => SnapshotIn(job'.prev, history', version')
  BY <1>1, <1>2, <1>3, SnapshotGrows DEF PostingInv, JobOK
<1>7. job'.to \in 0 .. version' /\ version' # job'.to
  BY <1>1, <1>2, <1>3 DEF PostingInv, JobOK
<1>8. JobOK'
  BY <1>2, <1>6, <1>7 DEF PostingInv, JobOK
<1> QED
  BY <1>1, <1>4, <1>5, <1>8 DEF PostingInv

\* Ending without an index, and with one.
LEMMA FailKeeps == PostingInv /\ UNCHANGED registryVars /\ Fail => PostingInv'
<1> SUFFICES ASSUME PostingInv, UNCHANGED registryVars, Fail PROVE PostingInv'
  OBVIOUS
<1>1. RegistryInv' /\ UNCHANGED <<tools, version, history>>
  BY RegistryStands DEF PostingInv
<1>2. phase' = "idle" /\ job' = NoJob /\ index' = index
  BY DEF Fail
<1>3. IndexTypeOK'
  BY <1>2, NoJobType DEF PostingInv, IndexTypeOK, Jobs
<1>4. JobOK'
  BY <1>1, <1>2, RegistryFacts DEF PostingInv, JobOK, JobCurrent, NoJob
<1> QED
  BY <1>1, <1>2, <1>3, <1>4 DEF PostingInv

LEMMA PublishKeeps ==
    ASSUME PostingInv, UNCHANGED registryVars, NEW new, Publish(new),
           new = BuildOf(tools, version)
    PROVE  PostingInv' /\ index' # NoIndex
<1>1. RegistryInv' /\ UNCHANGED <<tools, version, history>>
  BY RegistryStands DEF PostingInv
<1>2. phase' = "idle" /\ job' = NoJob /\ index' = new
  BY DEF Publish
<1>3. version \in Nat /\ tools \in Catalogs /\ history[version] = tools
  BY RegistryFacts DEF PostingInv
<1>4. new \in Indexes /\ new.version = version
  BY <1>3, BuildType DEF BuildOf
<1>5. SnapshotIn(new, history, version)
  BY <1>3, <1>4 DEF SnapshotIn
<1>6. IndexTypeOK'
  BY <1>2, <1>4, NoJobType DEF PostingInv, IndexTypeOK, Jobs
<1>7. JobOK'
  BY <1>1, <1>2, <1>3 DEF JobOK, JobCurrent, NoJob
<1> QED
  BY <1>1, <1>2, <1>4, <1>5, <1>6, <1>7, IndexIsSomething DEF PostingInv

LEMMA BuildStartKeeps == PostingInv /\ BuildStart => PostingInv' /\ index' = index
<1> SUFFICES ASSUME PostingInv, BuildStart PROVE PostingInv' /\ index' = index
  OBVIOUS
<1>1. RegistryInv' /\ UNCHANGED <<tools, version, history>>
  BY RegistryStands DEF PostingInv, BuildStart
<1>2. phase' = "scan" /\ job' = [NoJob EXCEPT !.to = version] /\ index' = index
  BY DEF BuildStart
<1>3. version \in Nat
  BY RegistryFacts DEF PostingInv
<1>4. job' \in Jobs /\ job'.to = version /\ job'.prev = NoIndex
  BY <1>2, <1>3 DEF NoJob, Jobs
<1>5. IndexTypeOK'
  BY <1>2, <1>4 DEF PostingInv, IndexTypeOK, Jobs
<1>6. JobOK'
  BY <1>1, <1>2, <1>3, <1>4 DEF JobOK, JobCurrent
<1> QED
  BY <1>1, <1>2, <1>5, <1>6 DEF PostingInv

LEMMA BuildScanKeeps == PostingInv /\ BuildScan => PostingInv' /\ index' = index
<1> SUFFICES ASSUME PostingInv, BuildScan PROVE PostingInv' /\ index' = index
  OBVIOUS
<1>1. RegistryInv' /\ UNCHANGED <<tools, version, history>>
  BY RegistryStands DEF PostingInv, BuildScan
<1>2. phase' = "built" /\ index' = index
      /\ job' = [job EXCEPT !.fresh = [k \in Keys |-> FpAt(tools, k)]]
  BY DEF BuildScan
<1>3. [k \in Keys |-> FpAt(tools, k)] \in [Keys -> Fps \cup {Absent}]
  BY RegistryFacts, FpType DEF PostingInv
<1>4. job \in Jobs
  BY DEF PostingInv, IndexTypeOK, Jobs
<1>5. job' \in Jobs /\ job'.to = job.to /\ job'.prev = job.prev
      /\ \A k \in Keys : job'.fresh[k] = FpAt(tools, k)
  BY <1>2, <1>3, <1>4 DEF Jobs
<1>6. IndexTypeOK'
  BY <1>2, <1>5 DEF PostingInv, IndexTypeOK, Jobs
<1>7. \A k \in Keys : FpAt(tools, k)' = FpAt(tools, k)
  BY <1>1 DEF FpAt
<1>8. JobOK'
  BY <1>1, <1>2, <1>5, <1>7 DEF PostingInv, JobOK, JobCurrent
<1> QED
  BY <1>1, <1>2, <1>6, <1>8 DEF PostingInv

LEMMA BuildPublishKeeps ==
    PostingInv /\ BuildPublish => PostingInv' /\ (index' = index \/ index' # NoIndex)
<1> SUFFICES ASSUME PostingInv, BuildPublish
             PROVE  PostingInv' /\ (index' = index \/ index' # NoIndex)
  OBVIOUS
<1>1. CASE version = job.to
  <2> DEFINE new == [version |-> job.to, fps |-> job.fresh,
                     postings |-> [s \in SemIds |-> {k \in Keys : Posts(job.fresh[k], s)}]]
  <2>1. Publish(new) /\ UNCHANGED registryVars
    BY <1>1 DEF BuildPublish
  <2>2. \A k \in Keys : job.fresh[k] = FpAt(tools, k)
    BY <1>1 DEF PostingInv, JobOK, JobCurrent, BuildPublish
  <2>3. job.fresh = [k \in Keys |-> FpAt(tools, k)]
    BY <2>2 DEF PostingInv, IndexTypeOK
  <2>4. [s \in SemIds |-> {k \in Keys : Posts(job.fresh[k], s)}]
          = [s \in SemIds |-> {k \in Keys : Posts(FpAt(tools, k), s)}]
    BY <2>2
  <2>5. new = BuildOf(tools, version)
    BY <1>1, <2>3, <2>4 DEF BuildOf
  <2> QED
    BY <2>1, <2>5, PublishKeeps
<1>2. CASE version # job.to
  <2>1. Fail /\ UNCHANGED registryVars
    BY <1>2 DEF BuildPublish
  <2> QED
    BY <2>1, FailKeeps DEF Fail
<1> QED
  BY <1>1, <1>2

LEMMA JournalStartKeeps == PostingInv /\ JournalStart => PostingInv' /\ index' = index
<1> SUFFICES ASSUME PostingInv, JournalStart PROVE PostingInv' /\ index' = index
  OBVIOUS
<1>1. RegistryInv' /\ UNCHANGED <<tools, version, history>>
  BY RegistryStands DEF PostingInv, JournalStart
<1>2. /\ index # NoIndex /\ ReceiptServed(index.version)
      /\ phase' = "read" /\ index' = index
      /\ job' = [prev |-> index, to |-> version, changed |-> ChangedSince(index.version),
                 todo |-> ChangedSince(index.version), fresh |-> index.fps]
  BY DEF JournalStart
<1>3. version \in Nat /\ tools \in Catalogs /\ \A v \in 0 .. version : history[v] \in Catalogs
  BY RegistryFacts DEF PostingInv
<1>4. SnapshotIn(index, history, version)
  BY <1>2 DEF PostingInv
<1>5. /\ \A k \in Keys \ ChangedSince(index.version) : history[index.version][k] = tools[k]
      /\ ChangedSince(index.version) \in SUBSET Keys
  BY <1>2, <1>4, ReceiptCovers DEF PostingInv, SnapshotIn
<1>6. \A k \in Keys \ ChangedSince(index.version) : index.fps[k] = FpAt(tools, k)
  BY <1>4, <1>5 DEF SnapshotIn, BuildOf, FpAt
<1>7. job' \in Jobs
  BY <1>2, <1>3, <1>4, <1>5 DEF Jobs, SnapshotIn, Indexes
<1>8. IndexTypeOK'
  BY <1>2, <1>7 DEF PostingInv, IndexTypeOK, Jobs
<1>9. \A k \in Keys : FpAt(tools, k)' = FpAt(tools, k)
  BY <1>1 DEF FpAt
<1>10. JobOK'
  BY <1>1, <1>2, <1>3, <1>4, <1>6, <1>9 DEF JobOK, JobCurrent
<1> QED
  BY <1>1, <1>2, <1>4, <1>8, <1>10 DEF PostingInv

LEMMA JournalReadKeeps == PostingInv /\ JournalRead => PostingInv' /\ index' = index
<1> SUFFICES ASSUME PostingInv, JournalRead PROVE PostingInv' /\ index' = index
  OBVIOUS
<1>1. RegistryInv' /\ UNCHANGED <<tools, version, history>>
  BY RegistryStands DEF PostingInv, JournalRead
<1>2. PICK k \in job.todo : job' = [job EXCEPT !.todo = @ \ {k}, !.fresh[k] = FpAt(tools, k)]
  BY DEF JournalRead
<1>3. phase = "read" /\ phase' = "read" /\ index' = index
  BY DEF JournalRead
<1>4. job \in Jobs /\ k \in Keys
  BY <1>2 DEF PostingInv, IndexTypeOK, Jobs
<1>5. FpAt(tools, k) \in Fps \cup {Absent}
  BY <1>4, RegistryFacts, FpType DEF PostingInv
<1>6. /\ job' \in Jobs /\ job'.prev = job.prev /\ job'.to = job.to /\ job'.changed = job.changed
      /\ job'.todo = job.todo \ {k}
      /\ \A l \in Keys : job'.fresh[l] = IF l = k THEN FpAt(tools, k) ELSE job.fresh[l]
  BY <1>2, <1>4, <1>5 DEF Jobs
<1>7. IndexTypeOK'
  BY <1>3, <1>6 DEF PostingInv, IndexTypeOK, Jobs
<1>8. \A l \in Keys : FpAt(tools, l)' = FpAt(tools, l)
  BY <1>1 DEF FpAt
<1>9. JobOK'
  BY <1>1, <1>3, <1>6, <1>8 DEF PostingInv, JobOK, JobCurrent
<1> QED
  BY <1>1, <1>3, <1>7, <1>9 DEF PostingInv

LEMMA JournalVerifyKeeps == PostingInv /\ JournalVerify => PostingInv' /\ index' = index
<1> SUFFICES ASSUME PostingInv, JournalVerify PROVE PostingInv' /\ index' = index
  OBVIOUS
<1>1. CASE version = job.to
  <2>1. RegistryInv' /\ UNCHANGED <<tools, version, history>>
    BY RegistryStands DEF PostingInv, JournalVerify
  <2>2. phase = "read" /\ job.todo = {} /\ phase' = "assemble" /\ UNCHANGED <<job, index>>
    BY <1>1 DEF JournalVerify
  <2>3. IndexTypeOK'
    BY <2>2 DEF PostingInv, IndexTypeOK
  <2>4. \A l \in Keys : FpAt(tools, l)' = FpAt(tools, l)
    BY <2>1 DEF FpAt
  <2>5. JobOK'
    BY <2>1, <2>2, <2>4 DEF PostingInv, JobOK, JobCurrent
  <2> QED
    BY <2>1, <2>2, <2>3, <2>5 DEF PostingInv
<1>2. CASE version # job.to
  BY <1>2, FailKeeps DEF JournalVerify, Fail
<1> QED
  BY <1>1, <1>2

LEMMA HintStartKeeps == PostingInv /\ HintStart => PostingInv' /\ index' = index
<1> SUFFICES ASSUME PostingInv, HintStart PROVE PostingInv' /\ index' = index
  OBVIOUS
<1>1. RegistryInv' /\ UNCHANGED <<tools, version, history>>
  BY RegistryStands DEF PostingInv, HintStart
<1>2. PICK hints \in SUBSET Keys :
          job' = [NoJob EXCEPT !.prev = index, !.to = version, !.changed = hints]
  BY DEF HintStart
<1>3. index # NoIndex /\ phase' = "manifest" /\ index' = index /\ version > index.version
  BY DEF HintStart
<1>4. version \in Nat /\ SnapshotIn(index, history, version)
  BY <1>3, RegistryFacts DEF PostingInv
<1>5. /\ job' \in Jobs /\ job'.prev = index /\ job'.to = version
      /\ \A k \in Keys : job'.fresh[k] = Absent
  BY <1>2, <1>4 DEF Jobs, NoJob, SnapshotIn
<1>6. IndexTypeOK'
  BY <1>3, <1>5 DEF PostingInv, IndexTypeOK, Jobs
<1>7. JobOK'
  BY <1>1, <1>3, <1>4, <1>5 DEF JobOK, JobCurrent
<1> QED
  BY <1>1, <1>3, <1>4, <1>6, <1>7 DEF PostingInv

LEMMA HintManifestKeeps == PostingInv /\ HintManifest => PostingInv' /\ index' = index
<1> SUFFICES ASSUME PostingInv, HintManifest PROVE PostingInv' /\ index' = index
  OBVIOUS
<1>1. CASE job.changed \subseteq Present(tools) \cup Indexed(job.prev)
  <2>1. RegistryInv' /\ UNCHANGED <<tools, version, history>>
    BY RegistryStands DEF PostingInv, HintManifest
  <2>2. phase = "manifest" /\ phase' = "verify" /\ index' = index
        /\ job' = [job EXCEPT !.todo = Present(tools)]
    BY <1>1 DEF HintManifest
  <2>3. job \in Jobs /\ Present(tools) \in SUBSET Keys
    BY DEF PostingInv, IndexTypeOK, Jobs, Present
  <2>4. /\ job' \in Jobs /\ job'.prev = job.prev /\ job'.to = job.to
        /\ job'.changed = job.changed /\ job'.fresh = job.fresh /\ job'.todo = Present(tools)
    BY <2>2, <2>3 DEF Jobs
  <2>5. IndexTypeOK'
    BY <2>2, <2>4 DEF PostingInv, IndexTypeOK, Jobs
  <2>6. \A k \in Keys : job.fresh[k] = Absent
    BY <2>2 DEF PostingInv, JobOK
  <2>7. \A k \in Keys \ Present(tools) : FpAt(tools, k)' = Absent
    BY <2>1 DEF Present, FpAt
  <2>8. JobOK'
    BY <2>1, <2>2, <2>4, <2>6, <2>7 DEF PostingInv, JobOK, JobCurrent
  <2> QED
    BY <2>1, <2>2, <2>5, <2>8 DEF PostingInv
<1>2. CASE ~(job.changed \subseteq Present(tools) \cup Indexed(job.prev))
  BY <1>2, FailKeeps DEF HintManifest, Fail
<1> QED
  BY <1>1, <1>2

LEMMA HintReadKeeps == PostingInv /\ HintRead => PostingInv' /\ index' = index
<1> SUFFICES ASSUME PostingInv, HintRead PROVE PostingInv' /\ index' = index
  OBVIOUS
<1>1. PICK k \in job.todo :
          IF tools[k] # Absent /\ (k \in job.changed \/ job.prev.fps[k] = FpAt(tools, k))
          THEN /\ job' = [job EXCEPT !.todo = @ \ {k}, !.fresh[k] = FpAt(tools, k)]
               /\ UNCHANGED <<phase, index>>
          ELSE Fail
  BY DEF HintRead
<1>2. CASE tools[k] # Absent /\ (k \in job.changed \/ job.prev.fps[k] = FpAt(tools, k))
  <2>1. RegistryInv' /\ UNCHANGED <<tools, version, history>>
    BY RegistryStands DEF PostingInv, HintRead
  <2>2. /\ job' = [job EXCEPT !.todo = @ \ {k}, !.fresh[k] = FpAt(tools, k)]
        /\ phase = "verify" /\ phase' = "verify" /\ index' = index
    BY <1>1, <1>2 DEF HintRead
  <2>3. job \in Jobs /\ k \in Keys
    BY <1>1 DEF PostingInv, IndexTypeOK, Jobs
  <2>4. FpAt(tools, k) \in Fps \cup {Absent}
    BY <2>3, RegistryFacts, FpType DEF PostingInv
  <2>5. /\ job' \in Jobs /\ job'.prev = job.prev /\ job'.to = job.to
        /\ job'.changed = job.changed /\ job'.todo = job.todo \ {k}
        /\ \A l \in Keys : job'.fresh[l] = IF l = k THEN FpAt(tools, k) ELSE job.fresh[l]
    BY <2>2, <2>3, <2>4 DEF Jobs
  <2>6. IndexTypeOK'
    BY <2>2, <2>5 DEF PostingInv, IndexTypeOK, Jobs
  <2>7. \A l \in Keys : FpAt(tools, l)' = FpAt(tools, l)
    BY <2>1 DEF FpAt
  <2>8. JobOK'
    BY <1>2, <2>1, <2>2, <2>5, <2>7 DEF PostingInv, JobOK, JobCurrent
  <2> QED
    BY <2>1, <2>2, <2>6, <2>8 DEF PostingInv
<1>3. CASE ~(tools[k] # Absent /\ (k \in job.changed \/ job.prev.fps[k] = FpAt(tools, k)))
  BY <1>1, <1>3, FailKeeps DEF HintRead, Fail
<1> QED
  BY <1>2, <1>3

\* No tool has disappeared unhinted: then what is not hinted is as it was pinned.
LEMMA HintVerifyKeeps == PostingInv /\ HintVerify => PostingInv' /\ index' = index
<1> SUFFICES ASSUME PostingInv, HintVerify PROVE PostingInv' /\ index' = index
  OBVIOUS
<1> DEFINE good == /\ \A k \in Indexed(job.prev) \ job.changed : job.fresh[k] # Absent
                   /\ version = job.to
<1>1. CASE good
  <2>1. RegistryInv' /\ UNCHANGED <<tools, version, history>>
    BY RegistryStands DEF PostingInv, HintVerify
  <2>2. phase = "verify" /\ job.todo = {} /\ phase' = "assemble" /\ UNCHANGED <<job, index>>
    BY <1>1 DEF HintVerify
  <2>3. IndexTypeOK'
    BY <2>2 DEF PostingInv, IndexTypeOK
  <2>4. \A l \in Keys : FpAt(tools, l)' = FpAt(tools, l)
    BY <2>1 DEF FpAt
  <2>5. \A k \in Keys : job.fresh[k] = FpAt(tools, k)
    BY <1>1, <2>2 DEF PostingInv, JobOK, JobCurrent
  <2>6. \A k \in Keys \ job.changed : job.prev.fps[k] = job.fresh[k]
    BY <1>1, <2>2 DEF PostingInv, JobOK, Indexed
  <2>7. JobOK'
    BY <2>1, <2>2, <2>4, <2>5, <2>6 DEF PostingInv, JobOK, JobCurrent
  <2> QED
    BY <2>1, <2>2, <2>3, <2>7 DEF PostingInv
<1>2. CASE ~good
  BY <1>2, FailKeeps DEF HintVerify, Fail
<1> QED
  BY <1>1, <1>2

LEMMA AssemblePublishKeeps ==
    PostingInv /\ AssemblePublish => PostingInv' /\ (index' = index \/ index' # NoIndex)
<1> SUFFICES ASSUME PostingInv, AssemblePublish
             PROVE  PostingInv' /\ (index' = index \/ index' # NoIndex)
  OBVIOUS
<1>1. CASE version = job.to
  <2>1. Publish(AssembleDelta(job.prev, job.to, job.changed, job.fresh)) /\ UNCHANGED registryVars
    BY <1>1 DEF AssemblePublish
  <2>2. phase = "assemble" /\ job.todo = {} /\ job.prev # NoIndex /\ JobCurrent
    BY <1>1 DEF AssemblePublish, PostingInv, IndexTypeOK, JobOK
  <2>3. SnapshotIn(job.prev, history, version)
    BY <2>2 DEF PostingInv, JobOK
  <2>4. PICK old \in Catalogs, pv \in Nat : old = history[job.prev.version] /\ pv = job.prev.version
                                   /\ job.prev = BuildOf(old, pv)
    BY <2>3, RegistryFacts DEF PostingInv, SnapshotIn
  <2>5. /\ job.changed \in SUBSET Keys /\ job.fresh \in [Keys -> Fps \cup {Absent}]
        /\ tools \in Catalogs
    BY RegistryFacts DEF PostingInv, IndexTypeOK
  <2>6. /\ \A k \in Keys : job.fresh[k] = FpAt(tools, k)
        /\ \A k \in Keys \ job.changed : BuildOf(old, pv).fps[k] = FpAt(tools, k)
    BY <2>2, <2>4 DEF JobCurrent
  <2>7. AssembleDelta(BuildOf(old, pv), job.to, job.changed, job.fresh) = BuildOf(tools, job.to)
    BY <2>5, <2>6, DeltaIsBuild
  <2> QED
    BY <1>1, <2>1, <2>4, <2>7, PublishKeeps
<1>2. CASE version # job.to
  <2>1. Fail /\ UNCHANGED registryVars
    BY <1>2 DEF AssemblePublish
  <2> QED
    BY <2>1, FailKeeps DEF Fail
<1> QED
  BY <1>1, <1>2

\* Every step of the posting index, whatever the session does beside it.
PostingAction ==
    \/ BuildStart \/ BuildScan \/ BuildPublish
    \/ JournalStart \/ JournalRead \/ JournalVerify
    \/ HintStart \/ HintManifest \/ HintRead \/ HintVerify
    \/ AssemblePublish

LEMMA PostingActionKeeps ==
    ASSUME PostingInv, PostingAction
    PROVE  /\ PostingInv'
           /\ index' = index \/ index' # NoIndex
           /\ UNCHANGED registryVars
<1>1. PostingInv' /\ (index' = index \/ index' # NoIndex)
  BY BuildStartKeeps, BuildScanKeeps, BuildPublishKeeps, JournalStartKeeps, JournalReadKeeps,
     JournalVerifyKeeps, HintStartKeeps, HintManifestKeeps, HintReadKeeps, HintVerifyKeeps,
     AssemblePublishKeeps, Zenon DEF PostingAction
<1>2. UNCHANGED registryVars
  BY DEF PostingAction, BuildStart, BuildScan, BuildPublish, JournalStart, JournalRead,
         JournalVerify, HintStart, HintManifest, HintRead, HintVerify, AssemblePublish
<1> QED
  BY <1>1, <1>2

-----------------------------------------------------------------------------
(* Steps of the graph *)

LEMMA NoWorkType == NoWork \in Works
<1>1. [k \in Keys |-> NoCap] \in [Keys -> Caps]
  BY NoCapType
<1> QED
  BY <1>1 DEF NoWork, Works

\* What a graph step finds where it is.
LEMMA Found ==
    ASSUME PostingInv, GraphInv
    PROVE  /\ version \in Nat /\ tools \in Catalogs /\ history[version] = tools
           /\ \A v \in 0 .. version : history[v] \in Catalogs
           /\ work \in Works /\ WorkFits(stage, work)
           /\ index # NoIndex => SnapshotIn(index, history, version)
           /\ graph # NoIndex => GraphIn(graph, history, version)
  BY RegistryFacts DEF PostingInv, GraphInv

LEMMA Unmoved ==
    ASSUME UNCHANGED vars
    PROVE  UNCHANGED <<tools, version, history, index>>
  BY DEF vars, registryVars, indexVars

LEMMA EntersKeeps ==
    ASSUME PostingInv, GraphInv, UNCHANGED vars,
           NEW s \in Stages, NEW w \in Works, WorkFits(s, w), Enters(s, w)
    PROVE  GraphInv'
<1>1. UNCHANGED <<tools, version, history, index>>
  BY Unmoved
<1>2. stage' = s /\ work' = w /\ graph' = graph
  BY DEF Enters
<1>3. WorkFits(stage, work)'
  BY <1>1, <1>2 DEF WorkFits, WorkCurrent, ReceiptCurrent
<1> QED
  BY <1>1, <1>2, <1>3 DEF GraphInv

LEMMA RaisesKeeps == PostingInv /\ GraphInv /\ UNCHANGED vars /\ Raises => GraphInv'
<1> SUFFICES ASSUME PostingInv, GraphInv, UNCHANGED vars, Raises PROVE GraphInv'
  OBVIOUS
<1>1. "idle" \in Stages /\ WorkFits("idle", NoWork)
  BY DEF Stages, WorkFits
<1> QED
  BY <1>1, NoWorkType, EntersKeeps DEF Raises

\* A graph is published from capabilities that are those of the version.
LEMMA GraphPublished ==
    ASSUME PostingInv, GraphInv, UNCHANGED vars, NEW roots \in Nat,
           work.posting # NoIndex, SnapshotIn(work.posting, history, version),
           version = work.posting.version, work.caps = CapsOf(tools, work.approved),
           index # NoIndex,
           stage' = "idle", work' = NoWork,
           graph' = [posting |-> work.posting, caps |-> work.caps,
                     edges |-> EdgesOf(work.caps), roots |-> roots,
                     approved |-> work.approved]
    PROVE  GraphInv'
<1>1. UNCHANGED <<tools, version, history, index>>
  BY Unmoved
<1>2. work.posting \in Indexes /\ work.caps \in [Keys -> Caps] /\ work.approved \in SUBSET Keys
  BY Found DEF Works, SnapshotIn
<1>3. EdgesOf(work.caps) \in SUBSET (Keys \X Keys)
  BY DEF EdgesOf
<1>4. graph' \in Graphs
  BY <1>2, <1>3 DEF Graphs, Caps
<1>5. history[version] = tools
  BY Found
<1>6. GraphIn(graph', history, version)
  BY <1>4, <1>5 DEF GraphIn
<1>7. WorkFits("idle", NoWork)'
  BY DEF WorkFits
<1>8. WorkFits(stage, work)'
  BY <1>1, <1>7 DEF WorkFits
<1> QED
  BY <1>1, <1>6, <1>8, NoWorkType DEF GraphInv, Stages

\* Reading a tool: an exact match of the pin brings the capability that counts.
LEMMA ReadsKeeps ==
    ASSUME PostingInv, GraphInv, UNCHANGED vars, stage \in {"revise", "delta"},
           NEW k \in Keys, Reads(k)
    PROVE  GraphInv'
<1> PICK s \in Stages : s = stage
  BY DEF GraphInv
<1>1. CASE Raises
  BY <1>1, RaisesKeeps
<1>2. CASE ~Raises
  <2>1. PICK w : w = [work EXCEPT !.todo = @ \ {k}, !.caps[k] = CapOf(k, tools[k], work.approved)]
    OBVIOUS
  <2>2. Enters(s, w)
    BY <1>2, <2>1, Zenon DEF Reads
  <2>3. CapOf(k, tools[k], work.approved) \in Caps
    BY Found, CapType DEF Catalogs
  <2>4. /\ w \in Works /\ w.posting = work.posting /\ w.to = work.to
        /\ w.changed = work.changed /\ w.approved = work.approved
        /\ w.todo = work.todo \ {k}
        /\ \A l \in Keys : w.caps[l] = IF l = k THEN CapOf(k, tools[k], work.approved)
                                       ELSE work.caps[l]
    BY <2>1, <2>3, Found DEF Works
  <2>5. WorkFits(stage, work)
    BY Found
  <2>6. version = w.posting.version => WorkCurrent(s, w)
    BY <2>4, <2>5 DEF WorkFits, WorkCurrent
  <2>7. WorkFits(s, w)
    BY <2>4, <2>5, <2>6 DEF WorkFits
  <2> QED
    BY <2>2, <2>4, <2>7, EntersKeeps
<1> QED
  BY <1>1, <1>2

LEMMA GraphBuildStartKeeps ==
    PostingInv /\ GraphInv /\ policy \in 1 .. 2 /\ UNCHANGED vars /\ GraphBuildStart => GraphInv'
<1> SUFFICES ASSUME PostingInv, GraphInv, policy \in 1 .. 2, UNCHANGED vars, GraphBuildStart
             PROVE  GraphInv'
  OBVIOUS
<1>1. PICK approved \in SUBSET Keys :
          Enters("scan", [NoWork EXCEPT !.posting = index, !.approved = approved,
                                        !.policy = policy])
  BY DEF GraphBuildStart
<1>2. PICK w : w = [NoWork EXCEPT !.posting = index, !.approved = approved, !.policy = policy]
  OBVIOUS
<1>3. index # NoIndex
  BY DEF GraphBuildStart
<1>4. SnapshotIn(index, history, version)
  BY <1>3, Found
<1>5. w \in Works /\ w.posting = index
  BY <1>2, <1>4, NoWorkType DEF Works, SnapshotIn
<1>6. "scan" \in Stages /\ WorkFits("scan", w)
  BY <1>3, <1>4, <1>5 DEF Stages, WorkFits, WorkCurrent
<1> QED
  BY <1>1, <1>2, <1>5, <1>6, EntersKeeps

LEMMA GraphBuildScanKeeps ==
    PostingInv /\ GraphInv /\ UNCHANGED vars /\ GraphBuildScan => GraphInv'
<1> SUFFICES ASSUME PostingInv, GraphInv, UNCHANGED vars, GraphBuildScan PROVE GraphInv'
  OBVIOUS
<1>1. CASE Raises
  BY <1>1, RaisesKeeps
<1>2. CASE ~Raises
  <2>1. PICK w : w = [work EXCEPT !.caps = [k \in Keys |-> CapOf(k, tools[k], work.approved)]]
    OBVIOUS
  <2>2. Enters("scanned", w)
    BY <1>2, <2>1, Zenon DEF GraphBuildScan
  <2>3. CapsOf(tools, work.approved) \in [Keys -> Caps]
    BY Found, CapsType
  <2>4. w \in Works /\ w.posting = work.posting /\ w.approved = work.approved
        /\ w.caps = CapsOf(tools, work.approved)
    BY <2>1, <2>3, Found DEF Works, CapsOf
  <2>5. stage = "scan" /\ WorkFits(stage, work)
    BY Found DEF GraphBuildScan
  <2>6. "scanned" \in Stages /\ WorkFits("scanned", w)
    BY <2>4, <2>5 DEF Stages, WorkFits, WorkCurrent
  <2> QED
    BY <2>2, <2>4, <2>6, EntersKeeps
<1> QED
  BY <1>1, <1>2

LEMMA GraphBuildPublishKeeps ==
    PostingInv /\ GraphInv /\ UNCHANGED vars /\ GraphBuildPublish => GraphInv'
<1> SUFFICES ASSUME PostingInv, GraphInv, UNCHANGED vars, GraphBuildPublish PROVE GraphInv'
  OBVIOUS
<1>1. CASE version = work.posting.version
  <2>1. PICK roots \in Nat : roots = Cardinality({k \in Keys : work.caps[k].root})
    BY RootsAreCounted
  <2>2. stage = "scanned" /\ WorkFits(stage, work)
    BY Found DEF GraphBuildPublish
  <2>3. /\ work.posting # NoIndex /\ SnapshotIn(work.posting, history, version)
        /\ work.caps = CapsOf(tools, work.approved) /\ index # NoIndex
    BY <1>1, <2>2 DEF WorkFits, WorkCurrent
  <2>4. /\ stage' = "idle" /\ work' = NoWork
        /\ graph' = [posting |-> work.posting, caps |-> work.caps,
                     edges |-> EdgesOf(work.caps), roots |-> roots,
                     approved |-> work.approved]
    BY <1>1, <2>1 DEF GraphBuildPublish
  <2> QED
    BY <1>1, <2>3, <2>4, GraphPublished
<1>2. CASE version # work.posting.version
  BY <1>2, RaisesKeeps DEF GraphBuildPublish
<1> QED
  BY <1>1, <1>2

\* An approval moved for some tools: the others keep their capability.
LEMMA ReviseStartKeeps ==
    PostingInv /\ GraphInv /\ policy \in 1 .. 2 /\ UNCHANGED vars /\ ReviseStart => GraphInv'
<1> SUFFICES ASSUME PostingInv, GraphInv, policy \in 1 .. 2, UNCHANGED vars, ReviseStart
             PROVE  GraphInv'
  OBVIOUS
<1> DEFINE Changed(approved) == (approved \ graph.approved) \cup (graph.approved \ approved)
<1>1. PICK approved \in SUBSET Keys :
          Enters("revise", [NoWork EXCEPT !.posting = graph.posting, !.approved = approved,
                               !.todo = Changed(approved), !.caps = graph.caps,
                               !.policy = policy])
  BY DEF ReviseStart
<1>2. PICK w : w = [NoWork EXCEPT !.posting = graph.posting, !.approved = approved,
                      !.todo = Changed(approved), !.caps = graph.caps, !.policy = policy]
  OBVIOUS
<1>3. graph # NoIndex /\ version = graph.posting.version /\ index # NoIndex
  BY DEF ReviseStart, GraphInv
<1>4. GraphIn(graph, history, version) /\ SnapshotIn(graph.posting, history, version)
  BY <1>3, Found DEF GraphIn
<1>5. graph.posting \in Indexes /\ graph.caps \in [Keys -> Caps] /\ graph.approved \in SUBSET Keys
  BY <1>4 DEF GraphIn, Graphs, Caps
<1>6. w \in Works /\ w.posting = graph.posting /\ w.approved = approved
      /\ w.todo = Changed(approved) /\ w.caps = graph.caps
  BY <1>2, <1>5, NoWorkType DEF Works
<1>7. ASSUME NEW k \in Keys \ w.todo
      PROVE  w.caps[k] = CapOf(k, tools[k], w.approved)
  <2>1. k \in Keys /\ (k \in graph.approved <=> k \in approved)
    BY <1>6
  <2>2. w.caps[k] = CapOf(k, tools[k], graph.approved)
    BY <1>3, <1>4, <1>6, <2>1, Found, CapsType DEF GraphIn
  <2>3. CapOf(k, tools[k], graph.approved) = CapOf(k, tools[k], approved)
    BY <2>1, Found, CapOfFingerprint
  <2> QED
    BY <1>6, <2>2, <2>3
<1>8. WorkCurrent("revise", w)
  BY <1>7 DEF WorkCurrent
<1>9. w.posting # NoIndex
  BY <1>5, <1>6, IndexIsSomething
<1>10. "revise" \in Stages /\ WorkFits("revise", w)
  BY <1>3, <1>4, <1>6, <1>8, <1>9 DEF Stages, WorkFits
<1> QED
  BY <1>1, <1>2, <1>6, <1>10, EntersKeeps

\* Both publications of a revised graph.
LEMMA PublishesKeeps ==
    ASSUME PostingInv, GraphInv, UNCHANGED vars, stage \in {"revise", "delta"}, work.todo = {},
           NEW roots \in Nat,
           Publishes(UpdatedEdges(graph.edges, graph.caps, work.caps), roots)
    PROVE  GraphInv'
<1>1. CASE Raises
  BY <1>1, RaisesKeeps
<1>2. CASE ~Raises
  <2>1. version = work.posting.version
        /\ stage' = "idle" /\ work' = NoWork
        /\ graph' = [posting |-> work.posting, caps |-> work.caps,
                     edges |-> UpdatedEdges(graph.edges, graph.caps, work.caps),
                     roots |-> roots, approved |-> work.approved]
    BY <1>2, Zenon DEF Publishes
  <2>2. WorkFits(stage, work) /\ work \in Works
    BY Found
  <2>3. /\ work.posting # NoIndex /\ SnapshotIn(work.posting, history, version)
        /\ index # NoIndex /\ graph # NoIndex
        /\ \A k \in Keys : work.caps[k] = CapOf(k, tools[k], work.approved)
    BY <2>1, <2>2 DEF WorkFits, WorkCurrent
  <2>4. work.caps = CapsOf(tools, work.approved)
    BY <2>2, <2>3 DEF CapsOf, Works
  <2>5. graph.edges = EdgesOf(graph.caps) /\ graph.caps \in [Keys -> Caps]
    BY <2>3, Found DEF GraphIn, Graphs, Caps
  <2>6. UpdatedEdges(graph.edges, graph.caps, work.caps) = EdgesOf(work.caps)
    BY <2>2, <2>5, UpdateIsBuild DEF Works
  <2>7. graph' = [posting |-> work.posting, caps |-> work.caps,
                  edges |-> EdgesOf(work.caps), roots |-> roots,
                  approved |-> work.approved]
    BY <2>1, <2>6
  <2> QED
    BY <2>1, <2>3, <2>4, <2>7, GraphPublished
<1> QED
  BY <1>1, <1>2

LEMMA RevisePublishKeeps ==
    PostingInv /\ GraphInv /\ UNCHANGED vars /\ (RevisePublish \/ DeltaPublish) => GraphInv'
<1>1. \A S \in SUBSET Keys : Cardinality(S) \in Nat
  BY RootsAreCounted
<1>2. ASSUME PostingInv, GraphInv, UNCHANGED vars, RevisePublish PROVE GraphInv'
  <2>1. PICK roots \in Nat : roots = Cardinality({k \in Keys : work.caps[k].root})
    BY <1>1
  <2>2. Publishes(UpdatedEdges(graph.edges, graph.caps, work.caps), roots)
    BY <1>2, <2>1 DEF RevisePublish
  <2> QED
    BY <1>2, <2>2, PublishesKeeps DEF RevisePublish
<1>3. ASSUME PostingInv, GraphInv, UNCHANGED vars, DeltaPublish PROVE GraphInv'
  <2> DEFINE R == {k \in Keys : work.caps[k].root
                                /\ (k \in work.changed \/ work.caps[k].gives # {})}
  <2>1. PICK roots \in Nat : roots = Cardinality(R)
    BY <1>1
  <2>2. Publishes(UpdatedEdges(graph.edges, graph.caps, work.caps), roots)
    BY <1>3, <2>1 DEF DeltaPublish
  <2> QED
    BY <1>3, <2>2, PublishesKeeps DEF DeltaPublish
<1> QED
  BY <1>2, <1>3

LEMMA RefreshStartKeeps ==
    PostingInv /\ GraphInv /\ policy \in 1 .. 2 /\ UNCHANGED vars /\ RefreshStart => GraphInv'
<1> SUFFICES ASSUME PostingInv, GraphInv, policy \in 1 .. 2, UNCHANGED vars, RefreshStart
             PROVE  GraphInv'
  OBVIOUS
<1>1. PICK w : w = [NoWork EXCEPT !.posting = index, !.policy = policy,
                       !.changed = Differ(graph.posting, index), !.approved = graph.approved]
  OBVIOUS
<1>2. graph # NoIndex /\ index # NoIndex /\ index.version > graph.posting.version
      /\ Enters("manifest", w)
  BY <1>1 DEF RefreshStart, GraphInv
<1>3. GraphIn(graph, history, version) /\ SnapshotIn(index, history, version)
  BY <1>2, Found
<1>4. graph.approved \in SUBSET Keys /\ index \in Indexes
  BY <1>3 DEF GraphIn, Graphs, SnapshotIn
<1>5. Differ(graph.posting, index) \in SUBSET Keys
  BY DEF Differ
<1>6. w \in Works /\ w.posting = index /\ w.approved = graph.approved
      /\ w.changed = Differ(graph.posting, index)
  BY <1>1, <1>4, <1>5, NoWorkType DEF Works
<1>7. "manifest" \in Stages /\ WorkFits("manifest", w)
  BY <1>2, <1>3, <1>6 DEF Stages, WorkFits, WorkCurrent
<1> QED
  BY <1>2, <1>6, <1>7, EntersKeeps

LEMMA RefreshManifestKeeps ==
    PostingInv /\ GraphInv /\ UNCHANGED vars /\ (RefreshManifest \/ RefreshPin) => GraphInv'
<1> SUFFICES ASSUME PostingInv, GraphInv, UNCHANGED vars, RefreshManifest \/ RefreshPin
             PROVE  GraphInv'
  OBVIOUS
<1>1. CASE Raises
  BY <1>1, RaisesKeeps
<1>2. CASE ~Raises
  <2>1. PICK todo \in SUBSET Keys : Enters("pins", [work EXCEPT !.todo = todo])
    <3>1. CASE RefreshManifest
      BY <1>2, <3>1 DEF RefreshManifest, Present
    <3>2. CASE RefreshPin
      <4>1. PICK k \in work.todo : Enters("pins", [work EXCEPT !.todo = @ \ {k}])
        BY <1>2, <3>2 DEF RefreshPin
      <4>2. work.todo \ {k} \in SUBSET Keys
        BY Found DEF Works
      <4> QED
        BY <4>1, <4>2
    <3> QED
      BY <3>1, <3>2
  <2>2. PICK w : w = [work EXCEPT !.todo = todo]
    OBVIOUS
  <2>3. /\ w \in Works /\ w.posting = work.posting /\ w.changed = work.changed
        /\ w.approved = work.approved /\ w.to = work.to
    BY <2>2, Found DEF Works
  <2>4. stage \in {"manifest", "pins"} /\ WorkFits(stage, work)
    BY Found DEF RefreshManifest, RefreshPin
  <2>5. "pins" \in Stages /\ WorkFits("pins", w)
    BY <2>3, <2>4 DEF Stages, WorkFits, WorkCurrent
  <2> QED
    BY <2>1, <2>2, <2>3, <2>5, EntersKeeps
<1> QED
  BY <1>1, <1>2

\* A delta starts from the graph's own capabilities; what it keeps of them is
\* what a build would make of the tools now, as far as the version has not moved.
LEMMA EntersDeltaKeeps ==
    ASSUME PostingInv, GraphInv, UNCHANGED vars,
           stage \in {"pins", "posting"}, NEW posting,
           posting # NoIndex, SnapshotIn(posting, history, version),
           version = posting.version, posting.version > graph.posting.version,
           \A k \in Keys \ work.changed :
               FpAt(history[graph.posting.version], k) = FpAt(tools, k),
           EntersDelta(posting, work.changed, work.approved)
    PROVE  GraphInv'
<1>1. CASE Raises
  BY <1>1, RaisesKeeps
<1>2. CASE ~Raises
  <2> DEFINE todo == {k \in work.changed : posting.fps[k] # Absent}
             caps == [k \in Keys |-> IF k \in work.changed THEN NoCap ELSE graph.caps[k]]
  <2>1. PICK w : w = [work EXCEPT !.posting = posting, !.todo = todo, !.caps = caps]
    OBVIOUS
  <2>2. Enters("delta", w)
    BY <1>2, <2>1, Zenon DEF EntersDelta
  <2>3. WorkFits(stage, work) /\ work \in Works
    BY Found
  <2>4. graph # NoIndex /\ index # NoIndex /\ work.approved = graph.approved
    BY <2>3 DEF WorkFits
  <2>5. GraphIn(graph, history, version)
    BY <2>4, Found
  <2>6. graph.caps \in [Keys -> Caps] /\ todo \in SUBSET Keys /\ posting \in Indexes
    BY <2>3, <2>5 DEF GraphIn, Graphs, Caps, Works, SnapshotIn
  <2>7. caps \in [Keys -> Caps]
    BY <2>6, NoCapType
  <2>8. /\ w \in Works /\ w.posting = posting /\ w.changed = work.changed
        /\ w.approved = graph.approved /\ w.todo = todo /\ w.caps = caps
    <3> HIDE DEF todo, caps
    <3> QED
      BY <2>1, <2>3, <2>4, <2>6, <2>7 DEF Works
  <2>9. ASSUME NEW k \in Keys \ todo
        PROVE  caps[k] = CapOf(k, tools[k], graph.approved)
    <3>1. CASE k \in work.changed
      <4>1. posting.fps[k] = Absent
        BY <3>1, <2>9
      <4>2. FpAt(tools, k) = Absent
        BY <4>1, Found DEF SnapshotIn, BuildOf
      <4>3. tools[k] = Absent
        BY <4>2, Found, FpType
      <4> QED
        BY <3>1, <4>3 DEF CapOf
    <3>2. CASE k \notin work.changed
      <4>1. history[graph.posting.version] \in Catalogs
        BY <2>5, Found DEF GraphIn, SnapshotIn
      <4>2. caps[k] = CapOf(k, history[graph.posting.version][k], graph.approved)
        BY <3>2, <4>1, <2>5, CapsType DEF GraphIn
      <4>3. FpAt(history[graph.posting.version], k) = FpAt(tools, k)
        BY <3>2
      <4> QED
        BY <4>1, <4>2, <4>3, Found, CapOfFingerprint
    <3> QED
      BY <3>1, <3>2
  <2>10. WorkCurrent("delta", w)
    BY <2>8, <2>9 DEF WorkCurrent
  <2>11. "delta" \in Stages /\ WorkFits("delta", w)
    BY <2>4, <2>8, <2>10 DEF Stages, WorkFits
  <2> QED
    BY <2>2, <2>8, <2>11, EntersKeeps
<1> QED
  BY <1>1, <1>2

LEMMA RefreshPinnedKeeps ==
    PostingInv /\ GraphInv /\ UNCHANGED vars /\ RefreshPinned => GraphInv'
<1> SUFFICES ASSUME PostingInv, GraphInv, UNCHANGED vars, RefreshPinned PROVE GraphInv'
  OBVIOUS
<1>1. CASE version = work.posting.version
  <2>1. stage = "pins" /\ EntersDelta(work.posting, work.changed, work.approved)
    BY <1>1 DEF RefreshPinned
  <2>2. WorkFits("pins", work)
    BY <2>1, Found
  <2>3. /\ work.posting # NoIndex /\ SnapshotIn(work.posting, history, version)
        /\ work.posting.version > graph.posting.version
        /\ work.changed = Differ(graph.posting, work.posting) /\ graph # NoIndex
    BY <2>2 DEF WorkFits
  <2>4. SnapshotIn(graph.posting, history, version)
    BY <2>3, Found DEF GraphIn
  <2>5. ASSUME NEW k \in Keys \ work.changed
        PROVE  FpAt(history[graph.posting.version], k) = FpAt(tools, k)
    <3>1. graph.posting.fps[k] = work.posting.fps[k]
      BY <2>3 DEF Differ
    <3>2. graph.posting.fps[k] = FpAt(history[graph.posting.version], k)
      BY <2>4 DEF SnapshotIn, BuildOf
    <3>3. work.posting.fps[k] = FpAt(tools, k)
      BY <1>1, <2>3, Found DEF SnapshotIn, BuildOf
    <3> QED
      BY <3>1, <3>2, <3>3
  <2> QED
    BY <1>1, <2>1, <2>3, <2>5, EntersDeltaKeeps
<1>2. CASE version # work.posting.version
  BY <1>2, RaisesKeeps DEF RefreshPinned
<1> QED
  BY <1>1, <1>2

LEMMA GraphJournalStartKeeps ==
    PostingInv /\ GraphInv /\ policy \in 1 .. 2 /\ UNCHANGED vars /\ GraphJournalStart
        => GraphInv'
<1> SUFFICES ASSUME PostingInv, GraphInv, policy \in 1 .. 2, UNCHANGED vars, GraphJournalStart
             PROVE  GraphInv'
  OBVIOUS
<1>1. PICK w : w = [NoWork EXCEPT !.to = version, !.changed = ChangedSince(index.version),
                       !.approved = graph.approved, !.policy = policy]
  OBVIOUS
<1>2. /\ graph # NoIndex /\ index = graph.posting /\ index # NoIndex
      /\ ReceiptServed(index.version) /\ version > index.version
      /\ Enters("receipt", w)
  BY <1>1 DEF GraphJournalStart, ReceiptUsable, GraphInv
<1>3. GraphIn(graph, history, version) /\ SnapshotIn(index, history, version)
  BY <1>2, Found
<1>4. /\ \A k \in Keys \ ChangedSince(index.version) : history[index.version][k] = tools[k]
      /\ ChangedSince(index.version) \in SUBSET Keys
  BY <1>2, <1>3, ReceiptCovers DEF PostingInv, SnapshotIn
<1>5. version \in Nat /\ graph.approved \in SUBSET Keys
  BY <1>3, Found DEF GraphIn, Graphs
<1>6. w \in Works /\ w.to = version /\ w.approved = graph.approved
      /\ w.changed = ChangedSince(index.version)
  BY <1>1, <1>4, <1>5, NoWorkType DEF Works
<1>7. ReceiptCurrent(w)
  BY <1>2, <1>4, <1>6 DEF ReceiptCurrent
<1>8. "receipt" \in Stages /\ WorkFits("receipt", w)
  BY <1>2, <1>5, <1>6, <1>7 DEF Stages, WorkFits
<1> QED
  BY <1>2, <1>6, <1>8, EntersKeeps

LEMMA GraphJournalPostedKeeps ==
    PostingInv /\ GraphInv /\ UNCHANGED vars /\ GraphJournalPosted => GraphInv'
<1> SUFFICES ASSUME PostingInv, GraphInv, UNCHANGED vars, GraphJournalPosted PROVE GraphInv'
  OBVIOUS
<1>1. CASE index.version = work.to /\ version = work.to
  <2>1. stage = "posting" /\ EntersDelta(index, work.changed, work.approved)
    BY <1>1 DEF GraphJournalPosted
  <2>2. WorkFits("posting", work)
    BY <2>1, Found
  <2>3. index # NoIndex /\ graph.posting.version < work.to /\ ReceiptCurrent(work)
    BY <1>1, <2>2 DEF WorkFits
  <2>4. SnapshotIn(index, history, version)
    BY <2>3, Found
  <2>5. \A k \in Keys \ work.changed :
            FpAt(history[graph.posting.version], k) = FpAt(tools, k)
    BY <2>3 DEF ReceiptCurrent, FpAt
  <2>6. graph # NoIndex
    BY <2>2 DEF WorkFits
  <2>7. version \in Nat /\ graph.posting.version \in Nat
    BY <2>6, Found DEF GraphIn, SnapshotIn
  <2>8. index.version > graph.posting.version
    BY <1>1, <2>3, <2>7
  <2> QED
    BY <1>1, <2>1, <2>3, <2>4, <2>5, <2>8, EntersDeltaKeeps
<1>2. CASE ~(index.version = work.to /\ version = work.to)
  BY <1>2, RaisesKeeps DEF GraphJournalPosted
<1> QED
  BY <1>1, <1>2

LEMMA GraphStepKeeps ==
    PostingInv /\ GraphInv /\ policy \in 1 .. 2 /\ UNCHANGED vars /\ GraphStep => GraphInv'
<1> SUFFICES ASSUME PostingInv, GraphInv, policy \in 1 .. 2, UNCHANGED vars, GraphStep
             PROVE  GraphInv'
  OBVIOUS
<1>1. CASE ReviseRead
  <2>1. PICK k \in Keys : Reads(k)
    BY <1>1 DEF ReviseRead
  <2> QED
    BY <1>1, <2>1, ReadsKeeps DEF ReviseRead
<1>2. CASE DeltaRead
  <2>1. PICK k \in Keys : Reads(k)
    BY <1>2 DEF DeltaRead
  <2> QED
    BY <1>2, <2>1, ReadsKeeps DEF DeltaRead
<1>3. CASE GraphJournalRaises
  BY <1>3, RaisesKeeps DEF GraphJournalRaises
<1> QED
  BY <1>1, <1>2, <1>3, GraphBuildStartKeeps, GraphBuildScanKeeps, GraphBuildPublishKeeps,
     ReviseStartKeeps, RevisePublishKeeps, RefreshStartKeeps, RefreshManifestKeeps,
     RefreshPinnedKeeps, GraphJournalStartKeeps, GraphJournalPostedKeeps, Zenon DEF GraphStep

-----------------------------------------------------------------------------
(* The graph beside steps of others *)

\* The posting index moves on, alone or inside a journal refresh of the graph.
LEMMA GraphFollows ==
    ASSUME GraphInv, UNCHANGED <<tools, version, history, graph, work>>,
           index' = index \/ index' # NoIndex,
           stage' = stage \/ (stage = "receipt" /\ stage' = "posting")
    PROVE  GraphInv'
<1>1. WorkFits(stage, work) /\ stage \in Stages
  BY DEF GraphInv
<1>2. PICK s \in Stages : s = stage'
  BY <1>1 DEF Stages
<1>3. WorkFits(s, work)
  BY <1>1, <1>2 DEF WorkFits
<1>4. WorkFits(stage, work)'
  BY <1>2, <1>3 DEF WorkFits, WorkCurrent, ReceiptCurrent
<1> QED
  BY <1>2, <1>4 DEF GraphInv

LEMMA GraphOutlivesWrites ==
    ASSUME PostingInv, GraphInv, RegistryWrite, UNCHANGED sessionVars
    PROVE  GraphInv'
<1>1. version' = version + 1 /\ Extends(history, version, history', version')
  BY RegistryMoves DEF PostingInv, RegistryWrite
<1>2. index' = index /\ UNCHANGED <<graph, stage, work>>
  BY DEF RegistryWrite, indexVars, sessionVars
<1>3. version \in Nat /\ version' \in Nat
  BY <1>1, RegistryFacts DEF PostingInv
<1>4. graph # NoIndex => GraphIn(graph, history', version')
  BY <1>1, <1>3, GraphGrows DEF GraphInv
<1>5. WorkFits(stage, work)
  BY DEF GraphInv
<1>6. stage \in {"scan", "scanned", "revise", "manifest", "pins", "delta"} =>
          /\ SnapshotIn(work.posting, history', version')
          /\ version' # work.posting.version
  BY <1>1, <1>3, <1>5, SnapshotGrows DEF WorkFits, SnapshotIn
<1>7. stage \in {"receipt", "posting"} => work.to \in 0 .. version' /\ version' # work.to
  BY <1>1, <1>3, <1>5 DEF WorkFits
<1>8. WorkFits(stage, work)'
  BY <1>2, <1>5, <1>6, <1>7 DEF WorkFits
<1> QED
  BY <1>2, <1>4, <1>8 DEF GraphInv

LEMMA PostingStepKeeps ==
    ASSUME PostingInv, GraphInv, PostingStep
    PROVE  PostingInv' /\ GraphInv' /\ UNCHANGED <<tools, version, history>>
<1>1. /\ PostingAction
      /\ UNCHANGED <<graph, work>>
      /\ stage' = stage \/ (stage = "receipt" /\ stage' = "posting")
  BY DEF PostingStep, PostingAction, sessionVars, Enters
<1>2. PostingInv' /\ (index' = index \/ index' # NoIndex) /\ UNCHANGED registryVars
  BY <1>1, PostingActionKeeps
<1>3. UNCHANGED <<tools, version, history>>
  BY <1>2 DEF registryVars
<1> QED
  BY <1>1, <1>2, <1>3, GraphFollows

-----------------------------------------------------------------------------
(* The lookup *)

\* Whatever the others do, what a lookup holds stays a snapshot.
LEMMA QueryOutlives ==
    ASSUME QueryInv, version \in Nat, version' \in Nat,
           Extends(history, version, history', version'),
           UNCHANGED <<world, policy, down, query>>
    PROVE  QueryInv'
<1>1. query.at # "idle" => GraphIn(query.graph, history', version')
  BY GraphGrows DEF QueryInv, Looking
<1>2. Candidates' = Candidates
  BY DEF Candidates
<1>3. \A e : Disclosable(e)' <=> Disclosable(e)
  BY DEF Disclosable, Policy
<1>4. Does("restores")' <=> Does("restores")
  BY DEF Does
<1>5. query.at # "idle" => Looking'
  BY <1>1, <1>2, <1>3, <1>4 DEF QueryInv, Looking
<1> QED
  BY <1>5 DEF QueryInv, QueryType

LEMMA NoQueryType == NoQuery \in
      [at : {"idle", "look", "recheck"}, graph : Graphs \cup {NoIndex},
       wants : SUBSET SemIds, policy : 1 .. 2, todo : SUBSET (Keys \X Keys),
       found : SUBSET (Keys \X Keys), flapped : SUBSET Keys,
       answer : {"none", "complete"}]
  BY DEF NoQuery

LEMMA LookupRaisesKeeps ==
    ASSUME QueryInv, UNCHANGED hostVars, LookupRaises
    PROVE  QueryInv'
<1>1. query' = NoQuery /\ UNCHANGED <<world, policy, down>>
  BY DEF LookupRaises, hostVars
<1>2. query'.at = "idle"
  BY <1>1 DEF NoQuery
<1> QED
  BY <1>1, <1>2, NoQueryType DEF QueryInv, QueryType

\* A step of a lookup keeps what it asked, under which policy, of which graph.
SameLookup ==
    /\ query'.graph = query.graph /\ query'.wants = query.wants
    /\ query'.policy = query.policy /\ query'.flapped = query.flapped
    /\ UNCHANGED <<world, policy, down, version, history>>

LEMMA SameLookupFrame ==
    ASSUME SameLookup
    PROVE  /\ Candidates' = Candidates
           /\ \A e : Disclosable(e)' <=> Disclosable(e)
           /\ Does("restores")' <=> Does("restores")
  BY DEF SameLookup, Candidates, Disclosable, Policy, Does

LEMMA LookupStartKeeps ==
    ASSUME GraphInv, QueryInv, UNCHANGED <<vars, sessionVars, hostVars>>, LookupStart
    PROVE  QueryInv'
<1>1. PICK s \in SemIds :
          query' = [NoQuery EXCEPT !.at = "look", !.graph = graph, !.wants = {s},
                       !.policy = policy, !.flapped = down,
                       !.todo = {e \in graph.edges : e[2] \in graph.posting.postings[s]}]
  BY DEF LookupStart
<1>2. graph # NoIndex
  BY DEF LookupStart
<1>3. GraphIn(graph, history, version) /\ graph \in Graphs
  BY <1>2 DEF GraphInv, GraphIn
<1>4. UNCHANGED <<world, policy, down, version, history>>
  BY DEF vars, registryVars, hostVars
<1> DEFINE todo == {e \in graph.edges : e[2] \in graph.posting.postings[s]}
<1>5. todo \in SUBSET (Keys \X Keys)
  BY <1>3 DEF Graphs
<1>6. policy \in 1 .. 2 /\ down \in SUBSET Keys /\ world \in Worlds
  BY DEF QueryInv
<1>7. PICK td : td = todo
  OBVIOUS
<1>8. query' = [at |-> "look", graph |-> graph, wants |-> {s}, policy |-> policy, todo |-> td,
                found |-> {}, flapped |-> down, answer |-> "none"]
  BY <1>1, <1>7 DEF NoQuery
<1>9. QueryType'
  <2> HIDE DEF todo
  <2> QED
    BY <1>3, <1>5, <1>6, <1>7, <1>8 DEF QueryType
<1>10. td \subseteq Candidates' /\ Candidates' = td
  BY <1>7, <1>8 DEF Candidates
<1>11. Looking'
  <2> HIDE DEF todo
  <2> QED
    BY <1>3, <1>4, <1>6, <1>8, <1>10 DEF Looking
<1> QED
  BY <1>4, <1>6, <1>9, <1>11 DEF QueryInv

LEMMA LookKeeps ==
    ASSUME QueryInv, UNCHANGED <<vars, sessionVars, hostVars>>, Look
    PROVE  QueryInv'
<1>1. PICK e \in query.todo :
          IF Stale THEN LookupRaises
          ELSE query' = [query EXCEPT !.todo = @ \ {e},
                  !.found = IF /\ Authorized(e[1]) /\ Authorized(e[2])
                               /\ query.graph.caps[e[1]].root
                            THEN @ \cup {e} ELSE @]
  BY DEF Look
<1>2. CASE LookupRaises
  BY <1>2, LookupRaisesKeeps
<1>3. CASE ~LookupRaises
  <2>1. query.at = "look" /\ Looking /\ QueryType
    BY DEF Look, QueryInv
  <2>2. PICK found : found = IF Authorized(e[1]) /\ Authorized(e[2]) /\ query.graph.caps[e[1]].root
                             THEN query.found \cup {e} ELSE query.found
    OBVIOUS
  <2>3. query' = [query EXCEPT !.todo = @ \ {e}, !.found = found]
    BY <1>1, <1>3, <2>2, Zenon
  <2>4. found \in SUBSET (Keys \X Keys) /\ e \in Keys \X Keys
    BY <1>1, <2>1, <2>2 DEF QueryType
  <2>5. /\ QueryType' /\ query'.at = "look" /\ query'.answer = query.answer
        /\ query'.todo = query.todo \ {e} /\ query'.found = found
        /\ query'.graph = query.graph /\ query'.wants = query.wants
        /\ query'.policy = query.policy /\ query'.flapped = query.flapped
    BY <2>1, <2>3, <2>4 DEF QueryType
  <2>6. UNCHANGED <<world, policy, down, version, history>>
    BY DEF vars, registryVars, hostVars
  <2>7. SameLookup
    BY <2>5, <2>6 DEF SameLookup
  <2>8. e \in Candidates /\ {e[1], e[2]} \subseteq Keys
    BY <1>1, <2>1, <2>4 DEF Looking
  <2>9. Authorized(e[1]) /\ Authorized(e[2]) /\ policy = query.policy => Disclosable(e)
    BY DEF Authorized, Disclosable
  <2>10. /\ policy = query.policy /\ Disclosable(e) /\ ~(Authorized(e[1]) /\ Authorized(e[2]))
         => {e[1], e[2]} \cap query.flapped # {}
    <3>1. down \subseteq query.flapped
      BY <2>1 DEF Looking
    <3> QED
      BY <3>1 DEF Authorized, Disclosable
  <2>11. found \subseteq Candidates /\ \A f \in found : query.graph.caps[f[1]].root
    BY <2>1, <2>2, <2>8 DEF Looking
  <2>12. ASSUME ~Does("restores"), policy = query.policy
         PROVE  /\ \A f \in found : Disclosable(f)
                /\ \A f \in Candidates \ found :
                      \/ f \in query.todo \ {e}
                      \/ ~query.graph.caps[f[1]].root
                      \/ ~Disclosable(f)
                      \/ {f[1], f[2]} \cap query.flapped # {}
    <3>1. \A f \in query.found : Disclosable(f)
      BY <2>1, <2>12 DEF Looking
    <3>2. \A f \in found : Disclosable(f)
      BY <2>2, <2>9, <2>12, <3>1
    <3>3. \A f \in Candidates \ query.found :
              \/ f \in query.todo
              \/ ~query.graph.caps[f[1]].root
              \/ ~Disclosable(f)
              \/ {f[1], f[2]} \cap query.flapped # {}
      BY <2>1, <2>12 DEF Looking
    <3>4. e \in found \/ ~query.graph.caps[e[1]].root \/ ~Disclosable(e)
          \/ {e[1], e[2]} \cap query.flapped # {}
      BY <2>2, <2>10, <2>12
    <3>5. query.found \subseteq found
      BY <2>2
    <3> QED
      BY <3>2, <3>3, <3>4, <3>5
  <2>13. Looking'
    BY <2>1, <2>5, <2>6, <2>7, <2>11, <2>12, SameLookupFrame DEF Looking
  <2> QED
    BY <2>5, <2>6, <2>13 DEF QueryInv
<1> QED
  BY <1>2, <1>3

LEMMA LookedKeeps ==
    ASSUME QueryInv, UNCHANGED <<vars, sessionVars, hostVars>>, Looked
    PROVE  QueryInv'
<1>1. /\ query.at = "look" /\ query.todo = {} /\ Looking /\ QueryType
      /\ query' = [query EXCEPT !.at = "recheck", !.todo = query.found]
  BY DEF Looked, QueryInv
<1>2. /\ QueryType' /\ query'.at = "recheck" /\ query'.answer = query.answer
      /\ query'.todo = query.found /\ query'.found = query.found
      /\ query'.graph = query.graph /\ query'.wants = query.wants
      /\ query'.policy = query.policy /\ query'.flapped = query.flapped
  BY <1>1 DEF QueryType
<1>3. UNCHANGED <<world, policy, down, version, history>>
  BY DEF vars, registryVars, hostVars
<1>4. SameLookup
  BY <1>2, <1>3 DEF SameLookup
<1>5. Looking'
  BY <1>1, <1>2, <1>3, <1>4, SameLookupFrame DEF Looking
<1> QED
  BY <1>2, <1>3, <1>5 DEF QueryInv

LEMMA RecheckKeeps ==
    ASSUME QueryInv, UNCHANGED <<vars, sessionVars, hostVars>>, Recheck
    PROVE  QueryInv'
<1>1. CASE LookupRaises
  BY <1>1, LookupRaisesKeeps
<1>2. CASE ~LookupRaises
  <2>1. PICK e \in query.todo : query' = [query EXCEPT !.todo = @ \ {e}]
    BY <1>2 DEF Recheck
  <2>2. query.at = "recheck" /\ Looking /\ QueryType
    BY DEF Recheck, QueryInv
  <2>3. /\ QueryType' /\ query'.at = "recheck" /\ query'.answer = query.answer
        /\ query'.todo = query.todo \ {e} /\ query'.found = query.found
        /\ query'.graph = query.graph /\ query'.wants = query.wants
        /\ query'.policy = query.policy /\ query'.flapped = query.flapped
    BY <2>1, <2>2 DEF QueryType
  <2>4. UNCHANGED <<world, policy, down, version, history>>
    BY DEF vars, registryVars, hostVars
  <2>5. SameLookup
    BY <2>3, <2>4 DEF SameLookup
  <2>6. Looking'
    BY <2>2, <2>3, <2>4, <2>5, SameLookupFrame DEF Looking
  <2> QED
    BY <2>3, <2>4, <2>6 DEF QueryInv
<1> QED
  BY <1>1, <1>2

LEMMA AnswersKeeps ==
    ASSUME QueryInv, UNCHANGED <<vars, sessionVars, hostVars>>, Answers
    PROVE  QueryInv'
<1>1. CASE LookupRaises
  BY <1>1, LookupRaisesKeeps
<1>2. CASE ~LookupRaises
  <2>1. query' = [query EXCEPT !.at = "idle", !.answer = "complete"]
    BY <1>2, Zenon DEF Answers
  <2>2. QueryType' /\ query'.at = "idle"
    BY <2>1 DEF QueryInv, QueryType
  <2>3. UNCHANGED <<world, policy, down>>
    BY DEF hostVars
  <2> QED
    BY <2>2, <2>3 DEF QueryInv
<1> QED
  BY <1>1, <1>2

LEMMA ReplacePolicyKeeps ==
    ASSUME QueryInv, UNCHANGED <<vars, sessionVars, query>>, ReplacePolicy
    PROVE  QueryInv'
<1>1. /\ policy' \in 1 .. 2 /\ policy' # policy
      /\ ~Does("restores") => policy' = 2
      /\ UNCHANGED <<world, down, query, version, history>>
  BY DEF ReplacePolicy, vars, registryVars
<1>2. Candidates' = Candidates /\ (\A e : Disclosable(e)' <=> Disclosable(e))
      /\ (Does("restores")' <=> Does("restores"))
  BY <1>1 DEF Candidates, Disclosable, Policy, Does
<1>3. policy \in 1 .. 2 /\ query.policy \in 1 .. 2
  BY DEF QueryInv, QueryType
<1>4. query.at # "idle" => Looking'
  BY <1>1, <1>2, <1>3 DEF QueryInv, Looking
<1> QED
  BY <1>1, <1>4 DEF QueryInv, QueryType

LEMMA HealthMovesKeeps ==
    ASSUME QueryInv, UNCHANGED <<vars, sessionVars>>, HealthMoves,
           query' = [query EXCEPT !.flapped = @ \cup down']
    PROVE  QueryInv'
<1>1. UNCHANGED <<world, policy, version, history>>
  BY DEF HealthMoves, vars, registryVars
<1>2. down' \in SUBSET Keys
  BY DEF HealthMoves, QueryInv
<1>3. /\ QueryType' /\ query'.at = query.at /\ query'.answer = query.answer
      /\ query'.todo = query.todo /\ query'.found = query.found
      /\ query'.graph = query.graph /\ query'.wants = query.wants
      /\ query'.policy = query.policy /\ query'.flapped = query.flapped \cup down'
  BY <1>2 DEF QueryInv, QueryType
<1>4. Candidates' = Candidates /\ (\A e : Disclosable(e)' <=> Disclosable(e))
      /\ (Does("restores")' <=> Does("restores"))
  BY <1>1, <1>3 DEF Candidates, Disclosable, Policy, Does
<1>5. query.at # "idle" => Looking'
  BY <1>1, <1>3, <1>4 DEF QueryInv, Looking
<1> QED
  BY <1>1, <1>2, <1>3, <1>5 DEF QueryInv

LEMMA LookupStepKeeps ==
    ASSUME GraphInv, QueryInv, UNCHANGED <<vars, sessionVars, hostVars>>, LookupStep
    PROVE  QueryInv'
  BY LookupStartKeeps, LookKeeps, LookedKeeps, RecheckKeeps, AnswersKeeps, Zenon DEF LookupStep

-----------------------------------------------------------------------------
(* The session *)

LEMMA SessionInitInv == SessionInit => SessionInv
<1> SUFFICES ASSUME SessionInit PROVE SessionInv
  OBVIOUS
<1>1. PostingInv
  BY PostingInit DEF SessionInit
<1>2. WorkFits("idle", NoWork)
  BY DEF WorkFits
<1>3. GraphInv
  BY <1>2, NoWorkType DEF SessionInit, GraphInv, Stages
<1>4. query.at = "idle"
  BY DEF SessionInit, NoQuery
<1>5. QueryInv
  BY <1>4, NoQueryType DEF SessionInit, QueryInv, QueryType
<1> QED
  BY <1>1, <1>3, <1>5 DEF SessionInv

LEMMA SessionStepInv == SessionInv /\ [SessionNext]_allVars => SessionInv'
<1> SUFFICES ASSUME SessionInv, [SessionNext]_allVars PROVE SessionInv'
  OBVIOUS
<1>1. PostingInv /\ GraphInv /\ QueryInv /\ policy \in 1 .. 2
  BY DEF SessionInv, QueryInv
<1>2. version \in Nat
  BY <1>1, RegistryFacts DEF PostingInv
<1>3. UNCHANGED vars => UNCHANGED <<tools, version, history, index>>
  BY DEF vars, registryVars, indexVars
<1>4. version' = version /\ history' = history => Extends(history, version, history', version')
  BY <1>2 DEF Extends
<1>5. ASSUME UNCHANGED vars, UNCHANGED sessionVars PROVE PostingInv' /\ GraphInv'
  BY <1>1, <1>3, <1>5, PostingStands, GraphFollows DEF sessionVars
<1>6. CASE GraphStep /\ UNCHANGED <<vars, hostVars, query>>
  <2>1. PostingInv' /\ GraphInv'
    BY <1>1, <1>6, PostingStands, GraphStepKeeps
  <2>2. QueryInv'
    BY <1>1, <1>2, <1>3, <1>4, <1>6, QueryOutlives DEF hostVars
  <2> QED
    BY <2>1, <2>2 DEF SessionInv
<1>7. CASE PostingStep /\ UNCHANGED <<hostVars, query>>
  <2>1. PostingInv' /\ GraphInv' /\ UNCHANGED <<tools, version, history>>
    BY <1>1, <1>7, PostingStepKeeps
  <2>2. QueryInv'
    BY <1>1, <1>2, <1>4, <1>7, <2>1, QueryOutlives DEF hostVars
  <2> QED
    BY <2>1, <2>2 DEF SessionInv
<1>8. CASE LookupStep /\ UNCHANGED <<vars, sessionVars, hostVars>>
  BY <1>1, <1>5, <1>8, LookupStepKeeps DEF SessionInv
<1>9. CASE ReplacePolicy /\ UNCHANGED <<vars, sessionVars, query>>
  BY <1>1, <1>5, <1>9, ReplacePolicyKeeps DEF SessionInv
<1>10. CASE /\ HealthMoves /\ query' = [query EXCEPT !.flapped = @ \cup down']
            /\ UNCHANGED <<vars, sessionVars>>
  BY <1>1, <1>5, <1>10, HealthMovesKeeps DEF SessionInv
<1>11. CASE SourceWrite /\ UNCHANGED <<sessionVars, hostVars, query>>
  <2>1. RegistryWrite
    BY <1>11 DEF SourceWrite
  <2>2. PostingInv' /\ GraphInv'
    BY <1>1, <1>11, <2>1, PostingOutlivesWrites, GraphOutlivesWrites
  <2>3. version' = version + 1 /\ Extends(history, version, history', version')
    BY <1>1, <2>1, RegistryMoves DEF PostingInv, RegistryWrite
  <2>4. QueryInv'
    BY <1>1, <1>2, <1>11, <2>3, QueryOutlives DEF hostVars
  <2> QED
    BY <2>2, <2>4 DEF SessionInv
<1>12. CASE UNCHANGED allVars
  <2>1. PostingInv' /\ GraphInv'
    BY <1>5, <1>12 DEF allVars
  <2>2. QueryInv'
    BY <1>1, <1>2, <1>3, <1>4, <1>12, QueryOutlives DEF allVars, hostVars
  <2> QED
    BY <2>1, <2>2 DEF SessionInv
<1> QED
  BY <1>6, <1>7, <1>8, <1>9, <1>10, <1>11, <1>12, Zenon DEF SessionNext

LEMMA SessionInvariant == SessionSpec => []SessionInv
  BY SessionInitInv, SessionStepInv, PTL DEF SessionSpec

-----------------------------------------------------------------------------
(* Theorems *)

\* The published index and graph, the running refresh and the running lookup
\* keep their types, and a delta is under way only for a newer index than the
\* graph's (native_semantic_index.py, field_routing_session.py).
THEOREM IndexTypes == SessionSpec => []GraphTypeOK
<1>1. SessionInv => GraphTypeOK
  <2> SUFFICES ASSUME SessionInv PROVE GraphTypeOK
    OBVIOUS
  <2>1. graph \in Graphs \cup {NoIndex}
    BY DEF SessionInv, GraphInv, GraphIn
  <2>2. WorkFits(stage, work) /\ work \in Works /\ stage \in Stages
    BY DEF SessionInv, GraphInv
  <2>3. work.posting \in Indexes \cup {NoIndex} /\ work.todo \subseteq Keys
    BY <2>2 DEF Works
  <2>4. query.found \subseteq Keys \X Keys
    BY DEF SessionInv, QueryInv, QueryType
  <2> QED
    BY <2>1, <2>2, <2>3, <2>4 DEF SessionInv, PostingInv, GraphTypeOK, WorkFits, Stages
<1> QED
  BY <1>1, SessionInvariant, PTL

\* Posting index and graph are what full builds of their own version give, by
\* whatever sequence of refreshes and revisions they came about and whatever
\* was written meanwhile (refresh_changed_contracts, revise_host_roots).
THEOREM IndexesAreBuilt == SessionSpec => []IndexesAreSnapshots
<1>1. SessionInv => IndexesAreSnapshots
  <2> SUFFICES ASSUME SessionInv PROVE IndexesAreSnapshots
    OBVIOUS
  <2>1. IndexIsSnapshot
    BY DEF SessionInv, PostingInv, SnapshotIn, IndexIsSnapshot
  <2>2. graph # NoIndex => GraphIn(graph, history, version)
    BY DEF SessionInv, GraphInv
  <2> QED
    BY <2>1, <2>2 DEF IndexesAreSnapshots, GraphIn, SnapshotIn, CapsOf
<1> QED
  BY <1>1, SessionInvariant, PTL

\* A lookup under policies that are not put back answers for the catalog and
\* the policy of the moment it answers (_check_retrieval_authority_witness).
\* With a policy that is put back between two looks it does not.
THEOREM LookupsAreCurrent == SessionSpec /\ ~Does("restores") => LookupIsCurrent
<1> DEFINE Now == PathsNow(tools, query.graph.approved, query.wants, Policy(policy))
           A == query.answer = "none" /\ query'.answer = "complete" =>
                  /\ query'.found \subseteq Now
                  /\ \A e \in Now \ query'.found : {e[1], e[2]} \cap query.flapped # {}
<1>1. SessionInv /\ ~Does("restores") /\ [SessionNext]_allVars => [A]_allVars
  <2> SUFFICES ASSUME SessionInv, ~Does("restores"), SessionNext,
                      query.answer = "none", query'.answer = "complete"
               PROVE  /\ query'.found \subseteq Now
                      /\ \A e \in Now \ query'.found : {e[1], e[2]} \cap query.flapped # {}
    OBVIOUS
  <2>1. QueryInv /\ QueryType /\ PostingInv
    BY DEF SessionInv, QueryInv
  <2>2. query' # query /\ query'.answer # query.answer
    OBVIOUS
  <2>3. Answers /\ ~LookupRaises
    <3>1. query' # NoQuery
      BY DEF NoQuery
    <3>2. ~LookupStart
      BY DEF LookupStart, NoQuery
    <3>3. ASSUME NEW a, NEW b, query' = [query EXCEPT !.todo = a, !.found = b] PROVE FALSE
      BY <2>1, <2>2, <3>3 DEF QueryType
    <3>4. ~Look
      <4> SUFFICES ASSUME Look PROVE FALSE
        OBVIOUS
      <4>1. PICK e \in query.todo :
                query' = [query EXCEPT !.todo = @ \ {e},
                  !.found = IF /\ Authorized(e[1]) /\ Authorized(e[2])
                               /\ query.graph.caps[e[1]].root
                            THEN @ \cup {e} ELSE @]
        BY <3>1, Zenon DEF Look, LookupRaises
      <4>2. PICK td, fd : td = query.todo \ {e} /\ fd = (IF /\ Authorized(e[1]) /\ Authorized(e[2])
                               /\ query.graph.caps[e[1]].root
                            THEN query.found \cup {e} ELSE query.found)
        OBVIOUS
      <4>3. query' = [query EXCEPT !.todo = td, !.found = fd]
        BY <4>1, <4>2, Zenon
      <4> QED
        BY <3>3, <4>3
    <3>5. ~Looked
      BY <2>1, <2>2 DEF Looked, QueryType
    <3>6. ~Recheck
      BY <2>1, <2>2, <3>1 DEF Recheck, QueryType, LookupRaises
    <3>7. ~(query' = [query EXCEPT !.flapped = @ \cup down'])
      BY <2>1, <2>2 DEF QueryType
    <3> QED
      BY <2>2, <3>1, <3>2, <3>4, <3>5, <3>6, <3>7 DEF SessionNext, LookupStep, LookupRaises
  <2>4. /\ query.at = "recheck" /\ query.todo = {} /\ ~Stale /\ policy = query.policy
        /\ query' = [query EXCEPT !.at = "idle", !.answer = "complete"]
    BY <2>3 DEF Answers
  <2>5. Looking /\ query'.found = query.found
    BY <2>1, <2>4 DEF QueryInv, QueryType
  <2>6. PICK g : g = query.graph
    OBVIOUS
  <2>7. /\ g \in Graphs /\ g.posting = BuildOf(tools, version)
        /\ g.caps = CapsOf(tools, g.approved) /\ g.edges = EdgesOf(g.caps)
        /\ tools \in Catalogs
    BY <2>1, <2>4, <2>5, <2>6, RegistryFacts DEF Looking, GraphIn, SnapshotIn, Stale, PostingInv
  <2>8. ASSUME NEW e \in g.edges
        PROVE  e \in Candidates <=> query.wants \subseteq SemOf[FpAt(tools, e[2])]
    <3>1. e \in Keys \X Keys /\ Joins(g.caps, e[1], e[2])
      BY <2>7 DEF EdgesOf
    <3>2. e[2] \in Keys /\ g.caps[e[2]].needs # {}
      BY <3>1 DEF Joins
    <3>3. g.caps[e[2]] = CapOf(e[2], tools[e[2]], g.approved)
      BY <2>7, <3>2, CapsType
    <3>4. tools[e[2]] # Absent
      <4>1. \A b : [needs |-> {}, gives |-> {}, root |-> b].needs = {}
        OBVIOUS
      <4>2. NoCap.needs = {}
        BY <4>1, Zenon DEF NoCap
      <4> QED
        BY <3>2, <3>3, <4>2, Zenon DEF CapOf
    <3>5. FpAt(tools, e[2]) # Absent
      BY <2>7, <3>2, <3>4, FpType
    <3>6. query.wants \subseteq SemIds
      BY <2>1 DEF QueryType
    <3>7. \A s \in query.wants :
              e[2] \in g.posting.postings[s] <=> s \in SemOf[FpAt(tools, e[2])]
      BY <2>7, <3>2, <3>5, <3>6 DEF BuildOf, Posts
    <3> QED
      BY <2>6, <3>7 DEF Candidates
  <2>9. ASSUME NEW e
        PROVE  e \in Now <=> e \in Candidates /\ g.caps[e[1]].root /\ Disclosable(e)
    <3>1. e \in Now <=> /\ e \in g.edges /\ g.caps[e[1]].root
                        /\ query.wants \subseteq SemOf[FpAt(tools, e[2])]
                        /\ Disclosable(e)
      <4>1. PICK caps, p : caps = g.caps /\ p = Policy(policy)
        OBVIOUS
      <4>2. [k \in Keys |-> CapOf(k, tools[k], query.graph.approved)] = caps
        BY <2>6, <2>7, <4>1, Zenon DEF CapsOf
      <4>3. Now = {f \in EdgesOf(caps) : /\ caps[f[1]].root
                                         /\ query.wants \subseteq SemOf[FpAt(tools, f[2])]
                                         /\ {f[1], f[2]} \subseteq p.permits \cap p.shows}
        BY <4>1, <4>2, Zenon DEF PathsNow
      <4>4. Disclosable(e) <=> {e[1], e[2]} \subseteq p.permits \cap p.shows
        BY <2>4, <4>1, Zenon DEF Disclosable
      <4> HIDE DEF Now
      <4> QED
        BY <2>7, <4>1, <4>3, <4>4
    <3>2. e \in Candidates => e \in g.edges
      BY <2>6 DEF Candidates
    <3> QED
      BY <2>8, <3>1, <3>2
  <2> HIDE DEF Now
  <2> QED
    BY <2>4, <2>5, <2>6, <2>9 DEF Looking
<1>2. ~Does("restores") /\ [SessionNext]_allVars => ~Does("restores")'
  BY DEF SessionNext, allVars, hostVars, Does, ReplacePolicy, HealthMoves
<1>3. SessionSpec /\ ~Does("restores") => [][A]_allVars
  BY <1>1, <1>2, SessionInvariant, PTL DEF SessionSpec
<1> QED
  BY <1>3 DEF LookupIsCurrent, A, Now

=============================================================================
