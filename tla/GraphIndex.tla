------------------------------ MODULE GraphIndex ------------------------------
(***************************************************************************)
(* The typed dependency graph kept on top of a posting index               *)
(* (native_graph_index.py, capability_graph.py) and the routing session    *)
(* that holds both (field_routing_session.py).  A graph is built from all  *)
(* tools, revised when the host approves or revokes source routes, and     *)
(* refreshed for the changed tools only.  A lookup walks it under a policy *)
(* and a health check that other threads, or the callbacks it runs, may    *)
(* change.  Each registry call is a step, as in PostingIndex.              *)
(*                                                                         *)
(* Abstraction: a tool is one read-only route, the fields it needs and     *)
(* produces are semantic identifiers, and a lookup asks for one of them.   *)
(* The order in which a lookup takes its paths is left open; answers over  *)
(* the limit of five paths, which disclose none, are left out.             *)
(***************************************************************************)
EXTENDS PostingIndex, FiniteSets

CONSTANTS
    Shape,      \* contract -> what the graph makes of it, see Shapes
    Worlds      \* see World

\* root: it needs no input, it may be approved by the host with inputs of his
\* own, or neither; reviewed: its (unfingerprinted) metadata carries the review
\* such an approval relies on; needs, gives: identifiers taken and produced.
Shapes == [root : {"empty", "host", "no"}, reviewed : BOOLEAN,
           needs : SUBSET SemIds, gives : SUBSET SemIds]

\* What is done with the index, the contracts around, number of writes, and per
\* policy object the routes it permits and those whose fields it shows.
World == [ops : SUBSET {"postings", "build", "hints", "journal", "revise", "lookup", "health",
                        "restores"},
          pool : SUBSET Contracts, writes : 0 .. MaxVersion,
          policies : [1 .. 2 -> [permits : SUBSET Keys, shows : SUBSET Keys]]]

ASSUME GraphIndexAssumption ==
    /\ Shape \in [Contracts -> Shapes]
    /\ \A c, d \in Contracts : FpOf[c] = FpOf[d] =>
          [Shape[c] EXCEPT !.reviewed = TRUE] = [Shape[d] EXCEPT !.reviewed = TRUE]
    /\ Worlds \subseteq World

VARIABLES
    world,      \* chosen once
    graph,      \* the session's index: posting, caps, edges, roots, approved; or NoIndex
    stage,      \* where the running build, revision or refresh of it is
    work,       \* its locals
    policy,     \* which policy object the router has
    down,       \* tools whose availability check fails
    query       \* the running lookup: its locals, its answer

sessionVars == <<graph, stage, work>>
hostVars == <<world, policy, down>>
allVars == <<vars, sessionVars, hostVars, query>>

Does(op) == op \in world.ops

NoCap == [needs |-> {}, gives |-> {}, root |-> FALSE]

\* _source_native_graph_contracts: the capability of tool contract c under key k.
CapOf(k, c, approved) ==
    IF c = Absent THEN NoCap
    ELSE LET s == Shape[c]
             root == s.root = "empty" \/ k \in approved
         IN IF root /\ (s.gives # {} \/ k \in approved)
            THEN [needs |-> {}, gives |-> s.gives, root |-> TRUE]
            ELSE IF ~root /\ s.needs # {}
            THEN [needs |-> s.needs, gives |-> s.gives, root |-> FALSE]
            ELSE NoCap

\* An approval of a route that cannot be approved raises.
Approvable(k, c, approved) ==
    k \in approved => c # Absent /\ Shape[c].root = "host" /\ Shape[c].reviewed

\* compare_capability_composition: the producer gives all the consumer needs.
Joins(caps, p, c) == p # c /\ caps[c].needs # {} /\ caps[c].needs \subseteq caps[p].gives
EdgesOf(caps) == {e \in Keys \X Keys : Joins(caps, e[1], e[2])}

\* Mutant: edges into an unchanged consumer are not looked for.
UpdatedEdgesOfConsumers(edges, old, new) ==
    LET changed == {k \in Keys : old[k] # new[k]}
    IN {e \in edges : e[1] \notin changed /\ e[2] \notin changed}
       \cup {e \in Keys \X changed : Joins(new, e[1], e[2])}

\* update_capability_dependency_graph: keep what is between unchanged
\* capabilities, compare again what is incident to a changed one.
UpdatedEdges(edges, old, new) ==
    LET changed == {k \in Keys : old[k] # new[k]}
    IN {e \in edges : e[1] \notin changed /\ e[2] \notin changed}
       \cup {e \in EdgesOf(new) : e[1] \in changed \/ e[2] \in changed}

NoWork == [posting |-> NoIndex, to |-> 0, changed |-> {}, todo |-> {},
           caps |-> [k \in Keys |-> NoCap], approved |-> {}, policy |-> 1]

Idle == stage = "idle" /\ phase = "idle"
Enters(s, w) == stage' = s /\ work' = w /\ UNCHANGED graph
Raises == Enters("idle", NoWork)

\* The last checks of a revision or refresh, and the session's own.
Publishes(edges, roots) ==
    IF version = work.posting.version /\ policy = work.policy
    THEN /\ stage' = "idle" /\ work' = NoWork
         /\ graph' = [posting |-> work.posting, caps |-> work.caps, edges |-> edges,
                      roots |-> roots, approved |-> work.approved]
    ELSE Raises

\* Reading one tool that the posting index pins: gone or different, it raises.
Reads(k) ==
    /\ k \in work.todo
    /\ IF /\ tools[k] # Absent
          /\ FpAt(tools, k) = work.posting.fps[k]
          /\ Approvable(k, tools[k], work.approved)
       THEN Enters(stage, [work EXCEPT !.todo = @ \ {k},
                                       !.caps[k] = CapOf(k, tools[k], work.approved)])
       ELSE Raises

-----------------------------------------------------------------------------
(* build: a version check, all tools at once, a version check.  A session  *)
(* is prepared once: another build makes another session.                   *)

GraphBuildStart ==
    /\ Idle /\ Does("build") /\ graph = NoIndex
    /\ index # NoIndex /\ version = index.version
    /\ \E approved \in SUBSET Keys :
          Enters("scan", [NoWork EXCEPT !.posting = index, !.approved = approved,
                                        !.policy = policy])

GraphBuildScan ==
    /\ stage = "scan"
    /\ IF /\ \A k \in Present(tools) : FpAt(tools, k) = work.posting.fps[k]
          /\ \A k \in Keys : Approvable(k, tools[k], work.approved)
       THEN Enters("scanned", [work EXCEPT !.caps = [k \in Keys |->
                                  CapOf(k, tools[k], work.approved)]])
       ELSE Raises

\* prepare compares no policy.
GraphBuildPublish ==
    /\ stage = "scanned"
    /\ IF version = work.posting.version
       THEN /\ stage' = "idle" /\ work' = NoWork
            /\ graph' = [posting |-> work.posting, caps |-> work.caps,
                         edges |-> EdgesOf(work.caps),
                         roots |-> Cardinality({k \in Keys : work.caps[k].root}),
                         approved |-> work.approved]
       ELSE Raises

-----------------------------------------------------------------------------
(* revise_host_roots: only the tools whose approval changes are read again *)

ReviseStart ==
    /\ Idle /\ Does("revise")
    /\ graph # NoIndex /\ version = graph.posting.version
    /\ \E approved \in SUBSET Keys \ {graph.approved} :
          LET changed == (approved \ graph.approved) \cup (graph.approved \ approved)
          IN /\ \A k \in changed : graph.posting.fps[k] # Absent
             /\ Enters("revise", [NoWork EXCEPT !.posting = graph.posting,
                         !.approved = approved, !.todo = changed,
                         !.caps = graph.caps, !.policy = policy])

ReviseRead == stage = "revise" /\ \E k \in Keys : Reads(k)

RevisePublish ==
    /\ stage = "revise" /\ work.todo = {}
    /\ Publishes(UpdatedEdges(graph.edges, graph.caps, work.caps),
                 Cardinality({k \in Keys : work.caps[k].root}))

-----------------------------------------------------------------------------
(* refresh from hints: the posting index was refreshed before; the hints   *)
(* must be what differs, and every tool is compared with its pin           *)

Differ(old, new) == {k \in Keys : old.fps[k] # new.fps[k]}

RefreshStart ==
    /\ Idle /\ Does("hints")
    /\ graph # NoIndex /\ index.version > graph.posting.version
    /\ Differ(graph.posting, index) # {}
    /\ Enters("manifest", [NoWork EXCEPT !.posting = index, !.policy = policy,
                 !.changed = Differ(graph.posting, index), !.approved = graph.approved])

RefreshManifest ==
    /\ stage = "manifest"
    /\ IF Present(tools) = Indexed(work.posting)
       THEN Enters("pins", [work EXCEPT !.todo = Present(tools)])
       ELSE Raises

RefreshPin ==
    /\ stage = "pins"
    /\ \E k \in work.todo :
          IF FpAt(tools, k) = work.posting.fps[k]
          THEN Enters("pins", [work EXCEPT !.todo = @ \ {k}])
          ELSE Raises

\* _refresh_changed_contracts: keep the other tools' capabilities; an approved
\* tool that is gone raises.
EntersDelta(posting, changed, approved) ==
    IF \E k \in approved \cap changed : posting.fps[k] = Absent THEN Raises
    ELSE Enters("delta", [work EXCEPT !.posting = posting,
                 !.todo = {k \in changed : posting.fps[k] # Absent},
                 !.caps = [k \in Keys |-> IF k \in changed THEN NoCap ELSE graph.caps[k]]])

RefreshPinned ==
    /\ stage = "pins" /\ work.todo = {}
    /\ IF version = work.posting.version
       THEN EntersDelta(work.posting, work.changed, work.approved)
       ELSE Raises

-----------------------------------------------------------------------------
(* refresh from the journal: a receipt of its own, a refresh of the posting *)
(* index, which takes another, and a check that both end at one version     *)

ReceiptUsable(from) == ReceiptServed(from) /\ version > from /\ ChangedSince(from) # {}

GraphJournalStart ==
    /\ Idle /\ Does("journal")
    /\ graph # NoIndex /\ index = graph.posting
    /\ ReceiptUsable(index.version)
    /\ Enters("receipt", [NoWork EXCEPT !.to = version, !.changed = ChangedSince(index.version),
                             !.approved = graph.approved, !.policy = policy])

GraphJournalRaises ==
    /\ stage = "receipt"
    /\ ~ReceiptUsable(index.version)
    /\ Raises

\* Mutant: the two receipts may end at different versions.
GraphJournalPostedAnywhere ==
    /\ stage = "posting" /\ phase = "idle"
    /\ IF version = index.version
       THEN EntersDelta(index, work.changed, work.approved)
       ELSE Raises

GraphJournalPosted ==
    /\ stage = "posting" /\ phase = "idle"
    /\ IF index.version = work.to /\ version = work.to
       THEN EntersDelta(index, work.changed, work.approved)
       ELSE Raises

DeltaRead == stage = "delta" /\ \E k \in Keys : Reads(k)

\* A kept route without typed output is not counted as a root.
DeltaPublish ==
    /\ stage = "delta" /\ work.todo = {}
    /\ Publishes(UpdatedEdges(graph.edges, graph.caps, work.caps),
                 Cardinality({k \in Keys : /\ work.caps[k].root
                                           /\ k \in work.changed \/ work.caps[k].gives # {}}))

-----------------------------------------------------------------------------
(* lookup: two passes over the paths, then source and policy once more *)

NoQuery == [at |-> "idle", graph |-> NoIndex, wants |-> {}, policy |-> 1,
            todo |-> {}, found |-> {}, flapped |-> {}, answer |-> "none"]

Policy(i) == world.policies[i]
Stale == version # query.graph.posting.version

\* Its predicate is the policy's of the start, its data scope the current one's.
Authorized(k) ==
    /\ k \in Policy(query.policy).permits
    /\ k \in Policy(policy).shows
    /\ k \notin down

LookupStart ==
    /\ Does("lookup") /\ query.at = "idle"
    /\ graph # NoIndex /\ version = graph.posting.version
    /\ \E s \in SemIds :
          query' = [NoQuery EXCEPT !.at = "look", !.graph = graph, !.wants = {s},
                       !.policy = policy, !.flapped = down,
                       !.todo = {e \in graph.edges : e[2] \in graph.posting.postings[s]}]

LookupRaises == query' = NoQuery

\* The producer must be a root.
Look ==
    /\ query.at = "look"
    /\ \E e \in query.todo :
          IF Stale THEN LookupRaises
          ELSE query' = [query EXCEPT !.todo = @ \ {e},
                  !.found = IF /\ Authorized(e[1]) /\ Authorized(e[2])
                               /\ query.graph.caps[e[1]].root
                            THEN @ \cup {e} ELSE @]

Looked ==
    /\ query.at = "look" /\ query.todo = {}
    /\ query' = [query EXCEPT !.at = "recheck", !.todo = query.found]

Recheck ==
    /\ query.at = "recheck"
    /\ \E e \in query.todo :
          IF Stale \/ ~Authorized(e[1]) \/ ~Authorized(e[2]) THEN LookupRaises
          ELSE query' = [query EXCEPT !.todo = @ \ {e}]

\* Mutant: source and witness are not checked before the answer is given.
AnswersUnwitnessed ==
    /\ query.at = "recheck" /\ query.todo = {}
    /\ query' = [query EXCEPT !.at = "idle", !.answer = "complete"]

Answers ==
    /\ query.at = "recheck" /\ query.todo = {}
    /\ IF Stale \/ policy # query.policy THEN LookupRaises
       ELSE query' = [query EXCEPT !.at = "idle", !.answer = "complete"]

-----------------------------------------------------------------------------
(* The host: another policy object, health of a tool, registry writes *)

ReplacePolicy ==
    /\ Does("lookup")
    /\ policy' \in {2} \cup (IF Does("restores") THEN {1} ELSE {})
    /\ policy' # policy
    /\ UNCHANGED <<world, down>>

HealthMoves ==
    /\ Does("health")
    /\ \E k \in Keys : down' \in {down \cup {k}, down \ {k}} \ {down}
    /\ UNCHANGED <<world, policy>>

GraphStep ==
    \/ GraphBuildStart \/ GraphBuildScan \/ GraphBuildPublish
    \/ ReviseStart \/ ReviseRead \/ RevisePublish
    \/ RefreshStart \/ RefreshManifest \/ RefreshPin \/ RefreshPinned
    \/ GraphJournalStart \/ GraphJournalRaises \/ GraphJournalPosted
    \/ DeltaRead \/ DeltaPublish

LookupStep == LookupStart \/ Look \/ Looked \/ Recheck \/ Answers

\* The posting index is refreshed on its own or by a journal refresh of the graph.
PostingStep ==
    \/ /\ stage = "idle" /\ UNCHANGED sessionVars
       /\ \/ index = NoIndex /\ BuildStart
          \/ Does("hints") /\ HintStart
          \/ Does("postings") /\ (BuildStart \/ JournalStart)
          \/ BuildScan \/ BuildPublish \/ HintManifest \/ HintRead \/ HintVerify
          \/ JournalRead \/ JournalVerify \/ AssemblePublish
    \/ stage = "receipt" /\ JournalStart /\ Enters("posting", work)
    \/ stage = "posting" /\ (JournalRead \/ JournalVerify \/ AssemblePublish)
       /\ UNCHANGED sessionVars

SourceWrite ==
    /\ version < world.writes
    /\ RegistryWrite
    /\ \A k \in Keys : tools'[k] \in world.pool \cup {Absent}

SessionInit ==
    /\ Init
    /\ world \in Worlds
    /\ graph = NoIndex /\ stage = "idle" /\ work = NoWork
    /\ policy = 1 /\ down = {}
    /\ query = NoQuery

SessionNext ==
    \/ GraphStep /\ UNCHANGED <<vars, hostVars, query>>
    \/ PostingStep /\ UNCHANGED <<hostVars, query>>
    \/ LookupStep /\ UNCHANGED <<vars, sessionVars, hostVars>>
    \/ ReplacePolicy /\ UNCHANGED <<vars, sessionVars, query>>
    \/ HealthMoves /\ query' = [query EXCEPT !.flapped = @ \cup down']
       /\ UNCHANGED <<vars, sessionVars>>
    \/ SourceWrite /\ UNCHANGED <<sessionVars, hostVars, query>>

SessionSpec == SessionInit /\ [][SessionNext]_allVars

-----------------------------------------------------------------------------
(* Properties *)

Graphs == [posting : Indexes, caps : [Keys -> [needs : SUBSET SemIds, gives : SUBSET SemIds,
                                               root : BOOLEAN]],
           edges : SUBSET (Keys \X Keys), roots : Nat, approved : SUBSET Keys]

\* Types of both indexes and of what runs on them; a delta is under way only
\* for an index newer than the graph's.
GraphTypeOK ==
    /\ IndexTypeOK
    /\ graph \in Graphs \cup {NoIndex}
    /\ stage \in {"idle", "scan", "scanned", "revise", "manifest", "pins", "receipt",
                  "posting", "delta"}
    /\ work.posting \in Indexes \cup {NoIndex} /\ work.todo \subseteq Keys
    /\ stage = "idle" => work = NoWork
    /\ stage \in {"manifest", "pins", "delta"} => work.posting.version > graph.posting.version
    /\ query.found \subseteq Keys \X Keys

\* Posting index and graph are what full builds of their own version would give,
\* however often they were refreshed or revised, from a journal or from hints,
\* and whatever was written in between: no edge of a replaced contract survives,
\* none of a new one is missing.
IndexesAreSnapshots ==
    /\ IndexIsSnapshot
    /\ graph # NoIndex =>
          LET v == graph.posting.version
              caps == [k \in Keys |-> CapOf(k, history[v][k], graph.approved)]
          IN /\ graph.posting = BuildOf(history[v], v)
             /\ graph.caps = caps
             /\ graph.edges = EdgesOf(caps)

\* The paths there are in a catalog for the identifiers wanted, under a policy.
PathsNow(cat, approved, wants, p) ==
    LET caps == [k \in Keys |-> CapOf(k, cat[k], approved)]
    IN {e \in EdgesOf(caps) : /\ caps[e[1]].root
                              /\ wants \subseteq SemOf[FpAt(cat, e[2])]
                              /\ {e[1], e[2]} \subseteq p.permits \cap p.shows}

\* A lookup that answers answers for the registered contracts and the policy of
\* that moment, although it looked at both piece by piece: it discloses no path
\* that is not there or not permitted, and hides none unless a tool on it was
\* unavailable in the meantime (_check_retrieval_authority_witness: `Do not
\* publish retrieval metadata authorized by superseded sources').
LookupIsCurrent ==
    [][query.answer = "none" /\ query'.answer = "complete" =>
          LET now == PathsNow(tools, query.graph.approved, query.wants, Policy(policy))
          IN /\ query'.found \subseteq now
             /\ \A e \in now \ query'.found : {e[1], e[2]} \cap query.flapped # {}]_allVars

\* By hand.  A refreshed index counts its roots as a full build does
\* (tests/test_sqlite_native_g5_graph_journal_e0.py:92).
CountsAsBuilt ==
    graph # NoIndex => graph.roots = Cardinality({k \in Keys : graph.caps[k].root})

\* By hand.  Only a review the registered contract carries makes a host route a
\* root (native_graph_index.py:299, `only the host review receipt may authorize').
RootsAreReviewed ==
    graph # NoIndex => \A k \in graph.approved : Shape[history[graph.posting.version][k]].reviewed

=============================================================================
