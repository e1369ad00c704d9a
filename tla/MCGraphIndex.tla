----------------------------- MODULE MCGraphIndex -----------------------------
(* TLC instances of Registry, PostingIndex and GraphIndex: two tools that can *)
(* be a root, a consumer, a route the host may approve, or a direct one.      *)
EXTENDS GraphIndex, TLC

CONSTANTS k1, k2, rc, qc, hc, hx, dc, fr, fq, fh, fd, s1, s2

MCFpOf == (rc :> fr @@ qc :> fq @@ hc :> fh @@ hx :> fh @@ dc :> fd)
MCSemOf == (fr :> {s1} @@ fq :> {s1, s2} @@ fh :> {s2} @@ fd :> {})
Of(root, reviewed, needs, gives) ==
    [root |-> root, reviewed |-> reviewed, needs |-> needs, gives |-> gives]
\* hx is hc without its review; approved, either is a root instead of a consumer.
MCShape == (rc :> Of("empty", FALSE, {}, {s1}) @@ qc :> Of("no", FALSE, {s1}, {s2})
            @@ hc :> Of("host", TRUE, {s2}, {s1}) @@ hx :> Of("host", FALSE, {s2}, {s1})
            @@ dc :> Of("host", TRUE, {}, {}))

All == [permits |-> Keys, shows |-> Keys]
Open == <<All, All>>
\* The second policy shows nothing; the first permits one tool only.
Some == {<<All, [All EXCEPT !.shows = {}]>>}
        \cup {<<[All EXCEPT !.permits = {k}], All>> : k \in Keys}

Plain == [ops |-> {}, pool |-> {rc, qc}, writes |-> 3, policies |-> Open]
\* The posting index alone.
Postings == {[Plain EXCEPT !.ops = {"postings", "hints"}]}
\* The graph on top of it, refreshed from hints, from the journal, or revised.
Hinted == {[Plain EXCEPT !.ops = {"build", "hints"}]}
ByJournal == {[Plain EXCEPT !.ops = {"build", "journal"}]}
RootRevisions == {[Plain EXCEPT !.ops = {"build", "journal", "revise"}, !.pool = {hc, qc}, !.writes = 2]}
Lookups == {[Plain EXCEPT !.ops = {"build", "journal", "lookup"}, !.writes = 2, !.policies = p] :
               p \in Some}
           \cup {[Plain EXCEPT !.ops = {"build", "lookup", "health"}, !.writes = 2]}

MCPass == Postings \cup Hinted \cup ByJournal \cup RootRevisions \cup Lookups
MCCounts == {[Plain EXCEPT !.ops = {"build", "journal"}, !.pool = {dc, qc}]}
MCReviews == {[Plain EXCEPT !.ops = {"build", "hints"}, !.pool = {hc, hx, qc}]}
MCRestores == {[Plain EXCEPT !.ops = {"build", "lookup", "restores"}, !.writes = 1,
                   !.policies = <<[All EXCEPT !.shows = {}], All>>]}

MCSymmetry == Permutations(Keys)
=============================================================================
