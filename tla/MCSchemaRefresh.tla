---------------------------- MODULE MCSchemaRefresh ----------------------------
(* TLC instances of SchemaRefresh: a document, a compatible successor of it, a  *)
(* breaking one that conflicts with the amendment of the first two, a breaking  *)
(* one that amendment hides, and a twin of the first from another source.       *)
EXTENDS SchemaRefresh, TLC

CONSTANTS k1, d1, d1x, d2, b, h, a1, a2, ah, f1, f2, fb, fh, g1, s, x, t1, t2

MCFpOf == [c \in Contracts |-> CASE c \in {d1, d1x} -> f1 [] c = d2 -> f2 [] c = b -> fb
                                 [] c = h -> fh [] c \in {a1, a2, ah} -> g1]
MCDocOf == [c \in Contracts |-> CASE c = a1 -> d1 [] c = a2 -> d2 [] c = ah -> h [] OTHER -> c]
MCAmended == [d \in Documents |-> CASE d = d2 -> a2 [] d = d1 -> a1 [] d = h -> ah [] OTHER -> Absent]
MCSourceOf == [c \in Contracts |-> IF c = d1x THEN x ELSE s]
MCVerdict == [p \in Contracts \X Contracts |->
                 IF FpOf[p[1]] = FpOf[p[2]] THEN "identical"
                 ELSE IF p = <<d1, d2>> THEN "compatible" ELSE "review"]
\* The classifier does not look at the server projection: d2 differs in that only.
MCVerdictProjection == [p \in Contracts \X Contracts |->
                           IF {FpOf[p[1]], FpOf[p[2]]} \in {{f1, f2}, {f1}, {f2}} THEN "identical"
                           ELSE MCVerdict[p]]
Ops(first, second) == (t1 :> first) @@ (t2 :> second)

Calm == [kind |-> "remote", ops |-> Ops({"check"}, {}), pool |-> {d1, d2, b, h, a1, a2, ah},
         conditional |-> TRUE, apply |-> TRUE,
         moves |-> 2, faults |-> 0, starts |-> 0, others |-> 0, watches |-> 0]
\* The watcher and its operator, on a provider with ETags.
Watched == {[Calm EXCEPT !.ops = Ops({"check", "accept", "reject"}, {}), !.faults = 1, !.starts = 2],
            [Calm EXCEPT !.apply = FALSE]}
\* Watches that come and go, a removal, another writer.
Moving == {[Calm EXCEPT !.ops = Ops({"check", "accept", "remove"}, {"watch", "unwatch"}),
                        !.pool = {d1, d1x, d2}, !.conditional = etags,
                        !.moves = 1, !.starts = 1, !.others = 1, !.watches = 1] : etags \in BOOLEAN}
\* Refreshes beside the watcher.
Beside == {[Calm EXCEPT !.ops = Ops({"check", "accept"}, {"refresh"}), !.pool = {d1, d2, b},
                        !.conditional = etags, !.starts = 2] : etags \in BOOLEAN}
Native == {[Calm EXCEPT !.kind = "native", !.pool = {d1, d2, b},
                        !.ops = Ops({"sweep", "remove"}, {"refreshNative", "acceptNative"}),
                        !.starts = 2, !.others = 1]}

MCPass == Watched \cup Moving \cup Beside \cup Native

\* The smallest worlds in which a documented promise is not kept: a late 304, a
\* foreign write under cached validators, a hidden breaking change, a contract
\* that moved under its review.
MCNotModified == {[Calm EXCEPT !.ops = Ops({"check"}, {"refresh"}), !.starts = 1]}
MCNotModifiedElsewhere == {[Calm EXCEPT !.ops = Ops({"check"}, {"watch"}), !.moves = 1,
                                        !.others = 1, !.watches = 1]}
MCHidden == {[Calm EXCEPT !.pool = {d1, h, a1, ah}, !.moves = 1]}
MCReviewed == {[Calm EXCEPT !.ops = Ops({"check", "accept"}, {"watch"}), !.pool = {d1, d2, b},
                            !.moves = 1, !.starts = 1, !.others = 1, !.watches = 1]}
MCClaims == MCNotModified \cup MCNotModifiedElsewhere \cup MCHidden \cup MCReviewed \cup Native
MCProjection == {[Calm EXCEPT !.pool = {d1, d2}, !.conditional = FALSE, !.moves = 1]}
=============================================================================
