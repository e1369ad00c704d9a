-------------------------- MODULE MCBindingLifecycle --------------------------
(* TLC instances of BindingLifecycle: a contract, its metadata-only twin, an *)
(* amendment of it and an unrelated contract.  Threads are interchangeable.  *)
EXTENDS BindingLifecycle, TLC

CONSTANTS k1, k2, c1, c1meta, c1amended, c2, f1, f1amended, f2, t1, t2

MCFpOf == [c \in Contracts |->
              CASE c \in {c1, c1meta} -> f1 [] c = c1amended -> f1amended [] c = c2 -> f2]
MCAmendable == {<<c1, c1amended>>, <<c1meta, c1amended>>}
MCSymmetry == Permutations(Threads)

\* Publications of one tool beside every other way to move it, a read failing.
Publications == [ops |-> {"publish", "bind", "unbind", "add", "remove", "foreign"},
                 keys |-> {k1}, contracts |-> {c1, c2}, starts |-> 2, faults |-> 1]
\* Batches over two tools.
Batches == [ops |-> {"batch", "bind", "unbind", "foreign"},
            keys |-> {k1, k2}, contracts |-> {c1}, starts |-> 2, faults |-> 1]
\* Amendments, with the contract's metadata-only twin around.
Amendments == [ops |-> {"bind", "amend", "foreign"},
               keys |-> {k1}, contracts |-> {c1, c1meta, c1amended}, starts |-> 3, faults |-> 0]

\* Publications and amendments that undo each other, a read failing.
Undoing == [ops |-> {"publish", "amend"}, keys |-> {k1}, contracts |-> {c1, c1amended},
            starts |-> 3, faults |-> 1]

\* A process that dies in the middle of publishing, and its successor.
Restarts == [ops |-> {"publish", "existing", "rehydrate", "restart"},
             keys |-> {k1}, contracts |-> {c1, c2}, starts |-> 3, faults |-> 0]
\* Two tools to bind again, while other writers are at work.
Rehydrations == [ops |-> {"unbind", "rehydrate", "foreign"},
                 keys |-> {k1, k2}, contracts |-> {c1}, starts |-> 2, faults |-> 0]

MCPass == {Publications, Batches, Amendments, Undoing, Restarts, Rehydrations}

\* The smallest scenarios in which a documented promise is not kept.
Faultless(ops, contracts, starts) ==
    {[ops |-> ops, keys |-> {k1}, contracts |-> contracts, starts |-> starts, faults |-> 0]}
MCStale == Faultless({"publish", "amend"}, {c1, c1amended, c2}, 4)
MCDrift == {[ops |-> {"publish", "amend"}, keys |-> {k1}, contracts |-> {c1, c1amended},
             starts |-> 3, faults |-> 1]}
           \cup Faultless({"publish", "bind", "amend"}, {c1, c1amended}, 3)
MCOrphan == Faultless({"publish", "bind", "remove"}, {c1}, 3)
MCRehydrate == Faultless({"publish", "existing", "foreign"}, {c1, c2}, 2)
=============================================================================
