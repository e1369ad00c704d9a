------------------------------ MODULE MCExecution ------------------------------
(* TLC instances of Execution: f1 and f2 are read-only contracts, w mutates; *)
(* one call or two, on one access path or a chain of two.                     *)
EXTENDS Execution, TLC

CONSTANTS a, b, f1, f2, w, x, y

Quiet == [chain |-> [c \in Calls |-> <<a>>], sync |-> {},
          contracts |-> [k \in Keys |-> IF k = a THEN {f1, w} ELSE {f1}],
          callbacks |-> {}, env |-> {}, attempts |-> 2, retryMutations |-> FALSE,
          maxCalls |-> 2, maxAttempts |-> 4, workers |-> 1]

OneCall == (x :> <<a>> @@ y :> <<>>)
Reads == [k \in Keys |-> IF k = a THEN {f1, f2} ELSE {f1}]

\* One call, every callback, everything it checked moves.
Callback == [Quiet EXCEPT !.chain = OneCall, !.callbacks = {"approval", "before", "after"},
                          !.env = {"contract", "bind", "policy", "authorization"},
                          !.maxAttempts = 3]
\* Two calls on a budget too small for both.
SharedBudget == [Quiet EXCEPT !.contracts = Reads, !.maxCalls = 1, !.maxAttempts = 3,
                              !.env = {"bind", "deadline", "expiry", "cancel"}]
\* Two calls, one worker.
OffloadedCalls == [Quiet EXCEPT !.sync = {a},
                                !.env = {"policy", "cancel", "shutdown", "contract", "bind"}]
\* Two calls on two access paths, the second offloaded.
Fallback == [Quiet EXCEPT !.chain = [c \in Calls |-> <<a, b>>], !.sync = {b},
                          !.contracts = [k \in Keys |-> {f1, w}],
                          !.env = {"contract", "bind", "expiry"},
                          !.maxCalls = 4, !.maxAttempts = 8]
Deadline == [Quiet EXCEPT !.sync = {a}, !.env = {"deadline"}]
OldContract == [Quiet EXCEPT !.contracts = Reads, !.env = {"contract", "bind", "expiry"},
                             !.attempts = 1]

MCPass == {Callback, SharedBudget, OffloadedCalls, Fallback}
MCDeadline == {Deadline}
MCOneDeadline == {[Deadline EXCEPT !.chain = OneCall]}
MCOldContract == {OldContract}
=============================================================================
