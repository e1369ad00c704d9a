----------------------------- MODULE SQLiteStorage -----------------------------
(***************************************************************************)
(* The file with everything that uses it: SQLiteRegistry, TraceStore, the  *)
(* migration command, in any number of processes.                          *)
(***************************************************************************)
EXTENDS SQLiteRegistry, TraceStore

vars == <<fileVars, call, receipt, trace>>

Init ==
    /\ FileInit
    /\ call = [c \in Conns |-> None]
    /\ receipt = [c \in Conns |-> None]
    /\ trace = [c \in Conns |-> None]

\* A call lasts as long as its transaction.
CallEnds == call' = [c \in Conns |-> IF writer' = c THEN call[c] ELSE None]

Next ==
    \/ FileNext /\ CallEnds /\ UNCHANGED <<receipt, trace>>
    \/ \E c \in Conns : (RegistryWrite(c) \/ RegistryReceipt(c)) /\ UNCHANGED trace
    \/ \E c \in Conns : TraceStep(c) /\ UNCHANGED <<call, receipt>>

Spec == Init /\ [][Next]_vars
=============================================================================
