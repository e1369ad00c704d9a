-------------------------- MODULE HealthMonitorProofs --------------------------
(***************************************************************************)
(* Proofs about HealthMonitor, for any number of tools, contracts, probe   *)
(* tasks, removals, registrations and transitions.  The inductive          *)
(* invariant relates what a probe remembers of the registration it was     *)
(* started for, and what the worker of a synchronous callback was          *)
(* submitted for, to what that registration has become meanwhile.          *)
(***************************************************************************)
EXTENDS HealthMonitor, FiniteSetTheorems, TLAPS

-----------------------------------------------------------------------------
(* The inductive invariant *)

TaskPlaces == {"idle", "queued", "starting", "await", "nested", "commit", "mark", "record"}
StartedPlaces == {"starting", "await", "nested", "commit", "mark", "record"}

\* Only a contract that keeps the endpoint read-only leaves a registration valid;
\* a worker was submitted for this or an earlier generation.
RecordOK(x) ==
    /\ rec[x].invalid \/ rec[x].fp \in ReadOnly
    /\ rec[x].worker # None =>
          /\ rec[x].worker.gen <= rec[x].gen
          /\ rec[x].worker.gen = rec[x].gen => rec[x].worker.fp = rec[x].fp

\* A look at the registration that the loop has not left since.
Held(t) == pc[t] \in {"mark", "record"} \/ (pc[t] = "starting" /\ ~StartsLater(t))

\* A started probe knows a generation its registration has or had, and the
\* contract of it, read-only when it was let through; without other threads
\* nothing moves between a look at the registration and what it is followed by.
TaskOK(t) ==
    /\ pc[t] \in TaskPlaces
    /\ pc[t] # "idle" => loc[t].id \in 1 .. issued
    /\ InFlight(t) =>
          /\ loc[t].from = loc[t].gen
          /\ loc[t].gen <= Rec(t).gen
          /\ loc[t].fp \in Fps
          /\ loc[t].gen = Rec(t).gen => loc[t].fp = Rec(t).fp
    /\ pc[t] = "starting" => loc[t].fp \in ReadOnly
    /\ (~OtherThreads /\ Held(t)) =>
          /\ loc[t].gen = Rec(t).gen
          /\ contract[Key(t)] = Rec(t).fp

\* The loop never is in the middle of a step of a probe and of an amendment.
LoopOK == OtherThreads \/ amending = None \/ \A t \in Tasks : ~Busy(t)

\* Every removal that drains is counted.
Draining == {r \in Removers : pc[r] = "draining"}
DrainOK == IsFiniteSet(Draining) /\ Cardinality(Draining) <= quiesce

HealthInv ==
    /\ HealthTypeOK
    /\ pc \in [Tasks \cup Removers -> TaskPlaces \cup {"draining"}]
    /\ \A x \in 1 .. issued : RecordOK(x)
    /\ \A t \in Tasks : TaskOK(t)
    /\ LoopOK /\ DrainOK
    /\ VerdictFitsContract

-----------------------------------------------------------------------------
(* Steps, by what they do to registrations and tasks *)

\* A registration keeps its key; its contract only moves with its generation.
Carries(x) ==
    /\ rec'[x].key = rec[x].key
    /\ rec[x].gen <= rec'[x].gen
    /\ rec'[x].gen = rec[x].gen => rec'[x].fp = rec[x].fp

\* The registrations there are move on, and new ones may come.
RecordsMove ==
    /\ rec' \in [Ids -> Records]
    /\ issued' \in 0 .. scenario.records /\ issued <= issued'
    /\ \A x \in 1 .. issued' : RecordOK(x)'
    /\ \A x \in 1 .. issued : Carries(x)

\* Nothing a task that has looked depends on moves.
Undisturbed == contract' = contract /\ \A x \in 1 .. issued : rec'[x].gen = rec[x].gen

\* Other threads excepted, no step of a probe is under way or it is left alone.
Minds == OtherThreads \/ Undisturbed \/ \A t \in Tasks : ~Busy(t)

LEMMA ScenarioIs ==
    HealthTypeOK => /\ scenario.records \in 0 .. MaxRecords
                    /\ scenario.records \in Nat /\ MaxRecords \in Nat
                    /\ scenario.sync \subseteq Keys
                    /\ scenario.removers \subseteq Removers
                    /\ scenario.fps \subseteq Fps
                    /\ 1 .. issued \subseteq Ids
                    /\ issued \in Nat
BY HealthAssumption DEF HealthTypeOK, Scenario, Ids

LEMMA BlankIsLocal == Blank \in Locals
<1>1. (CHOOSE k \in Keys : TRUE) \in Keys
  BY HealthAssumption
<1> QED
  BY <1>1, HealthAssumption DEF Blank, Locals

\* The registration of a task that is not idle, and what else is the same there.
LEMMA TaskIs ==
    ASSUME HealthInv, NEW t \in Tasks, pc[t] # "idle"
    PROVE  /\ loc[t] \in Locals /\ loc[t].id \in 1 .. issued /\ loc[t].id \in Ids
           /\ Rec(t) = rec[loc[t].id] /\ Rec(t) \in Records /\ Key(t) \in Keys
           /\ issued \in Nat
<1>1. HealthTypeOK /\ TaskOK(t)
  BY DEF HealthInv
<1>2. loc[t] \in Locals /\ loc[t].id \in 1 .. issued
  BY <1>1 DEF HealthTypeOK, TaskOK
<1>3. loc[t].id \in Ids /\ issued \in Nat
  BY <1>1, <1>2, ScenarioIs
<1> QED
  BY <1>1, <1>2, <1>3 DEF HealthTypeOK, Rec, Key, Records

\* Whether the loop is inside a step of a task is up to that task.
LEMMA BusyStays ==
    ASSUME HealthInv, UNCHANGED scenario, RecordsMove,
           NEW t \in Tasks, pc'[t] = pc[t], loc'[t] = loc[t]
    PROVE  (Busy(t)' <=> Busy(t)) /\ (Held(t)' <=> Held(t))
<1>1. CASE pc[t] # "starting"
  BY <1>1 DEF Busy, Held, Committing
<1>2. CASE pc[t] = "starting"
  <2>1. PICK x \in 1 .. issued : x = loc[t].id
    BY <1>2, TaskIs
  <2>2. rec'[x].key = rec[x].key
    BY DEF RecordsMove, Carries
  <2>3. StartsLater(t)' <=> StartsLater(t)
    BY <2>1, <2>2 DEF StartsLater, WaitInOwnTask, SyncKeys, Key, Rec
  <2> QED
    BY <2>3 DEF Busy, Held, Committing
<1> QED
  BY <1>1, <1>2

\* The loop stays outside the one or the other.
LEMMA LoopStays ==
    ASSUME HealthInv, UNCHANGED <<scenario, pc, loc>>, RecordsMove,
           UNCHANGED amending \/ Writer
    PROVE  LoopOK'
<1>1. \A t \in Tasks : Busy(t)' <=> Busy(t)
  BY BusyStays
<1>2. OtherThreads' <=> OtherThreads
  BY DEF OtherThreads
<1>3. CASE UNCHANGED amending
  BY <1>1, <1>2, <1>3 DEF HealthInv, LoopOK
<1>4. CASE Writer
  BY <1>1, <1>2, <1>4 DEF LoopOK, Writer, Free
<1> QED
  BY <1>3, <1>4

\* A task that stands still.
LEMMA Standing ==
    ASSUME HealthInv, UNCHANGED scenario, RecordsMove, Minds,
           NEW t \in Tasks, pc'[t] = pc[t], loc'[t] = loc[t]
    PROVE  TaskOK(t)'
<1>1. TaskOK(t) /\ HealthTypeOK
  BY DEF HealthInv
<1>2. loc[t] \in Locals
  BY <1>1 DEF HealthTypeOK
<1>3. issued \in Nat /\ issued' \in Nat /\ issued <= issued' /\ 1 .. issued \subseteq Ids
  BY <1>1, ScenarioIs DEF RecordsMove
<1>4. CASE pc[t] = "idle"
  BY <1>1, <1>4 DEF TaskOK, InFlight, Committing, Held
<1>5. CASE pc[t] # "idle"
  <2>1. PICK x \in 1 .. issued : x = loc[t].id
    BY <1>1, <1>5 DEF TaskOK
  <2>2. Carries(x) /\ x \in 1 .. issued' /\ x \in Ids
    BY <1>3 DEF RecordsMove
  <2>3. rec[x].gen \in Nat /\ rec'[x].gen \in Nat /\ loc[t].gen \in Nat
    BY <1>1, <1>2, <2>2 DEF HealthTypeOK, RecordsMove, Records, Locals
  <2>4. InFlight(t)' = InFlight(t)
    BY DEF InFlight, Committing
  <2>5. InFlight(t) => /\ loc[t].from = loc[t].gen
                       /\ loc[t].gen <= rec'[x].gen
                       /\ loc[t].fp \in Fps
                       /\ loc[t].gen = rec'[x].gen => loc[t].fp = rec'[x].fp
    BY <1>1, <2>1, <2>2, <2>3 DEF TaskOK, Carries, Rec
  <2>60. Held(t) => Busy(t)
    BY DEF Held, Busy, Committing
  <2>6. (~OtherThreads /\ Held(t)) =>
          /\ loc[t].gen = rec'[x].gen
          /\ contract'[rec'[x].key] = rec'[x].fp
    BY <1>1, <2>1, <2>2, <2>60 DEF TaskOK, Minds, Undisturbed, Carries, Rec, Key
  <2>7. OtherThreads' = OtherThreads
    BY DEF OtherThreads
  <2>8. pc[t] \in TaskPlaces /\ (pc[t] = "starting" => loc[t].fp \in ReadOnly)
    BY <1>1 DEF TaskOK
  <2>9. Held(t)' <=> Held(t)
    BY BusyStays
  <2> QED
    BY <2>1, <2>2, <2>4, <2>5, <2>6, <2>7, <2>8, <2>9 DEF TaskOK, Rec, Key
<1> QED
  BY <1>4, <1>5

\* A step of nobody: registrations, contracts, cooldowns.
SetupStep ==
    /\ UNCHANGED <<scenario, pc, loc, active, quiesce>>
    /\ contract' \in [Keys -> Fps \cup {Absent}]
    /\ probes' \in [Keys -> 0 .. issued']
    /\ cooldown' \in [Keys -> Cooldowns \cup {None}]
    /\ amending' \in [key : Keys, old : Fps, new : Fps] \cup {None}
    /\ RecordsMove /\ Minds
    /\ LoopOK' /\ VerdictFitsContract'

LEMMA SetupIsHealthy ==
    ASSUME HealthInv, SetupStep
    PROVE  HealthInv'
<1>1. HealthTypeOK'
  BY DEF HealthInv, SetupStep, RecordsMove, HealthTypeOK, InFlight, Committing
<1>2. \A t \in Tasks : TaskOK(t)'
  BY Standing DEF SetupStep
<1>3. DrainOK'
  BY DEF HealthInv, SetupStep, DrainOK, Draining
<1>4. \A x \in 1 .. issued' : RecordOK(x)'
  BY DEF SetupStep, RecordsMove
<1>5. pc' \in [Tasks \cup Removers -> TaskPlaces \cup {"draining"}]
  BY DEF HealthInv, SetupStep
<1> QED
  BY <1>1, <1>2, <1>3, <1>4, <1>5 DEF HealthInv, SetupStep

-----------------------------------------------------------------------------
(* Registration and contract changes *)

LEMMA QuietUnlessThreads ==
    ASSUME HealthInv, Writer
    PROVE  Minds
BY DEF Minds, Writer, Free

LEMMA RecordsStay ==
    ASSUME HealthInv, UNCHANGED <<scenario, rec, issued>>
    PROVE  RecordsMove
<1>1. HealthTypeOK /\ \A x \in 1 .. issued : RecordOK(x) /\ x \in Ids
  BY ScenarioIs DEF HealthInv
<1>2. issued \in Nat /\ issued <= issued /\ \A x \in 1 .. issued : rec[x].gen \in Nat
  BY <1>1, ScenarioIs DEF HealthTypeOK, Records
<1> QED
  BY <1>1, <1>2 DEF RecordsMove, RecordOK, Carries, HealthTypeOK

\* Verdicts stay what they are where registrations keep status and generation, or
\* lose their verdict, and cooldowns end.
LEMMA VerdictsStay ==
    ASSUME HealthInv, UNCHANGED scenario,
           OtherThreads \/ \A k \in Keys : cooldown'[k] \in {cooldown[k], None},
           OtherThreads \/ \A x \in 1 .. issued' :
              \/ rec'[x].status \notin {"healthy", "unhealthy"}
              \/ /\ x \in 1 .. issued /\ rec'[x].gen = rec[x].gen
                 /\ rec'[x].status = rec[x].status /\ rec'[x].by = rec[x].by
    PROVE  VerdictFitsContract'
BY DEF HealthInv, VerdictFitsContract, StatusOfOwnGeneration, OtherThreads

LEMMA RegisterIsHealthy ==
    ASSUME HealthInv, NEW k \in Keys, Register(k)
    PROVE  HealthInv'
<1>1. HealthTypeOK
  BY DEF HealthInv
<1>2. issued + 1 \in Ids /\ issued' = issued + 1 /\ issued \in Nat /\ issued' \in 0 .. scenario.records
      /\ 1 .. issued \subseteq Ids
  BY <1>1, ScenarioIs DEF Register, HealthTypeOK, Ids
<1> DEFINE q == [key |-> k, fp |-> contract[k], gen |-> 0, by |-> 0, invalid |-> FALSE,
                 status |-> "unknown", worker |-> None]
<1>3. q \in Records /\ q.fp \in ReadOnly /\ q.worker = None /\ q.status = "unknown"
  <2>1. contract[k] \in Fps /\ contract[k] \in ReadOnly
    BY HealthAssumption DEF Register
  <2>2. PICK no \in BOOLEAN : no = FALSE
    OBVIOUS
  <2> DEFINE p == [key |-> k, fp |-> contract[k], gen |-> 0, by |-> 0, invalid |-> no,
                   status |-> "unknown", worker |-> None]
  <2>3. p \in Records /\ p.fp \in ReadOnly /\ p.worker = None /\ p.status = "unknown"
    BY <2>1 DEF Records
  <2>4. p = q
    BY <2>2, Zenon
  <2> QED
    BY <2>3, <2>4
<1>4. rec' = [rec EXCEPT ![issued + 1] = q]
  BY DEF Register
<1> HIDE DEF q
<1>5. rec' \in [Ids -> Records] /\ rec'[issued + 1] = q /\ \A x \in 1 .. issued : rec'[x] = rec[x]
  BY <1>1, <1>2, <1>3, <1>4 DEF HealthTypeOK
<1>6. RecordsMove
  <2>1. \A x \in 1 .. issued' : RecordOK(x)'
    BY <1>2, <1>3, <1>5 DEF RecordOK, HealthInv
  <2>2. \A x \in 1 .. issued : rec[x].gen \in Nat
    BY <1>1, <1>2 DEF HealthTypeOK, Records
  <2> QED
    BY <1>2, <1>5, <2>1, <2>2 DEF RecordsMove, Carries
<1>7. Minds
  BY QuietUnlessThreads DEF Register
<1>8. VerdictFitsContract'
  <2>1. \A x \in 1 .. issued' : x = issued + 1 \/ x \in 1 .. issued
    BY <1>2
  <2> QED
    BY <1>3, <1>5, <2>1, VerdictsStay DEF Register
<1>9. LoopOK'
  BY <1>6, LoopStays DEF Register
<1>10. probes' \in [Keys -> 0 .. issued']
  BY <1>1, <1>2 DEF HealthTypeOK, Register
<1> QED
  BY <1>1, <1>6, <1>7, <1>8, <1>9, <1>10, SetupIsHealthy DEF SetupStep, Register, HealthTypeOK

LEMMA UnregisterIsHealthy ==
    ASSUME HealthInv, NEW k \in Keys, Unregister(k)
    PROVE  HealthInv'
<1>1. HealthTypeOK /\ issued \in Nat
  BY ScenarioIs DEF HealthInv
<1>2. RecordsMove /\ Minds
  BY RecordsStay, QuietUnlessThreads DEF Unregister
<1>3. VerdictFitsContract'
  BY VerdictsStay DEF Unregister
<1>4. LoopOK'
  BY <1>2, LoopStays DEF Unregister
<1>5. probes' \in [Keys -> 0 .. issued']
  BY <1>1 DEF HealthTypeOK, Unregister
<1> QED
  BY <1>1, <1>2, <1>3, <1>4, <1>5, SetupIsHealthy DEF SetupStep, Unregister, HealthTypeOK

LEMMA ForeignWriteIsHealthy ==
    ASSUME HealthInv, NEW k \in Keys, ForeignWrite(k)
    PROVE  HealthInv'
<1>1. HealthTypeOK
  BY DEF HealthInv
<1>2. RecordsMove /\ Minds
  BY RecordsStay, QuietUnlessThreads DEF ForeignWrite
<1>3. VerdictFitsContract'
  BY VerdictsStay DEF ForeignWrite
<1>4. LoopOK'
  BY <1>2, LoopStays DEF ForeignWrite
<1>5. contract' \in [Keys -> Fps \cup {Absent}]
  BY <1>1, ScenarioIs DEF HealthTypeOK, ForeignWrite
<1> QED
  BY <1>1, <1>2, <1>3, <1>4, <1>5, SetupIsHealthy DEF SetupStep, ForeignWrite, HealthTypeOK

LEMMA ExpireIsHealthy ==
    ASSUME HealthInv, NEW k \in Keys, Expire(k)
    PROVE  HealthInv'
<1>1. HealthTypeOK
  BY DEF HealthInv
<1>2. RecordsMove /\ Minds
  BY RecordsStay, QuietUnlessThreads DEF Expire
<1>3. \A j \in Keys : cooldown'[j] \in {cooldown[j], None}
  BY <1>1 DEF Expire, HealthTypeOK
<1>4. VerdictFitsContract'
  BY <1>3, VerdictsStay DEF Expire
<1>5. LoopOK'
  BY <1>2, LoopStays DEF Expire
<1>6. cooldown' \in [Keys -> Cooldowns \cup {None}]
  BY <1>1 DEF HealthTypeOK, Expire
<1> QED
  BY <1>1, <1>2, <1>4, <1>5, <1>6, SetupIsHealthy DEF SetupStep, Expire, HealthTypeOK

\* Carrying a registration over discards the verdicts on what it was before.
LEMMA CarriedIs ==
    ASSUME HealthInv, UNCHANGED <<scenario, issued>>,
           NEW k \in Keys, NEW old, NEW f \in Fps, rec' = Carried(k, old, f)
    PROVE  /\ RecordsMove
           /\ \A x \in 1 .. issued :
                 \/ rec'[x].status \notin {"healthy", "unhealthy"}
                 \/ /\ rec'[x].gen = rec[x].gen
                    /\ rec'[x].status = rec[x].status /\ rec'[x].by = rec[x].by
<1>1. CASE probes[k] # 0 /\ rec[probes[k]].fp = old
  <2>1. HealthTypeOK /\ issued \in Nat /\ 1 .. issued \subseteq Ids
    BY ScenarioIs DEF HealthInv
  <2>2. PICK r \in 1 .. issued : r = probes[k]
    BY <1>1, <2>1 DEF HealthTypeOK
  <2>3. PICK b \in BOOLEAN : b = (f \notin ReadOnly)
    OBVIOUS
  <2>4. PICK s \in {"unknown", "stale"} : s = (IF f \in ReadOnly THEN "unknown" ELSE "stale")
    OBVIOUS
  <2>5. r \in Ids /\ rec[r] \in Records
    BY <2>1, <2>2 DEF HealthTypeOK
  <2>51. b \in BOOLEAN
    BY <2>3, Zenon
  <2>52. s \in {"unknown", "stale", "healthy", "unhealthy"} /\ s \notin {"healthy", "unhealthy"}
    BY <2>4
  <2>53. b \/ f \in ReadOnly
    BY <2>3, Zenon
  <2>54. PICK p \in Records : p = rec[r]
    BY <2>5
  <2>55. PICK q : q = [p EXCEPT !.fp = f, !.gen = p.gen + 1, !.invalid = b, !.status = s]
    OBVIOUS
  <2>6. rec' = [rec EXCEPT ![r] = q]
    BY <1>1, <2>2, <2>3, <2>4, <2>54, <2>55, Zenon DEF Carried
  <2>70. p \in Records /\ b \in BOOLEAN /\ s \in {"unknown", "stale"}
    BY <2>51, <2>4, <2>54
  <2>71. /\ q \in Records /\ q.key = p.key /\ q.gen = p.gen + 1 /\ q.fp = f
         /\ q.invalid = b /\ q.status = s /\ q.worker = p.worker
    <3>1. q.gen = p.gen + 1 /\ q.fp = f /\ q.status = s /\ q.key = p.key /\ q.worker = p.worker
          /\ q.by = p.by
      BY <2>55, <2>70 DEF Records
    <3>2. q.invalid = b
      BY <2>55, <2>70, Zenon DEF Records
    <3>3. q = [key |-> p.key, fp |-> f, gen |-> p.gen + 1, by |-> p.by, invalid |-> b,
               status |-> s, worker |-> p.worker]
      BY <2>55, <2>70 DEF Records
    <3>4. p.gen \in Nat /\ p.by \in Nat /\ p.key \in Keys /\ p.worker \in Workers \cup {None}
      BY <2>70 DEF Records
    <3> QED
      BY <2>70, <3>1, <3>2, <3>3, <3>4 DEF Records
  <2>7. /\ q \in Records /\ q.key = rec[r].key /\ q.gen = rec[r].gen + 1 /\ q.fp = f
        /\ q.invalid = b /\ q.status = s /\ q.worker = rec[r].worker
    BY <2>54, <2>71, Zenon
  <2>8. rec' \in [Ids -> Records] /\ rec'[r] = q /\ \A x \in Ids \ {r} : rec'[x] = rec[x]
    BY <2>1, <2>5, <2>6, <2>7 DEF HealthTypeOK
  <2>9. \A x \in 1 .. issued : rec[x].gen \in Nat /\ x \in Ids
    BY <2>1 DEF HealthTypeOK, Records
  <2>10. \A x \in 1 .. issued : Carries(x)
    BY <2>7, <2>8, <2>9 DEF Carries
  <2>11. \A x \in 1 .. issued : RecordOK(x)'
    <3>1. rec[r].worker # None => rec[r].worker.gen \in Nat /\ rec[r].worker.gen <= rec[r].gen
      BY <2>5 DEF HealthInv, RecordOK, Records, Workers
    <3>2. RecordOK(r)'
      BY <2>2, <2>5, <2>53, <2>7, <2>8, <2>9, <3>1 DEF RecordOK
    <3>3. \A x \in (1 .. issued) \ {r} : RecordOK(x)'
      BY <2>8, <2>9 DEF RecordOK, HealthInv
    <3> QED
      BY <3>2, <3>3
  <2> QED
    BY <2>1, <2>52, <2>7, <2>8, <2>9, <2>10, <2>11 DEF RecordsMove, HealthTypeOK
<1>2. CASE ~(probes[k] # 0 /\ rec[probes[k]].fp = old)
  BY <1>2, RecordsStay DEF Carried
<1> QED
  BY <1>1, <1>2

LEMMA TransitionIsHealthy ==
    ASSUME HealthInv, NEW k \in Keys, NEW f \in scenario.fps, Transition(k, f)
    PROVE  HealthInv'
<1>1. HealthTypeOK /\ f \in Fps
  BY ScenarioIs DEF HealthInv
<1>2. /\ RecordsMove
      /\ \A x \in 1 .. issued :
            \/ rec'[x].status \notin {"healthy", "unhealthy"}
            \/ /\ rec'[x].gen = rec[x].gen
               /\ rec'[x].status = rec[x].status /\ rec'[x].by = rec[x].by
  BY <1>1, CarriedIs DEF Transition
<1>3. Minds
  BY QuietUnlessThreads DEF Transition, Writer
<1>4. VerdictFitsContract'
  BY <1>2, VerdictsStay DEF Transition
<1>5. LoopOK'
  BY <1>2, LoopStays DEF Transition
<1>6. contract' \in [Keys -> Fps \cup {Absent}]
  BY <1>1 DEF HealthTypeOK, Transition
<1> QED
  BY <1>1, <1>2, <1>3, <1>4, <1>5, <1>6, SetupIsHealthy DEF SetupStep, Transition, HealthTypeOK

LEMMA AmendPublishIsHealthy ==
    ASSUME HealthInv, NEW k \in Keys, NEW f \in scenario.fps, AmendPublish(k, f)
    PROVE  HealthInv'
<1>1. HealthTypeOK /\ f \in Fps
  BY ScenarioIs DEF HealthInv
<1>2. RecordsMove /\ Minds
  BY RecordsStay, QuietUnlessThreads DEF AmendPublish
<1>3. VerdictFitsContract'
  BY VerdictsStay DEF AmendPublish
<1>4. LoopOK'
  BY <1>2, LoopStays DEF AmendPublish
<1>5. contract[k] \in Fps
  BY <1>1 DEF HealthTypeOK, AmendPublish
<1>6. contract' \in [Keys -> Fps \cup {Absent}]
  BY <1>1 DEF HealthTypeOK, AmendPublish
<1>7. amending' \in [key : Keys, old : Fps, new : Fps]
  BY <1>1, <1>5 DEF AmendPublish
<1> QED
  BY <1>1, <1>2, <1>3, <1>4, <1>6, <1>7, SetupIsHealthy DEF SetupStep, AmendPublish, HealthTypeOK

LEMMA AmendTransitionIsHealthy ==
    ASSUME HealthInv, AmendTransition
    PROVE  HealthInv'
<1>1. HealthTypeOK
  BY DEF HealthInv
<1>2. amending.key \in Keys /\ amending.new \in Fps
  BY <1>1 DEF HealthTypeOK, AmendTransition
<1>3. /\ RecordsMove
      /\ \A x \in 1 .. issued :
            \/ rec'[x].status \notin {"healthy", "unhealthy"}
            \/ /\ rec'[x].gen = rec[x].gen
               /\ rec'[x].status = rec[x].status /\ rec'[x].by = rec[x].by
  <2>1. CASE rec' = Carried(amending.key, amending.old, amending.new)
    BY <1>2, <2>1, CarriedIs DEF AmendTransition
  <2>2. CASE rec' = rec
    BY <2>2, RecordsStay DEF AmendTransition
  <2> QED
    BY <2>1, <2>2 DEF AmendTransition
<1>4. Minds
  BY DEF HealthInv, LoopOK, Minds, AmendTransition
<1>5. VerdictFitsContract'
  BY <1>3, VerdictsStay DEF AmendTransition
<1>6. LoopOK'
  BY DEF LoopOK, AmendTransition
<1> QED
  BY <1>1, <1>3, <1>4, <1>5, <1>6, SetupIsHealthy DEF SetupStep, AmendTransition, HealthTypeOK

LEMMA AmendDriftIsHealthy ==
    ASSUME HealthInv, AmendDrift
    PROVE  HealthInv'
<1>1. HealthTypeOK
  BY DEF HealthInv
<1>2. RecordsMove /\ Minds
  BY RecordsStay DEF AmendDrift, Minds, Undisturbed
<1>3. VerdictFitsContract'
  BY VerdictsStay DEF AmendDrift
<1>4. LoopOK'
  BY DEF LoopOK, AmendDrift
<1> QED
  BY <1>1, <1>2, <1>3, <1>4, SetupIsHealthy DEF SetupStep, AmendDrift, HealthTypeOK

LEMMA WorkerEndsIsHealthy ==
    ASSUME HealthInv, NEW r \in Ids, WorkerEnds(r)
    PROVE  HealthInv'
<1>1. HealthTypeOK /\ issued \in Nat /\ 1 .. issued \subseteq Ids
  BY ScenarioIs DEF HealthInv
<1>2. PICK yes \in BOOLEAN : yes = TRUE
  OBVIOUS
<1>3. rec[r] \in Records /\ rec[r].worker \in Workers
  BY <1>1 DEF HealthTypeOK, WorkerEnds, Records
<1> DEFINE w == [rec[r].worker EXCEPT !.done = yes]
<1> DEFINE q == [rec[r] EXCEPT !.worker = w]
<1>4. rec' = [rec EXCEPT ![r].worker.done = yes]
  BY <1>2, Zenon DEF WorkerEnds
<1>5. rec' = [rec EXCEPT ![r] = q]
  BY <1>4
<1>6. w \in Workers /\ w.gen = rec[r].worker.gen /\ w.fp = rec[r].worker.fp
  BY <1>3 DEF Workers
<1> HIDE DEF w
<1>7. /\ q \in Records /\ q.key = rec[r].key /\ q.fp = rec[r].fp /\ q.gen = rec[r].gen
      /\ q.by = rec[r].by /\ q.invalid = rec[r].invalid /\ q.status = rec[r].status /\ q.worker = w
  BY <1>3, <1>6 DEF Records
<1> HIDE DEF q
<1>8. rec' \in [Ids -> Records] /\ rec'[r] = q /\ \A x \in Ids \ {r} : rec'[x] = rec[x]
  BY <1>1, <1>5, <1>7 DEF HealthTypeOK
<1>9. \A x \in 1 .. issued : x \in Ids /\ rec[x].gen \in Nat
  BY <1>1 DEF HealthTypeOK, Records
<1>10. RecordsMove
  <2>1. rec[r].worker # None
    BY DEF WorkerEnds
  <2>2. \A x \in 1 .. issued : RecordOK(x)'
    BY <1>6, <1>7, <1>8, <1>9, <2>1 DEF RecordOK, HealthInv
  <2>3. \A x \in 1 .. issued : Carries(x)
    BY <1>7, <1>8, <1>9 DEF Carries
  <2> QED
    BY <1>1, <1>8, <2>2, <2>3 DEF RecordsMove, WorkerEnds, HealthTypeOK
<1>11. Minds
  BY QuietUnlessThreads DEF WorkerEnds, Writer
<1>12. VerdictFitsContract'
  BY <1>7, <1>8, <1>9, VerdictsStay DEF WorkerEnds
<1>13. LoopOK'
  BY <1>10, LoopStays DEF WorkerEnds
<1> QED
  BY <1>1, <1>10, <1>11, <1>12, <1>13, SetupIsHealthy DEF SetupStep, WorkerEnds, HealthTypeOK

-----------------------------------------------------------------------------
(* The steps of a probe *)

\* Task t goes on at place p with locals l.
ProbeStep(t, p, l) ==
    /\ pc' = [pc EXCEPT ![t] = p]
    /\ loc' = [loc EXCEPT ![t] = l]
    /\ active' = IF p \in StartedPlaces THEN active \cup {t} ELSE active \ {t}
    /\ UNCHANGED <<scenario, contract, probes, issued, amending, quiesce>>
    /\ cooldown' \in [Keys -> Cooldowns \cup {None}]
    /\ RecordsMove /\ Undisturbed
    /\ TaskOK(t)' /\ VerdictFitsContract'
    /\ p \in {"starting", "commit", "mark", "record"} => Free \/ Busy(t)

LEMMA ProbeIsHealthy ==
    ASSUME HealthInv, NEW t \in Tasks, NEW p \in TaskPlaces, NEW l \in Locals, ProbeStep(t, p, l)
    PROVE  HealthInv'
<1>1. HealthTypeOK /\ pc \in [Tasks \cup Removers -> TaskPlaces \cup {"draining"}]
  BY DEF HealthInv
<1>2. pc' \in [Tasks \cup Removers -> TaskPlaces \cup {"draining"}]
      /\ loc' \in [Tasks \cup Removers -> Locals]
      /\ pc'[t] = p /\ loc'[t] = l
      /\ \A u \in (Tasks \cup Removers) \ {t} : pc'[u] = pc[u] /\ loc'[u] = loc[u]
  BY <1>1 DEF HealthTypeOK, ProbeStep
<1>3. active' = {u \in Tasks : InFlight(u)'}
  <2>1. \A u \in Tasks : InFlight(u)' <=> pc'[u] \in StartedPlaces
    BY DEF InFlight, Committing, StartedPlaces
  <2>2. \A u \in Tasks : u \in active <=> pc[u] \in StartedPlaces
    BY <1>1 DEF HealthTypeOK, InFlight, Committing, StartedPlaces
  <2>3. active \subseteq Tasks
    BY <1>1 DEF HealthTypeOK
  <2>4. active' \subseteq Tasks /\ \A u \in Tasks : u \in active' <=> pc'[u] \in StartedPlaces
    BY <1>2, <2>2, <2>3 DEF ProbeStep
  <2> QED
    BY <2>1, <2>4
<1>4. HealthTypeOK'
  BY <1>1, <1>2, <1>3 DEF HealthTypeOK, ProbeStep, RecordsMove
<1>5. \A u \in Tasks : TaskOK(u)'
  <2>1. Minds /\ UNCHANGED scenario /\ RecordsMove /\ TaskOK(t)'
    BY DEF Minds, ProbeStep
  <2>2. \A u \in Tasks \ {t} : pc'[u] = pc[u] /\ loc'[u] = loc[u]
    BY <1>2
  <2>3. \A u \in Tasks \ {t} : TaskOK(u)'
    BY <2>1, <2>2, Standing
  <2> QED
    BY <2>1, <2>3
<1>6. DrainOK'
  <2>1. Draining' = Draining
    BY <1>1, <1>2, HealthAssumption DEF Draining, TaskPlaces
  <2> QED
    BY <2>1 DEF HealthInv, DrainOK, ProbeStep
<1>7. LoopOK'
  <2>1. SUFFICES ASSUME ~OtherThreads', amending' # None, NEW u \in Tasks, Busy(u)'
                 PROVE  FALSE
    BY DEF LoopOK
  <2>2. ~OtherThreads /\ amending # None
    BY <2>1 DEF ProbeStep, OtherThreads
  <2>3. \A v \in Tasks : ~Busy(v)
    BY <2>2 DEF HealthInv, LoopOK
  <2>31. \A v \in Tasks \ {t} : Busy(v)' <=> Busy(v)
    BY <1>2, BusyStays DEF ProbeStep
  <2>4. u = t /\ p \in {"starting", "commit", "mark", "record"}
    BY <1>2, <2>1, <2>3, <2>31 DEF Busy, Committing
  <2>5. Free
    BY <2>3, <2>4 DEF ProbeStep
  <2> QED
    BY <2>2, <2>5 DEF Free
<1> QED
  BY <1>2, <1>4, <1>5, <1>6, <1>7 DEF HealthInv, ProbeStep, RecordsMove

\* A task that is done.
LEMMA FinishedIsOK ==
    ASSUME NEW t \in Tasks, pc'[t] = "idle"
    PROVE  TaskOK(t)'
BY DEF TaskOK, TaskPlaces, InFlight, Committing, Held

LEMMA FinishIs ==
    ASSUME HealthInv, NEW t \in Tasks, Finish(t),
           UNCHANGED <<scenario, contract, probes, issued, amending, quiesce>>,
           cooldown' \in [Keys -> Cooldowns \cup {None}],
           RecordsMove, Undisturbed, VerdictFitsContract'
    PROVE  HealthInv'
<1>1. pc \in [Tasks \cup Removers -> TaskPlaces \cup {"draining"}]
  BY DEF HealthInv
<1>2. pc'[t] = "idle"
  BY <1>1 DEF Finish
<1>3. TaskOK(t)'
  BY <1>2, FinishedIsOK
<1>4. ProbeStep(t, "idle", Blank)
  BY <1>3 DEF ProbeStep, Finish, StartedPlaces
<1> QED
  BY <1>4, BlankIsLocal, ProbeIsHealthy DEF TaskPlaces

\* A status moves, and nothing else of a registration.
LEMMA SetStatusIs ==
    ASSUME HealthInv, UNCHANGED <<scenario, contract, issued>>,
           NEW r \in 1 .. issued, NEW s \in {"unknown", "healthy", "unhealthy", "stale"},
           NEW by \in Nat, SetStatus(r, s, by)
    PROVE  /\ RecordsMove /\ Undisturbed
           /\ rec'[r].status = s /\ rec'[r].by = by /\ rec'[r].gen = rec[r].gen
           /\ \A x \in (1 .. issued) \ {r} : rec'[x] = rec[x]
           /\ \A x \in 1 .. issued : /\ rec'[x].key = rec[x].key /\ rec'[x].fp = rec[x].fp
                                     /\ rec'[x].gen = rec[x].gen /\ rec'[x].worker = rec[x].worker
<1>1. HealthTypeOK /\ issued \in Nat /\ 1 .. issued \subseteq Ids
  BY ScenarioIs DEF HealthInv
<1>2. rec[r] \in Records /\ r \in Ids
  BY <1>1 DEF HealthTypeOK
<1>3. PICK p \in Records : p = rec[r]
  BY <1>2
<1>4. PICK q : q = [p EXCEPT !.status = s, !.by = by]
  OBVIOUS
<1>5. rec' = [rec EXCEPT ![r] = q]
  BY <1>3, <1>4 DEF SetStatus
<1>6. /\ q \in Records /\ q.key = rec[r].key /\ q.fp = rec[r].fp /\ q.gen = rec[r].gen
      /\ q.invalid = rec[r].invalid /\ q.worker = rec[r].worker /\ q.status = s /\ q.by = by
  BY <1>3, <1>4 DEF Records
<1>7. rec' \in [Ids -> Records] /\ rec'[r] = q /\ \A x \in Ids \ {r} : rec'[x] = rec[x]
  BY <1>1, <1>2, <1>5, <1>6 DEF HealthTypeOK
<1>8. \A x \in 1 .. issued : rec[x].gen \in Nat /\ x \in Ids
  BY <1>1 DEF HealthTypeOK, Records
<1>9. \A x \in 1 .. issued : RecordOK(x)'
  BY <1>6, <1>7, <1>8 DEF RecordOK, HealthInv
<1>10. RecordsMove
  BY <1>1, <1>6, <1>7, <1>8, <1>9 DEF RecordsMove, Carries, HealthTypeOK
<1>11. Undisturbed
  BY <1>6, <1>7, <1>8 DEF Undisturbed
<1> QED
  BY <1>6, <1>7, <1>8, <1>10, <1>11

\* So does the worker of a registration.
LEMMA SetWorkerIs ==
    ASSUME HealthInv, UNCHANGED <<scenario, contract, issued>>,
           NEW r \in 1 .. issued, NEW w \in Workers \cup {None},
           w # None => /\ w.gen <= rec[r].gen
                       /\ w.gen = rec[r].gen => w.fp = rec[r].fp,
           rec' = [rec EXCEPT ![r].worker = w]
    PROVE  /\ RecordsMove /\ Undisturbed
           /\ \A x \in 1 .. issued : /\ rec'[x].key = rec[x].key /\ rec'[x].fp = rec[x].fp
                                     /\ rec'[x].gen = rec[x].gen /\ rec'[x].status = rec[x].status
                                     /\ rec'[x].by = rec[x].by
<1>1. HealthTypeOK /\ issued \in Nat /\ 1 .. issued \subseteq Ids
  BY ScenarioIs DEF HealthInv
<1>2. rec[r] \in Records /\ r \in Ids
  BY <1>1 DEF HealthTypeOK
<1>3. PICK p \in Records : p = rec[r]
  BY <1>2
<1>4. PICK q : q = [p EXCEPT !.worker = w]
  OBVIOUS
<1>5. rec' = [rec EXCEPT ![r] = q]
  BY <1>3, <1>4
<1>6. /\ q \in Records /\ q.key = rec[r].key /\ q.fp = rec[r].fp /\ q.gen = rec[r].gen
      /\ q.by = rec[r].by /\ q.invalid = rec[r].invalid /\ q.status = rec[r].status /\ q.worker = w
  BY <1>3, <1>4 DEF Records
<1>7. rec' \in [Ids -> Records] /\ rec'[r] = q /\ \A x \in Ids \ {r} : rec'[x] = rec[x]
  BY <1>1, <1>2, <1>5, <1>6 DEF HealthTypeOK
<1>8. \A x \in 1 .. issued : rec[x].gen \in Nat /\ x \in Ids
  BY <1>1 DEF HealthTypeOK, Records
<1>9. \A x \in 1 .. issued : RecordOK(x)'
  BY <1>6, <1>7, <1>8 DEF RecordOK, HealthInv
<1>10. RecordsMove
  BY <1>1, <1>6, <1>7, <1>8, <1>9 DEF RecordsMove, Carries, HealthTypeOK
<1>11. Undisturbed
  BY <1>6, <1>7, <1>8 DEF Undisturbed
<1> QED
  BY <1>6, <1>7, <1>8, <1>10, <1>11

LEMMA RecordsRest ==
    ASSUME HealthInv, UNCHANGED <<scenario, contract, issued, rec>>
    PROVE  RecordsMove /\ Undisturbed
BY RecordsStay DEF Undisturbed

LEMMA ScheduleIsHealthy ==
    ASSUME HealthInv, NEW t \in Tasks, Schedule(t)
    PROVE  HealthInv'
<1>1. HealthTypeOK /\ pc \in [Tasks \cup Removers -> TaskPlaces \cup {"draining"}]
  BY DEF HealthInv
<1>2. issued \in Nat /\ MaxRecords \in Nat /\ issued <= MaxRecords
      /\ UNCHANGED <<scenario, contract, issued, rec>>
  BY <1>1, ScenarioIs DEF HealthTypeOK, Schedule
<1>3. PICK k \in Keys : probes[k] # 0 /\ loc' = [loc EXCEPT ![t].id = probes[k]]
  BY DEF Schedule
<1>4. PICK r \in 1 .. issued : r = probes[k]
  BY <1>1, <1>2, <1>3 DEF HealthTypeOK
<1>5. loc[t] \in Locals /\ r \in 0 .. MaxRecords
  BY <1>1, <1>2, <1>4 DEF HealthTypeOK
<1>6. PICK l : l = [loc[t] EXCEPT !.id = r]
  OBVIOUS
<1>7. loc' = [loc EXCEPT ![t] = l]
  BY <1>3, <1>4, <1>6
<1>8. l \in Locals /\ l.id = r
  BY <1>5, <1>6 DEF Locals
<1>9. pc'[t] = "queued" /\ loc'[t] = l
  BY <1>1, <1>7 DEF HealthTypeOK, Schedule
<1>10. TaskOK(t)'
  BY <1>2, <1>8, <1>9 DEF TaskOK, TaskPlaces, InFlight, Committing, Held
<1>11. VerdictFitsContract'
  BY VerdictsStay DEF Schedule
<1>12. t \notin active
  BY <1>1 DEF HealthTypeOK, Schedule, InFlight, Committing
<1>13. RecordsMove /\ Undisturbed
  BY <1>2, RecordsRest
<1>14. ProbeStep(t, "queued", l)
  BY <1>1, <1>7, <1>10, <1>11, <1>12, <1>13 DEF ProbeStep, Schedule, StartedPlaces, HealthTypeOK
<1> QED
  BY <1>8, <1>14, ProbeIsHealthy DEF TaskPlaces

LEMMA StatusIsStale ==
    ASSUME HealthInv, UNCHANGED <<scenario, contract, issued, cooldown>>,
           NEW r \in 1 .. issued, SetStatus(r, "stale", rec[r].by)
    PROVE  RecordsMove /\ Undisturbed /\ VerdictFitsContract'
<1>1. rec[r].by \in Nat
  BY ScenarioIs DEF HealthInv, HealthTypeOK, Records
<1>2. PICK by \in Nat : by = rec[r].by
  BY <1>1
<1>3. SetStatus(r, "stale", by)
  BY <1>2
<1>4. /\ RecordsMove /\ Undisturbed
      /\ rec'[r].status = "stale"
      /\ \A x \in (1 .. issued) \ {r} : rec'[x] = rec[x]
  BY <1>3, SetStatusIs
<1> QED
  BY <1>4, VerdictsStay

LEMMA PrepareStaleIsHealthy ==
    ASSUME HealthInv, NEW t \in Tasks, PrepareStale(t)
    PROVE  HealthInv'
<1>1. loc[t].id \in 1 .. issued /\ Rec(t) = rec[loc[t].id]
  BY TaskIs DEF PrepareStale
<1>2. UNCHANGED <<scenario, contract, issued, cooldown>>
  BY DEF PrepareStale
<1>3. RecordsMove /\ Undisturbed /\ VerdictFitsContract'
  <2>1. CASE UNCHANGED rec
    BY <1>2, <2>1, RecordsRest, VerdictsStay
  <2>2. CASE SetStatus(loc[t].id, "stale", Rec(t).by)
    BY <1>1, <1>2, <2>2, StatusIsStale
  <2> QED
    BY <2>1, <2>2 DEF PrepareStale
<1> QED
  BY <1>3, FinishIs DEF PrepareStale, HealthInv, HealthTypeOK

-----------------------------------------------------------------------------
(* Starting a callback, and what its answer becomes *)

\* Registrations keep contract, generation and verdict.
Calm ==
    /\ RecordsMove /\ Undisturbed
    /\ \A x \in 1 .. issued : /\ rec'[x].key = rec[x].key /\ rec'[x].fp = rec[x].fp
                              /\ rec'[x].gen = rec[x].gen /\ rec'[x].status = rec[x].status
                              /\ rec'[x].by = rec[x].by

LEMMA CalmIs ==
    ASSUME HealthInv, UNCHANGED <<scenario, contract, issued, rec>>
    PROVE  Calm
BY RecordsRest DEF Calm

LEMMA CalmVerdicts ==
    ASSUME HealthInv, UNCHANGED <<scenario, issued, cooldown>>, Calm
    PROVE  VerdictFitsContract'
BY VerdictsStay DEF Calm

LEMMA PrepareIsHealthy ==
    ASSUME HealthInv, NEW t \in Tasks, Prepare(t)
    PROVE  HealthInv'
<1>1. HealthTypeOK /\ pc \in [Tasks \cup Removers -> TaskPlaces \cup {"draining"}]
  BY DEF HealthInv
<1>2. /\ pc[t] = "queued" /\ Free /\ Current(loc[t].id) /\ Begin(t)
      /\ UNCHANGED <<contract, probes, rec, scenario, issued, cooldown, amending, quiesce>>
  BY DEF Prepare
<1>3. PICK r \in 1 .. issued : r = loc[t].id
  BY <1>2, TaskIs
<1>4. loc[t] \in Locals /\ Rec(t) = rec[r] /\ rec[r] \in Records
  BY <1>2, <1>3, TaskIs
<1>5. PICK p \in Records : p = rec[r]
  BY <1>4
<1>6. p.gen \in Nat /\ p.fp \in Fps
  BY <1>5 DEF Records
<1>7. PICK l : l = [loc[t] EXCEPT !.gen = p.gen, !.from = p.gen, !.fp = p.fp]
  OBVIOUS
<1>8. loc' = [loc EXCEPT ![t] = l]
  BY <1>2, <1>4, <1>5, <1>7 DEF Begin
<1>9. l \in Locals /\ l.id = r /\ l.gen = p.gen /\ l.from = p.gen /\ l.fp = p.fp
  BY <1>3, <1>4, <1>6, <1>7 DEF Locals
<1>10. pc'[t] = "starting" /\ loc'[t] = l
  BY <1>1, <1>2, <1>8 DEF Begin, HealthTypeOK
<1>11. p.fp \in ReadOnly /\ contract[p.key] = p.fp
  BY <1>2, <1>3, <1>5 DEF Current, HealthInv, RecordOK
<1>12. TaskOK(t)'
  BY <1>2, <1>5, <1>6, <1>9, <1>10, <1>11 DEF TaskOK, TaskPlaces, Rec, Key
<1>13. Calm
  BY <1>2, CalmIs
<1>14. VerdictFitsContract'
  BY <1>2, <1>13, CalmVerdicts
<1>15. ProbeStep(t, "starting", l)
  BY <1>1, <1>2, <1>8, <1>12, <1>13, <1>14 DEF ProbeStep, Begin, Calm, StartedPlaces, HealthTypeOK
<1> QED
  BY <1>9, <1>15, ProbeIsHealthy DEF TaskPlaces

\* A probe under way goes on to the callback or to the commit, for the same generation.
LEMMA GoesOn ==
    ASSUME HealthInv, NEW t \in Tasks, pc[t] \in {"starting", "await", "nested"},
           NEW p \in {"await", "commit"}, p = "commit" => Free \/ Busy(t),
           NEW l \in Locals, l.id = loc[t].id, l.gen = loc[t].gen, l.from = l.gen, l.fp \in Fps,
           l.gen = Rec(t).gen => l.fp = Rec(t).fp,
           pc' = [pc EXCEPT ![t] = p], loc' = [loc EXCEPT ![t] = l], Calm,
           UNCHANGED <<contract, probes, scenario, issued, cooldown, amending, quiesce, active>>
    PROVE  HealthInv'
<1>1. HealthTypeOK /\ TaskOK(t) /\ pc \in [Tasks \cup Removers -> TaskPlaces \cup {"draining"}]
  BY DEF HealthInv
<1>2. loc[t] \in Locals /\ loc[t].id \in 1 .. issued /\ InFlight(t)
  BY TaskIs DEF InFlight
<1>3. pc'[t] = p /\ loc'[t] = l
  BY <1>1 DEF HealthTypeOK
<1>4. TaskOK(t)'
  <2>1. PICK r \in 1 .. issued : r = loc[t].id
    BY <1>2
  <2>2. rec'[r].gen = rec[r].gen /\ rec'[r].fp = rec[r].fp
    BY <2>1 DEF Calm
  <2>3. loc[t].gen <= rec[r].gen /\ (l.gen = rec[r].gen => l.fp = rec[r].fp)
    BY <1>1, <1>2, <2>1 DEF TaskOK, Rec
  <2>4. p \in TaskPlaces /\ p \notin {"idle", "starting", "mark", "record"}
    BY DEF TaskPlaces
  <2> QED
    BY <1>3, <2>1, <2>2, <2>3, <2>4 DEF TaskOK, Rec, Held
<1>5. VerdictFitsContract'
  BY CalmVerdicts
<1>6. t \in active
  BY <1>1, <1>2 DEF HealthTypeOK
<1>7. ProbeStep(t, p, l)
  BY <1>1, <1>4, <1>5, <1>6 DEF ProbeStep, Calm, StartedPlaces, HealthTypeOK
<1> QED
  BY <1>7, ProbeIsHealthy DEF TaskPlaces

LEMMA StartIsHealthy ==
    ASSUME HealthInv, NEW t \in Tasks, Start(t)
    PROVE  HealthInv'
<1>1. HealthTypeOK /\ TaskOK(t)
  BY DEF HealthInv
<1>2. pc[t] = "starting" /\ (Free \/ Busy(t))
      /\ UNCHANGED <<contract, probes, scenario, issued, cooldown, amending, quiesce>>
  BY DEF Start
<1>3. PICK r \in 1 .. issued : r = loc[t].id
  BY <1>2, TaskIs
<1>4. Rec(t) = rec[r] /\ rec[r] \in Records /\ loc[t] \in Locals /\ InFlight(t)
  BY <1>2, <1>3, TaskIs DEF InFlight
<1>5. /\ loc[t].from = loc[t].gen /\ loc[t].gen <= rec[r].gen /\ loc[t].fp \in Fps
      /\ loc[t].gen = rec[r].gen => loc[t].fp = rec[r].fp
  BY <1>1, <1>4 DEF TaskOK
<1>6. loc = [loc EXCEPT ![t] = loc[t]]
  BY <1>1 DEF HealthTypeOK
<1>7. CASE StartAsync(t)
  <2>1. Calm
    BY <1>2, <1>7, CalmIs DEF StartAsync
  <2> QED
    BY <1>2, <1>4, <1>5, <1>6, <1>7, <2>1, GoesOn DEF StartAsync, Goto
<1>8. CASE Submit(t)
  <2>1. PICK no \in BOOLEAN : no = FALSE
    OBVIOUS
  <2>2. PICK w : w = [by |-> t, gen |-> loc[t].gen, fp |-> loc[t].fp, done |-> no]
    OBVIOUS
  <2>3. w \in Workers /\ w.gen = loc[t].gen /\ w.fp = loc[t].fp
    BY <1>4, <1>5, <2>2 DEF Workers, Locals
  <2>4. w = [by |-> t, gen |-> loc[t].gen, fp |-> loc[t].fp, done |-> FALSE]
    BY <2>1, <2>2, Zenon
  <2>5. \/ /\ rec' = [rec EXCEPT ![r].worker = w] /\ Goto(t, "await") /\ UNCHANGED loc
        \/ /\ rec' = [rec EXCEPT ![r].worker = None] /\ Goto(t, "commit")
           /\ loc' = [loc EXCEPT ![t].verdict = "bad"]
    BY <1>3, <1>8, <2>4, Zenon DEF Submit
  <2>6. UNCHANGED active
    BY <1>8 DEF Submit
  <2>7. Calm
    <3>1. PICK u : u \in Workers \cup {None}
                   /\ (u # None => u.gen <= rec[r].gen /\ (u.gen = rec[r].gen => u.fp = rec[r].fp))
                   /\ rec' = [rec EXCEPT ![r].worker = u]
      BY <1>5, <2>3, <2>5
    <3> QED
      BY <1>2, <3>1, SetWorkerIs DEF Calm
  <2>8. CASE Goto(t, "await") /\ UNCHANGED loc
    BY <1>2, <1>4, <1>5, <1>6, <2>6, <2>7, <2>8, GoesOn DEF Goto
  <2>9. CASE Goto(t, "commit") /\ loc' = [loc EXCEPT ![t].verdict = "bad"]
    <3>1. PICK l : l = [loc[t] EXCEPT !.verdict = "bad"]
      OBVIOUS
    <3>2. loc' = [loc EXCEPT ![t] = l]
      BY <2>9, <3>1
    <3>3. l \in Locals /\ l.id = loc[t].id /\ l.gen = loc[t].gen /\ l.from = loc[t].from
          /\ l.fp = loc[t].fp
      BY <1>4, <3>1 DEF Locals
    <3> QED
      BY <1>2, <1>4, <1>5, <2>6, <2>7, <2>9, <3>2, <3>3, GoesOn DEF Goto
  <2> QED
    BY <2>5, <2>8, <2>9
<1>9. CASE StartBusy(t)
  <2>1. Calm
    BY <1>2, <1>9, CalmIs DEF StartBusy
  <2>2. PICK w : w = rec[r].worker
    OBVIOUS
  <2>3. w \in Workers /\ (w.gen = rec[r].gen => w.fp = rec[r].fp)
    BY <1>4, <1>9, <2>2 DEF StartBusy, HealthInv, RecordOK, Records
  <2>4. CASE /\ w.gen = loc[t].gen /\ Goto(t, "commit") /\ UNCHANGED active
             /\ loc' = [loc EXCEPT ![t] = [@ EXCEPT !.verdict = "busy", !.from = w.gen, !.fp = w.fp]]
    <3>1. PICK l : l = [loc[t] EXCEPT !.verdict = "busy", !.from = w.gen, !.fp = w.fp]
      OBVIOUS
    <3>2. loc' = [loc EXCEPT ![t] = l]
      BY <1>4, <2>4, <3>1
    <3>3. w.gen \in Nat /\ w.fp \in Fps
      BY <2>3 DEF Workers
    <3>4. l \in Locals /\ l.id = loc[t].id /\ l.gen = loc[t].gen /\ l.from = w.gen /\ l.fp = w.fp
      BY <1>4, <3>1, <3>3 DEF Locals
    <3> QED
      BY <1>2, <1>4, <2>1, <2>3, <2>4, <3>2, <3>3, <3>4, GoesOn DEF Goto
  <2>5. CASE Finish(t)
    BY <1>1, <1>2, <2>1, <2>5, CalmVerdicts, FinishIs DEF Calm, HealthTypeOK
  <2> QED
    BY <1>4, <1>9, <2>2, <2>4, <2>5 DEF StartBusy
<1> QED
  BY <1>7, <1>8, <1>9 DEF Start

\* Forgetting a worker that is over.
LEMMA ReleasedIs ==
    ASSUME HealthInv, NEW t \in Tasks, pc[t] # "idle", rec' = Released(t),
           UNCHANGED <<scenario, contract, issued>>
    PROVE  Calm
<1>1. PICK r \in 1 .. issued : r = loc[t].id
  BY TaskIs
<1>2. CASE rec' = [rec EXCEPT ![r].worker = None]
  <2>1. PICK w \in Workers \cup {None} : w = None
    OBVIOUS
  <2>2. rec' = [rec EXCEPT ![r].worker = w]
    BY <1>2, <2>1
  <2> QED
    BY <2>1, <2>2, SetWorkerIs DEF Calm
<1>3. CASE rec' = rec
  BY <1>3, CalmIs
<1> QED
  BY <1>1, <1>2, <1>3 DEF Released

LEMMA AnswerIsHealthy ==
    ASSUME HealthInv, NEW t \in Tasks, pc[t] \in {"await", "nested"}, Free,
           NEW v \in {"ok", "bad"}, Answer(t, v)
    PROVE  HealthInv'
<1>1. UNCHANGED <<contract, probes, scenario, issued, cooldown, amending, quiesce, active>>
      /\ pc' = [pc EXCEPT ![t] = "commit"]
  BY DEF Answer
<1>2. Calm
  BY <1>1, ReleasedIs DEF Answer
<1>3. loc[t] \in Locals /\ InFlight(t) /\ TaskOK(t)
  BY TaskIs DEF InFlight, HealthInv
<1>4. PICK l : l = [loc[t] EXCEPT !.verdict = v]
  OBVIOUS
<1>5. loc' = [loc EXCEPT ![t] = l]
  BY <1>4 DEF Answer
<1>6. l \in Locals /\ l.id = loc[t].id /\ l.gen = loc[t].gen /\ l.from = loc[t].from /\ l.fp = loc[t].fp
  BY <1>3, <1>4 DEF Locals
<1>7. loc[t].from = loc[t].gen /\ loc[t].fp \in Fps /\ (loc[t].gen = Rec(t).gen => loc[t].fp = Rec(t).fp)
  BY <1>3 DEF TaskOK
<1> QED
  BY <1>1, <1>2, <1>5, <1>6, <1>7, GoesOn

LEMMA CancelIsHealthy ==
    ASSUME HealthInv, NEW t \in Tasks, Cancel(t)
    PROVE  HealthInv'
<1>1. UNCHANGED <<contract, probes, scenario, issued, cooldown, amending, quiesce>>
      /\ pc[t] # "idle" /\ rec' = Released(t) /\ Finish(t)
  BY DEF Cancel
<1>2. Calm
  BY <1>1, ReleasedIs
<1> QED
  BY <1>1, <1>2, CalmVerdicts, FinishIs DEF Calm, HealthInv, HealthTypeOK

-----------------------------------------------------------------------------
(* Committing a verdict *)

LEMMA CommitCheckIsHealthy ==
    ASSUME HealthInv, NEW t \in Tasks, CommitCheck(t)
    PROVE  HealthInv'
<1>1. HealthTypeOK /\ TaskOK(t) /\ pc \in [Tasks \cup Removers -> TaskPlaces \cup {"draining"}]
  BY DEF HealthInv
<1>2. UNCHANGED <<contract, probes, scenario, issued, cooldown, amending, quiesce>> /\ pc[t] = "commit"
  BY DEF CommitCheck
<1>3. loc[t] \in Locals /\ loc[t].id \in 1 .. issued /\ Rec(t) = rec[loc[t].id] /\ InFlight(t)
  BY <1>2, TaskIs DEF InFlight, Committing
<1>4. CASE Finish(t) /\ UNCHANGED rec
  <2>1. Calm
    BY <1>2, <1>4, CalmIs
  <2> QED
    BY <1>1, <1>2, <1>4, <2>1, CalmVerdicts, FinishIs DEF Calm, HealthTypeOK
<1>5. CASE Finish(t) /\ SetStatus(loc[t].id, "stale", Rec(t).by)
  <2>1. RecordsMove /\ Undisturbed /\ VerdictFitsContract'
    BY <1>2, <1>3, <1>5, StatusIsStale
  <2> QED
    BY <1>1, <1>2, <1>5, <2>1, FinishIs DEF HealthTypeOK
<1>6. CASE /\ Rec(t).gen = loc[t].gen /\ Current(loc[t].id)
           /\ pc' = [pc EXCEPT ![t] = "mark"]
           /\ UNCHANGED <<rec, loc, active>>
  <2>1. Calm
    BY <1>2, <1>6, CalmIs
  <2>2. pc'[t] = "mark" /\ loc' = [loc EXCEPT ![t] = loc[t]]
    BY <1>1, <1>6 DEF HealthTypeOK
  <2>3. TaskOK(t)'
    BY <1>1, <1>2, <1>3, <1>6, <2>2 DEF TaskOK, TaskPlaces, Rec, Key, Current, Held
  <2>4. VerdictFitsContract'
    BY <1>2, <2>1, CalmVerdicts
  <2>5. t \in active
    BY <1>1, <1>3 DEF HealthTypeOK
  <2>6. ProbeStep(t, "mark", loc[t])
    BY <1>1, <1>2, <1>6, <2>1, <2>2, <2>3, <2>4, <2>5
       DEF ProbeStep, Calm, StartedPlaces, HealthTypeOK, Busy, Committing
  <2> QED
    BY <1>3, <2>6, ProbeIsHealthy DEF TaskPlaces
<1> QED
  BY <1>4, <1>5, <1>6 DEF CommitCheck

LEMMA CommitMarkIsHealthy ==
    ASSUME HealthInv, NEW t \in Tasks, CommitMark(t)
    PROVE  HealthInv'
<1>1. HealthTypeOK /\ TaskOK(t) /\ pc \in [Tasks \cup Removers -> TaskPlaces \cup {"draining"}]
  BY DEF HealthInv
<1>2. UNCHANGED <<contract, probes, rec, scenario, issued, amending, quiesce>> /\ pc[t] = "mark"
  BY DEF CommitMark
<1>3. /\ loc[t] \in Locals /\ loc[t].id \in 1 .. issued /\ Rec(t) = rec[loc[t].id]
      /\ Rec(t) \in Records /\ Key(t) \in Keys /\ InFlight(t)
  BY <1>2, TaskIs DEF InFlight, Committing
<1>4. Calm
  BY <1>2, CalmIs
<1>5. CASE Finish(t) /\ UNCHANGED cooldown
  BY <1>1, <1>2, <1>4, <1>5, CalmVerdicts, FinishIs DEF Calm, HealthTypeOK
<1>6. CASE /\ contract[Key(t)] # Absent
           /\ cooldown' = [cooldown EXCEPT ![Key(t)] =
                  IF loc[t].verdict = "ok" THEN None
                  ELSE [fp |-> contract[Key(t)], probed |-> loc[t].fp]]
           /\ pc' = [pc EXCEPT ![t] = "record"]
           /\ UNCHANGED <<loc, active>>
  <2>1. PICK f \in Fps : f = contract[Key(t)]
    BY <1>1, <1>3, <1>6 DEF HealthTypeOK
  <2>2. OtherThreads \/ (Rec(t).gen = loc[t].gen /\ f = Rec(t).fp /\ loc[t].fp = f)
    BY <1>1, <1>2, <1>3, <2>1 DEF TaskOK, Held
  <2>3. loc[t].fp \in Fps
    BY <1>1, <1>3 DEF TaskOK
  <2>4. PICK c \in Cooldowns \cup {None} :
            c = IF loc[t].verdict = "ok" THEN None
                ELSE [fp |-> contract[Key(t)], probed |-> loc[t].fp]
    BY <2>1, <2>3 DEF Cooldowns
  <2>5. OtherThreads \/ (c # None => c.fp = c.probed)
    BY <2>1, <2>2, <2>4
  <2>6. /\ cooldown' \in [Keys -> Cooldowns \cup {None}]
        /\ cooldown'[Key(t)] = c /\ \A k \in Keys \ {Key(t)} : cooldown'[k] = cooldown[k]
    BY <1>1, <1>3, <1>6, <2>4 DEF HealthTypeOK
  <2>7. VerdictFitsContract'
    <3>1. OtherThreads' = OtherThreads
      BY <1>2 DEF OtherThreads
    <3>2. OtherThreads \/ \A k \in Keys : cooldown'[k] # None => cooldown'[k].fp = cooldown'[k].probed
      BY <2>5, <2>6 DEF HealthInv, VerdictFitsContract
    <3>3. OtherThreads \/ StatusOfOwnGeneration'
      BY <1>2 DEF HealthInv, VerdictFitsContract, StatusOfOwnGeneration
    <3> QED
      BY <3>1, <3>2, <3>3 DEF VerdictFitsContract
  <2>8. pc'[t] = "record" /\ loc' = [loc EXCEPT ![t] = loc[t]]
    BY <1>1, <1>6 DEF HealthTypeOK
  <2>9. TaskOK(t)'
    BY <1>1, <1>2, <1>3, <1>6, <2>8 DEF TaskOK, TaskPlaces, Rec, Key, OtherThreads, Held
  <2>10. t \in active
    BY <1>1, <1>3 DEF HealthTypeOK
  <2>11. ProbeStep(t, "record", loc[t])
    BY <1>1, <1>2, <1>4, <1>6, <2>6, <2>7, <2>8, <2>9, <2>10
       DEF ProbeStep, Calm, StartedPlaces, HealthTypeOK, Busy, Committing
  <2> QED
    BY <1>3, <2>11, ProbeIsHealthy DEF TaskPlaces
<1> QED
  BY <1>5, <1>6 DEF CommitMark

LEMMA CommitRecordIsHealthy ==
    ASSUME HealthInv, NEW t \in Tasks, CommitRecord(t)
    PROVE  HealthInv'
<1>1. HealthTypeOK /\ TaskOK(t)
  BY DEF HealthInv
<1>2. UNCHANGED <<contract, probes, scenario, issued, cooldown, amending, quiesce>>
      /\ pc[t] = "record" /\ Finish(t)
  BY DEF CommitRecord
<1>3. /\ loc[t] \in Locals /\ Rec(t) = rec[loc[t].id] /\ InFlight(t)
      /\ issued \in Nat
  BY <1>2, TaskIs DEF InFlight, Committing
<1>4. PICK r \in 1 .. issued : r = loc[t].id
  BY <1>2, TaskIs
<1>5. PICK s \in {"healthy", "unhealthy"} : s = IF loc[t].verdict = "ok" THEN "healthy" ELSE "unhealthy"
  OBVIOUS
<1>6. PICK by \in Nat : by = loc[t].from
  BY <1>3 DEF Locals
<1>7. SetStatus(r, s, by)
  BY <1>4, <1>5, <1>6 DEF CommitRecord
<1>8. /\ RecordsMove /\ Undisturbed
      /\ rec'[r].status = s /\ rec'[r].by = by /\ rec'[r].gen = rec[r].gen
      /\ \A x \in (1 .. issued) \ {r} : rec'[x] = rec[x]
  BY <1>2, <1>5, <1>7, SetStatusIs
<1>9. VerdictFitsContract'
  <2>1. OtherThreads \/ rec'[r].by = rec'[r].gen
    BY <1>1, <1>2, <1>3, <1>4, <1>6, <1>8 DEF TaskOK, Held
  <2>2. OtherThreads \/ StatusOfOwnGeneration'
    BY <1>2, <1>8, <2>1 DEF HealthInv, VerdictFitsContract, StatusOfOwnGeneration
  <2>3. OtherThreads \/ \A k \in Keys : cooldown'[k] # None => cooldown'[k].fp = cooldown'[k].probed
    BY <1>2 DEF HealthInv, VerdictFitsContract
  <2>4. OtherThreads' = OtherThreads
    BY <1>2 DEF OtherThreads
  <2> QED
    BY <2>2, <2>3, <2>4 DEF VerdictFitsContract
<1> QED
  BY <1>1, <1>2, <1>8, <1>9, FinishIs DEF HealthTypeOK

-----------------------------------------------------------------------------
(* Removals *)

\* What the body of the guard does to the rest.
LEMMA RemoveToolIs ==
    ASSUME HealthInv, NEW k \in Keys, RemoveTool(k), UNCHANGED <<scenario, issued, rec>>
    PROVE  /\ contract' \in [Keys -> Fps \cup {Absent}]
           /\ probes' \in [Keys -> 0 .. issued]
           /\ cooldown' \in [Keys -> Cooldowns \cup {None}]
           /\ RecordsMove /\ VerdictFitsContract'
<1>1. HealthTypeOK /\ issued \in Nat
  BY ScenarioIs DEF HealthInv
<1>2. /\ contract' \in [Keys -> Fps \cup {Absent}]
      /\ probes' \in [Keys -> 0 .. issued]
      /\ cooldown' \in [Keys -> Cooldowns \cup {None}]
      /\ \A j \in Keys : cooldown'[j] \in {cooldown[j], None}
  BY <1>1 DEF RemoveTool, HealthTypeOK
<1>3. VerdictFitsContract'
  BY <1>2, VerdictsStay
<1> QED
  BY <1>2, <1>3, RecordsStay

LEMMA RemoveNowIsHealthy ==
    ASSUME HealthInv, NEW r \in Removers, RemoveNow(r)
    PROVE  HealthInv'
<1>1. HealthTypeOK
  BY DEF HealthInv
<1>2. UNCHANGED <<rec, scenario, issued, amending, quiesce, active, pc, loc>> /\ Free
  BY DEF RemoveNow
<1>3. /\ contract' \in [Keys -> Fps \cup {Absent}]
      /\ probes' \in [Keys -> 0 .. issued]
      /\ cooldown' \in [Keys -> Cooldowns \cup {None}]
      /\ RecordsMove /\ VerdictFitsContract'
  BY <1>2, RemoveToolIs DEF RemoveNow
<1>4. Minds
  BY <1>2, QuietUnlessThreads DEF Writer
<1>5. LoopOK'
  BY <1>2, <1>3, LoopStays
<1> QED
  BY <1>1, <1>2, <1>3, <1>4, <1>5, SetupIsHealthy DEF SetupStep, HealthTypeOK

\* A step of a remover, which is not a probe task.
RemoverStep(r, p, l) ==
    /\ Free
    /\ pc' = [pc EXCEPT ![r] = p]
    /\ loc' = [loc EXCEPT ![r] = l]
    /\ UNCHANGED <<scenario, rec, issued, amending, active>>
    /\ contract' \in [Keys -> Fps \cup {Absent}]
    /\ probes' \in [Keys -> 0 .. issued]
    /\ cooldown' \in [Keys -> Cooldowns \cup {None}]
    /\ VerdictFitsContract'
    /\ quiesce' \in Nat /\ DrainOK'

LEMMA RemoverIsHealthy ==
    ASSUME HealthInv, NEW r \in Removers, NEW p \in {"idle", "draining"}, NEW l \in Locals,
           RemoverStep(r, p, l)
    PROVE  HealthInv'
<1>1. HealthTypeOK /\ pc \in [Tasks \cup Removers -> TaskPlaces \cup {"draining"}]
  BY DEF HealthInv
<1>2. /\ pc' \in [Tasks \cup Removers -> TaskPlaces \cup {"draining"}]
      /\ loc' \in [Tasks \cup Removers -> Locals]
      /\ \A t \in Tasks : pc'[t] = pc[t] /\ loc'[t] = loc[t]
  BY <1>1, HealthAssumption DEF HealthTypeOK, RemoverStep, TaskPlaces
<1>3. RecordsMove /\ Minds
  BY RecordsStay, QuietUnlessThreads DEF RemoverStep, Writer
<1>4. \A t \in Tasks : TaskOK(t)'
  BY <1>2, <1>3, Standing DEF RemoverStep
<1>5. \A t \in Tasks : InFlight(t)' <=> InFlight(t)
  BY <1>2 DEF InFlight, Committing
<1>6. active' = {t \in Tasks : InFlight(t)'}
  BY <1>1, <1>5 DEF HealthTypeOK, RemoverStep
<1>7. HealthTypeOK'
  BY <1>1, <1>2, <1>6 DEF HealthTypeOK, RemoverStep
<1>8. LoopOK'
  <2>1. \A t \in Tasks : Busy(t)' <=> Busy(t)
    BY <1>2, <1>3, BusyStays DEF RemoverStep
  <2> QED
    BY <2>1 DEF HealthInv, LoopOK, RemoverStep, OtherThreads
<1> QED
  BY <1>2, <1>3, <1>4, <1>7, <1>8 DEF HealthInv, RemoverStep, RecordsMove

\* The requests that are counted, when a removal starts or stops waiting.
LEMMA OneMore ==
    ASSUME HealthInv, NEW r \in Removers, pc' = [pc EXCEPT ![r] = "draining"], quiesce' = quiesce + 1
    PROVE  DrainOK'
<1>1. pc \in [Tasks \cup Removers -> TaskPlaces \cup {"draining"}] /\ quiesce \in Nat
  BY DEF HealthInv, HealthTypeOK
<1>2. Draining' = Draining \cup {r}
  BY <1>1 DEF Draining
<1>3. IsFiniteSet(Draining) /\ Cardinality(Draining) <= quiesce
  BY DEF HealthInv, DrainOK
<1>4. IsFiniteSet(Draining \cup {r}) /\ Cardinality(Draining \cup {r}) \in {Cardinality(Draining), Cardinality(Draining) + 1}
  BY <1>3, FS_AddElement
<1>5. Cardinality(Draining) \in Nat
  BY <1>3, FS_CardinalityType
<1> QED
  BY <1>1, <1>2, <1>3, <1>4, <1>5 DEF DrainOK

LEMMA OneLess ==
    ASSUME HealthInv, NEW r \in Removers, pc[r] = "draining", pc' = [pc EXCEPT ![r] = "idle"],
           quiesce' \in {quiesce, quiesce - 1}
    PROVE  quiesce' \in Nat /\ DrainOK'
<1>1. pc \in [Tasks \cup Removers -> TaskPlaces \cup {"draining"}] /\ quiesce \in Nat
  BY DEF HealthInv, HealthTypeOK
<1>2. Draining' = Draining \ {r} /\ r \in Draining
  BY <1>1 DEF Draining
<1>3. IsFiniteSet(Draining) /\ Cardinality(Draining) <= quiesce
  BY DEF HealthInv, DrainOK
<1>4. IsFiniteSet(Draining \ {r}) /\ Cardinality(Draining \ {r}) = Cardinality(Draining) - 1
  BY <1>2, <1>3, FS_RemoveElement
<1>5. Cardinality(Draining) \in Nat /\ Cardinality(Draining \ {r}) \in Nat
  BY <1>3, <1>4, FS_CardinalityType
<1> QED
  BY <1>1, <1>2, <1>3, <1>4, <1>5 DEF DrainOK

LEMMA RemoveWaitIsHealthy ==
    ASSUME HealthInv, NEW r \in Removers, RemoveWait(r)
    PROVE  HealthInv'
<1>1. HealthTypeOK
  BY DEF HealthInv
<1>2. PICK k \in Keys : loc' = [loc EXCEPT ![r].key = k]
  BY DEF RemoveWait
<1>3. PICK l : l = [loc[r] EXCEPT !.key = k]
  OBVIOUS
<1>4. loc' = [loc EXCEPT ![r] = l] /\ loc[r] \in Locals
  BY <1>1, <1>2, <1>3 DEF HealthTypeOK
<1>5. l \in Locals
  BY <1>3, <1>4 DEF Locals
<1>6. DrainOK' /\ quiesce' \in Nat
  <2>1. DrainOK'
    BY OneMore DEF RemoveWait
  <2>2. quiesce' \in Nat
    BY <1>1 DEF RemoveWait, HealthTypeOK
  <2> QED
    BY <2>1, <2>2
<1>7. VerdictFitsContract'
  BY VerdictsStay DEF RemoveWait
<1>8. RemoverStep(r, "draining", l)
  BY <1>1, <1>4, <1>6, <1>7 DEF RemoverStep, RemoveWait, HealthTypeOK
<1> QED
  BY <1>5, <1>8, RemoverIsHealthy

LEMMA RemoveDrainedIsHealthy ==
    ASSUME HealthInv, NEW r \in Removers, RemoveDrained(r)
    PROVE  HealthInv'
<1>1. loc[r].key \in Keys
  BY DEF HealthInv, HealthTypeOK, Locals
<1>2. PICK k \in Keys : k = loc[r].key
  BY <1>1
<1>3. UNCHANGED <<rec, scenario, issued, amending, active>> /\ RemoveTool(k)
  BY <1>2 DEF RemoveDrained
<1>4. /\ contract' \in [Keys -> Fps \cup {Absent}]
      /\ probes' \in [Keys -> 0 .. issued]
      /\ cooldown' \in [Keys -> Cooldowns \cup {None}]
      /\ VerdictFitsContract'
  BY <1>3, RemoveToolIs
<1>5. quiesce' \in Nat /\ DrainOK'
  BY OneLess DEF RemoveDrained
<1>6. RemoverStep(r, "idle", Blank)
  BY <1>3, <1>4, <1>5 DEF RemoverStep, RemoveDrained
<1> QED
  BY <1>6, BlankIsLocal, RemoverIsHealthy

LEMMA RemoveCancelledIsHealthy ==
    ASSUME HealthInv, NEW r \in Removers, RemoveCancelled(r)
    PROVE  HealthInv'
<1>1. HealthTypeOK
  BY DEF HealthInv
<1>2. VerdictFitsContract'
  BY VerdictsStay DEF RemoveCancelled
<1>3. quiesce' \in Nat /\ DrainOK'
  BY OneLess DEF RemoveCancelled
<1>4. RemoverStep(r, "idle", Blank)
  BY <1>1, <1>2, <1>3 DEF RemoverStep, RemoveCancelled, HealthTypeOK
<1> QED
  BY <1>4, BlankIsLocal, RemoverIsHealthy

\* A callback that removes a tool stays in flight.
LEMMA RemoveInsideIsHealthy ==
    ASSUME HealthInv, NEW t \in Tasks, RemoveInside(t)
    PROVE  HealthInv'
<1>1. HealthTypeOK /\ pc \in [Tasks \cup Removers -> TaskPlaces \cup {"draining"}] /\ TaskOK(t)
  BY DEF HealthInv
<1>2. UNCHANGED <<rec, scenario, issued, amending, active, loc>> /\ Free /\ pc[t] = "await"
  BY DEF RemoveInside
<1>3. RecordsMove /\ Minds
  BY <1>2, RecordsStay, QuietUnlessThreads DEF Writer
<1>4. CASE (\E k \in Keys : RemoveTool(k)) /\ UNCHANGED <<quiesce, pc>>
  <2>1. /\ contract' \in [Keys -> Fps \cup {Absent}]
        /\ probes' \in [Keys -> 0 .. issued]
        /\ cooldown' \in [Keys -> Cooldowns \cup {None}]
        /\ VerdictFitsContract'
    BY <1>2, <1>4, RemoveToolIs
  <2>2. LoopOK'
    BY <1>2, <1>3, <1>4, LoopStays
  <2> QED
    BY <1>1, <1>2, <1>3, <1>4, <2>1, <2>2, SetupIsHealthy DEF SetupStep, HealthTypeOK
<1>5. CASE /\ quiesce' = quiesce + 1
           /\ pc' = [pc EXCEPT ![t] = "nested"]
           /\ UNCHANGED <<contract, probes, cooldown>>
  <2>1. /\ pc' \in [Tasks \cup Removers -> TaskPlaces \cup {"draining"}]
        /\ pc'[t] = "nested"
        /\ \A u \in (Tasks \cup Removers) \ {t} : pc'[u] = pc[u]
    BY <1>1, <1>5 DEF TaskPlaces
  <2>2. \A u \in Tasks : InFlight(u)' <=> InFlight(u)
    BY <1>2, <2>1 DEF InFlight, Committing
  <2>3. HealthTypeOK'
    BY <1>1, <1>2, <1>5, <2>2 DEF HealthTypeOK
  <2>4. TaskOK(t)'
    BY <1>1, <1>2, <2>1 DEF TaskOK, InFlight, TaskPlaces, Rec, Held
  <2>5. \A u \in Tasks \ {t} : TaskOK(u)'
    BY <1>2, <1>3, <2>1, Standing
  <2>6. DrainOK'
    <3>1. Draining' = Draining
      BY <1>1, <1>2, <2>1, HealthAssumption DEF Draining
    <3>2. Cardinality(Draining) \in Nat /\ quiesce \in Nat
      BY <1>1, FS_CardinalityType DEF HealthInv, DrainOK, HealthTypeOK
    <3> QED
      BY <1>5, <3>1, <3>2 DEF HealthInv, DrainOK
  <2>7. LoopOK'
    <3>1. \A u \in Tasks \ {t} : Busy(u)' <=> Busy(u)
      BY <1>2, <1>3, <2>1, BusyStays
    <3>2. ~Busy(t)'
      BY <2>1 DEF Busy, Committing
    <3> QED
      BY <1>2, <3>1, <3>2 DEF HealthInv, LoopOK, OtherThreads
  <2>8. VerdictFitsContract'
    BY <1>2, <1>5, VerdictsStay
  <2> QED
    BY <1>3, <2>1, <2>3, <2>4, <2>5, <2>6, <2>7, <2>8 DEF HealthInv, RecordsMove
<1> QED
  BY <1>4, <1>5 DEF RemoveInside

-----------------------------------------------------------------------------
(* The invariant *)

LEMMA HealthInit == Init => HealthInv
<1> SUFFICES ASSUME Init PROVE HealthInv
  OBVIOUS
<1>1. scenario.fps \subseteq Fps /\ scenario.records \in Nat /\ scenario.records <= MaxRecords
  BY HealthAssumption DEF Init, Scenario
<1>2. Fps # {} /\ (CHOOSE f \in Fps : TRUE) \in Fps
  BY <1>1, HealthAssumption DEF Init
<1>3. Blank.key \in Keys
  BY HealthAssumption DEF Blank
<1>4. rec \in [Ids -> Records]
  <2>1. PICK no \in BOOLEAN : no = FALSE
    OBVIOUS
  <2>2. PICK q : q = [key |-> Blank.key, fp |-> CHOOSE f \in Fps : TRUE, gen |-> 0,
                      by |-> 0, invalid |-> no, status |-> "unknown", worker |-> None]
    OBVIOUS
  <2>3. q \in Records
    BY <1>2, <1>3, <2>2 DEF Records
  <2>4. q = [key |-> Blank.key, fp |-> CHOOSE f \in Fps : TRUE, gen |-> 0,
             by |-> 0, invalid |-> FALSE, status |-> "unknown", worker |-> None]
    BY <2>1, <2>2, Zenon
  <2>5. rec = [r \in Ids |-> q]
    BY <2>4, Zenon DEF Init
  <2> QED
    BY <2>3, <2>5
<1>5. pc \in [Tasks \cup Removers -> TaskPlaces \cup {"draining"}]
      /\ \A t \in Tasks \cup Removers : pc[t] = "idle"
  BY DEF Init, TaskPlaces
<1>6. \A t \in Tasks : ~InFlight(t)
  BY <1>5 DEF InFlight, Committing
<1>7. HealthTypeOK
  BY <1>1, <1>4, <1>6, BlankIsLocal DEF Init, HealthTypeOK
<1>8. DrainOK
  <2>1. Draining = {}
    BY <1>5 DEF Draining
  <2> QED
    BY <2>1, FS_EmptySet DEF DrainOK, Init
<1>9. \A t \in Tasks : TaskOK(t)
  BY <1>5, <1>6 DEF TaskOK, TaskPlaces, Held
<1>10. VerdictFitsContract
  BY DEF Init, VerdictFitsContract, StatusOfOwnGeneration
<1>11. 1 .. issued = {}
  BY DEF Init
<1> QED
  BY <1>5, <1>7, <1>8, <1>9, <1>10, <1>11 DEF HealthInv, LoopOK, Init

LEMMA ProbePreserves ==
    ASSUME HealthInv, NEW t \in Tasks, Probe(t)
    PROVE  HealthInv'
<1>1. Outcome(t) => HealthInv'
  BY AnswerIsHealthy DEF Outcome
<1>2. Timeout(t) => HealthInv'
  BY AnswerIsHealthy DEF Timeout
<1>3. NestedTimeout(t) => HealthInv'
  BY AnswerIsHealthy DEF NestedTimeout
<1> QED
  BY <1>1, <1>2, <1>3, ScheduleIsHealthy, PrepareStaleIsHealthy, PrepareIsHealthy, StartIsHealthy, CancelIsHealthy,
     CommitCheckIsHealthy, CommitMarkIsHealthy, CommitRecordIsHealthy, RemoveInsideIsHealthy DEF Probe

LEMMA HealthStutter == HealthInv /\ UNCHANGED vars => HealthInv'
<1> SUFFICES ASSUME HealthInv, UNCHANGED vars PROVE HealthInv'
  OBVIOUS
<1>1. UNCHANGED <<scenario, contract, probes, rec, issued, cooldown, amending, quiesce, active, pc, loc>>
  BY DEF vars
<1>2. RecordsMove /\ Minds
  BY <1>1, RecordsRest DEF Minds
<1>3. VerdictFitsContract'
  BY <1>1, VerdictsStay
<1>4. LoopOK'
  BY <1>1, <1>2, LoopStays
<1> QED
  BY <1>1, <1>2, <1>3, <1>4, SetupIsHealthy DEF SetupStep, HealthInv, HealthTypeOK

LEMMA HealthStep == HealthInv /\ [Next]_vars => HealthInv'
<1> SUFFICES ASSUME HealthInv, Next PROVE HealthInv'
  BY HealthStutter
<1>1. CASE \E k \in Keys : Register(k) \/ Unregister(k) \/ ForeignWrite(k) \/ Expire(k)
  BY <1>1, RegisterIsHealthy, UnregisterIsHealthy, ForeignWriteIsHealthy, ExpireIsHealthy
<1>2. CASE \E k \in Keys, f \in scenario.fps : Transition(k, f) \/ AmendPublish(k, f)
  BY <1>2, TransitionIsHealthy, AmendPublishIsHealthy
<1>3. CASE AmendTransition \/ AmendDrift
  BY <1>3, AmendTransitionIsHealthy, AmendDriftIsHealthy
<1>4. CASE \E t \in Tasks : Probe(t)
  BY <1>4, ProbePreserves
<1>5. CASE \E r \in Ids : WorkerEnds(r)
  BY <1>5, WorkerEndsIsHealthy
<1>6. CASE \E r \in scenario.removers : Remove(r)
  <2>1. scenario.removers \subseteq Removers
    BY ScenarioIs DEF HealthInv
  <2> QED
    BY <1>6, <2>1, RemoveNowIsHealthy, RemoveWaitIsHealthy, RemoveDrainedIsHealthy,
       RemoveCancelledIsHealthy DEF Remove
<1> QED
  BY <1>1, <1>2, <1>3, <1>4, <1>5, <1>6 DEF Next

\* What every state of the monitor keeps.
LEMMA HealthInvariant == Spec => []HealthInv
BY HealthInit, HealthStep, PTL DEF Spec

-----------------------------------------------------------------------------
(* Theorems *)

\* Registrations, workers and cooldowns keep their types, the active set is
\* exactly the probes that were started, and a request to quiesce is never taken
\* back twice (lifecycle_guard, _run_probe), for any tools, tasks and scenarios.
THEOREM HealthTypes == Spec => []HealthTypeOK
<1>1. HealthInv => HealthTypeOK
  BY DEF HealthInv
<1> QED
  BY <1>1, HealthInvariant, PTL

\* As long as every writer runs on the loop, a verdict counts for the contract
\* and the generation its callback was started for and for no other, however
\* transitions, amendments, re-registrations and workers that outlive their
\* timeout interleave with it (_run_probe, transition_contract).
THEOREM VerdictsFit == Spec => []VerdictFitsContract
<1>1. HealthInv => VerdictFitsContract
  BY DEF HealthInv
<1> QED
  BY <1>1, HealthInvariant, PTL

\* A callback begins only where it was let through for a read-only contract, and
\* for the one that is registered then (health.py:328); except that other threads,
\* and where the callback starts a turn of the loop later its steps, may have
\* written since the look at the contract.
THEOREM MutatingPathsAreNotProbed == Spec => NoProbeOfMutatingPath
<1> DEFINE A == \A t \in Tasks : Called(t) =>
                    /\ loc[t].fp \in ReadOnly
                    /\ contract[Key(t)] = loc[t].fp \/ OtherThreads \/ StartsLater(t)
<1>1. HealthInv => A
  <2> SUFFICES ASSUME HealthInv, NEW t \in Tasks, pc[t] = "starting"
               PROVE  /\ loc[t].fp \in ReadOnly
                      /\ contract[Key(t)] = loc[t].fp \/ OtherThreads \/ StartsLater(t)
    BY DEF Called
  <2> QED
    BY DEF HealthInv, TaskOK, Held, InFlight
<1> HIDE DEF A
<1>2. Spec => [][A]_vars
  BY <1>1, HealthInvariant, PTL DEF Spec
<1> QED
  BY <1>2 DEF NoProbeOfMutatingPath, A

\* A removal takes a probed tool away only when no callback is in flight, unless
\* a callback itself did and the Python version leaves it in its own task
\* (aremove_tool under lifecycle_guard), also with writers on other threads.
THEOREM RemovalsDrain == Spec => RemovalDrains
<1> DEFINE A == \A k \in Keys : Removed(k) =>
                    \/ Reentrant /\ WaitInOwnTask
                    \/ \A t \in Tasks : ~InFlight(t)
<1>1. HealthInv /\ [Next]_vars => [A]_vars
  <2> SUFFICES ASSUME HealthInv, Next, NEW k \in Keys, Removed(k), ~(Reentrant /\ WaitInOwnTask)
               PROVE  \A t \in Tasks : ~InFlight(t)
    BY DEF vars
  <2>1. HealthTypeOK
    BY DEF HealthInv
  <2>2. contract'[k] # contract[k] /\ probes'[k] # probes[k]
    BY DEF Removed
  <2>3. active = {} => \A t \in Tasks : ~InFlight(t)
    BY <2>1 DEF HealthTypeOK
  <2>4. CASE \E j \in Keys : Register(j) \/ Unregister(j) \/ ForeignWrite(j) \/ Expire(j)
    BY <2>2, <2>4 DEF Register, Unregister, ForeignWrite, Expire
  <2>5. CASE \E j \in Keys, f \in scenario.fps : Transition(j, f) \/ AmendPublish(j, f)
    BY <2>2, <2>5 DEF Transition, AmendPublish
  <2>6. CASE AmendTransition \/ AmendDrift
    BY <2>2, <2>6 DEF AmendTransition, AmendDrift
  <2>7. CASE \E t \in Tasks : Probe(t)
    BY <2>2, <2>7 DEF Probe, Schedule, PrepareStale, Prepare, Start, Outcome, Timeout, Cancel, CommitCheck,
           CommitMark, CommitRecord, RemoveInside, NestedTimeout, Answer
  <2>8. CASE \E r \in Ids : WorkerEnds(r)
    BY <2>2, <2>8 DEF WorkerEnds
  <2>9. CASE \E r \in scenario.removers : Remove(r)
    BY <2>2, <2>3, <2>9 DEF Remove, RemoveNow, RemoveWait, RemoveDrained, RemoveCancelled
  <2> QED
    BY <2>4, <2>5, <2>6, <2>7, <2>8, <2>9 DEF Next
<1> HIDE DEF A
<1>2. Spec => [][A]_vars
  BY <1>1, HealthInvariant, PTL DEF Spec
<1> QED
  BY <1>2 DEF RemovalDrains, A

=============================================================================
