-------------------------- MODULE SchemaRefreshProofs --------------------------
(***************************************************************************)
(* Proofs about SchemaRefresh, for any tools, documents, tasks and worlds, *)
(* without fairness: the watcher's record is consistent, and a refresh     *)
(* writes over the contract it compared and over no other.  Neither is     *)
(* inductive: a refresh holds what it read before it awaited the provider, *)
(* and the record it answers to may have been replaced meanwhile.          *)
(***************************************************************************)
EXTENDS SchemaRefresh, TLAPS

Sources == {SourceOf[c] : c \in Contracts}
Pins == [gen : Nat, fp : Fps, source : Sources]
Records == [gen : Nat, fp : Fps, source : Sources,
            status : Resting \cup StaleStates \cup {"pending_review", "error"},
            pending : Decisions \cup {None}]
Validators == (Sources \X Documents) \cup {None}

Jobs == [op : {"none", "check", "accept", "watch", "remove", "refresh", "sweep",
               "refreshNative", "acceptNative"},
         at : {"idle", "status", "version", "read", "fetch", "apply", "remember", "conclude",
               "store", "purge"},
         watch : Pins \cup {None}, base : Nat, current : Contracts \cup {None},
         candidate : Contracts \cup {None}, sent : Validators,
         expect : Decisions \cup Documents \cup {None}, result : Decisions \cup {None}]

TypeInv ==
    /\ world \in Worlds /\ remote \in Documents
    /\ tools \in Catalogs /\ version \in Nat
    /\ record \in Records \cup {None}
    /\ runLock \in Tasks \cup {None}
    /\ validators \in Validators
    /\ pending \in Documents \cup {None}
    /\ job \in [Tasks -> Jobs]
    /\ counts \in [{"moves", "faults", "starts", "others", "watches"} -> Nat]

\* Why a refresh that is about to write may.
Due(j) ==
    /\ j.candidate \in Contracts
    /\ j.op \in {"check", "refresh", "sweep", "refreshNative"} =>
          world.apply /\ Verdict[j.current, j.candidate] # "review"
    /\ j.op \in {"check", "refresh"} =>
          Verdict[DocOf[j.current], DocOf[j.candidate]] # "review" \/ Hidden(j.current, j.candidate)
    /\ j.op = "accept" =>
          FpOf[j.candidate] = j.expect.candidate /\ SourceOf[j.candidate] = j.expect.source

\* What an operation relies on where it is; the tool it holds is the registered
\* one for as long as the version is the one it started from.
JobOK(j) ==
    /\ j.at = "status" => j.op = "check"
    /\ j.op = "watch" <=> j.at = "store"
    /\ j.at = "store" => j.current \in Contracts
    /\ j.op \in {"check", "accept"} => j.watch \in Pins
    /\ j.op = "accept" => j.expect \in Decisions /\ j.expect.reviewed = j.watch.fp
    /\ j.op = "acceptNative" => j.expect \in Documents
    /\ j.at \in {"read", "fetch", "apply"} => j.base <= version
    /\ j.at \in {"fetch", "apply", "remember", "conclude"} =>
          /\ j.current \in Contracts
          /\ j.op \in {"check", "accept"} =>
                SourceOf[j.current] = j.watch.source /\ FpOf[j.current] = j.watch.fp
    /\ j.at \in {"fetch", "apply"} /\ version = j.base => tools[Tool] = j.current
    /\ j.at = "apply" => Due(j)
    /\ j.at = "remember" => j.candidate \in Contracts
    /\ j.at = "conclude" => j.result \in Decisions /\ j.result.reviewed = FpOf[j.current]

\* One operation at a time decides about the watch.
LockInv == \A t \in Tasks : Pinned(t) \/ job[t].op = "remove" => runLock = t

Watching(t) == job[t].op = "watch"

\* A generation is given to one watch.
GenInv ==
    /\ record # None => record.gen <= counts.watches
    /\ \A t \in Tasks : Pinned(t) => job[t].watch.gen <= counts.watches
    /\ \A t \in Tasks : Watching(t) =>
          /\ job[t].base \in 1 .. counts.watches
          /\ record # None => record.gen # job[t].base
          /\ \A u \in Tasks : Pinned(u) => job[u].watch.gen # job[t].base
          /\ \A u \in Tasks : Watching(u) /\ job[u].base = job[t].base => u = t

\* While its watch is active, what an operation pinned is what the record says.
PinInv ==
    \A t \in Tasks : Pinned(t) /\ ActiveWatch(t) =>
        record.fp = job[t].watch.fp /\ record.source = job[t].watch.source

ControlInv == LockInv /\ GenInv /\ PinInv

\* A review is shown exactly while there is one, against the watched contract.
RecordOK(r) ==
    /\ r.status = "pending_review" => r.pending # None
    /\ r.status \in Resting \cup StaleStates => r.pending = None
    /\ r.pending # None => r.pending.reviewed = r.fp

RecordInv == record # None => RecordOK(record)

RefreshInv ==
    /\ TypeInv
    /\ \A t \in Tasks : JobOK(job[t])
    /\ ControlInv
    /\ RecordInv

-----------------------------------------------------------------------------
(* Documents, outcomes and decisions *)

LEMMA EffectiveType ==
    ASSUME NEW c \in Contracts, NEW doc \in Documents
    PROVE  /\ Effective(c, doc) \in Contracts \cup {Absent}
           /\ Effective(c, doc) # Absent => DocOf[Effective(c, doc)] = doc
           /\ Candidate(c, doc) \in Contracts
           /\ Effective(c, doc) # Absent => Candidate(c, doc) = Effective(c, doc)
           /\ DocOf[c] \in Documents
<1>1. doc \in Contracts /\ DocOf[doc] = doc /\ Amended[doc] \in Contracts \cup {Absent}
      /\ (Amended[doc] # Absent => DocOf[Amended[doc]] = doc)
  BY RefreshAssumption
<1>2. DocOf[c] \in Documents
  BY RefreshAssumption
<1> QED
  BY <1>1, <1>2 DEF Effective, Candidate

\* What is applied without an operator is proven compatible, and so is the change
\* of the document beneath an amendment, unless the amendment hides it.
LEMMA AppliedIsCompatible ==
    ASSUME NEW c \in Contracts, NEW doc \in Documents, NEW apply \in BOOLEAN,
           Outcome(c, doc, apply) = "apply"
    PROVE  /\ apply
           /\ Effective(c, doc) \in Contracts
           /\ Verdict[c, Effective(c, doc)] # "review"
           /\ \/ Verdict[DocOf[c], DocOf[Effective(c, doc)]] # "review"
              \/ Hidden(c, Effective(c, doc))
<1>1. apply /\ (Compared(c, doc) = "compatible" \/ ChangedUnder(c, doc))
  BY DEF Outcome
<1>2. CASE Compared(c, doc) = "compatible"
  <2>1. /\ Effective(c, doc) # Absent
        /\ Verdict[DocOf[c], doc] # "review"
        /\ Verdict[c, Effective(c, doc)] # "review"
    BY <1>2 DEF Compared
  <2> QED
    BY <1>1, <2>1, EffectiveType
<1>3. CASE ChangedUnder(c, doc)
  BY <1>1, <1>3, EffectiveType DEF ChangedUnder, Hidden
<1> QED
  BY <1>1, <1>2, <1>3

LEMMA OutcomeRange ==
    ASSUME NEW c, NEW doc, NEW apply \in BOOLEAN
    PROVE  Outcome(c, doc, apply) \in {"unchanged", "apply", "report_only", "pending_review"}
  BY DEF Outcome

LEMMA DecidedType ==
    ASSUME NEW action \in {"unchanged", "applied", "report_only", "pending_review"},
           NEW c \in Contracts, NEW new \in Contracts
    PROVE  /\ Decided(action, c, new) \in Decisions
           /\ Decided(action, c, new).reviewed = FpOf[c]
  BY RegistryAssumption DEF Decided, Decisions

LEMMA ADecisionIsSomething == None \notin Decisions /\ None \notin Tasks
  BY RefreshAssumption

LEMMA CarriedType ==
    ASSUME NEW c \in Contracts
    PROVE  Carried(c) \in Validators /\ <<SourceOf[c], DocOf[c]>> \in Validators
  BY RefreshAssumption DEF Carried, Validators, Sources

LEMMA StalenessRange == Staleness \in StaleStates \/ Staleness = None
  BY DEF Staleness, StaleStates

\* While the watch is not stale, the registered tool is the watched contract.
LEMMA NotStale ==
    ASSUME Staleness = None
    PROVE  Staleness \in StaleStates
             \/ (Current # Absent /\ SourceOf[Current] = record.source /\ FpOf[Current] = record.fp)
  BY DEF Staleness, StaleStates

LEMMA CurrentType ==
    ASSUME TypeInv
    PROVE  Current \in Contracts \cup {Absent}
  BY RefreshAssumption DEF TypeInv, Catalogs, Current

LEMMA FreeJobType == FreeJob \in Jobs /\ JobOK(FreeJob) /\ FreeJob.op = "none"
<1>1. FreeJob \in Jobs
  BY DEF FreeJob, Jobs, Validators
<1>2. FreeJob.op = "none" /\ FreeJob.at = "idle"
  BY DEF FreeJob
<1> QED
  BY <1>1, <1>2 DEF JobOK

-----------------------------------------------------------------------------
(* What a step leaves of the record, the jobs and the lock *)

\* The record is gone, or still of the watch it was of.
SameWatch ==
    \/ record' = None
    \/ /\ record # None /\ record' \in Records /\ RecordOK(record')
       /\ record'.gen = record.gen /\ record'.fp = record.fp
       /\ record'.source = record.source

\* Everything beside the jobs, the record and the lock.
Around ==
    /\ world' = world /\ remote' \in Documents
    /\ \/ tools' = tools /\ version' = version
       \/ tools' \in Catalogs /\ version' = version + 1
    /\ validators' \in Validators /\ pending' \in Documents \cup {None}
    /\ counts' \in [{"moves", "faults", "starts", "others", "watches"} -> Nat]

LEMMA JobStands ==
    ASSUME NEW j, JobOK(j), version \in Nat, world' = world,
           j.base \in Nat,
           (tools' = tools /\ version' = version) \/ version' = version + 1
    PROVE  JobOK(j)'
<1>1. Due(j) => Due(j)'
  BY DEF Due, Hidden, IsAmended
<1>2. CASE tools' = tools /\ version' = version
  BY <1>1, <1>2 DEF JobOK
<1>3. CASE version' = version + 1
  BY <1>1, <1>3 DEF JobOK
<1> QED
  BY <1>2, <1>3

LEMMA JobsStand ==
    ASSUME RefreshInv, Around, job' = job
    PROVE  job' \in [Tasks -> Jobs] /\ \A u \in Tasks : JobOK(job[u])'
<1>1. job \in [Tasks -> Jobs] /\ version \in Nat
  BY DEF RefreshInv, TypeInv
<1>2. ASSUME NEW u \in Tasks PROVE JobOK(job[u])'
  <2>1. PICK j : j = job[u]
    OBVIOUS
  <2>2. JobOK(j) /\ j.base \in Nat
    BY <1>1, <2>1 DEF RefreshInv, Jobs
  <2>3. JobOK(j)'
    BY <1>1, <2>2, JobStands DEF Around
  <2> QED
    BY <2>1, <2>3
<1> QED
  BY <1>1, <1>2

LEMMA JobsStep ==
    ASSUME RefreshInv, Around, NEW t \in Tasks, NEW r \in Jobs, Step(t, r), JobOK(r)'
    PROVE  /\ job' \in [Tasks -> Jobs] /\ job'[t] = r
           /\ \A u \in Tasks \ {t} : job'[u] = job[u]
           /\ \A u \in Tasks : JobOK(job[u])'
<1>1. job \in [Tasks -> Jobs] /\ version \in Nat
  BY DEF RefreshInv, TypeInv
<1>2. /\ job' \in [Tasks -> Jobs] /\ job'[t] = r
      /\ \A u \in Tasks \ {t} : job'[u] = job[u]
  BY <1>1 DEF Step
<1>3. ASSUME NEW u \in Tasks \ {t} PROVE JobOK(job[u])'
  <2>1. PICK j : j = job[u] /\ j = job'[u]
    BY <1>2
  <2>2. JobOK(j) /\ j.base \in Nat
    BY <1>1, <2>1 DEF RefreshInv, Jobs
  <2>3. JobOK(j)'
    BY <1>1, <2>2, JobStands DEF Around
  <2> QED
    BY <2>1, <2>3
<1>4. JobOK(job[t])'
  BY <1>2
<1> QED
  BY <1>2, <1>3, <1>4

LEMMA AroundTypes ==
    ASSUME RefreshInv, Around, record' \in Records \cup {None},
           runLock' \in Tasks \cup {None}, job' \in [Tasks -> Jobs]
    PROVE  TypeInv'
  BY DEF RefreshInv, TypeInv, Around

\* Nothing of watch, lock and jobs moves but within the watch.
LEMMA ControlStands ==
    ASSUME RefreshInv, Around, SameWatch, UNCHANGED <<job, runLock>>,
           counts'.watches = counts.watches
    PROVE  RefreshInv'
<1>1. job' \in [Tasks -> Jobs] /\ \A u \in Tasks : JobOK(job[u])'
  BY JobsStand
<1>2. record' \in Records \cup {None} /\ RecordInv'
  BY DEF SameWatch, RecordInv
<1>3. TypeInv'
  BY <1>1, <1>2, AroundTypes DEF RefreshInv, TypeInv
<1>4. ControlInv'
  BY DEF RefreshInv, ControlInv, LockInv, GenInv, PinInv, SameWatch, Pinned, Watching,
         ActiveWatch
<1> QED
  BY <1>1, <1>2, <1>3, <1>4 DEF RefreshInv

\* The job of one task moves: it goes on with what it has pinned, or it ends or
\* begins something that pins nothing.
LEMMA ControlMoves ==
    ASSUME RefreshInv, Around, NEW t \in Tasks, NEW r \in Jobs, Step(t, r), JobOK(r)',
           SameWatch, counts'.watches = counts.watches,
           \/ /\ r.op = job[t].op /\ r.watch = job[t].watch
              /\ r.op = "watch" => r.base = job[t].base
              /\ runLock' = runLock
           \/ /\ r.op \notin {"check", "accept", "remove", "watch"}
              /\ runLock' = runLock \/ (runLock = t /\ runLock' = None)
    PROVE  RefreshInv'
<1>1. /\ job' \in [Tasks -> Jobs] /\ job'[t] = r
      /\ \A u \in Tasks \ {t} : job'[u] = job[u]
      /\ \A u \in Tasks : JobOK(job[u])'
  BY JobsStep
<1>2. record' \in Records \cup {None} /\ RecordInv'
  BY DEF SameWatch, RecordInv
<1>3. TypeInv'
  BY <1>1, <1>2, AroundTypes DEF RefreshInv, TypeInv
<1>4. LockInv'
  BY <1>1 DEF RefreshInv, ControlInv, LockInv, Pinned
<1>5. GenInv'
  BY <1>1 DEF RefreshInv, ControlInv, GenInv, SameWatch, Pinned, Watching
<1>6. PinInv'
  BY <1>1 DEF RefreshInv, ControlInv, PinInv, SameWatch, Pinned, ActiveWatch
<1> QED
  BY <1>1, <1>2, <1>3, <1>4, <1>5, <1>6 DEF RefreshInv, ControlInv

\* A watched operation takes the lock, or has it, and pins the record.
LEMMA ControlPins ==
    ASSUME RefreshInv, Around, NEW t \in Tasks, NEW r \in Jobs, Step(t, r), JobOK(r)',
           record # None, record' = record, counts'.watches = counts.watches,
           r.op \in {"check", "accept"}, r.watch = Pin,
           runLock = None \/ (Pinned(t) /\ runLock = t), runLock' = t
    PROVE  RefreshInv'
<1>1. /\ job' \in [Tasks -> Jobs] /\ job'[t] = r
      /\ \A u \in Tasks \ {t} : job'[u] = job[u]
      /\ \A u \in Tasks : JobOK(job[u])'
  BY JobsStep
<1>2. record' \in Records \cup {None} /\ RecordInv'
  BY DEF RefreshInv, TypeInv, RecordInv
<1>3. TypeInv'
  BY <1>1, <1>2, AroundTypes
<1>4. r.watch.gen = record.gen /\ r.watch.fp = record.fp /\ r.watch.source = record.source
  BY DEF Pin
<1>5. LockInv'
  BY <1>1, ADecisionIsSomething DEF RefreshInv, ControlInv, LockInv, Pinned
<1>6. GenInv'
  BY <1>1, <1>4 DEF RefreshInv, ControlInv, GenInv, Pinned, Watching
<1>7. PinInv'
  BY <1>1, <1>4 DEF RefreshInv, ControlInv, PinInv, Pinned, ActiveWatch
<1> QED
  BY <1>1, <1>2, <1>3, <1>5, <1>6, <1>7 DEF RefreshInv, ControlInv

\* The holder of the lock ends and leaves the record of its watch for another
\* contract: nobody else has that watch pinned.
LEMMA ControlConcludes ==
    ASSUME RefreshInv, Around, NEW t \in Tasks, Pinned(t), Done(t),
           counts'.watches = counts.watches,
           record # None, record' \in Records, RecordOK(record'), record'.gen = record.gen
    PROVE  RefreshInv'
<1>1. Step(t, FreeJob) /\ runLock = t /\ runLock' = None
  BY DEF Done, RefreshInv, ControlInv, LockInv
<1>2. JobOK(FreeJob)'
  BY FreeJobType, JobStands DEF JobOK, FreeJob
<1>3. /\ job' \in [Tasks -> Jobs] /\ job'[t] = FreeJob
      /\ \A u \in Tasks \ {t} : job'[u] = job[u]
      /\ \A u \in Tasks : JobOK(job[u])'
  BY <1>1, <1>2, FreeJobType, JobsStep
<1>4. TypeInv'
  BY <1>1, <1>3, AroundTypes
<1>5. RecordInv'
  BY DEF RecordInv
<1>6. \A u \in Tasks : ~Pinned(u)' /\ job'[u].op # "remove"
  BY <1>1, <1>3, FreeJobType DEF RefreshInv, ControlInv, LockInv, Pinned
<1>7. GenInv'
  BY <1>3, <1>6, FreeJobType DEF RefreshInv, ControlInv, GenInv, Watching
<1>8. LockInv' /\ PinInv'
  BY <1>6 DEF LockInv, PinInv
<1> QED
  BY <1>3, <1>4, <1>5, <1>7, <1>8 DEF RefreshInv, ControlInv

-----------------------------------------------------------------------------
(* Ways of leaving the record *)

LEMMA KeptRecord == RefreshInv /\ record' = record => SameWatch
  BY DEF RefreshInv, TypeInv, RecordInv, SameWatch

LEMMA LaidAside ==
    ASSUME RefreshInv, record # None, NEW status \in Resting \cup StaleStates,
           record' = [record EXCEPT !.status = status, !.pending = None]
    PROVE  SameWatch
<1>1. record \in Records
  BY DEF RefreshInv, TypeInv
<1>2. PICK r \in Records : r = record
  BY <1>1
<1>3. PICK q : q = [r EXCEPT !.status = status, !.pending = None]
  OBVIOUS
<1>4. /\ q \in Records /\ q.status = status /\ q.pending = None
      /\ q.gen = r.gen /\ q.fp = r.fp /\ q.source = r.source
  BY <1>2, <1>3 DEF Records
<1>5. RecordOK(q)
  BY <1>4 DEF RecordOK, Resting, StaleStates
<1> QED
  BY <1>2, <1>3, <1>4, <1>5 DEF SameWatch

LEMMA GoneStale == RefreshInv /\ record # None /\ Staleness # None /\ Stale(Staleness) => SameWatch
<1> SUFFICES ASSUME RefreshInv, record # None, Staleness # None, Stale(Staleness)
             PROVE  SameWatch
  OBVIOUS
<1>1. PICK status \in StaleStates : status = Staleness
  BY StalenessRange
<1> QED
  BY <1>1, LaidAside DEF Stale

LEMMA Erred ==
    RefreshInv /\ record # None /\ record' = [record EXCEPT !.status = "error"] => SameWatch
<1> SUFFICES ASSUME RefreshInv, record # None, record' = [record EXCEPT !.status = "error"]
             PROVE  SameWatch
  OBVIOUS
<1>1. PICK r \in Records : r = record /\ RecordOK(r)
  BY DEF RefreshInv, TypeInv, RecordInv
<1>2. PICK q : q = [r EXCEPT !.status = "error"]
  OBVIOUS
<1>3. /\ q \in Records /\ q.status = "error" /\ q.pending = r.pending
      /\ q.gen = r.gen /\ q.fp = r.fp /\ q.source = r.source
  BY <1>1, <1>2 DEF Records
<1>4. RecordOK(q)
  BY <1>1, <1>3 DEF RecordOK, Resting, StaleStates
<1> QED
  BY <1>1, <1>2, <1>3, <1>4 DEF SameWatch

-----------------------------------------------------------------------------
(* Steps: an operation that ends *)

\* Ending, with the watch as it was.
LEMMA EndsKeeps ==
    ASSUME RefreshInv, Around, NEW t \in Tasks, Done(t), SameWatch,
           counts'.watches = counts.watches
    PROVE  RefreshInv'
<1>1. Step(t, FreeJob) /\ (runLock' = runLock \/ (runLock = t /\ runLock' = None))
  BY DEF Done
<1>2. JobOK(FreeJob)'
  BY FreeJobType DEF JobOK, FreeJob
<1> QED
  BY <1>1, <1>2, FreeJobType, ControlMoves

LEMMA RaisesKeeps ==
    ASSUME RefreshInv, NEW t \in Tasks, Raises(t), UNCHANGED <<registryVars, validators>>,
           counts' = counts \/ Spend("faults")
    PROVE  RefreshInv'
<1>1. Around /\ counts'.watches = counts.watches
  BY DEF Raises, registryVars, nativeVars, RefreshInv, TypeInv, Around, Spend
<1>2. SameWatch
  <2>1. CASE job[t].op = "check" /\ ActiveWatch(t)
    <3>1. record # None
      BY <2>1 DEF ActiveWatch
    <3>2. CASE Staleness # None
      BY <2>1, <3>1, <3>2, GoneStale DEF Raises
    <3>3. CASE Staleness = None
      BY <2>1, <3>1, <3>3, Erred DEF Raises
    <3> QED
      BY <3>2, <3>3
  <2>2. CASE ~(job[t].op = "check" /\ ActiveWatch(t))
    BY <2>2, KeptRecord DEF Raises
  <2> QED
    BY <2>1, <2>2
<1> QED
  BY <1>1, <1>2, EndsKeeps DEF Raises

LEMMA FailuresKeep ==
    ASSUME RefreshInv, NEW t \in Tasks,
           ReadFails(t) \/ Fails(t) \/ CommitLost(t) \/ RememberFails(t)
    PROVE  RefreshInv'
<1>1. Raises(t) /\ UNCHANGED <<registryVars, validators>> /\ (counts' = counts \/ Spend("faults"))
  BY DEF ReadFails, Fails, CommitLost, RememberFails
<1> QED
  BY <1>1, RaisesKeeps

\* What stands still in a step that moves neither registry nor provider.
LEMMA Quiet ==
    ASSUME RefreshInv, UNCHANGED <<registryVars, world, remote, validators, pending>>,
           counts' = counts \/ Spend("starts") \/ Spend("moves") \/ Spend("watches")
    PROVE  /\ Around
           /\ UNCHANGED <<tools, version>>
           /\ counts' = counts \/ Spend("starts") \/ Spend("moves")
                 => counts'.watches = counts.watches
           /\ Spend("watches") => counts'.watches = counts.watches + 1
  BY DEF registryVars, RefreshInv, TypeInv, Around, Spend

LEMMA CheckStatusKeeps ==
    ASSUME RefreshInv, NEW t \in Tasks, CheckStatus(t)
    PROVE  RefreshInv'
<1>1. Around /\ UNCHANGED <<tools, version>> /\ counts'.watches = counts.watches
  BY Quiet DEF CheckStatus, nativeVars
<1>2. job[t].op = "check" /\ Pinned(t) /\ runLock = t
  BY DEF CheckStatus, At, RefreshInv, JobOK, Pinned, ControlInv, LockInv
<1>3. CASE ActiveWatch(t) /\ Staleness = None
  <2>1. PICK r : r = [job[t] EXCEPT !.at = "version", !.watch = Pin]
    OBVIOUS
  <2>2. Step(t, r) /\ UNCHANGED <<record, runLock>> /\ record # None
    BY <1>3, <2>1 DEF CheckStatus, watchVars, ActiveWatch
  <2>3. job[t] \in Jobs /\ record \in Records
    BY <2>2 DEF RefreshInv, TypeInv
  <2>4. Pin \in Pins
    BY <2>3 DEF Pin, Pins, Records
  <2>5. r \in Jobs /\ r.at = "version" /\ r.op = "check" /\ r.watch = Pin
    BY <1>2, <2>1, <2>3, <2>4 DEF Jobs
  <2>6. JobOK(r)'
    BY <2>4, <2>5 DEF JobOK
  <2> QED
    BY <1>1, <1>2, <2>2, <2>5, <2>6, ControlPins
<1>4. CASE ~(ActiveWatch(t) /\ Staleness = None)
  <2>1. Done(t) /\ (IF ActiveWatch(t) THEN Stale(Staleness) ELSE UNCHANGED record)
    BY <1>4 DEF CheckStatus
  <2>2. SameWatch
    BY <1>4, <2>1, GoneStale, KeptRecord DEF ActiveWatch
  <2> QED
    BY <1>1, <2>1, <2>2, EndsKeeps
<1> QED
  BY <1>3, <1>4

-----------------------------------------------------------------------------
(* Steps: operations begin *)

LEMMA StartCheckKeeps ==
    ASSUME RefreshInv, NEW t \in Tasks, StartCheck(t)
    PROVE  RefreshInv'
<1>1. Around /\ UNCHANGED <<tools, version>> /\ counts'.watches = counts.watches
  BY Quiet DEF StartCheck, nativeVars
<1>2. PICK r : r = [FreeJob EXCEPT !.op = "check", !.at = "status", !.watch = Pin]
  OBVIOUS
<1>3. Step(t, r) /\ record # None /\ record' = record /\ runLock = None /\ runLock' = t
  BY <1>2 DEF StartCheck
<1>4. Pin \in Pins
  BY <1>3 DEF Pin, Pins, RefreshInv, TypeInv, Records
<1>5. r \in Jobs /\ r.at = "status" /\ r.op = "check" /\ r.watch = Pin
  BY <1>2, <1>4, FreeJobType DEF Jobs
<1>6. JobOK(r)'
  BY <1>4, <1>5 DEF JobOK
<1> QED
  BY <1>1, <1>3, <1>5, <1>6, ControlPins

\* The operator accepts what is pending against the watched contract.
LEMMA StartAcceptKeeps ==
    ASSUME RefreshInv, NEW t \in Tasks, StartAccept(t)
    PROVE  RefreshInv'
<1>1. Around /\ UNCHANGED <<tools, version>> /\ counts'.watches = counts.watches
  BY Quiet DEF StartAccept, nativeVars
<1>2. PICK r : r = [FreeJob EXCEPT !.op = "accept", !.at = "version", !.watch = Pin,
                                   !.expect = record.pending]
  OBVIOUS
<1>3. /\ Step(t, r) /\ record # None /\ record' = record /\ runLock = None /\ runLock' = t
      /\ record.pending # None /\ record.pending.reviewed = record.fp
  BY <1>2 DEF StartAccept, Expected
<1>4. Pin \in Pins /\ Pin.fp = record.fp /\ record.pending \in Decisions
  BY <1>3 DEF Pin, Pins, RefreshInv, TypeInv, Records
<1>5. r \in Jobs /\ r.at = "version" /\ r.op = "accept" /\ r.watch = Pin
      /\ r.expect = record.pending
  BY <1>2, <1>4, FreeJobType DEF Jobs
<1>6. JobOK(r)'
  BY <1>3, <1>4, <1>5 DEF JobOK
<1> QED
  BY <1>1, <1>3, <1>5, <1>6, ControlPins

LEMMA DecisionsKeep ==
    ASSUME RefreshInv, NEW t \in Tasks, DecideTooLate(t) \/ Reject(t)
    PROVE  RefreshInv'
<1>1. Around /\ counts'.watches = counts.watches /\ UNCHANGED <<job, runLock>>
  BY Quiet DEF DecideTooLate, Reject, nativeVars
<1>2. record # None
  BY DEF DecideTooLate, Reject, Expected
<1>3. SameWatch
  <2>1. CASE DecideTooLate(t)
    BY <1>2, <2>1, GoneStale DEF DecideTooLate
  <2>2. CASE Reject(t)
    <3>1. record' = [record EXCEPT !.status = "rejected", !.pending = None]
      BY <2>2, <1>2 DEF Reject, RefreshInv, TypeInv, Records
    <3>2. "rejected" \in Resting \cup StaleStates
      BY DEF Resting
    <3> QED
      BY <1>2, <3>1, <3>2, LaidAside
  <2> QED
    BY <2>1, <2>2
<1> QED
  BY <1>1, <1>3, ControlStands

\* A refresh that pins no watch begins.
LEMMA UnpinnedStarts ==
    ASSUME RefreshInv, Around, NEW t \in Tasks, NEW r \in Jobs, Step(t, r),
           UNCHANGED <<record, runLock>>, counts'.watches = counts.watches,
           r.at = "version", r.op \in {"refresh", "refreshNative", "sweep", "acceptNative"},
           r.op = "acceptNative" => r.expect \in Documents
    PROVE  RefreshInv'
<1>1. JobOK(r)'
  BY DEF JobOK
<1> QED
  BY <1>1, KeptRecord, ControlMoves

LEMMA StartRefreshKeeps ==
    ASSUME RefreshInv, NEW t \in Tasks, NEW op \in {"refresh", "refreshNative", "sweep"},
           StartRefresh(t, op)
    PROVE  RefreshInv'
<1>1. Around /\ UNCHANGED <<tools, version, record, runLock>> /\ counts'.watches = counts.watches
  BY Quiet DEF StartRefresh, nativeVars, watchVars
<1>2. PICK r : r = [FreeJob EXCEPT !.op = op, !.at = "version"]
  OBVIOUS
<1>3. r \in Jobs /\ r.at = "version" /\ r.op = op
  BY <1>2, FreeJobType DEF Jobs
<1> QED
  BY <1>1, <1>2, <1>3, UnpinnedStarts DEF StartRefresh

LEMMA StartAcceptNativeKeeps ==
    ASSUME RefreshInv, NEW t \in Tasks, StartAcceptNative(t)
    PROVE  RefreshInv'
<1>1. Around /\ UNCHANGED <<tools, version, record, runLock>> /\ counts'.watches = counts.watches
  BY Quiet DEF StartAcceptNative, nativeVars, watchVars
<1>2. PICK expect \in Documents : expect = pending
  BY DEF StartAcceptNative, RefreshInv, TypeInv
<1>3. PICK r : r = [FreeJob EXCEPT !.op = "acceptNative", !.at = "version", !.expect = expect]
  OBVIOUS
<1>4. r \in Jobs /\ r.at = "version" /\ r.op = "acceptNative" /\ r.expect = expect
  BY <1>3, FreeJobType DEF Jobs
<1> QED
  BY <1>1, <1>2, <1>3, <1>4, UnpinnedStarts DEF StartAcceptNative

\* A watch is registered under a generation of its own.
LEMMA StartWatchKeeps ==
    ASSUME RefreshInv, NEW t \in Tasks, StartWatch(t)
    PROVE  RefreshInv'
<1>1. Around /\ UNCHANGED <<tools, version, record, runLock>>
      /\ counts'.watches = counts.watches + 1
  BY Quiet DEF StartWatch, nativeVars, watchVars
<1>2. counts.watches \in Nat
  BY DEF RefreshInv, TypeInv
<1>3. PICK g \in Nat, c \in Contracts : g = counts.watches + 1 /\ c = Current
  BY <1>2, CurrentType DEF StartWatch, RefreshInv
<1>4. PICK r : r = [FreeJob EXCEPT !.op = "watch", !.at = "store", !.current = c, !.base = g]
               /\ Step(t, r)
  BY <1>3 DEF StartWatch
<1>5. r \in Jobs /\ r.at = "store" /\ r.op = "watch" /\ r.current \in Contracts
      /\ r.base = counts.watches + 1
  BY <1>3, <1>4, FreeJobType DEF Jobs
<1>6. JobOK(r)'
  BY <1>5 DEF JobOK
<1>7. /\ job' \in [Tasks -> Jobs] /\ job'[t] = r
      /\ \A u \in Tasks \ {t} : job'[u] = job[u]
      /\ \A u \in Tasks : JobOK(job[u])'
  BY <1>1, <1>4, <1>5, <1>6, JobsStep
<1>8. TypeInv'
  BY <1>1, <1>7, AroundTypes DEF RefreshInv, TypeInv
<1>9. RecordInv' /\ LockInv'
  BY <1>1, <1>5, <1>7 DEF RefreshInv, ControlInv, RecordInv, LockInv, Pinned
<1>10. PinInv'
  BY <1>1, <1>5, <1>7 DEF RefreshInv, ControlInv, PinInv, Pinned, ActiveWatch
<1>11. GenInv'
  <2>1. \A u \in Tasks \ {t} : Pinned(u)' = Pinned(u) /\ Watching(u)' = Watching(u)
    BY <1>7 DEF Pinned, Watching
  <2>2. ~Pinned(t)'
    BY <1>5, <1>7 DEF Pinned
  <2>3. \A u \in Tasks : Pinned(u)' => job'[u].watch.gen <= counts.watches
                                      /\ job'[u].watch.gen \in Nat
    BY <1>7, <2>1, <2>2 DEF RefreshInv, ControlInv, GenInv, JobOK, Pinned, Pins
  <2>4. record' # None => record'.gen <= counts.watches /\ record'.gen \in Nat
    BY <1>1 DEF RefreshInv, TypeInv, Records, ControlInv, GenInv
  <2>5. \A u \in Tasks \ {t} : Watching(u)' => job'[u].base \in 1 .. counts.watches
    BY <1>7, <2>1 DEF RefreshInv, ControlInv, GenInv
  <2>6. \A u \in Tasks \ {t} : Watching(u)' =>
            /\ record' # None => record'.gen # job'[u].base
            /\ \A v \in Tasks : Pinned(v)' => job'[v].watch.gen # job'[u].base
            /\ \A v \in Tasks \ {t} : Watching(v)' /\ job'[v].base = job'[u].base => v = u
    BY <1>1, <1>7, <2>1, <2>2 DEF RefreshInv, ControlInv, GenInv
  <2> QED
    BY <1>1, <1>2, <1>5, <1>7, <2>3, <2>4, <2>5, <2>6 DEF GenInv, Watching
<1> QED
  BY <1>7, <1>8, <1>9, <1>10, <1>11 DEF RefreshInv, ControlInv

LEMMA StoreWatchKeeps ==
    ASSUME RefreshInv, NEW t \in Tasks, StoreWatch(t)
    PROVE  RefreshInv'
<1>1. Around /\ UNCHANGED <<tools, version, runLock>> /\ counts'.watches = counts.watches
  BY Quiet DEF StoreWatch, nativeVars
<1>2. /\ job[t] \in Jobs /\ JobOK(job[t]) /\ job[t].at = "store" /\ Watching(t)
      /\ job[t].current \in Contracts
  BY DEF StoreWatch, RefreshInv, TypeInv, JobOK, At, Watching
<1>3. /\ job' \in [Tasks -> Jobs] /\ job'[t] = FreeJob
      /\ \A u \in Tasks \ {t} : job'[u] = job[u]
      /\ \A u \in Tasks : JobOK(job[u])'
  <2>1. JobOK(FreeJob)' /\ Step(t, FreeJob)
    BY FreeJobType DEF JobOK, FreeJob, StoreWatch
  <2> QED
    BY <1>1, <2>1, FreeJobType, JobsStep
<1>4. PICK g \in Nat, c \in Contracts : g = job[t].base /\ c = job[t].current
  BY <1>2 DEF Jobs
<1>5. record' = Watch(g, c)
  BY <1>4 DEF StoreWatch
<1>6. /\ Watch(g, c) \in Records /\ RecordOK(Watch(g, c)) /\ Watch(g, c).gen = g
  BY RegistryAssumption DEF Watch, Records, Sources, Resting, RecordOK
<1>7. TypeInv' /\ RecordInv'
  BY <1>1, <1>3, <1>5, <1>6, AroundTypes DEF RefreshInv, TypeInv, RecordInv
<1>8. \A u \in Tasks : Pinned(u)' => Pinned(u) /\ u # t
  BY <1>3, FreeJobType DEF Pinned
<1>9. LockInv'
  BY <1>1, <1>3, <1>8, FreeJobType DEF RefreshInv, ControlInv, LockInv, Pinned
<1>10. \A u \in Tasks : Pinned(u) => job[u].watch.gen # g
  BY <1>2, <1>4 DEF RefreshInv, ControlInv, GenInv
<1>11. PinInv'
  BY <1>3, <1>5, <1>6, <1>8, <1>10 DEF PinInv, ActiveWatch
<1>12. GenInv'
  <2>1. \A u \in Tasks : Watching(u)' => Watching(u) /\ u # t
    BY <1>3, FreeJobType DEF Watching
  <2>2. g \in 1 .. counts.watches /\ \A u \in Tasks : Watching(u) /\ job[u].base = g => u = t
    BY <1>2, <1>4 DEF RefreshInv, ControlInv, GenInv
  <2>3. GenInv
    BY DEF RefreshInv, ControlInv
  <2> QED
    BY <1>1, <1>3, <1>5, <1>6, <1>8, <2>1, <2>2, <2>3 DEF GenInv
<1> QED
  BY <1>3, <1>7, <1>9, <1>11, <1>12 DEF RefreshInv, ControlInv

LEMMA UnwatchKeeps ==
    ASSUME RefreshInv, NEW t \in Tasks, Unwatch(t)
    PROVE  RefreshInv'
<1>1. Around /\ counts'.watches = counts.watches /\ UNCHANGED <<job, runLock>> /\ SameWatch
  BY Quiet DEF Unwatch, nativeVars, SameWatch
<1> QED
  BY <1>1, ControlStands

LEMMA StartRemoveKeeps ==
    ASSUME RefreshInv, NEW t \in Tasks, StartRemove(t)
    PROVE  RefreshInv'
<1>1. PICK r : r = [FreeJob EXCEPT !.op = "remove", !.at = "purge"]
  OBVIOUS
<1>2. /\ Step(t, r) /\ runLock = None /\ runLock' = t /\ record' = record
      /\ counts' = counts
      /\ version' = version + 1 /\ tools' = [tools EXCEPT ![Tool] = Absent]
      /\ UNCHANGED <<world, remote, validators, pending>>
  BY <1>1 DEF StartRemove, UnregisterIfFingerprint, CommitChangedToolKeys, nativeVars
<1>3. tools' \in Catalogs
  BY <1>2 DEF RefreshInv, TypeInv, Catalogs
<1>4. Around
  BY <1>2, <1>3 DEF Around, RefreshInv, TypeInv
<1>5. r \in Jobs /\ r.at = "purge" /\ r.op = "remove"
  BY <1>1, FreeJobType DEF Jobs
<1>6. JobOK(r)'
  BY <1>5 DEF JobOK
<1>7. /\ job' \in [Tasks -> Jobs] /\ job'[t] = r
      /\ \A u \in Tasks \ {t} : job'[u] = job[u]
      /\ \A u \in Tasks : JobOK(job[u])'
  BY <1>2, <1>4, <1>5, <1>6, JobsStep
<1>8. TypeInv' /\ RecordInv'
  BY <1>2, <1>4, <1>7, AroundTypes DEF RefreshInv, TypeInv, RecordInv
<1>9. LockInv'
  BY <1>2, <1>7, ADecisionIsSomething DEF RefreshInv, ControlInv, LockInv, Pinned
<1>10. GenInv'
  BY <1>2, <1>5, <1>7 DEF RefreshInv, ControlInv, GenInv, Pinned, Watching
<1>11. PinInv'
  BY <1>2, <1>5, <1>7 DEF RefreshInv, ControlInv, PinInv, Pinned, ActiveWatch
<1> QED
  BY <1>7, <1>8, <1>9, <1>10, <1>11 DEF RefreshInv, ControlInv

LEMMA PurgeKeeps ==
    ASSUME RefreshInv, NEW t \in Tasks, Purge(t)
    PROVE  RefreshInv'
<1>1. SameWatch /\ Done(t)
  BY DEF Purge, SameWatch
<1>2. Around /\ counts'.watches = counts.watches
  BY DEF Purge, Around, RefreshInv, TypeInv, registryVars, Validators
<1> QED
  BY <1>1, <1>2, EndsKeeps

-----------------------------------------------------------------------------
(* Steps: the refresh *)

\* An operation goes on with what it has pinned.
LEMMA GoesOn ==
    ASSUME RefreshInv, Around, NEW t \in Tasks, NEW r \in Jobs, Step(t, r), JobOK(r)',
           UNCHANGED <<record, runLock>>, counts'.watches = counts.watches,
           r.op = job[t].op, r.watch = job[t].watch, r.op # "watch"
    PROVE  RefreshInv'
  BY KeptRecord, ControlMoves

LEMMA ReadVersionKeeps ==
    ASSUME RefreshInv, NEW t \in Tasks, ReadVersion(t)
    PROVE  RefreshInv'
<1>1. Around /\ UNCHANGED <<tools, version, record, runLock>> /\ counts'.watches = counts.watches
  BY Quiet DEF ReadVersion, nativeVars, watchVars
<1>2. PICK j \in Jobs : j = job[t] /\ JobOK(j) /\ j.at = "version"
  BY DEF ReadVersion, RefreshInv, TypeInv, At
<1>3. version \in Nat
  BY DEF RefreshInv, TypeInv
<1>4. PICK r : r = [j EXCEPT !.at = "read", !.base = version]
  OBVIOUS
<1>5. Step(t, r)
  BY <1>2, <1>4 DEF ReadVersion
<1>6. /\ r \in Jobs /\ r.at = "read" /\ r.base = version
      /\ r.op = j.op /\ r.watch = j.watch /\ r.expect = j.expect
  BY <1>2, <1>3, <1>4 DEF Jobs
<1>7. JobOK(r)' /\ r.op # "watch"
  BY <1>1, <1>2, <1>3, <1>6 DEF JobOK
<1> QED
  BY <1>1, <1>2, <1>5, <1>6, <1>7, GoesOn

LEMMA ReadToolKeeps ==
    ASSUME RefreshInv, NEW t \in Tasks, ReadTool(t)
    PROVE  RefreshInv'
<1>1. PICK j \in Jobs : j = job[t] /\ JobOK(j) /\ j.at = "read" /\ j.op # "watch"
  <2>1. job[t] \in Jobs /\ JobOK(job[t]) /\ job[t].at = "read"
    BY DEF ReadTool, RefreshInv, TypeInv, At
  <2>2. job[t].op # "watch"
    BY <2>1 DEF JobOK
  <2> QED
    BY <2>1, <2>2
<1>2. PICK c \in Contracts : c = Current
  BY CurrentType DEF ReadTool, AsPinned, RefreshInv
<1>3. j.op \in {"check", "accept"} => SourceOf[c] = j.watch.source /\ FpOf[c] = j.watch.fp
  BY <1>1, <1>2 DEF ReadTool, AsPinned, Pinned
<1>4. tools[Tool] = c
  BY <1>2 DEF Current
<1>5. ValidatorsFor(Current) \in Validators
  BY <1>2, CarriedType DEF ValidatorsFor, RefreshInv, TypeInv
<1>6. UNCHANGED <<tools, version, record, runLock, counts, world, remote, pending>>
  BY DEF ReadTool, registryVars, watchVars, nativeVars
<1>7. CASE j.op = "acceptNative"
  <2>1. PICK r : r = [j EXCEPT !.current = c, !.at = "apply", !.candidate = j.expect]
    OBVIOUS
  <2>2. Step(t, r) /\ validators' = validators
    <3>1. [[j EXCEPT !.current = c] EXCEPT !.at = "apply", !.candidate = j.expect]
            = [j EXCEPT !.current = c, !.at = "apply", !.candidate = j.expect]
      OBVIOUS
    <3>2. [j EXCEPT !.current = c].expect = j.expect
      BY <1>1 DEF Jobs
    <3> QED
      BY <1>1, <1>2, <1>7, <2>1, <3>1, <3>2 DEF ReadTool
  <2>3. j.expect \in Contracts
    BY <1>1, <1>7, RefreshAssumption DEF JobOK
  <2>4. /\ r \in Jobs /\ r.at = "apply" /\ r.op = "acceptNative" /\ r.watch = j.watch
        /\ r.base = j.base /\ r.current = c /\ r.candidate = j.expect /\ r.expect = j.expect
    BY <1>1, <1>7, <2>1, <2>3 DEF Jobs
  <2>5. Around /\ counts'.watches = counts.watches
    BY <1>6, <2>2 DEF Around, RefreshInv, TypeInv
  <2>6. Due(r)'
    BY <2>3, <2>4 DEF Due, Hidden, IsAmended
  <2>7. r.expect \in Documents
    BY <1>1, <1>7, <2>4 DEF JobOK
  <2>8. r.base <= version /\ tools[Tool] = r.current
    BY <1>1, <1>4, <2>4 DEF JobOK
  <2>9. JobOK(r)'
    BY <1>2, <1>6, <2>4, <2>6, <2>7, <2>8 DEF JobOK
  <2> QED
    BY <1>1, <1>6, <1>7, <2>2, <2>4, <2>5, <2>9, GoesOn
<1>8. CASE j.op # "acceptNative"
  <2>1. PICK sent \in Validators :
            /\ Step(t, [j EXCEPT !.current = c, !.at = "fetch", !.sent = sent])
            /\ validators' \in Validators
    <3>1. CASE j.op \in {"sweep", "refreshNative"}
      <4>1. Step(t, [[j EXCEPT !.current = c] EXCEPT !.at = "fetch"]) /\ validators' = validators
        BY <1>1, <1>2, <1>8, <3>1 DEF ReadTool
      <4>2. j.sent \in Validators
        BY <1>1 DEF Jobs
      <4>3. [[j EXCEPT !.current = c] EXCEPT !.at = "fetch"]
              = [j EXCEPT !.current = c, !.at = "fetch", !.sent = j.sent]
        BY <1>1 DEF Jobs
      <4> QED
        BY <4>1, <4>2, <4>3 DEF RefreshInv, TypeInv
    <3>2. CASE j.op \notin {"sweep", "refreshNative"}
      <4>1. /\ Step(t, [[j EXCEPT !.current = c] EXCEPT !.at = "fetch",
                                                      !.sent = ValidatorsFor(Current)])
            /\ validators' = ValidatorsFor(Current)
        BY <1>1, <1>2, <1>8, <3>2 DEF ReadTool
      <4>2. [[j EXCEPT !.current = c] EXCEPT !.at = "fetch", !.sent = ValidatorsFor(Current)]
              = [j EXCEPT !.current = c, !.at = "fetch", !.sent = ValidatorsFor(Current)]
        OBVIOUS
      <4> QED
        BY <1>5, <4>1, <4>2
    <3> QED
      BY <3>1, <3>2
  <2>2. PICK r : r = [j EXCEPT !.current = c, !.at = "fetch", !.sent = sent]
    OBVIOUS
  <2>3. /\ r \in Jobs /\ r.at = "fetch" /\ r.op = j.op /\ r.watch = j.watch
        /\ r.base = j.base /\ r.current = c /\ r.expect = j.expect
    BY <1>1, <2>1, <2>2 DEF Jobs
  <2>4. Around /\ counts'.watches = counts.watches
    BY <1>6, <2>1 DEF Around, RefreshInv, TypeInv
  <2>5. JobOK(r)'
    BY <1>1, <1>3, <1>4, <1>6, <2>3 DEF JobOK
  <2> QED
    BY <1>1, <1>6, <2>1, <2>2, <2>3, <2>4, <2>5, GoesOn
<1> QED
  BY <1>7, <1>8

\* What a refresh finds at work between its read and its conclusion.
LEMMA AtWork ==
    ASSUME RefreshInv, NEW t \in Tasks, job[t].at \in {"fetch", "apply", "remember", "conclude"}
    PROVE  /\ job[t] \in Jobs /\ JobOK(job[t]) /\ job[t].op # "watch"
           /\ job[t].current \in Contracts
           /\ Pinned(t) => /\ SourceOf[job[t].current] = job[t].watch.source
                           /\ FpOf[job[t].current] = job[t].watch.fp
<1>1. job[t] \in Jobs /\ JobOK(job[t])
  BY DEF RefreshInv, TypeInv
<1> QED
  BY <1>1 DEF JobOK, Pinned

\* A decision is reached.
LEMMA ResultKeeps ==
    ASSUME RefreshInv, NEW t \in Tasks, job[t].at \in {"fetch", "remember"},
           NEW action \in {"unchanged", "applied", "report_only", "pending_review"},
           NEW new \in Contracts, Result(t, Decided(action, job[t].current, new)),
           UNCHANGED <<registryVars, world, remote, watchVars, nativeVars, counts>>,
           validators' \in Validators
    PROVE  RefreshInv'
<1>1. PICK j \in Jobs : j = job[t] /\ JobOK(j) /\ j.op # "watch" /\ j.current \in Contracts
                        /\ j.at \in {"fetch", "remember"}
  BY AtWork
<1>2. PICK d \in Decisions :
          d = Decided(action, job[t].current, new) /\ d.reviewed = FpOf[j.current]
  BY <1>1, DecidedType
<1>3. PICK r : r = [j EXCEPT !.at = "conclude", !.result = d]
  OBVIOUS
<1>4. Step(t, r)
  BY <1>1, <1>2, <1>3 DEF Result
<1>5. /\ r \in Jobs /\ r.at = "conclude" /\ r.op = j.op /\ r.watch = j.watch
      /\ r.current = j.current /\ r.expect = j.expect /\ r.result = d
  BY <1>1, <1>2, <1>3 DEF Jobs
<1>6. JobOK(r)'
  BY <1>1, <1>2, <1>5 DEF JobOK
<1>7. Around /\ counts'.watches = counts.watches /\ UNCHANGED <<record, runLock>>
  BY DEF Around, RefreshInv, TypeInv, registryVars, watchVars, nativeVars
<1> QED
  BY <1>1, <1>4, <1>5, <1>6, <1>7, GoesOn

\* A document is going to be applied.
LEMMA AppliesKeeps ==
    ASSUME RefreshInv, NEW t \in Tasks, job[t].at = "fetch", NEW new \in Contracts,
           Step(t, [job[t] EXCEPT !.at = "apply", !.candidate = new]),
           UNCHANGED <<registryVars, world, remote, watchVars, pending, counts>>,
           validators' \in Validators,
           job[t].op \in {"check", "refresh", "sweep", "refreshNative"} =>
               world.apply /\ Verdict[job[t].current, new] # "review",
           job[t].op \in {"check", "refresh"} =>
               Verdict[DocOf[job[t].current], DocOf[new]] # "review" \/ Hidden(job[t].current, new),
           job[t].op = "accept" =>
               FpOf[new] = job[t].expect.candidate /\ SourceOf[new] = job[t].expect.source
    PROVE  RefreshInv'
<1>1. PICK j \in Jobs : j = job[t] /\ JobOK(j) /\ j.op # "watch" /\ j.at = "fetch"
  BY AtWork
<1>2. PICK r : r = [j EXCEPT !.at = "apply", !.candidate = new]
  OBVIOUS
<1>3. Step(t, r)
  BY <1>1, <1>2
<1>4. /\ r \in Jobs /\ r.at = "apply" /\ r.op = j.op /\ r.watch = j.watch /\ r.base = j.base
      /\ r.current = j.current /\ r.expect = j.expect /\ r.candidate = new
  BY <1>1, <1>2 DEF Jobs
<1>5. UNCHANGED <<tools, version, world, record, runLock, counts>>
  BY DEF registryVars, watchVars
<1>6. Due(r)
  BY <1>1, <1>4 DEF Due
<1>7. Due(r)'
  BY <1>5, <1>6 DEF Due, Hidden, IsAmended
<1>8. JobOK(r)'
  BY <1>1, <1>4, <1>5, <1>7 DEF JobOK
<1>9. Around
  BY <1>5 DEF Around, RefreshInv, TypeInv
<1> QED
  BY <1>1, <1>3, <1>4, <1>5, <1>8, <1>9, GoesOn

LEMMA NotModifiedKeeps ==
    ASSUME RefreshInv, NEW t \in Tasks, NotModified(t)
    PROVE  RefreshInv'
<1>1. job[t].at = "fetch" /\ job[t].current \in Contracts
  BY AtWork DEF NotModified, At
<1>2. remote \in Documents
  BY DEF RefreshInv, TypeInv
<1>3. validators' \in Validators
  BY <1>1, <1>2 DEF NotModified, Validators, Sources
<1> QED
  BY <1>1, <1>3, ResultKeeps DEF NotModified

LEMMA WorldType == ASSUME TypeInv PROVE world.apply \in BOOLEAN
<1>1. world \in World
  BY RefreshAssumption DEF TypeInv
<1> QED
  BY <1>1 DEF World

LEMMA FetchedKeeps ==
    ASSUME RefreshInv, NEW t \in Tasks, Fetched(t)
    PROVE  RefreshInv'
<1>1. PICK c \in Contracts : c = job[t].current
  BY AtWork DEF Fetched, At
<1>2. PICK doc \in Documents : doc = remote
  BY DEF RefreshInv, TypeInv
<1>3. PICK apply \in BOOLEAN : apply = world.apply
  BY WorldType DEF RefreshInv
<1>4. PICK outcome \in {"unchanged", "apply", "report_only", "pending_review"} :
          outcome = Outcome(c, doc, apply)
  BY OutcomeRange
<1>5. /\ job[t].at = "fetch" /\ job[t].op \in {"check", "refresh"}
      /\ IF outcome = "apply"
         THEN Step(t, [job[t] EXCEPT !.at = "apply", !.candidate = Effective(c, doc)])
         ELSE Result(t, Decided(outcome, c, Candidate(c, doc)))
      /\ validators' = (IF outcome = "unchanged" THEN Carried(remote) ELSE validators)
      /\ UNCHANGED <<registryVars, world, remote, watchVars, nativeVars, counts>>
  BY <1>1, <1>2, <1>3, <1>4, Zenon DEF Fetched, At
<1>6. validators' \in Validators
  BY <1>2, <1>5, CarriedType, RefreshAssumption DEF RefreshInv, TypeInv
<1>7. CASE outcome = "apply"
  <2>1. PICK new \in Contracts : /\ new = Effective(c, doc)
                                 /\ apply /\ Verdict[c, new] # "review"
                                 /\ Verdict[DocOf[c], DocOf[new]] # "review" \/ Hidden(c, new)
    BY <1>4, <1>7, AppliedIsCompatible
  <2>2. Step(t, [job[t] EXCEPT !.at = "apply", !.candidate = new])
    BY <1>5, <1>7, <2>1
  <2>3. UNCHANGED pending
    BY <1>5 DEF nativeVars
  <2> QED
    BY <1>1, <1>3, <1>5, <1>6, <2>1, <2>2, <2>3, AppliesKeeps
<1>8. CASE outcome # "apply"
  <2>1. PICK new \in Contracts : new = Candidate(c, doc)
    BY EffectiveType
  <2>2. Result(t, Decided(outcome, job[t].current, new))
    BY <1>1, <1>5, <1>8, <2>1
  <2>3. outcome \in {"unchanged", "applied", "report_only", "pending_review"}
    BY <1>8
  <2> QED
    BY <1>5, <1>6, <2>2, <2>3, ResultKeeps
<1> QED
  BY <1>7, <1>8

LEMMA FetchedForReviewKeeps ==
    ASSUME RefreshInv, NEW t \in Tasks, FetchedForReview(t)
    PROVE  RefreshInv'
<1>1. PICK c \in Contracts : c = job[t].current
  BY AtWork DEF FetchedForReview, At
<1>2. PICK doc \in Documents : doc = remote
  BY DEF RefreshInv, TypeInv
<1>3. PICK new \in Contracts : new = Candidate(c, doc)
  BY EffectiveType
<1>4. /\ job[t].at = "fetch" /\ job[t].op = "accept"
      /\ IF /\ Effective(c, doc) # Absent
            /\ SourceOf[new] = job[t].expect.source
            /\ FpOf[new] = job[t].expect.candidate
         THEN Step(t, [job[t] EXCEPT !.at = "apply", !.candidate = new])
         ELSE Result(t, Decided("pending_review", c, new))
      /\ UNCHANGED <<registryVars, world, remote, watchVars, validators, nativeVars, counts>>
  BY <1>1, <1>2, <1>3, Zenon DEF FetchedForReview, At
<1>5. validators' \in Validators /\ UNCHANGED pending
  BY <1>4 DEF RefreshInv, TypeInv, nativeVars
<1>6. CASE Step(t, [job[t] EXCEPT !.at = "apply", !.candidate = new])
           /\ SourceOf[new] = job[t].expect.source /\ FpOf[new] = job[t].expect.candidate
  BY <1>4, <1>5, <1>6, AppliesKeeps
<1>7. CASE Result(t, Decided("pending_review", c, new))
  BY <1>1, <1>4, <1>5, <1>7, ResultKeeps
<1> QED
  BY <1>4, <1>6, <1>7

LEMMA IntrospectedKeeps ==
    ASSUME RefreshInv, NEW t \in Tasks, Introspected(t)
    PROVE  RefreshInv'
<1>1. PICK doc \in Contracts : doc = remote /\ doc \in Documents
  BY RefreshAssumption DEF RefreshInv, TypeInv
<1>2. /\ job[t].at = "fetch" /\ job[t].op \in {"sweep", "refreshNative"}
      /\ UNCHANGED <<registryVars, world, remote, watchVars, validators, counts>>
  BY DEF Introspected, At
<1>3. CASE Verdict[job[t].current, remote] = "compatible" /\ world.apply
  <2>1. Step(t, [job[t] EXCEPT !.at = "apply", !.candidate = doc]) /\ UNCHANGED pending
    BY <1>1, <1>3 DEF Introspected
  <2>2. validators' \in Validators
    BY <1>2 DEF RefreshInv, TypeInv
  <2> QED
    BY <1>1, <1>2, <1>3, <2>1, <2>2, AppliesKeeps
<1>4. CASE ~(Verdict[job[t].current, remote] = "compatible" /\ world.apply)
  <2>1. Step(t, FreeJob) /\ pending' \in {None, remote, pending}
    BY <1>4 DEF Introspected
  <2>2. Around /\ counts'.watches = counts.watches /\ UNCHANGED <<record, runLock>>
    BY <1>2, <2>1 DEF Around, RefreshInv, TypeInv, registryVars, watchVars
  <2>3. JobOK(FreeJob)'
    BY FreeJobType DEF JobOK, FreeJob
  <2> QED
    BY <2>1, <2>2, <2>3, FreeJobType, KeptRecord, ControlMoves
<1> QED
  BY <1>3, <1>4

\* The write itself.
LEMMA CommitWrites ==
    ASSUME RefreshInv, NEW t \in Tasks, Commit(t)
    PROVE  /\ version' = version + 1
           /\ job[t].candidate \in Contracts
           /\ tools' = [tools EXCEPT ![Tool] = job[t].candidate] /\ tools' \in Catalogs
<1>1. job[t].candidate \in Contracts
  BY AtWork DEF Commit, At, JobOK, Due
<1> QED
  BY <1>1 DEF Commit, ReplaceIfFingerprint, CommitChangedToolKeys, RefreshInv, TypeInv, Catalogs

LEMMA CommitKeeps ==
    ASSUME RefreshInv, NEW t \in Tasks, Commit(t)
    PROVE  RefreshInv'
<1>1. PICK j \in Jobs : /\ j = job[t] /\ JobOK(j) /\ j.op # "watch" /\ j.at = "apply"
                        /\ j.current \in Contracts
  BY AtWork DEF Commit, At
<1>2. /\ UNCHANGED <<world, remote, validators, record, runLock, counts>>
      /\ pending' \in {None, pending}
  BY DEF Commit, watchVars
<1>3. Around
  BY <1>2, CommitWrites DEF Around, RefreshInv, TypeInv
<1>4. CASE Remote
  <2>1. PICK r : r = [j EXCEPT !.at = "remember"]
    OBVIOUS
  <2>2. Step(t, r)
    BY <1>1, <1>4, <2>1 DEF Commit, Goto
  <2>3. /\ r \in Jobs /\ r.at = "remember" /\ r.op = j.op /\ r.watch = j.watch
        /\ r.current = j.current /\ r.expect = j.expect /\ r.candidate = j.candidate
    BY <1>1, <2>1 DEF Jobs
  <2>4. JobOK(r)'
    BY <1>1, <2>3, CommitWrites DEF JobOK
  <2> QED
    BY <1>1, <1>2, <1>3, <2>2, <2>3, <2>4, GoesOn
<1>5. CASE ~Remote
  <2>1. Step(t, FreeJob)
    BY <1>5 DEF Commit
  <2>2. JobOK(FreeJob)'
    BY FreeJobType DEF JobOK, FreeJob
  <2> QED
    BY <1>2, <1>3, <2>1, <2>2, FreeJobType, KeptRecord, ControlMoves
<1> QED
  BY <1>4, <1>5

LEMMA RememberKeeps ==
    ASSUME RefreshInv, NEW t \in Tasks, Remember(t)
    PROVE  RefreshInv'
<1>1. /\ job[t].at = "remember" /\ job[t].current \in Contracts /\ job[t].candidate \in Contracts
  BY AtWork DEF Remember, At, JobOK
<1>2. validators' \in Validators
  <2>1. (IF IsAmended(job[t].current) THEN job[t].candidate ELSE Current) \in Contracts
    BY <1>1, CurrentType DEF Remember, RefreshInv
  <2> QED
    BY <2>1, CarriedType DEF Remember
<1> QED
  BY <1>1, <1>2, ResultKeeps DEF Remember

-----------------------------------------------------------------------------
(* Steps: the watcher concludes *)

LEMMA NowPending ==
    ASSUME RefreshInv, record # None, NEW d \in Decisions, d.reviewed = record.fp,
           record' = [record EXCEPT !.status = "pending_review", !.pending = d]
    PROVE  SameWatch
<1>1. PICK r \in Records : r = record
  BY DEF RefreshInv, TypeInv
<1>2. PICK q : q = [r EXCEPT !.status = "pending_review", !.pending = d]
  OBVIOUS
<1>3. /\ q \in Records /\ q.status = "pending_review" /\ q.pending = d
      /\ q.gen = r.gen /\ q.fp = r.fp /\ q.source = r.source
  BY <1>1, <1>2 DEF Records
<1>4. RecordOK(q)
  BY <1>1, <1>3, ADecisionIsSomething DEF RecordOK, Resting, StaleStates
<1> QED
  BY <1>1, <1>2, <1>3, <1>4 DEF SameWatch

LEMMA NowApplied ==
    ASSUME RefreshInv, record # None, NEW fp \in Fps,
           record' = [record EXCEPT !.status = "applied", !.pending = None, !.fp = fp]
    PROVE  record' \in Records /\ RecordOK(record') /\ record'.gen = record.gen
<1>1. PICK r \in Records : r = record
  BY DEF RefreshInv, TypeInv
<1>2. PICK q : q = [r EXCEPT !.status = "applied", !.pending = None, !.fp = fp]
  OBVIOUS
<1>3. "applied" \in Resting
  BY DEF Resting
<1>4. /\ q \in Records /\ q.status = "applied" /\ q.pending = None /\ q.gen = r.gen
  BY <1>1, <1>2, <1>3 DEF Records
<1>5. RecordOK(q)
  BY <1>4 DEF RecordOK
<1> QED
  BY <1>1, <1>2, <1>4, <1>5

LEMMA ConcludeKeeps ==
    ASSUME RefreshInv, NEW t \in Tasks, Conclude(t)
    PROVE  RefreshInv'
<1>1. PICK d \in Decisions : d = job[t].result /\ d.reviewed = FpOf[job[t].current]
  BY AtWork DEF Conclude, At, JobOK
<1>2. Around /\ counts'.watches = counts.watches /\ Done(t)
  BY DEF Conclude, Around, RefreshInv, TypeInv, registryVars, nativeVars
<1>3. d.action \in {"unchanged", "applied", "report_only", "pending_review"} /\ d.candidate \in Fps
  BY <1>1 DEF Decisions
<1>4. CASE record' = record
  BY <1>2, <1>4, KeptRecord, EndsKeeps
<1>5. CASE record' # record
  <2>1. /\ Pinned(t) /\ ActiveWatch(t)
        /\ record' = AfterCheck(d) \/ record' = AfterAccept(d)
    BY <1>1, <1>5 DEF Conclude
  <2>2. record # None /\ d.reviewed = record.fp
    BY <1>1, <2>1, AtWork DEF Conclude, At, ActiveWatch, RefreshInv, ControlInv, PinInv
  <2>3. \/ record' = [record EXCEPT !.status = "applied", !.pending = None, !.fp = d.candidate]
        \/ record' = [record EXCEPT !.status = "pending_review", !.pending = d]
        \/ \E status \in Resting \cup StaleStates :
              record' = [record EXCEPT !.status = status, !.pending = None]
    <3>1. \/ AfterApply(d) = [record EXCEPT !.status = "applied", !.pending = None,
                                            !.fp = d.candidate]
          \/ \E status \in StaleStates :
                AfterApply(d) = [record EXCEPT !.status = status, !.pending = None]
      BY DEF AfterApply, StaleStates
    <3>2. \/ AfterCheck(d) = AfterApply(d)
          \/ /\ Staleness # None
             /\ AfterCheck(d) = [record EXCEPT !.status = Staleness, !.pending = None]
          \/ AfterCheck(d) = [record EXCEPT !.status = "pending_review", !.pending = d]
          \/ /\ d.action \in {"unchanged", "report_only"}
             /\ AfterCheck(d) = [record EXCEPT !.status = d.action, !.pending = None]
      <4> HIDE DEF AfterApply, Staleness
      <4> QED
        BY <1>3 DEF AfterCheck
    <3>3. \/ AfterAccept(d) = AfterApply(d)
          \/ AfterAccept(d) = record
          \/ AfterAccept(d) = [record EXCEPT !.status = "pending_review", !.pending = d]
      BY DEF AfterAccept
    <3>4. {"unchanged", "report_only"} \subseteq Resting
      BY DEF Resting
    <3> QED
      BY <1>5, <2>1, <3>1, <3>2, <3>3, <3>4, StalenessRange
  <2>4. CASE record' = [record EXCEPT !.status = "applied", !.pending = None, !.fp = d.candidate]
    BY <1>2, <1>3, <2>1, <2>2, <2>4, NowApplied, ControlConcludes
  <2>5. CASE record' = [record EXCEPT !.status = "pending_review", !.pending = d]
    BY <1>2, <2>2, <2>5, NowPending, EndsKeeps
  <2>6. CASE \E status \in Resting \cup StaleStates :
                record' = [record EXCEPT !.status = status, !.pending = None]
    BY <1>2, <2>2, <2>6, LaidAside, EndsKeeps
  <2> QED
    BY <2>3, <2>4, <2>5, <2>6
<1> QED
  BY <1>4, <1>5

-----------------------------------------------------------------------------
(* The world around *)

LEMMA WorldKeeps ==
    ASSUME RefreshInv, Show \/ ProviderMoves \/ OtherWrites
    PROVE  RefreshInv'
<1>1. UNCHANGED <<world, record, runLock, validators, pending, job>>
      /\ counts'.watches = counts.watches
  BY DEF Show, ProviderMoves, OtherWrites, Spend, watchVars, nativeVars, RefreshInv, TypeInv
<1>2. counts' \in [{"moves", "faults", "starts", "others", "watches"} -> Nat]
  <2>1. counts' = counts \/ Spend("moves") \/ Spend("others")
    BY DEF Show, ProviderMoves, OtherWrites
  <2>2. counts \in [{"moves", "faults", "starts", "others", "watches"} -> Nat]
    BY DEF RefreshInv, TypeInv
  <2> QED
    BY <2>1, <2>2 DEF Spend
<1>3. remote' \in Documents
  BY DEF Show, ProviderMoves, OtherWrites, RefreshInv, TypeInv
<1>4. \/ tools' = tools /\ version' = version
      \/ tools' \in Catalogs /\ version' = version + 1
  <2>1. CASE Show \/ ProviderMoves
    BY <2>1 DEF Show, ProviderMoves, registryVars
  <2>2. CASE OtherWrites
    <3>1. world.pool \subseteq Contracts
      <4>1. world \in World
        BY RefreshAssumption DEF RefreshInv, TypeInv
      <4> QED
        BY <4>1 DEF World
    <3>2. PICK c \in Contracts \cup {Absent} :
              tools' = [tools EXCEPT ![Tool] = c] /\ version' = version + 1
      BY <2>2, <3>1 DEF OtherWrites, Unregister, Register, CommitChangedToolKeys
    <3> QED
      BY <3>2 DEF RefreshInv, TypeInv, Catalogs
  <2> QED
    BY <2>1, <2>2
<1>5. Around
  BY <1>1, <1>2, <1>3, <1>4 DEF Around, RefreshInv, TypeInv
<1> QED
  BY <1>1, <1>5, KeptRecord, ControlStands

LEMMA StutterKeeps == RefreshInv /\ UNCHANGED vars => RefreshInv'
<1> SUFFICES ASSUME RefreshInv, UNCHANGED vars PROVE RefreshInv'
  OBVIOUS
<1>1. Around /\ UNCHANGED <<record, runLock, job, counts>>
  BY DEF vars, registryVars, watchVars, nativeVars, Around, RefreshInv, TypeInv
<1> QED
  BY <1>1, KeptRecord, ControlStands

LEMMA RefreshInit == Init => RefreshInv
<1> SUFFICES ASSUME Init PROVE RefreshInv
  OBVIOUS
<1>1. world \in World /\ world.pool \subseteq Contracts
  <2>1. world \in World
    BY RefreshAssumption DEF Init
  <2> QED
    BY <2>1 DEF World
<1>2. PICK c \in Contracts :
          /\ tools = [k \in Keys |-> IF k = Tool THEN c ELSE Absent]
          /\ remote = DocOf[c]
          /\ record = IF Remote THEN Watch(0, c) ELSE None
          /\ validators = IF Remote THEN Carried(c) ELSE None
  BY <1>1 DEF Init
<1>3. Watch(0, c) \in Records /\ RecordOK(Watch(0, c)) /\ Watch(0, c).gen = 0
  BY RegistryAssumption DEF Watch, Records, Sources, Resting, RecordOK
<1>4. \A t \in Tasks : job[t] = FreeJob
  BY DEF Init
<1>5. TypeInv
  <2>1. remote \in Documents /\ tools \in Catalogs /\ validators \in Validators
    BY <1>2, CarriedType, RefreshAssumption DEF Catalogs, Validators
  <2>2. record \in Records \cup {None}
    BY <1>2, <1>3
  <2>3. job \in [Tasks -> Jobs]
    BY FreeJobType DEF Init
  <2> QED
    BY <2>1, <2>2, <2>3 DEF Init, TypeInv
<1>6. \A t \in Tasks : JobOK(job[t]) /\ ~Pinned(t) /\ ~Watching(t) /\ job[t].op # "remove"
  <2>1. JobOK(FreeJob) /\ FreeJob.op = "none"
    BY FreeJobType
  <2> QED
    BY <1>4, <2>1 DEF Pinned, Watching
<1>7. counts.watches = 0
  BY DEF Init
<1>8. ControlInv
  BY <1>2, <1>3, <1>6, <1>7 DEF ControlInv, LockInv, GenInv, PinInv
<1>9. RecordInv
  BY <1>2, <1>3 DEF RecordInv
<1> QED
  BY <1>5, <1>6, <1>8, <1>9 DEF RefreshInv

LEMMA RefreshStep == RefreshInv /\ [Next]_vars => RefreshInv'
<1> SUFFICES ASSUME RefreshInv, [Next]_vars PROVE RefreshInv'
  OBVIOUS
<1>1. ASSUME NEW t \in Tasks, Progress(t) PROVE RefreshInv'
  BY <1>1, CheckStatusKeeps, ReadVersionKeeps, ReadToolKeeps, FailuresKeep, NotModifiedKeeps,
     FetchedKeeps, FetchedForReviewKeeps, IntrospectedKeeps, CommitKeeps, RememberKeeps,
     ConcludeKeeps, StoreWatchKeeps, PurgeKeeps, Zenon DEF Progress
<1>2. ASSUME NEW t \in Tasks, Begin(t) PROVE RefreshInv'
  BY <1>2, DecisionsKeep, StartAcceptKeeps, StartAcceptNativeKeeps, StartRefreshKeeps,
     StartWatchKeeps, UnwatchKeeps, StartRemoveKeeps, FailuresKeep DEF Begin
<1>3. ASSUME NEW t \in Tasks, Loop(t) PROVE RefreshInv'
  BY <1>3, StartCheckKeeps, StartRefreshKeeps DEF Loop
<1> QED
  BY <1>1, <1>2, <1>3, WorldKeeps, StutterKeeps DEF Next

LEMMA RefreshInvariant == Spec => []RefreshInv
  BY RefreshInit, RefreshStep, PTL DEF Spec

-----------------------------------------------------------------------------
(* Theorems *)

\* One operation at a time decides about the watch, and the record shows a review
\* exactly while there is one, against the contract it watches
\* (SchemaWatchManager._run_record, accept_pending, reject_pending).
THEOREM WatchTypes == Spec => []WatchTypeOK
<1>1. RefreshInv => WatchTypeOK
  <2> SUFFICES ASSUME RefreshInv PROVE WatchTypeOK
    OBVIOUS
  <2>1. \A t \in Tasks : Pinned(t) \/ job[t].op = "remove" => runLock = t
    BY DEF RefreshInv, ControlInv, LockInv
  <2>2. record # None => record \in Records /\ RecordOK(record)
    BY DEF RefreshInv, TypeInv, RecordInv
  <2> QED
    BY <2>1, <2>2 DEF WatchTypeOK, Records, RecordOK
<1> QED
  BY <1>1, RefreshInvariant, PTL

\* Only the commit of a refresh writes for it.
LEMMA OnlyCommits ==
    ASSUME RefreshInv, Next, NEW t \in Tasks, At(t, "apply"), job'[t].at # "apply",
           version' # version
    PROVE  Commit(t)
<1>1. PICK u \in Tasks : Progress(u) \/ Begin(u) \/ Loop(u)
  <2>1. ~(Show \/ ProviderMoves \/ OtherWrites)
    BY DEF Show, ProviderMoves, OtherWrites, At
  <2> QED
    BY <2>1 DEF Next
<1>2. Commit(u) \/ StartRemove(u)
  BY <1>1 DEF Progress, Begin, Loop, registryVars, CheckStatus, ReadVersion, ReadTool, ReadFails,
     NotModified, Fetched, FetchedForReview, Introspected, CommitLost, Remember, RememberFails,
     Conclude, StoreWatch, Purge, DecideTooLate, StartAccept, Reject, StartAcceptNative,
     StartRefresh, StartWatch, Unwatch, Fails, StartCheck
<1>3. u # t => job'[t] = job[t]
  BY <1>2 DEF Commit, StartRemove, Step, Goto, RefreshInv, TypeInv
<1>4. u = t
  BY <1>3 DEF At
<1>5. ~StartRemove(t)
  BY DEF StartRemove, Starts, At
<1> QED
  BY <1>2, <1>4, <1>5

\* A refresh writes over the contract it compared, for a change that is compatible
\* or, if the provider's is not, hidden by an amendment, or for
\* the candidate an operator named, and for the watch it was pinned to
\* (_commit_schema_refresh, accept_pending): any interleaving of providers,
\* operators, other refreshes, removals and foreign writes.
THEOREM WritesAreDue == Spec => OnlyDueWrites
<1> DEFINE W(t) == At(t, "apply") /\ job'[t].at # "apply" /\ version' # version =>
            LET old == Current  new == tools'[Tool]  op == job[t].op IN
            /\ old = job[t].current
            /\ Pinned(t) => /\ record # None
                            /\ record.source = SourceOf[old] /\ record.fp = FpOf[old]
            /\ IF op \in {"check", "refresh", "sweep", "refreshNative"}
               THEN /\ world.apply /\ Verdict[old, new] # "review"
                    /\ op \in {"check", "refresh"} =>
                          Verdict[DocOf[old], DocOf[new]] # "review" \/ Hidden(old, new)
               ELSE op = "accept" =>
                       /\ FpOf[new] = job[t].expect.candidate
                       /\ FpOf[old] = job[t].expect.reviewed
                       /\ SourceOf[new] = job[t].expect.source
<1>1. RefreshInv /\ [Next]_vars => [\A t \in Tasks : W(t)]_vars
  <2> SUFFICES ASSUME RefreshInv, Next, NEW t \in Tasks,
                      At(t, "apply"), job'[t].at # "apply", version' # version
               PROVE  W(t)
    BY Zenon
  <2>1. Commit(t)
    BY OnlyCommits
  <2>2. PICK j \in Jobs : /\ j = job[t] /\ JobOK(j) /\ j.at = "apply" /\ j.current \in Contracts
                          /\ Pinned(t) => /\ SourceOf[j.current] = j.watch.source
                                          /\ FpOf[j.current] = j.watch.fp
    BY AtWork DEF At
  <2>3. Due(j) /\ version = j.base
    BY <2>1, <2>2 DEF Commit, MayCommit, JobOK
  <2>4. Current = j.current
    BY <2>2, <2>3 DEF JobOK, Current
  <2>5. tools'[Tool] = j.candidate
    BY <2>1, <2>2, CommitWrites, RefreshAssumption DEF RefreshInv, TypeInv, Catalogs
  <2>6. Pinned(t) => record # None /\ record.source = SourceOf[j.current]
                     /\ record.fp = FpOf[j.current]
    BY <2>1, <2>2 DEF Commit, MayCommit, ActiveWatch, RefreshInv, ControlInv, PinInv
  <2>7. j.op = "accept" => j.expect.reviewed = FpOf[j.current]
    BY <2>2 DEF JobOK, Pinned
  <2> QED
    BY <2>2, <2>3, <2>4, <2>5, <2>6, <2>7 DEF Due
<1>2. Spec => [][\A t \in Tasks : W(t)]_vars
  BY <1>1, RefreshInvariant, PTL DEF Spec
<1> QED
  BY <1>2 DEF OnlyDueWrites

=============================================================================
