----------------------------- MODULE PlanRunProofs -----------------------------
(***************************************************************************)
(* Proofs about PlanRun.  What a call puts on its way (start, end, error,  *)
(* unavailable) passes three places in order: the worker, the queue, and   *)
(* the trace with the event that is about to be written.  The inductive    *)
(* invariant says of each place what may still come after what is ahead of *)
(* it: a start of a candidate that nobody opened, an end of one that is    *)
(* open, and nothing of a call that was won.                               *)
(***************************************************************************)
EXTENDS PlanRun, FiniteSetTheorems, SequenceTheorems, TLAPS

-----------------------------------------------------------------------------
(* The inductive invariant *)

\* The stream has not been stopped.
Live == outcome \in {None, "run.end"}

Closers == {"end", "post", "unavailable", "error"}
Values == {"end", "post"}
Enders == {"tool.end", "tool.error", "indeterminate"}
ToolNames == Enders \cup {"tool.start", "tool.fallback"}

\* The event on the trace, about to be written, or either.
Told(names, k) == \E i \in 1 .. Len(trace) : trace[i].name \in names /\ trace[i].key = k
Due(names, k) == Doing("emit") /\ Head(agenda).name \in names /\ Head(agenda).key = k
Handled(names, k) == Told(names, k) \/ Due(names, k)

\* The same, or ahead of place q of the queue.
Queued(q, kinds, k) == \E p \in 1 .. q : queue[p].kind \in kinds /\ queue[p].key = k
Opened(q, k) == Handled({"tool.start"}, k) \/ Queued(q, {"start"}, k)
Settled(q, k) == Handled(Enders, k) \/ Queued(q, Closers, k)
Won(q, k) == Handled({"tool.end"}, k) \/ Queued(q, Values, k)

\* An item of this kind that comes after the first q of the queue.
Fits(kind, k, q) ==
    /\ \A d \in 1 .. 2 : ~Won(q, <<k[1], d>>)
    /\ kind = "start" =>
          \A d \in 1 .. 2 :
             /\ d < k[2] /\ Opened(q, <<k[1], d>>) => Settled(q, <<k[1], d>>)
             /\ d >= k[2] => ~Opened(q, <<k[1], d>>)
    /\ kind \in Closers =>
          /\ Opened(q, k) /\ ~Settled(q, k)
          /\ \A d \in 1 .. 2 : d > k[2] => ~Opened(q, <<k[1], d>>)

Kinds == {"preflight", "cooldown", "start"} \cup Closers
ItemType == [kind : Kinds, key : Keys, more : BOOLEAN]

\* An item about candidates in keys, of calls before n.
ItemIn(item, keys, n) ==
    /\ item \in [kind : Kinds, key : keys, more : BOOLEAN]
    /\ item.key[1] < n
    /\ item.kind \in {"start", "cooldown"} => item.more
    /\ item.kind \in {"end", "post", "error", "preflight"} => ~item.more

StartOf(k) == Item("start", k, TRUE)

States == [at : {"gone", "idle", "call"}, key : Keys \cup {None}, left : {<<>>, << 2 >>},
           items : Seq(ItemType), cancelled : BOOLEAN]

WorkerOK(w) ==
    LET s == workers[w] IN
    /\ s \in States
    /\ Len(s.items) <= 2
    /\ \A p \in 1 .. Len(s.items) : ItemIn(s.items[p], Keys, next)
    /\ s.at = "gone" => s.items = <<>>
    /\ s.at = "idle" => Len(s.items) <= 1 /\ (s.items # <<>> => Final(s.items[1]))
    /\ s.at = "call" =>
          /\ s.key \in Keys /\ s.key[1] < next
          /\ s.left = << 2 >> => s.key[2] = 1
          /\ s.items # <<>> => Events
          /\ Len(s.items) = 1 => s.items[1] = StartOf(s.key)
          /\ Len(s.items) = 2 => /\ s.key[2] = 2
                                 /\ s.items[1].kind \in {"cooldown", "unavailable"}
                                 /\ s.items[1].key = <<s.key[1], 1>> /\ s.items[1].more
                                 /\ s.items[2] = StartOf(s.key)

Owns(w, i) == \/ workers[w].at = "call" /\ workers[w].key[1] = i
              \/ workers[w].items # <<>> /\ workers[w].items[1].key[1] = i

\* An item in the queue, at the front of what a worker has to put, a worker at k.
InQueue(p, kind, k) == p \in 1 .. Len(queue) /\ queue[p].kind = kind /\ queue[p].key = k
Front(w, kind, k) ==
    /\ workers[w].items # <<>>
    /\ workers[w].items[1].kind = kind /\ workers[w].items[1].key = k
AtKey(w, k) == workers[w].at = "call" /\ workers[w].key = k
Started(w) == workers[w].items = <<>>

\* What a worker at a candidate has under way goes on from the n items of the queue.
WorkerFits(w, k, n) ==
    \A d \in 1 .. 2 :
       /\ ~Won(n, <<k[1], d>>)
       /\ d > k[2] \/ (d = k[2] /\ ~Started(w)) => ~Opened(n, <<k[1], d>>)
       /\ d = k[2] /\ Started(w) => Opened(n, k) /\ ~Settled(n, k)
       /\ d < k[2] /\ Opened(n, <<k[1], d>>) =>
             Settled(n, <<k[1], d>>) \/ Front(w, "unavailable", <<k[1], d>>)

\* Neither the candidate a worker is at nor the ones after it have been answered.
WorkerClear(w, k) ==
    \A d \in 1 .. 2 :
       /\ d >= k[2] => ~Told(Enders, <<k[1], d>>) /\ reached[<<k[1], d>>] # "value"
       /\ d > k[2] \/ (d = k[2] /\ ~Started(w)) => reached[<<k[1], d>>] = "no"

\* What an item says of the provider.
ItemTrue(kind, k) ==
    /\ kind \in Values => reached[k] = "value"
    /\ kind \in {"unavailable", "error"} => reached[k] # "value"

BaseOK ==
    /\ world \in World
    /\ pc \in {"go", "yield", "gather", "drain", "flush", "finally", "leaving", "over"}
    /\ outcome \in {None, "run.end", "raised", "closed", "lost"}
    /\ next \in 1 .. Len(world.chain) + 1
    /\ ended \in 0 .. Len(world.chain)

QueueOK ==
    /\ queue \in Seq(ItemType) /\ Len(queue) <= Capacity
    /\ \A p \in 1 .. Len(queue) : ItemIn(queue[p], Keys, next)

WorkersOK ==
    /\ DOMAIN workers = Workers
    /\ \A w \in Workers : WorkerOK(w)
    /\ \A v, w \in Workers, i \in Calls : Owns(v, i) /\ Owns(w, i) => v = w

ReachedOK ==
    /\ reached \in [Keys -> {"no", "yes", "value"}]
    /\ \A k \in Keys : k[1] >= next => reached[k] = "no"

TypesInv == BaseOK /\ QueueOK /\ WorkersOK /\ ReachedOK

\* What the stream may be about to do.
Startup == {<<Emit("run.start", None), Do("plan")>>, <<Do("plan")>>,
            <<Emit("plan.end", None), Do("launch")>>, <<Do("launch")>>}
Finishing == {<<Emit("run.end", None), Do("finish")>>, <<Do("finish")>>}
Aborting == <<Do("abort"), Emit("run.error", None), Do("raise")>>
Ending(name, k) == <<Emit(name, k), Do("abort"), Emit("run.error", None), Do("raise")>>
OneEvent(names) == {<<Emit(name, k)>> : name \in names, k \in Keys}
Going == {<<>>} \cup OneEvent({"tool.start", "tool.end", "tool.fallback"})
               \cup {<<Emit("tool.error", k), Emit("tool.fallback", k)>> : k \in Keys}
Failing == {Aborting, Failure, <<Do("raise")>>}
           \cup {Ending(name, k) : name \in {"tool.end", "tool.error"}, k \in Keys}

AgendaInv ==
    /\ pc = "go" /\ Events => agenda \in Startup \cup Finishing \cup Going \cup Failing
    /\ pc = "go" /\ ~Events => agenda \in {<<Do("launch")>>, <<Do("raise")>>, <<>>} \cup OneEvent({"result"})
    /\ pc = "yield" /\ Events => agenda \in {<<Do("plan")>>, <<Do("launch")>>, <<Do("finish")>>,
                                             <<Do("raise")>>, <<>>, Aborting}
                                            \cup OneEvent({"tool.fallback"})
    /\ pc = "yield" /\ ~Events => agenda = <<>>
    /\ pc \in {"gather", "drain", "flush"} => agenda = Failure /\ Events
    /\ pc \in {"finally", "leaving", "over"} => agenda = <<>>
    /\ pc \in {"go", "yield", "gather", "drain", "flush"} => Live
    /\ pc \in {"go", "yield"} => (outcome = "run.end" <=> Events /\ agenda \in Finishing)
    /\ pc \in {"gather", "drain", "flush"} => outcome = None
    /\ pc \in {"finally", "leaving", "over"} => outcome # None
    /\ pc \in {"go", "yield"} /\ agenda # <<>> /\ Head(agenda).do = "emit"
       /\ Head(agenda).name \in ToolNames \cup {"result"} =>
          Head(agenda).key \in Keys /\ Head(agenda).key[1] < next

\* The ledger is exact, but for the event that is being yielded.
Booked == \/ pc \in {"go", "gather", "drain", "flush"}
          \/ pc \in {"finally", "leaving"} /\ outcome = "run.end"

LedgerInv ==
    /\ started \subseteq Keys /\ closed \subseteq started
    /\ Booked =>
          /\ sequence = Len(trace)
          /\ \A k \in Keys : k \in started <=> Told({"tool.start"}, k)
          /\ \A k \in Keys : k \in closed <=> Told(Enders, k)
    /\ pc = "yield" =>
          /\ Len(trace) > 0 /\ sequence = Len(trace) - 1
          /\ trace[Len(trace)].name # "indeterminate"
          /\ \A k \in Keys : Told({"tool.start"}, k) <=>
                k \in started \/ (trace[Len(trace)].name = "tool.start" /\ trace[Len(trace)].key = k)
          /\ \A k \in Keys : Told(Enders, k) <=>
                k \in closed \/ (trace[Len(trace)].name \in Enders /\ trace[Len(trace)].key = k)

EventNames == ToolNames \cup {"run.start", "plan.end", "run.error", "run.end", "result"}

TraceInv ==
    /\ trace \in Seq([name : EventNames, key : Keys \cup {None}, sequence : Nat])
    /\ \A i \in 1 .. Len(trace) :
          /\ trace[i].name \in ToolNames => trace[i].key \in Keys /\ trace[i].key[1] < next
          /\ trace[i].name = "result" <=> ~Events
          /\ trace[i].sequence = i - 1
          /\ trace[i].name = "run.start" => i = 1
          /\ i = 1 /\ Events => trace[i].name = "run.start"
          /\ trace[i].name \in {"run.end", "run.error"} => i = Len(trace)
          /\ trace[i].name = "tool.end" => reached[trace[i].key] = "value"
          /\ trace[i].name = "tool.error" => reached[trace[i].key] # "value"
    /\ \A i, j \in 1 .. Len(trace) : trace[i].key = trace[j].key =>
          /\ trace[i].name = "tool.start" /\ trace[j].name = "tool.start" => i = j
          /\ trace[i].name \in Enders /\ trace[j].name \in Enders => i = j
    /\ \A k \in Keys : Told(Enders, k) => Told({"tool.start"}, k)
    /\ \A w \in Workers, k \in Keys : AtKey(w, k) => WorkerClear(w, k)

PipeInv ==
    /\ \A k \in Keys :
          /\ Handled(Enders, k) => Handled({"tool.start"}, k)
          /\ Due({"tool.start"}, k) => ~Told({"tool.start"}, k)
          /\ Due(Enders, k) => ~Told(Enders, k)
          /\ Due({"tool.end"}, k) => reached[k] = "value"
          /\ Due({"tool.error"}, k) => reached[k] # "value"
          /\ \A n \in 0 .. Len(queue) : n = Len(queue) /\ reached[k] # "no" => Opened(n, k)
    /\ \A i \in Calls :
          /\ Handled({"tool.start"}, <<i, 1>>) /\ Handled({"tool.start"}, <<i, 2>>)
                => Handled(Enders, <<i, 1>>)
          /\ \A c, d \in 1 .. 2 :
                Handled({"tool.end"}, <<i, c>>) /\ Handled({"tool.start"}, <<i, d>>)
                   => Handled(Enders, <<i, d>>)
    /\ \A kind \in Kinds, k \in Keys, p \in 1 .. Len(queue) :
          InQueue(p, kind, k) => Fits(kind, k, p - 1) /\ ItemTrue(kind, k)
    /\ \A n \in 0 .. Len(queue), w \in Workers, k \in Keys : n = Len(queue) =>
          /\ AtKey(w, k) => WorkerFits(w, k, n)
          /\ \A kind \in Kinds : Front(w, kind, k) => Fits(kind, k, n) /\ ItemTrue(kind, k)

\* Nothing has failed so far: the calls that were won are the calls that ended.
Unfailed == outcome = "run.end" \/ (pc \in {"go", "yield"} /\ agenda \notin Failing)
WonCalls == {i \in Calls : \E d \in 1 .. 2 : Handled({"tool.end"}, <<i, d>>)}

CountInv ==
    /\ Unfailed => ended = Cardinality(WonCalls)
    /\ outcome = "run.end" => ended = Len(world.chain)

AllClosed == \A k \in Keys : Told({"tool.start"}, k) => Told(Enders, k)
Last == trace[Len(trace)].name

QuietAgenda ==
    /\ pc \in {"go", "yield"} /\ agenda \in Startup => AllGone /\ next = 1 /\ queue = <<>>
    /\ pc \in {"go", "yield"} /\ agenda \in Finishing => AllGone
    /\ pc \in {"drain", "flush"} => AllGone
    /\ pc = "flush" \/ (pc = "go" /\ agenda = Failure) => AllGone /\ queue = <<>> /\ AllClosed

RunStart == <<Emit("run.start", None), Do("plan")>>

QuietTrace ==
    /\ trace = <<>> => \/ pc = "go" /\ agenda = RunStart
                       \/ pc \in {"finally", "leaving", "over"} /\ outcome # "run.end"
    /\ pc = "go" /\ agenda = RunStart => trace = <<>>

\* What holds of a run that says it is over.
Settling ==
    /\ AllGone /\ AllClosed
    /\ \A k \in Keys : reached[k] # "no" => Told({"tool.start"}, k)
    /\ Last = "run.end" => \A i \in Calls : \E d \in 1 .. 2 : Told({"tool.end"}, <<i, d>>)

QuietEnd ==
    Concluded =>
       /\ Settling
       /\ \/ pc \in {"go", "yield"} /\ agenda \in {<<Do("raise")>>, <<Do("finish")>>}
          \/ pc = "over"
          \/ pc \in {"finally", "leaving"} /\ outcome # "run.end"

\* Nobody is at work before the start and after the end.
QuietInv == QuietAgenda /\ QuietTrace /\ QuietEnd

RunInv ==
    /\ TypesInv /\ AgendaInv /\ LedgerInv /\ TraceInv
    /\ pc = "over" => AllGone
    /\ Events /\ Live => PipeInv
    /\ Events => CountInv /\ QuietInv

-----------------------------------------------------------------------------
(* Short sequences *)

LEMMA Cat11 == ASSUME NEW a, NEW b PROVE <<a>> \o <<b>> = <<a, b>>
<1> DEFINE S == {a, b}
<1>1. <<a>> \in Seq(S) /\ <<b>> \in Seq(S) /\ <<a, b>> \in Seq(S)
  OBVIOUS
<1>2. <<a>> \o <<b>> \in Seq(S) /\ Len(<<a>> \o <<b>>) = 2
  BY <1>1
<1>3. \A i \in 1 .. 2 : (<<a>> \o <<b>>)[i] = <<a, b>>[i]
  BY <1>1
<1> HIDE DEF S
<1> QED BY <1>1, <1>2, <1>3, SeqEqual

LEMMA Cat12 == ASSUME NEW a, NEW b, NEW c PROVE <<a>> \o <<b, c>> = <<a, b, c>>
<1> DEFINE S == {a, b, c}
<1>1. <<a>> \in Seq(S) /\ <<b, c>> \in Seq(S) /\ <<a, b, c>> \in Seq(S)
  OBVIOUS
<1>2. <<a>> \o <<b, c>> \in Seq(S) /\ Len(<<a>> \o <<b, c>>) = 3
  BY <1>1
<1>3. \A i \in 1 .. 3 : (<<a>> \o <<b, c>>)[i] = <<a, b, c>>[i]
  BY <1>1
<1> HIDE DEF S
<1> QED BY <1>1, <1>2, <1>3, SeqEqual

LEMMA Cat22 == ASSUME NEW a, NEW b, NEW c, NEW d PROVE <<a, b>> \o <<c, d>> = <<a, b, c, d>>
<1> DEFINE S == {a, b, c, d}
<1>1. <<a, b>> \in Seq(S) /\ <<c, d>> \in Seq(S) /\ <<a, b, c, d>> \in Seq(S)
  OBVIOUS
<1>2. <<a, b>> \o <<c, d>> \in Seq(S) /\ Len(<<a, b>> \o <<c, d>>) = 4
  BY <1>1
<1>3. \A i \in 1 .. 4 : (<<a, b>> \o <<c, d>>)[i] = <<a, b, c, d>>[i]
  BY <1>1
<1> HIDE DEF S
<1> QED BY <1>1, <1>2, <1>3, SeqEqual

LEMMA Tails ==
    \A a, b, c, d : /\ Tail(<<a>>) = <<>> /\ Tail(<<a, b>>) = <<b>>
                    /\ Tail(<<a, b, c>>) = <<b, c>> /\ Tail(<<a, b, c, d>>) = <<b, c, d>>
OBVIOUS

LEMMA Heads ==
    \A a, b, c, d : /\ Head(<<a>>) = a /\ Head(<<a, b>>) = a
                    /\ Head(<<a, b, c>>) = a /\ Head(<<a, b, c, d>>) = a
OBVIOUS

LEMMA EndingsAre == ASSUME NEW name, NEW k
                 PROVE  /\ <<Do("abort")>> \o Failure = Aborting
                        /\ <<Emit(name, k), Do("abort")>> \o Failure = Ending(name, k)
<1>1. <<Do("abort")>> \o Failure = Aborting
  BY Cat12 DEF Aborting, Failure
<1>2. <<Emit(name, k), Do("abort")>> \o Failure = Ending(name, k)
  BY Cat22 DEF Ending, Failure
<1> QED BY <1>1, <1>2

\* What the stream does about an item, spelled out.
LEMMA HandlingIs ==
  ASSUME NEW item
  PROVE  LET k == item.key  h == Handling(item) IN
         /\ ~Events => \/ h = <<Emit("result", k)>>
                      \/ h = <<Do("raise")>>
         /\ Events =>
              /\ item.kind = "preflight" => h = Aborting
              /\ item.kind = "cooldown" => h = <<Emit("tool.fallback", k)>>
              /\ item.kind = "start" => h = <<Emit("tool.start", k)>>
              /\ item.kind = "end" => h = <<Emit("tool.end", k)>>
              /\ item.kind = "post" => h = Ending("tool.end", k)
              /\ item.kind = "unavailable" /\ item.more =>
                    h = <<Emit("tool.error", k), Emit("tool.fallback", k)>>
              /\ item.kind = "unavailable" /\ ~item.more => h = Ending("tool.error", k)
              /\ item.kind = "error" /\ k \in started => h = Ending("tool.error", k)
              /\ item.kind = "error" /\ k \notin started => h = <<Do("raise")>>
<1> DEFINE k == item.key
<1>1. ~Events => \/ Handling(item) = <<Emit("result", k)>>
                \/ Handling(item) = <<Do("raise")>>
  BY DEF Handling
<1>2. ASSUME Events, item.kind = "preflight" PROVE Handling(item) = Aborting
  BY <1>2, EndingsAre DEF Handling
<1>3. ASSUME Events, item.kind = "cooldown" PROVE Handling(item) = <<Emit("tool.fallback", k)>>
  BY <1>3 DEF Handling
<1>4. ASSUME Events, item.kind = "start" PROVE Handling(item) = <<Emit("tool.start", k)>>
  BY <1>4 DEF Handling
<1>5. ASSUME Events, item.kind = "end" PROVE Handling(item) = <<Emit("tool.end", k)>>
  BY <1>5 DEF Handling
<1>6. ASSUME Events, item.kind = "post" PROVE Handling(item) = Ending("tool.end", k)
  BY <1>6, EndingsAre DEF Handling
<1>7. ASSUME Events, item.kind = "unavailable", item.more
      PROVE  Handling(item) = <<Emit("tool.error", k), Emit("tool.fallback", k)>>
  BY <1>7 DEF Handling
<1>8. ASSUME Events, item.kind = "unavailable", ~item.more
      PROVE  Handling(item) = Ending("tool.error", k)
  BY <1>8, EndingsAre DEF Handling
<1>9. ASSUME Events, item.kind = "error", k \in started
      PROVE  Handling(item) = Ending("tool.error", k)
  BY <1>9, EndingsAre DEF Handling
<1>10. ASSUME Events, item.kind = "error", k \notin started
       PROVE  Handling(item) = <<Do("raise")>>
  BY <1>10 DEF Handling
<1> QED BY <1>1, <1>2, <1>3, <1>4, <1>5, <1>6, <1>7, <1>8, <1>9, <1>10

-----------------------------------------------------------------------------
(* What the workers do, spelled out *)

LEMMA WorldFacts ==
  ASSUME world \in World
  PROVE  /\ Len(world.chain) \in Nat /\ Capacity \in Nat
         /\ Calls = 1 .. Len(world.chain)
         /\ \A k \in Keys : k[1] \in Calls /\ k[2] \in 1 .. 2 /\ k = <<k[1], k[2]>>
         /\ \A i \in Calls, c \in 1 .. 2 : <<i, c>> \in Keys
BY DEF World, Capacity, Calls, Keys

LEMMA TakeCallIs ==
  ASSUME TypesInv, NEW w \in Workers, TakeCall(w)
  PROVE  /\ workers[w].at = "idle" /\ workers[w].items = <<>> /\ ~workers[w].cancelled
         /\ \/ workers' = [workers EXCEPT ![w] = Absent] /\ next' = next
            \/ /\ next \in Calls /\ next' = next + 1
               /\ \/ \E k \in Keys, l \in {<<>>, << 2 >>} :
                        /\ k[1] = next /\ (l = << 2 >> => k[2] = 1)
                        /\ \/ ~Events /\ workers' = [workers EXCEPT ![w] = AtCall(k, l, <<>>)]
                           \/ /\ Events
                              /\ workers' = [workers EXCEPT ![w] =
                                               AtCall(k, l, <<Item("start", k, TRUE)>>)]
                           \/ /\ Events /\ k[2] = 2 /\ l = <<>>
                              /\ workers' = [workers EXCEPT ![w] =
                                    AtCall(k, l, <<Item("cooldown", <<next, 1>>, TRUE),
                                                   Item("start", k, TRUE)>>)]
                  \/ workers' = [workers EXCEPT ![w] =
                                    Resting(<<Item("preflight", <<next, 1>>, FALSE)>>)]
         /\ UNCHANGED <<world, streamVars, queue, ended, ledger, reached>>
<1>1. workers[w].at = "idle" /\ workers[w].items = <<>> /\ ~workers[w].cancelled
      /\ UNCHANGED <<world, streamVars, queue, ended, ledger, reached>>
  BY DEF TakeCall, MayRun
<1>2. CASE next > Len(world.chain)
  BY <1>1, <1>2 DEF TakeCall, Becomes
<1>3. CASE ~(next > Len(world.chain))
  <2>1. next \in Calls /\ next' = next + 1
    <3>1. world \in World /\ next \in 1 .. Len(world.chain) + 1
      BY DEF TypesInv, BaseOK
    <3>2. next' = next + 1
      BY <1>3 DEF TakeCall
    <3> QED BY <1>3, <3>1, <3>2, WorldFacts
  <2>2. CASE \E chain \in UsableChains(next) :
                     Becomes(w, AtCall(<<next, chain[1]>>, Tail(chain),
                        Reports((IF chain[1] # 1
                                 THEN <<Item("cooldown", <<next, 1>>, TRUE)>> ELSE <<>>)
                                \o <<Item("start", <<next, chain[1]>>, TRUE)>>)))
    <3>1. PICK chain \in UsableChains(next) :
                     Becomes(w, AtCall(<<next, chain[1]>>, Tail(chain),
                        Reports((IF chain[1] # 1
                                 THEN <<Item("cooldown", <<next, 1>>, TRUE)>> ELSE <<>>)
                                \o <<Item("start", <<next, chain[1]>>, TRUE)>>)))
      BY <2>2
    <3> DEFINE k == <<next, chain[1]>>
               l == Tail(chain)
               its == (IF chain[1] # 1 THEN <<Item("cooldown", <<next, 1>>, TRUE)>> ELSE <<>>)
                                          \o <<Item("start", <<next, chain[1]>>, TRUE)>>
    <3>2. workers' = [workers EXCEPT ![w] = AtCall(k, l, Reports(its))]
      <4> HIDE DEF its
      <4> QED BY <3>1 DEF Becomes, its
    <3>3. \/ chain = <<1>> \/ chain = << 2 >> \/ chain = <<1, 2>>
      BY <3>1 DEF UsableChains
    <3>4. /\ chain[1] \in 1 .. 2 /\ l \in {<<>>, << 2 >>} /\ (l = << 2 >> => chain[1] = 1)
      <4>1. CASE chain = <<1>>
        BY <4>1
      <4>2. CASE chain = << 2 >>
        BY <4>2
      <4>3. CASE chain = <<1, 2>>
        BY <4>3
      <4> QED BY <3>3, <4>1, <4>2, <4>3
    <3>5. k \in Keys /\ k[1] = next /\ k[2] = chain[1]
      BY <3>4, <2>1, WorldFacts DEF TypesInv, BaseOK
    <3>6. CASE chain[1] # 1
      <4>1. its = <<Item("cooldown", <<next, 1>>, TRUE), Item("start", k, TRUE)>>
        BY <3>6, Cat11
      <4>2. ~Final(Head(its))
        BY <4>1, Heads DEF Final, Item
      <4>3. Reports(its) = IF Events THEN its ELSE <<>>
        BY <4>2 DEF Reports
      <4>4. k[2] = 2 /\ l = <<>>
        <5>1. chain = << 2 >>
          BY <3>6, <3>3
        <5> QED BY <5>1, <3>5
      <4> HIDE DEF k, l, its
      <4> QED BY <1>1, <2>1, <3>2, <3>4, <3>5, <4>1, <4>3, <4>4
    <3>7. CASE chain[1] = 1
      <4>1. its = <<Item("start", k, TRUE)>>
        BY <3>7
      <4>2. ~Final(Head(its))
        BY <4>1, Heads DEF Final, Item
      <4>3. Reports(its) = IF Events THEN its ELSE <<>>
        BY <4>2 DEF Reports
      <4>4. k[2] = 1
        BY <3>7, <3>5
      <4> HIDE DEF k, l, its
      <4> QED BY <1>1, <2>1, <3>2, <3>4, <3>5, <4>1, <4>3, <4>4
    <3> QED BY <3>6, <3>7
  <2>3. CASE Becomes(w, Resting(Reports(<<Item("preflight", <<next, 1>>, FALSE)>>)))
    <3>1. Final(Head(<<Item("preflight", <<next, 1>>, FALSE)>>))
      BY Heads DEF Final, Item
    <3>2. Reports(<<Item("preflight", <<next, 1>>, FALSE)>>) = <<Item("preflight", <<next, 1>>, FALSE)>>
      BY <3>1 DEF Reports
    <3>3. workers' = [workers EXCEPT ![w] = Resting(<<Item("preflight", <<next, 1>>, FALSE)>>)]
      BY <2>3, <3>2 DEF Becomes
    <3> QED BY <1>1, <2>1, <3>3
  <2> QED BY <1>3, <2>2, <2>3 DEF TakeCall
<1> QED BY <1>2, <1>3

\* A call is over for its worker: all but the last item were reported before.
Answers(w, kind) ==
    workers' = [workers EXCEPT ![w] = Resting(<<Item(kind, workers[w].key, FALSE)>>)]

LEMMA AnswersAre ==
  ASSUME NEW w \in Workers, NEW kind \in {"end", "post", "error", "unavailable"},
         Becomes(w, Resting(Reports(<<Item(kind, workers[w].key, FALSE)>>)))
  PROVE  Answers(w, kind)
<1>1. Final(Head(<<Item(kind, workers[w].key, FALSE)>>))
  BY Heads DEF Final, Item
<1>2. Reports(<<Item(kind, workers[w].key, FALSE)>>) = <<Item(kind, workers[w].key, FALSE)>>
  BY <1>1 DEF Reports
<1> QED BY <1>2 DEF Becomes, Answers

\* On to the next candidate.
GoesOn(w) ==
    LET k == workers[w].key  other == <<k[1], 2>> IN
    /\ workers[w].left = << 2 >>
    /\ workers' = [workers EXCEPT ![w] = AtCall(other, <<>>,
          IF Events THEN <<Item("unavailable", k, TRUE), Item("start", other, TRUE)>> ELSE <<>>)]

LEMMA UnavailableIs ==
  ASSUME TypesInv, NEW w \in Workers, Unavailable(w)
  PROVE  Answers(w, "unavailable") \/ GoesOn(w)
<1> DEFINE k == workers[w].key
           l == workers[w].left
<1>1. l \in {<<>>, << 2 >>}
  BY DEF Unavailable, Calling, TypesInv, WorkersOK, WorkerOK, States
<1>2. CASE l = <<>>
  <2>1. (l # <<>>) = FALSE
    BY <1>2
  <2>2. Becomes(w, Resting(Reports(<<Item("unavailable", k, FALSE)>>)))
    BY <1>2, <2>1 DEF Unavailable
  <2> QED BY <2>2, AnswersAre
<1>3. CASE l = << 2 >>
  <2> DEFINE other == <<k[1], 2>>
             its == <<Item("unavailable", k, TRUE), Item("start", other, TRUE)>>
  <2>1. (l # <<>>) = TRUE /\ Head(l) = 2 /\ Tail(l) = <<>>
    BY <1>3
  <2>2. workers' = [workers EXCEPT ![w] = AtCall(other, <<>>, Reports(its))]
    BY <1>3, <2>1 DEF Unavailable, Becomes
  <2>3. ~Final(Head(its))
    BY Heads DEF Final, Item
  <2>4. Reports(its) = IF Events THEN its ELSE <<>>
    BY <2>3 DEF Reports
  <2> HIDE DEF its
  <2>5. workers' = [workers EXCEPT ![w] = AtCall(other, <<>>, IF Events THEN its ELSE <<>>)]
    BY <2>2, <2>4
  <2> QED BY <1>3, <2>5 DEF GoesOn, its
<1> QED BY <1>1, <1>2, <1>3

-----------------------------------------------------------------------------
(* Types *)

LEMMA CallsStay ==
  ASSUME UNCHANGED world
  PROVE  Calls' = Calls /\ Keys' = Keys /\ Capacity' = Capacity /\ (Events' <=> Events)
BY DEF Calls, Keys, Capacity, Events

LEMMA QueueFrame ==
  ASSUME TypesInv, UNCHANGED <<world, queue>>, next' \in Nat, next <= next'
  PROVE  QueueOK'
<1>1. Keys' = Keys /\ Capacity' = Capacity
  BY CallsStay
<1>2. ASSUME NEW p \in 1 .. Len(queue) PROVE ItemIn(queue[p], Keys', next')
  <2>1. ItemIn(queue[p], Keys, next)
    BY DEF TypesInv, QueueOK
  <2>2. queue[p].key[1] \in Int /\ next \in Int
    BY <2>1, WorldFacts DEF ItemIn, TypesInv, BaseOK, Calls
  <2> QED BY <1>1, <2>1, <2>2 DEF ItemIn
<1>3. queue' \in Seq(ItemType)' /\ Len(queue') <= Capacity'
  BY <1>1 DEF TypesInv, QueueOK, ItemType
<1> QED BY <1>2, <1>3 DEF QueueOK

LEMMA ReachedFrame ==
  ASSUME TypesInv, UNCHANGED <<world, reached>>, next' \in Nat, next <= next'
  PROVE  ReachedOK'
<1>1. Keys' = Keys
  BY CallsStay
<1>2. \A k \in Keys : k[1] \in Int
  BY WorldFacts DEF TypesInv, BaseOK, Calls
<1>3. next \in Int
  BY DEF TypesInv, BaseOK
<1> QED BY <1>1, <1>2, <1>3 DEF TypesInv, ReachedOK

LEMMA WorkersFrame ==
  ASSUME TypesInv, UNCHANGED <<world, workers, next>>
  PROVE  WorkersOK'
<1>1. Keys' = Keys /\ Calls' = Calls /\ (Events' <=> Events)
  BY CallsStay
<1>2. ASSUME NEW w \in Workers PROVE WorkerOK(w)'
  <2>1. WorkerOK(w)
    BY DEF TypesInv, WorkersOK
  <2> QED BY <1>1, <2>1 DEF WorkerOK, States, ItemType
<1>3. \A w \in Workers, i \in Calls : Owns(w, i)' <=> Owns(w, i)
  BY DEF Owns
<1> QED BY <1>1, <1>2, <1>3 DEF TypesInv, WorkersOK

LEMMA OneWorkerTypes ==
  ASSUME TypesInv, UNCHANGED world, next' \in Nat, next <= next',
         NEW w \in Workers, NEW r, workers' = [workers EXCEPT ![w] = r], WorkerOK(w)',
         \A i \in Calls : Owns(w, i)' => Owns(w, i) \/ \A v \in Workers : ~Owns(v, i)
  PROVE  WorkersOK'
<1>1. Keys' = Keys /\ Calls' = Calls /\ (Events' <=> Events)
  BY CallsStay
<1>2. \A v \in Workers \ {w} : workers'[v] = workers[v]
  BY DEF TypesInv, WorkersOK
<1>3. DOMAIN workers' = Workers
  BY DEF TypesInv, WorkersOK
<1>4. ASSUME NEW v \in Workers \ {w} PROVE WorkerOK(v)'
  <2>1. WorkerOK(v)
    BY DEF TypesInv, WorkersOK
  <2>2. next \in Int /\ \A k \in Keys : k[1] \in Int
    BY WorldFacts DEF TypesInv, BaseOK, Calls
  <2>3. workers'[v] = workers[v]
    BY <1>2
  <2>4. ASSUME NEW p \in 1 .. Len(workers[v].items) PROVE ItemIn(workers[v].items[p], Keys', next')
    <3>1. ItemIn(workers[v].items[p], Keys, next)
      BY <2>1 DEF WorkerOK
    <3>2. workers[v].items[p].key \in Keys
      BY <3>1 DEF ItemIn
    <3> QED BY <1>1, <2>2, <2>3, <3>1, <3>2 DEF ItemIn
  <2>5. workers[v].at = "call" => workers[v].key \in Keys /\ workers[v].key[1] < next
    BY <2>1 DEF WorkerOK
  <2>6. workers[v].at = "call" => workers[v].key[1] < next'
    BY <2>2, <2>5
  <2>7. \A p \in 1 .. Len(workers'[v].items) : ItemIn(workers[v].items[p], Keys', next')
    BY <2>3, <2>4
  <2>8. workers'[v] \in States'
    BY <1>1, <2>1, <2>3 DEF WorkerOK, States, ItemType
  <2>9. workers'[v].at = "call" => workers'[v].key \in Keys' /\ workers'[v].key[1] < next'
    BY <1>1, <2>3, <2>5, <2>6
  <2> QED BY <1>1, <2>1, <2>3, <2>7, <2>8, <2>9 DEF WorkerOK
<1>5. ASSUME NEW v \in Workers \ {w}, NEW i \in Calls PROVE Owns(v, i)' <=> Owns(v, i)
  BY <1>2 DEF Owns
<1>6. ASSUME NEW u \in Workers, NEW v \in Workers, NEW i \in Calls, Owns(u, i)', Owns(v, i)'
      PROVE  u = v
  <2>1. \A a, b \in Workers : Owns(a, i) /\ Owns(b, i) => a = b
    BY DEF TypesInv, WorkersOK
  <2>2. CASE u = w /\ v # w
    <3>1. Owns(v, i)
      BY <1>5, <1>6, <2>2
    <3>2. Owns(w, i)
      BY <3>1, <1>6, <2>2
    <3> QED BY <2>1, <2>2, <3>1, <3>2
  <2>3. CASE v = w /\ u # w
    <3>1. Owns(u, i)
      BY <1>5, <1>6, <2>3
    <3>2. Owns(w, i)
      BY <3>1, <1>6, <2>3
    <3> QED BY <2>1, <2>3, <3>1, <3>2
  <2>4. CASE u # w /\ v # w
    BY <1>5, <1>6, <2>1, <2>4
  <2> QED BY <2>2, <2>3, <2>4
<1> QED BY <1>1, <1>3, <1>4, <1>6 DEF WorkersOK

LEMMA WorkerIs ==
  ASSUME NEW w \in Workers, NEW s, workers'[w] = s,
         s \in States', Len(s.items) <= 2, \A p \in 1 .. Len(s.items) : ItemIn(s.items[p], Keys', next'),
         s.at = "gone" => s.items = <<>>,
         s.at = "idle" => Len(s.items) <= 1 /\ (s.items # <<>> => Final(s.items[1])),
         s.at = "call" =>
          /\ s.key \in Keys' /\ s.key[1] < next'
          /\ s.left = << 2 >> => s.key[2] = 1
          /\ s.items # <<>> => Events'
          /\ Len(s.items) = 1 => s.items[1] = StartOf(s.key)
          /\ Len(s.items) = 2 => /\ s.key[2] = 2
                                 /\ s.items[1].kind \in {"cooldown", "unavailable"}
                                 /\ s.items[1].key = <<s.key[1], 1>> /\ s.items[1].more
                                 /\ s.items[2] = StartOf(s.key)
  PROVE  WorkerOK(w)'
<1>1. \A p \in 1 .. Len(workers'[w].items) : ItemIn(workers'[w].items[p], Keys', next')
  BY DEF ItemIn
<1> QED BY <1>1 DEF WorkerOK

LEMMA ItemIs ==
  ASSUME NEW kind \in Kinds, NEW k \in Keys, NEW more \in BOOLEAN
  PROVE  LET item == Item(kind, k, more) IN
         /\ item \in ItemType
         /\ item.kind = kind /\ item.key = k /\ (item.more <=> more)
BY DEF Item, ItemType

LEMMA AbsentTypes ==
  ASSUME TypesInv, NEW w \in Workers, workers' = [workers EXCEPT ![w] = Absent],
         UNCHANGED <<world, next>>
  PROVE  WorkersOK'
<1>1. workers'[w] = Absent
  BY DEF TypesInv, WorkersOK
<1>2. Absent \in States' /\ Absent.at = "gone" /\ Absent.items = <<>>
  BY DEF Absent, States
<1>3. WorkerOK(w)'
  <2>1. Len(Absent.items) = 0
    BY <1>2
  <2> QED BY <1>1, <1>2, <2>1, WorkerIs
<1>4. \A i \in Calls : ~Owns(w, i)'
  BY <1>1, <1>2 DEF Owns
<1>5. next' \in Nat /\ next <= next'
  BY DEF TypesInv, BaseOK
<1> QED BY <1>1, <1>3, <1>4, <1>5, OneWorkerTypes

LEMMA RestingTypes ==
  ASSUME TypesInv, NEW w \in Workers, NEW item,
         workers' = [workers EXCEPT ![w] = Resting(<<item>>)],
         UNCHANGED world, next' \in Nat, next <= next', ItemIn(item, Keys', next'), Final(item),
         \A i \in Calls : item.key[1] = i => Owns(w, i) \/ \A v \in Workers : ~Owns(v, i)
  PROVE  WorkersOK'
<1> DEFINE r == Resting(<<item>>)
<1>1. workers'[w] = r
  BY DEF TypesInv, WorkersOK
<1>2. r.at = "idle" /\ r.items = <<item>> /\ Len(r.items) = 1 /\ r.items[1] = item
  BY DEF Resting
<1>3. r \in States'
  <2>1. item \in ItemType'
    BY DEF ItemIn, ItemType
  <2> QED BY <2>1 DEF Resting, States, ItemType
<1>4. \A p \in 1 .. Len(r.items) : ItemIn(r.items[p], Keys', next')
  BY <1>2
<1> HIDE DEF r
<1>5. WorkerOK(w)'
  <2>1. \A p \in 1 .. Len(workers'[w].items) : ItemIn(workers'[w].items[p], Keys', next')
    BY <1>1, <1>4
  <2>2. Final(workers'[w].items[1])
    BY <1>1, <1>2
  <2> QED BY <1>1, <1>2, <1>3, <2>1, <2>2 DEF WorkerOK
<1>6. \A i \in Calls : Owns(w, i)' => item.key[1] = i
  BY <1>1, <1>2 DEF Owns
<1>7. \A i \in Calls : Owns(w, i)' => Owns(w, i) \/ \A v \in Workers : ~Owns(v, i)
  BY <1>6
<1> QED BY <1>1, <1>5, <1>7, OneWorkerTypes DEF r

\* What a worker has to put when it turns to candidate k.
FirstItems(k, its) ==
    \/ its = <<>>
    \/ Events /\ its = <<StartOf(k)>>
    \/ Events /\ k[2] = 2 /\ \E kind \in {"cooldown", "unavailable"} :
          its = <<Item(kind, <<k[1], 1>>, TRUE), StartOf(k)>>

LEMMA OneItem == ASSUME NEW S, NEW a \in S, NEW its, its = <<a>>
                 PROVE  its \in Seq(S) /\ Len(its) = 1 /\ its[1] = a /\ its # <<>>
OBVIOUS

LEMMA TwoItems == ASSUME NEW S, NEW a \in S, NEW b \in S, NEW its, its = <<a, b>>
                  PROVE  its \in Seq(S) /\ Len(its) = 2 /\ its[1] = a /\ its[2] = b /\ its # <<>>
OBVIOUS

LEMMA FirstItemsAre ==
  ASSUME world \in World, UNCHANGED world, NEW k \in Keys, k[1] < next', NEW its, FirstItems(k, its)
  PROVE  /\ its \in Seq(ItemType) /\ Len(its) <= 2
         /\ \A p \in 1 .. Len(its) : ItemIn(its[p], Keys', next')
         /\ its # <<>> => Events /\ its[1].key[1] = k[1]
         /\ Len(its) = 1 => its[1] = StartOf(k)
         /\ Len(its) = 2 => /\ k[2] = 2
                            /\ its[1].kind \in {"cooldown", "unavailable"}
                            /\ its[1].key = <<k[1], 1>> /\ its[1].more
                            /\ its[2] = StartOf(k)
<1>3. Keys' = Keys
  BY CallsStay
<1>4. k[1] \in Calls /\ k[2] \in 1 .. 2 /\ <<k[1], 1>> \in Keys
  BY WorldFacts
<1>2. StartOf(k) = Item("start", k, TRUE)
  BY DEF StartOf
<1>5. ASSUME NEW kind \in {"cooldown", "unavailable", "start"}, NEW j \in {k, <<k[1], 1>>}
      PROVE  ItemIn(Item(kind, j, TRUE), Keys', next') /\ Item(kind, j, TRUE) \in ItemType
  <2>1. kind \in Kinds /\ j \in Keys /\ j[1] = k[1]
    BY <1>4 DEF Kinds, Closers
  <2>2. LET item == Item(kind, j, TRUE) IN
         /\ item \in ItemType
         /\ item.kind = kind /\ item.key = j /\ (item.more <=> TRUE)
    BY <2>1, ItemIs
  <2> QED BY <1>3, <2>1, <2>2 DEF ItemIn, ItemType
<1>6. CASE its = <<>>
  BY <1>6
<1>7. CASE Events /\ its = <<StartOf(k)>>
  <2> DEFINE a == StartOf(k)
  <2>1. ItemIn(a, Keys', next') /\ a \in ItemType
    BY <1>2, <1>5
  <2>2. a.key = k
    BY DEF Item, StartOf
  <2>3. its = <<a>> /\ Events
    BY <1>7
  <2>4. a = StartOf(k)
    OBVIOUS
  <2> HIDE DEF a
  <2>5. its \in Seq(ItemType) /\ Len(its) = 1 /\ its[1] = a
    BY <2>1, <2>3, OneItem
  <2>6. \A p \in 1 .. Len(its) : ItemIn(its[p], Keys', next')
    BY <2>1, <2>5 DEF ItemIn
  <2> QED BY <2>2, <2>3, <2>4, <2>5, <2>6
<1>8. CASE Events /\ k[2] = 2 /\ \E kind \in {"cooldown", "unavailable"} :
               its = <<Item(kind, <<k[1], 1>>, TRUE), StartOf(k)>>
  <2>0. PICK kind \in {"cooldown", "unavailable"} :
               its = <<Item(kind, <<k[1], 1>>, TRUE), StartOf(k)>>
    BY <1>8
  <2> DEFINE a == Item(kind, <<k[1], 1>>, TRUE)
             b == StartOf(k)
  <2>1. ItemIn(a, Keys', next') /\ a \in ItemType
    BY <1>5
  <2>2. ItemIn(b, Keys', next') /\ b \in ItemType
    BY <1>2, <1>5
  <2>3. a.key = <<k[1], 1>> /\ a.kind = kind /\ a.more /\ a.key[1] = k[1]
    BY DEF Item
  <2>4. its = <<a, b>> /\ Events /\ k[2] = 2
    BY <1>8, <2>0
  <2>5. b = StartOf(k)
    OBVIOUS
  <2> HIDE DEF a, b
  <2>6. its \in Seq(ItemType) /\ Len(its) = 2 /\ its[1] = a /\ its[2] = b
    BY <2>1, <2>2, <2>4, TwoItems
  <2>7. \A p \in 1 .. Len(its) : ItemIn(its[p], Keys', next')
    BY <2>1, <2>2, <2>6 DEF ItemIn
  <2> QED BY <2>3, <2>4, <2>5, <2>6, <2>7
<1> QED BY <1>6, <1>7, <1>8 DEF FirstItems

LEMMA AtCallTypes ==
  ASSUME TypesInv, NEW w \in Workers, NEW k \in Keys, NEW l \in {<<>>, << 2 >>}, NEW its,
         workers' = [workers EXCEPT ![w] = AtCall(k, l, its)],
         UNCHANGED world, next' \in Nat, next <= next', k[1] < next', l = << 2 >> => k[2] = 1,
         FirstItems(k, its),
         Owns(w, k[1]) \/ \A v \in Workers : ~Owns(v, k[1])
  PROVE  WorkersOK'
<1> DEFINE r == AtCall(k, l, its)
<1>1. workers'[w] = r
  BY DEF TypesInv, WorkersOK
<1>2. r.at = "call" /\ r.key = k /\ r.left = l /\ r.items = its
  BY DEF AtCall
<1>3. Keys' = Keys /\ (Events' <=> Events) /\ Calls' = Calls
  BY CallsStay
<1>4. k[1] \in Calls
  BY WorldFacts DEF TypesInv, BaseOK
<1>5. world \in World
  BY DEF TypesInv, BaseOK
<1>6. /\ its \in Seq(ItemType) /\ Len(its) <= 2
      /\ \A p \in 1 .. Len(its) : ItemIn(its[p], Keys', next')
      /\ its # <<>> => Events /\ its[1].key[1] = k[1]
      /\ Len(its) = 1 => its[1] = StartOf(k)
      /\ Len(its) = 2 => /\ k[2] = 2
                         /\ its[1].kind \in {"cooldown", "unavailable"}
                         /\ its[1].key = <<k[1], 1>> /\ its[1].more
                         /\ its[2] = StartOf(k)
  BY <1>5, FirstItemsAre
<1>7. r \in States'
  BY <1>3, <1>6 DEF AtCall, States, ItemType
<1> HIDE DEF r
<1>8. WorkerOK(w)'
  <2> DEFINE s == workers'[w]
  <2>1. \A p \in 1 .. Len(s.items) : ItemIn(s.items[p], Keys', next')
    BY <1>1, <1>2, <1>6
  <2>2. s \in States' /\ s.at = "call" /\ s.key = k /\ s.left = l /\ s.items = its
    BY <1>1, <1>2, <1>7
  <2> HIDE DEF s
  <2>3. /\ s.key \in Keys' /\ s.key[1] < next' /\ Len(s.items) <= 2
        /\ s.left = << 2 >> => s.key[2] = 1
        /\ s.items # <<>> => Events'
        /\ Len(s.items) = 1 => s.items[1] = StartOf(s.key)
        /\ Len(s.items) = 2 => /\ s.key[2] = 2
                               /\ s.items[1].kind \in {"cooldown", "unavailable"}
                               /\ s.items[1].key = <<s.key[1], 1>> /\ s.items[1].more
                               /\ s.items[2] = StartOf(s.key)
    BY <1>3, <1>6, <2>2
  <2> QED BY <2>1, <2>2, <2>3 DEF s, WorkerOK
<1>9. \A i \in Calls : Owns(w, i)' => i = k[1]
  BY <1>1, <1>2, <1>6 DEF Owns
<1>10. \A i \in Calls : Owns(w, i)' => Owns(w, i) \/ \A v \in Workers : ~Owns(v, i)
  BY <1>9
<1> QED BY <1>1, <1>8, <1>10, OneWorkerTypes DEF r


LEMMA CallFacts ==
  ASSUME TypesInv, NEW w \in Workers, workers[w].at = "call"
  PROVE  /\ workers[w].key \in Keys /\ workers[w].key[1] < next /\ workers[w].key[1] \in Calls
         /\ Owns(w, workers[w].key[1])
         /\ \A v \in Workers : Owns(v, workers[w].key[1]) => v = w
<1>1. workers[w].key \in Keys /\ workers[w].key[1] < next
  BY DEF TypesInv, WorkersOK, WorkerOK
<1>2. workers[w].key[1] \in Calls
  BY <1>1, WorldFacts DEF TypesInv, BaseOK
<1>3. Owns(w, workers[w].key[1])
  BY DEF Owns
<1> QED BY <1>1, <1>2, <1>3 DEF TypesInv, WorkersOK

\* The item that ends a call.
LastOf(kind, k) == Item(kind, k, FALSE)

LEMMA LastItem ==
  ASSUME NEW keys, NEW n, NEW k \in keys, k[1] < n,
         NEW kind \in {"end", "post", "error", "unavailable", "preflight"}
  PROVE  LET x == LastOf(kind, k) IN
         ItemIn(x, keys, n) /\ Final(x) /\ x.key = k /\ x.kind = kind
<1> DEFINE more == FALSE
           x == Item(kind, k, more)
<1>1. more \in BOOLEAN /\ ~more
  OBVIOUS
<1> HIDE DEF more
<1>2. x.kind = kind /\ x.key = k /\ x.more = more
  BY DEF Item
<1>3. kind \in Kinds
  BY DEF Kinds, Closers
<1>4. x \in [kind : Kinds, key : keys, more : BOOLEAN]
  BY <1>1, <1>3 DEF Item
<1> HIDE DEF x
<1>5. ItemIn(x, keys, n)
  BY <1>1, <1>2, <1>4 DEF ItemIn
<1>6. Final(x)
  BY <1>1, <1>2 DEF Final
<1> QED BY <1>2, <1>5, <1>6 DEF x, more, LastOf

LEMMA AnswersTypes ==
  ASSUME TypesInv, NEW w \in Workers, workers[w].at = "call",
         NEW kind \in {"end", "post", "error", "unavailable"}, Answers(w, kind),
         UNCHANGED <<world, next>>
  PROVE  WorkersOK'
<1>1. workers[w].key \in Keys /\ workers[w].key[1] < next /\ Owns(w, workers[w].key[1])
  BY CallFacts
<1>2. Keys' = Keys /\ next' = next
  BY CallsStay
<1>3. PICK item : item = LastOf(kind, workers[w].key)
  OBVIOUS
<1>4. PICK k : k = workers[w].key
  OBVIOUS
<1>5. PICK keys, n : keys = Keys /\ n = next
  OBVIOUS
<1>6. ItemIn(item, keys, n) /\ Final(item) /\ item.key = k
  BY <1>1, <1>3, <1>4, <1>5, LastItem
<1>7. ItemIn(item, Keys', next')
  BY <1>2, <1>5, <1>6
<1>8. workers' = [workers EXCEPT ![w] = Resting(<<item>>)]
  BY <1>3 DEF Answers, LastOf
<1>9. next' \in Nat /\ next <= next'
  BY DEF TypesInv, BaseOK
<1> QED BY <1>1, <1>4, <1>6, <1>7, <1>8, <1>9, RestingTypes

LEMMA GoesOnTypes ==
  ASSUME TypesInv, NEW w \in Workers, workers[w].at = "call", GoesOn(w),
         UNCHANGED <<world, next>>
  PROVE  WorkersOK'
<1>1. /\ workers[w].key \in Keys /\ workers[w].key[1] < next /\ workers[w].key[1] \in Calls
      /\ Owns(w, workers[w].key[1])
  BY CallFacts
<1>2. PICK k : k = <<workers[w].key[1], 2>>
  OBVIOUS
<1>3. k \in Keys /\ k[1] = workers[w].key[1] /\ k[2] = 2
  BY <1>1, <1>2, WorldFacts DEF TypesInv, BaseOK
<1>4. workers[w].key = <<k[1], 1>>
  <2>1. workers[w].left = << 2 >>
    BY DEF GoesOn
  <2>2. workers[w].key[2] = 1
    BY <2>1 DEF TypesInv, WorkersOK, WorkerOK
  <2> QED BY <1>1, <1>3, <2>2, WorldFacts DEF TypesInv, BaseOK
<1>5. PICK its : its = IF Events THEN <<Item("unavailable", <<k[1], 1>>, TRUE), StartOf(k)>> ELSE <<>>
  OBVIOUS
<1>6. FirstItems(k, its)
  BY <1>3, <1>5 DEF FirstItems
<1>7. workers' = [workers EXCEPT ![w] = AtCall(k, <<>>, its)]
  BY <1>2, <1>4, <1>5 DEF GoesOn, StartOf
<1>8. next' \in Nat /\ next <= next' /\ k[1] < next' /\ <<>> \in {<<>>, << 2 >>} /\ <<>> # << 2 >>
  BY <1>1, <1>3 DEF TypesInv, BaseOK
<1>9. Owns(w, k[1])
  BY <1>1, <1>3
<1>10. UNCHANGED world
  OBVIOUS
<1>11. PICK l : l = <<>>
  OBVIOUS
<1>12. l \in {<<>>, << 2 >>} /\ (l = << 2 >> => k[2] = 1)
  BY <1>11
<1> QED BY <1>3, <1>6, <1>7, <1>8, <1>9, <1>10, <1>11, <1>12, AtCallTypes


\* BaseOK where the stream does not move.
LEMMA BaseFrame ==
  ASSUME TypesInv, UNCHANGED <<world, pc, outcome, ended>>,
         next' = next \/ (next \in Calls /\ next' = next + 1)
  PROVE  BaseOK' /\ next' \in Nat /\ next <= next'
BY WorldFacts DEF TypesInv, BaseOK

LEMMA KeyOf ==
  ASSUME world \in World, NEW i \in Calls
  PROVE  /\ <<i, 1>> \in Keys /\ <<i, 2>> \in Keys
         /\ \A c \in 1 .. 2 : <<i, c>> \in Keys
BY WorldFacts

LEMMA TakeCallTypes ==
  ASSUME TypesInv, NEW w \in Workers, TakeCall(w)
  PROVE  TypesInv'
<1>1. /\ workers[w].at = "idle" /\ workers[w].items = <<>>
      /\ UNCHANGED <<world, streamVars, queue, ended, ledger, reached>>
      /\ next' = next \/ (next \in Calls /\ next' = next + 1)
  BY TakeCallIs
<1>2. BaseOK' /\ next' \in Nat /\ next <= next'
  BY <1>1, BaseFrame DEF streamVars
<1>3. QueueOK' /\ ReachedOK'
  BY <1>1, <1>2, QueueFrame, ReachedFrame
<1>4. \A v \in Workers : ~Owns(v, next)
  <2> SUFFICES ASSUME NEW v \in Workers, Owns(v, next) PROVE FALSE
    OBVIOUS
  <2>1. WorkerOK(v) /\ next \in Int
    BY DEF TypesInv, WorkersOK, BaseOK
  <2>2. workers[v].at = "call" => workers[v].key[1] < next
    BY <2>1 DEF WorkerOK
  <2>3. workers[v].items # <<>> => workers[v].items[1].key[1] < next
    <3>1. workers[v].items \in Seq(ItemType)
      BY <2>1 DEF WorkerOK, States
    <3>2. workers[v].items # <<>> => 1 \in 1 .. Len(workers[v].items)
      BY <3>1
    <3> QED BY <2>1, <3>2 DEF WorkerOK, ItemIn
  <2> QED BY <2>1, <2>2, <2>3 DEF Owns
<1>5. WorkersOK'
  <2>1. CASE workers' = [workers EXCEPT ![w] = Absent] /\ next' = next
    BY <1>1, <2>1, AbsentTypes
  <2>2. CASE next \in Calls /\ next' = next + 1 /\ \E k \in Keys, l \in {<<>>, << 2 >>} :
                        /\ k[1] = next /\ (l = << 2 >> => k[2] = 1)
                        /\ \/ ~Events /\ workers' = [workers EXCEPT ![w] = AtCall(k, l, <<>>)]
                           \/ /\ Events
                              /\ workers' = [workers EXCEPT ![w] =
                                               AtCall(k, l, <<Item("start", k, TRUE)>>)]
                           \/ /\ Events /\ k[2] = 2 /\ l = <<>>
                              /\ workers' = [workers EXCEPT ![w] =
                                    AtCall(k, l, <<Item("cooldown", <<next, 1>>, TRUE),
                                                   Item("start", k, TRUE)>>)]
    <3>1. PICK k \in Keys, l \in {<<>>, << 2 >>} :
                        /\ k[1] = next /\ (l = << 2 >> => k[2] = 1)
                        /\ \/ ~Events /\ workers' = [workers EXCEPT ![w] = AtCall(k, l, <<>>)]
                           \/ /\ Events
                              /\ workers' = [workers EXCEPT ![w] =
                                               AtCall(k, l, <<Item("start", k, TRUE)>>)]
                           \/ /\ Events /\ k[2] = 2 /\ l = <<>>
                              /\ workers' = [workers EXCEPT ![w] =
                                    AtCall(k, l, <<Item("cooldown", <<next, 1>>, TRUE),
                                                   Item("start", k, TRUE)>>)]
      BY <2>2
    <3>2. \E its : workers' = [workers EXCEPT ![w] = AtCall(k, l, its)] /\ FirstItems(k, its)
      BY <3>1 DEF FirstItems, StartOf
    <3>3. PICK its : workers' = [workers EXCEPT ![w] = AtCall(k, l, its)] /\ FirstItems(k, its)
      BY <3>2
    <3>4. k[1] = next /\ (l = << 2 >> => k[2] = 1)
      BY <3>1
    <3>5. k[1] < next' /\ UNCHANGED world
      BY <1>1, <2>2, <3>4, WorldFacts DEF TypesInv, BaseOK
    <3>6. \A v \in Workers : ~Owns(v, k[1])
      BY <1>4, <3>4
    <3> QED BY <1>2, <3>3, <3>4, <3>5, <3>6, AtCallTypes
  <2>3. CASE next \in Calls /\ next' = next + 1
             /\ workers' = [workers EXCEPT ![w] = Resting(<<Item("preflight", <<next, 1>>, FALSE)>>)]
    <3>1. PICK k : k = <<next, 1>>
      OBVIOUS
    <3>2. k \in Keys /\ k[1] = next /\ k[1] < next'
      <4>1. world \in World /\ next \in Int
        BY DEF TypesInv, BaseOK
      <4>2. next \in Calls /\ next' = next + 1
        BY <2>3, Zenon
      <4>3. <<next, 1>> \in Keys /\ k = <<next, 1>>
        BY <3>1, <4>1, <4>2, KeyOf
      <4> QED BY <3>1, <4>1, <4>2, <4>3
    <3>3. PICK item : item = LastOf("preflight", k)
      OBVIOUS
    <3>4. Keys' = Keys /\ UNCHANGED world
      BY <1>1, CallsStay
    <3>5. PICK keys, n : keys = Keys' /\ n = next'
      OBVIOUS
    <3>6. ItemIn(item, keys, n) /\ Final(item) /\ item.key = k
      BY <3>2, <3>3, <3>4, <3>5, LastItem
    <3>7. workers' = [workers EXCEPT ![w] = Resting(<<item>>)]
      BY <2>3, <3>1, <3>3 DEF LastOf
    <3>8. ItemIn(item, Keys', next')
      BY <3>5, <3>6
    <3>9. \A i \in Calls : item.key[1] = i => Owns(w, i) \/ \A v \in Workers : ~Owns(v, i)
      BY <1>4, <3>2, <3>6
    <3> QED BY <1>2, <3>4, <3>6, <3>7, <3>8, <3>9, RestingTypes
  <2> QED BY <2>1, <2>2, <2>3, TakeCallIs
<1> QED BY <1>2, <1>3, <1>5 DEF TypesInv

\* What a worker that puts has, and what is left of it.
LEMMA PutIs ==
  ASSUME TypesInv, NEW w \in Workers, Put(w)
  PROVE  \E x, r :
            /\ x \in ItemType
            /\ workers[w].items # <<>> /\ x = workers[w].items[1] /\ x = Head(workers[w].items)
            /\ queue' = Append(queue, x) /\ Len(queue') <= Capacity /\ Len(queue) < Capacity
            /\ workers' = [workers EXCEPT ![w] = r]
            /\ r = [workers[w] EXCEPT !.items = Tail(workers[w].items)]
            /\ ItemIn(x, Keys, next)
            /\ workers[w].at # "gone" /\ ~workers[w].cancelled
            /\ workers[w].at = "idle" =>
                  workers[w].items = <<x>> /\ Final(x)
            /\ workers[w].at = "call" =>
                  \/ workers[w].items = <<x>> /\ x = StartOf(workers[w].key)
                  \/ /\ workers[w].items = <<x, StartOf(workers[w].key)>>
                     /\ x.kind \in {"cooldown", "unavailable"} /\ workers[w].key[2] = 2
                     /\ x.key = <<workers[w].key[1], 1>> /\ x.more
            /\ workers[w].at \in {"idle", "call"}
            /\ UNCHANGED <<world, streamVars, next, ended, ledger, reached>>
<1> DEFINE s == workers[w]
           its == s.items
<1>1. /\ its # <<>> /\ Len(queue) < Capacity /\ ~Gone(w) /\ ~s.cancelled
      /\ queue' = Append(queue, Head(its))
      /\ workers' = [workers EXCEPT ![w] = [s EXCEPT !.items = Tail(its)]]
      /\ UNCHANGED <<world, streamVars, next, ended, ledger, reached>>
  BY DEF Put, MayRun, Becomes
<1>2. /\ s \in States /\ Len(its) <= 2
      /\ \A p \in 1 .. Len(its) : ItemIn(its[p], Keys, next)
      /\ s.at = "idle" => Len(its) <= 1 /\ (its # <<>> => Final(its[1]))
      /\ s.at = "call" => /\ Len(its) = 1 => its[1] = StartOf(s.key)
                          /\ Len(its) = 2 => /\ s.key[2] = 2
                                             /\ its[1].kind \in {"cooldown", "unavailable"}
                                             /\ its[1].key = <<s.key[1], 1>> /\ its[1].more
                                             /\ its[2] = StartOf(s.key)
  BY DEF TypesInv, WorkersOK, WorkerOK
<1>3. its \in Seq(ItemType) /\ s.at \in {"gone", "idle", "call"}
  BY <1>2 DEF States
<1>4. Len(its) \in 1 .. 2
  <2> HIDE DEF s, its
  <2>1. its # <<>> /\ Len(its) <= 2 /\ its \in Seq(ItemType)
    BY <1>1, <1>2, <1>3
  <2>2. Len(its) \in Nat /\ Len(its) # 0
    BY <2>1
  <2>3. PICK n : n = Len(its)
    OBVIOUS
  <2>4. n \in Nat /\ n # 0 /\ n <= 2
    BY <2>1, <2>2, <2>3
  <2>5. n \in 1 .. 2
    BY <2>4
  <2> QED BY <2>3, <2>5
<1>5. its[1] \in ItemType /\ Head(its) = its[1] /\ ItemIn(its[1], Keys, next)
  BY <1>2, <1>3, <1>4
<1>6. Len(its) = 1 => its = <<its[1]>>
  BY <1>3
<1>7. Len(its) = 2 => its = <<its[1], its[2]>>
  BY <1>3
<1>8. PICK x \in ItemType : x = its[1]
  BY <1>5
<1>9. Len(queue') <= Capacity
  <2>1. queue \in Seq(ItemType) /\ Capacity \in Nat
    BY WorldFacts DEF TypesInv, QueueOK, BaseOK
  <2> QED BY <1>1, <1>5, <2>1
<1>10. PICK r : r = [s EXCEPT !.items = Tail(its)]
  OBVIOUS
<1>11. s.at # "gone"
  BY <1>1 DEF Gone
<1>12. s.at = "idle" => its = <<x>> /\ Final(x)
  <2> HIDE DEF s, its
  <2>1. s.at = "idle" => Len(its) = 1 /\ Final(its[1])
    BY <1>2, <1>4
  <2>2. s.at = "idle" => Final(x)
    BY <1>8, <2>1
  <2> QED BY <1>6, <1>8, <2>1, <2>2
<1>13. s.at = "call" =>
                  \/ its = <<x>> /\ x = StartOf(s.key)
                  \/ /\ its = <<x, StartOf(s.key)>>
                     /\ x.kind \in {"cooldown", "unavailable"} /\ s.key[2] = 2
                     /\ x.key = <<s.key[1], 1>> /\ x.more
  <2> HIDE DEF s, its
  <2> QED BY <1>2, <1>4, <1>6, <1>7, <1>8
<1>14. queue' = Append(queue, x) /\ x = Head(its) /\ ItemIn(x, Keys, next)
  BY <1>1, <1>5, <1>8
<1>15. workers' = [workers EXCEPT ![w] = r]
  BY <1>1, <1>10
<1> QED BY <1>1, <1>3, <1>8, <1>9, <1>10, <1>11, <1>12, <1>13, <1>14, <1>15


\* What is left of a worker that puts x.
LEMMA PutLeaves ==
  ASSUME TypesInv, NEW w \in Workers, Put(w)
  PROVE  \E x \in ItemType :
            /\ x = workers[w].items[1] /\ workers[w].items # <<>>
            /\ queue' = Append(queue, x) /\ Len(queue') <= Capacity
            /\ ItemIn(x, Keys, next) /\ workers[w].at \in {"idle", "call"}
            /\ DOMAIN workers' = Workers
            /\ \A v \in Workers \ {w} : workers'[v] = workers[v]
            /\ workers'[w] \in States /\ workers'[w].at = workers[w].at
            /\ workers'[w].key = workers[w].key /\ workers'[w].left = workers[w].left
            /\ workers[w].at = "idle" => workers'[w].items = <<>> /\ Final(x)
            /\ workers[w].at = "call" =>
                  \/ workers'[w].items = <<>> /\ x = StartOf(workers[w].key)
                  \/ /\ workers'[w].items = <<StartOf(workers[w].key)>>
                     /\ x.kind \in {"cooldown", "unavailable"} /\ workers[w].key[2] = 2
                     /\ x.key = <<workers[w].key[1], 1>> /\ x.more
            /\ UNCHANGED <<world, streamVars, next, ended, ledger, reached>>
<1> DEFINE s == workers[w]
<1>1. PICK x, r :
            /\ x \in ItemType
            /\ s.items # <<>> /\ x = s.items[1] /\ x = Head(s.items)
            /\ queue' = Append(queue, x) /\ Len(queue') <= Capacity /\ Len(queue) < Capacity
            /\ workers' = [workers EXCEPT ![w] = r]
            /\ r = [s EXCEPT !.items = Tail(s.items)]
            /\ ItemIn(x, Keys, next)
            /\ s.at # "gone" /\ ~s.cancelled
            /\ s.at = "idle" => s.items = <<x>> /\ Final(x)
            /\ s.at = "call" =>
                  \/ s.items = <<x>> /\ x = StartOf(s.key)
                  \/ /\ s.items = <<x, StartOf(s.key)>>
                     /\ x.kind \in {"cooldown", "unavailable"} /\ s.key[2] = 2
                     /\ x.key = <<s.key[1], 1>> /\ x.more
            /\ s.at \in {"idle", "call"}
            /\ UNCHANGED <<world, streamVars, next, ended, ledger, reached>>
  BY PutIs
<1>2. s \in States
  BY DEF TypesInv, WorkersOK, WorkerOK
<1>3. s.items \in Seq(ItemType)
  BY <1>2 DEF States
<1>4. Tail(s.items) \in Seq(ItemType)
  BY <1>1, <1>3
<1>5. r \in States /\ r.at = s.at /\ r.key = s.key /\ r.left = s.left /\ r.items = Tail(s.items)
  BY <1>1, <1>2, <1>4 DEF States
<1>6. s.at = "idle" => r.items = <<>> /\ Final(x)
  BY <1>1, <1>5, Tails
<1>7. s.at = "call" =>
                  \/ r.items = <<>> /\ x = StartOf(s.key)
                  \/ /\ r.items = <<StartOf(s.key)>>
                     /\ x.kind \in {"cooldown", "unavailable"} /\ s.key[2] = 2
                     /\ x.key = <<s.key[1], 1>> /\ x.more
  <2>1. CASE s.items = <<x>>
    BY <1>1, <1>5, <2>1, Tails
  <2>2. ASSUME NEW z, s.items = <<x, z>> PROVE r.items = <<z>>
    BY <1>5, <2>2, Tails
  <2> HIDE DEF s
  <2> QED BY <1>1, <2>1, <2>2
<1>8. workers'[w] = r /\ DOMAIN workers' = Workers /\ \A v \in Workers \ {w} : workers'[v] = workers[v]
  BY <1>1 DEF TypesInv, WorkersOK
<1> HIDE DEF s
<1>9. \A y : y = r => y \in States /\ y.at = s.at /\ y.key = s.key /\ y.left = s.left /\ y.items = r.items
  BY <1>5
<1>10. /\ workers'[w] \in States /\ workers'[w].at = s.at
       /\ workers'[w].key = s.key /\ workers'[w].left = s.left /\ workers'[w].items = r.items
  BY <1>8, <1>9
<1> QED BY <1>1, <1>6, <1>7, <1>8, <1>10 DEF s

LEMMA PutTypes ==
  ASSUME TypesInv, NEW w \in Workers, Put(w)
  PROVE  TypesInv'
<1> DEFINE s == workers[w]
           t == workers'[w]
<1>1. PICK x \in ItemType :
            /\ x = s.items[1] /\ s.items # <<>>
            /\ queue' = Append(queue, x) /\ Len(queue') <= Capacity
            /\ ItemIn(x, Keys, next) /\ s.at \in {"idle", "call"}
            /\ DOMAIN workers' = Workers
            /\ \A v \in Workers \ {w} : workers'[v] = workers[v]
            /\ t \in States /\ t.at = s.at
            /\ t.key = s.key /\ t.left = s.left
            /\ s.at = "idle" => t.items = <<>> /\ Final(x)
            /\ s.at = "call" =>
                  \/ t.items = <<>> /\ x = StartOf(s.key)
                  \/ /\ t.items = <<StartOf(s.key)>>
                     /\ x.kind \in {"cooldown", "unavailable"} /\ s.key[2] = 2
                     /\ x.key = <<s.key[1], 1>> /\ x.more
            /\ UNCHANGED <<world, streamVars, next, ended, ledger, reached>>
  BY PutLeaves
<1>2. BaseOK' /\ next' \in Nat /\ next <= next' /\ UNCHANGED world /\ next' = next
  BY <1>1, BaseFrame DEF streamVars
<1>3. ReachedOK'
  BY <1>1, <1>2, ReachedFrame
<1>4. Keys' = Keys /\ Capacity' = Capacity /\ (Events' <=> Events) /\ Calls' = Calls
  BY <1>2, CallsStay
<1>5. QueueOK'
  <2>1. queue \in Seq(ItemType) /\ \A p \in 1 .. Len(queue) : ItemIn(queue[p], Keys, next)
    BY DEF TypesInv, QueueOK
  <2>2. queue' \in Seq(ItemType) /\ Len(queue') = Len(queue) + 1
        /\ queue'[Len(queue) + 1] = x /\ \A p \in 1 .. Len(queue) : queue'[p] = queue[p]
    BY <1>1, <2>1
  <2>3. ASSUME NEW p \in 1 .. Len(queue') PROVE ItemIn(queue'[p], Keys', next')
    <3>1. CASE p \in 1 .. Len(queue)
      BY <1>2, <1>4, <2>1, <2>2, <3>1
    <3>2. CASE p = Len(queue) + 1
      BY <1>1, <1>2, <1>4, <2>2, <3>2
    <3> QED BY <2>1, <2>2, <3>1, <3>2
  <2>4. queue' \in Seq(ItemType)'
    BY <1>4, <2>2 DEF ItemType
  <2> QED BY <1>1, <1>4, <2>3, <2>4 DEF QueueOK
<1>6. WorkerOK(w)'
  <2>1. WorkerOK(w)
    BY DEF TypesInv, WorkersOK
  <2>2. t \in States'
    BY <1>1, <1>4 DEF States, ItemType
  <2>3. CASE t.items = <<>> /\ s.at = "idle"
    <3>1. Len(t.items) = 0
      BY <2>3
    <3> QED BY <1>1, <2>2, <2>3, <3>1 DEF WorkerOK
  <2>4. ASSUME s.at = "call"
        PROVE  s.key \in Keys' /\ s.key[1] < next' /\ (s.left = << 2 >> => s.key[2] = 1) /\ Events'
    <3>1. s.items # <<>> /\ next' = next /\ Keys' = Keys /\ (Events' <=> Events)
      BY <1>1, <1>2, <1>4
    <3> QED BY <2>1, <2>4, <3>1 DEF WorkerOK
  <2>5. CASE t.items = <<>> /\ s.at = "call"
    <3>1. Len(t.items) = 0 /\ t.at = "call" /\ t.key = s.key /\ t.left = s.left
      BY <1>1, <2>5
    <3> QED BY <2>2, <2>4, <2>5, <3>1 DEF WorkerOK
  <2>6. CASE t.items = <<StartOf(s.key)>> /\ s.at = "call"
    <3>1. /\ Len(t.items) = 1 /\ t.items[1] = StartOf(s.key) /\ t.items # <<>>
          /\ t.at = "call" /\ t.key = s.key /\ t.left = s.left
      BY <1>1, <2>6
    <3>2. ItemIn(t.items[1], Keys', next')
      <4>1. ItemIn(s.items[2], Keys, next) /\ s.items[2] = StartOf(s.key)
        <5>1. PICK y, r :
            /\ y \in ItemType
            /\ s.items # <<>> /\ y = s.items[1] /\ y = Head(s.items)
            /\ queue' = Append(queue, y) /\ Len(queue') <= Capacity /\ Len(queue) < Capacity
            /\ workers' = [workers EXCEPT ![w] = r]
            /\ r = [s EXCEPT !.items = Tail(s.items)]
            /\ ItemIn(y, Keys, next)
            /\ s.at # "gone" /\ ~s.cancelled
            /\ s.at = "idle" => s.items = <<y>> /\ Final(y)
            /\ s.at = "call" =>
                  \/ s.items = <<y>> /\ y = StartOf(s.key)
                  \/ /\ s.items = <<y, StartOf(s.key)>>
                     /\ y.kind \in {"cooldown", "unavailable"} /\ s.key[2] = 2
                     /\ y.key = <<s.key[1], 1>> /\ y.more
            /\ s.at \in {"idle", "call"}
            /\ UNCHANGED <<world, streamVars, next, ended, ledger, reached>>
          BY PutIs
        <5>2. s.items # <<y>>
          <6> SUFFICES ASSUME s.items = <<y>> PROVE FALSE
            OBVIOUS
          <6>1. Tail(s.items) = <<>>
            BY Tails
          <6>2. t.items = Tail(s.items)
            <7>1. s \in States
              BY <2>1 DEF WorkerOK
            <7>2. t = r
              BY <5>1 DEF TypesInv, WorkersOK
            <7> QED BY <5>1, <7>1, <7>2 DEF States
          <6> QED BY <3>1, <6>1, <6>2
        <5>3. s.items = <<y, StartOf(s.key)>>
          BY <2>6, <5>1, <5>2
        <5>4. Len(s.items) = 2 /\ s.items[2] = StartOf(s.key) /\ 2 \in 1 .. Len(s.items)
          BY <5>3
        <5> QED BY <2>1, <5>4 DEF WorkerOK
      <4> QED BY <1>2, <1>4, <3>1, <4>1
    <3>3. \A p \in 1 .. Len(t.items) : ItemIn(t.items[p], Keys', next')
      BY <3>1, <3>2
    <3> QED BY <2>2, <2>4, <2>6, <3>1, <3>3 DEF WorkerOK
  <2> QED BY <1>1, <2>3, <2>5, <2>6
<1>7. \A i \in Calls : Owns(w, i)' => Owns(w, i)
  <2>1. s.at = "idle" => \A i \in Calls : ~Owns(w, i)'
    BY <1>1 DEF Owns
  <2>2. ASSUME s.at = "call" PROVE \A i \in Calls : Owns(w, i)' => Owns(w, i)
    <3>1. t.items # <<>> => t.items[1].key = s.key
      BY <1>1, <2>2 DEF StartOf, Item
    <3> QED BY <1>1, <2>2, <3>1 DEF Owns
  <2> QED BY <1>1, <2>1, <2>2
<1>8. WorkersOK'
  <2>1. PICK r : workers' = [workers EXCEPT ![w] = r]
    BY PutIs
  <2> QED BY <1>2, <1>6, <1>7, <2>1, OneWorkerTypes
<1> QED BY <1>2, <1>3, <1>5, <1>8 DEF TypesInv


LEMMA ReachTypes ==
  ASSUME TypesInv, NEW w \in Workers, Reach(w)
  PROVE  TypesInv'
<1>1. /\ workers[w].at = "call" /\ reached' = [reached EXCEPT ![workers[w].key] = "yes"]
      /\ UNCHANGED <<world, streamVars, workers, next, queue, ended, ledger>>
  BY DEF Reach, Calling
<1>2. BaseOK' /\ next' \in Nat /\ next <= next' /\ next' = next
  BY <1>1, BaseFrame DEF streamVars
<1>3. QueueOK' /\ WorkersOK'
  BY <1>1, <1>2, QueueFrame, WorkersFrame
<1>4. workers[w].key \in Keys /\ workers[w].key[1] < next
  BY <1>1, CallFacts
<1>5. Keys' = Keys
  BY <1>1, CallsStay
<1>6. next \in Int /\ \A k \in Keys : k[1] \in Int
  BY WorldFacts DEF TypesInv, BaseOK, Calls
<1>7. ReachedOK'
  BY <1>1, <1>2, <1>4, <1>5, <1>6 DEF TypesInv, ReachedOK
<1> QED BY <1>2, <1>3, <1>7 DEF TypesInv

LEMMA SucceedTypes ==
  ASSUME TypesInv, NEW w \in Workers, Succeed(w)
  PROVE  TypesInv'
<1>1. /\ workers[w].at = "call" /\ reached' = [reached EXCEPT ![workers[w].key] = "value"]
      /\ UNCHANGED <<world, streamVars, next, queue, ended, ledger>>
      /\ \E kind \in {"end", "post"} : Answers(w, kind)
  BY AnswersAre DEF Succeed, Calling
<1>2. BaseOK' /\ next' \in Nat /\ next <= next' /\ next' = next
  BY <1>1, BaseFrame DEF streamVars
<1>3. QueueOK' /\ WorkersOK'
  BY <1>1, <1>2, QueueFrame, AnswersTypes
<1>4. workers[w].key \in Keys /\ workers[w].key[1] < next
  BY <1>1, CallFacts
<1>5. Keys' = Keys
  BY <1>1, CallsStay
<1>6. next \in Int /\ \A k \in Keys : k[1] \in Int
  BY WorldFacts DEF TypesInv, BaseOK, Calls
<1>7. ReachedOK'
  BY <1>1, <1>2, <1>4, <1>5, <1>6 DEF TypesInv, ReachedOK
<1> QED BY <1>2, <1>3, <1>7 DEF TypesInv

\* A call that fails, whichever way.
LEMMA FailsTypes ==
  ASSUME TypesInv, NEW w \in Workers, Fail(w) \/ Unavailable(w) \/ CancelSwallowed(w)
  PROVE  /\ TypesInv' /\ workers[w].at = "call" /\ workers[w].items = <<>>
         /\ Answers(w, "error") \/ Answers(w, "unavailable") \/ GoesOn(w)
         /\ UNCHANGED <<world, streamVars, next, queue, ended, ledger, reached>>
<1>1. /\ workers[w].at = "call" /\ workers[w].items = <<>>
      /\ UNCHANGED <<world, streamVars, next, queue, ended, ledger, reached>>
  BY DEF Fail, Unavailable, CancelSwallowed, Calling
<1>2. Answers(w, "error") \/ Answers(w, "unavailable") \/ GoesOn(w)
  <2>1. CASE Fail(w)
    BY <2>1, AnswersAre DEF Fail
  <2>2. CASE CancelSwallowed(w)
    BY <2>2, AnswersAre DEF CancelSwallowed
  <2>3. CASE Unavailable(w)
    BY <2>3, UnavailableIs
  <2> QED BY <2>1, <2>2, <2>3
<1>3. BaseOK' /\ next' \in Nat /\ next <= next' /\ next' = next
  BY <1>1, BaseFrame DEF streamVars
<1>4. QueueOK' /\ ReachedOK'
  BY <1>1, <1>3, QueueFrame, ReachedFrame
<1>5. WorkersOK'
  BY <1>1, <1>2, AnswersTypes, GoesOnTypes
<1> QED BY <1>1, <1>2, <1>3, <1>4, <1>5 DEF TypesInv

\* A task that is over.
LEMMA GoneTypes ==
  ASSUME TypesInv, NEW w \in Workers, CallCancelled(w) \/ WorkerCancelled(w)
  PROVE  TypesInv' /\ workers' = [workers EXCEPT ![w] = Absent]
         /\ UNCHANGED <<world, next, queue, ended, ledger, reached>>
<1>1. /\ workers' = [workers EXCEPT ![w] = Absent]
      /\ UNCHANGED <<world, next, queue, ended, ledger, reached>>
      /\ UNCHANGED streamVars \/ (pc' = "finally" /\ outcome' = "raised")
  BY DEF CallCancelled, WorkerCancelled, Becomes
<1>2. BaseOK' /\ next' \in Nat /\ next <= next' /\ next' = next
  BY <1>1 DEF TypesInv, BaseOK, streamVars
<1>3. QueueOK' /\ ReachedOK'
  BY <1>1, <1>2, QueueFrame, ReachedFrame
<1>4. WorkersOK'
  BY <1>1, AbsentTypes
<1> QED BY <1>1, <1>2, <1>3, <1>4 DEF TypesInv

\* Steps of the stream that leave the workers and their items alone.
LEMMA StreamTypes ==
  ASSUME TypesInv, UNCHANGED <<world, workers, next, queue, reached>>,
         ended' \in 0 .. Len(world.chain),
         pc' \in {"go", "yield", "gather", "drain", "flush", "finally", "leaving", "over"},
         outcome' \in {None, "run.end", "raised", "closed", "lost"}
  PROVE  TypesInv'
<1>1. BaseOK' /\ next' \in Nat /\ next <= next' /\ next' = next
  BY DEF TypesInv, BaseOK
<1>2. QueueOK' /\ ReachedOK' /\ WorkersOK'
  BY <1>1, QueueFrame, ReachedFrame, WorkersFrame
<1> QED BY <1>1, <1>2 DEF TypesInv

\* One item is taken off the queue.
LEMMA TakenOff ==
  ASSUME TypesInv, queue # <<>>, queue' = Tail(queue)
  PROVE  /\ Len(queue) \in Nat /\ Len(queue) >= 1 /\ Len(queue') = Len(queue) - 1
         /\ Head(queue) = queue[1] /\ Head(queue) \in ItemType /\ ItemIn(Head(queue), Keys, next)
         /\ queue' \in Seq(ItemType)
         /\ \A p \in 1 .. Len(queue') : p + 1 \in 1 .. Len(queue) /\ queue'[p] = queue[p + 1]
<1>1. queue \in Seq(ItemType) /\ \A p \in 1 .. Len(queue) : ItemIn(queue[p], Keys, next)
  BY DEF TypesInv, QueueOK
<1>2. Len(queue) \in Nat /\ Len(queue) >= 1
  BY <1>1
<1>3. Head(queue) = queue[1] /\ Head(queue) \in ItemType
  BY <1>1
<1>4. ItemIn(queue[1], Keys, next)
  BY <1>1, <1>2
<1>5. queue' \in Seq(ItemType) /\ Len(queue') = Len(queue) - 1
  BY <1>1
<1>6. \A p \in 1 .. Len(queue') : p + 1 \in 1 .. Len(queue) /\ queue'[p] = queue[p + 1]
  BY <1>1, <1>2, <1>5
<1> QED BY <1>2, <1>3, <1>4, <1>5, <1>6

LEMMA TakenOffTypes ==
  ASSUME TypesInv, queue # <<>>, queue' = Tail(queue),
         UNCHANGED <<world, workers, next, reached>>, BaseOK'
  PROVE  TypesInv'
<1>1. next' \in Nat /\ next <= next'
  BY DEF TypesInv, BaseOK
<1>2. ReachedOK' /\ WorkersOK'
  BY <1>1, ReachedFrame, WorkersFrame
<1>3. Keys' = Keys /\ Capacity' = Capacity /\ Capacity \in Nat
  BY CallsStay, WorldFacts DEF TypesInv, BaseOK
<1>4. /\ Len(queue) \in Nat /\ Len(queue) >= 1 /\ Len(queue') = Len(queue) - 1
      /\ queue' \in Seq(ItemType)
      /\ \A p \in 1 .. Len(queue') : p + 1 \in 1 .. Len(queue) /\ queue'[p] = queue[p + 1]
  BY TakenOff
<1>5. Len(queue) <= Capacity /\ \A p \in 1 .. Len(queue) : ItemIn(queue[p], Keys, next)
  BY DEF TypesInv, QueueOK
<1>6. ASSUME NEW p \in 1 .. Len(queue') PROVE ItemIn(queue'[p], Keys', next')
  BY <1>3, <1>4, <1>5
<1>7. queue' \in Seq(ItemType)'
  BY <1>3, <1>4 DEF ItemType
<1>8. Len(queue') <= Capacity'
  BY <1>3, <1>4, <1>5
<1>9. QueueOK'
  BY <1>6, <1>7, <1>8 DEF QueueOK
<1> QED BY <1>2, <1>9 DEF TypesInv


\* Workers that are told to stop have the same work under way.
LEMMA CancelledIs ==
  ASSUME TypesInv, workers' = Cancelled
  PROVE  /\ DOMAIN workers' = Workers
         /\ \A w \in Workers :
               /\ workers'[w] \in States /\ workers'[w].at = workers[w].at
               /\ workers'[w].key = workers[w].key /\ workers'[w].left = workers[w].left
               /\ workers'[w].items = workers[w].items
<1>1. DOMAIN workers' = Workers
  BY DEF Cancelled
<1>2. ASSUME NEW w \in Workers
      PROVE  /\ workers'[w] \in States /\ workers'[w].at = workers[w].at
             /\ workers'[w].key = workers[w].key /\ workers'[w].left = workers[w].left
             /\ workers'[w].items = workers[w].items
  <2>1. workers[w] \in States
    BY DEF TypesInv, WorkersOK, WorkerOK
  <2>2. CASE Gone(w)
    BY <2>1, <2>2 DEF Cancelled
  <2>3. CASE ~Gone(w)
    <3>1. workers'[w] = [workers[w] EXCEPT !.cancelled = TRUE]
      BY <2>3 DEF Cancelled
    <3> QED BY <2>1, <3>1 DEF States
  <2> QED BY <2>2, <2>3
<1> QED BY <1>1, <1>2

LEMMA CancelledTypes ==
  ASSUME TypesInv, workers' = Cancelled, UNCHANGED <<world, next, queue, reached>>, BaseOK'
  PROVE  TypesInv'
<1>1. next' \in Nat /\ next <= next'
  BY DEF TypesInv, BaseOK
<1>2. QueueOK' /\ ReachedOK'
  BY <1>1, QueueFrame, ReachedFrame
<1>3. Keys' = Keys /\ Calls' = Calls /\ (Events' <=> Events)
  BY CallsStay
<1>4. /\ DOMAIN workers' = Workers
      /\ \A w \in Workers :
               /\ workers'[w] \in States /\ workers'[w].at = workers[w].at
               /\ workers'[w].key = workers[w].key /\ workers'[w].left = workers[w].left
               /\ workers'[w].items = workers[w].items
  BY CancelledIs
<1>5. ASSUME NEW w \in Workers PROVE WorkerOK(w)'
  <2>1. WorkerOK(w)
    BY DEF TypesInv, WorkersOK
  <2>2. \A p \in 1 .. Len(workers'[w].items) : ItemIn(workers'[w].items[p], Keys', next')
    <3>1. \A p \in 1 .. Len(workers[w].items) : ItemIn(workers[w].items[p], Keys, next)
      BY <2>1 DEF WorkerOK
    <3> QED BY <1>3, <1>4, <3>1
  <2>3. workers'[w] \in States'
    BY <1>3, <1>4 DEF States, ItemType
  <2> QED BY <1>3, <1>4, <2>1, <2>2, <2>3 DEF WorkerOK
<1>6. \A w \in Workers, i \in Calls : Owns(w, i)' <=> Owns(w, i)
  BY <1>4 DEF Owns
<1>7. WorkersOK'
  BY <1>3, <1>4, <1>5, <1>6 DEF TypesInv, WorkersOK
<1> QED BY <1>2, <1>7 DEF TypesInv

LEMMA LaunchTypes ==
  ASSUME TypesInv, Launch
  PROVE  TypesInv' /\ \A w \in Workers : workers'[w].items = <<>> /\ workers'[w].at # "call"
<1>1. PICK team : workers' = [w \in Workers |-> IF w \in team THEN Idle ELSE Absent]
  BY DEF Launch
<1>2. UNCHANGED <<world, next, queue, ended, ledger, reached, outcome>> /\ pc' = "go"
  BY DEF Launch, Goes
<1>3. BaseOK' /\ next' \in Nat /\ next <= next'
  BY <1>2 DEF TypesInv, BaseOK
<1>4. QueueOK' /\ ReachedOK'
  BY <1>2, <1>3, QueueFrame, ReachedFrame
<1>5. ASSUME NEW w \in Workers
      PROVE  /\ workers'[w] \in States' /\ workers'[w].at \in {"idle", "gone"}
             /\ workers'[w].items = <<>> /\ Len(workers'[w].items) = 0
  <2>1. workers'[w] = Idle \/ workers'[w] = Absent
    BY <1>1
  <2>2. Idle \in States' /\ Idle.at = "idle" /\ Idle.items = <<>>
    BY DEF Idle, Resting, States
  <2>3. Absent \in States' /\ Absent.at = "gone" /\ Absent.items = <<>>
    BY DEF Absent, States
  <2> QED BY <2>1, <2>2, <2>3
<1>6. ASSUME NEW w \in Workers PROVE WorkerOK(w)' /\ \A i \in Calls' : ~Owns(w, i)'
  BY <1>5 DEF WorkerOK, Owns
<1>7. DOMAIN workers' = Workers
  BY <1>1
<1>8. WorkersOK'
  BY <1>6, <1>7 DEF WorkersOK
<1> QED BY <1>3, <1>4, <1>5, <1>8 DEF TypesInv

\* The stream moves on, or stops; nothing else happens.
Moves ==
    \/ MakePlan \/ PlanFails \/ LaunchRefused \/ AllEnded \/ Gathered \/ Drained \/ Flush
    \/ Raise \/ Leave \/ Finish \/ PersistFails \/ FallbackUnknown

WorkerSteps(w) ==
    TakeCall(w) \/ Put(w) \/ Reach(w) \/ Succeed(w) \/ Fail(w) \/ Unavailable(w)
    \/ WorkerCancelled(w) \/ CallCancelled(w) \/ CancelSwallowed(w)

LEMMA NextIs ==
  ASSUME Next
  PROVE  \/ Moves \/ Launch \/ Get \/ Persist \/ Taken \/ Abort \/ Drain \/ Indeterminate
         \/ Close \/ Finally
         \/ \E w \in Workers : WorkerSteps(w)
BY DEF Next, Stream, Environment, Work, Moves, WorkerSteps

LEMMA MovesAre ==
  ASSUME Moves
  PROVE  /\ UNCHANGED <<world, workers, next, queue, ended, started, closed, sequence, trace, reached>>
         /\ \/ pc' \in {"go", "drain", "flush", "over"} /\ outcome' = outcome
            \/ pc' = "finally" /\ agenda' = <<>> /\ outcome' \in {"run.end", "raised", "lost"}
<1>1. CASE MakePlan \/ PlanFails \/ LaunchRefused \/ Gathered \/ Finish
  BY <1>1 DEF MakePlan, PlanFails, LaunchRefused, Gathered, Finish, Goes, ledger
<1>2. CASE AllEnded \/ Raise \/ PersistFails \/ FallbackUnknown
  BY <1>2 DEF AllEnded, Raise, PersistFails, FallbackUnknown, Stops, ledger
<1>3. CASE Drained \/ Leave
  BY <1>3 DEF Drained, Leave, Goes, ledger
<1>4. CASE Flush
  BY <1>4 DEF Flush, Goes
<1> QED BY <1>1, <1>2, <1>3, <1>4 DEF Moves

LEMMA TypesStep ==
  ASSUME TypesInv, [Next]_vars
  PROVE  TypesInv'
<1>0. /\ pc \in {"go", "yield", "gather", "drain", "flush", "finally", "leaving", "over"}
      /\ outcome \in {None, "run.end", "raised", "closed", "lost"}
      /\ ended \in 0 .. Len(world.chain) /\ Len(world.chain) \in Nat
      /\ next \in 1 .. Len(world.chain) + 1 /\ world \in World
  BY WorldFacts DEF TypesInv, BaseOK
<1>1. CASE Moves
  BY <1>0, <1>1, MovesAre, StreamTypes
<1>2. CASE Launch
  BY <1>2, LaunchTypes
<1>3. CASE Get
  <2>1. /\ queue # <<>> /\ queue' = Tail(queue) /\ ended' \in {ended, ended + 1}
        /\ ended < Len(world.chain) /\ pc' = "go" /\ outcome' = outcome
        /\ UNCHANGED <<world, workers, next, reached>>
    BY <1>3 DEF Get, Goes
  <2>2. BaseOK'
    BY <1>0, <2>1 DEF BaseOK
  <2> QED BY <2>1, <2>2, TakenOffTypes
<1>4. CASE Persist \/ Taken
  <2>1. /\ UNCHANGED <<world, workers, next, queue, ended, outcome, reached>>
        /\ pc' \in {"go", "yield"}
    BY <1>4 DEF Persist, Taken, Goes
  <2> QED BY <1>0, <2>1, StreamTypes
<1>5. CASE Abort \/ Finally
  <2>1. /\ UNCHANGED <<world, next, queue, ended, outcome, reached>>
        /\ pc' \in {"gather", "leaving"} /\ workers' = Cancelled
    BY <1>5 DEF Abort, Finally, Goes
  <2>2. BaseOK'
    BY <1>0, <2>1 DEF BaseOK
  <2> QED BY <2>1, <2>2, CancelledTypes
<1>6. CASE Drain
  <2>1. /\ queue # <<>> /\ queue' = Tail(queue)
        /\ UNCHANGED <<world, pc, outcome, workers, next, ended, reached>>
    BY <1>6 DEF Drain, streamVars
  <2>2. BaseOK'
    BY <1>0, <2>1 DEF BaseOK
  <2> QED BY <2>1, <2>2, TakenOffTypes
<1>7. CASE Indeterminate
  <2>1. UNCHANGED <<world, pc, outcome, workers, next, queue, ended, reached>>
    BY <1>7 DEF Indeterminate, streamVars
  <2> QED BY <1>0, <2>1, StreamTypes
<1>8. CASE Close
  <2>1. /\ UNCHANGED <<world, workers, next, queue, ended, reached>>
        /\ pc' = "finally" /\ outcome' = "closed"
    BY <1>8 DEF Close, Stops
  <2> QED BY <1>0, <2>1, StreamTypes
<1>9. CASE \E w \in Workers : WorkerSteps(w)
  <2>1. PICK w \in Workers : WorkerSteps(w)
    BY <1>9
  <2> QED BY <2>1, TakeCallTypes, PutTypes, ReachTypes, SucceedTypes, FailsTypes, GoneTypes
          DEF WorkerSteps
<1>10. CASE UNCHANGED vars
  <2>1. UNCHANGED <<world, pc, outcome, workers, next, queue, ended, reached>>
    BY <1>10 DEF vars
  <2> QED BY <1>0, <2>1, StreamTypes
<1> QED BY <1>1, <1>2, <1>3, <1>4, <1>5, <1>6, <1>7, <1>8, <1>9, <1>10, NextIs


-----------------------------------------------------------------------------
(* What the stream may be about to do *)

\* How each kind of agenda begins.
BeginsStartup(a) == a # <<>> /\ \/ Head(a).do \in {"plan", "launch"}
                                \/ Head(a).do = "emit" /\ Head(a).name \in {"run.start", "plan.end"}
BeginsFinishing(a) == a # <<>> /\ \/ Head(a).do = "finish"
                                  \/ Head(a).do = "emit" /\ Head(a).name = "run.end"
BeginsGoing(a) ==
    \/ a = <<>>
    \/ /\ a # <<>> /\ Len(a) \in 1 .. 2
       /\ Head(a).do = "emit"
       /\ Head(a).name \in {"tool.start", "tool.end", "tool.error", "tool.fallback"}
       /\ Head(a).key \in Keys
BeginsFailing(a) ==
    /\ a # <<>>
    /\ \/ Head(a).do \in {"abort", "raise"}
       \/ Head(a).do = "emit" /\ Head(a).name = "run.error"
       \/ /\ Len(a) = 4 /\ Head(a).do = "emit" /\ Head(a).name \in {"tool.end", "tool.error"}
          /\ Head(a).key \in Keys
BeginsEvent(a, names) ==
    /\ a # <<>> /\ Len(a) = 1 /\ Head(a).do = "emit" /\ Head(a).name \in names
    /\ Head(a).key \in Keys

LEMMA StepIs ==
  /\ \A n, k : Emit(n, k).do = "emit" /\ Emit(n, k).name = n /\ Emit(n, k).key = k
  /\ \A what : Do(what).do = what
BY DEF Emit, Do

LEMMA Lists ==
  \A a, b, c, d : /\ <<a>> # <<>> /\ <<a, b>> # <<>> /\ <<a, b, c>> # <<>> /\ <<a, b, c, d>> # <<>>
                  /\ Len(<<a>>) = 1 /\ Len(<<a, b>>) = 2 /\ Len(<<a, b, c>>) = 3
                  /\ Len(<<a, b, c, d>>) = 4
OBVIOUS

LEMMA HeadFacts ==
  /\ \A a : a \in Startup => BeginsStartup(a)
  /\ \A a : a \in Finishing => BeginsFinishing(a)
  /\ \A a : a \in Going => BeginsGoing(a)
  /\ \A a : a \in Failing => BeginsFailing(a)
  /\ \A a, names : a \in OneEvent(names) => BeginsEvent(a, names)
<1>1. ASSUME NEW a \in Startup PROVE BeginsStartup(a)
  BY StepIs, Heads, Lists DEF Startup, BeginsStartup
<1>2. ASSUME NEW a \in Finishing PROVE BeginsFinishing(a)
  BY StepIs, Heads, Lists DEF Finishing, BeginsFinishing
<1>3. ASSUME NEW names, NEW a \in OneEvent(names) PROVE BeginsEvent(a, names)
  BY StepIs, Heads, Lists DEF OneEvent, BeginsEvent
<1>4. ASSUME NEW a \in Going PROVE BeginsGoing(a)
  <2>1. CASE a = <<>>
    BY <2>1 DEF BeginsGoing
  <2>2. CASE a \in OneEvent({"tool.start", "tool.end", "tool.fallback"})
    <3>1. BeginsEvent(a, {"tool.start", "tool.end", "tool.fallback"})
      BY <2>2, <1>3
    <3> QED BY <3>1 DEF BeginsEvent, BeginsGoing
  <2>3. ASSUME NEW k \in Keys, a = <<Emit("tool.error", k), Emit("tool.fallback", k)>>
        PROVE  BeginsGoing(a)
    BY <2>3, StepIs, Heads, Lists DEF BeginsGoing
  <2> QED BY <2>1, <2>2, <2>3 DEF Going
<1>5. ASSUME NEW a \in Failing PROVE BeginsFailing(a)
  <2>1. CASE a = Aborting
    BY <2>1, StepIs, Heads, Lists DEF Aborting, BeginsFailing
  <2>2. CASE a = Failure \/ a = <<Do("raise")>>
    BY <2>2, StepIs, Heads, Lists DEF Failure, BeginsFailing
  <2>3. ASSUME NEW n \in {"tool.end", "tool.error"}, NEW k \in Keys, a = Ending(n, k)
        PROVE  BeginsFailing(a)
    BY <2>3, StepIs, Heads, Lists DEF Ending, BeginsFailing
  <2> QED BY <2>1, <2>2, <2>3 DEF Failing
<1> QED BY <1>1, <1>2, <1>3, <1>4, <1>5

\* The stream at a step that is not an event.
LEMMA DoingWhat ==
  ASSUME AgendaInv
  PROVE  /\ Doing("plan") => Events /\ agenda = <<Do("plan")>> /\ outcome = None
         /\ Doing("launch") => agenda = <<Do("launch")>> /\ outcome = None
         /\ Doing("abort") => Events /\ agenda = Aborting /\ outcome = None
         /\ Doing("raise") => agenda = <<Do("raise")>> /\ outcome = None
         /\ Doing("finish") => Events /\ agenda = <<Do("finish")>> /\ outcome = "run.end"
<1>1. CASE Events
  <2> SUFFICES ASSUME pc = "go", agenda # <<>>, Head(agenda).do # "emit"
               PROVE  \/ Head(agenda).do = "plan" /\ agenda = <<Do("plan")>> /\ outcome = None
                      \/ Head(agenda).do = "launch" /\ agenda = <<Do("launch")>> /\ outcome = None
                      \/ Head(agenda).do = "abort" /\ agenda = Aborting /\ outcome = None
                      \/ Head(agenda).do = "raise" /\ agenda = <<Do("raise")>> /\ outcome = None
                      \/ Head(agenda).do = "finish" /\ agenda = <<Do("finish")>> /\ outcome = "run.end"
    BY <1>1 DEF Doing
  <2>1. agenda \in Startup \cup Finishing \cup Going \cup Failing
    BY <1>1 DEF AgendaInv
  <2>2. outcome \in {None, "run.end"} /\ (outcome = "run.end" <=> agenda \in Finishing)
    BY <1>1 DEF AgendaInv, Live
  <2>3. CASE agenda \in Startup
    <3>1. agenda = <<Do("plan")>> \/ agenda = <<Do("launch")>>
      BY <2>3, StepIs, Heads DEF Startup
    <3>2. agenda \notin Finishing
      BY <2>3, HeadFacts DEF BeginsStartup, BeginsFinishing
    <3> QED BY <2>2, <3>1, <3>2, StepIs, Heads
  <2>4. CASE agenda \in Finishing
    <3>1. agenda = <<Do("finish")>>
      BY <2>4, StepIs, Heads DEF Finishing
    <3> QED BY <2>2, <2>4, <3>1, StepIs, Heads
  <2>5. CASE agenda \in Going
    BY <2>5, HeadFacts DEF BeginsGoing
  <2>6. CASE agenda \in Failing
    <3>1. agenda \notin Finishing
      BY <2>6, HeadFacts DEF BeginsFailing, BeginsFinishing
    <3>2. CASE agenda = Aborting
      BY <2>2, <3>1, <3>2, StepIs, Heads DEF Aborting
    <3>3. CASE agenda = <<Do("raise")>>
      BY <2>2, <3>1, <3>3, StepIs, Heads
    <3>4. CASE agenda = Failure
      BY <3>4, StepIs, Heads DEF Failure
    <3>5. ASSUME NEW n, NEW k, agenda = Ending(n, k) PROVE FALSE
      BY <3>5, StepIs, Heads DEF Ending
    <3> QED BY <2>6, <3>2, <3>3, <3>4, <3>5 DEF Failing
  <2> QED BY <2>1, <2>3, <2>4, <2>5, <2>6
<1>2. CASE ~Events
  <2> SUFFICES ASSUME pc = "go", agenda # <<>>, Head(agenda).do # "emit"
               PROVE  \/ Head(agenda).do = "launch" /\ agenda = <<Do("launch")>> /\ outcome = None
                      \/ Head(agenda).do = "raise" /\ agenda = <<Do("raise")>> /\ outcome = None
    BY <1>2 DEF Doing
  <2>1. agenda \in {<<Do("launch")>>, <<Do("raise")>>, <<>>} \cup OneEvent({"result"})
    BY <1>2 DEF AgendaInv
  <2>2. outcome = None
    BY <1>2 DEF AgendaInv, Live
  <2>3. agenda \notin OneEvent({"result"})
    BY HeadFacts DEF BeginsEvent
  <2> QED BY <2>1, <2>2, <2>3, StepIs, Heads
<1> QED BY <1>1, <1>2


\* The stream at an event.
LEMMA EmitWhat ==
  ASSUME AgendaInv, Doing("emit")
  PROVE  \/ Events /\ agenda = <<Emit("run.start", None), Do("plan")>> /\ outcome = None
         \/ Events /\ agenda = <<Emit("plan.end", None), Do("launch")>> /\ outcome = None
         \/ Events /\ agenda = <<Emit("run.end", None), Do("finish")>> /\ outcome = "run.end"
         \/ Events /\ agenda = Failure /\ outcome = None
         \/ Events /\ outcome = None /\ \E n \in {"tool.start", "tool.end", "tool.fallback"}, k \in Keys :
               agenda = <<Emit(n, k)>> /\ k[1] < next
         \/ Events /\ outcome = None /\ \E k \in Keys :
               agenda = <<Emit("tool.error", k), Emit("tool.fallback", k)>> /\ k[1] < next
         \/ Events /\ outcome = None /\ \E n \in {"tool.end", "tool.error"}, k \in Keys :
               agenda = Ending(n, k) /\ k[1] < next
         \/ ~Events /\ outcome = None /\ \E k \in Keys : agenda = <<Emit("result", k)>> /\ k[1] < next
<1>0. pc = "go" /\ agenda # <<>> /\ Head(agenda).do = "emit"
  BY DEF Doing
<1>1. outcome \in {None, "run.end"} /\ (outcome = "run.end" <=> Events /\ agenda \in Finishing)
  BY <1>0 DEF AgendaInv, Live
<1>2. Head(agenda).name \in ToolNames \cup {"result"} =>
          Head(agenda).key \in Keys /\ Head(agenda).key[1] < next
  BY <1>0 DEF AgendaInv
<1>3. CASE Events
  <2>1. agenda \in Startup \cup Finishing \cup Going \cup Failing
    BY <1>0, <1>3 DEF AgendaInv
  <2>2. CASE agenda \in Startup
    <3>1. \/ agenda = <<Emit("run.start", None), Do("plan")>>
          \/ agenda = <<Emit("plan.end", None), Do("launch")>>
      BY <1>0, <2>2, StepIs, Heads DEF Startup
    <3>2. agenda \notin Finishing
      BY <2>2, HeadFacts DEF BeginsStartup, BeginsFinishing
    <3> QED BY <1>1, <1>3, <3>1, <3>2
  <2>3. CASE agenda \in Finishing
    <3>1. agenda = <<Emit("run.end", None), Do("finish")>>
      BY <1>0, <2>3, StepIs, Heads DEF Finishing
    <3> QED BY <1>1, <1>3, <2>3, <3>1
  <2>4. CASE agenda \in Going
    <3>1. agenda \notin Finishing
      BY <2>4, HeadFacts DEF BeginsGoing, BeginsFinishing
    <3>2. ASSUME NEW n \in {"tool.start", "tool.end", "tool.fallback"}, NEW k \in Keys,
                 agenda = <<Emit(n, k)>>
          PROVE  k[1] < next
      BY <1>2, <3>2, StepIs, Heads DEF ToolNames, Enders
    <3>3. ASSUME NEW k \in Keys, agenda = <<Emit("tool.error", k), Emit("tool.fallback", k)>>
          PROVE  k[1] < next
      BY <1>2, <3>3, StepIs, Heads DEF ToolNames, Enders
    <3>4. \/ \E n \in {"tool.start", "tool.end", "tool.fallback"}, k \in Keys : agenda = <<Emit(n, k)>>
          \/ \E k \in Keys : agenda = <<Emit("tool.error", k), Emit("tool.fallback", k)>>
      BY <1>0, <2>4 DEF Going, OneEvent
    <3> QED BY <1>1, <1>3, <3>1, <3>2, <3>3, <3>4
  <2>5. CASE agenda \in Failing
    <3>1. agenda \notin Finishing
      BY <2>5, HeadFacts DEF BeginsFailing, BeginsFinishing
    <3>2. agenda # Aborting /\ agenda # <<Do("raise")>>
      BY <1>0, StepIs, Heads DEF Aborting
    <3>3. ASSUME NEW n \in {"tool.end", "tool.error"}, NEW k \in Keys, agenda = Ending(n, k)
          PROVE  k[1] < next
      <4>1. Head(agenda) = Emit(n, k)
        BY <3>3, Heads DEF Ending
      <4> QED BY <1>2, <4>1, StepIs DEF ToolNames, Enders
    <3>4. agenda = Failure \/ \E n \in {"tool.end", "tool.error"}, k \in Keys : agenda = Ending(n, k)
      BY <2>5, <3>2 DEF Failing
    <3> QED BY <1>1, <1>3, <3>1, <3>3, <3>4
  <2> QED BY <2>1, <2>2, <2>3, <2>4, <2>5
<1>4. CASE ~Events
  <2>1. agenda \in {<<Do("launch")>>, <<Do("raise")>>, <<>>} \cup OneEvent({"result"})
    BY <1>0, <1>4 DEF AgendaInv
  <2>2. agenda \in OneEvent({"result"})
    BY <1>0, <2>1, StepIs, Heads
  <2>3. PICK k \in Keys : agenda = <<Emit("result", k)>>
    BY <2>2 DEF OneEvent
  <2>4. k[1] < next
    BY <1>2, <2>3, StepIs, Heads
  <2> QED BY <1>1, <1>4, <2>3, <2>4
<1> QED BY <1>3, <1>4

\* The sets of agendas only depend on the world.
LEMMA AgendasStay ==
  ASSUME UNCHANGED world
  PROVE  /\ Going' = Going /\ Failing' = Failing
         /\ \A names : OneEvent(names)' = OneEvent(names)
<1>1. Keys' = Keys
  BY CallsStay
<1> QED BY <1>1 DEF Going, Failing, OneEvent

\* Nothing happens to the stream.
LEMMA AgendaFrame ==
  ASSUME TypesInv, AgendaInv, UNCHANGED <<world, streamVars>>, next' \in Nat, next <= next'
  PROVE  AgendaInv'
<1>1. /\ Going' = Going /\ Failing' = Failing /\ Keys' = Keys /\ (Events' <=> Events)
      /\ OneEvent({"result"})' = OneEvent({"result"})
      /\ OneEvent({"tool.fallback"})' = OneEvent({"tool.fallback"})
  BY AgendasStay, CallsStay
<1>2. UNCHANGED <<pc, agenda, outcome>>
  BY DEF streamVars
<1>3. Keys' = Keys
  BY CallsStay
<1>4. pc \in {"go", "yield"} /\ agenda # <<>> /\ Head(agenda).do = "emit"
      /\ Head(agenda).name \in ToolNames \cup {"result"} =>
          Head(agenda).key \in Keys /\ Head(agenda).key[1] < next'
  <2> SUFFICES ASSUME pc \in {"go", "yield"}, agenda # <<>>, Head(agenda).do = "emit",
                      Head(agenda).name \in ToolNames \cup {"result"}
               PROVE  Head(agenda).key \in Keys /\ Head(agenda).key[1] < next'
    OBVIOUS
  <2>1. Head(agenda).key \in Keys /\ Head(agenda).key[1] < next
    BY DEF AgendaInv
  <2>2. \A k \in Keys : k[1] \in Int
    BY WorldFacts DEF TypesInv, BaseOK, Calls
  <2>3. next \in Int
    BY DEF TypesInv, BaseOK
  <2>4. PICK k : k = Head(agenda).key
    OBVIOUS
  <2> QED BY <2>1, <2>2, <2>3, <2>4
<1>5. Live' <=> Live
  BY <1>2 DEF Live
<1> QED BY <1>1, <1>2, <1>3, <1>4, <1>5 DEF AgendaInv


\* Where the stream may go, and what it must have in mind there.
LEMMA ToGo ==
  ASSUME TypesInv, UNCHANGED <<world, next>>, pc' = "go", outcome' \in {None, "run.end"},
         Events => agenda' \in Startup \cup Finishing \cup Going \cup Failing,
         ~Events => agenda' \in {<<Do("launch")>>, <<Do("raise")>>, <<>>} \cup OneEvent({"result"}),
         outcome' = "run.end" <=> Events /\ agenda' \in Finishing,
         agenda' # <<>> /\ Head(agenda').do = "emit" /\ Head(agenda').name \in ToolNames \cup {"result"} =>
            Head(agenda').key \in Keys /\ Head(agenda').key[1] < next
  PROVE  AgendaInv'
<1>1. /\ Going' = Going /\ Failing' = Failing /\ Keys' = Keys /\ (Events' <=> Events)
      /\ OneEvent({"result"})' = OneEvent({"result"})
  BY AgendasStay, CallsStay
<1> QED BY <1>1 DEF AgendaInv, Live, Doing

LEMMA ToYield ==
  ASSUME UNCHANGED <<world, next>>, pc' = "yield", outcome' \in {None, "run.end"},
         Events => agenda' \in {<<Do("plan")>>, <<Do("launch")>>, <<Do("finish")>>,
                                <<Do("raise")>>, <<>>, Aborting} \cup OneEvent({"tool.fallback"}),
         ~Events => agenda' = <<>>,
         outcome' = "run.end" <=> Events /\ agenda' \in Finishing,
         agenda' # <<>> /\ Head(agenda').do = "emit" /\ Head(agenda').name \in ToolNames \cup {"result"} =>
            Head(agenda').key \in Keys /\ Head(agenda').key[1] < next
  PROVE  AgendaInv'
<1>1. /\ Events' <=> Events
      /\ Keys' = Keys
      /\ OneEvent({"tool.fallback"})' = OneEvent({"tool.fallback"})
  BY AgendasStay, CallsStay
<1> QED BY <1>1 DEF AgendaInv, Live, Doing

LEMMA ToAbort ==
  ASSUME UNCHANGED <<world>>, pc' \in {"gather", "drain", "flush"}, outcome' = None,
         agenda' = Failure, Events
  PROVE  AgendaInv'
<1>1. Events' <=> Events
  BY CallsStay
<1> QED BY <1>1 DEF AgendaInv, Live, Doing

LEMMA ToStop ==
  ASSUME UNCHANGED <<world>>, pc' \in {"finally", "leaving", "over"}, agenda' = <<>>, outcome' # None
  PROVE  AgendaInv'
BY DEF AgendaInv, Doing

\* What is not the end of a run.
LEMMA NotFinishing ==
  /\ \A a : a = <<>> => a \notin Finishing
  /\ \A a : a # <<>> /\ Head(a).do \notin {"emit", "finish"} => a \notin Finishing
  /\ \A a : a # <<>> /\ Head(a).do = "emit" /\ Head(a).name # "run.end" => a \notin Finishing
BY HeadFacts DEF BeginsFinishing

LEMMA AgendaOfMoves ==
  ASSUME TypesInv, AgendaInv, Moves
  PROVE  AgendaInv'
<1>0. UNCHANGED <<world, next>> /\ None \notin {"run.end", "raised", "closed", "lost"}
  BY MovesAre, PlanRunAssumption
<1>1. CASE MakePlan
  <2>1. Events /\ outcome = None /\ pc' = "go" /\ outcome' = outcome
        /\ agenda' = <<Emit("plan.end", None), Do("launch")>>
    BY <1>1, DoingWhat DEF MakePlan, Goes
  <2>2. agenda' \in Startup
    BY <2>1 DEF Startup
  <2>3. agenda' # <<>> /\ Head(agenda').name = "plan.end" /\ Head(agenda').do = "emit"
    BY <2>1, StepIs, Heads
  <2>4. agenda' \notin Finishing
    BY <2>3, NotFinishing
  <2> QED BY <1>0, <2>1, <2>2, <2>3, <2>4, ToGo DEF ToolNames, Enders
<1>2. ASSUME UNCHANGED <<world, next>>, pc' = "go", outcome' = None, Events, agenda' = Failure
      PROVE  AgendaInv'
  <2>2. agenda' \in Failing
    BY <1>2 DEF Failing
  <2>3. agenda' # <<>> /\ Head(agenda').name = "run.error" /\ Head(agenda').do = "emit"
    BY <1>2, StepIs, Heads DEF Failure
  <2>4. agenda' \notin Finishing
    BY <2>3, NotFinishing
  <2> QED BY <1>0, <1>2, <2>2, <2>3, <2>4, ToGo DEF ToolNames, Enders
<1>3. CASE PlanFails
  <2>1. Events /\ outcome = None /\ pc' = "go" /\ outcome' = outcome /\ agenda' = Failure
    BY <1>3, DoingWhat DEF PlanFails, Goes
  <2> QED BY <1>0, <1>2, <2>1
<1>4. CASE LaunchRefused
  <2>1. outcome = None /\ pc' = "go" /\ outcome' = outcome
        /\ agenda' = (IF Events THEN Failure ELSE <<Do("raise")>>)
    BY <1>4, DoingWhat DEF LaunchRefused, Goes
  <2>2. CASE Events
    BY <1>0, <1>2, <2>1, <2>2
  <2>3. CASE ~Events
    <3>1. agenda' = <<Do("raise")>>
      BY <2>1, <2>3
    <3>2. agenda' # <<>> /\ Head(agenda').do = "raise"
      BY <3>1, StepIs, Heads
    <3> QED BY <1>0, <2>1, <2>3, <3>1, <3>2, ToGo
  <2> QED BY <2>2, <2>3
<1>5. CASE AllEnded \/ Raise \/ PersistFails \/ FallbackUnknown
  <2>1. pc' = "finally" /\ agenda' = <<>> /\ outcome' \in {"run.end", "raised", "lost"}
    BY <1>5 DEF AllEnded, Raise, PersistFails, FallbackUnknown, Stops
  <2> QED BY <1>0, <2>1, ToStop
<1>6. CASE Gathered
  <2>1. agenda' = agenda /\ pc = "gather" /\ pc' = "drain" /\ outcome' = outcome
    BY <1>6 DEF Gathered, Goes
  <2>2. agenda = Failure /\ Events /\ outcome = None
    BY <2>1 DEF AgendaInv
  <2> QED BY <1>0, <2>1, <2>2, ToAbort
<1>7. CASE Drained \/ Flush
  <2>1. agenda' = agenda /\ pc \in {"drain", "flush"} /\ pc' \in {"go", "flush"} /\ outcome' = outcome
    BY <1>7 DEF Drained, Flush, Goes
  <2>2. agenda = Failure /\ Events /\ outcome = None
    BY <2>1 DEF AgendaInv
  <2> QED BY <1>0, <1>2, <2>1, <2>2, ToAbort
<1>8. CASE Leave
  <2>1. pc = "leaving" /\ outcome' = outcome
        /\ \/ outcome = "run.end" /\ Events /\ pc' = "go"
              /\ agenda' = <<Emit("run.end", None), Do("finish")>>
           \/ pc' = "over" /\ agenda' = <<>>
    BY <1>8 DEF Leave, Goes
  <2>2. outcome # None
    BY <2>1 DEF AgendaInv
  <2>3. CASE pc' = "over" /\ agenda' = <<>>
    BY <1>0, <2>1, <2>2, <2>3, ToStop
  <2>4. CASE outcome = "run.end" /\ Events /\ pc' = "go"
             /\ agenda' = <<Emit("run.end", None), Do("finish")>>
    <3>1. agenda' \in Finishing
      BY <2>4 DEF Finishing
    <3>2. Head(agenda').name = "run.end"
      BY <2>4, StepIs, Heads
    <3> QED BY <1>0, <2>1, <2>4, <3>1, <3>2, ToGo DEF ToolNames, Enders
  <2> QED BY <2>1, <2>3, <2>4
<1>9. CASE Finish
  <2>1. pc' = "over" /\ agenda' = <<>> /\ outcome' = "run.end"
    BY <1>9, DoingWhat DEF Finish, Goes
  <2> QED BY <1>0, <2>1, ToStop
<1> QED BY <1>1, <1>3, <1>4, <1>5, <1>6, <1>7, <1>8, <1>9 DEF Moves


LEMMA AgendaOfGet ==
  ASSUME TypesInv, AgendaInv, Get
  PROVE  AgendaInv'
<1>1. /\ pc = "go" /\ agenda = <<>> /\ queue # <<>> /\ queue' = Tail(queue)
      /\ pc' = "go" /\ agenda' = Handling(Head(queue)) /\ outcome' = outcome
      /\ UNCHANGED <<world, next>>
  BY DEF Get, Goes
<1>2. outcome = None /\ None # "run.end"
  <2>1. agenda \notin Finishing
    BY <1>1, NotFinishing
  <2> QED BY <1>1, <2>1, PlanRunAssumption DEF AgendaInv, Live
<1>3. PICK item : item = Head(queue)
  OBVIOUS
<1>4. item \in ItemType /\ ItemIn(item, Keys, next)
  BY <1>1, <1>3, TakenOff
<1>5. PICK k : k = item.key
  OBVIOUS
<1>6. k \in Keys /\ k[1] < next /\ item.kind \in Kinds /\ item.more \in BOOLEAN
  BY <1>4, <1>5 DEF ItemIn, ItemType
<1>7. agenda' = Handling(item)
  BY <1>1, <1>3
<1>8. CASE ~Events
  <2>1. agenda' = <<Emit("result", k)>> \/ agenda' = <<Do("raise")>>
    BY <1>5, <1>7, <1>8, HandlingIs
  <2>2. agenda' \in {<<Do("launch")>>, <<Do("raise")>>, <<>>} \cup OneEvent({"result"})
    BY <1>6, <2>1 DEF OneEvent
  <2>3. Head(agenda').do = "emit" => Head(agenda').key = k
    BY <2>1, StepIs, Heads
  <2> QED BY <1>1, <1>2, <1>6, <1>8, <2>2, <2>3, ToGo
<1>9. CASE Events
  <2>1. /\ item.kind = "preflight" => agenda' = Aborting
        /\ item.kind = "cooldown" => agenda' = <<Emit("tool.fallback", k)>>
        /\ item.kind = "start" => agenda' = <<Emit("tool.start", k)>>
        /\ item.kind = "end" => agenda' = <<Emit("tool.end", k)>>
        /\ item.kind = "post" => agenda' = Ending("tool.end", k)
        /\ item.kind = "unavailable" /\ item.more =>
              agenda' = <<Emit("tool.error", k), Emit("tool.fallback", k)>>
        /\ item.kind = "unavailable" /\ ~item.more => agenda' = Ending("tool.error", k)
        /\ item.kind = "error" /\ k \in started => agenda' = Ending("tool.error", k)
        /\ item.kind = "error" /\ k \notin started => agenda' = <<Do("raise")>>
    BY <1>5, <1>7, <1>9, HandlingIs
  <2>2. \/ agenda' = Aborting \/ agenda' = <<Do("raise")>>
        \/ \E n \in {"tool.start", "tool.end", "tool.fallback"} : agenda' = <<Emit(n, k)>>
        \/ agenda' = <<Emit("tool.error", k), Emit("tool.fallback", k)>>
        \/ \E n \in {"tool.end", "tool.error"} : agenda' = Ending(n, k)
    BY <1>6, <2>1 DEF Kinds, Closers
  <2>3. agenda' \in Going \cup Failing
    BY <1>6, <2>2 DEF Going, Failing, OneEvent
  <2>4. agenda' \notin Finishing
    BY <2>3, HeadFacts DEF BeginsGoing, BeginsFailing, BeginsFinishing
  <2>5. Head(agenda').do = "emit" => Head(agenda').key = k
    <3>1. CASE agenda' = Aborting \/ agenda' = <<Do("raise")>>
      BY <3>1, StepIs, Heads DEF Aborting
    <3>2. ASSUME NEW n, agenda' = <<Emit(n, k)>> PROVE Head(agenda').key = k
      BY <3>2, StepIs, Heads
    <3>3. CASE agenda' = <<Emit("tool.error", k), Emit("tool.fallback", k)>>
      BY <3>3, StepIs, Heads
    <3>4. ASSUME NEW n, agenda' = Ending(n, k) PROVE Head(agenda').key = k
      BY <3>4, StepIs, Heads DEF Ending
    <3> QED BY <2>2, <3>1, <3>2, <3>3, <3>4
  <2> QED BY <1>1, <1>2, <1>6, <1>9, <2>3, <2>4, <2>5, ToGo
<1> QED BY <1>8, <1>9

LEMMA AgendaOfPersist ==
  ASSUME TypesInv, AgendaInv, Persist
  PROVE  AgendaInv'
<1>1. /\ Doing("emit") /\ pc' = "yield" /\ agenda' = Tail(agenda) /\ outcome' = outcome
      /\ UNCHANGED <<world, next>>
  BY DEF Persist, Goes
<1>2. None # "run.end"
  BY PlanRunAssumption
<1>3. CASE Events /\ outcome = None
           /\ agenda' \in {<<Do("plan")>>, <<Do("launch")>>, <<Do("raise")>>, <<>>, Aborting}
  <2>1. agenda' = <<>> \/ (agenda' # <<>> /\ Head(agenda').do \in {"plan", "launch", "raise", "abort"})
    BY <1>3, StepIs, Heads, Lists DEF Aborting
  <2>2. agenda' \notin Finishing
    BY <2>1, NotFinishing
  <2> QED BY <1>1, <1>2, <1>3, <2>1, <2>2, ToYield
<1>4. CASE Events /\ agenda = <<Emit("run.start", None), Do("plan")>> /\ outcome = None
  BY <1>1, <1>3, <1>4, Tails
<1>5. CASE Events /\ agenda = <<Emit("plan.end", None), Do("launch")>> /\ outcome = None
  BY <1>1, <1>3, <1>5, Tails
<1>6. CASE Events /\ agenda = <<Emit("run.end", None), Do("finish")>> /\ outcome = "run.end"
  <2>1. agenda' = <<Do("finish")>> /\ agenda' \in Finishing
    BY <1>1, <1>6, Tails DEF Finishing
  <2>2. Head(agenda').do # "emit"
    BY <2>1, StepIs, Heads
  <2> QED BY <1>1, <1>6, <2>1, <2>2, ToYield
<1>7. CASE Events /\ agenda = Failure /\ outcome = None
  <2>1. agenda' = <<Do("raise")>>
    BY <1>1, <1>7, Tails DEF Failure
  <2> QED BY <1>3, <1>7, <2>1
<1>8. CASE Events /\ outcome = None /\ \E n \in {"tool.start", "tool.end", "tool.fallback"}, k \in Keys :
               agenda = <<Emit(n, k)>> /\ k[1] < next
  <2>1. agenda' = <<>>
    BY <1>1, <1>8, Tails
  <2> QED BY <1>3, <1>8, <2>1
<1>9. CASE Events /\ outcome = None /\ \E k \in Keys :
               agenda = <<Emit("tool.error", k), Emit("tool.fallback", k)>> /\ k[1] < next
  <2>0. PICK k \in Keys : agenda = <<Emit("tool.error", k), Emit("tool.fallback", k)>> /\ k[1] < next
    BY <1>9
  <2>1. agenda' = <<Emit("tool.fallback", k)>>
    BY <1>1, <2>0, Tails
  <2>2. agenda' \in OneEvent({"tool.fallback"})
    BY <2>1 DEF OneEvent
  <2>3. agenda' # <<>> /\ Head(agenda').do = "emit" /\ Head(agenda').name = "tool.fallback"
        /\ Head(agenda').key = k
    BY <2>1, StepIs, Heads, Lists
  <2>4. agenda' \notin Finishing
    BY <2>3, NotFinishing
  <2> QED BY <1>1, <1>2, <1>9, <2>0, <2>2, <2>3, <2>4, ToYield
<1>10. CASE Events /\ outcome = None /\ \E n \in {"tool.end", "tool.error"}, k \in Keys :
               agenda = Ending(n, k) /\ k[1] < next
  <2>1. agenda' = Aborting
    BY <1>1, <1>10, Tails DEF Ending, Aborting
  <2> QED BY <1>3, <1>10, <2>1
<1>11. CASE ~Events /\ outcome = None /\ \E k \in Keys : agenda = <<Emit("result", k)>> /\ k[1] < next
  <2>1. agenda' = <<>>
    BY <1>1, <1>11, Tails
  <2> QED BY <1>1, <1>2, <1>11, <2>1, ToYield
<1> QED BY <1>1, <1>4, <1>5, <1>6, <1>7, <1>8, <1>9, <1>10, <1>11, EmitWhat

LEMMA AgendaOfTaken ==
  ASSUME TypesInv, AgendaInv, Taken
  PROVE  AgendaInv'
<1>1. pc = "yield" /\ pc' = "go" /\ agenda' = agenda /\ outcome' = outcome /\ UNCHANGED <<world, next>>
  BY DEF Taken, Goes
<1>2. Live /\ (outcome = "run.end" <=> Events /\ agenda \in Finishing)
      /\ (agenda # <<>> /\ Head(agenda).do = "emit"
       /\ Head(agenda).name \in ToolNames \cup {"result"} =>
          Head(agenda).key \in Keys /\ Head(agenda).key[1] < next)
  BY <1>1 DEF AgendaInv
<1>3. outcome' \in {None, "run.end"}
  BY <1>1, <1>2 DEF Live
<1>4. ~Events => agenda = <<>>
  BY <1>1 DEF AgendaInv
<1>5. Events => agenda \in Startup \cup Finishing \cup Going \cup Failing
  <2> SUFFICES ASSUME Events PROVE agenda \in Startup \cup Finishing \cup Going \cup Failing
    OBVIOUS
  <2>1. agenda \in {<<Do("plan")>>, <<Do("launch")>>, <<Do("finish")>>,
                     <<Do("raise")>>, <<>>, Aborting} \cup OneEvent({"tool.fallback"})
    BY <1>1 DEF AgendaInv
  <2>2. CASE agenda \in OneEvent({"tool.fallback"})
    BY <2>2 DEF OneEvent, Going
  <2>3. CASE agenda \in {<<Do("plan")>>, <<Do("launch")>>, <<Do("finish")>>}
    BY <2>3 DEF Startup, Finishing
  <2>4. CASE agenda \in {<<Do("raise")>>, <<>>, Aborting}
    BY <2>4 DEF Failing, Going
  <2> QED BY <2>1, <2>2, <2>3, <2>4
<1> QED BY <1>1, <1>2, <1>3, <1>4, <1>5, ToGo


\* What any step of a worker leaves alone.
LEMMA WorkerLeaves ==
  ASSUME TypesInv, NEW w \in Workers, WorkerSteps(w)
  PROVE  /\ UNCHANGED <<world, ended, ledger>> /\ next' \in Nat /\ next <= next'
         /\ \/ UNCHANGED streamVars
            \/ /\ CallCancelled(w) /\ pc = "go" /\ agenda = <<>> /\ ~Gone(w)
               /\ pc' = "finally" /\ agenda' = <<>> /\ outcome' = "raised"
         /\ WorkerCancelled(w) \/ ~Gone(w)
<1>0. next \in Nat
  BY DEF TypesInv, BaseOK
<1>1. CASE TakeCall(w)
  <2>1. UNCHANGED <<world, streamVars, ended, ledger>> /\ next' \in {next, next + 1} /\ ~Gone(w)
    BY <1>1 DEF TakeCall, MayRun
  <2> QED BY <1>0, <2>1
<1>2. CASE Put(w)
  <2>1. UNCHANGED <<world, streamVars, ended, ledger, next>> /\ ~Gone(w)
    BY <1>2 DEF Put, MayRun
  <2> QED BY <1>0, <2>1
<1>3. CASE Reach(w) \/ Succeed(w) \/ Fail(w) \/ Unavailable(w)
  <2>1. UNCHANGED <<world, streamVars, ended, ledger, next>> /\ ~Gone(w)
    BY <1>3 DEF Reach, Succeed, Fail, Unavailable, Calling, MayRun
  <2> QED BY <1>0, <2>1
<1>4. CASE WorkerCancelled(w)
  <2>1. UNCHANGED <<world, streamVars, ended, ledger, next>>
    BY <1>4 DEF WorkerCancelled
  <2> QED BY <1>0, <1>4, <2>1
<1>5. CASE CancelSwallowed(w)
  <2>1. UNCHANGED <<world, streamVars, ended, ledger, next>> /\ ~Gone(w)
    BY <1>5 DEF CancelSwallowed, Gone
  <2> QED BY <1>0, <2>1
<1>6. CASE CallCancelled(w)
  <2>1. UNCHANGED <<world, ended, ledger, next>> /\ ~Gone(w)
    BY <1>6 DEF CallCancelled, Calling, MayRun
  <2>2. \/ UNCHANGED streamVars
        \/ /\ pc = "go" /\ agenda = <<>>
           /\ pc' = "finally" /\ agenda' = <<>> /\ outcome' = "raised"
    BY <1>6 DEF CallCancelled, Calling, MayRun
  <2> QED BY <1>0, <1>6, <2>1, <2>2
<1> QED BY <1>1, <1>2, <1>3, <1>4, <1>5, <1>6 DEF WorkerSteps

LEMMA AgendaStep ==
  ASSUME TypesInv, AgendaInv, [Next]_vars
  PROVE  AgendaInv'
<1>0. None \notin {"run.end", "raised", "closed", "lost"}
  BY PlanRunAssumption
<1>1. CASE Moves
  BY <1>1, AgendaOfMoves
<1>2. CASE Launch
  <2>1. pc' = "go" /\ agenda' = <<>> /\ outcome' = outcome /\ UNCHANGED <<world, next>> /\ outcome = None
    BY <1>2, DoingWhat DEF Launch, Goes
  <2>2. agenda' \notin Finishing /\ agenda' \in Going
    BY <2>1, NotFinishing DEF Going
  <2> QED BY <1>0, <2>1, <2>2, ToGo
<1>3. CASE Get
  BY <1>3, AgendaOfGet
<1>4. CASE Persist
  BY <1>4, AgendaOfPersist
<1>5. CASE Taken
  BY <1>5, AgendaOfTaken
<1>6. CASE Abort
  <2>1. /\ Events /\ agenda = Aborting /\ outcome = None /\ UNCHANGED world
        /\ pc' = "gather" /\ agenda' = Tail(agenda) /\ outcome' = outcome
    BY <1>6, DoingWhat DEF Abort, Goes
  <2>2. agenda' = Failure
    BY <2>1, Tails DEF Aborting, Failure
  <2> QED BY <2>1, <2>2, ToAbort
<1>7. CASE Drain \/ Indeterminate \/ UNCHANGED vars
  <2>1. UNCHANGED <<world, streamVars, next>>
    BY <1>7 DEF Drain, Indeterminate, vars, streamVars
  <2>2. next' \in Nat /\ next <= next'
    BY <2>1 DEF TypesInv, BaseOK
  <2> QED BY <2>1, <2>2, AgendaFrame
<1>8. CASE Close
  <2>1. UNCHANGED world /\ pc' = "finally" /\ agenda' = <<>> /\ outcome' = "closed"
    BY <1>8 DEF Close, Stops
  <2> QED BY <1>0, <2>1, ToStop
<1>9. CASE Finally
  <2>1. UNCHANGED world /\ pc = "finally" /\ pc' = "leaving" /\ agenda' = <<>> /\ outcome' = outcome
    BY <1>9 DEF Finally, Goes
  <2>2. outcome # None
    BY <2>1 DEF AgendaInv
  <2> QED BY <2>1, <2>2, ToStop
<1>10. CASE \E w \in Workers : WorkerSteps(w)
  <2>1. PICK w \in Workers : WorkerSteps(w)
    BY <1>10
  <2>2. CASE UNCHANGED streamVars
    BY <2>1, <2>2, WorkerLeaves, AgendaFrame
  <2>3. CASE pc' = "finally" /\ agenda' = <<>> /\ outcome' = "raised"
    BY <1>0, <2>1, <2>3, WorkerLeaves, ToStop
  <2> QED BY <2>1, <2>2, <2>3, WorkerLeaves
<1> QED BY <1>1, <1>2, <1>3, <1>4, <1>5, <1>6, <1>7, <1>8, <1>9, <1>10, NextIs


-----------------------------------------------------------------------------
(* The trace and the ledger *)

EventType == [name : EventNames, key : Keys \cup {None}, sequence : Nat]

\* One more event.
Appends(n, k) == trace' = Append(trace, [name |-> n, key |-> k, sequence |-> sequence])

LEMMA EventIs ==
  ASSUME NEW n, NEW k, NEW s
  PROVE  LET e == [name |-> n, key |-> k, sequence |-> s] IN
         e.name = n /\ e.key = k /\ e.sequence = s
OBVIOUS

LEMMA AppendedIs ==
  ASSUME TraceInv, NEW n, NEW k, Appends(n, k)
  PROVE  /\ Len(trace) \in Nat /\ Len(trace') = Len(trace) + 1
         /\ \A i \in 1 .. Len(trace) : trace'[i] = trace[i]
         /\ trace'[Len(trace')].name = n /\ trace'[Len(trace')].key = k
         /\ trace'[Len(trace')].sequence = sequence
<1>1. trace \in Seq(EventType)
  BY DEF TraceInv, EventType
<1>2. PICK e : e = [name |-> n, key |-> k, sequence |-> sequence]
  OBVIOUS
<1>3. trace' = Append(trace, e)
  BY <1>2 DEF Appends
<1>4. e.name = n /\ e.key = k /\ e.sequence = sequence
  BY <1>2
<1>5. Len(trace) \in Nat /\ Len(trace') = Len(trace) + 1
      /\ \A i \in 1 .. Len(trace) : trace'[i] = trace[i]
  BY <1>1, <1>3
<1>6. trace'[Len(trace) + 1] = e
  BY <1>1, <1>3
<1> QED BY <1>4, <1>5, <1>6

LEMMA ToldAppend ==
  ASSUME TraceInv, NEW n, NEW k, Appends(n, k)
  PROVE  \A names, j : Told(names, j)' <=> Told(names, j) \/ (n \in names /\ k = j)
<1>1. /\ Len(trace) \in Nat /\ Len(trace') = Len(trace) + 1
      /\ \A i \in 1 .. Len(trace) : trace'[i] = trace[i]
      /\ trace'[Len(trace')].name = n /\ trace'[Len(trace')].key = k
  BY AppendedIs
<1> SUFFICES ASSUME NEW names, NEW j
             PROVE  Told(names, j)' <=> Told(names, j) \/ (n \in names /\ k = j)
  OBVIOUS
<1>2. ASSUME Told(names, j)' PROVE Told(names, j) \/ (n \in names /\ k = j)
  <2>1. PICK i \in 1 .. Len(trace') : trace'[i].name \in names /\ trace'[i].key = j
    BY <1>2 DEF Told
  <2>2. CASE i \in 1 .. Len(trace)
    BY <1>1, <2>1, <2>2 DEF Told
  <2>3. CASE i = Len(trace')
    BY <1>1, <2>1, <2>3
  <2> QED BY <1>1, <2>2, <2>3
<1>3. ASSUME Told(names, j) PROVE Told(names, j)'
  <2>1. PICK i \in 1 .. Len(trace) : trace[i].name \in names /\ trace[i].key = j
    BY <1>3 DEF Told
  <2>2. i \in 1 .. Len(trace') /\ trace'[i].name \in names /\ trace'[i].key = j
    BY <1>1, <2>1
  <2> QED BY <2>2 DEF Told
<1>4. ASSUME n \in names, k = j PROVE Told(names, j)'
  <2>1. Len(trace') \in 1 .. Len(trace')
    BY <1>1
  <2> QED BY <1>1, <1>4, <2>1 DEF Told
<1> QED BY <1>2, <1>3, <1>4

LEMMA ToldFrame ==
  ASSUME UNCHANGED trace
  PROVE  \A names, j : Told(names, j)' <=> Told(names, j)
BY DEF Told

LEMMA LedgerFrame ==
  ASSUME LedgerInv, UNCHANGED <<world, started, closed, sequence, trace>>,
         Booked' => Booked, pc' = "yield" => pc = "yield"
  PROVE  LedgerInv'
<1>1. Keys' = Keys
  BY CallsStay
<1>2. \A names, j : Told(names, j)' <=> Told(names, j)
  BY ToldFrame
<1> QED BY <1>1, <1>2 DEF LedgerInv

LEMMA MovesBooked ==
  ASSUME Moves
  PROVE  (Booked' => Booked) /\ pc' # "yield"
<1>1. CASE MakePlan \/ PlanFails \/ LaunchRefused \/ AllEnded \/ Raise \/ FallbackUnknown \/ Finish
  BY <1>1 DEF MakePlan, PlanFails, LaunchRefused, AllEnded, Raise, FallbackUnknown, Finish, Doing,
              Goes, Stops, Booked
<1>2. CASE PersistFails
  BY <1>2 DEF PersistFails, Stops, Booked
<1>3. CASE Gathered \/ Drained \/ Flush
  BY <1>3 DEF Gathered, Drained, Flush, Goes, Booked
<1>4. CASE Leave
  BY <1>4 DEF Leave, Goes, Booked
<1> QED BY <1>1, <1>2, <1>3, <1>4 DEF Moves

LEMMA LedgerStep ==
  ASSUME TypesInv, AgendaInv, LedgerInv, TraceInv, [Next]_vars
  PROVE  LedgerInv'
<1>0. Keys' = Keys
  <2>1. CASE UNCHANGED vars
    BY <2>1, CallsStay DEF vars
  <2>2. CASE Next
    <3>1. UNCHANGED world
      BY <2>2, NextIs, MovesAre, WorkerLeaves DEF Launch, Get, Persist, Taken, Abort, Drain,
         Indeterminate, Close, Finally
    <3> QED BY <3>1, CallsStay
  <2> QED BY <2>1, <2>2
<1>1. CASE Moves
  BY <1>1, MovesAre, MovesBooked, LedgerFrame
<1>2. CASE Launch \/ Get \/ Abort
  <2>1. /\ UNCHANGED <<world, started, closed, sequence, trace>>
        /\ pc = "go" /\ pc' # "yield"
    BY <1>2 DEF Launch, Get, Abort, Goes, Doing, ledger
  <2> QED BY <2>1, LedgerFrame DEF Booked
<1>3. CASE Finally
  <2>1. /\ UNCHANGED <<world, started, closed, sequence, trace>>
        /\ pc = "finally" /\ pc' = "leaving" /\ outcome' = outcome
    BY <1>3 DEF Finally, Goes, ledger
  <2> QED BY <2>1, LedgerFrame DEF Booked
<1>4. CASE UNCHANGED vars
  <2>1. /\ UNCHANGED <<world, started, closed, sequence, trace, pc, outcome>>
    BY <1>4 DEF vars
  <2> QED BY <2>1, LedgerFrame DEF Booked
<1>5. CASE \E w \in Workers : WorkerSteps(w)
  <2>1. PICK w \in Workers : WorkerSteps(w)
    BY <1>5
  <2>2. /\ UNCHANGED <<world, started, closed, sequence, trace>>
        /\ UNCHANGED <<pc, outcome>> \/ (pc' = "finally" /\ outcome' = "raised")
    BY <2>1, WorkerLeaves DEF ledger, streamVars
  <2> QED BY <2>2, LedgerFrame DEF Booked
<1>6. CASE Close
  <2>1. pc' = "finally" /\ outcome' = "closed" /\ UNCHANGED <<started, closed>>
    BY <1>6 DEF Close, Stops
  <2> QED BY <1>0, <2>1 DEF LedgerInv, Booked
<1>7. CASE Persist
  <2>1. /\ pc = "go" /\ pc' = "yield" /\ UNCHANGED <<started, closed, sequence>>
        /\ Appends(Head(agenda).name, Head(agenda).key) /\ Doing("emit")
    BY <1>7 DEF Persist, Goes, Doing, Event, Appends
  <2>2. PICK n, k : n = Head(agenda).name /\ k = Head(agenda).key
    OBVIOUS
  <2>3. Appends(n, k)
    BY <2>1, <2>2
  <2>4. \A names, j : Told(names, j)' <=> Told(names, j) \/ (n \in names /\ k = j)
    BY <2>3, ToldAppend
  <2>5. /\ Len(trace) \in Nat /\ Len(trace') = Len(trace) + 1
        /\ trace'[Len(trace')].name = n /\ trace'[Len(trace')].key = k
    BY <2>3, AppendedIs
  <2>6. Booked /\ ~Booked'
    BY <2>1 DEF Booked
  <2>7. n # "indeterminate"
    BY <2>1, <2>2, EmitWhat, StepIs, Heads DEF Failure, Ending
  <2> QED BY <1>0, <2>1, <2>4, <2>5, <2>6, <2>7 DEF LedgerInv
<1>8. CASE Taken
  <2>1. /\ pc = "yield" /\ pc' = "go" /\ UNCHANGED trace /\ Account(trace[Len(trace)])
    BY <1>8 DEF Taken, Goes
  <2>2. PICK n, k : n = trace[Len(trace)].name /\ k = trace[Len(trace)].key
    OBVIOUS
  <2>3. /\ started' = (IF n = "tool.start" THEN started \cup {k} ELSE started)
        /\ closed' = (IF n \in {"tool.end", "tool.error"} THEN closed \cup {k} ELSE closed)
        /\ sequence' = sequence + 1
    BY <2>1, <2>2 DEF Account
  <2>4. /\ Len(trace) > 0 /\ sequence = Len(trace) - 1 /\ n # "indeterminate"
        /\ \A j \in Keys : Told({"tool.start"}, j) <=> j \in started \/ (n = "tool.start" /\ k = j)
        /\ \A j \in Keys : Told(Enders, j) <=> j \in closed \/ (n \in Enders /\ k = j)
        /\ started \subseteq Keys /\ closed \subseteq started
    BY <2>1, <2>2 DEF LedgerInv
  <2>5. trace \in Seq(EventType) /\ (n \in ToolNames => k \in Keys)
        /\ \A j \in Keys : Told(Enders, j) => Told({"tool.start"}, j)
    <3>1. trace \in Seq(EventType)
      BY DEF TraceInv, EventType
    <3>2. Len(trace) \in 1 .. Len(trace)
      BY <2>4, <3>1
    <3> QED BY <2>2, <3>1, <3>2 DEF TraceInv
  <2>6. started' \subseteq Keys /\ closed' \subseteq started'
    BY <2>3, <2>4, <2>5 DEF ToolNames, Enders
  <2>7. \A names, j : Told(names, j)' <=> Told(names, j)
    BY <2>1, ToldFrame
  <2>8. /\ \A j \in Keys : j \in started' <=> Told({"tool.start"}, j)
        /\ \A j \in Keys : j \in closed' <=> Told(Enders, j)
    BY <2>3, <2>4 DEF Enders
  <2>9. sequence' = Len(trace')
    <3>1. Len(trace) \in Nat
      BY <2>5
    <3> QED BY <2>1, <2>3, <2>4, <3>1
  <2> QED BY <1>0, <2>1, <2>6, <2>7, <2>8, <2>9 DEF LedgerInv
<1>9. ASSUME Drain \/ Indeterminate, UNCHANGED pc, pc = "drain",
             NEW n, NEW k, Appends(n, k), sequence' = sequence + 1,
             started' = (IF n = "tool.start" THEN started \cup {k} ELSE started),
             closed' = (IF n \in Enders THEN closed \cup {k} ELSE closed),
             k \in Keys, n \in Enders => k \in started
      PROVE  LedgerInv'
  <2>1. Booked /\ pc' # "yield"
    BY <1>9 DEF Booked
  <2>2. \A names, j : Told(names, j)' <=> Told(names, j) \/ (n \in names /\ k = j)
    BY <1>9, ToldAppend
  <2>3. Len(trace) \in Nat /\ Len(trace') = Len(trace) + 1
    BY <1>9, AppendedIs
  <2>4. /\ sequence = Len(trace) /\ started \subseteq Keys /\ closed \subseteq started
        /\ \A j \in Keys : j \in started <=> Told({"tool.start"}, j)
        /\ \A j \in Keys : j \in closed <=> Told(Enders, j)
    BY <2>1 DEF LedgerInv
  <2>5. started' \subseteq Keys /\ closed' \subseteq started'
    BY <1>9, <2>4
  <2>6. /\ \A j \in Keys : j \in started' <=> Told({"tool.start"}, j)'
        /\ \A j \in Keys : j \in closed' <=> Told(Enders, j)'
    BY <1>9, <2>2, <2>4
  <2>7. sequence' = Len(trace')
    BY <1>9, <2>3, <2>4
  <2> QED BY <1>0, <2>1, <2>5, <2>6, <2>7 DEF LedgerInv
<1>10. CASE Indeterminate
  <2>1. PICK k \in started \ closed : trace' = Append(trace, Event("indeterminate", k))
                                      /\ closed' = closed \cup {k}
    BY <1>10 DEF Indeterminate
  <2>2. /\ sequence' = sequence + 1 /\ started' = started /\ pc = "drain" /\ UNCHANGED pc
    BY <1>10 DEF Indeterminate, streamVars
  <2>3. PICK n : n = "indeterminate"
    OBVIOUS
  <2>4. Appends(n, k) /\ n \in Enders /\ n # "tool.start"
    BY <2>1, <2>3 DEF Appends, Event, Enders
  <2>5. k \in Keys
    BY DEF LedgerInv
  <2> QED BY <1>9, <1>10, <2>1, <2>2, <2>4, <2>5
<1>11. CASE Drain
  <2>0. PICK item : item = Head(queue)
    OBVIOUS
  <2>1. /\ pc = "drain" /\ UNCHANGED <<pc, outcome, world>> /\ queue # <<>> /\ queue' = Tail(queue)
        /\ IF LeftOver(item) = {} THEN UNCHANGED <<started, closed, sequence, trace>>
           ELSE \E name \in LeftOver(item) :
                   trace' = Append(trace, Event(name, item.key)) /\ Account(Event(name, item.key))
    BY <1>11, <2>0 DEF Drain, streamVars
  <2>2. item \in ItemType
    BY <2>0, <2>1, TakenOff
  <2>3. CASE UNCHANGED <<started, closed, sequence, trace>>
    BY <2>1, <2>3, LedgerFrame DEF Booked
  <2>4. ASSUME NEW n \in LeftOver(item), trace' = Append(trace, Event(n, item.key)),
               Account(Event(n, item.key))
        PROVE  LedgerInv'
    <3>1. PICK k : k = item.key
      OBVIOUS
    <3>2. k \in Keys
      BY <2>2, <3>1 DEF ItemType
    <3>3. \/ n = "tool.start"
          \/ n \in {"tool.end", "tool.error"} /\ k \in started \ closed
      BY <2>4, <3>1 DEF LeftOver
    <3>4. Appends(n, k)
      BY <2>4, <3>1 DEF Appends, Event
    <3>5. /\ started' = (IF n = "tool.start" THEN started \cup {k} ELSE started)
          /\ closed' = (IF n \in {"tool.end", "tool.error"} THEN closed \cup {k} ELSE closed)
          /\ sequence' = sequence + 1
      BY <2>4, <3>1 DEF Account, Event
    <3>6. n \in {"tool.end", "tool.error"} <=> n \in Enders
      BY <3>3 DEF Enders
    <3> QED BY <1>9, <1>11, <2>1, <3>2, <3>3, <3>4, <3>5, <3>6
  <2> QED BY <2>1, <2>3, <2>4
<1> QED BY <1>1, <1>2, <1>3, <1>4, <1>5, <1>6, <1>7, <1>8, <1>10, <1>11, NextIs


\* The trace is as it was.
LEMMA TraceFrame ==
  ASSUME TypesInv, TraceInv, UNCHANGED <<world, trace>>, next' \in Nat, next <= next',
         \A k \in Keys : \/ reached'[k] = reached[k]
                         \/ reached[k] = "no" /\ reached'[k] = "yes"
                         \/ reached'[k] = "value" /\ ~Told(Enders, k),
         \A w \in Workers, k \in Keys : AtKey(w, k)' => WorkerClear(w, k)'
  PROVE  TraceInv'
<1>1. Keys' = Keys /\ (Events' <=> Events)
  BY CallsStay
<1>2. \A names, j : Told(names, j)' <=> Told(names, j)
  BY ToldFrame
<1>3. next \in Int /\ \A k \in Keys : k[1] \in Int
  BY WorldFacts DEF TypesInv, BaseOK, Calls
<1>4. ASSUME NEW i \in 1 .. Len(trace)
      PROVE  /\ trace[i].name \in ToolNames => trace[i].key \in Keys' /\ trace[i].key[1] < next'
             /\ trace[i].name = "tool.end" => reached'[trace[i].key] = "value"
             /\ trace[i].name = "tool.error" => reached'[trace[i].key] # "value"
  <2>1. PICK k : k = trace[i].key
    OBVIOUS
  <2>2. /\ trace[i].name \in ToolNames => k \in Keys /\ k[1] < next
        /\ trace[i].name = "tool.end" => reached[k] = "value"
        /\ trace[i].name = "tool.error" => reached[k] # "value"
    BY <2>1 DEF TraceInv
  <2>3. trace[i].name \in {"tool.end", "tool.error"} => Told(Enders, k) /\ k \in Keys
    BY <2>1, <2>2 DEF Told, Enders, ToolNames
  <2> QED BY <1>1, <1>3, <2>1, <2>2, <2>3
<1>5. \A i \in 1 .. Len(trace) :
          /\ trace[i].name = "result" <=> ~Events
          /\ trace[i].sequence = i - 1
          /\ trace[i].name = "run.start" => i = 1
          /\ i = 1 /\ Events => trace[i].name = "run.start"
          /\ trace[i].name \in {"run.end", "run.error"} => i = Len(trace)
  BY DEF TraceInv
<1>6. \A i, j \in 1 .. Len(trace) : trace[i].key = trace[j].key =>
          /\ trace[i].name = "tool.start" /\ trace[j].name = "tool.start" => i = j
          /\ trace[i].name \in Enders /\ trace[j].name \in Enders => i = j
  BY DEF TraceInv
<1>7. /\ trace \in Seq([name : EventNames, key : Keys \cup {None}, sequence : Nat])
      /\ \A k \in Keys : Told(Enders, k) => Told({"tool.start"}, k)
  BY DEF TraceInv
<1> QED BY <1>1, <1>2, <1>4, <1>5, <1>6, <1>7 DEF TraceInv

\* One more event, of name n about k.
LEMMA TraceAppend ==
  ASSUME TypesInv, TraceInv, UNCHANGED <<world, next, reached>>,
         NEW n \in EventNames, NEW k \in Keys \cup {None}, Appends(n, k), sequence = Len(trace),
         ~Concluded,
         n \in ToolNames => k \in Keys /\ k[1] < next,
         n = "result" <=> ~Events,
         n = "run.start" => trace = <<>>,
         trace = <<>> /\ Events => n = "run.start",
         n = "tool.end" => reached[k] = "value",
         n = "tool.error" => reached[k] # "value",
         n = "tool.start" => ~Told({"tool.start"}, k),
         n \in Enders => ~Told(Enders, k) /\ Told({"tool.start"}, k),
         \A w \in Workers, j \in Keys : AtKey(w, j)' => WorkerClear(w, j)'
  PROVE  TraceInv'
<1>1. Keys' = Keys /\ (Events' <=> Events)
  BY CallsStay
<1>2. \A names, j : Told(names, j)' <=> Told(names, j) \/ (n \in names /\ k = j)
  BY ToldAppend
<1>3. /\ Len(trace) \in Nat /\ Len(trace') = Len(trace) + 1
      /\ \A i \in 1 .. Len(trace) : trace'[i] = trace[i]
      /\ trace'[Len(trace')].name = n /\ trace'[Len(trace')].key = k
      /\ trace'[Len(trace')].sequence = Len(trace)
  BY AppendedIs
<1>4. trace \in Seq(EventType)
  BY DEF TraceInv, EventType
<1>5. trace' \in Seq(EventType')
  <2>1. PICK e : e = [name |-> n, key |-> k, sequence |-> sequence]
    OBVIOUS
  <2>2. e \in EventType
    BY <1>3, <2>1 DEF EventType
  <2>3. EventType' = EventType
    BY <1>1 DEF EventType
  <2> QED BY <1>4, <2>1, <2>2, <2>3 DEF Appends
<1>6. ASSUME NEW i \in 1 .. Len(trace')
      PROVE  /\ trace'[i].name \in ToolNames => trace'[i].key \in Keys /\ trace'[i].key[1] < next
             /\ trace'[i].name = "result" <=> ~Events
             /\ trace'[i].sequence = i - 1
             /\ trace'[i].name = "run.start" => i = 1
             /\ i = 1 /\ Events => trace'[i].name = "run.start"
             /\ trace'[i].name \in {"run.end", "run.error"} => i = Len(trace')
             /\ trace'[i].name = "tool.end" => reached[trace'[i].key] = "value"
             /\ trace'[i].name = "tool.error" => reached[trace'[i].key] # "value"
  <2>1. CASE i \in 1 .. Len(trace)
    <3>1. /\ trace[i].name \in ToolNames => trace[i].key \in Keys /\ trace[i].key[1] < next
          /\ trace[i].name = "result" <=> ~Events
          /\ trace[i].sequence = i - 1
          /\ trace[i].name = "run.start" => i = 1
          /\ i = 1 /\ Events => trace[i].name = "run.start"
          /\ trace[i].name \in {"run.end", "run.error"} => i = Len(trace)
          /\ trace[i].name = "tool.end" => reached[trace[i].key] = "value"
          /\ trace[i].name = "tool.error" => reached[trace[i].key] # "value"
      BY <2>1 DEF TraceInv
    <3>2. trace[i].name \notin {"run.end", "run.error"}
      <4>1. trace # <<>>
        BY <1>3, <2>1
      <4>2. CASE i = Len(trace)
        BY <4>1, <4>2 DEF Concluded
      <4> QED BY <3>1, <4>2
    <3>3. trace'[i] = trace[i]
      BY <1>3, <2>1
    <3> QED BY <3>1, <3>2, <3>3
  <2>2. CASE i = Len(trace')
    <3>1. trace = <<>> <=> Len(trace) = 0
      BY <1>4
    <3>2. i = Len(trace) + 1 /\ i - 1 = Len(trace) /\ (i = 1 <=> Len(trace) = 0)
      BY <1>3, <2>2
    <3>3. trace'[i].name = n /\ trace'[i].key = k /\ trace'[i].sequence = Len(trace)
      BY <1>3, <2>2
    <3> QED BY <2>2, <3>1, <3>2, <3>3
  <2> QED BY <1>3, <2>1, <2>2
<1>7. ASSUME NEW i \in 1 .. Len(trace'), NEW j \in 1 .. Len(trace'), trace'[i].key = trace'[j].key
      PROVE  /\ trace'[i].name = "tool.start" /\ trace'[j].name = "tool.start" => i = j
             /\ trace'[i].name \in Enders /\ trace'[j].name \in Enders => i = j
  <2>1. CASE i \in 1 .. Len(trace) /\ j \in 1 .. Len(trace)
    <3>1. trace'[i] = trace[i] /\ trace'[j] = trace[j]
      BY <1>3, <2>1
    <3>2. trace[i].key = trace[j].key =>
          /\ trace[i].name = "tool.start" /\ trace[j].name = "tool.start" => i = j
          /\ trace[i].name \in Enders /\ trace[j].name \in Enders => i = j
      BY <2>1 DEF TraceInv
    <3> QED BY <1>7, <3>1, <3>2
  <2>2. ASSUME NEW p \in 1 .. Len(trace), trace'[p].key = k
        PROVE  /\ trace'[p].name = "tool.start" => n # "tool.start"
               /\ trace'[p].name \in Enders => n \notin Enders
    <3>1. trace'[p] = trace[p]
      BY <1>3
    <3>2. /\ trace[p].name = "tool.start" => Told({"tool.start"}, k)
          /\ trace[p].name \in Enders => Told(Enders, k)
      BY <2>2, <3>1 DEF Told
    <3> QED BY <3>1, <3>2
  <2>3. CASE i \in 1 .. Len(trace) /\ j = Len(trace')
    BY <1>3, <1>7, <2>2, <2>3
  <2>4. CASE j \in 1 .. Len(trace) /\ i = Len(trace')
    BY <1>3, <1>7, <2>2, <2>4
  <2>5. CASE i = Len(trace') /\ j = Len(trace')
    BY <2>5
  <2> QED BY <1>3, <2>1, <2>3, <2>4, <2>5
<1>8. \A j \in Keys : Told(Enders, j)' => Told({"tool.start"}, j)'
  <2>1. \A j \in Keys : Told(Enders, j) => Told({"tool.start"}, j)
    BY DEF TraceInv
  <2> QED BY <1>2, <2>1
<1>9. trace' \in Seq([name : EventNames, key : Keys \cup {None}, sequence : Nat]')
  BY <1>5 DEF EventType
<1> QED BY <1>1, <1>6, <1>7, <1>8, <1>9 DEF TraceInv


\* What is clear of a worker that did not move.
LEMMA ClearFrame ==
  ASSUME NEW w \in Workers, NEW k \in Keys, WorkerClear(w, k), UNCHANGED <<trace, reached>>,
         Started(w) => Started(w)'
  PROVE  WorkerClear(w, k)'
<1>1. \A names, j : Told(names, j)' <=> Told(names, j)
  BY ToldFrame
<1> QED BY <1>1 DEF WorkerClear

\* A call that nobody took yet.
LEMMA FreshClear ==
  ASSUME TypesInv, TraceInv, NEW k \in Keys, k[1] >= next, NEW names \in SUBSET ToolNames
  PROVE  ~Told(names, k) /\ reached[k] = "no"
<1>1. reached[k] = "no"
  BY DEF TypesInv, ReachedOK
<1>2. next \in Int /\ k[1] \in Int
  BY WorldFacts DEF TypesInv, BaseOK, Calls
<1>3. \A i \in 1 .. Len(trace) : trace[i].name \in ToolNames => trace[i].key[1] < next
  BY DEF TraceInv
<1> QED BY <1>1, <1>2, <1>3 DEF Told

\* The other workers are about other calls.
LEMMA OthersAway ==
  ASSUME TypesInv, NEW w \in Workers, NEW v \in Workers, NEW j \in Keys,
         workers[w].at = "call", AtKey(v, j), v # w
  PROVE  workers[w].key[1] # j[1]
BY CallFacts DEF AtKey

LEMMA ClearTakeCall ==
  ASSUME TypesInv, TraceInv, NEW w \in Workers, TakeCall(w)
  PROVE  TraceInv'
<1>1. /\ workers[w].at = "idle" /\ UNCHANGED <<world, queue, trace, reached>>
      /\ \/ workers' = [workers EXCEPT ![w] = Absent] /\ next' = next
         \/ /\ next \in Calls /\ next' = next + 1
            /\ \/ \E k \in Keys, l \in {<<>>, << 2 >>} : \E its :
                     k[1] = next /\ workers' = [workers EXCEPT ![w] = AtCall(k, l, its)]
               \/ \E its : workers' = [workers EXCEPT ![w] = Resting(its)]
  <2>1. /\ workers[w].at = "idle" /\ UNCHANGED <<world, queue, trace, reached>>
    BY TakeCallIs DEF ledger
  <2>2. CASE workers' = [workers EXCEPT ![w] = Absent] /\ next' = next
    BY <2>1, <2>2
  <2>3. CASE ~(workers' = [workers EXCEPT ![w] = Absent] /\ next' = next)
    <3>1. next \in Calls /\ next' = next + 1
      BY <2>3, TakeCallIs
    <3>2. CASE workers' = [workers EXCEPT ![w] = Resting(<<Item("preflight", <<next, 1>>, FALSE)>>)]
      BY <2>1, <3>1, <3>2
    <3>3. ASSUME NEW k \in Keys, NEW l \in {<<>>, << 2 >>}, k[1] = next,
                 \E its : workers' = [workers EXCEPT ![w] = AtCall(k, l, its)]
          PROVE  \E i \in Keys, m \in {<<>>, << 2 >>} : \E its :
                    i[1] = next /\ workers' = [workers EXCEPT ![w] = AtCall(i, m, its)]
      BY <3>3
    <3>4. CASE \E k \in Keys, l \in {<<>>, << 2 >>} :
                        /\ k[1] = next /\ (l = << 2 >> => k[2] = 1)
                        /\ \/ ~Events /\ workers' = [workers EXCEPT ![w] = AtCall(k, l, <<>>)]
                           \/ /\ Events
                              /\ workers' = [workers EXCEPT ![w] =
                                               AtCall(k, l, <<Item("start", k, TRUE)>>)]
                           \/ /\ Events /\ k[2] = 2 /\ l = <<>>
                              /\ workers' = [workers EXCEPT ![w] =
                                    AtCall(k, l, <<Item("cooldown", <<next, 1>>, TRUE),
                                                   Item("start", k, TRUE)>>)]
      <4>1. PICK k \in Keys, l \in {<<>>, << 2 >>} :
                        /\ k[1] = next
                        /\ \/ workers' = [workers EXCEPT ![w] = AtCall(k, l, <<>>)]
                           \/ workers' = [workers EXCEPT ![w] =
                                               AtCall(k, l, <<Item("start", k, TRUE)>>)]
                           \/ workers' = [workers EXCEPT ![w] =
                                    AtCall(k, l, <<Item("cooldown", <<next, 1>>, TRUE),
                                                   Item("start", k, TRUE)>>)]
        BY <3>4, Zenon
      <4>2. \E its : workers' = [workers EXCEPT ![w] = AtCall(k, l, its)]
        BY <4>1, Zenon
      <4> QED BY <2>1, <3>1, <3>3, <4>1, <4>2
    <3> QED BY <2>3, <3>2, <3>4, TakeCallIs
  <2> QED BY <2>2, <2>3, TakeCallIs
<1>2. next' \in Nat /\ next <= next' /\ next \in Nat
  BY <1>1, WorldFacts DEF TypesInv, BaseOK
<1>3. DOMAIN workers = Workers
  BY DEF TypesInv, WorkersOK
<1>4. ASSUME NEW v \in Workers, NEW j \in Keys, AtKey(v, j)' PROVE WorkerClear(v, j)'
  <2>1. CASE v = w
    <3>1. PICK k, l, its :
                     k \in Keys /\ k[1] = next /\ workers' = [workers EXCEPT ![w] = AtCall(k, l, its)]
      BY <1>1, <1>3, <1>4, <2>1 DEF AtKey, Absent, Resting
    <3>2. j = k
      BY <1>3, <1>4, <2>1, <3>1 DEF AtKey, AtCall
    <3>3. \A d \in 1 .. 2 : <<j[1], d>> \in Keys /\ <<j[1], d>>[1] >= next
      BY <1>2, <3>1, <3>2, WorldFacts DEF TypesInv, BaseOK
    <3>4. \A d \in 1 .. 2 : ~Told(Enders, <<j[1], d>>) /\ reached[<<j[1], d>>] = "no"
      BY <3>3, FreshClear DEF ToolNames
    <3>5. \A names, i : Told(names, i)' <=> Told(names, i)
      BY <1>1, ToldFrame
    <3> QED BY <1>1, <3>4, <3>5 DEF WorkerClear
  <2>2. CASE v # w
    <3>1. workers'[v] = workers[v]
      BY <1>1, <1>3, <2>2
    <3>2. AtKey(v, j) /\ Started(v)' = Started(v)
      BY <1>4, <3>1 DEF AtKey, Started
    <3> QED BY <1>1, <3>2, ClearFrame DEF TraceInv
  <2> QED BY <2>1, <2>2
<1> QED BY <1>1, <1>2, <1>4, TraceFrame

LEMMA ClearPut ==
  ASSUME TypesInv, TraceInv, NEW w \in Workers, Put(w)
  PROVE  TraceInv'
<1>1. /\ DOMAIN workers' = Workers /\ workers[w].items # <<>>
      /\ \A v \in Workers \ {w} : workers'[v] = workers[v]
      /\ workers'[w].at = workers[w].at /\ workers'[w].key = workers[w].key
      /\ UNCHANGED <<world, next, trace, reached>>
  BY PutLeaves DEF ledger
<1>2. next \in Nat
  BY WorldFacts DEF TypesInv, BaseOK
<1>3. ASSUME NEW v \in Workers, NEW j \in Keys, AtKey(v, j)' PROVE WorkerClear(v, j)'
  <2>1. AtKey(v, j) /\ (Started(v) => Started(v)')
    BY <1>1, <1>3 DEF AtKey, Started
  <2> QED BY <1>1, <2>1, ClearFrame DEF TraceInv
<1> QED BY <1>1, <1>2, <1>3, TraceFrame

LEMMA ClearReach ==
  ASSUME TypesInv, TraceInv, NEW w \in Workers, Reach(w) \/ Succeed(w)
  PROVE  TraceInv'
<1> DEFINE k == workers[w].key
<1>1. /\ workers[w].at = "call" /\ Started(w) /\ UNCHANGED <<world, next, trace>>
      /\ \/ reached[k] = "no" /\ reached' = [reached EXCEPT ![k] = "yes"] /\ UNCHANGED workers
         \/ reached' = [reached EXCEPT ![k] = "value"]
            /\ \E its : workers' = [workers EXCEPT ![w] = Resting(its)]
  BY DEF Reach, Succeed, Calling, Started, Becomes, ledger
<1>2. k \in Keys /\ AtKey(w, k)
  BY <1>1, CallFacts DEF AtKey
<1>3. DOMAIN workers = Workers /\ reached \in [Keys -> {"no", "yes", "value"}] /\ next \in Nat
  BY WorldFacts DEF TypesInv, WorkersOK, ReachedOK, BaseOK
<1>4. WorkerClear(w, k)
  BY <1>2 DEF TraceInv
<1>5. ~Told(Enders, k)
  BY <1>2, <1>4, WorldFacts DEF WorkerClear, TypesInv, BaseOK
<1>6. \A names, i : Told(names, i)' <=> Told(names, i)
  BY <1>1, ToldFrame
<1>7. ASSUME NEW v \in Workers, NEW j \in Keys, AtKey(v, j)' PROVE WorkerClear(v, j)'
  <2>1. CASE v = w
    <3>1. UNCHANGED workers /\ reached' = [reached EXCEPT ![k] = "yes"]
      BY <1>1, <1>3, <1>7, <2>1 DEF AtKey, Resting
    <3>2. j = k
      BY <1>7, <2>1, <3>1 DEF AtKey
    <3>3. k[2] \in 1 .. 2 /\ \A d \in 1 .. 2 : <<k[1], d>> \in Keys /\ (<<k[1], d>> = k <=> d = k[2])
      BY <1>2, WorldFacts DEF TypesInv, BaseOK
    <3>4. \A d \in 1 .. 2 :
             reached'[<<k[1], d>>] = IF d = k[2] THEN "yes" ELSE reached[<<k[1], d>>]
      BY <1>2, <1>3, <3>1, <3>3
    <3>5. Started(w)'
      BY <1>1, <3>1 DEF Started
    <3> HIDE DEF k
    <3> QED BY <1>1, <1>4, <1>6, <2>1, <3>2, <3>3, <3>4, <3>5 DEF WorkerClear
  <2>2. CASE v # w
    <3>1. workers'[v] = workers[v]
      BY <1>1, <1>3, <2>2
    <3>2. AtKey(v, j) /\ Started(v)' = Started(v)
      BY <1>7, <3>1 DEF AtKey, Started
    <3>3. k[1] # j[1]
      BY <1>1, <2>2, <3>2, OthersAway
    <3>4. \A d \in 1 .. 2 : reached'[<<j[1], d>>] = reached[<<j[1], d>>]
      <4>1. \A d \in 1 .. 2 : <<j[1], d>> \in Keys
        BY WorldFacts DEF TypesInv, BaseOK
      <4>2. \A d \in 1 .. 2 : <<j[1], d>> # k
        BY <3>3
      <4> QED BY <1>1, <1>2, <1>3, <4>1, <4>2
    <3>5. WorkerClear(v, j)
      BY <3>2 DEF TraceInv
    <3> QED BY <1>6, <3>2, <3>4, <3>5 DEF WorkerClear
  <2> QED BY <2>1, <2>2
<1>8. \A i \in Keys : \/ reached'[i] = reached[i]
                      \/ reached[i] = "no" /\ reached'[i] = "yes"
                      \/ reached'[i] = "value" /\ ~Told(Enders, i)
  BY <1>1, <1>2, <1>3, <1>5
<1> QED BY <1>1, <1>3, <1>7, <1>8, TraceFrame

LEMMA ClearFails ==
  ASSUME TypesInv, TraceInv, NEW w \in Workers,
         \/ Fail(w) \/ Unavailable(w) \/ CancelSwallowed(w)
         \/ CallCancelled(w) \/ WorkerCancelled(w)
  PROVE  TraceInv'
<1>1. UNCHANGED <<world, next, trace, reached>>
  BY FailsTypes, GoneTypes DEF ledger
<1>2. DOMAIN workers = Workers /\ next \in Nat
  BY WorldFacts DEF TypesInv, WorkersOK, BaseOK
<1>3. \/ \E its : workers' = [workers EXCEPT ![w] = Resting(its)]
      \/ GoesOn(w) /\ workers[w].at = "call"
      \/ workers' = [workers EXCEPT ![w] = Absent]
  BY FailsTypes, GoneTypes DEF Answers
<1>4. ASSUME NEW v \in Workers, NEW j \in Keys, AtKey(v, j)' PROVE WorkerClear(v, j)'
  <2>1. CASE v # w
    <3>1. workers'[v] = workers[v]
      BY <1>2, <1>3, <2>1 DEF GoesOn
    <3>2. AtKey(v, j) /\ Started(v)' = Started(v)
      BY <1>4, <3>1 DEF AtKey, Started
    <3> QED BY <1>1, <3>2, ClearFrame DEF TraceInv
  <2>2. CASE v = w
    <3>1. GoesOn(w) /\ workers[w].at = "call"
      BY <1>2, <1>3, <1>4, <2>2 DEF AtKey, Resting, Absent
    <3>2. PICK k : k = workers[w].key
      OBVIOUS
    <3>3. k \in Keys /\ AtKey(w, k) /\ k[2] = 1
      BY <3>1, <3>2, CallFacts DEF AtKey, GoesOn, TypesInv, WorkersOK, WorkerOK
    <3>4. j = <<k[1], 2>>
      BY <1>2, <1>4, <2>2, <3>1, <3>2 DEF AtKey, GoesOn, AtCall
    <3>5. WorkerClear(w, k)
      BY <3>3 DEF TraceInv
    <3>6. ~Told(Enders, j) /\ reached[j] = "no"
      BY <3>3, <3>4, <3>5 DEF WorkerClear
    <3>7. \A names, i : Told(names, i)' <=> Told(names, i)
      BY <1>1, ToldFrame
    <3>8. j[2] = 2 /\ j = <<j[1], j[2]>>
      BY <3>4
    <3>9. \A d \in 1 .. 2 : d >= j[2] => <<j[1], d>> = j
      BY <3>8
    <3>10. \A d \in 1 .. 2 : d > j[2] => FALSE
      BY <3>8
    <3> QED BY <1>1, <3>6, <3>7, <3>9, <3>10 DEF WorkerClear
  <2> QED BY <2>1, <2>2
<1> QED BY <1>1, <1>2, <1>4, TraceFrame


LEMMA ClearSame ==
  ASSUME TypesInv, TraceInv, UNCHANGED <<world, next, trace, reached>>,
         \A w \in Workers, k \in Keys : AtKey(w, k)' => AtKey(w, k) /\ (Started(w) => Started(w)')
  PROVE  TraceInv'
<1>1. next \in Nat
  BY WorldFacts DEF TypesInv, BaseOK
<1>2. ASSUME NEW v \in Workers, NEW j \in Keys, AtKey(v, j)' PROVE WorkerClear(v, j)'
  BY <1>2, ClearFrame DEF TraceInv
<1> QED BY <1>1, <1>2, TraceFrame

\* What the stream is about to do when it writes an event of a candidate.
LEMMA DueIs ==
  ASSUME AgendaInv, Doing("emit"), NEW n, NEW k, n = Head(agenda).name, k = Head(agenda).key
  PROVE  /\ \A names, j : Due(names, j) <=> n \in names /\ k = j
         /\ n \in EventNames \ {"indeterminate"} /\ k \in Keys \cup {None}
         /\ n \in ToolNames => k \in Keys /\ k[1] < next
         /\ n = "result" <=> ~Events
         /\ agenda \notin {<<Do("raise")>>, <<Do("finish")>>} /\ pc = "go" /\ Live
         /\ n = "run.start" => Events /\ agenda = <<Emit("run.start", None), Do("plan")>>
         /\ agenda = <<Emit("run.start", None), Do("plan")>> => n = "run.start"
<1>1. \A names, j : Due(names, j) <=> n \in names /\ k = j
  BY DEF Due
<1>2. pc = "go" /\ agenda # <<>> /\ Head(agenda).do = "emit" /\ Live
  BY DEF Doing, AgendaInv
<1>3. agenda \notin {<<Do("raise")>>, <<Do("finish")>>}
  BY <1>2, StepIs, Heads
<1>4. agenda = <<Emit("run.start", None), Do("plan")>> => n = "run.start"
  BY StepIs, Heads
<1>5. \/ Events /\ n = "run.start" /\ k = None /\ agenda = <<Emit("run.start", None), Do("plan")>>
      \/ Events /\ n \in {"plan.end", "run.end", "run.error"} /\ k = None
      \/ Events /\ n \in {"tool.start", "tool.end", "tool.error", "tool.fallback"}
         /\ k \in Keys /\ k[1] < next
      \/ ~Events /\ n = "result" /\ k \in Keys /\ k[1] < next
  <2>1. Emit("run.start", None).key = None /\ Emit("plan.end", None).key = None
        /\ Emit("run.end", None).key = None /\ Emit("run.error", None).key = None
    BY StepIs
  <2> QED BY EmitWhat, StepIs, Heads, <2>1 DEF Failure, Ending
<1> QED BY <1>1, <1>2, <1>3, <1>4, <1>5 DEF EventNames, ToolNames, Enders

LEMMA NotConcluded ==
  ASSUME AgendaInv, TraceInv, Events => QuietInv,
         \/ Doing("emit")
         \/ Events /\ pc \in {"drain", "flush", "gather"}
  PROVE  ~Concluded
<1>1. CASE Events
  <2>1. CASE Doing("emit")
    <3>1. agenda \notin {<<Do("raise")>>, <<Do("finish")>>} /\ pc = "go"
      BY <2>1, StepIs, Heads DEF Doing
    <3> QED BY <1>1, <3>1 DEF QuietInv, QuietEnd
  <2>2. CASE pc \in {"drain", "flush", "gather"}
    BY <1>1, <2>2 DEF QuietInv, QuietEnd
  <2> QED BY <1>1, <2>1, <2>2
<1>2. CASE ~Events
  <2>1. ASSUME Concluded PROVE FALSE
    <3>1. Len(trace) \in 1 .. Len(trace)
      BY <2>1 DEF Concluded, TraceInv
    <3>2. trace[Len(trace)].name = "result"
      BY <1>2, <3>1 DEF TraceInv
    <3> QED BY <2>1, <3>2 DEF Concluded
  <2> QED BY <2>1
<1> QED BY <1>1, <1>2

LEMMA TraceOfEmit ==
  ASSUME TypesInv, AgendaInv, LedgerInv, TraceInv, Events /\ Live => PipeInv, Events => QuietInv,
         Doing("emit"), UNCHANGED <<world, next, reached, workers>>,
         trace' = Append(trace, Event(Head(agenda).name, Head(agenda).key))
  PROVE  TraceInv'
<1>1. PICK n, k : n = Head(agenda).name /\ k = Head(agenda).key
  OBVIOUS
<1>2. Appends(n, k)
  BY <1>1 DEF Appends, Event
<1>3. /\ \A names, j : Due(names, j) <=> n \in names /\ k = j
      /\ n \in EventNames \ {"indeterminate"} /\ k \in Keys \cup {None}
      /\ n \in ToolNames => k \in Keys /\ k[1] < next
      /\ n = "result" <=> ~Events
      /\ pc = "go" /\ Live
      /\ n = "run.start" => Events /\ agenda = <<Emit("run.start", None), Do("plan")>>
      /\ agenda = <<Emit("run.start", None), Do("plan")>> => n = "run.start"
  BY <1>1, DueIs
<1>4. sequence = Len(trace)
  BY <1>3 DEF LedgerInv, Booked
<1>5. ~Concluded
  BY NotConcluded
<1>6. /\ n = "run.start" => trace = <<>>
      /\ trace = <<>> /\ Events => n = "run.start"
  BY <1>3 DEF QuietInv, QuietTrace, RunStart
<1>7. ASSUME Events, n \in ToolNames
      PROVE  /\ n = "tool.end" => reached[k] = "value"
             /\ n = "tool.error" => reached[k] # "value"
             /\ n = "tool.start" => ~Told({"tool.start"}, k)
             /\ n \in Enders => ~Told(Enders, k) /\ Told({"tool.start"}, k)
  <2>1. PipeInv /\ k \in Keys
    BY <1>3, <1>7
  <2>2. /\ Handled(Enders, k) => Handled({"tool.start"}, k)
        /\ Due({"tool.start"}, k) => ~Told({"tool.start"}, k)
        /\ Due(Enders, k) => ~Told(Enders, k)
        /\ Due({"tool.end"}, k) => reached[k] = "value"
        /\ Due({"tool.error"}, k) => reached[k] # "value"
    BY <2>1 DEF PipeInv
  <2>3. n = "tool.start" => n \notin Enders
    BY DEF Enders
  <2> QED BY <1>3, <2>2, <2>3 DEF Handled
<1>8. \A names, j : Told(names, j)' <=> Told(names, j) \/ (n \in names /\ k = j)
  BY <1>2, ToldAppend
<1>9. ASSUME NEW w \in Workers, NEW j \in Keys, AtKey(w, j)' PROVE WorkerClear(w, j)'
  <2>1. AtKey(w, j) /\ WorkerClear(w, j) /\ Started(w)' = Started(w)
    BY <1>9 DEF AtKey, TraceInv, Started
  <2>2. ASSUME NEW d \in 1 .. 2, d >= j[2], n \in Enders, k = <<j[1], d>> PROVE FALSE
    <3>1. Events /\ PipeInv /\ k \in Keys
      BY <1>3, <2>2 DEF Enders, ToolNames
    <3>2. PICK m : m = Len(queue)
      OBVIOUS
    <3>3. m \in 0 .. Len(queue)
      BY <3>2 DEF TypesInv, QueueOK
    <3>4. WorkerFits(w, j, m)
      BY <2>1, <3>1, <3>2, <3>3 DEF PipeInv
    <3>5. Due(Enders, k) /\ Handled(Enders, k) /\ Settled(m, k)
      BY <1>3, <2>2 DEF Handled, Settled
    <3>6. Opened(m, k)
      BY <3>1, <3>5 DEF PipeInv, Opened
    <3>7. j[2] \in 1 .. 2 /\ j = <<j[1], j[2]>>
      BY WorldFacts DEF TypesInv, BaseOK
    <3> QED BY <2>2, <3>4, <3>5, <3>6, <3>7 DEF WorkerFits
  <2> QED BY <1>8, <2>1, <2>2 DEF WorkerClear
<1>10. n \in Enders => n \in ToolNames /\ Events
  BY <1>3 DEF Enders, ToolNames
<1>11. n \in {"tool.start", "tool.end", "tool.error"} => n \in ToolNames /\ Events
  BY <1>3 DEF Enders, ToolNames
<1> QED BY <1>2, <1>3, <1>4, <1>5, <1>6, <1>7, <1>9, <1>10, <1>11, TraceAppend


\* The events of an abort: nobody is at work any more.
LEMMA TraceOfAbort ==
  ASSUME TypesInv, AgendaInv, LedgerInv, TraceInv, Events /\ Live => PipeInv, Events => QuietInv,
         pc = "drain", UNCHANGED <<world, next, reached, workers>>,
         NEW n \in {"tool.start"} \cup Enders, NEW k \in Keys, Appends(n, k),
         k[1] < next,
         n = "tool.end" => reached[k] = "value",
         n = "tool.error" => reached[k] # "value",
         n = "tool.start" => k \notin started,
         n \in Enders => k \in started \ closed
  PROVE  TraceInv'
<1>1. Events
  BY DEF AgendaInv
<1>2. /\ sequence = Len(trace)
      /\ \A j \in Keys : j \in started <=> Told({"tool.start"}, j)
      /\ \A j \in Keys : j \in closed <=> Told(Enders, j)
  BY DEF LedgerInv, Booked
<1>3. ~Concluded
  BY <1>1, NotConcluded
<1>4. trace # <<>> /\ AllGone
  BY <1>1 DEF QuietInv, QuietAgenda, QuietTrace, RunStart
<1>5. n \in EventNames /\ n \in ToolNames /\ n \notin {"result", "run.start"}
      /\ (n \in Enders => n # "tool.start")
  BY DEF EventNames, ToolNames, Enders
<1>6. \A w \in Workers, j \in Keys : ~AtKey(w, j)'
  BY <1>4 DEF AllGone, Gone, AtKey
<1>7. /\ n = "tool.start" => ~Told({"tool.start"}, k)
      /\ n \in Enders => ~Told(Enders, k) /\ Told({"tool.start"}, k)
  BY <1>2
<1>8. /\ n = "result" <=> ~Events
      /\ n = "run.start" => trace = <<>>
      /\ trace = <<>> /\ Events => n = "run.start"
  BY <1>1, <1>4, <1>5
<1>9. n \in EventNames /\ k \in Keys \cup {None} /\ sequence = Len(trace)
      /\ \A w \in Workers, j \in Keys : AtKey(w, j)' => WorkerClear(w, j)'
  BY <1>2, <1>5, <1>6
<1> QED BY <1>3, <1>7, <1>8, <1>9, TraceAppend

LEMMA TraceOfDrain ==
  ASSUME TypesInv, AgendaInv, LedgerInv, TraceInv, Events /\ Live => PipeInv, Events => QuietInv,
         Drain \/ Indeterminate
  PROVE  TraceInv'
<1>1. pc = "drain" /\ UNCHANGED <<world, next, reached, workers>> /\ Events /\ Live
  BY DEF Drain, Indeterminate, AgendaInv
<1>2. CASE Indeterminate
  <2>1. PICK k \in started \ closed : trace' = Append(trace, Event("indeterminate", k))
    BY <1>2 DEF Indeterminate
  <2>2. PICK n : n = "indeterminate"
    OBVIOUS
  <2>3. Appends(n, k) /\ n \in Enders /\ n \notin {"tool.start", "tool.end", "tool.error"}
    BY <2>1, <2>2 DEF Appends, Event, Enders
  <2>4. k \in Keys /\ Told({"tool.start"}, k)
    BY <1>1 DEF LedgerInv, Booked
  <2>5. k[1] < next
    BY <2>4 DEF Told, TraceInv, ToolNames
  <2> QED BY <1>1, <2>1, <2>3, <2>4, <2>5, TraceOfAbort
<1>3. CASE Drain
  <2>0. PICK item : item = Head(queue)
    OBVIOUS
  <2>1. /\ queue # <<>> /\ queue' = Tail(queue)
        /\ IF LeftOver(item) = {} THEN UNCHANGED <<started, closed, sequence, trace>>
           ELSE \E name \in LeftOver(item) :
                   trace' = Append(trace, Event(name, item.key)) /\ Account(Event(name, item.key))
    BY <1>3, <2>0 DEF Drain
  <2>2. item \in ItemType /\ item = queue[1] /\ ItemIn(item, Keys, next) /\ 1 \in 1 .. Len(queue)
    BY <2>0, <2>1, TakenOff
  <2>3. CASE UNCHANGED trace
    BY <1>1, <2>3, ClearSame DEF AtKey, Started
  <2>4. ASSUME NEW n \in LeftOver(item), trace' = Append(trace, Event(n, item.key))
        PROVE  TraceInv'
    <3>1. PICK k, kind : k = item.key /\ kind = item.kind
      OBVIOUS
    <3>2. k \in Keys /\ k[1] < next /\ kind \in Kinds
      BY <2>2, <3>1 DEF ItemType, ItemIn
    <3>3. \/ n = "tool.start" /\ k \notin started
          \/ n = "tool.end" /\ kind \in Values /\ k \in started \ closed
          \/ n = "tool.error" /\ kind \in {"unavailable", "error"} /\ k \in started \ closed
      BY <2>4, <3>1 DEF LeftOver, Values
    <3>4. Appends(n, k)
      BY <2>4, <3>1 DEF Appends, Event
    <3>5. InQueue(1, kind, k)
      BY <2>2, <3>1 DEF InQueue
    <3>6. ItemTrue(kind, k)
      BY <1>1, <2>2, <3>2, <3>5 DEF PipeInv
    <3> QED BY <1>1, <3>2, <3>3, <3>4, <3>6, TraceOfAbort DEF ItemTrue, Enders
  <2> QED BY <2>1, <2>3, <2>4
<1> QED BY <1>2, <1>3

LEMMA TraceStep ==
  ASSUME TypesInv, AgendaInv, LedgerInv, TraceInv, Events /\ Live => PipeInv, Events => QuietInv,
         [Next]_vars
  PROVE  TraceInv'
<1>1. CASE Moves
  BY <1>1, MovesAre, ClearSame DEF AtKey, Started
<1>2. CASE Get \/ Taken \/ UNCHANGED vars
  <2>1. UNCHANGED <<world, next, trace, reached, workers>>
    BY <1>2 DEF Get, Taken, vars, ledger
  <2> QED BY <2>1, ClearSame DEF AtKey, Started
<1>3. CASE Abort \/ Finally
  <2>1. UNCHANGED <<world, next, trace, reached>> /\ workers' = Cancelled
    BY <1>3 DEF Abort, Finally, ledger
  <2> QED BY <2>1, CancelledIs, ClearSame DEF AtKey, Started
<1>4. CASE Launch
  <2>1. UNCHANGED <<world, next, trace, reached>>
    BY <1>4 DEF Launch, ledger
  <2> QED BY <1>4, <2>1, LaunchTypes, ClearSame DEF AtKey
<1>5. CASE Persist
  BY <1>5, TraceOfEmit DEF Persist
<1>6. CASE Close
  <2>1. CASE Doing("emit")
    BY <1>6, <2>1, TraceOfEmit DEF Close
  <2>2. CASE ~Doing("emit")
    <3>1. UNCHANGED <<world, next, trace, reached, workers>>
      BY <1>6, <2>2 DEF Close
    <3> QED BY <3>1, ClearSame DEF AtKey, Started
  <2> QED BY <2>1, <2>2
<1>7. CASE Drain \/ Indeterminate
  BY <1>7, TraceOfDrain
<1>8. ASSUME NEW w \in Workers, WorkerSteps(w) PROVE TraceInv'
  BY <1>8, ClearTakeCall, ClearPut, ClearReach, ClearFails DEF WorkerSteps
<1> QED BY <1>1, <1>2, <1>3, <1>4, <1>5, <1>6, <1>7, <1>8, NextIs


-----------------------------------------------------------------------------
(* The way from a worker to the trace *)

\* Nothing more or less has been told or is due of a candidate.
SameHandled ==
    \A k \in Keys : /\ Handled({"tool.start"}, k)' <=> Handled({"tool.start"}, k)
                    /\ Handled(Enders, k)' <=> Handled(Enders, k)
                    /\ Handled({"tool.end"}, k)' <=> Handled({"tool.end"}, k)

\* What is due was due before, or is told already.
DueBefore ==
    \A k \in Keys :
       /\ Due({"tool.start"}, k)' => Due({"tool.start"}, k) /\ ~Told({"tool.start"}, k)'
       /\ Due(Enders, k)' => Due(Enders, k) /\ ~Told(Enders, k)'
       /\ Due({"tool.end"}, k)' => Due({"tool.end"}, k)
       /\ Due({"tool.error"}, k)' => Due({"tool.error"}, k)

LEMMA SamePlaces ==
  ASSUME SameHandled, UNCHANGED queue
  PROVE  \A k \in Keys, q \in Int : /\ Opened(q, k)' <=> Opened(q, k)
                                    /\ Settled(q, k)' <=> Settled(q, k)
                                    /\ Won(q, k)' <=> Won(q, k)
<1>1. \A kinds, k, q : Queued(q, kinds, k)' <=> Queued(q, kinds, k)
  BY DEF Queued
<1> QED BY <1>1 DEF SameHandled, Opened, Settled, Won

LEMMA SameFits ==
  ASSUME world \in World, NEW k \in Keys, NEW q \in Int, NEW r \in Int,
         \A d \in 1 .. 2 : LET j == <<k[1], d>> IN
            /\ Opened(r, j)' <=> Opened(q, j)
            /\ Settled(r, j)' <=> Settled(q, j)
            /\ Won(r, j)' <=> Won(q, j)
  PROVE  \A kind : Fits(kind, k, r)' <=> Fits(kind, k, q)
<1>1. k = <<k[1], k[2]>> /\ k[2] \in 1 .. 2
  BY WorldFacts
<1>2. (Opened(r, k)' <=> Opened(q, k)) /\ (Settled(r, k)' <=> Settled(q, k))
  BY <1>1, Zenon
<1> QED BY <1>2 DEF Fits

LEMMA SameWorkerFits ==
  ASSUME world \in World, NEW w \in Workers, NEW k \in Keys, NEW q \in Int, NEW r \in Int,
         WorkerFits(w, k, q), Started(w)' <=> Started(w),
         \A d \in 1 .. 2 : Front(w, "unavailable", <<k[1], d>>)
                              => Front(w, "unavailable", <<k[1], d>>)',
         \A d \in 1 .. 2 : LET j == <<k[1], d>> IN
            /\ Opened(r, j)' <=> Opened(q, j)
            /\ Settled(r, j)' <=> Settled(q, j)
            /\ Won(r, j)' <=> Won(q, j)
  PROVE  WorkerFits(w, k, r)'
<1>1. k = <<k[1], k[2]>> /\ k[2] \in 1 .. 2
  BY WorldFacts
<1>2. (Opened(r, k)' <=> Opened(q, k)) /\ (Settled(r, k)' <=> Settled(q, k))
  BY <1>1, Zenon
<1> QED BY <1>2 DEF WorkerFits

\* The stream went on without reporting anything new.
LEMMA PipeFrame ==
  ASSUME TypesInv, PipeInv, UNCHANGED <<world, queue, reached>>, SameHandled, DueBefore,
         \A w \in Workers, k \in Keys :
            /\ AtKey(w, k)' => AtKey(w, k) /\ (Started(w)' <=> Started(w))
            /\ \A kind \in Kinds : Front(w, kind, k)' => Front(w, kind, k)
            /\ AtKey(w, k)' => \A d \in 1 .. 2 : Front(w, "unavailable", <<k[1], d>>)
                                                   => Front(w, "unavailable", <<k[1], d>>)'
  PROVE  PipeInv'
<1>1. Keys' = Keys /\ Calls' = Calls /\ Len(queue) \in Nat /\ world \in World
  BY CallsStay DEF TypesInv, QueueOK, BaseOK
<1>2. \A k \in Keys, d \in 1 .. 2 : <<k[1], d>> \in Keys
  BY <1>1, WorldFacts
<1>3. \A k \in Keys, q \in Int : /\ Opened(q, k)' <=> Opened(q, k)
                                 /\ Settled(q, k)' <=> Settled(q, k)
                                 /\ Won(q, k)' <=> Won(q, k)
  BY SamePlaces
<1>4. \A k \in Keys, q \in Int : \A kind : Fits(kind, k, q)' <=> Fits(kind, k, q)
  BY <1>1, <1>2, <1>3, SameFits
<1>5. \A kind, k : ItemTrue(kind, k)' <=> ItemTrue(kind, k)
  BY DEF ItemTrue
<1>6. \A k \in Keys :
          /\ Handled(Enders, k)' => Handled({"tool.start"}, k)'
          /\ Due({"tool.start"}, k)' => ~Told({"tool.start"}, k)'
          /\ Due(Enders, k)' => ~Told(Enders, k)'
          /\ Due({"tool.end"}, k)' => reached'[k] = "value"
          /\ Due({"tool.error"}, k)' => reached'[k] # "value"
          /\ \A n \in 0 .. Len(queue) : n = Len(queue) /\ reached'[k] # "no" => Opened(n, k)'
  BY <1>1, <1>3 DEF PipeInv, SameHandled, DueBefore
<1>7. \A i \in Calls :
          /\ Handled({"tool.start"}, <<i, 1>>)' /\ Handled({"tool.start"}, <<i, 2>>)'
                => Handled(Enders, <<i, 1>>)'
          /\ \A c, d \in 1 .. 2 :
                Handled({"tool.end"}, <<i, c>>)' /\ Handled({"tool.start"}, <<i, d>>)'
                   => Handled(Enders, <<i, d>>)'
  <2>1. \A i \in Calls, d \in 1 .. 2 : <<i, d>> \in Keys
    BY <1>1, WorldFacts
  <2>2. 1 \in 1 .. 2 /\ 2 \in 1 .. 2
    OBVIOUS
  <2> QED BY <2>1, <2>2, Zenon DEF PipeInv, SameHandled
<1>8. \A kind \in Kinds, k \in Keys, p \in 1 .. Len(queue) :
          InQueue(p, kind, k)' => Fits(kind, k, p - 1)' /\ ItemTrue(kind, k)'
  <2>1. \A kind, k, p : InQueue(p, kind, k)' <=> InQueue(p, kind, k)
    BY DEF InQueue
  <2>2. \A p \in 1 .. Len(queue) : p - 1 \in Int
    BY <1>1
  <2> QED BY <1>4, <1>5, <2>1, <2>2 DEF PipeInv
<1>9. ASSUME NEW n \in 0 .. Len(queue), NEW w \in Workers, NEW k \in Keys, n = Len(queue)
      PROVE  /\ AtKey(w, k)' => WorkerFits(w, k, n)'
             /\ \A kind \in Kinds : Front(w, kind, k)' => Fits(kind, k, n)' /\ ItemTrue(kind, k)'
  <2>1. n \in Int
    BY <1>1
  <2>2. AtKey(w, k)' => WorkerFits(w, k, n)'
    <3>1. SUFFICES ASSUME AtKey(w, k)' PROVE WorkerFits(w, k, n)'
      OBVIOUS
    <3>2. WorkerFits(w, k, n)
      BY <1>9, <3>1 DEF PipeInv
    <3>3. /\ Started(w)' <=> Started(w)
          /\ \A d \in 1 .. 2 : Front(w, "unavailable", <<k[1], d>>)
                              => Front(w, "unavailable", <<k[1], d>>)'
      BY <3>1
    <3> QED BY <1>1, <1>2, <1>3, <2>1, <3>2, <3>3, SameWorkerFits
  <2>3. \A kind \in Kinds : Front(w, kind, k)' => Fits(kind, k, n)' /\ ItemTrue(kind, k)'
    BY <1>4, <1>5, <1>9, <2>1 DEF PipeInv
  <2> QED BY <2>2, <2>3
<1>10. queue' = queue
  OBVIOUS
<1> QED BY <1>1, <1>6, <1>7, <1>8, <1>9, <1>10 DEF PipeInv


\* The stream is not about to report anything of a candidate.
NothingDue == \A k : ~Due(ToolNames, k)

LEMMA NothingIsDue ==
  /\ \/ pc # "go"
     \/ agenda = <<>>
     \/ Head(agenda).do # "emit"
     \/ Head(agenda).name \notin ToolNames
     => NothingDue
  /\ \/ pc' # "go"
     \/ agenda' = <<>>
     \/ Head(agenda').do # "emit"
     \/ Head(agenda').name \notin ToolNames
     => NothingDue'
BY DEF NothingDue, Due, Doing

LEMMA QuietFrame ==
  ASSUME NothingDue, NothingDue', UNCHANGED trace
  PROVE  SameHandled /\ DueBefore
<1>1. \A names, j : Told(names, j)' <=> Told(names, j)
  BY ToldFrame
<1>2. \A names \in SUBSET ToolNames : \A k : ~Due(names, k) /\ ~Due(names, k)'
  BY DEF NothingDue, Due
<1>3. /\ {"tool.start"} \in SUBSET ToolNames /\ Enders \in SUBSET ToolNames
      /\ {"tool.end"} \in SUBSET ToolNames /\ {"tool.error"} \in SUBSET ToolNames
  BY DEF ToolNames, Enders
<1>4. \A k \in Keys : /\ ~Due({"tool.start"}, k) /\ ~Due({"tool.start"}, k)'
                      /\ ~Due(Enders, k) /\ ~Due(Enders, k)'
                      /\ ~Due({"tool.end"}, k) /\ ~Due({"tool.end"}, k)'
                      /\ ~Due({"tool.error"}, k) /\ ~Due({"tool.error"}, k)'
  BY <1>2, <1>3
<1> QED BY <1>1, <1>4 DEF SameHandled, DueBefore, Handled

LEMMA NamesOfRun ==
  /\ {"run.start", "plan.end", "run.end", "run.error"} \cap ToolNames = {}
  /\ {"tool.start", "tool.end", "tool.error", "tool.fallback", "indeterminate"} = ToolNames
  /\ {"tool.end", "tool.error", "indeterminate"} = Enders
BY DEF ToolNames, Enders

LEMMA QuietMoves ==
  ASSUME TypesInv, AgendaInv, Moves, Live'
  PROVE  NothingDue /\ NothingDue'
<1>1. CASE MakePlan
  <2>1. Head(agenda).do = "plan" /\ agenda' = <<Emit("plan.end", None), Do("launch")>>
    BY <1>1 DEF MakePlan, Goes, Doing
  <2>2. Head(agenda').name \notin ToolNames
    BY <2>1, StepIs, Heads, NamesOfRun
  <2> QED BY <2>1, <2>2, NothingIsDue
<1>2. CASE PlanFails \/ LaunchRefused
  <2>1. Head(agenda).do \in {"plan", "launch"} /\ (agenda' = Failure \/ agenda' = <<Do("raise")>>)
    BY <1>2 DEF PlanFails, LaunchRefused, Goes, Doing
  <2>2. Head(agenda').name \notin ToolNames \/ Head(agenda').do # "emit"
    BY <2>1, StepIs, Heads, NamesOfRun DEF Failure
  <2> QED BY <2>1, <2>2, NothingIsDue
<1>3. CASE AllEnded
  <2>1. agenda = <<>> /\ pc' = "finally"
    BY <1>3 DEF AllEnded, Stops
  <2> QED BY <2>1, NothingIsDue
<1>4. CASE Gathered \/ Drained \/ Flush
  <2>1. pc \in {"gather", "drain", "flush"} /\ agenda' = agenda
    BY <1>4 DEF Gathered, Drained, Flush, Goes
  <2>2. agenda' = Failure
    BY <2>1 DEF AgendaInv
  <2>3. Head(agenda').name \notin ToolNames
    BY <2>2, StepIs, Heads, NamesOfRun DEF Failure
  <2> QED BY <2>1, <2>3, NothingIsDue
<1>5. CASE Raise \/ PersistFails \/ FallbackUnknown
  <2>1. outcome' \in {"raised", "lost"}
    BY <1>5 DEF Raise, PersistFails, FallbackUnknown, Stops
  <2> QED BY <2>1, PlanRunAssumption DEF Live
<1>6. CASE Leave
  <2>1. pc = "leaving" /\ (agenda' = <<Emit("run.end", None), Do("finish")>> \/ agenda' = <<>>)
    BY <1>6 DEF Leave, Goes
  <2>2. Head(agenda').name \notin ToolNames \/ agenda' = <<>>
    BY <2>1, StepIs, Heads, NamesOfRun
  <2> QED BY <2>1, <2>2, NothingIsDue
<1>7. CASE Finish
  <2>1. Head(agenda).do = "finish" /\ pc' = "over"
    BY <1>7 DEF Finish, Goes, Doing
  <2> QED BY <2>1, NothingIsDue
<1> QED BY <1>1, <1>2, <1>3, <1>4, <1>5, <1>6, <1>7 DEF Moves

\* The workers are where they were.
LEMMA PipeSame ==
  ASSUME TypesInv, PipeInv, UNCHANGED <<world, queue, reached>>, SameHandled, DueBefore,
         \A w \in Workers : /\ workers'[w].at = workers[w].at /\ workers'[w].key = workers[w].key
                            /\ workers'[w].items = workers[w].items
  PROVE  PipeInv'
BY PipeFrame DEF AtKey, Started, Front

LEMMA PipeMoves ==
  ASSUME TypesInv, AgendaInv, PipeInv, Live', Moves \/ UNCHANGED vars \/ Abort \/ Finally \/ Launch
  PROVE  PipeInv'
<1>1. CASE Moves
  BY <1>1, MovesAre, QuietMoves, QuietFrame, PipeSame
<1>2. CASE UNCHANGED vars
  <2>1. UNCHANGED <<world, queue, reached, trace, agenda, pc, workers>>
    BY <1>2 DEF vars
  <2>2. \A names, j : (Told(names, j)' <=> Told(names, j)) /\ (Due(names, j)' <=> Due(names, j))
    BY <2>1, ToldFrame DEF Due, Doing
  <2>3. SameHandled
    BY <2>2 DEF SameHandled, Handled
  <2>4. DueBefore
    BY <2>2 DEF DueBefore, PipeInv
  <2> QED BY <2>1, <2>3, <2>4, PipeSame
<1>3. CASE Abort \/ Finally
  <2>1. UNCHANGED <<world, queue, reached, trace>> /\ workers' = Cancelled
        /\ (pc = "finally" \/ Head(agenda).do = "abort") /\ pc' # "go"
    BY <1>3 DEF Abort, Finally, ledger, Goes, Doing
  <2>2. NothingDue /\ NothingDue'
    BY <2>1, NothingIsDue
  <2> QED BY <2>1, <2>2, QuietFrame, CancelledIs, PipeSame
<1>4. CASE Launch
  <2>1. UNCHANGED <<world, queue, reached, trace>> /\ agenda' = <<>> /\ Head(agenda).do = "launch"
    BY <1>4 DEF Launch, ledger, Goes, Doing
  <2>2. NothingDue /\ NothingDue'
    BY <2>1, NothingIsDue
  <2>3. \A w \in Workers : \A k : ~AtKey(w, k)' /\ \A kind : ~Front(w, kind, k)'
    BY <1>4, LaunchTypes DEF AtKey, Front
  <2> QED BY <2>1, <2>2, <2>3, QuietFrame, PipeFrame
<1> QED BY <1>1, <1>2, <1>3, <1>4

LEMMA PipeOfPersist ==
  ASSUME TypesInv, AgendaInv, TraceInv, PipeInv, Persist \/ Taken
  PROVE  PipeInv'
<1>1. CASE Persist
  <2>1. /\ Doing("emit") /\ pc' = "yield" /\ UNCHANGED <<world, queue, reached, workers>>
        /\ Appends(Head(agenda).name, Head(agenda).key)
    BY <1>1 DEF Persist, Goes, Event, Appends
  <2>2. PICK n, k : n = Head(agenda).name /\ k = Head(agenda).key
    OBVIOUS
  <2>3. \A names, j : Due(names, j) <=> n \in names /\ k = j
    BY <2>1, <2>2 DEF Due
  <2>4. \A names, j : ~Due(names, j)'
    BY <2>1 DEF Due, Doing
  <2>5. \A names, j : Told(names, j)' <=> Told(names, j) \/ (n \in names /\ k = j)
    BY <2>1, <2>2, ToldAppend
  <2>6. SameHandled /\ DueBefore
    BY <2>3, <2>4, <2>5 DEF SameHandled, DueBefore, Handled
  <2> QED BY <2>1, <2>6, PipeSame
<1>2. CASE Taken
  <2>1. /\ pc = "yield" /\ pc' = "go" /\ agenda' = agenda
        /\ UNCHANGED <<world, queue, reached, workers, trace>>
    BY <1>2 DEF Taken, Goes
  <2>2. \/ agenda \in {<<Do("plan")>>, <<Do("launch")>>, <<Do("finish")>>, <<Do("raise")>>, Aborting}
        \/ agenda = <<>>
        \/ \E k \in Keys : agenda = <<Emit("tool.fallback", k)>>
    BY <2>1 DEF AgendaInv, OneEvent
  <2>3. \/ agenda = <<>> \/ Head(agenda).do # "emit" \/ Head(agenda).name = "tool.fallback"
    BY <2>2, StepIs, Heads DEF Aborting
  <2>4. \A names \in {{"tool.start"}, Enders, {"tool.end"}, {"tool.error"}} : \A k :
           ~Due(names, k) /\ ~Due(names, k)'
    BY <2>1, <2>3 DEF Due, Doing, Enders
  <2>5. \A names, j : Told(names, j)' <=> Told(names, j)
    BY <2>1, ToldFrame
  <2>6. \A k \in Keys : /\ ~Due({"tool.start"}, k) /\ ~Due({"tool.start"}, k)'
                        /\ ~Due(Enders, k) /\ ~Due(Enders, k)'
                        /\ ~Due({"tool.end"}, k) /\ ~Due({"tool.end"}, k)'
                        /\ ~Due({"tool.error"}, k) /\ ~Due({"tool.error"}, k)'
    BY <2>4
  <2>7. SameHandled /\ DueBefore
    BY <2>5, <2>6 DEF SameHandled, DueBefore, Handled
  <2> QED BY <2>1, <2>7, PipeSame
<1> QED BY <1>1, <1>2


\* The first item is off the queue, and what it says is told or due.
Shifted(x) ==
    \A k \in Keys :
       /\ Handled({"tool.start"}, k)' <=>
             Handled({"tool.start"}, k) \/ (x.kind = "start" /\ x.key = k)
       /\ Handled(Enders, k)' <=> Handled(Enders, k) \/ (x.kind \in Closers /\ x.key = k)
       /\ Handled({"tool.end"}, k)' <=> Handled({"tool.end"}, k) \/ (x.kind \in Values /\ x.key = k)

LEMMA ShiftQueued ==
  ASSUME TypesInv, queue # <<>>, queue' = Tail(queue), NEW q \in 0 .. Len(queue'), NEW kinds, NEW k
  PROVE  Queued(q + 1, kinds, k) <=>
            (queue[1].kind \in kinds /\ queue[1].key = k) \/ Queued(q, kinds, k)'
<1>1. /\ Len(queue) \in Nat /\ Len(queue) >= 1 /\ Len(queue') = Len(queue) - 1
      /\ \A p \in 1 .. Len(queue') : p + 1 \in 1 .. Len(queue) /\ queue'[p] = queue[p + 1]
  BY TakenOff
<1>2. ASSUME Queued(q + 1, kinds, k)
      PROVE  (queue[1].kind \in kinds /\ queue[1].key = k) \/ Queued(q, kinds, k)'
  <2>1. PICK p \in 1 .. q + 1 : queue[p].kind \in kinds /\ queue[p].key = k
    BY <1>2 DEF Queued
  <2>2. CASE p = 1
    BY <2>1, <2>2
  <2>3. CASE p # 1
    <3>1. p - 1 \in 1 .. q /\ p - 1 \in 1 .. Len(queue') /\ (p - 1) + 1 = p
      BY <1>1, <2>1, <2>3
    <3>2. queue'[p - 1] = queue[p]
      BY <1>1, <3>1
    <3> QED BY <2>1, <3>1, <3>2 DEF Queued
  <2> QED BY <2>2, <2>3
<1>3. ASSUME Queued(q, kinds, k)' PROVE Queued(q + 1, kinds, k)
  <2>1. PICK p \in 1 .. q : queue'[p].kind \in kinds /\ queue'[p].key = k
    BY <1>3 DEF Queued
  <2>2. p + 1 \in 1 .. q + 1 /\ queue'[p] = queue[p + 1]
    BY <1>1, <2>1
  <2> QED BY <2>1, <2>2 DEF Queued
<1>4. ASSUME queue[1].kind \in kinds, queue[1].key = k PROVE Queued(q + 1, kinds, k)
  <2>1. 1 \in 1 .. q + 1
    BY <1>1
  <2> QED BY <1>4, <2>1 DEF Queued
<1> QED BY <1>2, <1>3, <1>4

LEMMA ShiftPlaces ==
  ASSUME TypesInv, queue # <<>>, queue' = Tail(queue), Shifted(queue[1]),
         NEW q \in 0 .. Len(queue'), NEW k \in Keys
  PROVE  /\ Opened(q, k)' <=> Opened(q + 1, k)
         /\ Settled(q, k)' <=> Settled(q + 1, k)
         /\ Won(q, k)' <=> Won(q + 1, k)
BY ShiftQueued DEF Shifted, Opened, Settled, Won

\* Nothing is ahead of the first place of the queue but the trace.
LEMMA FirstPlace ==
  \A k : /\ Opened(0, k) <=> Handled({"tool.start"}, k)
         /\ Settled(0, k) <=> Handled(Enders, k)
         /\ Won(0, k) <=> Handled({"tool.end"}, k)
BY DEF Opened, Settled, Won, Queued

LEMMA PipeShift ==
  ASSUME TypesInv, PipeInv, UNCHANGED <<world, workers, reached>>,
         queue # <<>>, queue' = Tail(queue), Shifted(queue[1]),
         \A k \in Keys :
            /\ Due({"tool.start"}, k)' => queue[1].kind = "start" /\ queue[1].key = k
            /\ Due(Enders, k)' => queue[1].kind \in Closers /\ queue[1].key = k
            /\ Due({"tool.end"}, k)' => queue[1].kind \in Values /\ queue[1].key = k
            /\ Due({"tool.error"}, k)' => queue[1].kind \in {"unavailable", "error"} /\ queue[1].key = k
            /\ \/ Told({"tool.start"}, k)' => Handled({"tool.start"}, k)
               \/ ~Due({"tool.start"}, k)'
            /\ \/ Told(Enders, k)' => Handled(Enders, k)
               \/ ~Due(Enders, k)'
  PROVE  PipeInv'
<1>1. /\ Keys' = Keys /\ Calls' = Calls /\ world \in World
      /\ Len(queue) \in Nat /\ Len(queue) >= 1 /\ Len(queue') = Len(queue) - 1
      /\ queue[1] \in ItemType
      /\ \A p \in 1 .. Len(queue') : p + 1 \in 1 .. Len(queue) /\ queue'[p] = queue[p + 1]
  BY CallsStay, TakenOff DEF TypesInv, BaseOK
<1>2. PICK x, k0, kd : x = queue[1] /\ k0 = x.key /\ kd = x.kind
  OBVIOUS
<1>3. k0 \in Keys /\ kd \in Kinds /\ k0[1] \in Calls /\ k0[2] \in 1 .. 2 /\ k0 = <<k0[1], k0[2]>>
  <2>1. k0 \in Keys /\ kd \in Kinds
    BY <1>1, <1>2 DEF ItemType
  <2> QED BY <1>1, <2>1, WorldFacts
<1>4. Fits(kd, k0, 0) /\ ItemTrue(kd, k0)
  <2>1. InQueue(1, kd, k0) /\ 1 \in 1 .. Len(queue) /\ 1 - 1 = 0
    BY <1>1, <1>2 DEF InQueue
  <2> QED BY <1>3, <2>1 DEF PipeInv
<1>5. /\ \A d \in 1 .. 2 : ~Handled({"tool.end"}, <<k0[1], d>>)
      /\ kd = "start" =>
          \A d \in 1 .. 2 :
             /\ d < k0[2] /\ Handled({"tool.start"}, <<k0[1], d>>) => Handled(Enders, <<k0[1], d>>)
             /\ d >= k0[2] => ~Handled({"tool.start"}, <<k0[1], d>>)
      /\ kd \in Closers =>
          /\ Handled({"tool.start"}, k0) /\ ~Handled(Enders, k0)
          /\ \A d \in 1 .. 2 : d > k0[2] => ~Handled({"tool.start"}, <<k0[1], d>>)
  BY <1>4, FirstPlace DEF Fits
<1>6. \A k \in Keys :
         /\ Handled({"tool.start"}, k)' <=> Handled({"tool.start"}, k) \/ (kd = "start" /\ k0 = k)
         /\ Handled(Enders, k)' <=> Handled(Enders, k) \/ (kd \in Closers /\ k0 = k)
         /\ Handled({"tool.end"}, k)' <=> Handled({"tool.end"}, k) \/ (kd \in Values /\ k0 = k)
  BY <1>2 DEF Shifted
<1>7. Values \subseteq Closers /\ "start" \notin Closers
  BY DEF Values, Closers
<1>8. ASSUME NEW k \in Keys
      PROVE  /\ Handled(Enders, k)' => Handled({"tool.start"}, k)'
             /\ Due({"tool.start"}, k)' => ~Told({"tool.start"}, k)'
             /\ Due(Enders, k)' => ~Told(Enders, k)'
             /\ Due({"tool.end"}, k)' => reached[k] = "value"
             /\ Due({"tool.error"}, k)' => reached[k] # "value"
  <2>1. Handled(Enders, k) => Handled({"tool.start"}, k)
    BY DEF PipeInv
  <2>2. kd = "start" /\ k0 = k => ~Handled({"tool.start"}, k)
    BY <1>3, <1>5
  <2>3. kd \in Closers /\ k0 = k => Handled({"tool.start"}, k) /\ ~Handled(Enders, k)
    BY <1>5
  <2>4. /\ Due({"tool.start"}, k)' => kd = "start" /\ k0 = k
        /\ Due(Enders, k)' => kd \in Closers /\ k0 = k
        /\ Due({"tool.end"}, k)' => kd \in Values /\ k0 = k
        /\ Due({"tool.error"}, k)' => kd \in {"unavailable", "error"} /\ k0 = k
    BY <1>2
  <2> QED BY <1>4, <1>6, <2>1, <2>2, <2>3, <2>4 DEF ItemTrue
<1>9. ASSUME NEW i \in Calls
      PROVE  Handled({"tool.start"}, <<i, 1>>)' /\ Handled({"tool.start"}, <<i, 2>>)'
                => Handled(Enders, <<i, 1>>)'
  <2>1. PICK k1, k2 : k1 = <<i, 1>> /\ k2 = <<i, 2>>
    OBVIOUS
  <2>2. k1 \in Keys /\ k2 \in Keys
    BY <1>1, <2>1, KeyOf
  <2>3. Handled({"tool.start"}, k1) /\ Handled({"tool.start"}, k2) => Handled(Enders, k1)
    BY <2>1 DEF PipeInv
  <2>4. kd = "start" /\ k0 = k1 => ~Handled({"tool.start"}, k2) /\ k0 # k2
    BY <1>3, <1>5, <2>1
  <2>5. kd = "start" /\ k0 = k2 /\ Handled({"tool.start"}, k1) => Handled(Enders, k1)
    BY <1>3, <1>5, <2>1
  <2>6. Handled({"tool.start"}, k1)' /\ Handled({"tool.start"}, k2)' => Handled(Enders, k1)'
    BY <1>6, <2>2, <2>3, <2>4, <2>5
  <2> QED BY <2>1, <2>6
<1>10. ASSUME NEW i \in Calls, NEW c \in 1 .. 2, NEW d \in 1 .. 2
       PROVE  Handled({"tool.end"}, <<i, c>>)' /\ Handled({"tool.start"}, <<i, d>>)'
                   => Handled(Enders, <<i, d>>)'
  <2>1. PICK kc, kz : kc = <<i, c>> /\ kz = <<i, d>>
    OBVIOUS
  <2>2. kc \in Keys /\ kz \in Keys
    BY <1>1, <2>1, KeyOf
  <2>3. Handled({"tool.end"}, kc) /\ Handled({"tool.start"}, kz) => Handled(Enders, kz)
    BY <2>1 DEF PipeInv
  <2>4. kd = "start" /\ k0 = kz => ~Handled({"tool.end"}, kc) /\ kd \notin Values
    BY <1>5, <1>7, <2>1
  <2>5. kd \in Values /\ k0 = kc /\ Handled({"tool.start"}, kz) =>
           Handled(Enders, kz) \/ (kd \in Closers /\ k0 = kz)
    <3>1. SUFFICES ASSUME kd \in Values, k0 = kc, Handled({"tool.start"}, kz)
                   PROVE  Handled(Enders, kz) \/ (kd \in Closers /\ k0 = kz)
      OBVIOUS
    <3>2. k0[1] = i /\ k0[2] = c /\ kd \in Closers /\ Handled({"tool.start"}, kc)
      BY <1>5, <1>7, <2>1, <3>1
    <3>3. CASE d = c
      BY <2>1, <3>1, <3>2, <3>3
    <3>4. CASE d > c
      BY <1>5, <2>1, <3>1, <3>2, <3>4
    <3>5. CASE d < c
      <4>1. d = 1 /\ c = 2
        BY <3>5
      <4>2. Handled({"tool.start"}, <<i, 1>>) /\ Handled({"tool.start"}, <<i, 2>>)
               => Handled(Enders, <<i, 1>>)
        BY DEF PipeInv
      <4>3. kz = <<i, 1>> /\ kc = <<i, 2>>
        BY <2>1, <4>1
      <4>4. Handled({"tool.start"}, <<i, 1>>)
        BY <3>1, <4>3
      <4>5. Handled({"tool.start"}, <<i, 2>>)
        BY <3>2, <4>3
      <4>6. Handled(Enders, <<i, 1>>)
        BY <4>2, <4>4, <4>5
      <4> QED BY <4>3, <4>6
    <3> QED BY <3>3, <3>4, <3>5
  <2>6. Handled({"tool.end"}, kc)' /\ Handled({"tool.start"}, kz)' => Handled(Enders, kz)'
    BY <1>6, <1>7, <2>2, <2>3, <2>4, <2>5
  <2> QED BY <2>1, <2>6
<1>11. ASSUME NEW k \in Keys, NEW q \in 0 .. Len(queue')
       PROVE  /\ Opened(q, k)' <=> Opened(q + 1, k)
              /\ Settled(q, k)' <=> Settled(q + 1, k)
              /\ Won(q, k)' <=> Won(q + 1, k)
  BY ShiftPlaces
<1>12. \A k \in Keys, d \in 1 .. 2 : <<k[1], d>> \in Keys
  BY <1>1, WorldFacts
<1>13. ASSUME NEW k \in Keys, NEW q \in 0 .. Len(queue')
       PROVE  \A kind : Fits(kind, k, q)' <=> Fits(kind, k, q + 1)
  <2>1. q \in Int /\ q + 1 \in Int
    BY <1>1
  <2> QED BY <1>1, <1>11, <1>12, <2>1, SameFits
<1>14. \A kind, k : ItemTrue(kind, k)' <=> ItemTrue(kind, k)
  BY DEF ItemTrue
<1>15. ASSUME NEW kind \in Kinds, NEW k \in Keys, NEW p \in 1 .. Len(queue'), InQueue(p, kind, k)'
       PROVE  Fits(kind, k, p - 1)' /\ ItemTrue(kind, k)'
  <2>1. PICK r : r = p + 1
    OBVIOUS
  <2>2. r \in 1 .. Len(queue) /\ r - 1 = p /\ p - 1 \in 0 .. Len(queue') /\ (p - 1) + 1 = p
    BY <1>1, <2>1
  <2>3. InQueue(r, kind, k)
    BY <1>1, <1>15, <2>1, <2>2 DEF InQueue
  <2>4. Fits(kind, k, p) /\ ItemTrue(kind, k)
    BY <2>2, <2>3 DEF PipeInv
  <2> QED BY <1>13, <1>14, <2>2, <2>4
<1>16. ASSUME NEW n \in 0 .. Len(queue'), n = Len(queue'), NEW w \in Workers, NEW k \in Keys
       PROVE  /\ AtKey(w, k)' => WorkerFits(w, k, n)'
              /\ \A kind \in Kinds : Front(w, kind, k)' => Fits(kind, k, n)' /\ ItemTrue(kind, k)'
  <2>1. PICK m : m = n + 1
    OBVIOUS
  <2>2. m \in 0 .. Len(queue) /\ m = Len(queue) /\ m \in Int /\ n \in Int
    BY <1>1, <1>16, <2>1
  <2>3. \A v, j, kind : (AtKey(v, j)' <=> AtKey(v, j)) /\ (Front(v, kind, j)' <=> Front(v, kind, j))
    BY DEF AtKey, Front
  <2>4. AtKey(w, k) => WorkerFits(w, k, m)
    BY <2>2 DEF PipeInv
  <2>5. AtKey(w, k) => WorkerFits(w, k, n)'
    <3>1. Started(w)' <=> Started(w)
      BY DEF Started
    <3>2. \A d \in 1 .. 2 : LET j == <<k[1], d>> IN
            /\ Opened(n, j)' <=> Opened(m, j)
            /\ Settled(n, j)' <=> Settled(m, j)
            /\ Won(n, j)' <=> Won(m, j)
      BY <1>11, <1>12, <2>1
    <3> QED BY <1>1, <2>2, <2>3, <2>4, <3>1, <3>2, SameWorkerFits
  <2>6. \A kind \in Kinds : Front(w, kind, k) => Fits(kind, k, m) /\ ItemTrue(kind, k)
    BY <2>2 DEF PipeInv
  <2> QED BY <1>13, <1>14, <2>1, <2>3, <2>5, <2>6
<1>17. \A k \in Keys, n \in 0 .. Len(queue') : n = Len(queue') /\ reached[k] # "no" => Opened(n, k)'
  <2>1. ASSUME NEW k \in Keys, NEW n \in 0 .. Len(queue'), n = Len(queue'), reached[k] # "no"
        PROVE  Opened(n, k)'
    <3>1. PICK m : m = n + 1
      OBVIOUS
    <3>2. m \in 0 .. Len(queue) /\ m = Len(queue)
      BY <1>1, <2>1, <3>1
    <3>3. Opened(m, k)
      BY <2>1, <3>2 DEF PipeInv
    <3> QED BY <1>11, <3>1, <3>3
  <2> QED BY <2>1
<1>18. reached' = reached
  OBVIOUS
<1> HIDE DEF Shifted
<1> QED BY <1>1, <1>8, <1>9, <1>10, <1>15, <1>16, <1>17, <1>18 DEF PipeInv


LEMMA ShiftOfGet ==
  ASSUME TypesInv, AgendaInv, LedgerInv, PipeInv, Get, Events
  PROVE  /\ Shifted(queue[1])
         /\ \A k \in Keys :
            /\ Due({"tool.start"}, k)' => queue[1].kind = "start" /\ queue[1].key = k
            /\ Due(Enders, k)' => queue[1].kind \in Closers /\ queue[1].key = k
            /\ Due({"tool.end"}, k)' => queue[1].kind \in Values /\ queue[1].key = k
            /\ Due({"tool.error"}, k)' => queue[1].kind \in {"unavailable", "error"} /\ queue[1].key = k
            /\ Told({"tool.start"}, k)' => Handled({"tool.start"}, k)
            /\ Told(Enders, k)' => Handled(Enders, k)
<1>1. /\ pc = "go" /\ agenda = <<>> /\ queue # <<>> /\ queue' = Tail(queue)
      /\ pc' = "go" /\ agenda' = Handling(Head(queue)) /\ UNCHANGED <<started, trace, world>>
  BY DEF Get, Goes, ledger
<1>2. PICK x, k0, kd : x = queue[1] /\ k0 = x.key /\ kd = x.kind
  OBVIOUS
<1>3. /\ x = Head(queue) /\ x \in ItemType /\ k0 \in Keys /\ kd \in Kinds
      /\ Len(queue) \in Nat /\ Len(queue) >= 1
  BY <1>1, <1>2, TakenOff DEF ItemType
<1>4. kd = "error" => k0 \in started
  <2>1. SUFFICES ASSUME kd = "error" PROVE k0 \in started
    OBVIOUS
  <2>2. InQueue(1, kd, k0) /\ 1 \in 1 .. Len(queue) /\ 1 - 1 = 0
    BY <1>2, <1>3 DEF InQueue
  <2>3. Fits(kd, k0, 0)
    BY <1>3, <2>2 DEF PipeInv
  <2>4. Handled({"tool.start"}, k0)
    BY <2>1, <2>3, FirstPlace DEF Fits, Closers
  <2>5. Told({"tool.start"}, k0)
    BY <1>1, <2>4 DEF Handled, Due, Doing
  <2> QED BY <1>1, <1>3, <2>5 DEF LedgerInv, Booked
<1>5. PICK h, n : h = agenda' /\ n = Head(h).name
  OBVIOUS
<1>6. \/ kd \in {"preflight", "cooldown"} /\ (Head(h).do # "emit" \/ n = "tool.fallback") /\ h # <<>>
      \/ h # <<>> /\ Head(h).do = "emit" /\ Head(h).key = k0
         /\ \/ kd = "start" /\ n = "tool.start"
            \/ kd \in Values /\ n = "tool.end"
            \/ kd \in {"unavailable", "error"} /\ n = "tool.error"
  <2>0. Head(queue).key = k0 /\ Head(queue).kind = kd
    BY <1>2, <1>3
  <2>1. /\ kd = "preflight" => h = Aborting
        /\ kd = "cooldown" => h = <<Emit("tool.fallback", k0)>>
        /\ kd = "start" => h = <<Emit("tool.start", k0)>>
        /\ kd = "end" => h = <<Emit("tool.end", k0)>>
        /\ kd = "post" => h = Ending("tool.end", k0)
        /\ kd = "unavailable" => h = <<Emit("tool.error", k0), Emit("tool.fallback", k0)>>
                                 \/ h = Ending("tool.error", k0)
        /\ kd = "error" => h = Ending("tool.error", k0)
    BY <1>1, <1>4, <1>5, <2>0, HandlingIs
  <2>2. /\ Head(Aborting).do = "abort" /\ Aborting # <<>>
        /\ \A m : Head(<<Emit(m, k0)>>) = Emit(m, k0) /\ Head(Ending(m, k0)) = Emit(m, k0)
                  /\ <<Emit(m, k0)>> # <<>> /\ Ending(m, k0) # <<>>
        /\ \A m, l : Head(<<Emit(m, k0), Emit(l, k0)>>) = Emit(m, k0)
                     /\ <<Emit(m, k0), Emit(l, k0)>> # <<>>
    BY StepIs, Heads, Lists DEF Aborting, Ending
  <2>3. "abort" # "emit"
    OBVIOUS
  <2>4. CASE kd \in {"preflight", "cooldown"}
    BY <1>5, <2>1, <2>2, <2>3, <2>4, StepIs
  <2>5. CASE kd = "start"
    BY <1>5, <2>1, <2>2, <2>5, StepIs
  <2>6. CASE kd \in Values
    BY <1>5, <2>1, <2>2, <2>6, StepIs DEF Values
  <2>7. CASE kd \in {"unavailable", "error"}
    BY <1>5, <2>1, <2>2, <2>7, StepIs
  <2> QED BY <1>3, <2>4, <2>5, <2>6, <2>7 DEF Kinds, Closers, Values
<1>7. \A names, k : ~Due(names, k)
  BY <1>1 DEF Due, Doing
<1>8. \A names, k : Told(names, k)' <=> Told(names, k)
  BY <1>1, ToldFrame
<1>9. \A names, k : Due(names, k)' <=> h # <<>> /\ Head(h).do = "emit" /\ n \in names /\ Head(h).key = k
  BY <1>1, <1>5 DEF Due, Doing
<1>10. ASSUME NEW k
       PROVE  /\ Due({"tool.start"}, k)' <=> kd = "start" /\ k0 = k
              /\ Due(Enders, k)' <=> kd \in Closers /\ k0 = k
              /\ Due({"tool.end"}, k)' <=> kd \in Values /\ k0 = k
              /\ Due({"tool.error"}, k)' <=> kd \in {"unavailable", "error"} /\ k0 = k
  BY <1>6, <1>9 DEF Closers, Values, Enders
<1> QED BY <1>2, <1>7, <1>8, <1>10 DEF Shifted, Handled

LEMMA PipeOfGet ==
  ASSUME TypesInv, AgendaInv, LedgerInv, PipeInv, Get, Events
  PROVE  PipeInv'
<1>1. UNCHANGED <<world, workers, reached>> /\ queue # <<>> /\ queue' = Tail(queue)
  BY DEF Get
<1> QED BY <1>1, ShiftOfGet, PipeShift

LEMMA ShiftOfDrain ==
  ASSUME TypesInv, LedgerInv, TraceInv, PipeInv, Drain
  PROVE  Shifted(queue[1])
<1>1. /\ pc = "drain" /\ pc' = "drain" /\ queue # <<>> /\ queue' = Tail(queue) /\ UNCHANGED world
  BY DEF Drain, streamVars
<1>2. PICK x, k0, kd : x = queue[1] /\ k0 = x.key /\ kd = x.kind
  OBVIOUS
<1>3. /\ x = Head(queue) /\ x \in ItemType /\ k0 \in Keys /\ kd \in Kinds
      /\ Len(queue) \in Nat /\ Len(queue) >= 1
      /\ k0[2] \in 1 .. 2 /\ k0 = <<k0[1], k0[2]>>
  <2>1. /\ x = Head(queue) /\ x \in ItemType /\ k0 \in Keys /\ kd \in Kinds
        /\ Len(queue) \in Nat /\ Len(queue) >= 1
    BY <1>1, <1>2, TakenOff DEF ItemType
  <2> QED BY <2>1, WorldFacts DEF TypesInv, BaseOK
<1>4. \A names, k : ~Due(names, k) /\ ~Due(names, k)'
  BY <1>1 DEF Due, Doing
<1>5. Fits(kd, k0, 0)
  <2>1. InQueue(1, kd, k0) /\ 1 \in 1 .. Len(queue) /\ 1 - 1 = 0
    BY <1>2, <1>3 DEF InQueue
  <2> QED BY <1>3, <2>1 DEF PipeInv
<1>6. /\ kd = "start" => ~Told({"tool.start"}, k0)
      /\ kd \in Closers => Told({"tool.start"}, k0) /\ ~Told(Enders, k0)
  BY <1>3, <1>4, <1>5, FirstPlace DEF Fits, Handled
<1>7. /\ kd = "start" => k0 \notin started
      /\ kd \in Closers => k0 \in started \ closed
  BY <1>1, <1>3, <1>6 DEF LedgerInv, Booked
<1>8. CASE kd \in {"preflight", "cooldown"}
  <2>1. LeftOver(x) = {}
    BY <1>2, <1>8 DEF LeftOver
  <2>2. UNCHANGED trace
    BY <1>3, <2>1 DEF Drain
  <2>3. \A names, k : Told(names, k)' <=> Told(names, k)
    BY <2>2, ToldFrame
  <2> QED BY <1>2, <1>4, <1>8, <2>3 DEF Shifted, Handled, Closers, Values
<1>9. ASSUME NEW n, LeftOver(x) = {n},
             \/ kd = "start" /\ n = "tool.start"
             \/ kd \in Values /\ n = "tool.end"
             \/ kd \in {"unavailable", "error"} /\ n = "tool.error"
      PROVE  Shifted(queue[1])
  <2>1. trace' = Append(trace, Event(n, k0))
    <3>1. LeftOver(x) # {}
      BY <1>9
    <3>2. \E name \in LeftOver(x) : trace' = Append(trace, Event(name, x.key))
      BY <1>3, <3>1 DEF Drain
    <3> QED BY <1>2, <1>9, <3>2
  <2>2. Appends(n, k0)
    BY <2>1 DEF Appends, Event
  <2>3. \A names, k : Told(names, k)' <=> Told(names, k) \/ (n \in names /\ k0 = k)
    BY <2>2, ToldAppend
  <2>4. \A names, k : Handled(names, k)' <=> Handled(names, k) \/ (n \in names /\ k0 = k)
    BY <1>4, <2>3 DEF Handled
  <2>5. /\ n \in {"tool.start"} <=> kd = "start"
        /\ n \in Enders <=> kd \in Closers
        /\ n \in {"tool.end"} <=> kd \in Values
    BY <1>9 DEF Enders, Closers, Values
  <2> QED BY <1>2, <2>4, <2>5 DEF Shifted
<1>10. CASE kd = "start"
  <2>1. LeftOver(x) = {"tool.start"}
    BY <1>2, <1>7, <1>10 DEF LeftOver
  <2> QED BY <1>9, <1>10, <2>1
<1>11. CASE kd \in Values
  <2>1. LeftOver(x) = {"tool.end"}
    BY <1>2, <1>7, <1>11 DEF LeftOver, Values, Closers
  <2> QED BY <1>9, <1>11, <2>1
<1>12. CASE kd \in {"unavailable", "error"}
  <2>1. LeftOver(x) = {"tool.error"}
    BY <1>2, <1>7, <1>12 DEF LeftOver, Closers
  <2> QED BY <1>9, <1>12, <2>1
<1> QED BY <1>3, <1>8, <1>10, <1>11, <1>12 DEF Kinds, Closers, Values

LEMMA PipeOfDrain ==
  ASSUME TypesInv, LedgerInv, TraceInv, PipeInv, Drain
  PROVE  PipeInv'
<1>1. /\ UNCHANGED <<world, workers, reached>> /\ queue # <<>> /\ queue' = Tail(queue)
      /\ pc' = "drain"
  BY DEF Drain, streamVars
<1>2. \A names, k : ~Due(names, k)'
  BY <1>1 DEF Due, Doing
<1> QED BY <1>1, <1>2, ShiftOfDrain, PipeShift

\* Nobody is at work and the queue is empty: the open ones are declared closed.
LEMMA PipeOfIndeterminate ==
  ASSUME TypesInv, LedgerInv, TraceInv, PipeInv, AllGone, Indeterminate
  PROVE  PipeInv'
<1>1. /\ pc = "drain" /\ pc' = "drain" /\ queue = <<>>
      /\ UNCHANGED <<world, workers, queue, reached>>
  BY DEF Indeterminate, streamVars
<1>2. PICK k0 \in started \ closed : trace' = Append(trace, Event("indeterminate", k0))
  BY DEF Indeterminate
<1>3. PICK n : n = "indeterminate"
  OBVIOUS
<1>4. Appends(n, k0)
  BY <1>2, <1>3 DEF Appends, Event
<1>5. \A names, k : Told(names, k)' <=> Told(names, k) \/ (n \in names /\ k0 = k)
  BY <1>4, ToldAppend
<1>6. \A names, k : ~Due(names, k) /\ ~Due(names, k)'
  BY <1>1 DEF Due, Doing
<1>7. Keys' = Keys /\ Calls' = Calls /\ world \in World
  BY <1>1, CallsStay DEF TypesInv, BaseOK
<1>8. \A k \in Keys : /\ Handled({"tool.start"}, k)' <=> Handled({"tool.start"}, k)
                      /\ Handled({"tool.end"}, k)' <=> Handled({"tool.end"}, k)
                      /\ Handled(Enders, k)' <=> Handled(Enders, k) \/ k0 = k
  BY <1>3, <1>5, <1>6 DEF Handled, Enders
<1>9. Handled({"tool.start"}, k0)
  <2>1. k0 \in Keys /\ Told({"tool.start"}, k0)
    BY <1>1 DEF LedgerInv, Booked
  <2> QED BY <2>1 DEF Handled
<1>10. Len(queue) = 0 /\ \A q, kinds, k : Queued(q, kinds, k)' <=> Queued(q, kinds, k)
  BY <1>1 DEF Queued
<1>11. \A w \in Workers : \A kind, k : ~AtKey(w, k)' /\ ~Front(w, kind, k)'
  BY <1>1 DEF AllGone, Gone, AtKey, Front, TypesInv, WorkersOK, WorkerOK
<1>12. \A k \in Keys :
          /\ Handled(Enders, k)' => Handled({"tool.start"}, k)'
          /\ \A m \in 0 .. Len(queue) : m = Len(queue) /\ reached'[k] # "no" => Opened(m, k)'
  <2>1. \A k \in Keys : Handled(Enders, k) => Handled({"tool.start"}, k)
    BY DEF PipeInv
  <2>2. \A k \in Keys, m \in 0 .. Len(queue) : m = Len(queue) /\ reached[k] # "no" => Opened(m, k)
    BY DEF PipeInv
  <2> QED BY <1>1, <1>8, <1>9, <1>10, <2>1, <2>2 DEF Opened
<1>13. \A i \in Calls :
          /\ Handled({"tool.start"}, <<i, 1>>)' /\ Handled({"tool.start"}, <<i, 2>>)'
                => Handled(Enders, <<i, 1>>)'
          /\ \A c, d \in 1 .. 2 :
                Handled({"tool.end"}, <<i, c>>)' /\ Handled({"tool.start"}, <<i, d>>)'
                   => Handled(Enders, <<i, d>>)'
  <2>1. \A i \in Calls, d \in 1 .. 2 : <<i, d>> \in Keys
    BY <1>7, WorldFacts
  <2>2. 1 \in 1 .. 2 /\ 2 \in 1 .. 2
    OBVIOUS
  <2> QED BY <1>8, <2>1, <2>2, Zenon DEF PipeInv
<1>14. Len(queue') = 0 /\ 1 .. 0 = {}
  BY <1>1
<1> QED BY <1>1, <1>6, <1>7, <1>11, <1>12, <1>13, <1>14 DEF PipeInv


\* A worker moved and put nothing in the queue.
LEMMA PipeWorker ==
  ASSUME TypesInv, PipeInv, NEW w \in Workers, UNCHANGED <<world, streamVars, queue, trace>>,
         \A v \in Workers \ {w} : workers'[v] = workers[v],
         \A k \in Keys : \/ reached'[k] = reached[k]
                         \/ /\ AtKey(w, k) /\ Started(w)
                            /\ \/ reached[k] = "no" /\ reached'[k] = "yes"
                               \/ reached'[k] = "value",
         \A n \in 0 .. Len(queue), k \in Keys : n = Len(queue) =>
            /\ AtKey(w, k)' => WorkerFits(w, k, n)'
            /\ \A kind \in Kinds : Front(w, kind, k)' => Fits(kind, k, n)' /\ ItemTrue(kind, k)'
  PROVE  PipeInv'
<1>1. Keys' = Keys /\ Calls' = Calls /\ Len(queue) \in Nat /\ world \in World
  BY CallsStay DEF TypesInv, QueueOK, BaseOK
<1>2. \A names, j : /\ Told(names, j)' <=> Told(names, j)
                    /\ Due(names, j)' <=> Due(names, j)
                    /\ Handled(names, j)' <=> Handled(names, j)
  BY ToldFrame DEF Due, Doing, Handled, streamVars
<1>3. SameHandled
  BY <1>2 DEF SameHandled
<1>4. \A k \in Keys, q \in Int : /\ Opened(q, k)' <=> Opened(q, k)
                                 /\ Settled(q, k)' <=> Settled(q, k)
                                 /\ Won(q, k)' <=> Won(q, k)
  BY <1>3, SamePlaces
<1>5. \A k \in Keys, d \in 1 .. 2 : <<k[1], d>> \in Keys
  BY <1>1, WorldFacts
<1>6. \A k \in Keys, q \in Int : \A kind : Fits(kind, k, q)' <=> Fits(kind, k, q)
  BY <1>1, <1>4, <1>5, SameFits
<1>7. PICK m : m = Len(queue)
  OBVIOUS
<1>8. m \in Nat /\ m \in 0 .. Len(queue) /\ m \in 0 .. m
  BY <1>1, <1>7
<1>9. ASSUME NEW k \in Keys, reached'[k] # reached[k]
      PROVE  /\ AtKey(w, k) /\ Opened(m, k) /\ ~Settled(m, k)
             /\ \/ reached[k] = "no" /\ reached'[k] = "yes"
                \/ reached'[k] = "value"
  <2>1. AtKey(w, k) /\ Started(w)
    BY <1>9
  <2>2. WorkerFits(w, k, m)
    BY <1>7, <1>8, <2>1 DEF PipeInv
  <2>3. k[2] \in 1 .. 2
    BY <1>1, WorldFacts
  <2> QED BY <1>9, <2>1, <2>2, <2>3 DEF WorkerFits
<1>10. ASSUME NEW k \in Keys
       PROVE  /\ Due({"tool.end"}, k) => reached'[k] = "value"
              /\ Due({"tool.error"}, k) => reached'[k] # "value"
              /\ reached'[k] # "no" => Opened(m, k)
  <2>1. /\ Due({"tool.end"}, k) => reached[k] = "value"
        /\ Due({"tool.error"}, k) => reached[k] # "value"
        /\ reached[k] # "no" => Opened(m, k)
    BY <1>7, <1>8 DEF PipeInv
  <2>2. CASE reached'[k] = reached[k]
    BY <2>1, <2>2
  <2>3. CASE reached'[k] # reached[k]
    <3>1. Due({"tool.error"}, k) => Settled(m, k)
      BY DEF Due, Settled, Handled, Enders
    <3> QED BY <1>9, <2>1, <2>3, <3>1
  <2> QED BY <2>2, <2>3
<1>11. ASSUME NEW kind \in Kinds, NEW k \in Keys, NEW p \in 1 .. Len(queue), InQueue(p, kind, k)
       PROVE  ItemTrue(kind, k)'
  <2>1. ItemTrue(kind, k)
    BY <1>11 DEF PipeInv
  <2>2. CASE reached'[k] = reached[k]
    BY <2>1, <2>2 DEF ItemTrue
  <2>3. CASE reached'[k] # reached[k]
    <3>1. kind \in {"unavailable", "error"} => Settled(m, k)
      <4>1. p \in 1 .. m
        BY <1>7
      <4> QED BY <1>11, <4>1 DEF Settled, Queued, InQueue, Closers
    <3> QED BY <1>9, <2>1, <2>3, <3>1 DEF ItemTrue
  <2> QED BY <2>2, <2>3
<1>12. ASSUME NEW v \in Workers, v # w, NEW k \in Keys
       PROVE  /\ AtKey(v, k)' => WorkerFits(v, k, m)'
              /\ \A kind \in Kinds : Front(v, kind, k)' => Fits(kind, k, m)' /\ ItemTrue(kind, k)'
  <2>0. workers'[v] = workers[v]
    BY <1>12
  <2>1. /\ AtKey(v, k)' <=> AtKey(v, k)
        /\ Started(v)' <=> Started(v)
        /\ \A kind, j : Front(v, kind, j)' <=> Front(v, kind, j)
    BY <2>0 DEF AtKey, Started, Front
  <2>2. AtKey(v, k) => WorkerFits(v, k, m)'
    <3>1. AtKey(v, k) => WorkerFits(v, k, m)
      BY <1>7, <1>8 DEF PipeInv
    <3>3. m \in Int
      BY <1>8
    <3>4. \A j \in Keys :
            /\ Opened(m, j)' <=> Opened(m, j)
            /\ Settled(m, j)' <=> Settled(m, j)
            /\ Won(m, j)' <=> Won(m, j)
      BY <1>4, <3>3
    <3>2. \A d \in 1 .. 2 : LET j == <<k[1], d>> IN
            /\ Opened(m, j)' <=> Opened(m, j)
            /\ Settled(m, j)' <=> Settled(m, j)
            /\ Won(m, j)' <=> Won(m, j)
      BY <1>5, <3>4
    <3> QED BY <1>1, <2>1, <3>1, <3>2, <3>3, SameWorkerFits
  <2>3. ASSUME NEW kind \in Kinds, Front(v, kind, k) PROVE Fits(kind, k, m)' /\ ItemTrue(kind, k)'
    <3>1. Fits(kind, k, m) /\ ItemTrue(kind, k)
      BY <1>7, <1>8, <2>3 DEF PipeInv
    <3>2. m \in Int
      BY <1>8
    <3>3. reached'[k] = reached[k]
      <4>1. SUFFICES ASSUME reached'[k] # reached[k] PROVE FALSE
        OBVIOUS
      <4>2. AtKey(w, k)
        BY <1>9, <4>1
      <4>3. Owns(v, k[1])
        BY <2>3 DEF Front, Owns
      <4>4. workers[w].at = "call" /\ workers[w].key = k
        BY <4>2 DEF AtKey
      <4>5. v = w
        BY <4>3, <4>4, CallFacts
      <4> QED BY <1>12, <4>5
    <3> QED BY <1>6, <3>1, <3>2, <3>3 DEF ItemTrue
  <2> QED BY <2>1, <2>2, <2>3
<1>13. /\ \A k \in Keys :
             /\ Handled(Enders, k)' => Handled({"tool.start"}, k)'
             /\ Due({"tool.start"}, k)' => ~Told({"tool.start"}, k)'
             /\ Due(Enders, k)' => ~Told(Enders, k)'
       /\ \A i \in Calls :
             /\ Handled({"tool.start"}, <<i, 1>>)' /\ Handled({"tool.start"}, <<i, 2>>)'
                   => Handled(Enders, <<i, 1>>)'
             /\ \A c, d \in 1 .. 2 :
                   Handled({"tool.end"}, <<i, c>>)' /\ Handled({"tool.start"}, <<i, d>>)'
                      => Handled(Enders, <<i, d>>)'
  BY <1>2 DEF PipeInv
<1>14. \A k \in Keys :
             /\ Due({"tool.end"}, k)' => reached'[k] = "value"
             /\ Due({"tool.error"}, k)' => reached'[k] # "value"
             /\ \A n \in 0 .. Len(queue) : n = Len(queue) /\ reached'[k] # "no" => Opened(n, k)'
  BY <1>2, <1>4, <1>7, <1>8, <1>10
<1>15. \A kind \in Kinds, k \in Keys, p \in 1 .. Len(queue) :
          InQueue(p, kind, k)' => Fits(kind, k, p - 1)' /\ ItemTrue(kind, k)'
  <2>1. \A kind, k, p : InQueue(p, kind, k)' <=> InQueue(p, kind, k)
    BY DEF InQueue
  <2>2. \A p \in 1 .. Len(queue) : p - 1 \in Int
    BY <1>1
  <2> QED BY <1>6, <1>11, <2>1, <2>2 DEF PipeInv
<1>16. \A n \in 0 .. Len(queue), v \in Workers, k \in Keys : n = Len(queue) =>
          /\ AtKey(v, k)' => WorkerFits(v, k, n)'
          /\ \A kind \in Kinds : Front(v, kind, k)' => Fits(kind, k, n)' /\ ItemTrue(kind, k)'
  BY <1>7, <1>12
<1>17. queue' = queue
  OBVIOUS
<1> QED BY <1>1, <1>13, <1>14, <1>15, <1>16, <1>17 DEF PipeInv

\* Nothing is known of a call that nobody took yet.
LEMMA FreshPlaces ==
  ASSUME TypesInv, AgendaInv, TraceInv, NEW k \in Keys, k[1] >= next, NEW m, m = Len(queue)
  PROVE  ~Opened(m, k) /\ ~Settled(m, k) /\ ~Won(m, k)
<1>1. {"tool.start"} \in SUBSET ToolNames /\ Enders \in SUBSET ToolNames
      /\ {"tool.end"} \in SUBSET ToolNames
  BY DEF ToolNames, Enders
<1>2. next \in Int /\ k[1] \in Int
  BY WorldFacts DEF TypesInv, BaseOK, Calls
<1>3. \A names \in SUBSET ToolNames : ~Due(names, k)
  <2>1. SUFFICES ASSUME NEW names \in SUBSET ToolNames, Due(names, k) PROVE FALSE
    OBVIOUS
  <2>2. Doing("emit") /\ Head(agenda).name \in ToolNames /\ Head(agenda).key = k
    BY <2>1 DEF Due
  <2>3. k[1] < next
    BY <2>2, DueIs
  <2> QED BY <1>2, <2>3
<1>4. \A kinds : ~Queued(m, kinds, k)
  <2>1. \A p \in 1 .. Len(queue) : queue[p].key[1] < next
    BY DEF TypesInv, QueueOK, ItemIn
  <2> QED BY <1>2, <2>1 DEF Queued
<1> QED BY <1>1, <1>3, <1>4, FreshClear DEF Opened, Settled, Won, Handled


LEMMA PipeOfTakeCall ==
  ASSUME TypesInv, AgendaInv, TraceInv, PipeInv, Events, NEW w \in Workers, TakeCall(w)
  PROVE  PipeInv'
<1>1. /\ UNCHANGED <<world, streamVars, queue, trace, reached>>
      /\ \/ workers' = [workers EXCEPT ![w] = Absent]
         \/ /\ next \in Calls
            /\ \/ \E k \in Keys, l \in {<<>>, << 2 >>} :
                     /\ k[1] = next
                     /\ \/ workers' = [workers EXCEPT ![w] =
                                               AtCall(k, l, <<Item("start", k, TRUE)>>)]
                        \/ workers' = [workers EXCEPT ![w] =
                                    AtCall(k, l, <<Item("cooldown", <<next, 1>>, TRUE),
                                                   Item("start", k, TRUE)>>)]
               \/ workers' = [workers EXCEPT ![w] =
                                    Resting(<<Item("preflight", <<next, 1>>, FALSE)>>)]
  BY TakeCallIs, Zenon DEF ledger
<1>2. DOMAIN workers = Workers /\ next \in Nat /\ Len(queue) \in Nat /\ world \in World
  BY WorldFacts DEF TypesInv, WorkersOK, BaseOK, QueueOK
<1>3. \A v \in Workers \ {w} : workers'[v] = workers[v]
  BY <1>1, <1>2
<1>4. ASSUME NEW n \in 0 .. Len(queue), NEW k \in Keys, n = Len(queue), k[1] = next
      PROVE  /\ \A d \in 1 .. 2 : /\ ~Opened(n, <<k[1], d>>)' /\ ~Settled(n, <<k[1], d>>)'
                                  /\ ~Won(n, <<k[1], d>>)'
             /\ k[2] \in 1 .. 2
  <2>1. \A d \in 1 .. 2 : <<k[1], d>> \in Keys /\ <<k[1], d>>[1] >= next /\ k[2] \in 1 .. 2
    BY <1>2, <1>4, WorldFacts
  <2>2. \A d \in 1 .. 2 : ~Opened(n, <<k[1], d>>) /\ ~Settled(n, <<k[1], d>>) /\ ~Won(n, <<k[1], d>>)
    BY <1>4, <2>1, FreshPlaces
  <2>3. \A names, j : /\ Told(names, j)' <=> Told(names, j)
                      /\ Due(names, j)' <=> Due(names, j)
    BY <1>1, ToldFrame DEF Due, Doing, streamVars
  <2>4. SameHandled
    BY <2>3 DEF SameHandled, Handled
  <2>5. n \in Int
    BY <1>2
  <2>6. \A j \in Keys : /\ Opened(n, j)' <=> Opened(n, j)
                        /\ Settled(n, j)' <=> Settled(n, j)
                        /\ Won(n, j)' <=> Won(n, j)
    BY <1>1, <2>4, <2>5, SamePlaces
  <2> QED BY <2>1, <2>2, <2>6
<1>5. \A kind, n : n \in 0 .. Len(queue) /\ n = Len(queue) /\ kind \notin Closers =>
         \A k \in Keys : k[1] = next => Fits(kind, k, n)'
  BY <1>4 DEF Fits
<1>6. ASSUME NEW k0 \in Keys, NEW l, k0[1] = next, NEW its,
             workers' = [workers EXCEPT ![w] = AtCall(k0, l, its)],
             its # <<>>, \/ its[1] = Item("start", k0, TRUE)
                         \/ its[1] = Item("cooldown", <<next, 1>>, TRUE)
      PROVE  \A n \in 0 .. Len(queue), k \in Keys : n = Len(queue) =>
                /\ AtKey(w, k)' => WorkerFits(w, k, n)'
                /\ \A kind \in Kinds : Front(w, kind, k)' => Fits(kind, k, n)' /\ ItemTrue(kind, k)'
  <2>1. SUFFICES ASSUME NEW n \in 0 .. Len(queue), NEW k \in Keys, n = Len(queue)
                 PROVE  /\ AtKey(w, k)' => WorkerFits(w, k, n)'
                        /\ \A kind \in Kinds : Front(w, kind, k)' => Fits(kind, k, n)' /\ ItemTrue(kind, k)'
    OBVIOUS
  <2>2. workers'[w].at = "call" /\ workers'[w].key = k0 /\ workers'[w].items = its
    BY <1>2, <1>6 DEF AtCall
  <2>3. ~Started(w)'
    BY <1>6, <2>2 DEF Started
  <2>4. AtKey(w, k)' => WorkerFits(w, k, n)'
    <3>1. SUFFICES ASSUME k = k0 PROVE WorkerFits(w, k, n)'
      BY <2>2 DEF AtKey
    <3> QED BY <1>4, <1>6, <2>1, <2>3, <3>1 DEF WorkerFits
  <2>5. ASSUME NEW kind \in Kinds, Front(w, kind, k)' PROVE Fits(kind, k, n)' /\ ItemTrue(kind, k)'
    <3>1. its[1].kind = kind /\ its[1].key = k
      BY <2>2, <2>5 DEF Front
    <3>2. kind \in {"start", "cooldown"} /\ k[1] = next
      BY <1>6, <3>1 DEF Item
    <3>3. kind \notin Closers /\ kind \notin Values /\ kind \notin {"unavailable", "error"}
      BY <3>2 DEF Closers, Values
    <3> QED BY <1>5, <2>1, <3>2, <3>3 DEF ItemTrue
  <2> QED BY <2>4, <2>5
<1>7. \A n \in 0 .. Len(queue), k \in Keys : n = Len(queue) =>
            /\ AtKey(w, k)' => WorkerFits(w, k, n)'
            /\ \A kind \in Kinds : Front(w, kind, k)' => Fits(kind, k, n)' /\ ItemTrue(kind, k)'
  <2>1. CASE workers' = [workers EXCEPT ![w] = Absent]
    <3>1. workers'[w].at = "gone" /\ workers'[w].items = <<>>
      BY <1>2, <2>1 DEF Absent
    <3> QED BY <3>1 DEF AtKey, Front
  <2>2. CASE workers' = [workers EXCEPT ![w] = Resting(<<Item("preflight", <<next, 1>>, FALSE)>>)]
    <3>1. PICK its : its = <<Item("preflight", <<next, 1>>, FALSE)>>
      OBVIOUS
    <3>2. workers'[w].at = "idle" /\ workers'[w].items = its
      BY <1>2, <2>2, <3>1 DEF Resting
    <3>3. its[1].kind = "preflight" /\ its[1].key = <<next, 1>>
      BY <3>1 DEF Item
    <3>4. ASSUME NEW n \in 0 .. Len(queue), NEW k \in Keys, n = Len(queue),
                 NEW kind \in Kinds, Front(w, kind, k)'
          PROVE  Fits(kind, k, n)' /\ ItemTrue(kind, k)'
      <4>1. kind = "preflight" /\ k[1] = next
        BY <3>2, <3>3, <3>4 DEF Front
      <4>2. kind \notin Closers /\ kind \notin Values /\ kind \notin {"unavailable", "error"}
        BY <4>1 DEF Closers, Values
      <4> QED BY <1>5, <3>4, <4>1, <4>2 DEF ItemTrue
    <3> QED BY <3>2, <3>4 DEF AtKey
  <2>3. ASSUME NEW k \in Keys, NEW l \in {<<>>, << 2 >>}, k[1] = next,
               workers' = [workers EXCEPT ![w] = AtCall(k, l, <<Item("start", k, TRUE)>>)]
        PROVE  \A n \in 0 .. Len(queue), j \in Keys : n = Len(queue) =>
                /\ AtKey(w, j)' => WorkerFits(w, j, n)'
                /\ \A kind \in Kinds : Front(w, kind, j)' => Fits(kind, j, n)' /\ ItemTrue(kind, j)'
    <3>1. PICK its : its = <<Item("start", k, TRUE)>>
      OBVIOUS
    <3>2. its # <<>> /\ its[1] = Item("start", k, TRUE)
      BY <3>1
    <3> QED BY <1>6, <2>3, <3>1, <3>2
  <2>4. ASSUME NEW k \in Keys, NEW l \in {<<>>, << 2 >>}, k[1] = next,
               workers' = [workers EXCEPT ![w] = AtCall(k, l,
                              <<Item("cooldown", <<next, 1>>, TRUE), Item("start", k, TRUE)>>)]
        PROVE  \A n \in 0 .. Len(queue), j \in Keys : n = Len(queue) =>
                /\ AtKey(w, j)' => WorkerFits(w, j, n)'
                /\ \A kind \in Kinds : Front(w, kind, j)' => Fits(kind, j, n)' /\ ItemTrue(kind, j)'
    <3>1. PICK its : its = <<Item("cooldown", <<next, 1>>, TRUE), Item("start", k, TRUE)>>
      OBVIOUS
    <3>2. its # <<>> /\ its[1] = Item("cooldown", <<next, 1>>, TRUE)
      BY <3>1
    <3> QED BY <1>6, <2>4, <3>1, <3>2
  <2> QED BY <1>1, <2>1, <2>2, <2>3, <2>4
<1> QED BY <1>1, <1>3, <1>7, PipeWorker

LEMMA PipeOfReach ==
  ASSUME TypesInv, PipeInv, NEW w \in Workers, Reach(w) \/ Succeed(w)
  PROVE  PipeInv'
<1>1. /\ workers[w].at = "call" /\ workers[w].items = <<>>
      /\ UNCHANGED <<world, streamVars, queue, trace>>
  BY DEF Reach, Succeed, Calling, ledger
<1>2. PICK k0 : k0 = workers[w].key
  OBVIOUS
<1>3. k0 \in Keys /\ AtKey(w, k0) /\ Started(w) /\ k0[2] \in 1 .. 2 /\ k0 = <<k0[1], k0[2]>>
  <2>1. k0 \in Keys
    BY <1>1, <1>2, CallFacts
  <2> QED BY <1>1, <1>2, <2>1, WorldFacts DEF AtKey, Started, TypesInv, BaseOK
<1>4. DOMAIN workers = Workers /\ reached \in [Keys -> {"no", "yes", "value"}] /\ Len(queue) \in Nat
      /\ world \in World
  BY DEF TypesInv, WorkersOK, ReachedOK, QueueOK, BaseOK
<1>5. \/ reached[k0] = "no" /\ reached' = [reached EXCEPT ![k0] = "yes"] /\ UNCHANGED workers
      \/ reached' = [reached EXCEPT ![k0] = "value"]
         /\ (Answers(w, "end") \/ Answers(w, "post"))
  <2>1. CASE Reach(w)
    BY <1>2, <2>1 DEF Reach
  <2>2. CASE Succeed(w)
    <3>1. PICK kind \in {"end", "post"} :
             Becomes(w, Resting(Reports(<<Item(kind, workers[w].key, FALSE)>>)))
      BY <2>2 DEF Succeed
    <3>2. kind \in {"end", "post", "error", "unavailable"}
      OBVIOUS
    <3>3. Answers(w, kind)
      BY <3>1, <3>2, AnswersAre
    <3>4. reached' = [reached EXCEPT ![k0] = "value"]
      BY <1>2, <2>2 DEF Succeed
    <3> QED BY <3>1, <3>3, <3>4
  <2> QED BY <2>1, <2>2
<1>6. \A v \in Workers \ {w} : workers'[v] = workers[v]
  BY <1>4, <1>5 DEF Answers
<1>7. \A k \in Keys : \/ reached'[k] = reached[k]
                      \/ /\ AtKey(w, k) /\ Started(w)
                         /\ \/ reached[k] = "no" /\ reached'[k] = "yes"
                            \/ reached'[k] = "value"
  BY <1>3, <1>4, <1>5
<1>8. \A names, j : /\ Told(names, j)' <=> Told(names, j)
                    /\ Due(names, j)' <=> Due(names, j)
  BY <1>1, ToldFrame DEF Due, Doing, streamVars
<1>9. SameHandled
  BY <1>8 DEF SameHandled, Handled
<1>10. ASSUME NEW n \in 0 .. Len(queue), n = Len(queue)
       PROVE  /\ WorkerFits(w, k0, n) /\ n \in Int
              /\ \A j \in Keys : /\ Opened(n, j)' <=> Opened(n, j)
                                 /\ Settled(n, j)' <=> Settled(n, j)
                                 /\ Won(n, j)' <=> Won(n, j)
  <2>1. n \in Int
    BY <1>4
  <2>2. WorkerFits(w, k0, n)
    BY <1>3, <1>10 DEF PipeInv
  <2> QED BY <1>1, <1>9, <2>1, <2>2, SamePlaces
<1>11. \A d \in 1 .. 2 : <<k0[1], d>> \in Keys
  BY <1>3, <1>4, WorldFacts
<1>12. \A n \in 0 .. Len(queue), k \in Keys : n = Len(queue) =>
            /\ AtKey(w, k)' => WorkerFits(w, k, n)'
            /\ \A kind \in Kinds : Front(w, kind, k)' => Fits(kind, k, n)' /\ ItemTrue(kind, k)'
  <2>1. SUFFICES ASSUME NEW n \in 0 .. Len(queue), NEW k \in Keys, n = Len(queue)
                 PROVE  /\ AtKey(w, k)' => WorkerFits(w, k, n)'
                        /\ \A kind \in Kinds : Front(w, kind, k)' => Fits(kind, k, n)' /\ ItemTrue(kind, k)'
    OBVIOUS
  <2>2. CASE UNCHANGED workers
    <3>1. workers'[w] = workers[w]
      BY <2>2
    <3>2. /\ Started(w)' <=> Started(w)
          /\ \A kind, j : ~Front(w, kind, j)' /\ ~Front(w, kind, j)
          /\ AtKey(w, k)' => k = k0
      BY <1>1, <1>2, <3>1 DEF Started, Front, AtKey
    <3>3. \A d \in 1 .. 2 : LET j == <<k0[1], d>> IN
            /\ Opened(n, j)' <=> Opened(n, j)
            /\ Settled(n, j)' <=> Settled(n, j)
            /\ Won(n, j)' <=> Won(n, j)
      BY <1>10, <1>11, <2>1
    <3>4. WorkerFits(w, k0, n) /\ n \in Int
      BY <1>10, <2>1
    <3>5. WorkerFits(w, k0, n)'
      BY <1>3, <1>4, <3>2, <3>3, <3>4, SameWorkerFits
    <3> QED BY <3>2, <3>5
  <2>3. ASSUME NEW kd \in {"end", "post"}, Answers(w, kd), reached' = [reached EXCEPT ![k0] = "value"]
        PROVE  /\ AtKey(w, k)' => WorkerFits(w, k, n)'
               /\ \A kind \in Kinds : Front(w, kind, k)' => Fits(kind, k, n)' /\ ItemTrue(kind, k)'
    <3>1. PICK its : its = <<LastOf(kd, k0)>>
      OBVIOUS
    <3>2. workers'[w].at = "idle" /\ workers'[w].items = its
      BY <1>2, <1>4, <2>3, <3>1 DEF Answers, Resting, LastOf
    <3>3. its[1].kind = kd /\ its[1].key = k0
      BY <3>1 DEF LastOf, Item
    <3>4. ASSUME NEW kind \in Kinds, Front(w, kind, k)' PROVE Fits(kind, k, n)' /\ ItemTrue(kind, k)'
      <4>1. kind = kd /\ k = k0
        BY <3>2, <3>3, <3>4 DEF Front
      <4>2. reached'[k0] = "value" /\ kd \in Values /\ kd \in Closers /\ kd # "start"
            /\ kd \notin {"unavailable", "error"}
        BY <1>3, <1>4, <2>3 DEF Values, Closers
      <4>3. WorkerFits(w, k0, n)
        BY <1>10, <2>1
      <4>4. Fits(kd, k0, n)
        BY <1>3, <4>2, <4>3 DEF Fits, WorkerFits
      <4>5. \A d \in 1 .. 2 : LET j == <<k0[1], d>> IN
              /\ Opened(n, j)' <=> Opened(n, j)
              /\ Settled(n, j)' <=> Settled(n, j)
              /\ Won(n, j)' <=> Won(n, j)
        BY <1>10, <1>11, <2>1
      <4>6. n \in Int
        BY <1>10, <2>1
      <4>7. Fits(kd, k0, n)'
        BY <1>3, <1>4, <4>4, <4>5, <4>6, SameFits
      <4> QED BY <4>1, <4>2, <4>7 DEF ItemTrue
    <3> QED BY <3>2, <3>4 DEF AtKey
  <2> QED BY <1>5, <2>2, <2>3
<1> QED BY <1>1, <1>6, <1>7, <1>12, PipeWorker


LEMMA PipeOfFails ==
  ASSUME TypesInv, TraceInv, PipeInv, Events, NEW w \in Workers,
         Fail(w) \/ Unavailable(w) \/ CancelSwallowed(w)
  PROVE  PipeInv'
<1>1. /\ workers[w].at = "call" /\ workers[w].items = <<>>
      /\ Answers(w, "error") \/ Answers(w, "unavailable") \/ GoesOn(w)
      /\ UNCHANGED <<world, streamVars, queue, trace, reached>>
  BY FailsTypes DEF ledger
<1>2. PICK k0 : k0 = workers[w].key
  OBVIOUS
<1>3. k0 \in Keys /\ AtKey(w, k0) /\ Started(w) /\ k0[2] \in 1 .. 2 /\ k0 = <<k0[1], k0[2]>>
  <2>1. k0 \in Keys
    BY <1>1, <1>2, CallFacts
  <2> QED BY <1>1, <1>2, <2>1, WorldFacts DEF AtKey, Started, TypesInv, BaseOK
<1>4. DOMAIN workers = Workers /\ Len(queue) \in Nat /\ world \in World
  BY DEF TypesInv, WorkersOK, QueueOK, BaseOK
<1>5. \A v \in Workers \ {w} : workers'[v] = workers[v]
  BY <1>1, <1>4 DEF Answers, GoesOn
<1>6. SameHandled
  <2>1. \A names, j : /\ Told(names, j)' <=> Told(names, j)
                      /\ Due(names, j)' <=> Due(names, j)
    BY <1>1, ToldFrame DEF Due, Doing, streamVars
  <2> QED BY <2>1 DEF SameHandled, Handled
<1>7. reached[k0] # "value"
  <2>1. WorkerClear(w, k0)
    BY <1>3 DEF TraceInv
  <2> QED BY <1>3, <2>1 DEF WorkerClear
<1>8. ASSUME NEW n \in 0 .. Len(queue), n = Len(queue)
      PROVE  /\ WorkerFits(w, k0, n) /\ n \in Int
             /\ \A d \in 1 .. 2 : /\ Opened(n, <<k0[1], d>>)' <=> Opened(n, <<k0[1], d>>)
                                  /\ Settled(n, <<k0[1], d>>)' <=> Settled(n, <<k0[1], d>>)
                                  /\ Won(n, <<k0[1], d>>)' <=> Won(n, <<k0[1], d>>)
             /\ \A kind \in {"error", "unavailable"} : Fits(kind, k0, n)' /\ ItemTrue(kind, k0)'
  <2>1. n \in Int
    BY <1>4
  <2>2. WorkerFits(w, k0, n)
    BY <1>3, <1>8 DEF PipeInv
  <2>3. \A d \in 1 .. 2 : <<k0[1], d>> \in Keys
    BY <1>3, <1>4, WorldFacts
  <2>4. \A j \in Keys : /\ Opened(n, j)' <=> Opened(n, j)
                        /\ Settled(n, j)' <=> Settled(n, j)
                        /\ Won(n, j)' <=> Won(n, j)
    BY <1>1, <1>6, <2>1, SamePlaces
  <2>5. \A d \in 1 .. 2 : /\ Opened(n, <<k0[1], d>>)' <=> Opened(n, <<k0[1], d>>)
                          /\ Settled(n, <<k0[1], d>>)' <=> Settled(n, <<k0[1], d>>)
                          /\ Won(n, <<k0[1], d>>)' <=> Won(n, <<k0[1], d>>)
    BY <2>3, <2>4
  <2>6. ASSUME NEW kind \in {"error", "unavailable"} PROVE Fits(kind, k0, n)' /\ ItemTrue(kind, k0)'
    <3>1. kind \in Closers /\ kind # "start" /\ kind \notin Values
      BY DEF Closers, Values
    <3>2. Fits(kind, k0, n)
      BY <1>3, <2>2, <3>1 DEF Fits, WorkerFits
    <3>3. Fits(kind, k0, n)'
      BY <1>3, <1>4, <2>1, <2>5, <3>2, SameFits
    <3> QED BY <1>1, <1>7, <3>1, <3>3 DEF ItemTrue
  <2> QED BY <2>1, <2>2, <2>5, <2>6
<1>9. \A n \in 0 .. Len(queue), k \in Keys : n = Len(queue) =>
            /\ AtKey(w, k)' => WorkerFits(w, k, n)'
            /\ \A kind \in Kinds : Front(w, kind, k)' => Fits(kind, k, n)' /\ ItemTrue(kind, k)'
  <2>1. SUFFICES ASSUME NEW n \in 0 .. Len(queue), NEW k \in Keys, n = Len(queue)
                 PROVE  /\ AtKey(w, k)' => WorkerFits(w, k, n)'
                        /\ \A kind \in Kinds : Front(w, kind, k)' => Fits(kind, k, n)' /\ ItemTrue(kind, k)'
    OBVIOUS
  <2>2. ASSUME NEW kd \in {"error", "unavailable"}, Answers(w, kd)
        PROVE  /\ AtKey(w, k)' => WorkerFits(w, k, n)'
               /\ \A kind \in Kinds : Front(w, kind, k)' => Fits(kind, k, n)' /\ ItemTrue(kind, k)'
    <3>1. PICK its : its = <<LastOf(kd, k0)>>
      OBVIOUS
    <3>2. workers'[w].at = "idle" /\ workers'[w].items = its
      BY <1>2, <1>4, <2>2, <3>1 DEF Answers, Resting, LastOf
    <3>3. its[1].kind = kd /\ its[1].key = k0
      BY <3>1 DEF LastOf, Item
    <3>4. ASSUME NEW kind \in Kinds, Front(w, kind, k)' PROVE kind = kd /\ k = k0
      BY <3>2, <3>3, <3>4 DEF Front
    <3> QED BY <1>8, <2>1, <3>2, <3>4 DEF AtKey
  <2>3. CASE GoesOn(w)
    <3>1. PICK its, k2 : k2 = <<k0[1], 2>> /\ its = <<Item("unavailable", k0, TRUE), Item("start", k2, TRUE)>>
      OBVIOUS
    <3>2. workers'[w].at = "call" /\ workers'[w].items = its /\ workers'[w].key = k2
      BY <1>2, <1>4, <2>3, <3>1 DEF GoesOn, AtCall
    <3>3. its # <<>> /\ its[1].kind = "unavailable" /\ its[1].key = k0
      BY <3>1 DEF Item
    <3>4. k0[2] = 1
      BY <1>1, <1>2, <2>3 DEF GoesOn, TypesInv, WorkersOK, WorkerOK
    <3>5. AtKey(w, k)' => WorkerFits(w, k, n)'
      <4>1. SUFFICES ASSUME k = k2 PROVE WorkerFits(w, k2, n)'
        BY <3>2 DEF AtKey
      <4>2. k2[1] = k0[1] /\ k2[2] = 2
        BY <3>1
      <4>3. ~Started(w)' /\ Front(w, "unavailable", k0)' /\ k0 = <<k0[1], 1>>
        BY <1>3, <3>2, <3>3, <3>4 DEF Started, Front
      <4>4. /\ \A d \in 1 .. 2 : ~Won(n, <<k0[1], d>>)'
            /\ \A d \in 1 .. 2 : d >= 2 => ~Opened(n, <<k0[1], d>>)'
        <5>1. \A d \in 1 .. 2 : ~Won(n, <<k0[1], d>>) /\ (d >= 2 => ~Opened(n, <<k0[1], d>>))
          BY <1>8, <2>1, <3>4 DEF WorkerFits
        <5> QED BY <1>8, <2>1, <5>1
      <4>5. \A d \in 1 .. 2 : d < 2 => Front(w, "unavailable", <<k0[1], d>>)'
        BY <4>3
      <4> QED BY <4>2, <4>3, <4>4, <4>5 DEF WorkerFits
    <3>6. \A kind \in Kinds : Front(w, kind, k)' => kind = "unavailable" /\ k = k0
      BY <3>2, <3>3 DEF Front
    <3> QED BY <1>8, <2>1, <3>5, <3>6
  <2> QED BY <1>1, <2>2, <2>3
<1>10. \A k \in Keys : reached'[k] = reached[k]
  BY <1>1
<1> QED BY <1>1, <1>5, <1>9, <1>10, PipeWorker

LEMMA PipeOfGone ==
  ASSUME TypesInv, PipeInv, NEW w \in Workers, CallCancelled(w) \/ WorkerCancelled(w),
         UNCHANGED streamVars
  PROVE  PipeInv'
<1>1. UNCHANGED <<world, queue, trace, reached>> /\ workers' = [workers EXCEPT ![w] = Absent]
  BY GoneTypes DEF ledger
<1>2. DOMAIN workers = Workers
  BY DEF TypesInv, WorkersOK
<1>3. workers'[w].at = "gone" /\ workers'[w].items = <<>>
      /\ \A v \in Workers \ {w} : workers'[v] = workers[v]
  BY <1>1, <1>2 DEF Absent
<1>4. \A kind, k : ~AtKey(w, k)' /\ ~Front(w, kind, k)'
  BY <1>3 DEF AtKey, Front
<1> QED BY <1>1, <1>3, <1>4, PipeWorker

\* What is closed was opened.
LEMMA SettledOpened ==
  ASSUME TypesInv, PipeInv, NEW q \in 0 .. Len(queue), NEW k \in Keys, Settled(q, k)
  PROVE  Opened(q, k)
<1>1. CASE Handled(Enders, k)
  BY <1>1 DEF PipeInv, Opened
<1>2. CASE Queued(q, Closers, k)
  <2>1. PICK p \in 1 .. q : queue[p].kind \in Closers /\ queue[p].key = k
    BY <1>2 DEF Queued
  <2>2. PICK kind : kind = queue[p].kind
    OBVIOUS
  <2>3. Len(queue) \in Nat /\ p \in 1 .. Len(queue) /\ kind \in Kinds
    <3>1. Len(queue) \in Nat /\ p \in 1 .. Len(queue)
      BY DEF TypesInv, QueueOK
    <3>2. queue[p] \in ItemType
      BY <3>1 DEF TypesInv, QueueOK
    <3> QED BY <2>2, <3>1, <3>2 DEF ItemType
  <2>4. InQueue(p, kind, k)
    BY <2>1, <2>2, <2>3 DEF InQueue
  <2>5. Fits(kind, k, p - 1)
    BY <2>3, <2>4 DEF PipeInv
  <2>6. Opened(p - 1, k)
    BY <2>1, <2>2, <2>5 DEF Fits
  <2>7. Queued(p - 1, {"start"}, k) => Queued(q, {"start"}, k)
    <3>1. 1 .. (p - 1) \subseteq 1 .. q
      BY <2>3
    <3> QED BY <3>1 DEF Queued
  <2> QED BY <2>6, <2>7 DEF Opened
<1> QED BY <1>1, <1>2 DEF Settled


LEMMA PipeOfPut ==
  ASSUME TypesInv, PipeInv, NEW w \in Workers, Put(w)
  PROVE  PipeInv'
<1>1. PICK x \in ItemType :
            /\ x = workers[w].items[1] /\ workers[w].items # <<>>
            /\ queue' = Append(queue, x)
            /\ ItemIn(x, Keys, next) /\ workers[w].at \in {"idle", "call"}
            /\ DOMAIN workers' = Workers
            /\ \A v \in Workers \ {w} : workers'[v] = workers[v]
            /\ workers'[w].at = workers[w].at
            /\ workers'[w].key = workers[w].key
            /\ workers[w].at = "idle" => workers'[w].items = <<>>
            /\ workers[w].at = "call" =>
                  \/ workers'[w].items = <<>> /\ x = StartOf(workers[w].key)
                  \/ /\ workers'[w].items = <<StartOf(workers[w].key)>>
                     /\ x.kind \in {"cooldown", "unavailable"} /\ workers[w].key[2] = 2
                     /\ x.key = <<workers[w].key[1], 1>>
            /\ UNCHANGED <<world, streamVars, reached, trace>>
  BY PutLeaves DEF ledger
<1>2. PICK kd, kx : kd = x.kind /\ kx = x.key
  OBVIOUS
<1>3. kd \in Kinds /\ kx \in Keys
  BY <1>2 DEF ItemType
<1>4. PICK m : m = Len(queue)
  OBVIOUS
<1>5. /\ m \in Nat /\ m \in 0 .. Len(queue) /\ m \in Int /\ m + 1 \in Int
      /\ queue \in Seq(ItemType) /\ world \in World /\ Keys' = Keys /\ Calls' = Calls
  BY <1>1, <1>4, CallsStay DEF TypesInv, QueueOK, BaseOK
<1>6. /\ Len(queue') = m + 1 /\ queue'[m + 1] = x
      /\ \A p \in 1 .. m : queue'[p] = queue[p]
  BY <1>1, <1>4, <1>5
<1>7. \A names, j : /\ Told(names, j)' <=> Told(names, j)
                    /\ Due(names, j)' <=> Due(names, j)
                    /\ Handled(names, j)' <=> Handled(names, j)
  BY <1>1, ToldFrame DEF Due, Doing, Handled, streamVars
<1>8. ASSUME NEW q \in 0 .. m
      PROVE  \A kinds, k : Queued(q, kinds, k)' <=> Queued(q, kinds, k)
  <2>1. \A p \in 1 .. q : queue'[p] = queue[p]
    BY <1>5, <1>6
  <2> QED BY <2>1 DEF Queued
<1>9. \A kinds, k : Queued(m + 1, kinds, k)' <=> Queued(m, kinds, k) \/ (kd \in kinds /\ kx = k)
  <2>1. 1 .. (m + 1) = (1 .. m) \cup {m + 1}
    BY <1>5
  <2> QED BY <1>2, <1>6, <2>1 DEF Queued
<1>10. \A q \in 0 .. m, k \in Keys :
          /\ Opened(q, k)' <=> Opened(q, k)
          /\ Settled(q, k)' <=> Settled(q, k)
          /\ Won(q, k)' <=> Won(q, k)
  BY <1>7, <1>8 DEF Opened, Settled, Won
<1>11. \A k \in Keys :
          /\ Opened(m + 1, k)' <=> Opened(m, k) \/ (kd = "start" /\ kx = k)
          /\ Settled(m + 1, k)' <=> Settled(m, k) \/ (kd \in Closers /\ kx = k)
          /\ Won(m + 1, k)' <=> Won(m, k) \/ (kd \in Values /\ kx = k)
  BY <1>7, <1>9 DEF Opened, Settled, Won
<1>12. \A k \in Keys, d \in 1 .. 2 : <<k[1], d>> \in Keys /\ k[2] \in 1 .. 2
  BY <1>5, WorldFacts
<1>13. ASSUME NEW k \in Keys, NEW q \in 0 .. m PROVE \A kind : Fits(kind, k, q)' <=> Fits(kind, k, q)
  <2>1. q \in Int
    BY <1>5
  <2> QED BY <1>5, <1>10, <1>12, <2>1, SameFits
<1>14. \A kind, k : ItemTrue(kind, k)' <=> ItemTrue(kind, k)
  BY <1>1 DEF ItemTrue
<1>15. Front(w, kd, kx)
  BY <1>1, <1>2 DEF Front
<1>16. Fits(kd, kx, m) /\ ItemTrue(kd, kx)
  BY <1>3, <1>4, <1>5, <1>15 DEF PipeInv
<1>17. ASSUME NEW kind \in Kinds, NEW k \in Keys, NEW p \in 1 .. Len(queue'), InQueue(p, kind, k)'
       PROVE  Fits(kind, k, p - 1)' /\ ItemTrue(kind, k)'
  <2>1. CASE p \in 1 .. m
    <3>1. p - 1 \in 0 .. m /\ p \in 1 .. Len(queue)
      BY <1>4, <1>5, <2>1
    <3>2. InQueue(p, kind, k)
      BY <1>6, <1>17, <2>1, <3>1 DEF InQueue
    <3>3. Fits(kind, k, p - 1) /\ ItemTrue(kind, k)
      BY <3>1, <3>2 DEF PipeInv
    <3> QED BY <1>13, <1>14, <3>1, <3>3
  <2>2. CASE p = m + 1
    <3>1. kind = kd /\ k = kx /\ p - 1 = m /\ m \in 0 .. m
      BY <1>2, <1>5, <1>6, <1>17, <2>2 DEF InQueue
    <3> QED BY <1>13, <1>14, <1>16, <3>1
  <2> QED BY <1>5, <1>6, <2>1, <2>2
<1>18. ASSUME NEW v \in Workers, v # w, NEW k \in Keys
       PROVE  /\ AtKey(v, k)' => WorkerFits(v, k, m + 1)'
              /\ \A kind \in Kinds : Front(v, kind, k)' => Fits(kind, k, m + 1)' /\ ItemTrue(kind, k)'
  <2>1. workers'[v] = workers[v]
    BY <1>1, <1>18
  <2>2. /\ AtKey(v, k)' <=> AtKey(v, k)
        /\ Started(v)' <=> Started(v)
        /\ \A kind, j : Front(v, kind, j)' <=> Front(v, kind, j)
    BY <2>1 DEF AtKey, Started, Front
  <2>3. ASSUME AtKey(v, k) \/ \E kind : Front(v, kind, k)
        PROVE  \A d \in 1 .. 2 : LET j == <<k[1], d>> IN
            /\ Opened(m + 1, j)' <=> Opened(m, j)
            /\ Settled(m + 1, j)' <=> Settled(m, j)
            /\ Won(m + 1, j)' <=> Won(m, j)
    <3>1. Owns(v, k[1]) /\ Owns(w, kx[1]) /\ k[1] \in Calls
      BY <1>5, <1>15, <2>3, WorldFacts DEF AtKey, Front, Owns
    <3>2. k[1] # kx[1]
      BY <1>18, <3>1 DEF TypesInv, WorkersOK
    <3>3. \A d \in 1 .. 2 : <<k[1], d>> # kx
      BY <3>2
    <3> QED BY <1>11, <1>12, <3>3
  <2>4. AtKey(v, k) => WorkerFits(v, k, m + 1)'
    <3>1. AtKey(v, k) => WorkerFits(v, k, m)
      BY <1>4, <1>5 DEF PipeInv
    <3> QED BY <1>5, <2>2, <2>3, <3>1, SameWorkerFits
  <2>5. ASSUME NEW kind \in Kinds, Front(v, kind, k)
        PROVE  Fits(kind, k, m + 1)' /\ ItemTrue(kind, k)'
    <3>1. Fits(kind, k, m) /\ ItemTrue(kind, k)
      BY <1>4, <1>5, <2>5 DEF PipeInv
    <3>2. \A d \in 1 .. 2 : LET j == <<k[1], d>> IN
            /\ Opened(m + 1, j)' <=> Opened(m, j)
            /\ Settled(m + 1, j)' <=> Settled(m, j)
            /\ Won(m + 1, j)' <=> Won(m, j)
      BY <2>3, <2>5
    <3>3. Fits(kind, k, m + 1)'
      BY <1>5, <3>1, <3>2, SameFits
    <3> QED BY <1>14, <3>1, <3>3
  <2> QED BY <2>2, <2>4, <2>5
<1>19. ASSUME NEW k \in Keys
       PROVE  /\ AtKey(w, k)' => WorkerFits(w, k, m + 1)'
              /\ \A kind \in Kinds : Front(w, kind, k)' => Fits(kind, k, m + 1)' /\ ItemTrue(kind, k)'
  <2>1. CASE workers[w].at = "idle"
    BY <1>1, <2>1 DEF AtKey, Front
  <2>2. CASE workers[w].at = "call"
    <3>1. PICK k0 : k0 = workers[w].key
      OBVIOUS
    <3>2. k0 \in Keys /\ k0[2] \in 1 .. 2 /\ k0 = <<k0[1], k0[2]>> /\ AtKey(w, k0)
      <4>1. k0 \in Keys
        BY <2>2, <3>1, CallFacts
      <4> QED BY <1>5, <2>2, <3>1, <4>1, WorldFacts DEF AtKey
    <3>3. AtKey(w, k)' => k = k0
      BY <1>1, <3>1 DEF AtKey
    <3>4. WorkerFits(w, k0, m) /\ ~Started(w)
      BY <1>1, <1>4, <1>5, <3>2 DEF PipeInv, Started
    <3>5. \A d \in 1 .. 2 :
             /\ ~Won(m, <<k0[1], d>>)
             /\ d >= k0[2] => ~Opened(m, <<k0[1], d>>)
             /\ d < k0[2] /\ Opened(m, <<k0[1], d>>) =>
                  Settled(m, <<k0[1], d>>) \/ (kd = "unavailable" /\ kx = <<k0[1], d>>)
      <4>1. \A d \in 1 .. 2 : Front(w, "unavailable", <<k0[1], d>>)
               => kd = "unavailable" /\ kx = <<k0[1], d>>
        BY <1>1, <1>2 DEF Front
      <4> QED BY <3>2, <3>4, <4>1 DEF WorkerFits
    <3>6. \A d \in 1 .. 2 : <<k0[1], d>> \in Keys
      BY <1>12, <3>2
    <3>7. CASE workers'[w].items = <<>> /\ x = StartOf(workers[w].key)
      <4>1. kd = "start" /\ kx = k0 /\ kd \notin Closers /\ kd \notin Values
        BY <1>2, <3>1, <3>7 DEF StartOf, Item, Closers, Values
      <4>2. Started(w)' /\ \A kind, j : ~Front(w, kind, j)'
        BY <3>7 DEF Started, Front
      <4>3. ~Settled(m, k0)
        BY <1>5, <3>2, <3>5, SettledOpened
      <4>4. \A d \in 1 .. 2 :
               /\ Opened(m + 1, <<k0[1], d>>)' <=> Opened(m, <<k0[1], d>>) \/ d = k0[2]
               /\ Settled(m + 1, <<k0[1], d>>)' <=> Settled(m, <<k0[1], d>>)
               /\ Won(m + 1, <<k0[1], d>>)' <=> Won(m, <<k0[1], d>>)
        <5>1. \A d \in 1 .. 2 : kx = <<k0[1], d>> <=> d = k0[2]
          BY <3>2, <4>1
        <5> QED BY <1>11, <3>6, <4>1, <5>1
      <4>5. Opened(m + 1, k0)' /\ ~Settled(m + 1, k0)'
        BY <1>11, <3>2, <4>1, <4>3
      <4>6. WorkerFits(w, k0, m + 1)'
        BY <3>2, <3>5, <4>1, <4>2, <4>4, <4>5 DEF WorkerFits
      <4> QED BY <3>3, <4>2, <4>6
    <3>8. CASE /\ workers'[w].items = <<StartOf(workers[w].key)>>
               /\ x.kind \in {"cooldown", "unavailable"} /\ workers[w].key[2] = 2
               /\ x.key = <<workers[w].key[1], 1>>
      <4>1. kd \in {"cooldown", "unavailable"} /\ k0[2] = 2 /\ kx = <<k0[1], 1>>
            /\ kd # "start" /\ kd \notin Values
        BY <1>2, <3>1, <3>8 DEF Values
      <4>2. PICK its : its = workers'[w].items
        OBVIOUS
      <4>3. its # <<>> /\ its[1].kind = "start" /\ its[1].key = k0
        BY <3>1, <3>8, <4>2 DEF StartOf, Item
      <4>4. ~Started(w)' /\ \A kind, j : Front(w, kind, j)' => kind = "start" /\ j = k0
        BY <4>2, <4>3 DEF Started, Front
      <4>5. \A d \in 1 .. 2 :
               /\ Opened(m + 1, <<k0[1], d>>)' <=> Opened(m, <<k0[1], d>>)
               /\ Settled(m + 1, <<k0[1], d>>)' <=>
                     Settled(m, <<k0[1], d>>) \/ (kd = "unavailable" /\ kx = <<k0[1], d>>)
               /\ Won(m + 1, <<k0[1], d>>)' <=> Won(m, <<k0[1], d>>)
        <5>1. kd \in Closers <=> kd = "unavailable"
          BY <4>1 DEF Closers
        <5> QED BY <1>11, <3>6, <4>1, <5>1
      <4>6. \A d \in 1 .. 2 :
               /\ ~Won(m + 1, <<k0[1], d>>)'
               /\ d >= k0[2] => ~Opened(m + 1, <<k0[1], d>>)'
               /\ d < k0[2] /\ Opened(m + 1, <<k0[1], d>>)' => Settled(m + 1, <<k0[1], d>>)'
        BY <3>5, <4>5
      <4>7. WorkerFits(w, k0, m + 1)'
        BY <3>2, <4>4, <4>6 DEF WorkerFits
      <4>8. Fits("start", k0, m + 1)' /\ ItemTrue("start", k0)'
        BY <4>6 DEF Fits, ItemTrue, Closers, Values
      <4> QED BY <3>3, <4>4, <4>7, <4>8
    <3> QED BY <1>1, <2>2, <3>7, <3>8
  <2> QED BY <1>1, <2>1, <2>2
<1>20. \A k \in Keys :
          /\ Handled(Enders, k)' => Handled({"tool.start"}, k)'
          /\ Due({"tool.start"}, k)' => ~Told({"tool.start"}, k)'
          /\ Due(Enders, k)' => ~Told(Enders, k)'
          /\ Due({"tool.end"}, k)' => reached'[k] = "value"
          /\ Due({"tool.error"}, k)' => reached'[k] # "value"
          /\ reached'[k] # "no" => Opened(m + 1, k)'
  <2>1. \A k \in Keys : reached[k] # "no" => Opened(m, k)
    BY <1>4, <1>5 DEF PipeInv
  <2> QED BY <1>1, <1>7, <1>11, <2>1 DEF PipeInv
<1>21. \A i \in Calls :
          /\ Handled({"tool.start"}, <<i, 1>>)' /\ Handled({"tool.start"}, <<i, 2>>)'
                => Handled(Enders, <<i, 1>>)'
          /\ \A c, d \in 1 .. 2 :
                Handled({"tool.end"}, <<i, c>>)' /\ Handled({"tool.start"}, <<i, d>>)'
                   => Handled(Enders, <<i, d>>)'
  BY <1>7 DEF PipeInv
<1>22. \A n \in 0 .. Len(queue'), v \in Workers, k \in Keys : n = Len(queue') =>
          /\ AtKey(v, k)' => WorkerFits(v, k, n)'
          /\ \A kind \in Kinds : Front(v, kind, k)' => Fits(kind, k, n)' /\ ItemTrue(kind, k)'
  BY <1>6, <1>18, <1>19
<1>23. \A k \in Keys, n \in 0 .. Len(queue') : n = Len(queue') /\ reached'[k] # "no" => Opened(n, k)'
  BY <1>6, <1>20
<1> QED BY <1>5, <1>17, <1>20, <1>21, <1>22, <1>23 DEF PipeInv

LEMMA PipeStep ==
  ASSUME TypesInv, AgendaInv, LedgerInv, TraceInv, Events /\ Live => PipeInv, Events => QuietInv,
         [Next]_vars
  PROVE  Events' /\ Live' => PipeInv'
<1> SUFFICES ASSUME Events', Live' PROVE PipeInv'
  OBVIOUS
<1>1. UNCHANGED world
  BY NextIs, MovesAre, WorkerLeaves DEF Launch, Get, Persist, Taken, Abort, Drain,
     Indeterminate, Close, Finally, vars
<1>2. Events
  BY <1>1, CallsStay
<1>3. Live
  <2>1. CASE Moves
    <3>1. outcome' = outcome \/ AllEnded \/ outcome' \in {"raised", "lost"}
      BY <2>1, MovesAre DEF Moves, MakePlan, PlanFails, LaunchRefused, Gathered, Drained, Flush,
         Raise, Leave, Finish, PersistFails, FallbackUnknown, Goes, Stops
    <3>2. AllEnded => Live
      BY DEF AllEnded, AgendaInv
    <3> QED BY <3>1, <3>2, PlanRunAssumption DEF Live
  <2>2. CASE UNCHANGED outcome
    BY <2>2 DEF Live
  <2>3. CASE \E w \in Workers : WorkerSteps(w)
    <3>1. outcome' = outcome \/ outcome' = "raised"
      BY <2>3, WorkerLeaves DEF streamVars
    <3> QED BY <3>1, PlanRunAssumption DEF Live
  <2>4. CASE Close
    BY <2>4, PlanRunAssumption DEF Close, Stops, Live
  <2> QED BY <2>1, <2>2, <2>3, <2>4, NextIs DEF Launch, Get, Persist, Taken, Abort, Drain,
     Indeterminate, Finally, Goes, streamVars, vars
<1>4. PipeInv /\ QuietInv
  BY <1>2, <1>3
<1>5. CASE Moves \/ UNCHANGED vars \/ Abort \/ Finally \/ Launch
  BY <1>4, <1>5, PipeMoves
<1>6. CASE Get
  BY <1>2, <1>4, <1>6, PipeOfGet
<1>7. CASE Persist \/ Taken
  BY <1>4, <1>7, PipeOfPersist
<1>8. CASE Drain
  BY <1>4, <1>8, PipeOfDrain
<1>9. CASE Indeterminate
  <2>1. AllGone
    BY <1>4, <1>9 DEF Indeterminate, QuietInv, QuietAgenda
  <2> QED BY <1>4, <1>9, <2>1, PipeOfIndeterminate
<1>10. CASE Close
  BY <1>10, PlanRunAssumption DEF Close, Stops, Live
<1>11. ASSUME NEW w \in Workers, WorkerSteps(w) PROVE PipeInv'
  <2>1. CASE TakeCall(w)
    BY <1>2, <1>4, <2>1, PipeOfTakeCall
  <2>2. CASE Put(w)
    BY <1>4, <2>2, PipeOfPut
  <2>3. CASE Reach(w) \/ Succeed(w)
    BY <1>4, <2>3, PipeOfReach
  <2>4. CASE Fail(w) \/ Unavailable(w) \/ CancelSwallowed(w)
    BY <1>2, <1>4, <2>4, PipeOfFails
  <2>5. CASE CallCancelled(w) \/ WorkerCancelled(w)
    <3>1. UNCHANGED streamVars \/ outcome' = "raised"
      BY <1>11, WorkerLeaves
    <3>2. UNCHANGED streamVars
      BY <3>1, PlanRunAssumption DEF Live
    <3> QED BY <1>4, <2>5, <3>2, PipeOfGone
  <2> QED BY <1>11, <2>1, <2>2, <2>3, <2>4, <2>5 DEF WorkerSteps
<1> QED BY <1>5, <1>6, <1>7, <1>8, <1>9, <1>10, <1>11, NextIs


-----------------------------------------------------------------------------
(* The calls that were won *)

\* Every step but those that take an item off the queue, close a call or the stream.
Onward ==
    \/ Moves \/ UNCHANGED vars \/ Abort \/ Finally \/ Launch \/ Persist \/ Taken
    \/ \E w \in Workers : WorkerSteps(w)

LEMMA HandledStep ==
  ASSUME TypesInv, AgendaInv, TraceInv, Onward, Live'
  PROVE  SameHandled
<1>1. CASE Moves
  BY <1>1, MovesAre, QuietMoves, QuietFrame
<1>2. CASE UNCHANGED vars \/ \E w \in Workers : WorkerSteps(w)
  <2>1. CASE UNCHANGED streamVars /\ UNCHANGED trace
    <3>1. \A names, j : (Told(names, j)' <=> Told(names, j)) /\ (Due(names, j)' <=> Due(names, j))
      BY <2>1, ToldFrame DEF Due, Doing, streamVars
    <3> QED BY <3>1 DEF SameHandled, Handled
  <2>2. CASE UNCHANGED vars
    BY <2>1, <2>2 DEF vars, streamVars
  <2>3. ASSUME NEW w \in Workers, WorkerSteps(w) PROVE SameHandled
    <3>1. UNCHANGED trace /\ (UNCHANGED streamVars \/ outcome' = "raised")
      BY <2>3, WorkerLeaves DEF ledger
    <3>2. outcome' # "raised"
      BY PlanRunAssumption DEF Live
    <3> QED BY <2>1, <3>1, <3>2
  <2> QED BY <1>2, <2>2, <2>3
<1>3. CASE Abort \/ Finally \/ Launch
  <2>1. UNCHANGED trace
        /\ \/ pc # "go" /\ pc' # "go"
           \/ Head(agenda).do # "emit" /\ (pc' # "go" \/ agenda' = <<>>)
    BY <1>3 DEF Abort, Finally, Launch, ledger, Goes, Doing
  <2>2. NothingDue /\ NothingDue'
    BY <2>1, NothingIsDue
  <2> QED BY <2>1, <2>2, QuietFrame
<1>4. CASE Persist
  <2>1. /\ Doing("emit") /\ pc' = "yield"
        /\ Appends(Head(agenda).name, Head(agenda).key)
    BY <1>4 DEF Persist, Goes, Event, Appends
  <2>2. PICK n, k : n = Head(agenda).name /\ k = Head(agenda).key
    OBVIOUS
  <2>3. \A names, j : Due(names, j) <=> n \in names /\ k = j
    BY <2>1, <2>2 DEF Due
  <2>4. \A names, j : ~Due(names, j)'
    BY <2>1 DEF Due, Doing
  <2>5. \A names, j : Told(names, j)' <=> Told(names, j) \/ (n \in names /\ k = j)
    BY <2>1, <2>2, ToldAppend
  <2> QED BY <2>3, <2>4, <2>5 DEF SameHandled, Handled
<1>5. CASE Taken
  <2>1. /\ pc = "yield" /\ pc' = "go" /\ agenda' = agenda /\ UNCHANGED trace
    BY <1>5 DEF Taken, Goes
  <2>2. \/ agenda \in {<<Do("plan")>>, <<Do("launch")>>, <<Do("finish")>>, <<Do("raise")>>, Aborting}
        \/ agenda = <<>>
        \/ \E k \in Keys : agenda = <<Emit("tool.fallback", k)>>
    BY <2>1 DEF AgendaInv, OneEvent
  <2>3. \/ agenda = <<>> \/ Head(agenda).do # "emit" \/ Head(agenda).name = "tool.fallback"
    BY <2>2, StepIs, Heads DEF Aborting
  <2>4. \A k : /\ ~Due({"tool.start"}, k) /\ ~Due({"tool.start"}, k)'
               /\ ~Due(Enders, k) /\ ~Due(Enders, k)'
               /\ ~Due({"tool.end"}, k) /\ ~Due({"tool.end"}, k)'
    BY <2>1, <2>3 DEF Due, Doing, Enders
  <2>5. \A names, j : Told(names, j)' <=> Told(names, j)
    BY <2>1, ToldFrame
  <2> QED BY <2>4, <2>5 DEF SameHandled, Handled
<1> QED BY <1>1, <1>2, <1>3, <1>4, <1>5 DEF Onward

LEMMA WonCallsFinite ==
  ASSUME world \in World
  PROVE  IsFiniteSet(WonCalls) /\ IsFiniteSet(Calls) /\ Cardinality(Calls) = Len(world.chain)
         /\ WonCalls \subseteq Calls
<1>1. Len(world.chain) \in Nat /\ Calls = 1 .. Len(world.chain)
  BY WorldFacts
<1>2. IsFiniteSet(Calls) /\ Cardinality(Calls) = Len(world.chain)
  BY <1>1, FS_Interval
<1>3. WonCalls \subseteq Calls
  BY DEF WonCalls
<1> QED BY <1>2, <1>3, FS_Subset

LEMMA WonSame ==
  ASSUME world \in World, UNCHANGED world, SameHandled
  PROVE  WonCalls' = WonCalls
<1>1. Calls' = Calls /\ \A i \in Calls, d \in 1 .. 2 : <<i, d>> \in Keys
  BY CallsStay, WorldFacts
<1>2. \A i \in Calls, d \in 1 .. 2 :
         Handled({"tool.end"}, <<i, d>>)' <=> Handled({"tool.end"}, <<i, d>>)
  BY <1>1 DEF SameHandled
<1> QED BY <1>1, <1>2 DEF WonCalls

\* A run that has not failed had not failed before.
LEMMA UnfailedBefore ==
  ASSUME TypesInv, AgendaInv, Onward, Unfailed', Events
  PROVE  /\ Unfailed /\ ended' = ended /\ UNCHANGED world /\ Live'
         /\ outcome' = "run.end" => outcome = "run.end" \/ ended = Len(world.chain)
<1>0. "raised" # "run.end" /\ "lost" # "run.end" /\ "closed" # "run.end" /\ None # "run.end"
  BY PlanRunAssumption
<1>1. <<>> \notin Failing /\ <<Do("plan")>> \notin Failing /\ <<Do("launch")>> \notin Failing
  BY HeadFacts, StepIs, Heads DEF BeginsFailing
<1>2. ASSUME UNCHANGED world PROVE Failing' = Failing
  BY <1>2, AgendasStay
<1>3. pc \in {"go", "yield", "gather", "drain", "flush"} => Live
  BY DEF AgendaInv
<1>4. outcome = "run.end" \/ outcome = None => Live
  BY DEF Live
<1>5. Failure \in Failing
  BY DEF Failing
<1>6. CASE Moves
  <2>1. UNCHANGED <<world, ended>>
    BY <1>6, MovesAre
  <2>2. CASE MakePlan \/ AllEnded
    <3>1. /\ pc = "go" /\ (agenda = <<Do("plan")>> \/ agenda = <<>>)
          /\ outcome' = outcome \/ (outcome' = "run.end" /\ ended = Len(world.chain))
      BY <2>2, DoingWhat DEF MakePlan, AllEnded, Goes, Stops, Doing
    <3> QED BY <1>1, <1>3, <2>1, <3>1 DEF Unfailed, Live
  <2>3. CASE PlanFails \/ LaunchRefused \/ Gathered \/ Drained \/ Flush
    <3>1. outcome' = outcome /\ outcome = None /\ (pc' = "go" => agenda' = Failure) /\ pc' # "yield"
      <4>1. CASE PlanFails \/ LaunchRefused
        BY <4>1, DoingWhat DEF PlanFails, LaunchRefused, Goes
      <4>2. CASE Gathered \/ Drained \/ Flush
        BY <4>2 DEF Gathered, Drained, Flush, Goes, AgendaInv
      <4> QED BY <2>3, <4>1, <4>2
    <3> QED BY <1>0, <1>2, <1>5, <2>1, <3>1 DEF Unfailed
  <2>4. CASE Raise \/ PersistFails \/ FallbackUnknown
    <3>1. outcome' \in {"raised", "lost"} /\ pc' = "finally"
      BY <2>4 DEF Raise, PersistFails, FallbackUnknown, Stops
    <3> QED BY <1>0, <3>1 DEF Unfailed
  <2>5. CASE Leave
    <3>1. outcome' = outcome /\ (outcome = "run.end" \/ pc' = "over")
      BY <2>5 DEF Leave, Goes
    <3> QED BY <2>1, <3>1 DEF Unfailed, Live
  <2>6. CASE Finish
    <3>1. outcome' = outcome /\ outcome = "run.end"
      BY <2>6, DoingWhat DEF Finish, Goes
    <3> QED BY <2>1, <3>1 DEF Unfailed, Live
  <2> QED BY <1>6, <2>2, <2>3, <2>4, <2>5, <2>6 DEF Moves
<1>7. CASE UNCHANGED vars
  <2>1. UNCHANGED <<world, ended, pc, agenda, outcome>>
    BY <1>7 DEF vars
  <2> QED BY <1>2, <1>3, <1>4, <2>1 DEF Unfailed, Live
<1>8. ASSUME NEW w \in Workers, WorkerSteps(w)
      PROVE  /\ Unfailed /\ ended' = ended /\ UNCHANGED world /\ Live'
             /\ outcome' = outcome
  <2>1. UNCHANGED <<world, ended>>
        /\ (UNCHANGED <<pc, agenda, outcome>> \/ (pc' = "finally" /\ outcome' = "raised"))
    BY <1>8, WorkerLeaves DEF streamVars
  <2> QED BY <1>0, <1>2, <1>3, <1>4, <2>1 DEF Unfailed, Live
<1>9. CASE Abort
  <2>1. outcome' = outcome /\ outcome = None /\ pc' = "gather"
    BY <1>9, DoingWhat DEF Abort, Goes
  <2> QED BY <1>0, <2>1 DEF Unfailed
<1>10. CASE Finally
  <2>1. outcome' = outcome /\ pc' = "leaving" /\ UNCHANGED <<world, ended>>
    BY <1>10 DEF Finally, Goes
  <2> QED BY <1>0, <1>4, <2>1 DEF Unfailed, Live
<1>11. CASE Launch
  <2>1. outcome' = outcome /\ pc = "go" /\ agenda = <<Do("launch")>> /\ UNCHANGED <<world, ended>>
    BY <1>11, DoingWhat DEF Launch, Goes, Doing
  <2> QED BY <1>1, <1>3, <2>1 DEF Unfailed, Live
<1>12. CASE Taken
  <2>1. outcome' = outcome /\ pc = "yield" /\ agenda' = agenda /\ UNCHANGED <<world, ended>>
    BY <1>12 DEF Taken, Goes
  <2> QED BY <1>2, <1>3, <2>1, <1>4 DEF Unfailed, Live
<1>13. CASE Persist
  <2>1. outcome' = outcome /\ pc = "go" /\ pc' = "yield" /\ agenda' = Tail(agenda)
        /\ UNCHANGED <<world, ended>> /\ Doing("emit")
    BY <1>13 DEF Persist, Goes, Doing
  <2>2. ASSUME agenda \in Failing PROVE Tail(agenda) \in Failing
    <3>1. agenda = Aborting => ~Doing("emit")
      BY StepIs, Heads DEF Aborting, Doing
    <3>2. agenda = <<Do("raise")>> => ~Doing("emit")
      BY StepIs, Heads DEF Doing
    <3>3. CASE agenda = Failure
      BY <3>3, Tails DEF Failure, Failing
    <3>4. ASSUME NEW n, NEW k, agenda = Ending(n, k) PROVE Tail(agenda) \in Failing
      BY <3>4, Tails DEF Ending, Aborting, Failing
    <3> QED BY <2>1, <2>2, <3>1, <3>2, <3>3, <3>4 DEF Failing
  <2> QED BY <1>2, <1>3, <1>4, <2>1, <2>2 DEF Unfailed, Live
<1> QED BY <1>6, <1>7, <1>8, <1>9, <1>10, <1>11, <1>12, <1>13 DEF Onward

LEMMA CountStep ==
  ASSUME TypesInv, AgendaInv, LedgerInv, TraceInv, Events, Live => PipeInv, CountInv, [Next]_vars
  PROVE  CountInv'
<1>0. "raised" # "run.end" /\ "lost" # "run.end" /\ "closed" # "run.end" /\ None # "run.end"
      /\ world \in World
  BY PlanRunAssumption DEF TypesInv, BaseOK
<1>1. ASSUME ~Unfailed' PROVE CountInv'
  BY <1>1 DEF CountInv, Unfailed
<1>2. CASE Onward
  <2>1. SUFFICES ASSUME Unfailed' PROVE CountInv'
    BY <1>1
  <2>2. /\ Unfailed /\ ended' = ended /\ UNCHANGED world /\ Live'
        /\ outcome' = "run.end" => outcome = "run.end" \/ ended = Len(world.chain)
    BY <1>2, <2>1, UnfailedBefore
  <2>3. SameHandled
    BY <1>2, <2>2, HandledStep
  <2>4. WonCalls' = WonCalls
    BY <1>0, <2>2, <2>3, WonSame
  <2>5. /\ ended = Cardinality(WonCalls)
        /\ outcome = "run.end" => ended = Len(world.chain)
    BY <2>2 DEF CountInv
  <2> QED BY <2>2, <2>4, <2>5 DEF CountInv
<1>3. CASE Drain \/ Indeterminate \/ Close
  <2>1. \/ outcome' = outcome /\ outcome = None /\ pc' = "drain"
        \/ outcome' = "closed" /\ pc' = "finally"
    BY <1>3 DEF Drain, Indeterminate, Close, Stops, AgendaInv, streamVars
  <2>2. ~Unfailed'
    BY <1>0, <2>1 DEF Unfailed
  <2> QED BY <1>1, <2>2
<1>4. CASE Get
  <2>1. /\ pc = "go" /\ agenda = <<>> /\ queue # <<>> /\ queue' = Tail(queue) /\ UNCHANGED world
        /\ ended' = (IF Final(Head(queue)) THEN ended + 1 ELSE ended)
        /\ pc' = "go" /\ outcome' = outcome /\ agenda' = Handling(Head(queue))
    BY <1>4 DEF Get, Goes
  <2>2. PICK x, k0, kd : x = queue[1] /\ k0 = x.key /\ kd = x.kind
    OBVIOUS
  <2>3. /\ x = Head(queue) /\ x \in ItemType /\ k0 \in Keys /\ kd \in Kinds
        /\ ItemIn(x, Keys, next) /\ 1 \in 1 .. Len(queue)
        /\ k0[1] \in Calls /\ k0[2] \in 1 .. 2 /\ k0 = <<k0[1], k0[2]>>
    <3>1. /\ x = Head(queue) /\ x \in ItemType /\ k0 \in Keys /\ kd \in Kinds
          /\ ItemIn(x, Keys, next) /\ 1 \in 1 .. Len(queue)
      BY <2>1, <2>2, TakenOff DEF ItemType
    <3> QED BY <1>0, <3>1, WorldFacts
  <2>4. outcome # "run.end" /\ Live
    <3>1. agenda \notin Finishing
      BY <2>1, NotFinishing
    <3> QED BY <2>1, <3>1 DEF AgendaInv
  <2>5. PipeInv /\ Shifted(x)
    BY <1>4, <2>2, <2>4, ShiftOfGet
  <2>6. Unfailed
    <3>1. <<>> \notin Failing
      BY HeadFacts DEF BeginsFailing
    <3> QED BY <2>1, <3>1 DEF Unfailed
  <2>7. ended = Cardinality(WonCalls)
    BY <2>6 DEF CountInv
  <2>8. SUFFICES ASSUME Unfailed' PROVE ended' = Cardinality(WonCalls')
    BY <2>1, <2>4 DEF CountInv
  <2>9. agenda' \notin Failing
    <3>1. Failing' = Failing
      BY <2>1, AgendasStay
    <3> QED BY <2>1, <2>4, <2>8, <3>1 DEF Unfailed
  <2>10. \/ kd = "end"
         \/ kd \notin Values /\ ~Final(x)
    <3>1. /\ kd = "preflight" => agenda' = Aborting
          /\ kd = "post" => agenda' = Ending("tool.end", k0)
          /\ kd = "unavailable" /\ ~x.more => agenda' = Ending("tool.error", k0)
          /\ kd = "error" => agenda' = Ending("tool.error", k0) \/ agenda' = <<Do("raise")>>
      BY <2>1, <2>2, <2>3, HandlingIs
    <3>2. /\ Aborting \in Failing /\ <<Do("raise")>> \in Failing
          /\ Ending("tool.end", k0) \in Failing /\ Ending("tool.error", k0) \in Failing
      BY <2>3 DEF Failing
    <3>3. kd \notin {"preflight", "post", "error"} /\ (kd = "unavailable" => x.more)
      BY <2>9, <3>1, <3>2
    <3>4. kd \in {"cooldown", "start"} => x.more
      BY <2>2, <2>3 DEF ItemIn
    <3>5. kd # "end" => kd \in {"cooldown", "start", "unavailable"}
      BY <2>3, <3>3 DEF Kinds, Closers
    <3> QED BY <2>2, <3>3, <3>4, <3>5 DEF Final, Values
  <2>11. Calls' = Calls /\ \A i \in Calls, d \in 1 .. 2 : <<i, d>> \in Keys
    BY <1>0, <2>1, CallsStay, WorldFacts
  <2>12. CASE kd # "end"
    <3>1. kd \notin Values /\ ended' = ended
      BY <2>1, <2>3, <2>10, <2>12
    <3>2. \A i \in Calls, d \in 1 .. 2 :
             Handled({"tool.end"}, <<i, d>>)' <=> Handled({"tool.end"}, <<i, d>>)
      BY <2>2, <2>5, <2>11, <3>1 DEF Shifted
    <3>3. WonCalls' = WonCalls
      BY <2>11, <3>2 DEF WonCalls
    <3> QED BY <2>7, <3>1, <3>3
  <2>13. CASE kd = "end"
    <3>1. Final(x) /\ kd \in Values
      BY <2>2, <2>3, <2>13 DEF ItemIn, Final, Values
    <3>2. ended' = ended + 1
      BY <2>1, <2>3, <3>1
    <3>3. \A i \in Calls, d \in 1 .. 2 :
             Handled({"tool.end"}, <<i, d>>)' <=> Handled({"tool.end"}, <<i, d>>) \/ k0 = <<i, d>>
      BY <2>2, <2>5, <2>11, <3>1 DEF Shifted
    <3>4. WonCalls' = WonCalls \cup {k0[1]}
      <4>1. \A i \in Calls : (\E d \in 1 .. 2 : k0 = <<i, d>>) <=> i = k0[1]
        BY <2>3
      <4> QED BY <2>3, <2>11, <3>3, <4>1 DEF WonCalls
    <3>5. k0[1] \notin WonCalls
      <4>1. InQueue(1, kd, k0) /\ 1 - 1 = 0
        BY <2>2, <2>3 DEF InQueue
      <4>2. Fits(kd, k0, 0)
        BY <2>3, <2>5, <4>1 DEF PipeInv
      <4> QED BY <4>2, FirstPlace DEF Fits, WonCalls
    <3> QED BY <1>0, <2>7, <3>2, <3>4, <3>5, WonCallsFinite, FS_AddElement
  <2> QED BY <2>12, <2>13
<1> QED BY <1>2, <1>3, <1>4, NextIs DEF Onward


-----------------------------------------------------------------------------
(* Before the start and after the end *)

\* Agendas the stream is never at again once it has begun.
LEMMA NoQuiet ==
  \A a : \/ a = <<>>
         \/ a # <<>> /\ Head(a).do \in {"abort", "raise"}
         \/ a # <<>> /\ Head(a).do = "emit" /\ Head(a).name \in ToolNames
         => a \notin Startup /\ a \notin Finishing /\ a # Failure /\ a # RunStart
<1>1. \A a : a \in Startup => BeginsStartup(a)
  BY HeadFacts
<1>2. \A a : a \in Finishing => BeginsFinishing(a)
  BY HeadFacts
<1>3. RunStart \in Startup
  BY DEF RunStart, Startup
<1>4. /\ Failure # <<>> /\ Head(Failure).do = "emit" /\ Head(Failure).name = "run.error"
  BY StepIs, Heads, Lists DEF Failure
<1> QED BY <1>1, <1>2, <1>3, <1>4, NamesOfRun DEF BeginsStartup, BeginsFinishing

LEMMA FailureIs ==
  /\ Failure \notin Startup /\ Failure \notin Finishing /\ Failure # RunStart /\ Failure # <<>>
  /\ Failure \notin {<<Do("raise")>>, <<Do("finish")>>}
<1>1. Failure \in Failing
  BY DEF Failing
<1>2. Failure # <<>> /\ Head(Failure).do = "emit" /\ Head(Failure).name = "run.error"
  BY StepIs, Heads, Lists DEF Failure
<1>3. RunStart \in Startup
  BY DEF RunStart, Startup
<1>4. \A a : a \in {<<Do("raise")>>, <<Do("finish")>>} => Head(a).do # "emit"
  BY StepIs, Heads
<1> QED BY <1>2, <1>3, <1>4, HeadFacts DEF BeginsStartup, BeginsFinishing

\* A run in which nobody moves, or somebody moves who was at work.
LEMMA QuietSame ==
  ASSUME QuietInv, UNCHANGED <<world, streamVars, trace>>,
         AllGone => AllGone' /\ UNCHANGED <<next, queue, reached>>
  PROVE  QuietInv'
<1>1. /\ \A names, k : Told(names, k)' <=> Told(names, k)
      /\ Keys' = Keys /\ Calls' = Calls /\ UNCHANGED <<pc, agenda, outcome>>
      /\ (Concluded' <=> Concluded) /\ Last' = Last
  BY ToldFrame, CallsStay DEF Concluded, Last, streamVars
<1>2. AllClosed' <=> AllClosed
  BY <1>1 DEF AllClosed
<1>3. Settling => Settling'
  BY <1>1, <1>2 DEF Settling
<1>4. QuietAgenda'
  BY <1>1, <1>2 DEF QuietInv, QuietAgenda
<1>5. QuietTrace'
  BY <1>1 DEF QuietInv, QuietTrace
<1>6. QuietEnd'
  BY <1>1, <1>3 DEF QuietInv, QuietEnd
<1> QED BY <1>4, <1>5, <1>6 DEF QuietInv

\* The stream moves on, the workers stay.
LEMMA SettlingSame ==
  ASSUME UNCHANGED <<world, trace, reached>>, AllGone => AllGone'
  PROVE  (Settling => Settling') /\ (Concluded' <=> Concluded) /\ (AllClosed' <=> AllClosed)
<1>1. /\ \A names, k : Told(names, k)' <=> Told(names, k)
      /\ Keys' = Keys /\ Calls' = Calls
      /\ (Concluded' <=> Concluded) /\ Last' = Last
  BY ToldFrame, CallsStay DEF Concluded, Last
<1>2. AllClosed' <=> AllClosed
  BY <1>1 DEF AllClosed
<1> QED BY <1>1, <1>2 DEF Settling

LEMMA QuietStops ==
  ASSUME QuietInv, UNCHANGED <<world, workers, next, queue, trace, reached>>,
         pc' = "finally", agenda' = <<>>, outcome' # "run.end" \/ (pc = "go" /\ agenda = <<>>)
  PROVE  QuietInv'
<1>1. AllGone => AllGone'
  BY DEF AllGone, Gone
<1>2. (Settling => Settling') /\ (Concluded' <=> Concluded)
  BY <1>1, SettlingSame
<1>3. RunStart # <<>> /\ <<Do("raise")>> # <<>> /\ <<Do("finish")>> # <<>>
  BY DEF RunStart
<1>4. QuietAgenda'
  BY DEF QuietAgenda
<1>5. QuietTrace'
  BY <1>3 DEF QuietInv, QuietTrace
<1>6. QuietEnd'
  BY <1>2, <1>3 DEF QuietInv, QuietEnd
<1> QED BY <1>4, <1>5, <1>6 DEF QuietInv

\* The stream goes on after an event that is not the last.
LEMMA QuietGoes ==
  ASSUME QuietAgenda', trace' # <<>>, ~Concluded', ~(pc' = "go" /\ agenda' = RunStart)
  PROVE  QuietInv'
BY DEF QuietInv, QuietTrace, QuietEnd

LEMMA Begun ==
  ASSUME QuietInv, pc \in {"go", "yield", "gather", "drain", "flush"},
         pc = "go" => agenda # RunStart /\ agenda \notin {<<Do("raise")>>, <<Do("finish")>>},
         pc # "yield"
  PROVE  trace # <<>> /\ ~Concluded
BY DEF QuietInv, QuietTrace, QuietEnd


LEMMA QuietOfStart ==
  ASSUME TypesInv, AgendaInv, TraceInv, QuietInv, Events, MakePlan \/ PlanFails \/ LaunchRefused
  PROVE  QuietInv'
<1>1. /\ UNCHANGED <<world, workers, next, queue, trace, reached>>
      /\ pc = "go" /\ pc' = "go" /\ agenda \in {<<Do("plan")>>, <<Do("launch")>>}
      /\ agenda' = <<Emit("plan.end", None), Do("launch")>> \/ agenda' = Failure
  BY DoingWhat DEF MakePlan, PlanFails, LaunchRefused, Goes, Doing, ledger
<1>2. /\ agenda \in Startup /\ agenda # RunStart /\ agenda \notin {<<Do("raise")>>, <<Do("finish")>>}
  <2>1. agenda # <<>> /\ Head(agenda).do \in {"plan", "launch"}
    BY <1>1, StepIs, Heads, Lists
  <2>2. \A a : a \in {<<Do("raise")>>, <<Do("finish")>>, RunStart}
                  => Head(a).do \in {"raise", "finish", "emit"}
    BY StepIs, Heads DEF RunStart
  <2> QED BY <1>1, <2>1, <2>2 DEF Startup
<1>3. AllGone /\ next = 1 /\ queue = <<>>
  BY <1>1, <1>2 DEF QuietInv, QuietAgenda
<1>4. trace # <<>> /\ ~Concluded
  BY <1>1, <1>2, Begun
<1>5. AllClosed
  <2>1. SUFFICES ASSUME NEW k \in Keys, NEW i \in 1 .. Len(trace), trace[i].name = "tool.start",
                        trace[i].key = k
                 PROVE FALSE
    BY DEF AllClosed, Told
  <2>2. trace[i].key[1] < next /\ k[1] \in Calls
    BY <2>1, WorldFacts DEF TraceInv, ToolNames, TypesInv, BaseOK
  <2> QED BY <1>3, <2>1, <2>2 DEF Calls
<1>6. AllGone' /\ next' = 1 /\ queue' = <<>> /\ AllClosed' /\ ~Concluded'
  <2>1. AllGone'
    BY <1>1, <1>3 DEF AllGone, Gone
  <2> QED BY <1>1, <1>3, <1>4, <1>5, <2>1, SettlingSame
<1>7. ~(pc' = "go" /\ agenda' = RunStart)
  <2>1. Head(<<Emit("plan.end", None), Do("launch")>>).name = "plan.end"
        /\ Head(RunStart).name = "run.start"
    BY StepIs, Heads DEF RunStart
  <2> QED BY <1>1, <2>1, FailureIs
<1>8. QuietAgenda'
  BY <1>6 DEF QuietAgenda
<1> QED BY <1>1, <1>4, <1>6, <1>7, <1>8, QuietGoes

LEMMA QuietOfAbort ==
  ASSUME TypesInv, AgendaInv, LedgerInv, TraceInv, QuietInv, Events,
         Abort \/ Gathered \/ Drained \/ Flush
  PROVE  QuietInv'
<1>1. /\ UNCHANGED <<world, next, queue, trace, reached>>
      /\ agenda' = Failure /\ pc \in {"go", "gather", "drain", "flush"}
      /\ pc = "go" => agenda = Aborting
      /\ pc' \in {"gather", "drain", "go", "flush"}
      /\ workers' = workers \/ pc' = "gather"
      /\ pc' = "drain" => AllGone
      /\ pc' \in {"go", "flush"} => pc \in {"drain", "flush"}
      /\ pc' \in {"go", "flush"} /\ pc = "drain" => queue = <<>> /\ started \subseteq closed
  <2>1. CASE Abort
    <3>1. agenda = Aborting
      BY <2>1, DoingWhat DEF Abort
    <3>2. Tail(Aborting) = Failure
      BY Tails DEF Aborting, Failure
    <3> QED BY <2>1, <3>1, <3>2 DEF Abort, Goes, Doing, ledger
  <2>2. CASE Gathered \/ Drained \/ Flush
    <3>1. agenda = Failure
      BY <2>2 DEF Gathered, Drained, Flush, AgendaInv
    <3>2. CASE Gathered
      BY <3>1, <3>2 DEF Gathered, Goes, ledger
    <3>3. CASE Drained
      BY <3>1, <3>3 DEF Drained, Goes, ledger
    <3>4. CASE Flush
      BY <3>1, <3>4 DEF Flush, Goes
    <3> QED BY <2>2, <3>2, <3>3, <3>4
  <2> QED BY <2>1, <2>2
<1>2. trace # <<>> /\ ~Concluded
  <2>1. agenda = Aborting => agenda # RunStart /\ agenda \notin {<<Do("raise")>>, <<Do("finish")>>}
    <3>1. Head(Aborting).do = "abort" /\ Head(RunStart).do = "emit"
          /\ Head(<<Do("raise")>>).do = "raise" /\ Head(<<Do("finish")>>).do = "finish"
      BY StepIs, Heads DEF Aborting, RunStart
    <3> QED BY <3>1
  <2> QED BY <1>1, <2>1, Begun
<1>3. pc' \in {"go", "flush", "drain"} => AllGone'
  <2>1. pc' \in {"go", "flush", "drain"} => AllGone /\ workers' = workers
    BY <1>1 DEF QuietInv, QuietAgenda
  <2> QED BY <2>1 DEF AllGone, Gone
<1>4. pc' \in {"go", "flush"} => queue' = <<>> /\ AllClosed
  <2>1. pc = "flush" => queue = <<>> /\ AllClosed
    BY DEF QuietInv, QuietAgenda
  <2>2. ASSUME pc = "drain", started \subseteq closed PROVE AllClosed
    BY <2>2 DEF LedgerInv, Booked, AllClosed
  <2> QED BY <1>1, <2>1, <2>2
<1>5. ~Concluded' /\ (AllClosed => AllClosed')
  <2>1. /\ \A names, k : Told(names, k)' <=> Told(names, k)
        /\ Keys' = Keys /\ (Concluded' <=> Concluded)
    BY <1>1, ToldFrame, CallsStay DEF Concluded
  <2> QED BY <1>2, <2>1 DEF AllClosed
<1>6. QuietAgenda'
  BY <1>1, <1>3, <1>4, <1>5, FailureIs DEF QuietAgenda
<1> QED BY <1>1, <1>2, <1>5, <1>6, FailureIs, QuietGoes

LEMMA QuietOfOne ==
  ASSUME TypesInv, AgendaInv, QuietInv, Events, Launch \/ Get
  PROVE  QuietInv'
<1>1. /\ UNCHANGED <<world, trace>> /\ pc = "go" /\ pc' = "go"
      /\ agenda = <<>> \/ agenda = <<Do("launch")>>
      /\ agenda' = <<>> \/ (agenda' = Handling(Head(queue)) /\ queue # <<>>)
  <2>1. CASE Launch
    BY <2>1, DoingWhat DEF Launch, Goes, Doing, ledger
  <2>2. CASE Get
    BY <2>2 DEF Get, Goes, ledger
  <2> QED BY <2>1, <2>2
<1>2. trace # <<>> /\ ~Concluded
  <2>1. agenda # RunStart /\ agenda \notin {<<Do("raise")>>, <<Do("finish")>>}
    <3>1. Head(<<Do("launch")>>).do = "launch" /\ Head(RunStart).do = "emit"
          /\ Head(<<Do("raise")>>).do = "raise" /\ Head(<<Do("finish")>>).do = "finish"
      BY StepIs, Heads DEF RunStart
    <3> QED BY <1>1, <3>1, Lists DEF RunStart
  <2> QED BY <1>1, <2>1, Begun
<1>3. \/ agenda' = <<>>
      \/ agenda' # <<>> /\ Head(agenda').do \in {"abort", "raise"}
      \/ agenda' # <<>> /\ Head(agenda').do = "emit" /\ Head(agenda').name \in ToolNames
  <2>1. SUFFICES ASSUME agenda' = Handling(Head(queue)), queue # <<>>
                 PROVE  \/ agenda' # <<>> /\ Head(agenda').do \in {"abort", "raise"}
                        \/ agenda' # <<>> /\ Head(agenda').do = "emit" /\ Head(agenda').name \in ToolNames
    BY <1>1
  <2>2. PICK x, k, kd : x = Head(queue) /\ k = x.key /\ kd = x.kind
    OBVIOUS
  <2>3. x \in ItemType /\ kd \in Kinds
    <3>1. queue[1] = x /\ 1 \in 1 .. Len(queue)
      BY <2>1, <2>2 DEF TypesInv, QueueOK
    <3>2. x \in ItemType
      BY <2>2, <3>1 DEF TypesInv, QueueOK
    <3> QED BY <2>2, <3>2 DEF ItemType
  <2>4. x.more \in BOOLEAN
    BY <2>3 DEF ItemType
  <2>5. \/ agenda' = Aborting \/ agenda' = <<Do("raise")>>
        \/ \E n \in {"tool.start", "tool.end", "tool.error", "tool.fallback"} :
              \/ agenda' = <<Emit(n, k)>> \/ agenda' = Ending(n, k)
              \/ agenda' = <<Emit(n, k), Emit("tool.fallback", k)>>
    BY <2>1, <2>2, <2>3, <2>4, HandlingIs DEF Kinds, Closers
  <2> QED BY <2>5, StepIs, Heads, Lists DEF Aborting, Ending, ToolNames, Enders
<1>4. agenda' \notin Startup /\ agenda' \notin Finishing /\ agenda' # Failure /\ agenda' # RunStart
  BY <1>3, NoQuiet
<1>5. QuietAgenda'
  BY <1>1, <1>4 DEF QuietAgenda
<1>6. ~Concluded' /\ trace' # <<>>
  BY <1>1, <1>2 DEF Concluded
<1> QED BY <1>4, <1>5, <1>6, QuietGoes


\* The last event: the run is over, and what it says of itself is so.
LEMMA SettlingOfFailure ==
  ASSUME TypesInv, TraceInv, PipeInv, QuietInv, NothingDue, pc = "go", agenda = Failure
  PROVE  /\ AllGone /\ AllClosed
         /\ \A k \in Keys : reached[k] # "no" => Told({"tool.start"}, k)
<1>1. AllGone /\ queue = <<>> /\ AllClosed
  BY DEF QuietInv, QuietAgenda
<1>2. ASSUME NEW k \in Keys, reached[k] # "no" PROVE Told({"tool.start"}, k)
  <2>1. Opened(0, k)
    <3>1. Len(queue) = 0 /\ 0 \in 0 .. Len(queue)
      BY <1>1
    <3> QED BY <1>2, <3>1 DEF PipeInv
  <2>2. Handled({"tool.start"}, k)
    BY <2>1, FirstPlace
  <2>3. ~Due({"tool.start"}, k)
    BY DEF NothingDue, Due, ToolNames
  <2> QED BY <2>2, <2>3 DEF Handled
<1> QED BY <1>1, <1>2

LEMMA SettlingOfEnd ==
  ASSUME TypesInv, AgendaInv, TraceInv, PipeInv, CountInv, QuietInv, NothingDue,
         pc = "go", agenda \in Finishing, Events
  PROVE  /\ AllGone /\ AllClosed
         /\ \A k \in Keys : reached[k] # "no" => Told({"tool.start"}, k)
         /\ \A i \in Calls : \E d \in 1 .. 2 : Told({"tool.end"}, <<i, d>>)
<1>0. world \in World
  BY DEF TypesInv, BaseOK
<1>1. AllGone
  BY DEF QuietInv, QuietAgenda
<1>2. outcome = "run.end"
  BY DEF AgendaInv
<1>3. WonCalls = Calls
  <2>1. Cardinality(WonCalls) = Len(world.chain)
    BY <1>2 DEF CountInv, Unfailed
  <2> QED BY <1>0, <2>1, WonCallsFinite, FS_Subset
<1>4. \A k : Handled({"tool.start"}, k) => Told({"tool.start"}, k)
  BY DEF Handled, NothingDue, Due, ToolNames
<1>5. \A k : Handled(Enders, k) => Told(Enders, k)
  BY DEF Handled, NothingDue, Due, ToolNames
<1>6. \A k : Handled({"tool.end"}, k) => Told({"tool.end"}, k)
  BY DEF Handled, NothingDue, Due, ToolNames, Enders
<1>7. \A i \in Calls : \E d \in 1 .. 2 : Handled({"tool.end"}, <<i, d>>)
  BY <1>3 DEF WonCalls
<1>8. AllClosed
  <2>1. SUFFICES ASSUME NEW k \in Keys, Told({"tool.start"}, k) PROVE Told(Enders, k)
    BY DEF AllClosed
  <2>2. PICK i, c : i \in Calls /\ c \in 1 .. 2 /\ k = <<i, c>>
    BY <1>0, WorldFacts
  <2>3. PICK d \in 1 .. 2 : Handled({"tool.end"}, <<i, d>>)
    BY <1>7, <2>2
  <2>4. Handled({"tool.start"}, <<i, c>>)
    BY <2>1, <2>2 DEF Handled
  <2>5. Handled(Enders, <<i, c>>)
    BY <2>2, <2>3, <2>4 DEF PipeInv
  <2> QED BY <1>5, <2>2, <2>5
<1>9. ASSUME NEW k \in Keys, reached[k] # "no" PROVE Told({"tool.start"}, k)
  <2>0. PICK m : m = Len(queue)
    OBVIOUS
  <2>1. m \in 0 .. Len(queue)
    BY <2>0 DEF TypesInv, QueueOK
  <2>2. Opened(m, k)
    BY <1>9, <2>0, <2>1 DEF PipeInv
  <2>3. ASSUME Queued(m, {"start"}, k) PROVE FALSE
    <3>1. PICK p \in 1 .. m : queue[p].kind = "start" /\ queue[p].key = k
      BY <2>3 DEF Queued
    <3>2. InQueue(p, "start", k) /\ p \in 1 .. Len(queue) /\ "start" \in Kinds
      BY <2>0, <3>1 DEF InQueue, Kinds
    <3>3. Fits("start", k, p - 1)
      BY <3>2 DEF PipeInv
    <3>4. PICK i, d : i \in Calls /\ d \in 1 .. 2 /\ i = k[1] /\ Handled({"tool.end"}, <<i, d>>)
      BY <1>0, <1>7, WorldFacts
    <3> QED BY <3>3, <3>4 DEF Fits, Won
  <2> QED BY <1>4, <2>2, <2>3 DEF Opened
<1> QED BY <1>1, <1>6, <1>7, <1>8, <1>9

LEMMA QuietOfEmit ==
  ASSUME TypesInv, AgendaInv, LedgerInv, TraceInv, Live => PipeInv, CountInv, QuietInv, Events,
         Doing("emit"), UNCHANGED <<world, workers, next, queue, reached>>,
         trace' = Append(trace, Event(Head(agenda).name, Head(agenda).key)),
         \/ pc' = "yield" /\ agenda' = Tail(agenda)
         \/ pc' = "finally" /\ agenda' = <<>> /\ outcome' # "run.end"
  PROVE  QuietInv'
<1>1. PICK n, k0 : n = Head(agenda).name /\ k0 = Head(agenda).key
  OBVIOUS
<1>2. Appends(n, k0)
  BY <1>1 DEF Appends, Event
<1>3. trace' # <<>> /\ Last' = n
  <2>1. Len(trace') \in Nat /\ Len(trace') > 0 /\ trace'[Len(trace')].name = n
    BY <1>2, AppendedIs
  <2> QED BY <2>1 DEF Last
<1>4. \A names, j : Told(names, j)' <=> Told(names, j) \/ (n \in names /\ k0 = j)
  BY <1>2, ToldAppend
<1>5. pc = "go" /\ agenda # <<>> /\ Live /\ PipeInv
  <2>1. Live /\ pc = "go" /\ agenda # <<>>
    BY DEF Doing, AgendaInv
  <2> QED BY <2>1
<1>6. AllGone => AllGone'
  BY DEF AllGone, Gone
<1>7. \/ /\ n = "run.start" /\ agenda = RunStart /\ Tail(agenda) = <<Do("plan")>>
      \/ /\ n = "plan.end" /\ agenda = <<Emit("plan.end", None), Do("launch")>>
         /\ Tail(agenda) = <<Do("launch")>>
      \/ /\ n = "run.end" /\ agenda = <<Emit("run.end", None), Do("finish")>>
         /\ Tail(agenda) = <<Do("finish")>>
      \/ n = "run.error" /\ agenda = Failure /\ Tail(agenda) = <<Do("raise")>>
      \/ /\ n \in ToolNames
         /\ \/ Tail(agenda) = <<>> \/ Tail(agenda) = Aborting
            \/ \E k : Tail(agenda) = <<Emit("tool.fallback", k)>>
  <2>1. CASE agenda = <<Emit("run.start", None), Do("plan")>>
    BY <1>1, <2>1, StepIs, Heads, Tails DEF RunStart
  <2>2. CASE agenda = <<Emit("plan.end", None), Do("launch")>>
    BY <1>1, <2>2, StepIs, Heads, Tails
  <2>3. CASE agenda = <<Emit("run.end", None), Do("finish")>>
    BY <1>1, <2>3, StepIs, Heads, Tails
  <2>4. CASE agenda = Failure
    BY <1>1, <2>4, StepIs, Heads, Tails DEF Failure
  <2>5. ASSUME NEW m \in {"tool.start", "tool.end", "tool.fallback"}, NEW k, agenda = <<Emit(m, k)>>
        PROVE  n \in ToolNames /\ Tail(agenda) = <<>>
    BY <1>1, <2>5, StepIs, Heads, Tails DEF ToolNames, Enders
  <2>6. ASSUME NEW k, agenda = <<Emit("tool.error", k), Emit("tool.fallback", k)>>
        PROVE  n \in ToolNames /\ Tail(agenda) = <<Emit("tool.fallback", k)>>
    BY <1>1, <2>6, StepIs, Heads, Tails DEF ToolNames, Enders
  <2>7. ASSUME NEW m \in {"tool.end", "tool.error"}, NEW k, agenda = Ending(m, k)
        PROVE  n \in ToolNames /\ Tail(agenda) = Aborting
    <3>1. Head(Ending(m, k)) = Emit(m, k) /\ Tail(Ending(m, k)) = Aborting
      BY Heads, Tails DEF Ending, Aborting
    <3> QED BY <1>1, <2>7, <3>1, StepIs DEF ToolNames, Enders
  <2> QED BY <2>1, <2>2, <2>3, <2>4, <2>5, <2>6, <2>7, EmitWhat
<1>8. QuietAgenda'
  <2>1. CASE pc' = "finally"
    BY <2>1 DEF QuietAgenda
  <2>2. CASE pc' = "yield" /\ agenda' = Tail(agenda)
    <3>1. agenda' \in Startup => AllGone /\ next = 1 /\ queue = <<>>
      <4>1. CASE n \in {"run.start", "plan.end"}
        <5>1. agenda \in Startup
          BY <1>7, <4>1, NamesOfRun DEF RunStart, Startup
        <5> QED BY <1>5, <5>1 DEF QuietInv, QuietAgenda
      <4>2. CASE n \notin {"run.start", "plan.end"}
        <5>1. \/ agenda' = <<Do("finish")>> \/ agenda' = <<Do("raise")>> \/ agenda' = <<>>
              \/ agenda' = Aborting \/ \E k : agenda' = <<Emit("tool.fallback", k)>>
          BY <1>7, <2>2, <4>2
        <5>2. ~BeginsStartup(agenda')
          BY <5>1, StepIs, Heads DEF BeginsStartup, Aborting
        <5> QED BY <5>2, HeadFacts
      <4> QED BY <4>1, <4>2
    <3>2. agenda' \in Finishing => AllGone
      <4>1. CASE n = "run.end"
        <5>1. agenda \in Finishing
          BY <1>7, <4>1, NamesOfRun DEF Finishing
        <5> QED BY <1>5, <5>1 DEF QuietInv, QuietAgenda
      <4>2. CASE n # "run.end"
        <5>1. \/ agenda' = <<Do("plan")>> \/ agenda' = <<Do("launch")>>
              \/ agenda' = <<Do("raise")>> \/ agenda' = <<>>
              \/ agenda' = Aborting \/ \E k : agenda' = <<Emit("tool.fallback", k)>>
          BY <1>7, <2>2, <4>2
        <5>2. ~BeginsFinishing(agenda')
          BY <5>1, StepIs, Heads DEF BeginsFinishing, Aborting
        <5> QED BY <5>2, HeadFacts
      <4> QED BY <4>1, <4>2
    <3> QED BY <1>6, <2>2, <3>1, <3>2 DEF QuietAgenda
  <2> QED BY <2>1, <2>2
<1>9. ~(pc' = "go" /\ agenda' = RunStart)
  OBVIOUS
<1>10. CASE n \notin {"run.end", "run.error"}
  <2>1. ~Concluded'
    BY <1>3, <1>10 DEF Concluded, Last
  <2> QED BY <1>3, <1>8, <1>9, <2>1, QuietGoes
<1>11. CASE n \in {"run.end", "run.error"}
  <2>1. NothingDue
    <3>1. n \notin ToolNames
      BY <1>11, NamesOfRun
    <3> QED BY <1>1, <3>1, NothingIsDue
  <2>2. /\ AllGone /\ AllClosed
        /\ \A k \in Keys : reached[k] # "no" => Told({"tool.start"}, k)
        /\ n = "run.end" => \A i \in Calls : \E d \in 1 .. 2 : Told({"tool.end"}, <<i, d>>)
    <3>1. CASE n = "run.error"
      <4>1. agenda = Failure
        BY <1>7, <3>1, NamesOfRun
      <4> QED BY <1>5, <2>1, <3>1, <4>1, SettlingOfFailure
    <3>2. CASE n = "run.end"
      <4>1. agenda \in Finishing
        BY <1>7, <3>2, NamesOfRun DEF Finishing
      <4> QED BY <1>5, <2>1, <4>1, SettlingOfEnd
    <3> QED BY <1>11, <3>1, <3>2
  <2>3. \A names \in {{"tool.start"}, {"tool.end"}, Enders} : \A j : Told(names, j)' <=> Told(names, j)
    BY <1>4, <1>11 DEF Enders
  <2>4. Settling'
    <3>1. Keys' = Keys /\ Calls' = Calls
      BY CallsStay
    <3>2. AllClosed'
      BY <2>2, <2>3, <3>1 DEF AllClosed
    <3> QED BY <1>3, <1>6, <2>2, <2>3, <3>1, <3>2 DEF Settling
  <2>5. pc' = "yield" => agenda' \in {<<Do("raise")>>, <<Do("finish")>>}
    BY <1>7, <1>11, NamesOfRun
  <2>6. QuietEnd'
    BY <2>4, <2>5 DEF QuietEnd
  <2>7. QuietTrace'
    BY <1>3, <1>9 DEF QuietTrace
  <2> QED BY <1>8, <2>6, <2>7 DEF QuietInv
<1> QED BY <1>10, <1>11


LEMMA QuietOfDrain ==
  ASSUME TypesInv, AgendaInv, TraceInv, QuietInv, Events, Drain \/ Indeterminate
  PROVE  QuietInv'
<1>1. /\ UNCHANGED <<world, pc, agenda, workers>> /\ pc = "drain"
      /\ \/ UNCHANGED trace
         \/ \E n \in ToolNames : \E k : Appends(n, k)
  <2>1. CASE Indeterminate
    <3>1. PICK k \in started \ closed : trace' = Append(trace, Event("indeterminate", k))
      BY <2>1 DEF Indeterminate
    <3>2. PICK n : n = "indeterminate"
      OBVIOUS
    <3>3. Appends(n, k) /\ n \in ToolNames
      BY <3>1, <3>2 DEF Appends, Event, ToolNames, Enders
    <3> QED BY <2>1, <3>3 DEF Indeterminate, streamVars
  <2>2. CASE Drain
    <3>1. PICK item : item = Head(queue)
      OBVIOUS
    <3>2. IF LeftOver(item) = {} THEN UNCHANGED <<started, closed, sequence, trace>>
          ELSE \E name \in LeftOver(item) :
                   trace' = Append(trace, Event(name, item.key)) /\ Account(Event(name, item.key))
      BY <2>2, <3>1 DEF Drain
    <3>3. LeftOver(item) \subseteq ToolNames
      BY DEF LeftOver, ToolNames, Enders
    <3>4. ASSUME NEW n \in LeftOver(item), trace' = Append(trace, Event(n, item.key))
          PROVE  n \in ToolNames /\ Appends(n, item.key)
      BY <3>3, <3>4 DEF Appends, Event
    <3>5. UNCHANGED trace \/ \E n \in ToolNames : \E k : Appends(n, k)
      BY <3>2, <3>4
    <3> QED BY <2>2, <3>5 DEF Drain, streamVars
  <2> QED BY <2>1, <2>2
<1>2. trace # <<>> /\ ~Concluded
  BY <1>1, Begun
<1>3. trace' # <<>> /\ ~Concluded'
  <2>1. CASE UNCHANGED trace
    BY <1>2, <2>1 DEF Concluded
  <2>2. ASSUME NEW n \in ToolNames, NEW k, Appends(n, k) PROVE trace' # <<>> /\ ~Concluded'
    <3>1. Len(trace') \in Nat /\ Len(trace') > 0 /\ trace'[Len(trace')].name = n
      BY <2>2, AppendedIs
    <3> QED BY <3>1, NamesOfRun DEF Concluded
  <2> QED BY <1>1, <2>1, <2>2
<1>4. QuietAgenda'
  <2>1. AllGone'
    BY <1>1 DEF QuietInv, QuietAgenda, AllGone, Gone
  <2> QED BY <1>1, <2>1 DEF QuietAgenda
<1> QED BY <1>1, <1>3, <1>4, QuietGoes

LEMMA QuietOfTaken ==
  ASSUME TypesInv, AgendaInv, TraceInv, QuietInv, Events, Taken
  PROVE  QuietInv'
<1>1. /\ UNCHANGED <<world, workers, next, queue, trace, reached, outcome>>
      /\ pc = "yield" /\ pc' = "go" /\ agenda' = agenda
  BY DEF Taken, Goes
<1>2. agenda # Failure /\ agenda # RunStart
  <2>1. \/ agenda \in {<<Do("plan")>>, <<Do("launch")>>, <<Do("finish")>>, <<Do("raise")>>, Aborting}
        \/ agenda = <<>>
        \/ \E k : agenda = <<Emit("tool.fallback", k)>>
    BY <1>1 DEF AgendaInv, OneEvent
  <2>2. \/ agenda = <<>> \/ Head(agenda).do # "emit"
        \/ Head(agenda).name = "tool.fallback"
    BY <2>1, StepIs, Heads DEF Aborting
  <2>3. /\ Head(RunStart).do = "emit" /\ Head(RunStart).name = "run.start" /\ RunStart # <<>>
        /\ Head(Failure).do = "emit" /\ Head(Failure).name = "run.error" /\ Failure # <<>>
    BY StepIs, Heads, Lists DEF RunStart, Failure
  <2> QED BY <2>2, <2>3
<1>3. AllGone => AllGone'
  BY <1>1 DEF AllGone, Gone
<1>4. (Settling => Settling') /\ (Concluded' <=> Concluded)
  BY <1>1, <1>3, SettlingSame
<1>5. QuietAgenda'
  BY <1>1, <1>2, <1>3 DEF QuietInv, QuietAgenda
<1>6. QuietTrace'
  BY <1>1, <1>2 DEF QuietInv, QuietTrace
<1>7. QuietEnd'
  BY <1>1, <1>4 DEF QuietInv, QuietEnd
<1> QED BY <1>5, <1>6, <1>7 DEF QuietInv

LEMMA QuietOfEnd ==
  ASSUME TypesInv, AgendaInv, QuietInv, Events, Finally \/ Leave \/ Finish
  PROVE  QuietInv'
<1>1. /\ UNCHANGED <<world, next, queue, trace, reached, outcome>>
      /\ \/ pc = "finally" /\ pc' = "leaving"
         \/ pc = "leaving" /\ pc' = "over" /\ AllGone /\ workers' = workers
         \/ /\ pc = "leaving" /\ pc' = "go" /\ AllGone /\ workers' = workers
            /\ agenda' = <<Emit("run.end", None), Do("finish")>> /\ outcome = "run.end"
         \/ pc = "go" /\ agenda = <<Do("finish")>> /\ pc' = "over" /\ workers' = workers
  <2>1. CASE Finally
    BY <2>1 DEF Finally, Goes, ledger
  <2>2. CASE Leave
    BY <2>2 DEF Leave, Goes, ledger
  <2>3. CASE Finish
    BY <2>3, DoingWhat DEF Finish, Goes, ledger, Doing
  <2> QED BY <2>1, <2>2, <2>3
<1>2. AllGone => AllGone'
  <2>1. CASE workers' = workers
    BY <2>1 DEF AllGone, Gone
  <2>2. CASE Finally
    <3>1. workers' = Cancelled
      BY <2>2 DEF Finally
    <3> QED BY <3>1, CancelledIs DEF AllGone, Gone
  <2> QED BY <2>1, <2>2 DEF Leave, Finish
<1>3. (Settling => Settling') /\ (Concluded' <=> Concluded)
  BY <1>1, <1>2, SettlingSame
<1>4. /\ <<Emit("run.end", None), Do("finish")>> \notin Startup
      /\ <<Emit("run.end", None), Do("finish")>> # Failure
      /\ <<Emit("run.end", None), Do("finish")>> # RunStart
      /\ <<Do("finish")>> # RunStart
  <2>1. PICK a : a = <<Emit("run.end", None), Do("finish")>>
    OBVIOUS
  <2>2. Head(a).do = "emit" /\ Head(a).name = "run.end"
    BY <2>1, StepIs, Heads
  <2>3. ~BeginsStartup(a)
    BY <2>2 DEF BeginsStartup
  <2>4. /\ Head(RunStart).do = "emit" /\ Head(RunStart).name = "run.start"
        /\ Head(Failure).do = "emit" /\ Head(Failure).name = "run.error"
        /\ Head(<<Do("finish")>>).do = "finish"
    BY StepIs, Heads DEF RunStart, Failure
  <2> QED BY <2>1, <2>2, <2>3, <2>4, HeadFacts
<1>5. QuietAgenda'
  BY <1>1, <1>2, <1>4 DEF QuietAgenda
<1>6. QuietTrace'
  BY <1>1, <1>4 DEF QuietInv, QuietTrace
<1>7. QuietEnd'
  BY <1>1, <1>3 DEF QuietInv, QuietEnd
<1> QED BY <1>5, <1>6, <1>7 DEF QuietInv

LEMMA QuietStep ==
  ASSUME TypesInv, AgendaInv, LedgerInv, TraceInv, Events, Live => PipeInv, CountInv, QuietInv,
         [Next]_vars
  PROVE  QuietInv'
<1>1. CASE UNCHANGED vars
  <2>1. UNCHANGED <<world, streamVars, trace, workers, next, queue, reached>>
    BY <1>1 DEF vars, streamVars
  <2>2. AllGone => AllGone'
    BY <2>1 DEF AllGone, Gone
  <2> QED BY <2>1, <2>2, QuietSame
<1>2. ASSUME NEW w \in Workers, WorkerSteps(w) PROVE QuietInv'
  <2>1. /\ UNCHANGED <<world, trace>>
        /\ \/ UNCHANGED streamVars
           \/ /\ pc = "go" /\ agenda = <<>> /\ ~Gone(w)
              /\ pc' = "finally" /\ agenda' = <<>> /\ outcome' = "raised"
        /\ WorkerCancelled(w) \/ ~Gone(w)
    BY <1>2, WorkerLeaves DEF ledger
  <2>2. CASE UNCHANGED streamVars
    <3>1. AllGone => AllGone' /\ UNCHANGED <<next, queue, reached>>
      <4>1. CASE WorkerCancelled(w)
        <5>1. workers' = [workers EXCEPT ![w] = Absent] /\ UNCHANGED <<next, queue, reached>>
          BY <4>1, GoneTypes
        <5>2. DOMAIN workers = Workers
          BY DEF TypesInv, WorkersOK
        <5> QED BY <5>1, <5>2 DEF AllGone, Gone, Absent
      <4>2. CASE ~Gone(w)
        BY <4>2 DEF AllGone
      <4> QED BY <2>1, <4>1, <4>2
    <3> QED BY <2>1, <2>2, <3>1, QuietSame
  <2>3. CASE /\ pc = "go" /\ agenda = <<>> /\ ~Gone(w)
             /\ pc' = "finally" /\ agenda' = <<>> /\ outcome' = "raised"
    <3>1. trace # <<>> /\ ~Concluded
      <4>1. <<>> # RunStart
        BY Lists DEF RunStart
      <4> QED BY <2>3, <4>1, Begun
    <3>2. QuietAgenda'
      BY <2>3 DEF QuietAgenda
    <3>3. trace' # <<>> /\ ~Concluded'
      BY <2>1, <3>1 DEF Concluded
    <3> QED BY <2>3, <3>2, <3>3, QuietGoes
  <2> QED BY <2>1, <2>2, <2>3
<1>3. CASE AllEnded \/ Raise \/ PersistFails \/ FallbackUnknown
  <2>1. /\ UNCHANGED <<world, workers, next, queue, trace, reached>>
        /\ pc' = "finally" /\ agenda' = <<>>
        /\ outcome' # "run.end" \/ (pc = "go" /\ agenda = <<>>)
    BY <1>3, PlanRunAssumption DEF AllEnded, Raise, PersistFails, FallbackUnknown, Stops, ledger
  <2> QED BY <2>1, QuietStops
<1>4. CASE Close
  <2>1. /\ UNCHANGED <<world, workers, next, queue, reached>>
        /\ pc' = "finally" /\ agenda' = <<>> /\ outcome' # "run.end"
    BY <1>4 DEF Close, Stops
  <2>2. CASE Doing("emit")
    <3>1. trace' = Append(trace, Event(Head(agenda).name, Head(agenda).key))
      BY <1>4, <2>2 DEF Close
    <3> QED BY <2>1, <2>2, <3>1, QuietOfEmit
  <2>3. CASE ~Doing("emit")
    <3>1. UNCHANGED trace
      BY <1>4, <2>3 DEF Close
    <3> QED BY <2>1, <3>1, QuietStops
  <2> QED BY <2>2, <2>3
<1>5. CASE Persist
  <2>1. /\ UNCHANGED <<world, workers, next, queue, reached>> /\ Doing("emit")
        /\ pc' = "yield" /\ agenda' = Tail(agenda)
        /\ trace' = Append(trace, Event(Head(agenda).name, Head(agenda).key))
    BY <1>5 DEF Persist, Goes
  <2> QED BY <2>1, QuietOfEmit
<1>6. CASE MakePlan \/ PlanFails \/ LaunchRefused
  BY <1>6, QuietOfStart
<1>7. CASE Abort \/ Gathered \/ Drained \/ Flush
  BY <1>7, QuietOfAbort
<1>8. CASE Launch \/ Get
  BY <1>8, QuietOfOne
<1>9. CASE Drain \/ Indeterminate
  BY <1>9, QuietOfDrain
<1>10. CASE Taken
  BY <1>10, QuietOfTaken
<1>11. CASE Finally \/ Leave \/ Finish
  BY <1>11, QuietOfEnd
<1> QED BY <1>1, <1>2, <1>3, <1>4, <1>5, <1>6, <1>7, <1>8, <1>9, <1>10, <1>11, NextIs DEF Moves


-----------------------------------------------------------------------------
(* The invariant *)

LEMMA OverStep ==
  ASSUME TypesInv, AgendaInv, pc = "over" => AllGone, Events => QuietInv, [Next]_vars, pc' = "over"
  PROVE  AllGone'
<1>1. CASE UNCHANGED vars
  BY <1>1 DEF vars, AllGone, Gone
<1>2. ASSUME NEW w \in Workers, WorkerSteps(w) PROVE AllGone'
  <2>1. pc = "over" /\ (WorkerCancelled(w) \/ ~Gone(w))
    BY <1>2, WorkerLeaves DEF streamVars
  <2>2. WorkerCancelled(w) /\ AllGone
    BY <2>1 DEF AllGone
  <2>3. workers' = [workers EXCEPT ![w] = Absent] /\ DOMAIN workers = Workers
    BY <2>2, GoneTypes DEF TypesInv, WorkersOK
  <2> QED BY <2>2, <2>3 DEF AllGone, Gone, Absent
<1>3. CASE Leave
  BY <1>3 DEF Leave, AllGone, Gone
<1>4. CASE Finish
  <2>1. pc = "go" /\ Events /\ agenda = <<Do("finish")>> /\ workers' = workers
    BY <1>4, DoingWhat DEF Finish, Doing
  <2>2. AllGone
    BY <2>1 DEF QuietInv, QuietAgenda, Finishing
  <2> QED BY <2>1, <2>2 DEF AllGone, Gone
<1>5. ASSUME Moves, ~Leave, ~Finish PROVE FALSE
  BY <1>5 DEF Moves, MakePlan, PlanFails, LaunchRefused, AllEnded, Gathered, Drained, Flush, Raise,
              PersistFails, FallbackUnknown, Goes, Stops
<1>6. CASE Launch \/ Get \/ Persist \/ Taken \/ Abort \/ Close \/ Finally
  BY <1>6 DEF Launch, Get, Persist, Taken, Abort, Close, Finally, Goes, Stops
<1>7. CASE Drain \/ Indeterminate
  BY <1>7 DEF Drain, Indeterminate, streamVars
<1> QED BY <1>1, <1>2, <1>3, <1>4, <1>5, <1>6, <1>7, NextIs

LEMMA InitTypes ==
  ASSUME Init
  PROVE  TypesInv
<1>1. world \in World /\ next = 1 /\ ended = 0 /\ pc = "go" /\ outcome = None /\ queue = <<>>
      /\ workers = [w \in Workers |-> Absent] /\ reached = [k \in Keys |-> "no"]
  BY PlanRunAssumption DEF Init
<1>2. Len(world.chain) \in Nat /\ Capacity \in Nat
  BY <1>1, WorldFacts
<1>3. BaseOK
  BY <1>1, <1>2 DEF BaseOK
<1>4. QueueOK
  BY <1>1, <1>2 DEF QueueOK
<1>5. ReachedOK
  BY <1>1 DEF ReachedOK
<1>6. ASSUME NEW w \in Workers PROVE WorkerOK(w) /\ workers[w].at = "gone" /\ workers[w].items = <<>>
  <2>1. PICK s : s = Absent
    OBVIOUS
  <2>2. s \in States /\ s.at = "gone" /\ s.items = <<>>
    BY <2>1 DEF Absent, States
  <2>3. workers[w] = s /\ Len(s.items) = 0
    BY <1>1, <2>1, <2>2
  <2> QED BY <2>2, <2>3 DEF WorkerOK
<1>7. WorkersOK
  BY <1>1, <1>6 DEF WorkersOK, Owns
<1> QED BY <1>3, <1>4, <1>5, <1>7 DEF TypesInv

LEMMA InitInv ==
  ASSUME Init
  PROVE  RunInv
<1>1. TypesInv
  BY InitTypes
<1>2. /\ world \in World /\ next = 1 /\ ended = 0 /\ pc = "go" /\ outcome = None /\ queue = <<>>
      /\ reached = [k \in Keys |-> "no"] /\ trace = <<>> /\ sequence = 0
      /\ started = {} /\ closed = {}
      /\ Events => agenda = RunStart
      /\ ~Events => agenda = <<Do("launch")>>
  BY PlanRunAssumption DEF Init, RunStart
<1>3. \A w \in Workers : workers[w].at = "gone" /\ workers[w].items = <<>>
  BY DEF Init, Absent
<1>4. \A names, k : ~Told(names, k)
  BY <1>2 DEF Told
<1>5. agenda # <<>> /\ NothingDue
  <2>1. /\ RunStart # <<>> /\ Head(RunStart).name = "run.start"
        /\ <<Do("launch")>> # <<>> /\ Head(<<Do("launch")>>).do = "launch"
    BY StepIs, Heads, Lists DEF RunStart
  <2>2. Head(agenda).do # "emit" \/ Head(agenda).name \notin ToolNames
    BY <1>2, <2>1, NamesOfRun
  <2> QED BY <1>2, <2>1, <2>2, NothingIsDue
<1>6. AgendaInv
  <2>1. None # "run.end" /\ Live
    BY <1>2, PlanRunAssumption DEF Live
  <2>2. Events => agenda \in Startup /\ agenda \notin Finishing
    <3>1. /\ RunStart \in Startup /\ RunStart # <<>>
          /\ Head(RunStart).do = "emit" /\ Head(RunStart).name = "run.start"
      BY StepIs, Heads, Lists DEF RunStart, Startup
    <3> QED BY <1>2, <3>1, NotFinishing
  <2>3. \/ Head(agenda).do # "emit"
        \/ Head(agenda).name \notin ToolNames \cup {"result"}
    <3>1. Head(RunStart).name = "run.start" /\ Head(<<Do("launch")>>).do = "launch"
      BY StepIs, Heads DEF RunStart
    <3> QED BY <1>2, <3>1, NamesOfRun
  <2> QED BY <1>2, <2>1, <2>2, <2>3 DEF AgendaInv
<1>7. LedgerInv
  BY <1>2, <1>4 DEF LedgerInv
<1>8. TraceInv
  BY <1>2, <1>3, <1>4 DEF TraceInv, AtKey
<1>9. PipeInv
  <2>1. \A names \in SUBSET ToolNames : \A k : ~Handled(names, k) /\ ~Due(names, k)
    BY <1>4, <1>5 DEF Handled, NothingDue, Due
  <2>2. \A k : /\ ~Handled({"tool.start"}, k) /\ ~Handled(Enders, k) /\ ~Handled({"tool.end"}, k)
               /\ ~Due({"tool.start"}, k) /\ ~Due(Enders, k)
               /\ ~Due({"tool.end"}, k) /\ ~Due({"tool.error"}, k)
    BY <2>1 DEF ToolNames, Enders
  <2> QED BY <1>2, <1>3, <2>2 DEF PipeInv, InQueue, Front, AtKey
<1>10. CountInv
  <2>1. WonCalls = {}
    <3>1. \A k : ~Handled({"tool.end"}, k)
      BY <1>4, <1>5 DEF Handled, NothingDue, Due, ToolNames, Enders
    <3> QED BY <3>1 DEF WonCalls
  <2> QED BY <1>2, <2>1, FS_EmptySet, PlanRunAssumption DEF CountInv
<1>11. Events => QuietInv
  <2>1. AllGone
    BY <1>3 DEF AllGone, Gone
  <2>2. RunStart \notin Finishing /\ RunStart # Failure
    <3>1. RunStart # <<>> /\ Head(RunStart).do = "emit" /\ Head(RunStart).name = "run.start"
      BY StepIs, Heads, Lists DEF RunStart
    <3> QED BY <3>1, NotFinishing, FailureIs
  <2>3. ~Concluded
    BY <1>2 DEF Concluded
  <2> QED BY <1>2, <2>1, <2>2, <2>3 DEF QuietInv, QuietAgenda, QuietTrace, QuietEnd
<1> QED BY <1>1, <1>2, <1>6, <1>7, <1>8, <1>9, <1>10, <1>11 DEF RunInv

LEMMA InvStep ==
  ASSUME RunInv, [Next]_vars
  PROVE  RunInv'
<1>1. /\ TypesInv /\ AgendaInv /\ LedgerInv /\ TraceInv
      /\ pc = "over" => AllGone
      /\ Events /\ Live => PipeInv
      /\ Events => CountInv /\ QuietInv
  BY DEF RunInv
<1>2. TypesInv' /\ AgendaInv' /\ LedgerInv' /\ TraceInv' /\ (Events' /\ Live' => PipeInv')
  BY <1>1, TypesStep, AgendaStep, LedgerStep, TraceStep, PipeStep
<1>3. UNCHANGED world
  <2>1. CASE UNCHANGED vars
    BY <2>1 DEF vars
  <2>2. CASE \E w \in Workers : WorkerSteps(w)
    BY <1>1, <2>2, WorkerLeaves
  <2>3. CASE Moves
    BY <2>3, MovesAre
  <2>4. CASE \/ Launch \/ Get \/ Persist \/ Taken \/ Abort \/ Drain \/ Indeterminate
             \/ Close \/ Finally
    BY <2>4 DEF Launch, Get, Persist, Taken, Abort, Drain, Indeterminate, Close, Finally
  <2> QED BY <2>1, <2>2, <2>3, <2>4, NextIs
<1>4. Events' <=> Events
  BY <1>3, CallsStay
<1>5. Events => CountInv' /\ QuietInv'
  BY <1>1, CountStep, QuietStep
<1>6. pc' = "over" => AllGone'
  BY <1>1, OverStep
<1> QED BY <1>2, <1>4, <1>5, <1>6 DEF RunInv

\* Every reachable state of a run satisfies the inductive invariant.
THEOREM RunInvariant == Spec => []RunInv
<1>1. Init => RunInv
  BY InitInv
<1>2. RunInv /\ [Next]_vars => RunInv'
  BY InvStep
<1> QED
  BY <1>1, <1>2, PTL DEF Spec


-----------------------------------------------------------------------------
(* What the invariant says of a run *)

\* The stream, its queue and its ledger keep their shapes: the queue never holds
\* more than its capacity, only what was started is closed, no more calls end or
\* are taken than the plan has (astream_events with its workers).
THEOREM RunTypes == Spec => []PlanRunTypeOK
<1>1. RunInv => PlanRunTypeOK
  BY DEF RunInv, TypesInv, BaseOK, QueueOK, LedgerInv, PlanRunTypeOK
<1> QED
  BY <1>1, RunInvariant, PTL

\* Every event the stream persists continues its trace (SQLiteRunTraceStore.append):
\* numbered without gap or repetition also across an abort, run.start first and
\* nothing after run.end or run.error.
THEOREM EveryEventIsAppended == Spec => []TraceIsAppendable
<1>1. RunInv => TraceIsAppendable
  <2> SUFFICES ASSUME TraceInv, Events
               PROVE  /\ \A i \in 1 .. Len(trace) : trace[i].sequence = i - 1
                      /\ \A i \in 1 .. Len(trace) : (trace[i].name = "run.start") <=> (i = 1)
                      /\ \A i \in 1 .. Len(trace) - 1 : trace[i].name \notin {"run.end", "run.error"}
    BY DEF RunInv, TraceIsAppendable
  <2>1. PICK n : n = Len(trace)
    OBVIOUS
  <2>2. n \in Nat
    BY <2>1 DEF TraceInv
  <2>3. \A i \in 1 .. n : /\ trace[i].sequence = i - 1
                          /\ (trace[i].name = "run.start") <=> (i = 1)
                          /\ trace[i].name \in {"run.end", "run.error"} => i = n
    BY <2>1 DEF TraceInv
  <2>4. \A i \in 1 .. n - 1 : i \in 1 .. n /\ i # n
    BY <2>2
  <2> QED
    BY <2>1, <2>3, <2>4
<1> QED
  BY <1>1, RunInvariant, PTL

LEMMA CountIs ==
  ASSUME TraceInv, NEW name \in {"tool.start"} \cup Enders, NEW k \in Keys
  PROVE  Count(name, k) = IF Told({name}, k) THEN 1 ELSE 0
<1> DEFINE S == {i \in 1 .. Len(trace) : trace[i].name = name /\ trace[i].key = k}
<1>1. ASSUME NEW i \in S, NEW j \in S PROVE i = j
  BY <1>1 DEF TraceInv, Enders
<1>2. CASE Told({name}, k)
  <2>1. PICK i \in 1 .. Len(trace) : trace[i].name = name /\ trace[i].key = k
    BY <1>2 DEF Told
  <2>2. S = {i}
    BY <1>1, <2>1
  <2> QED
    BY <1>2, <2>2, FS_Singleton DEF Count
<1>3. CASE ~Told({name}, k)
  <2>1. S = {}
    BY <1>3 DEF Told
  <2> QED
    BY <1>3, <2>1, FS_EmptySet DEF Count
<1> QED
  BY <1>2, <1>3

LEMMA EndingsCounted ==
  ASSUME TraceInv, NEW k \in Keys
  PROVE  Endings(k) = IF Told(Enders, k) THEN 1 ELSE 0
<1>1. Told(Enders, k) <=> \E n \in Enders : Told({n}, k)
  BY DEF Told
<1>2. ASSUME NEW m \in Enders, NEW n \in Enders, Told({m}, k), Told({n}, k) PROVE m = n
  <2>1. PICK i \in 1 .. Len(trace) : trace[i].name = m /\ trace[i].key = k
    BY <1>2 DEF Told
  <2>2. PICK j \in 1 .. Len(trace) : trace[j].name = n /\ trace[j].key = k
    BY <1>2 DEF Told
  <2>3. i = j
    BY <2>1, <2>2 DEF TraceInv
  <2> QED
    BY <2>1, <2>2, <2>3
<1>3. \A n \in Enders : Count(n, k) = IF Told({n}, k) THEN 1 ELSE 0
  BY CountIs
<1>4. Endings(k) = Count("tool.end", k) + Count("tool.error", k) + Count("indeterminate", k)
  BY DEF Endings
<1>5. Enders = {"tool.end", "tool.error", "indeterminate"}
  BY DEF Enders
<1>6. CASE ~Told(Enders, k)
  BY <1>1, <1>3, <1>4, <1>5, <1>6
<1>7. CASE Told(Enders, k)
  <2>1. PICK m \in Enders : Told({m}, k)
    BY <1>1, <1>7
  <2>2. \A n \in Enders : Count(n, k) = IF n = m THEN 1 ELSE 0
    BY <1>2, <1>3, <2>1
  <2> QED
    BY <1>4, <1>5, <1>7, <2>1, <2>2
<1> QED
  BY <1>6, <1>7

\* A candidate is started at most once and closed at most once, only after it was
\* started; once the run has said how it ended every start is closed, also those of
\* the siblings of a call that failed (abort_parallel_siblings).
THEOREM EveryStartIsClosed == Spec => []StartsAreClosed
<1>1. RunInv => StartsAreClosed
  <2> SUFFICES ASSUME RunInv, Events, NEW k \in Keys
               PROVE  /\ Count("tool.start", k) <= 1
                      /\ Endings(k) <= Count("tool.start", k)
                      /\ Concluded => Endings(k) = Count("tool.start", k)
    BY DEF StartsAreClosed
  <2>1. TraceInv /\ QuietInv
    BY DEF RunInv
  <2>2. Count("tool.start", k) = IF Told({"tool.start"}, k) THEN 1 ELSE 0
    BY <2>1, CountIs
  <2>3. Endings(k) = IF Told(Enders, k) THEN 1 ELSE 0
    BY <2>1, EndingsCounted
  <2>4. Told(Enders, k) => Told({"tool.start"}, k)
    BY <2>1 DEF TraceInv
  <2>5. Concluded => (Told({"tool.start"}, k) => Told(Enders, k))
    BY <2>1 DEF QuietInv, QuietEnd, Settling, AllClosed
  <2> QED
    BY <2>2, <2>3, <2>4, <2>5
<1> QED
  BY <1>1, RunInvariant, PTL

\* tool.end stands for a result and tool.error for none; of a concluded run the
\* trace names every candidate that reached its provider, and run.end stands for a
\* result of every call of the plan.
THEOREM EveryTraceIsTrue == Spec => []TraceIsTrue
<1>1. RunInv => TraceIsTrue
  <2> SUFFICES ASSUME RunInv PROVE TraceIsTrue
    OBVIOUS
  <2>1. TraceInv /\ (Events => QuietInv) /\ world \in World
    BY DEF RunInv, TypesInv, BaseOK
  <2>2. \A i \in 1 .. Len(trace) :
           /\ trace[i].name = "tool.end" => reached[trace[i].key] = "value"
           /\ trace[i].name = "tool.error" => reached[trace[i].key] # "value"
    BY <2>1 DEF TraceInv
  <2>3. ASSUME Concluded, Events, NEW k \in Keys, reached[k] # "no"
        PROVE  Count("tool.start", k) = 1
    <3>1. Told({"tool.start"}, k)
      BY <2>1, <2>3 DEF QuietInv, QuietEnd, Settling
    <3> QED
      BY <2>1, <3>1, CountIs
  <2>4. ASSUME Concluded, Events, trace[Len(trace)].name = "run.end", NEW i \in Calls
        PROVE  \E c \in 1 .. 2 : Count("tool.end", <<i, c>>) = 1
    <3>1. PICK c \in 1 .. 2 : Told({"tool.end"}, <<i, c>>)
      BY <2>1, <2>4 DEF QuietInv, QuietEnd, Settling, Last
    <3>2. <<i, c>> \in Keys /\ "tool.end" \in Enders
      BY <2>1, WorldFacts DEF Enders
    <3> QED
      BY <2>1, <3>1, <3>2, CountIs
  <2> QED
    BY <2>2, <2>3, <2>4 DEF TraceIsTrue
<1> QED
  BY <1>1, RunInvariant, PTL

=============================================================================
