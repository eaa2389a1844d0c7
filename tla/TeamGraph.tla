------------------------------ MODULE TeamGraph -------------------------------
(***************************************************************************)
(* The engine of every store of a team: a log that is the truth, a graph    *)
(* that caches its projection, and the paths on which the cache follows the *)
(* log (internal/engine: ingest, sync, rebuild, first open).                *)
(*                                                                         *)
(* Every operation holds the store lock, so it is one step. How events get  *)
(* from shard to shard is the subject of SegmentSync; here a sync uploads   *)
(* the own events and downloads, of every other writer, as much as it gets. *)
(***************************************************************************)
EXTENDS Projection

CONSTANTS
  Store,        \* stores, numbered
  NoGraph,      \* graph.kuzu does not exist
  BulkPull,     \* a pull of this many events is projected by a rebuild (50)
  SameAuthor,   \* the same person records the same content on several stores
  Troubled,     \* the stores whose identity rotates and whose operations fail
  MaxRotate,    \* bound: identity rotations per store
  MaxFault,     \* bound: operations that fail after they wrote the log
  MaxLamport    \* bound: Lamport stamps

ASSUME TeamAssumption ==
  /\ Store \subseteq Nat /\ Troubled \subseteq Store
  /\ BulkPull \in Nat \ {0}
  /\ SameAuthor \in BOOLEAN
  /\ MaxRotate \in Nat /\ MaxFault \in Nat /\ MaxLamport \in Nat

VARIABLES
  log,      \* the events in all shards of each store
  graph,    \* graph.kuzu of each store, or NoGraph
  writer,   \* the current install of each store: <<store, rotations so far>>
  bucket,   \* the events the remote holds
  faults    \* how many operations have failed

vars == <<log, graph, writer, bucket, faults>>

Init ==
  /\ log = [s \in Store |-> {}]
  /\ graph = [s \in Store |-> NoGraph]
  /\ writer = [s \in Store |-> <<s, 0>>]
  /\ bucket = {}
  /\ faults = 0

Fault(s) == s \in Troubled /\ faults < MaxFault /\ faults' = faults + 1

\* Wrong on purpose: a missing projection is opened empty.
OpenWriteEmpty(g, events) == IF g = NoGraph THEN EmptyGraph ELSE g

\* openWrite: a projection that does not exist yet is built from the log first.
OpenWrite(g, events) == IF g = NoGraph THEN Replay(events) ELSE g

MaxOf(lams) == Max(lams \cup {0})

\* Wrong on purpose: the stamp of the newest event, not the one after it.
NextLamportNoStep(events) == MaxOf({ev.lam : ev \in events})

NextLamport(events) == 1 + MaxOf({ev.lam : ev \in events})

\* The credited author is part of a decision's identity.
MayRecord(s, d) ==
  SameAuthor \/ \A t \in Store : \A ev \in log[t] : ev.dec = d => ev.by[1] = s

\* Wrong on purpose: no idempotency check.
NeverRecorded(g, d) == FALSE

\* Ingest of decision d. The graph is asked whether it is already recorded.
AlreadyRecorded(g, d) == d \in DOMAIN g.dec

IngestNoOp(s, d) ==
  LET g == OpenWrite(graph[s], log[s])
  IN  /\ MayRecord(s, d)
      /\ AlreadyRecorded(g, d)
      /\ graph' = [graph EXCEPT ![s] = g]
      /\ UNCHANGED <<log, writer, bucket, faults>>

\* Wrong on purpose: the stamp follows the events of the own shard only.
IngestOwnStamp(s, d) ==
  LET g == OpenWrite(graph[s], log[s])
      mine == {ev \in log[s] : ev.by = writer[s]}
      ev == BuildEvent(g, d, NextLamport(mine), writer[s])
  IN  /\ MayRecord(s, d)
      /\ ~AlreadyRecorded(g, d)
      /\ log' = [log EXCEPT ![s] = @ \cup {ev}]
      /\ graph' = [graph EXCEPT ![s] = ApplyEvent(g, ev)]
      /\ UNCHANGED <<writer, bucket, faults>>

\* Append, ApplyEvent, commit.
Ingest(s, d) ==
  LET g == OpenWrite(graph[s], log[s])
      ev == BuildEvent(g, d, NextLamport(log[s]), writer[s])
  IN  /\ MayRecord(s, d)
      /\ ~AlreadyRecorded(g, d)
      /\ ev.lam <= MaxLamport
      /\ log' = [log EXCEPT ![s] = @ \cup {ev}]
      /\ graph' = [graph EXCEPT ![s] = ApplyEvent(g, ev)]
      /\ UNCHANGED <<writer, bucket, faults>>

\* Wrong on purpose: the projection is committed before the event is appended.
IngestFailsCommitted(s, d) ==
  LET g == OpenWrite(graph[s], log[s])
      ev == BuildEvent(g, d, NextLamport(log[s]), writer[s])
  IN  /\ MayRecord(s, d)
      /\ ~AlreadyRecorded(g, d)
      /\ ev.lam <= MaxLamport
      /\ Fault(s)
      /\ graph' = [graph EXCEPT ![s] = ApplyEvent(g, ev)]
      /\ UNCHANGED <<log, writer, bucket>>

\* The event is in the log when the projection fails, a later decision of the
\* batch is refused, or the process dies: the transaction is rolled back.
IngestFails(s, d) ==
  LET g == OpenWrite(graph[s], log[s])
      ev == BuildEvent(g, d, NextLamport(log[s]), writer[s])
  IN  /\ MayRecord(s, d)
      /\ ~AlreadyRecorded(g, d)
      /\ ev.lam <= MaxLamport
      /\ Fault(s)
      /\ log' = [log EXCEPT ![s] = @ \cup {ev}]
      /\ graph' = [graph EXCEPT ![s] = g]
      /\ UNCHANGED <<writer, bucket>>

------------------------------------------------------------------------------
(* Sync.                                                                   *)

\* The events of retired installs that the remote does not have.
Orphans(s) == {ev \in log[s] : ev.by[1] = s /\ ev.by # writer[s] /\ ev \notin bucket}

\* RewriteShard and ReEmit: the orphans leave the log and their decisions come
\* back under the current install, stamped after everything that is left.
ReEmitted(s, kept, ev) ==
  [ev EXCEPT !.lam = NextLamport(kept) + Cardinality({o \in Orphans(s) : Before(o, ev)}),
             !.by = writer[s]]

\* Wrong on purpose: the retired shard is cut back and nothing is re-emitted.
ReconciledCut(s) == log[s] \ Orphans(s)

Reconciled(s) ==
  LET kept == log[s] \ Orphans(s)
  IN  kept \cup {ReEmitted(s, kept, ev) : ev \in Orphans(s)}

Own(s, events) == {ev \in events : ev.by = writer[s]}

\* What a store may have after its pull: of every writer a prefix of the shard.
Pulls(s) ==
  LET remote == {ev \in bucket : ev.by[1] # s}
      missing == remote \ log[s]
  IN  {got \in SUBSET missing :
         \A a \in got, b \in missing : b.by = a.by /\ b.lam < a.lam => b \in got}

\* Wrong on purpose: equal stamps count as "newer than everything projected".
IncrementalAtTie(g, pulled) == \A ev \in pulled : ev.lam >= MaxOf({g.dec[d] : d \in DOMAIN g.dec})

\* Every pulled event is newer than every decision in the graph.
Incremental(g, pulled) == \A ev \in pulled : ev.lam > MaxOf({g.dec[d] : d \in DOMAIN g.dec})

\* applyPulled: nothing new, incremental apply of a small newer tail, or rebuild.
ApplyPulled(g, before, after) ==
  LET pulled == after \ before
      opened == OpenWrite(g, after)
  IN  IF pulled = {} THEN g
      ELSE IF Cardinality(pulled) < BulkPull /\ Incremental(opened, pulled)
        THEN ApplyAll(opened, pulled)
      ELSE Replay(after)

\* syncLocked: reconciliation forces a rebuild, otherwise applyPulled.
Sync(s, got) ==
  LET after == Reconciled(s) \cup got
  IN  /\ NextLamport(after) <= MaxLamport + 1
      /\ log' = [log EXCEPT ![s] = after]
      /\ bucket' = bucket \cup Own(s, after)
      /\ graph' = [graph EXCEPT ![s] =
                     IF Orphans(s) # {} THEN Replay(after) ELSE ApplyPulled(@, log[s], after)]
      /\ UNCHANGED <<writer, faults>>

\* The transport returns an error, or the process dies, after the log changed:
\* nothing is projected.
SyncFails(s, got) ==
  LET after == Reconciled(s) \cup got
  IN  /\ after # log[s]
      /\ NextLamport(after) <= MaxLamport + 1
      /\ Fault(s)
      /\ log' = [log EXCEPT ![s] = after]
      /\ bucket' \in {bucket, bucket \cup Own(s, after)}
      /\ UNCHANGED <<graph, writer>>

------------------------------------------------------------------------------

\* kg rebuild.
Rebuild(s) ==
  /\ graph' = [graph EXCEPT ![s] = Replay(log[s])]
  /\ UNCHANGED <<log, writer, bucket, faults>>

\* How far a replay of the events may get: a proper beginning of them, in canonical order.
Begun(events) ==
  {part \in (SUBSET events) \ {events} : \A a \in part, b \in events : Before(b, a) => b \in part}

\* A rebuild, of any of the operations, that does not get to its end: the graph file exists
\* from its first moment, so that what was committed stays and is not completed on opening.
\* (It ends between two events; the bulk loader's end between two tables is not modelled.)
RebuildFails(s) ==
  /\ Fault(s)
  /\ \E part \in Begun(log[s]) : graph' = [graph EXCEPT ![s] = Replay(part)]
  /\ UNCHANGED <<log, writer, bucket>>

\* openRead over a missing projection builds it, under the lock.
OpenRead(s) ==
  /\ graph[s] = NoGraph
  /\ graph' = [graph EXCEPT ![s] = OpenWrite(@, log[s])]
  /\ UNCHANGED <<log, writer, bucket, faults>>

\* graph.kuzu is gone: a fresh clone of the log, or someone deleted the cache.
LoseGraph(s) ==
  /\ graph[s] # NoGraph
  /\ graph' = [graph EXCEPT ![s] = NoGraph]
  /\ UNCHANGED <<log, writer, bucket, faults>>

\* The store got a new identity: kg rotate, or its directory moved to another machine.
Rotate(s) ==
  /\ s \in Troubled /\ writer[s][2] < MaxRotate
  /\ writer' = [writer EXCEPT ![s][2] = @ + 1]
  /\ UNCHANGED <<log, graph, bucket, faults>>

Next ==
  \E s \in Store :
    \/ \E d \in Decision : Ingest(s, d) \/ IngestNoOp(s, d) \/ IngestFails(s, d)
    \/ \E got \in Pulls(s) : Sync(s, got) \/ SyncFails(s, got)
    \/ Rebuild(s) \/ RebuildFails(s) \/ OpenRead(s) \/ LoseGraph(s) \/ Rotate(s)

Spec == Init /\ [][Next]_vars

------------------------------------------------------------------------------
(* Properties.                                                             *)

Event == [dec : Decision, lam : 1 .. MaxLamport, by : Store \X (0 .. MaxRotate),
          muts : Seq(Change), shapes : SUBSET Element, targets : SUBSET Element,
          supersedes : SUBSET Decision, saw : SUBSET Decision]

TypeOK ==
  /\ \A s \in Store : log[s] \subseteq Event
  /\ \A s \in Store : graph[s] # NoGraph => /\ DOMAIN graph[s].elem \subseteq Element
                                            /\ DOMAIN graph[s].dec \subseteq Decision
                                            /\ graph[s].sup \subseteq Decision \X Decision
  /\ writer \in [Store -> Store \X (0 .. MaxRotate)]
  /\ bucket \subseteq Event
  /\ faults \in 0 .. MaxFault

Decided(events) == {ev.dec : ev \in events}
HasGraph(s) == graph[s] # NoGraph

\* No re-emission moved a decision behind one that supersedes it.
InOrder(events) == \A a, b \in events : a.dec \in b.supersedes => Before(a, b)

\* The cache is never observably a cache: whatever mix of ingest, incremental
\* apply, rebuild and first open produced a graph, it is the replay of the log, unless
\* an operation failed. Two stores with the same log therefore answer everything the same.
\* (Out of order, the superseded decision becomes a stub without a stamp, which hides
\* from the next pull how far the graph has got.)
GraphIsReplay ==
  \A s \in Store : HasGraph(s) /\ faults = 0 /\ InOrder(log[s]) => graph[s] = Replay(log[s])

\* The log is the truth: a graph shows no decision, no superseded-by edge and no authority
\* that no event of its log states, whichever operations failed half-way.
GraphBacked ==
  \A s \in Store : HasGraph(s) =>
    /\ \A d \in DOMAIN graph[s].dec : Known(graph[s], d) => d \in Decided(log[s])
    /\ \A p \in graph[s].sup : \E ev \in log[s] : ev.dec = p[1] /\ p[2] \in ev.supersedes
    /\ \A p \in DOMAIN graph[s].shape :
         graph[s].shape[p] => \E ev \in log[s] : ev.dec = p[1] /\ p[2] \in ev.targets

\* Every event a log contains was written with knowledge of events it contains.
Closed(events) == \A ev \in events : ev.saw \subseteq Decided(events)

\* Concurrent decisions are a branch and nothing else is: the heads of an element
\* are the decisions with authority over it that no other such decision knew of.
\* (A graph that lags behind its log after a failure records with less knowledge.)
HeadsAreMaximal ==
  \A s \in Store : HasGraph(s) /\ Closed(log[s]) /\ faults = 0 =>
    \A e \in Element :
      LET changed == {ev \in log[s] : e \in ev.targets}
      IN  Heads(graph[s], e) =
            Decided({a \in changed : ~\E b \in changed : a.dec \in b.saw})

\* A mutation gives e its property.
Assigns(m, e) == m.el = e /\ (m.op = "set" \/ (m.op = "upsert" /\ m.val # 0))

\* What an element looks like now is what a decision said that no other decision which
\* says something about it has superseded.
LiveValueCurrent ==
  \A s \in Store : HasGraph(s) => \A e \in DOMAIN graph[s].elem :
    LET setters == {ev \in log[s] : \E m \in ToSet(ev.muts) : Assigns(m, e)}
    IN  setters # {} =>
          \E ev \in setters :
            /\ \E m \in ToSet(ev.muts) : Assigns(m, e) /\ m.val = graph[s].elem[e].val
            /\ ~\E later \in setters : ev.dec \in later.supersedes

\* A decision whose event is in the log is no stub in the graph: a node made up for
\* a SUPERSEDES edge is filled in when the event arrives, whichever shards were pulled first
\* and however far. (In a team where nobody rotates or fails: graph_reemit.)
StubsFilled ==
  \A s \in Store : HasGraph(s) => \A d \in Decided(log[s]) : Known(graph[s], d)

\* Re-running an ingest is a no-op: no store writes the same decision twice, also when it
\* re-emits some under a new identity. (An ingest that failed after it wrote the log is
\* not recognised when it is run again.)
RecordedOnce ==
  faults = 0 => \A s \in Store : \A a, b \in log[s] : a.by = b.by /\ a.dec = b.dec => a = b

Abstract == INSTANCE UnionLog
  WITH known <- [s \in Store |-> Decided(log[s])], shared <- Decided(bucket),
       recorded <- UNION {Decided(log[s]) : s \in Store}

\* For a team, an engine is a store of UnionLog: no ingest, sync, re-emission, rotation or
\* failure half-way makes a store or the remote forget a decision, shows one that nobody
\* recorded, or records again what somebody else has.
ImplementsUnionLog == Abstract!Spec

\* A new decision resolves the branches of what it changes: in the recording store it
\* is then the only head of each of its targets.
Resolves ==
  [][\A s \in Store : \A ev \in log'[s] \ log[s] :
       ev.by = writer[s] /\ ev.dec \notin Decided(log[s]) /\ faults' = faults
         => \A e \in ev.targets : Heads(graph'[s], e) = {ev.dec}]_vars

\* What a graph answers, without the Lamport stamps.
View(g) ==
  [elem |-> g.elem, link |-> g.link, shape |-> g.shape, sup |-> g.sup,
   known |-> {d \in DOMAIN g.dec : Known(g, d)}]

\* A sync that re-emits the unsynced decisions of a retired identity and pulls nothing
\* tells the team about them and changes nothing here: "a graph that already applied the
\* originals converges to the same state" (ReEmit).
ReEmissionConverges ==
  [][\A s \in Store :
       HasGraph(s) /\ faults' = 0 /\ Orphans(s) # {} /\ log'[s] = Reconciled(s)
         => View(graph'[s]) = View(graph[s])]_vars
==============================================================================
