----------------------------- MODULE SegmentSync -----------------------------
(***************************************************************************)
(* Stores that record decisions in their own shard and exchange shards     *)
(* through a bucket of write-once segments (internal/store, the            *)
(* objectRemote of internal/remote).                                       *)
(*                                                                         *)
(* A store is a directory: a config, one shard file per install and a lock *)
(* file. Everything that writes holds the lock, so one store runs one      *)
(* operation at a time and only a sync, which talks to the bucket between  *)
(* its local writes, is split into steps. Different stores interleave      *)
(* freely. A directory can be copied or moved to a machine, a process can  *)
(* die between two writes, and a request to the bucket can fail with or    *)
(* without having taken effect.                                            *)
(***************************************************************************)
EXTENDS SegmentPlan, FiniteSets

CONSTANTS
  Store,          \* directories that may hold a store
  Machine,        \* machines a directory may live on
  NoFingerprint,  \* machineFingerprint() = "": a machine with no stable traits
  Decision,       \* what people decide; content-addressed, recorded once each
  MaxInstall,     \* bound: how many install ids may be minted
  MaxFault,       \* bound: crashes and failed requests of a behaviour
  CrashIn,        \* the phases of a sync in which the process may die
  PutFault,       \* the ways an upload may fail
  RefusalNamed,   \* does a refusal say "already exists"? TRUE: s3, FALSE: cloud; a set
  RotateAnytime,  \* kg rotate at any time, or only after a fork error
  TwinsPushAlike  \* environment: stores that share an identity sync at once only when
                  \* they have equally many events to push

Phase == {"idle", "reconcile", "reemit", "pull"}

ASSUME BoundsAssumption ==
  /\ MaxInstall \in Nat /\ MaxFault \in Nat
  /\ CrashIn \subseteq Phase \ {"idle"}
  /\ PutFault \subseteq {"failed", "lost", "retried"}
  /\ RefusalNamed \subseteq BOOLEAN /\ RefusalNamed # {}
  /\ RotateAnytime \in BOOLEAN /\ TwinsPushAlike \in BOOLEAN

VARIABLES
  cfg,      \* kg.config.json of each store: its identity part
  at,       \* the machine the directory is on
  shard,    \* log/<install>.ndjson of each store
  bucket,   \* the segments in the object store
  minted,   \* how many install ids exist (uuids: never minted twice)
  recorded, \* the decisions recorded so far, anywhere
  pc,       \* where the sync of a store is; "idle" when the lock is free
  snap,     \* the segments listed at the start of that sync
  retiring, \* the retired installs it has still to reconcile
  orphans,  \* the events it took out of a retired shard and has to re-emit
  pulling,  \* the foreign installs it has still to pull
  forked,   \* the last sync of this store ended in a fork error
  faults    \* how many faults have happened

identity == <<cfg, at, minted>>
progress == <<pc, snap, retiring, orphans, pulling>>
vars == <<cfg, at, shard, bucket, minted, recorded, pc, snap, retiring, orphans,
          pulling, forked, faults>>

Install == 1 .. MaxInstall
NoInstall == 0
Config == [own : Install \cup {NoInstall}, retired : Seq(Install), bound : Machine \cup {NoFingerprint}]
Segment == [inst : Install, seq : Nat \ {0}, evs : Seq(Event(Decision)) \ {<<>>}]

Exists(s) == cfg[s].own # NoInstall
Mine(s) == cfg[s].own
Retired(s) == ToSet(cfg[s].retired)

\* Types of who writes what and of where each sync is ...
IdentityTypeOK ==
  /\ cfg \in [Store -> Config]
  /\ at \in [Store -> Machine \cup {NoFingerprint}]
  /\ minted \in 0 .. MaxInstall
  /\ recorded \subseteq Decision
  /\ \A g \in bucket : g.inst \in Install
  /\ snap \in [Store -> SUBSET bucket]
  /\ pc \in [Store -> Phase]
  /\ retiring \in [Store -> Seq(Install)]
  /\ pulling \in [Store -> SUBSET Install]
  /\ forked \in [Store -> BOOLEAN]
  /\ faults \in 0 .. MaxFault

\* ... and of the events in shards, segments and memory.
LogTypeOK ==
  /\ shard \in [Store -> [Install -> Seq(Event(Decision))]]
  /\ bucket \subseteq Segment
  /\ orphans \in [Store -> Seq(Event(Decision))]
  /\ \A s \in Store : (orphans[s] # <<>>) = (pc[s] = "reemit")

TypeOK == IdentityTypeOK /\ LogTypeOK

Init ==
  /\ cfg = [s \in Store |-> [own |-> NoInstall, retired |-> <<>>, bound |-> NoFingerprint]]
  /\ at = [s \in Store |-> NoFingerprint]
  /\ shard = [s \in Store |-> [i \in Install |-> <<>>]]
  /\ bucket = {}
  /\ minted = 0
  /\ recorded = {}
  /\ pc = [s \in Store |-> "idle"]
  /\ snap = [s \in Store |-> {}]
  /\ retiring = [s \in Store |-> <<>>]
  /\ orphans = [s \in Store |-> <<>>]
  /\ pulling = [s \in Store |-> {}]
  /\ forked = [s \in Store |-> FALSE]
  /\ faults = 0

------------------------------------------------------------------------------
(* Identity.                                                               *)

\* Wrong on purpose: the old id is forgotten.
RotateInstallForgetting(c, fresh) ==
  [own |-> fresh, retired |-> c.retired, bound |-> c.bound]

\* Wrong on purpose: the fresh id is entered in the list, not the old one.
RotateInstallRetiringNew(c, fresh) ==
  [own |-> fresh, retired |-> Append(c.retired, fresh), bound |-> c.bound]

\* rotateInstallLocked: the old id is retired, its shard stays where it is.
RotateInstallLocked(c, fresh) ==
  [own |-> fresh, retired |-> Append(c.retired, c.own), bound |-> c.bound]

BindTo(c, m) == [own |-> c.own, retired |-> c.retired, bound |-> m]

\* applyMachineBinding: adopt the machine on the first run that knows one,
\* rotate when the config was bound to another.
ApplyMachineBinding(c, m, fresh) ==
  CASE m = NoFingerprint \/ c.bound = m -> c
    [] c.bound = NoFingerprint -> BindTo(c, m)
    [] OTHER -> BindTo(RotateInstallLocked(c, fresh), m)

\* How many ids applyMachineBinding consumes.
Rotates(c, m) == m # NoFingerprint /\ c.bound \notin {m, NoFingerprint}

\* lock2: every writer re-reads the config under the lock and applies the
\* machine binding before it writes anything.
Lock(s) ==
  /\ Exists(s)
  /\ pc[s] = "idle"
  /\ minted' = IF Rotates(cfg[s], at[s]) THEN minted + 1 ELSE minted
  /\ minted' <= MaxInstall
  /\ cfg' = [cfg EXCEPT ![s] = ApplyMachineBinding(@, at[s], minted + 1)]
  /\ at' = at

\* Init in a new directory (kg init).
Create(s, m) ==
  /\ ~Exists(s)
  /\ minted < MaxInstall
  /\ minted' = minted + 1
  /\ cfg' = [cfg EXCEPT ![s] = [own |-> minted + 1, retired |-> <<>>, bound |-> m]]
  /\ at' = [at EXCEPT ![s] = m]
  /\ UNCHANGED <<shard, bucket, recorded, progress, forked, faults>>

\* cmdRotate: Lock, which may itself rotate, then RotateInstall, which also
\* rebinds the config to this machine.
Rotate(s) ==
  LET used == IF Rotates(cfg[s], at[s]) THEN 2 ELSE 1
      locked == ApplyMachineBinding(cfg[s], at[s], minted + 1)
      rotated == RotateInstallLocked(locked, minted + used)
  IN  /\ Exists(s)
      /\ pc[s] = "idle"
      /\ RotateAnytime \/ forked[s]
      /\ minted + used <= MaxInstall
      /\ minted' = minted + used
      /\ cfg' = [cfg EXCEPT ![s] =
                   IF at[s] = NoFingerprint THEN rotated
                   ELSE BindTo(rotated, at[s])]
      /\ forked' = [forked EXCEPT ![s] = FALSE]
      /\ UNCHANGED <<at, shard, bucket, recorded, progress, faults>>

\* Someone copies the store directory (cp -r, a restored snapshot) to a new
\* place on this or another machine: the twin starts with the same config.
Copy(s, t, m) ==
  /\ Exists(s) /\ ~Exists(t)
  /\ pc[s] = "idle"
  /\ cfg' = [cfg EXCEPT ![t] = cfg[s]]
  /\ at' = [at EXCEPT ![t] = m]
  /\ shard' = [shard EXCEPT ![t] = shard[s]]
  /\ UNCHANGED <<bucket, minted, recorded, progress, forked, faults>>

\* Someone moves the store directory to another machine.
Move(s, m) ==
  /\ Exists(s)
  /\ pc[s] = "idle"
  /\ at[s] # m
  /\ at' = [at EXCEPT ![s] = m]
  /\ UNCHANGED <<cfg, shard, bucket, minted, recorded, progress, forked, faults>>

------------------------------------------------------------------------------
(* The local log.                                                          *)

LastLamport(sh) == IF sh = <<>> THEN 0 ELSE Last(Last(sh)).lam

\* Wrong on purpose: the maximum itself, not one past it.
NextLamportNotPast(shards) == Max({LastLamport(shards[i]) : i \in Install})

\* NextLamport reads the last line of every shard.
NextLamport(shards) == 1 + Max({LastLamport(shards[i]) : i \in Install})

\* Append: parent = tail of the own shard, hash over everything.
AppendOwn(shards, own, lam, dec) ==
  [shards EXCEPT ![own] =
     Append(@, Append(TailHash(@), [lam |-> lam, dec |-> dec]))]

\* kg ingest of one decision: NextLamport, Append, all under the lock.
Record(s, d) ==
  /\ d \notin recorded
  /\ Lock(s)
  /\ recorded' = recorded \cup {d}
  /\ shard' = [shard EXCEPT ![s] = AppendOwn(@, cfg'[s].own, NextLamport(@), d)]
  /\ UNCHANGED <<bucket, progress, forked, faults>>

------------------------------------------------------------------------------
(* One sync: objectRemote.Sync under the store lock.                       *)

Fault == faults < MaxFault /\ faults' = faults + 1

\* The process is gone, or the sync returns: the lock is free and what the
\* sync held in memory is lost.
Leave(s) ==
  /\ pc' = [pc EXCEPT ![s] = "idle"]
  /\ snap' = [snap EXCEPT ![s] = {}]
  /\ retiring' = [retiring EXCEPT ![s] = <<>>]
  /\ orphans' = [orphans EXCEPT ![s] = <<>>]
  /\ pulling' = [pulling EXCEPT ![s] = {}]

\* With different numbers of events to push, twins choose different keys for the same
\* segment, and the condition of the upload does not stop the second one.
Turn(s) ==
  LET own == cfg'[s].own
  IN  TwinsPushAlike => \A t \in Store \ {s} :
        pc[t] # "idle" /\ cfg[t].own = own
          => /\ Len(shard[t][own]) = Len(shard[s][own])
             /\ cfg[t].retired = <<>> /\ cfg'[s].retired = <<>>

\* List, then verifyOwnShard finds a fork: nothing is written.
SyncFork(s) ==
  /\ Lock(s)
  /\ Turn(s)
  /\ ForkSeen(shard[s][cfg'[s].own], GroupSegments(bucket, cfg'[s].own))
  /\ forked' = [forked EXCEPT ![s] = TRUE]
  /\ UNCHANGED <<shard, bucket, recorded, progress, faults>>

\* List, and my shard is a continuation of what the remote has of it.
SyncBegin(s) ==
  /\ Lock(s)
  /\ Turn(s)
  /\ ~ForkSeen(shard[s][cfg'[s].own], GroupSegments(bucket, cfg'[s].own))
  /\ pc' = [pc EXCEPT ![s] = "reconcile"]
  /\ snap' = [snap EXCEPT ![s] = bucket]
  /\ retiring' = [retiring EXCEPT ![s] = cfg'[s].retired]
  /\ forked' = [forked EXCEPT ![s] = FALSE]
  /\ UNCHANGED <<shard, bucket, recorded, orphans, pulling, faults>>

\* The remote cannot be listed, or the last segment of my shard cannot be fetched
\* for the check: the sync ends before it wrote anything, a fork stays unseen.
SyncUnreachable(s) ==
  /\ Lock(s)
  /\ Turn(s)
  /\ Fault
  /\ forked' = [forked EXCEPT ![s] = FALSE]
  /\ UNCHANGED <<shard, bucket, recorded, progress>>

\* The local events of the retired install at the head of the list that the
\* remote does not have, and the remote's version of that shard.
Canon(s) == Events(GroupSegments(snap[s], Head(retiring[s])))
Orphans(s) ==
  LET local == shard[s][Head(retiring[s])]
  IN  SubSeq(local, Agreement(local, Canon(s)) + 1, Len(local))

\* reconcileRetired with nothing to do: the local file is a prefix of the
\* remote's version, or empty.
NothingToReconcile(s) ==
  /\ pc[s] = "reconcile" /\ retiring[s] # <<>>
  /\ Orphans(s) = <<>>
  /\ retiring' = [retiring EXCEPT ![s] = Tail(@)]
  /\ UNCHANGED <<identity, shard, bucket, recorded, pc, snap, orphans, pulling, forked, faults>>

\* reconcileRetired gives up on a retired install whose segments it cannot
\* download; the sync goes on with the next one.
ReconcileFails(s) ==
  /\ pc[s] = "reconcile" /\ retiring[s] # <<>>
  /\ Canon(s) # <<>> /\ Orphans(s) # <<>>
  /\ Fault
  /\ retiring' = [retiring EXCEPT ![s] = Tail(@)]
  /\ UNCHANGED <<identity, shard, bucket, recorded, pc, snap, orphans, pulling, forked>>

\* RewriteShard: the remote's version replaces the local file (one rename); the
\* orphans are in memory only until ReEmit has written them.
Adopt(s) ==
  /\ pc[s] = "reconcile" /\ retiring[s] # <<>>
  /\ Orphans(s) # <<>>
  /\ shard' = [shard EXCEPT ![s][Head(retiring[s])] = Canon(s)]
  /\ orphans' = [orphans EXCEPT ![s] = Orphans(s)]
  /\ pc' = [pc EXCEPT ![s] = "reemit"]
  /\ UNCHANGED <<identity, bucket, recorded, snap, retiring, pulling, forked, faults>>

\* ReEmit, one Append: the decision under the current identity with a fresh
\* lamport (lam + i: one past what the previous Append wrote).
ReEmit(s) ==
  /\ pc[s] = "reemit"
  /\ shard' = [shard EXCEPT ![s] =
                 AppendOwn(@, Mine(s), NextLamport(@), Last(Head(orphans[s])).dec)]
  /\ orphans' = [orphans EXCEPT ![s] = Tail(@)]
  /\ IF Len(orphans[s]) = 1
       THEN /\ pc' = [pc EXCEPT ![s] = "reconcile"]
            /\ retiring' = [retiring EXCEPT ![s] = Tail(@)]
       ELSE UNCHANGED <<pc, retiring>>
  /\ UNCHANGED <<identity, bucket, recorded, snap, pulling, forked, faults>>

PushPlan(s) == PlanPush(Len(shard[s][Mine(s)]), GroupSegments(snap[s], Mine(s)))

\* The segment PlanPush asks for: everything after the listed count.
NextSegment(s) ==
  LET local == shard[s][Mine(s)]
  IN  [inst |-> Mine(s), seq |-> PushPlan(s).seq,
       evs |-> SubSeq(local, PushPlan(s).from, Len(local))]

\* If-None-Match on the key <seq>-<count>.
KeyTaken(g) ==
  \E h \in bucket : h.inst = g.inst /\ h.seq = g.seq /\ Len(h.evs) = Len(g.evs)

ReadyToPush(s) == pc[s] = "reconcile" /\ retiring[s] = <<>>

StartPull(s) ==
  /\ pc' = [pc EXCEPT ![s] = "pull"]
  /\ pulling' = [pulling EXCEPT ![s] = {g.inst : g \in snap[s]} \ {Mine(s)}]
  /\ UNCHANGED <<snap, retiring, orphans>>

NothingToPush(s) ==
  /\ ReadyToPush(s)
  /\ ~PushPlan(s).needed
  /\ StartPull(s)
  /\ UNCHANGED <<identity, shard, bucket, recorded, forked, faults>>

Push(s) ==
  /\ ReadyToPush(s)
  /\ PushPlan(s).needed
  /\ ~KeyTaken(NextSegment(s))
  /\ bucket' = bucket \cup {NextSegment(s)}
  /\ StartPull(s)
  /\ UNCHANGED <<identity, shard, recorded, forked, faults>>

\* The key exists: taken for a live twin, so the sync ends in a fork error when
\* the transport says "already exists", and with a note when it does not.
PushRefused(s) ==
  /\ ReadyToPush(s)
  /\ PushPlan(s).needed
  /\ KeyTaken(NextSegment(s))
  /\ Leave(s)
  /\ \E named \in RefusalNamed : forked' = [forked EXCEPT ![s] = named]
  /\ UNCHANGED <<identity, shard, bucket, recorded, faults>>

\* Wrong on purpose: any failed upload is taken for a refusal.
PushFailsAsRefused(s, how) ==
  /\ ReadyToPush(s)
  /\ PushPlan(s).needed
  /\ ~KeyTaken(NextSegment(s))
  /\ Fault
  /\ bucket' = IF how = "failed" THEN bucket ELSE bucket \cup {NextSegment(s)}
  /\ forked' = [forked EXCEPT ![s] = TRUE]
  /\ Leave(s)
  /\ UNCHANGED <<identity, shard, recorded>>

\* The upload returns an error: it never arrived ("failed"), or it did and the
\* answer got lost ("lost"), or the S3 client repeated it after a lost answer
\* and its own object refused the repetition ("retried"). The first two end the
\* sync with a note, without pulling; the last looks like a fork.
PushFails(s, how) ==
  /\ ReadyToPush(s)
  /\ PushPlan(s).needed
  /\ ~KeyTaken(NextSegment(s))
  /\ Fault
  /\ bucket' = IF how = "failed" THEN bucket ELSE bucket \cup {NextSegment(s)}
  /\ \E named \in RefusalNamed : forked' = [forked EXCEPT ![s] = how = "retried" /\ named]
  /\ Leave(s)
  /\ UNCHANGED <<identity, shard, recorded>>

PullPlan(s, i) == PlanPull(Len(shard[s][i]), GroupSegments(snap[s], i))

\* AppendForeign of a batch, refused as a whole when the chain breaks.
AppendForeign(s, i, batch) ==
  shard' = IF ContinuesChain(shard[s][i], batch)
             THEN [shard EXCEPT ![s][i] = @ \o batch] ELSE shard

\* One foreign install is pulled; downloading stops after n segments when the
\* next one cannot be fetched.
Pull(s, i, n) ==
  /\ pc[s] = "pull" /\ i \in pulling[s]
  /\ n \in 0 .. Len(PullPlan(s, i))
  /\ IF n < Len(PullPlan(s, i)) THEN Fault ELSE UNCHANGED faults
  /\ AppendForeign(s, i, Batch(PullPlan(s, i), n))
  /\ pulling' = [pulling EXCEPT ![s] = @ \ {i}]
  /\ UNCHANGED <<identity, bucket, recorded, pc, snap, retiring, orphans, forked>>

Finish(s) ==
  /\ pc[s] = "pull" /\ pulling[s] = {}
  /\ Leave(s)
  /\ UNCHANGED <<identity, shard, bucket, recorded, forked, faults>>

\* The process dies between two writes of a sync. In the phase "reemit" this is also
\* ReEmit's return of an error of NextLamport or Append: the sync ends, and with it what is
\* left of the orphans.
Crash(s) ==
  /\ pc[s] \in CrashIn
  /\ Fault
  /\ Leave(s)
  /\ UNCHANGED <<identity, shard, bucket, recorded, forked>>

\* The process dies inside AppendForeign, which writes line by line: only a
\* proper prefix of the batch is on disk.
CrashInAppend(s, i) ==
  LET batch == Batch(PullPlan(s, i), Len(PullPlan(s, i)))
  IN  /\ pc[s] = "pull" /\ "pull" \in CrashIn
      /\ i \in pulling[s]
      /\ Fault
      /\ ContinuesChain(shard[s][i], batch)
      /\ \E n \in 1 .. Len(batch) - 1 :
           shard' = [shard EXCEPT ![s][i] = @ \o SubSeq(batch, 1, n)]
      /\ Leave(s)
      /\ UNCHANGED <<identity, bucket, recorded, forked>>

------------------------------------------------------------------------------

SyncStep(s) ==
  \/ SyncFork(s) \/ SyncBegin(s)
  \/ NothingToReconcile(s) \/ Adopt(s) \/ ReEmit(s)
  \/ NothingToPush(s) \/ Push(s) \/ PushRefused(s)
  \/ \E i \in pulling[s] : Pull(s, i, Len(PullPlan(s, i)))
  \/ Finish(s)

FaultStep(s) ==
  \/ SyncUnreachable(s)
  \/ ReconcileFails(s)
  \/ \E how \in PutFault : PushFails(s, how)
  \/ \E i \in pulling[s] : \E n \in 0 .. Len(PullPlan(s, i)) - 1 : Pull(s, i, n)
  \/ \E i \in pulling[s] : CrashInAppend(s, i)
  \/ Crash(s)

UserStep(s) ==
  \/ \E m \in Machine : Create(s, m) \/ Move(s, m)
  \/ \E t \in Store, m \in Machine : Copy(s, t, m)
  \/ \E d \in Decision : Record(s, d)
  \/ Rotate(s)

Next == \E s \in Store : SyncStep(s) \/ FaultStep(s) \/ UserStep(s)

Spec == Init /\ [][Next]_vars

\* Every store keeps syncing (session hooks run kg sync --auto): a sync that
\* runs goes on, and a store gets to start one however often its twin does. Who
\* sees a fork error follows it and rotates.
Fairness ==
  \A s \in Store : /\ WF_vars(SyncStep(s))
                   /\ SF_vars(SyncFork(s) \/ SyncBegin(s))
                   /\ WF_vars(forked[s] /\ Rotate(s))

FairSpec == Spec /\ Fairness

------------------------------------------------------------------------------
(* Properties.                                                             *)

\* The decisions a store can show: those in its shards, and during ReEmit those
\* it is about to write.
Decisions(shards) ==
  UNION {{Last(shards[i][k]).dec : k \in DOMAIN shards[i]} : i \in Install}
Known(s) == Decisions(shard[s]) \cup {Last(orphans[s][k]).dec : k \in DOMAIN orphans[s]}
Shared == UNION {{Last(g.evs[k]).dec : k \in DOMAIN g.evs} : g \in bucket}

\* What the bucket holds of an install.
Remote(i) == Events(GroupSegments(bucket, i))

\* One shard, one writer, as seen by the team: the segments of an install are
\* numbered without a gap or a repetition and together they are one hash chain,
\* whatever was pushed twice, lost, retried, copied or rotated.
RemoteIsChain ==
  \A i \in Install :
    /\ IsChain(Remote(i))
    /\ \A k \in DOMAIN GroupSegments(bucket, i) : GroupSegments(bucket, i)[k].seq = k

\* A shard a store does not write, and never wrote, is always a prefix of what
\* the bucket holds of it: partial pulls, crashes and rotations leave no local
\* file that a later pull could not continue.
ForeignIsPrefix ==
  \A s \in Store : \A i \in Install :
    Exists(s) /\ i # Mine(s) /\ i \notin Retired(s) => IsPrefix(shard[s][i], Remote(i))

\* Whatever a store writes in its own shard is stamped later than everything it
\* has seen in any shard: replay order never puts a decision before the ones
\* its author knew, across rotations and re-emission.
CausalStamp ==
  [][\A s \in Store :
       LET own == cfg'[s].own
       IN  Exists(s) /\ Len(shard'[s][own]) > Len(shard[s][own])
             => \A i \in Install : \A k \in DOMAIN shard[s][i] :
                  Last(shard[s][i][k]).lam < LastLamport(shard'[s][own])]_vars

\* A fork error accuses another directory with the same identity, so there must
\* be (or have been) one: crashes, lost answers and retried syncs of a store
\* that was never copied do not raise it.
NoFalseFork ==
  [][\A s \in Store : forked'[s] /\ ~forked[s]
       => \E t \in Store \ {s} : cfg'[s].own \in {Mine(t)} \cup Retired(t)]_vars

\* The ids in a config when n ids are minted: all below n, the current one new.
IdsOK(c, n) ==
  /\ c.own <= n
  /\ \A k \in DOMAIN c.retired : c.retired[k] \in (1 .. n) \ {c.own}

\* What a running sync holds in memory fits the identity it runs under.
ProgressOK(s) ==
  /\ pc[s] = "idle" => retiring[s] = <<>> /\ pulling[s] = {}
  /\ pc[s] # "idle" => Exists(s)
  /\ pc[s] = "reemit" => retiring[s] # <<>>
  /\ \A k \in DOMAIN retiring[s] : retiring[s][k] # Mine(s)
  /\ Mine(s) \notin pulling[s]

\* A store never writes under an id it has retired: its ids were all minted, the
\* current one is not among the retired ones, and a running sync neither
\* reconciles nor pulls the current one.
IdentityOK == \A s \in Store : IdsOK(cfg[s], minted) /\ ProgressOK(s)

\* While a sync reconciles or pulls, the store's own shard does not change: the
\* guards with which RewriteShard and AppendForeign refuse the own install never
\* have to fire, whatever was rotated, copied or moved before.
OwnShardUntouched ==
  [][\A s \in Store : pc[s] \in {"reconcile", "pull"}
       => shard'[s][Mine(s)] = shard[s][Mine(s)]]_vars

\* "Nothing is lost": a decision a store has seen stays in the store.
NothingLost == [][\A s \in Store : Known(s) \subseteq Known(s)']_vars

Abstract == INSTANCE UnionLog
  WITH known <- [s \in Store |-> Known(s)], shared <- Shared

\* Segment sync implements the growing union of decisions: no step of a store,
\* no fault and no identity rotation makes a store or the remote forget a
\* decision or show one that nobody recorded.
ImplementsUnionLog == Abstract!Spec

\* Once recording, copying and faults end, the bucket and every store hold every
\* decision that was ever recorded, and stay so.
Converges == <>[](recorded \subseteq Shared /\ \A s \in Store : Exists(s) => Known(s) = recorded)
==============================================================================
