-------------------------- MODULE SegmentSyncProofs --------------------------
(***************************************************************************)
(* What holds of SegmentSync for any number of stores, machines and        *)
(* decisions: first who may write under which id, for which it does not    *)
(* matter what a segment contains; then what is in the shards and the      *)
(* bucket, that they are chains and prefixes; then that nothing is lost,   *)
(* and last that a fork error is never wrong.                              *)
(***************************************************************************)
EXTENDS SegmentSync, SegmentPlanProofs

\* Retiring the current id for one minted just now keeps a config sound.
LEMMA RotateSound ==
  ASSUME NEW c \in Config, c.own # NoInstall,
         NEW n \in Nat, NEW fresh \in Install, n < fresh, IdsOK(c, n)
  PROVE  /\ RotateInstallLocked(c, fresh) \in Config
         /\ IdsOK(RotateInstallLocked(c, fresh), fresh)
         /\ RotateInstallLocked(c, fresh).own = fresh
<1> DEFINE r == RotateInstallLocked(c, fresh)
<1>1. /\ r.own = fresh
      /\ r.retired = Append(c.retired, c.own)
      /\ r.bound = c.bound
      /\ r = [own |-> r.own, retired |-> r.retired, bound |-> r.bound]
  BY DEF RotateInstallLocked, Config
<1>2. c.own \in Install /\ c.retired \in Seq(Install)
  BY DEF Config, Install, NoInstall
<1>3. r.retired \in Seq(Install)
  BY <1>1, <1>2
<1>4. r \in Config
  BY <1>1, <1>3 DEF Config
<1>5. ASSUME NEW k \in DOMAIN r.retired
      PROVE  r.retired[k] \in (1 .. fresh) \ {fresh}
  <2>1. CASE k \in DOMAIN c.retired
    BY <1>1, <1>2, <2>1 DEF IdsOK, Install
  <2>2. CASE k \notin DOMAIN c.retired
    BY <1>1, <1>2, <1>5, <2>2 DEF IdsOK, Install
  <2> QED BY <2>1, <2>2
<1> QED
  BY <1>1, <1>4, <1>5 DEF IdsOK, Install

\* More minted ids do not make a sound config unsound.
LEMMA IdsGrow ==
  ASSUME NEW c \in Config, NEW n \in Nat, NEW m \in Nat, n <= m, IdsOK(c, n)
  PROVE  IdsOK(c, m)
<1>1. c.own \in Nat
  BY BoundsAssumption DEF Config, Install, NoInstall
<1> QED
  BY <1>1 DEF IdsOK

\* A store that locks itself (lock2) has a sound config afterwards, and the
\* ids it may have consumed stay within the bound.
LEMMA BindingSound ==
  ASSUME NEW c \in Config, c.own # NoInstall, NEW m \in Machine \cup {NoFingerprint},
         NEW n \in 0 .. MaxInstall, IdsOK(c, n),
         Rotates(c, m) => n + 1 <= MaxInstall
  PROVE  LET b == ApplyMachineBinding(c, m, n + 1)
             k == IF Rotates(c, m) THEN n + 1 ELSE n
         IN  b \in Config /\ b.own # NoInstall /\ IdsOK(b, k)
<1> USE BoundsAssumption
<1>1. CASE Rotates(c, m)
  <2> DEFINE r == RotateInstallLocked(c, n + 1)
  <2>1. n + 1 \in Install
    BY <1>1 DEF Install
  <2>2. r \in Config /\ IdsOK(r, n + 1) /\ r.own = n + 1
    BY <2>1, RotateSound
  <2>3. ApplyMachineBinding(c, m, n + 1) = BindTo(r, m)
    BY <1>1 DEF Rotates, ApplyMachineBinding
  <2> HIDE DEF r
  <2>4. BindTo(r, m) \in Config
    BY <2>2 DEF Config, BindTo
  <2>5. IdsOK(BindTo(r, m), n + 1)
    BY <2>2 DEF Config, IdsOK, BindTo
  <2> QED BY <1>1, <2>2, <2>3, <2>4, <2>5 DEF Config, NoInstall, BindTo, Install
<1>2. CASE ~Rotates(c, m)
  <2>1. ApplyMachineBinding(c, m, n + 1) \in {c, BindTo(c, m)}
    BY <1>2 DEF Rotates, ApplyMachineBinding
  <2>2. BindTo(c, m) \in Config /\ IdsOK(BindTo(c, m), n)
    BY DEF Config, IdsOK, BindTo
  <2> QED BY <1>2, <2>1, <2>2 DEF BindTo
<1> QED
  BY <1>1, <1>2

IdentityInv == IdentityTypeOK /\ IdentityOK

\* What every locked operation of store s leaves behind: the configs of the
\* others are untouched, its own is sound for the ids minted so far.
LEMMA LockSound ==
  ASSUME IdentityInv, NEW s \in Store, Lock(s)
  PROVE  /\ cfg' \in [Store -> Config]
         /\ at' \in [Store -> Machine \cup {NoFingerprint}]
         /\ minted' \in 0 .. MaxInstall
         /\ \A t \in Store : IdsOK(cfg'[t], minted')
         /\ \A t \in Store \ {s} : cfg'[t] = cfg[t]
         /\ cfg'[s].own # NoInstall
<1> USE DEF IdentityInv, IdentityTypeOK, IdentityOK
<1> DEFINE b == ApplyMachineBinding(cfg[s], at[s], minted + 1)
           k == IF Rotates(cfg[s], at[s]) THEN minted + 1 ELSE minted
<1>1. minted' = k /\ k \in 0 .. MaxInstall /\ minted <= k
  BY BoundsAssumption DEF Lock
<1>2. b \in Config /\ b.own # NoInstall /\ IdsOK(b, k)
  <2>1. Rotates(cfg[s], at[s]) => minted + 1 <= MaxInstall
    BY <1>1
  <2>2. cfg[s] \in Config /\ cfg[s].own # NoInstall /\ IdsOK(cfg[s], minted)
    BY DEF Lock, Exists
  <2> QED BY <2>1, <2>2, BindingSound
<1>3. cfg' = [cfg EXCEPT ![s] = b]
  BY DEF Lock
<1> HIDE DEF b
<1>4. \A t \in Store \ {s} : cfg'[t] = cfg[t] /\ IdsOK(cfg[t], k)
  <2> HIDE DEF k
  <2>1. k \in Nat /\ minted \in Nat
    BY <1>1, BoundsAssumption
  <2>2. \A t \in Store : cfg[t] \in Config /\ IdsOK(cfg[t], minted)
    OBVIOUS
  <2>3. \A t \in Store : IdsOK(cfg[t], k)
    BY <1>1, <2>1, <2>2, IdsGrow
  <2> QED BY <1>3, <2>3
<1>5. cfg' \in [Store -> Config] /\ cfg'[s] = b
  BY <1>2, <1>3
<1>6. at' = at
  BY DEF Lock
<1> HIDE DEF k
<1>7. \A t \in Store : IdsOK(cfg'[t], minted')
  BY <1>1, <1>2, <1>4, <1>5
<1> QED
  BY <1>1, <1>2, <1>4, <1>5, <1>6, <1>7

------------------------------------------------------------------------------

LEMMA IdentityInit == Init => IdentityInv
<1> SUFFICES ASSUME Init PROVE IdentityInv
  OBVIOUS
<1>1. IdentityTypeOK
  BY BoundsAssumption
     DEF Init, IdentityTypeOK, Config, Install, NoInstall, Phase
<1>2. IdentityOK
  BY BoundsAssumption
     DEF Init, IdentityOK, IdsOK, ProgressOK, Mine, NoInstall
<1> QED
  BY <1>1, <1>2 DEF IdentityInv

\* What the steps of a running sync of s have in common, as far as identities go:
\* no config changes, only the progress of s does, and what is left to
\* reconcile or pull shrinks or is chosen without the current id.
SyncOnly(s) ==
  /\ pc[s] # "idle"
  /\ UNCHANGED identity /\ recorded' = recorded
  /\ \A g \in bucket' : g.inst \in Install
  /\ snap' \in [Store -> SUBSET bucket']
  /\ pc' \in [Store -> Phase]
  /\ forked' \in [Store -> BOOLEAN]
  /\ faults' \in 0 .. MaxFault
  /\ retiring' \in [Store -> Seq(Install)]
  /\ pulling' \in [Store -> SUBSET Install]
  /\ \A t \in Store \ {s} :
       pc'[t] = pc[t] /\ retiring'[t] = retiring[t] /\ pulling'[t] = pulling[t]
  /\ \/ retiring'[s] \in {<<>>, retiring[s]}
     \/ retiring[s] # <<>> /\ retiring'[s] = Tail(retiring[s])
  /\ pulling'[s] \subseteq pulling[s] \/ Mine(s) \notin pulling'[s]
  /\ pc'[s] = "idle" => retiring'[s] = <<>> /\ pulling'[s] = {}
  /\ pc'[s] = "reemit" => retiring'[s] # <<>>

\* The steps of a running sync, its faults and its end: no identity changes.
LEMMA RunningSyncKeeps ==
  ASSUME IdentityInv, NEW s \in Store, SyncOnly(s)
  PROVE  IdentityInv'
<1> USE DEF SyncOnly
<1>1. IdentityTypeOK'
  BY DEF IdentityInv, IdentityTypeOK, identity
<1>2. ASSUME NEW t \in Store
      PROVE  IdsOK(cfg'[t], minted') /\ ProgressOK(t)'
  <2>1. IdsOK(cfg[t], minted) /\ ProgressOK(t) /\ ProgressOK(s)
    BY DEF IdentityInv, IdentityOK
  <2>2. IdsOK(cfg'[t], minted')
    BY <2>1 DEF identity
  <2>3. CASE t # s
    BY <2>1, <2>2, <2>3 DEF ProgressOK, Mine, Exists, identity
  <2>4. CASE t = s
    <3>1. retiring[s] \in Seq(Install)
      BY DEF IdentityInv, IdentityTypeOK
    <3>2. \A k \in DOMAIN retiring'[s] : retiring'[s][k] # Mine(s)
      <4>1. CASE retiring'[s] \in {<<>>, retiring[s]}
        BY <2>1, <4>1 DEF ProgressOK
      <4>2. CASE retiring[s] # <<>> /\ retiring'[s] = Tail(retiring[s])
        BY <2>1, <3>1, <4>2 DEF ProgressOK
      <4> QED BY <4>1, <4>2
    <3>3. Mine(s) \notin pulling'[s]
      BY <2>1 DEF ProgressOK
    <3>4. Exists(s)' /\ Mine(s)' = Mine(s)
      BY <2>1 DEF ProgressOK, Exists, Mine, identity
    <3> QED BY <2>2, <2>4, <3>2, <3>3, <3>4 DEF ProgressOK
  <2> QED BY <2>3, <2>4
<1> QED
  BY <1>1, <1>2 DEF IdentityInv, IdentityOK

LEMMA LeaveKeeps ==
  ASSUME IdentityInv, NEW s \in Store, pc[s] # "idle", Leave(s), UNCHANGED identity,
         recorded' = recorded,
         bucket \subseteq bucket', \A g \in bucket' : g.inst \in Install,
         forked' \in [Store -> BOOLEAN], faults' \in 0 .. MaxFault
  PROVE  IdentityInv'
<1> USE DEF Leave, IdentityInv, IdentityTypeOK
<1>1. /\ pc' \in [Store -> Phase] /\ pc'[s] = "idle"
      /\ retiring' \in [Store -> Seq(Install)] /\ retiring'[s] = <<>>
      /\ pulling' \in [Store -> SUBSET Install] /\ pulling'[s] = {}
  BY DEF Phase
<1>2. \A t \in Store \ {s} : pc'[t] = pc[t] /\ retiring'[t] = retiring[t] /\ pulling'[t] = pulling[t]
  OBVIOUS
<1>3. snap' \in [Store -> SUBSET bucket']
  OBVIOUS
<1>4. SyncOnly(s)
  BY <1>1, <1>2, <1>3 DEF SyncOnly
<1> QED
  BY <1>4, RunningSyncKeeps

LEMMA FaultCount == ASSUME IdentityTypeOK, Fault PROVE faults' \in 0 .. MaxFault
  BY BoundsAssumption DEF IdentityTypeOK, Fault

\* A store uploads under an id that was minted.
LEMMA NextSegmentTyped ==
  ASSUME IdentityInv, NEW s \in Store, pc[s] # "idle"
  PROVE  NextSegment(s).inst \in Install
<1>1. cfg[s] \in Config /\ cfg[s].own # NoInstall
  BY DEF IdentityInv, IdentityTypeOK, IdentityOK, ProgressOK, Exists
<1> QED
  BY <1>1 DEF NextSegment, Mine, Config

\* The steps of SyncStep and FaultStep that a sync takes after SyncBegin.
LEMMA RunningStep ==
  ASSUME IdentityInv, NEW s \in Store,
         \/ NothingToReconcile(s) \/ ReconcileFails(s) \/ Adopt(s) \/ ReEmit(s)
         \/ NothingToPush(s) \/ Push(s) \/ PushRefused(s)
         \/ \E how \in PutFault : PushFails(s, how)
         \/ \E i \in pulling[s] : \E n \in 0 .. Len(PullPlan(s, i)) : Pull(s, i, n)
         \/ Finish(s) \/ Crash(s)
         \/ \E i \in pulling[s] : CrashInAppend(s, i)
  PROVE  IdentityInv'
<1>0. /\ IdentityTypeOK /\ pc \in [Store -> Phase] /\ retiring \in [Store -> Seq(Install)]
      /\ (\A g \in bucket : g.inst \in Install) /\ snap \in [Store -> SUBSET bucket]
      /\ pulling \in [Store -> SUBSET Install] /\ forked \in [Store -> BOOLEAN]
      /\ faults \in 0 .. MaxFault
  BY DEF IdentityInv, IdentityTypeOK
<1>1. CASE NothingToReconcile(s) \/ ReconcileFails(s)
  <2>1. /\ pc[s] = "reconcile" /\ pc' = pc /\ pulling' = pulling /\ forked' = forked
        /\ retiring[s] # <<>> /\ retiring' = [retiring EXCEPT ![s] = Tail(@)]
        /\ UNCHANGED <<identity, recorded, bucket, snap>>
    BY <1>1 DEF NothingToReconcile, ReconcileFails
  <2>2. faults' \in 0 .. MaxFault
    BY <1>0, <1>1, FaultCount DEF NothingToReconcile, ReconcileFails
  <2>3. Tail(retiring[s]) \in Seq(Install)
    BY <1>0, <2>1
  <2>4. /\ retiring' \in [Store -> Seq(Install)] /\ retiring'[s] = Tail(retiring[s])
        /\ \A t \in Store \ {s} : retiring'[t] = retiring[t]
    BY <1>0, <2>1, <2>3
  <2>5. SyncOnly(s)
    BY <1>0, <2>1, <2>2, <2>4 DEF SyncOnly
  <2> QED BY <2>5, RunningSyncKeeps
<1>3. CASE Adopt(s)
  <2>1. SyncOnly(s)
    BY <1>0, <1>3 DEF Adopt, SyncOnly, Phase
  <2> QED BY <2>1, RunningSyncKeeps
<1>4. CASE ReEmit(s)
  <2>1. /\ pc[s] = "reemit" /\ UNCHANGED <<identity, recorded, bucket, snap>>
        /\ pulling' = pulling /\ forked' = forked /\ faults' = faults
    BY <1>4 DEF ReEmit
  <2>2. retiring[s] # <<>>
    BY <2>1 DEF IdentityInv, IdentityOK, ProgressOK
  <2>3. CASE pc' = [pc EXCEPT ![s] = "reconcile"] /\ retiring' = [retiring EXCEPT ![s] = Tail(@)]
    <3>1. Tail(retiring[s]) \in Seq(Install)
      BY <1>0, <2>2
    <3>2. /\ retiring' \in [Store -> Seq(Install)] /\ retiring'[s] = Tail(retiring[s])
          /\ \A t \in Store \ {s} : retiring'[t] = retiring[t]
      BY <1>0, <2>3, <3>1
    <3>3. /\ pc' \in [Store -> Phase] /\ pc'[s] = "reconcile"
          /\ \A t \in Store \ {s} : pc'[t] = pc[t]
      BY <1>0, <2>3 DEF Phase
    <3>4. SyncOnly(s)
      BY <1>0, <2>1, <2>2, <3>2, <3>3 DEF SyncOnly
    <3> QED BY <3>4, RunningSyncKeeps
  <2>4. CASE UNCHANGED <<pc, retiring>>
    <3>1. SyncOnly(s)
      BY <1>0, <2>1, <2>2, <2>4 DEF SyncOnly
    <3> QED BY <3>1, RunningSyncKeeps
  <2> QED BY <1>4, <2>3, <2>4 DEF ReEmit
<1>5. CASE NothingToPush(s) \/ Push(s)
  <2>1. /\ ReadyToPush(s) /\ StartPull(s) /\ UNCHANGED identity
        /\ UNCHANGED <<recorded, forked, faults, snap, retiring>>
    BY <1>5 DEF NothingToPush, Push, StartPull
  <2>2. pc[s] = "reconcile" /\ bucket' \in {bucket, bucket \cup {NextSegment(s)}}
    BY <1>5 DEF NothingToPush, Push, ReadyToPush
  <2>3. bucket \subseteq bucket' /\ \A g \in bucket' : g.inst \in Install
    BY <1>0, <2>2, NextSegmentTyped
  <2>4. {g.inst : g \in snap[s]} \subseteq Install
    BY <1>0
  <2>5. /\ pulling' \in [Store -> SUBSET Install] /\ Mine(s) \notin pulling'[s]
        /\ \A t \in Store \ {s} : pulling'[t] = pulling[t]
    BY <1>0, <2>1, <2>4 DEF StartPull
  <2>6. /\ pc' \in [Store -> Phase] /\ pc'[s] = "pull"
        /\ \A t \in Store \ {s} : pc'[t] = pc[t]
    BY <1>0, <2>1 DEF StartPull, Phase
  <2>7. SyncOnly(s)
    BY <1>0, <2>1, <2>2, <2>3, <2>5, <2>6 DEF SyncOnly
  <2> QED BY <2>7, RunningSyncKeeps
<1>6. CASE PushRefused(s)
  <2>1. pc[s] # "idle" /\ Leave(s) /\ UNCHANGED <<identity, recorded, bucket, faults>>
    BY <1>6 DEF PushRefused, ReadyToPush
  <2>2. forked' \in [Store -> BOOLEAN]
    BY <1>0, <1>6, BoundsAssumption DEF PushRefused
  <2> QED BY <1>0, <2>1, <2>2, LeaveKeeps
<1>7. CASE \E how \in PutFault : PushFails(s, how)
  <2>1. PICK how \in PutFault : PushFails(s, how)
    BY <1>7
  <2>2. pc[s] = "reconcile" /\ Leave(s) /\ UNCHANGED <<identity, recorded>> /\ Fault
    BY <2>1 DEF PushFails, ReadyToPush
  <2>3. forked' \in [Store -> BOOLEAN]
    BY <1>0, <2>1 DEF PushFails
  <2>4. bucket' \in {bucket, bucket \cup {NextSegment(s)}}
    BY <2>1 DEF PushFails
  <2>5. bucket \subseteq bucket' /\ \A g \in bucket' : g.inst \in Install
    BY <1>0, <2>2, <2>4, NextSegmentTyped
  <2> QED BY <1>0, <2>2, <2>3, <2>5, LeaveKeeps, FaultCount
<1>8. CASE \E i \in pulling[s] : \E n \in 0 .. Len(PullPlan(s, i)) : Pull(s, i, n)
  <2>1. PICK i \in pulling[s] : \E n \in 0 .. Len(PullPlan(s, i)) : Pull(s, i, n)
    BY <1>8
  <2>2. PICK n \in 0 .. Len(PullPlan(s, i)) : Pull(s, i, n)
    BY <2>1
  <2>3. faults' \in 0 .. MaxFault
    BY <1>0, <2>2, FaultCount DEF Pull
  <2>4. /\ pc[s] = "pull" /\ pc' = pc /\ retiring' = retiring /\ forked' = forked
        /\ pulling' = [pulling EXCEPT ![s] = @ \ {i}]
        /\ UNCHANGED <<identity, recorded, bucket, snap>>
    BY <2>2 DEF Pull
  <2>5. SyncOnly(s)
    BY <1>0, <2>3, <2>4 DEF SyncOnly
  <2> QED BY <2>5, RunningSyncKeeps
<1>9. CASE Finish(s)
  <2>1. pc[s] # "idle" /\ Leave(s) /\ UNCHANGED <<identity, recorded, bucket, forked, faults>>
    BY <1>9 DEF Finish
  <2> QED BY <1>0, <2>1, LeaveKeeps
<1>10. CASE Crash(s)
  <2>1. pc[s] # "idle" /\ Leave(s) /\ UNCHANGED <<identity, recorded, bucket, forked>> /\ Fault
    BY <1>10, BoundsAssumption DEF Crash
  <2> QED BY <1>0, <2>1, LeaveKeeps, FaultCount
<1>11. CASE \E i \in pulling[s] : CrashInAppend(s, i)
  <2>1. pc[s] # "idle" /\ Leave(s) /\ UNCHANGED <<identity, recorded, bucket, forked>> /\ Fault
    BY <1>11 DEF CrashInAppend
  <2> QED BY <1>0, <2>1, LeaveKeeps, FaultCount
<1> QED
  BY <1>1, <1>3, <1>4, <1>5, <1>6, <1>7, <1>8, <1>9, <1>10, <1>11

------------------------------------------------------------------------------

\* A locked operation that leaves the progress of every sync alone.
LEMMA LockedKeeps ==
  ASSUME IdentityInv, NEW s \in Store, Lock(s), UNCHANGED <<bucket, progress>>,
         recorded' \subseteq Decision, forked' \in [Store -> BOOLEAN], faults' \in 0 .. MaxFault
  PROVE  IdentityInv'
<1>1. /\ cfg' \in [Store -> Config]
      /\ at' \in [Store -> Machine \cup {NoFingerprint}]
      /\ minted' \in 0 .. MaxInstall
      /\ \A t \in Store : IdsOK(cfg'[t], minted')
      /\ \A t \in Store \ {s} : cfg'[t] = cfg[t]
      /\ cfg'[s].own # NoInstall
  BY LockSound
<1>2. IdentityTypeOK'
  BY <1>1 DEF IdentityInv, IdentityTypeOK, progress
<1>3. ASSUME NEW t \in Store PROVE ProgressOK(t)'
  <2>1. ProgressOK(t)
    BY DEF IdentityInv, IdentityOK
  <2>2. CASE t # s
    BY <1>1, <2>1, <2>2 DEF ProgressOK, progress, Exists, Mine
  <2>3. CASE t = s
    <3>1. pc[s] = "idle" /\ retiring[s] = <<>> /\ pulling[s] = {}
      BY <2>1, <2>3 DEF ProgressOK, Lock
    <3> QED BY <2>3, <3>1 DEF ProgressOK, progress
  <2> QED BY <2>2, <2>3
<1> QED
  BY <1>1, <1>2, <1>3 DEF IdentityInv, IdentityOK

LEMMA SyncBeginKeeps ==
  ASSUME IdentityInv, NEW s \in Store, SyncBegin(s)
  PROVE  IdentityInv'
<1>0. IdentityTypeOK /\ Lock(s)
  BY DEF IdentityInv, SyncBegin
<1>1. /\ cfg' \in [Store -> Config]
      /\ at' \in [Store -> Machine \cup {NoFingerprint}]
      /\ minted' \in 0 .. MaxInstall
      /\ \A t \in Store : IdsOK(cfg'[t], minted')
      /\ \A t \in Store \ {s} : cfg'[t] = cfg[t]
      /\ cfg'[s].own # NoInstall
  BY <1>0, LockSound
<1>2. cfg'[s].retired \in Seq(Install)
  BY <1>1 DEF Config
<1>3. /\ retiring' \in [Store -> Seq(Install)] /\ retiring'[s] = cfg'[s].retired
      /\ \A t \in Store \ {s} : retiring'[t] = retiring[t]
  BY <1>0, <1>2 DEF SyncBegin, IdentityTypeOK
<1>4. /\ pc' \in [Store -> Phase] /\ pc'[s] = "reconcile"
      /\ \A t \in Store \ {s} : pc'[t] = pc[t]
  BY <1>0 DEF SyncBegin, IdentityTypeOK, Phase
<1>5. snap' \in [Store -> SUBSET bucket'] /\ forked' \in [Store -> BOOLEAN]
  BY <1>0 DEF SyncBegin, IdentityTypeOK
<1>6. UNCHANGED <<bucket, recorded, pulling, faults>>
  BY DEF SyncBegin
<1>7. IdentityTypeOK'
  BY <1>0, <1>1, <1>3, <1>4, <1>5, <1>6 DEF IdentityTypeOK
<1>8. ASSUME NEW t \in Store PROVE ProgressOK(t)'
  <2>1. ProgressOK(t)
    BY DEF IdentityInv, IdentityOK
  <2>2. CASE t # s
    BY <1>1, <1>3, <1>4, <1>6, <2>1, <2>2 DEF ProgressOK, Exists, Mine
  <2>3. CASE t = s
    <3>1. pulling'[s] = {}
      BY <1>0, <1>6, <2>1, <2>3 DEF ProgressOK, Lock
    <3>2. \A k \in DOMAIN retiring'[s] : retiring'[s][k] # cfg'[s].own
      BY <1>1, <1>3 DEF IdsOK
    <3> QED BY <1>1, <1>4, <2>3, <3>1, <3>2 DEF ProgressOK, Exists, Mine
  <2> QED BY <2>2, <2>3
<1> QED
  BY <1>1, <1>7, <1>8 DEF IdentityInv, IdentityOK

\* An operation of an idle store that gives it another config, sound for the
\* ids minted by then, or another place.
LEMMA NewConfigKeeps ==
  ASSUME IdentityInv, NEW s \in Store, pc[s] = "idle",
         NEW c \in Config, cfg' = [cfg EXCEPT ![s] = c],
         NEW n \in 0 .. MaxInstall, minted <= n, minted' = n, IdsOK(c, n),
         at' \in [Store -> Machine \cup {NoFingerprint}], forked' \in [Store -> BOOLEAN],
         UNCHANGED <<bucket, recorded, progress, faults>>
  PROVE  IdentityInv'
<1>1. IdentityTypeOK'
  BY DEF IdentityInv, IdentityTypeOK, progress
<1>2. cfg'[s] = c /\ \A t \in Store \ {s} : cfg'[t] = cfg[t]
  BY DEF IdentityInv, IdentityTypeOK
<1>3. ASSUME NEW t \in Store PROVE IdsOK(cfg'[t], minted')
  <2>1. CASE t = s
    BY <1>2, <2>1
  <2>2. CASE t # s
    <3>1. cfg[t] \in Config /\ IdsOK(cfg[t], minted) /\ minted \in Nat /\ n \in Nat
      BY BoundsAssumption DEF IdentityInv, IdentityTypeOK, IdentityOK
    <3>2. IdsOK(cfg[t], n)
      BY <3>1, IdsGrow
    <3> QED BY <1>2, <2>2, <3>2
  <2> QED BY <2>1, <2>2
<1>4. ASSUME NEW t \in Store PROVE ProgressOK(t)'
  <2>1. ProgressOK(t)
    BY DEF IdentityInv, IdentityOK
  <2>2. CASE t # s
    BY <1>2, <2>1, <2>2 DEF ProgressOK, progress, Exists, Mine
  <2>3. CASE t = s
    <3>1. pc[s] = "idle" /\ retiring[s] = <<>> /\ pulling[s] = {}
      BY <2>1, <2>3 DEF ProgressOK
    <3> QED BY <2>3, <3>1 DEF ProgressOK, progress
  <2> QED BY <2>2, <2>3
<1> QED
  BY <1>1, <1>3, <1>4 DEF IdentityInv, IdentityOK

LEMMA CreateKeeps ==
  ASSUME IdentityInv, NEW s \in Store, NEW m \in Machine, Create(s, m)
  PROVE  IdentityInv'
<1> DEFINE c == [own |-> minted + 1, retired |-> <<>>, bound |-> m]
<1>1. minted \in 0 .. MaxInstall /\ at \in [Store -> Machine \cup {NoFingerprint}] /\ forked \in [Store -> BOOLEAN]
  BY DEF IdentityInv, IdentityTypeOK
<1>2. minted + 1 \in 0 .. MaxInstall /\ minted <= minted + 1
  BY <1>1, BoundsAssumption DEF Create
<1>3. c \in Config
  BY <1>2, <1>1, BoundsAssumption DEF Config, Install
<1>4. IdsOK(c, minted + 1)
  BY <1>2 DEF IdsOK
<1>5. pc[s] = "idle"
  BY DEF IdentityInv, IdentityOK, ProgressOK, Create
<1>6. /\ cfg' = [cfg EXCEPT ![s] = c] /\ minted' = minted + 1
      /\ at' = [at EXCEPT ![s] = m]
      /\ UNCHANGED <<bucket, recorded, progress, forked, faults>>
  BY DEF Create
<1> HIDE DEF c
<1> QED
  BY <1>1, <1>2, <1>3, <1>4, <1>5, <1>6, NewConfigKeeps

LEMMA RotateKeeps ==
  ASSUME IdentityInv, NEW s \in Store, Rotate(s)
  PROVE  IdentityInv'
<1> DEFINE used == IF Rotates(cfg[s], at[s]) THEN 2 ELSE 1
           k == IF Rotates(cfg[s], at[s]) THEN minted + 1 ELSE minted
           locked == ApplyMachineBinding(cfg[s], at[s], minted + 1)
           rotated == RotateInstallLocked(locked, minted + used)
           c == IF at[s] = NoFingerprint THEN rotated ELSE BindTo(rotated, at[s])
<1>1. /\ minted \in 0 .. MaxInstall /\ at \in [Store -> Machine \cup {NoFingerprint}]
      /\ forked \in [Store -> BOOLEAN] /\ cfg[s] \in Config /\ IdsOK(cfg[s], minted)
  BY DEF IdentityInv, IdentityTypeOK, IdentityOK
<1>2. cfg[s].own # NoInstall /\ pc[s] = "idle" /\ minted + used <= MaxInstall
  BY DEF Rotate, Exists
<1>3. /\ cfg' = [cfg EXCEPT ![s] = c] /\ minted' = minted + used
      /\ forked' = [forked EXCEPT ![s] = FALSE]
      /\ UNCHANGED <<at, bucket, recorded, progress, faults>>
  BY DEF Rotate
<1>4. locked \in Config /\ locked.own # NoInstall /\ IdsOK(locked, k)
  BY <1>1, <1>2, BindingSound, BoundsAssumption
<1>5. /\ k \in Nat /\ k < minted + used /\ minted + used \in Install
      /\ minted + used \in 0 .. MaxInstall /\ minted <= minted + used
  BY <1>1, <1>2, BoundsAssumption DEF Install
<1> HIDE DEF locked, used, k
<1>6. rotated \in Config /\ IdsOK(rotated, minted + used)
  BY <1>4, <1>5, RotateSound
<1> HIDE DEF rotated
<1>7. c \in Config /\ IdsOK(c, minted + used)
  BY <1>1, <1>6 DEF Config, IdsOK, BindTo
<1> HIDE DEF c
<1> QED
  BY <1>1, <1>2, <1>3, <1>5, <1>7, NewConfigKeeps

LEMMA CopyKeeps ==
  ASSUME IdentityInv, NEW s \in Store, NEW t \in Store, NEW m \in Machine, Copy(s, t, m)
  PROVE  IdentityInv'
<1>1. /\ minted \in 0 .. MaxInstall /\ at \in [Store -> Machine \cup {NoFingerprint}]
      /\ forked \in [Store -> BOOLEAN] /\ cfg[s] \in Config /\ IdsOK(cfg[s], minted)
      /\ minted <= minted
  BY BoundsAssumption DEF IdentityInv, IdentityTypeOK, IdentityOK
<1>2. pc[t] = "idle"
  BY DEF IdentityInv, IdentityOK, ProgressOK, Copy
<1>3. /\ cfg' = [cfg EXCEPT ![t] = cfg[s]] /\ at' = [at EXCEPT ![t] = m]
      /\ UNCHANGED <<bucket, minted, recorded, progress, forked, faults>>
  BY DEF Copy
<1> QED
  BY <1>1, <1>2, <1>3, NewConfigKeeps

LEMMA MoveKeeps ==
  ASSUME IdentityInv, NEW s \in Store, NEW m \in Machine, Move(s, m)
  PROVE  IdentityInv'
<1>1. /\ IdentityTypeOK' /\ UNCHANGED <<cfg, minted, progress>>
  BY DEF IdentityInv, IdentityTypeOK, Move, progress
<1> QED
  BY <1>1 DEF IdentityInv, IdentityOK, ProgressOK, Exists, Mine, progress

\* Every step of every store, under every interleaving, copy, move and fault.
LEMMA StepKeeps == IdentityInv /\ [Next]_vars => IdentityInv'
<1> SUFFICES ASSUME IdentityInv, [Next]_vars PROVE IdentityInv'
  OBVIOUS
<1>1. CASE UNCHANGED vars
  BY <1>1 DEF vars, IdentityInv, IdentityTypeOK, IdentityOK, ProgressOK, Exists, Mine
<1>2. CASE Next
  <2>1. PICK s \in Store : SyncStep(s) \/ FaultStep(s) \/ UserStep(s)
    BY <1>2 DEF Next
  <2>2. CASE SyncStep(s)
    <3>1. CASE SyncFork(s)
      <4>1. /\ Lock(s) /\ UNCHANGED <<bucket, progress, faults, recorded>>
            /\ recorded \subseteq Decision /\ faults \in 0 .. MaxFault /\ forked' \in [Store -> BOOLEAN]
        BY <3>1 DEF SyncFork, IdentityInv, IdentityTypeOK
      <4> QED BY <4>1, LockedKeeps
    <3>2. CASE SyncBegin(s)
      BY <3>2, SyncBeginKeeps
    <3>3. CASE \E i \in pulling[s] : Pull(s, i, Len(PullPlan(s, i)))
      <4>1. PICK i \in pulling[s] : Pull(s, i, Len(PullPlan(s, i)))
        BY <3>3
      <4>2. Len(PullPlan(s, i)) \in 0 .. Len(PullPlan(s, i))
        BY <4>1 DEF Pull
      <4> QED BY <4>1, <4>2, RunningStep
    <3>4. CASE \/ NothingToReconcile(s) \/ Adopt(s) \/ ReEmit(s) \/ NothingToPush(s)
               \/ Push(s) \/ PushRefused(s) \/ Finish(s)
      BY <3>4, RunningStep
    <3> QED BY <2>2, <3>1, <3>2, <3>3, <3>4 DEF SyncStep
  <2>3. CASE FaultStep(s)
    <3>1. CASE \E i \in pulling[s] : \E n \in 0 .. Len(PullPlan(s, i)) - 1 : Pull(s, i, n)
      <4>1. PICK i \in pulling[s] : \E n \in 0 .. Len(PullPlan(s, i)) - 1 : Pull(s, i, n)
        BY <3>1
      <4>2. PICK n \in 0 .. Len(PullPlan(s, i)) - 1 : Pull(s, i, n)
        BY <4>1
      <4>3. n \in 0 .. Len(PullPlan(s, i))
        BY <4>2 DEF Pull
      <4> QED BY <4>2, <4>3, RunningStep
    <3>2. CASE \/ ReconcileFails(s) \/ (\E how \in PutFault : PushFails(s, how))
               \/ (\E i \in pulling[s] : CrashInAppend(s, i)) \/ Crash(s)
      BY <3>2, RunningStep
    <3>3. CASE SyncUnreachable(s)
      <4>1. /\ Lock(s) /\ UNCHANGED <<bucket, progress, recorded>>
            /\ recorded \subseteq Decision /\ forked' \in [Store -> BOOLEAN]
        BY <3>3 DEF SyncUnreachable, IdentityInv, IdentityTypeOK
      <4>2. faults' \in 0 .. MaxFault
        BY <3>3, FaultCount DEF SyncUnreachable, IdentityInv
      <4> QED BY <4>1, <4>2, LockedKeeps
    <3> QED BY <2>3, <3>1, <3>2, <3>3 DEF FaultStep
  <2>4. CASE UserStep(s)
    <3>1. ASSUME NEW d \in Decision, Record(s, d) PROVE IdentityInv'
      <4>1. /\ Lock(s) /\ UNCHANGED <<bucket, progress, faults, forked>>
            /\ recorded' \subseteq Decision /\ forked \in [Store -> BOOLEAN]
            /\ faults \in 0 .. MaxFault
        BY <3>1 DEF Record, IdentityInv, IdentityTypeOK
      <4> QED BY <4>1, LockedKeeps
    <3>2. CASE \E m \in Machine : Create(s, m) \/ Move(s, m)
      BY <3>2, CreateKeeps, MoveKeeps
    <3>3. CASE \E t \in Store, m \in Machine : Copy(s, t, m)
      BY <3>3, CopyKeeps
    <3>4. CASE Rotate(s)
      BY <3>4, RotateKeeps
    <3> QED BY <2>4, <3>1, <3>2, <3>3, <3>4 DEF UserStep
  <2> QED BY <2>1, <2>2, <2>3, <2>4
<1> QED
  BY <1>1, <1>2

\* A store never writes under an id it has retired (IdentityOK), for any number
\* of stores, machines, ids and faults.
THEOREM IdentitySafe == Spec => []IdentityOK
<1>1. Spec => []IdentityInv
  BY IdentityInit, StepKeeps, PTL DEF Spec
<1>2. IdentityInv => IdentityOK
  BY DEF IdentityInv
<1> QED
  BY <1>1, <1>2, PTL

\* The types of configs, ids and sync progress.
THEOREM IdentityTyped == Spec => []IdentityTypeOK
<1>1. Spec => []IdentityInv
  BY IdentityInit, StepKeeps, PTL DEF Spec
<1>2. IdentityInv => IdentityTypeOK
  BY DEF IdentityInv
<1> QED
  BY <1>1, <1>2, PTL

------------------------------------------------------------------------------

\* Every store has a file (possibly empty) per install.
Shards == DOMAIN shard = Store /\ \A s \in Store : DOMAIN shard[s] = Install

\* The steps that write shards, and what each may write: the shards of one store
\* only, and while its sync reconciles or pulls not the own one.
WritesOnly(s) ==
  \/ UNCHANGED shard
  \/ \E i \in Install : \E segs :
       /\ shard' = [shard EXCEPT ![s][i] = segs]
       /\ pc[s] \in {"reconcile", "pull"} => i # Mine(s)
  \/ ~Exists(s) /\ \E t \in Store : shard' = [shard EXCEPT ![s] = shard[t]]

LEMMA WritesAre ==
  ASSUME IdentityInv, Next
  PROVE  \E s \in Store : WritesOnly(s)
<1>1. PICK s \in Store : SyncStep(s) \/ FaultStep(s) \/ UserStep(s)
  BY DEF Next
<1>2. retiring[s] \in Seq(Install) /\ pulling[s] \subseteq Install /\ ProgressOK(s)
  BY DEF IdentityInv, IdentityTypeOK, IdentityOK
<1>3. CASE Adopt(s)
  <2>1. Head(retiring[s]) \in Install /\ Head(retiring[s]) # Mine(s)
    BY <1>2, <1>3 DEF Adopt, ProgressOK
  <2>2. WritesOnly(s)
    BY <1>3, <2>1 DEF Adopt, WritesOnly
  <2> QED BY <2>2
<1>4. CASE ReEmit(s)
  <2>1. Mine(s) \in Install
    BY <1>2, <1>4 DEF ReEmit, ProgressOK, Exists, Mine, IdentityInv, IdentityTypeOK, Config
  <2>2. PICK segs : shard' = [shard EXCEPT ![s][Mine(s)] = segs]
    BY <1>4 DEF ReEmit, AppendOwn
  <2>3. WritesOnly(s)
    BY <1>4, <2>1, <2>2 DEF WritesOnly, ReEmit
  <2> QED BY <2>3
<1>5. CASE \E d \in Decision : Record(s, d)
  <2>1. PICK d \in Decision : Record(s, d)
    BY <1>5
  <2>2. pc[s] = "idle" /\ cfg'[s].own \in Install
    BY <2>1, LockSound DEF Record, Lock, Config
  <2>3. PICK segs : shard' = [shard EXCEPT ![s][cfg'[s].own] = segs]
    BY <2>1 DEF Record, AppendOwn
  <2>4. WritesOnly(s)
    BY <2>2, <2>3 DEF WritesOnly
  <2> QED BY <2>4
<1>6. ASSUME NEW i \in pulling[s], NEW n, Pull(s, i, n)
      PROVE  WritesOnly(s)
  BY <1>2, <1>6 DEF Pull, AppendForeign, WritesOnly, ProgressOK
<1>7. ASSUME NEW i \in pulling[s], CrashInAppend(s, i)
      PROVE  WritesOnly(s)
  <2>1. PICK segs : shard' = [shard EXCEPT ![s][i] = segs]
    BY <1>7 DEF CrashInAppend
  <2>2. i \in Install /\ i # Mine(s)
    BY <1>2, <1>7 DEF ProgressOK
  <2> QED BY <2>1, <2>2 DEF WritesOnly
<1>8. ASSUME NEW t \in Store, NEW m \in Machine, Copy(s, t, m)
      PROVE  WritesOnly(t)
  BY <1>8 DEF Copy, WritesOnly
<1>9. CASE UNCHANGED shard
  BY <1>9 DEF WritesOnly
<1> QED
  BY <1>1, <1>3, <1>4, <1>5, <1>6, <1>7, <1>8, <1>9
     DEF SyncStep, FaultStep, UserStep, SyncFork, SyncBegin, SyncUnreachable, NothingToReconcile,
         NothingToPush, Push, PushRefused, Finish, ReconcileFails, PushFails, Crash,
         Create, Move, Rotate

LEMMA ShardsKept == Shards /\ IdentityInv /\ [Next]_vars => Shards'
<1> SUFFICES ASSUME Shards, IdentityInv, [Next]_vars PROVE Shards'
  OBVIOUS
<1>1. CASE UNCHANGED vars
  BY <1>1 DEF vars, Shards
<1>2. CASE Next
  <2>1. PICK s \in Store : WritesOnly(s)
    BY <1>2, WritesAre
  <2> QED BY <2>1 DEF WritesOnly, Shards
<1> QED
  BY <1>1, <1>2

\* A running sync leaves the store's own shard alone while it reconciles or
\* pulls (OwnShardUntouched), whatever the other stores do meanwhile.
THEOREM OwnShardSafe == Spec => OwnShardUntouched
<1>1. Init => Shards
  BY DEF Init, Shards
<1>2. ASSUME IdentityInv, Shards, [Next]_vars,
             NEW s \in Store, pc[s] \in {"reconcile", "pull"}
      PROVE  shard'[s][Mine(s)] = shard[s][Mine(s)]
  <2>1. CASE UNCHANGED vars
    BY <2>1 DEF vars, Mine
  <2>2. CASE Next
    <3>1. PICK t \in Store : WritesOnly(t)
      BY <1>2, <2>2, WritesAre
    <3>2. Exists(s) /\ Mine(s) \in Install
      BY <1>2 DEF IdentityInv, IdentityTypeOK, IdentityOK, ProgressOK, Exists, Mine, Config
    <3>3. CASE t # s
      BY <1>2, <3>1, <3>3 DEF WritesOnly, Shards
    <3>4. CASE t = s
      BY <1>2, <3>1, <3>2, <3>4 DEF WritesOnly, Shards
    <3> QED BY <3>3, <3>4
  <2> QED BY <1>2, <2>1, <2>2
<1>3. IdentityInv /\ Shards /\ [Next]_vars
        => [\A s \in Store : pc[s] \in {"reconcile", "pull"}
              => shard'[s][Mine(s)] = shard[s][Mine(s)]]_vars
  BY <1>2
<1> QED
  BY <1>1, <1>3, IdentityInit, StepKeeps, ShardsKept, PTL DEF Spec, OwnShardUntouched

\* The events a store writes: every entry is stamped later than the ones before it.
RisingEvent ==
  {e \in Seq(Entry(Decision)) :
     e # <<>> /\ \A j, k \in 1 .. Len(e) : j < k => e[j].lam < e[k].lam}

LogTyped ==
  /\ shard \in [Store -> [Install -> Seq(RisingEvent)]]
  /\ bucket \subseteq SegmentOf(RisingEvent)
  /\ orphans \in [Store -> Seq(RisingEvent)]
  /\ \A s \in Store : (orphans[s] # <<>>) = (pc[s] = "reemit")

\* The upload is conditional, so no two objects have the same key.
KeysUnique ==
  /\ IsFiniteSet(bucket)
  /\ \A g, h \in bucket :
       g.inst = h.inst /\ g.seq = h.seq /\ Len(g.evs) = Len(h.evs) => g = h

TypeInv == IdentityInv /\ LogTyped /\ KeysUnique

Listed(s, i) == GroupSegments(snap[s], i)

\* A nonempty sequence of events ends in one.
LEMMA RisingTyped ==
  /\ \A e \in RisingEvent : /\ e \in Event(Decision) /\ e \in Seq(Entry(Decision)) /\ e # <<>>
                            /\ Len(e) \in Nat \ {0}
                            /\ Last(e) \in Entry(Decision)
                            /\ Last(e).lam \in Nat /\ Last(e).dec \in Decision
  /\ RisingEvent \subseteq Seq(Entry(Decision)) \ {<<>>}
<1>1. ASSUME NEW e \in RisingEvent
      PROVE  /\ e \in Event(Decision) /\ e \in Seq(Entry(Decision)) /\ e # <<>>
             /\ Len(e) \in Nat \ {0}
             /\ Last(e) \in Entry(Decision)
             /\ Last(e).lam \in Nat /\ Last(e).dec \in Decision
  <2>1. e \in Seq(Entry(Decision)) /\ e # <<>>
    BY DEF RisingEvent
  <2>2. Len(e) \in Nat \ {0} /\ Last(e) \in Entry(Decision)
    BY <2>1 DEF Last
  <2> QED BY <2>1, <2>2 DEF Event, Entry
<1> QED BY <1>1

\* NextLamport is past the last stamp of every shard.
LEMMA StampAbove ==
  ASSUME NEW sh \in [Install -> Seq(RisingEvent)], Install # {}
  PROVE  /\ NextLamport(sh) \in Nat
         /\ \A i \in Install : /\ LastLamport(sh[i]) \in Nat
                               /\ LastLamport(sh[i]) < NextLamport(sh)
<1>1. \A i \in Install : LastLamport(sh[i]) \in Nat
  <2>1. SUFFICES ASSUME NEW i \in Install PROVE LastLamport(sh[i]) \in Nat
    BY Zenon
  <2>2. CASE sh[i] = <<>>
    BY <2>2 DEF LastLamport
  <2>3. CASE sh[i] # <<>>
    <3>1. sh[i] \in Seq(RisingEvent)
      OBVIOUS
    <3>2. Last(sh[i]) \in RisingEvent
      BY <2>3, <3>1 DEF Last
    <3> QED BY <2>3, <3>2, RisingTyped DEF LastLamport
  <2> QED BY <2>2, <2>3
<1> DEFINE f == [i \in Install |-> LastLamport(sh[i])]
           S == {f[i] : i \in 1 .. MaxInstall}
<1>2. MaxInstall \in Nat \ {0}
  BY BoundsAssumption DEF Install
<1>3. f \in [1 .. MaxInstall -> Nat]
  BY <1>1 DEF Install
<1>4. {LastLamport(sh[i]) : i \in Install} = S
  BY DEF Install
<1>5. \A i \in Install : f[i] = LastLamport(sh[i])
  OBVIOUS
<1> HIDE DEF f
<1>6. Max(S) \in Nat /\ \A i \in 1 .. MaxInstall : f[i] <= Max(S)
  BY <1>2, <1>3, LargestOfMany
<1>7. NextLamport(sh) = 1 + Max(S)
  BY <1>4 DEF NextLamport
<1>8. \A i \in Install : LastLamport(sh[i]) <= Max(S)
  BY <1>5, <1>6, Zenon DEF Install
<1> HIDE DEF S
<1>9. 1 + Max(S) \in Nat /\ \A i \in Install : LastLamport(sh[i]) < 1 + Max(S)
  BY <1>1, <1>6, <1>8
<1> QED BY <1>1, <1>7, <1>9

\* The event Append writes: the tail of the own shard and one entry, stamped past all.
NewEvent(sh, own, d) == Append(TailHash(sh[own]), [lam |-> NextLamport(sh), dec |-> d])

\* Recording a decision (Append of the store) adds one event to the own shard, stamped
\* with the store's next Lamport time and chained to the shard's last event.
LEMMA AppendOwnIs ==
  ASSUME NEW sh \in [Install -> Seq(RisingEvent)], NEW own \in Install, NEW d \in Decision
  PROVE  /\ NewEvent(sh, own, d) \in RisingEvent
         /\ Last(NewEvent(sh, own, d)) = [lam |-> NextLamport(sh), dec |-> d]
         /\ ParentHash(NewEvent(sh, own, d)) = TailHash(sh[own])
         /\ AppendOwn(sh, own, NextLamport(sh), d)
              = [sh EXCEPT ![own] = Append(sh[own], NewEvent(sh, own, d))]
         /\ AppendOwn(sh, own, NextLamport(sh), d) \in [Install -> Seq(RisingEvent)]
<1> DEFINE ev == NewEvent(sh, own, d)
           t == TailHash(sh[own])
           x == [lam |-> NextLamport(sh), dec |-> d]
<1>1. sh[own] \in Seq(RisingEvent)
  OBVIOUS
<1>2. t \in Seq(Entry(Decision)) /\ (t # <<>> => t \in RisingEvent /\ Last(t).lam = LastLamport(sh[own]))
  <2>1. CASE sh[own] = <<>>
    BY <2>1 DEF TailHash
  <2>2. CASE sh[own] # <<>>
    <3>1. Last(sh[own]) \in RisingEvent
      BY <1>1, <2>2 DEF Last
    <3> QED BY <2>2, <3>1, RisingTyped DEF TailHash, LastLamport
  <2> QED BY <2>1, <2>2
<1>3. NextLamport(sh) \in Nat /\ LastLamport(sh[own]) \in Nat /\ LastLamport(sh[own]) < NextLamport(sh)
  BY StampAbove
<1>4. x \in Entry(Decision) /\ x.lam = NextLamport(sh)
  BY <1>3 DEF Entry
<1>5. ev = Append(t, x)
  BY DEF NewEvent
<1> HIDE DEF x, t
<1>6. /\ ev \in Seq(Entry(Decision)) /\ Len(ev) = Len(t) + 1 /\ Len(t) \in Nat
      /\ ev[Len(t) + 1] = x /\ \A k \in 1 .. Len(t) : ev[k] = t[k]
  BY <1>2, <1>4, <1>5
<1>7. \A k \in 1 .. Len(t) : t[k].lam \in Nat /\ t[k].lam <= LastLamport(sh[own])
  <2>1. SUFFICES ASSUME NEW k \in 1 .. Len(t) PROVE t[k].lam \in Nat /\ t[k].lam <= LastLamport(sh[own])
    BY Zenon
  <2>2. t # <<>> /\ Len(t) \in 1 .. Len(t) /\ t[k] \in Entry(Decision)
    BY <1>2
  <2>3. \A j, l \in 1 .. Len(t) : j < l => t[j].lam < t[l].lam
    BY <1>2, <2>2 DEF RisingEvent
  <2>4. t[Len(t)].lam = LastLamport(sh[own])
    BY <1>2, <2>2 DEF Last
  <2>5. t[k].lam \in Nat
    BY <2>2 DEF Entry
  <2>6. CASE k < Len(t)
    BY <1>3, <2>2, <2>3, <2>4, <2>5, <2>6
  <2>7. CASE k = Len(t)
    BY <1>3, <2>4, <2>7
  <2> QED BY <2>5, <2>6, <2>7
<1>8. ASSUME NEW j \in 1 .. Len(ev), NEW k \in 1 .. Len(ev), j < k
      PROVE  ev[j].lam < ev[k].lam
  <2>1. CASE k = Len(t) + 1
    <3>1. j \in 1 .. Len(t) /\ ev[j] = t[j] /\ ev[k] = x
      BY <1>6, <1>8, <2>1
    <3> QED BY <1>3, <1>4, <1>7, <3>1
  <2>2. CASE k # Len(t) + 1
    <3>1. j \in 1 .. Len(t) /\ k \in 1 .. Len(t) /\ ev[j] = t[j] /\ ev[k] = t[k]
      BY <1>6, <1>8, <2>2
    <3>2. t # <<>>
      BY <1>2, <3>1
    <3> QED BY <1>2, <1>8, <3>1, <3>2 DEF RisingEvent
  <2> QED BY <2>1, <2>2
<1> HIDE DEF ev
<1>9. ev \in RisingEvent
  BY <1>6, <1>8 DEF RisingEvent
<1>10. Last(ev) = x
  BY <1>6 DEF Last
<1>11. ParentHash(ev) = t
  <2>1. SubSeq(Append(t, x), 1, Len(t)) = t
    <3>1. Len(t) \in 0 .. Len(t)
      BY <1>6
    <3>2. SubSeq(Append(t, x), 1, Len(t)) = SubSeq(t, 1, Len(t))
      BY <1>2, <1>4, <3>1, PrefixOfAppend
    <3> QED BY <1>2, <3>2, SubSeqFull
  <2> QED BY <1>5, <1>6, <2>1 DEF ParentHash, Front
<1>12. AppendOwn(sh, own, NextLamport(sh), d) = [sh EXCEPT ![own] = Append(sh[own], ev)]
  BY <1>5 DEF AppendOwn, x, t
<1>13. [sh EXCEPT ![own] = Append(sh[own], ev)] \in [Install -> Seq(RisingEvent)]
  <2>1. Append(sh[own], ev) \in Seq(RisingEvent)
    BY <1>1, <1>9
  <2> QED BY <2>1
<1> QED BY <1>9, <1>10, <1>11, <1>12, <1>13 DEF ev, t, x

\* Lists of segments read from the bucket, and the events in them.
LEMMA ListedTyped ==
  ASSUME TypeInv, NEW segs \in SUBSET bucket, NEW i
  PROVE  /\ GroupSegments(segs, i) \in Seq(SegmentOf(RisingEvent))
         /\ Events(GroupSegments(segs, i)) \in Seq(RisingEvent)
         /\ Total(GroupSegments(segs, i)) \in Nat
         /\ Len(Events(GroupSegments(segs, i))) = Total(GroupSegments(segs, i))
         /\ LastSeq(GroupSegments(segs, i)) \in Nat
<1>1. IsFiniteSet(segs) /\ segs \in SUBSET SegmentOf(RisingEvent)
  BY FS_Subset DEF TypeInv, KeysUnique, LogTyped
<1>2. \A g, h \in segs : g.inst = h.inst /\ g.seq = h.seq /\ Len(g.evs) = Len(h.evs) => g = h
  BY DEF TypeInv, KeysUnique
<1>3. GroupSegments(segs, i) \in Seq(SegmentOf(RisingEvent))
  BY <1>1, <1>2, GroupTyped
<1> QED BY <1>3, EventsTotal, LastSeqTyped

\* What a running store works with: a listing of the bucket and well-typed shards.
LEMMA SnapTyped ==
  ASSUME TypeInv, NEW s \in Store
  PROVE  /\ snap[s] \in SUBSET bucket /\ bucket \in SUBSET bucket
         /\ shard[s] \in [Install -> Seq(RisingEvent)]
         /\ retiring[s] \in Seq(Install) /\ pulling[s] \in SUBSET Install
         /\ pc[s] \in Phase /\ cfg[s] \in Config
         /\ (pc[s] # "idle" => Mine(s) \in Install)
BY DEF TypeInv, IdentityInv, IdentityTypeOK, IdentityOK, ProgressOK, LogTyped, Exists, Mine, Config

\* What a sync uploads.
LEMMA UploadIs ==
  ASSUME TypeInv, NEW s \in Store, ReadyToPush(s), PushPlan(s).needed
  PROVE  LET P == Listed(s, Mine(s))
             local == shard[s][Mine(s)]
         IN  /\ Mine(s) \in Install
             /\ Total(P) \in Nat /\ LastSeq(P) \in Nat /\ Total(P) < Len(local)
             /\ NextSegment(s) = [inst |-> Mine(s), seq |-> LastSeq(P) + 1,
                                  evs |-> SubSeq(local, Total(P) + 1, Len(local))]
             /\ SubSeq(local, Total(P) + 1, Len(local)) \in Seq(RisingEvent) \ {<<>>}
             /\ Len(SubSeq(local, Total(P) + 1, Len(local))) = Len(local) - Total(P)
             /\ NextSegment(s) \in SegmentOf(RisingEvent)
<1> DEFINE P == Listed(s, Mine(s))
           local == shard[s][Mine(s)]
           T == Total(P)
           part == SubSeq(local, T + 1, Len(local))
<1>1. Mine(s) \in Install /\ local \in Seq(RisingEvent) /\ Len(local) \in Nat
  <2>1. Mine(s) \in Install /\ shard[s] \in [Install -> Seq(RisingEvent)]
    BY SnapTyped DEF ReadyToPush
  <2>2. local \in Seq(RisingEvent)
    BY <2>1
  <2> QED BY <2>1, <2>2
<1>2. T \in Nat /\ LastSeq(P) \in Nat
  BY SnapTyped, ListedTyped DEF Listed
<1>3. PushPlan(s) = PlanPush(Len(local), P)
  BY DEF PushPlan, Listed
<1> HIDE DEF local, P
<1>4. ~(T > Len(local)) /\ T # Len(local)
  BY <1>3 DEF PlanPush
<1>5. PushPlan(s).from = T + 1 /\ PushPlan(s).seq = LastSeq(P) + 1
  BY <1>3, <1>4 DEF PlanPush
<1> HIDE DEF T
<1>6. T < Len(local)
  BY <1>1, <1>2, <1>4
<1>7. part \in Seq(RisingEvent) /\ Len(part) = Len(local) - T /\ part # <<>>
  <2>1. part \in Seq(RisingEvent) /\ Len(part) = Len(local) - T
    BY <1>1, <1>2, <1>6
  <2>2. Len(part) > 0
    BY <1>1, <1>2, <1>6, <2>1
  <2> HIDE DEF part
  <2> QED BY <2>1, <2>2
<1>8. NextSegment(s) = [inst |-> Mine(s), seq |-> LastSeq(P) + 1, evs |-> part]
  BY <1>5, Zenon DEF NextSegment, local
<1> HIDE DEF part
<1>9. NextSegment(s) \in SegmentOf(RisingEvent)
  BY <1>1, <1>2, <1>7, <1>8 DEF SegmentOf, Install
<1> QED BY <1>1, <1>2, <1>6, <1>7, <1>8, <1>9 DEF part, T, P, local

\* The bucket only changes by a conditional upload.
Uploads(s) ==
  /\ ReadyToPush(s) /\ PushPlan(s).needed /\ ~KeyTaken(NextSegment(s))
  /\ bucket' = bucket \cup {NextSegment(s)}
  /\ UNCHANGED <<shard, cfg>>

\* The bucket changes only when a store uploads a segment.
LEMMA BucketStep ==
  ASSUME Next
  PROVE  bucket' = bucket \/ \E s \in Store : Uploads(s)
<1>1. PICK s \in Store : SyncStep(s) \/ FaultStep(s) \/ UserStep(s)
  BY DEF Next
<1>2. CASE Push(s)
  BY <1>2 DEF Push, Uploads, identity
<1>3. CASE \E how \in PutFault : PushFails(s, how)
  BY <1>3 DEF PushFails, Uploads, identity
<1>4. CASE \E i \in pulling[s] : \E n : Pull(s, i, n)
  BY <1>4 DEF Pull
<1>5. CASE \E i \in pulling[s] : CrashInAppend(s, i)
  BY <1>5 DEF CrashInAppend
<1>6. CASE bucket' = bucket
  BY <1>6
<1> QED
  BY <1>1, <1>2, <1>3, <1>4, <1>5, <1>6
     DEF SyncStep, FaultStep, UserStep, SyncFork, SyncBegin, SyncUnreachable, NothingToReconcile,
         NothingToPush, PushRefused, Finish, ReconcileFails, Crash, Adopt, ReEmit,
         Create, Move, Copy, Rotate, Record

\* An upload keeps the segments typed, and no two of them under one key.
LEMMA BucketTyped ==
  ASSUME TypeInv, Next
  PROVE  bucket' \subseteq SegmentOf(RisingEvent) /\ KeysUnique'
<1>1. CASE bucket' = bucket
  BY <1>1 DEF TypeInv, LogTyped, KeysUnique
<1>2. CASE \E s \in Store : Uploads(s)
  <2>1. PICK s \in Store : Uploads(s)
    BY <1>2
  <2>2. NextSegment(s) \in SegmentOf(RisingEvent)
    BY <2>1, UploadIs DEF Uploads
  <2>3. IsFiniteSet(bucket')
    BY <2>1, FS_AddElement DEF Uploads, TypeInv, KeysUnique
  <2>4. \A g \in bucket : /\ ~(g.inst = NextSegment(s).inst /\ g.seq = NextSegment(s).seq
                               /\ Len(g.evs) = Len(NextSegment(s).evs))
    BY <2>1 DEF Uploads, KeyTaken
  <2>5. bucket' = bucket \cup {NextSegment(s)}
    BY <2>1 DEF Uploads
  <2>6. \A g, h \in bucket' :
          g.inst = h.inst /\ g.seq = h.seq /\ Len(g.evs) = Len(h.evs) => g = h
    <3>1. \A g, h \in bucket :
            g.inst = h.inst /\ g.seq = h.seq /\ Len(g.evs) = Len(h.evs) => g = h
      BY DEF TypeInv, KeysUnique
    <3>2. SUFFICES ASSUME NEW g \in bucket', NEW h \in bucket',
                          g.inst = h.inst /\ g.seq = h.seq /\ Len(g.evs) = Len(h.evs)
                   PROVE  g = h
      OBVIOUS
    <3>3. /\ g \in bucket \/ g = NextSegment(s)
          /\ h \in bucket \/ h = NextSegment(s)
      BY <2>5, Zenon
    <3>4. CASE g \in bucket /\ h \in bucket
      BY <3>1, <3>2, <3>4, Zenon
    <3>5. CASE g \in bucket /\ h = NextSegment(s)
      BY <2>4, <3>2, <3>5, Zenon
    <3>6. CASE g = NextSegment(s) /\ h \in bucket
      BY <2>4, <3>2, <3>6, Zenon
    <3> QED BY <3>3, <3>4, <3>5, <3>6, Zenon
  <2> QED BY <2>2, <2>3, <2>5, <2>6 DEF TypeInv, LogTyped, KeysUnique
<1> QED BY <1>1, <1>2, BucketStep

\* How a shard file of store s changes: the store records or re-emits a decision, the
\* store is a fresh copy of another, a retired shard is replaced by the remote's version,
\* or a part of a foreign shard is appended that continues it.
WritesOwn(s, d) ==
  /\ pc[s] \in {"idle", "reemit"} /\ Exists(s) /\ cfg'[s].own \in Install
  /\ shard' = [shard EXCEPT ![s] = AppendOwn(shard[s], cfg'[s].own, NextLamport(shard[s]), d)]
CopiedFrom(s, t) ==
  ~Exists(s) /\ Exists(t) /\ cfg' = [cfg EXCEPT ![s] = cfg[t]] /\ shard' = [shard EXCEPT ![s] = shard[t]]
Adopts(s) ==
  /\ pc[s] = "reconcile" /\ retiring[s] # <<>> /\ cfg' = cfg
  /\ shard' = [shard EXCEPT ![s][Head(retiring[s])] = Canon(s)]
Part(s, i, m) == SubSeq(Events(Listed(s, i)), Len(shard[s][i]) + 1, m)
Pulls(s, i, m) ==
  /\ pc[s] = "pull" /\ i \in pulling[s] /\ m \in 0 .. Total(Listed(s, i)) /\ cfg' = cfg
  /\ ContinuesChain(shard[s][i], Part(s, i, m))
  /\ shard' = [shard EXCEPT ![s][i] = shard[s][i] \o Part(s, i, m)]

LogStep(s) ==
  \/ UNCHANGED shard
  \/ \E d \in Decision : WritesOwn(s, d)
  \/ \E t \in Store : CopiedFrom(s, t)
  \/ Adopts(s)
  \/ \E i \in pulling[s] : \E m \in Nat : Pulls(s, i, m)

\* The batch of a pull is the part of the remote's version that is missing.
LEMMA PullIs ==
  ASSUME TypeInv, NEW s \in Store, NEW i \in pulling[s], NEW n \in 0 .. Len(PullPlan(s, i))
  PROVE  \E m \in 0 .. Total(Listed(s, i)) : Batch(PullPlan(s, i), n) = Part(s, i, m)
<1>1. shard[s][i] \in Seq(RisingEvent)
  BY SnapTyped
<1>2. Listed(s, i) \in Seq(SegmentOf(RisingEvent))
  BY SnapTyped, ListedTyped DEF Listed
<1>3. Len(shard[s][i]) \in Nat
  BY <1>1
<1>4. PullPlan(s, i) = PlanPull(Len(shard[s][i]), Listed(s, i))
  BY DEF PullPlan, Listed
<1>5. \A k \in 0 .. Len(PlanPull(Len(shard[s][i]), Listed(s, i))) :
        \E m \in 0 .. Total(Listed(s, i)) :
          Batch(PlanPull(Len(shard[s][i]), Listed(s, i)), k)
            = SubSeq(Events(Listed(s, i)), Len(shard[s][i]) + 1, m)
  BY <1>2, <1>3, PlanPullBatch, Zenon
<1> QED BY <1>4, <1>5, Zenon DEF Part

\* A pull appends to the foreign shard a beginning of what the remote has after it, or
\* adopts the remote's version of a retired shard.
LEMMA PullStep ==
  ASSUME TypeInv, NEW s \in Store, NEW i \in pulling[s],
         NEW n \in 0 .. Len(PullPlan(s, i)), Pull(s, i, n)
  PROVE  LogStep(s)
<1>1. PICK m \in 0 .. Total(Listed(s, i)) : Batch(PullPlan(s, i), n) = Part(s, i, m)
  BY PullIs
<1>2. pc[s] = "pull" /\ cfg' = cfg /\ AppendForeign(s, i, Part(s, i, m))
  BY <1>1 DEF Pull, identity
<1>3. CASE ContinuesChain(shard[s][i], Part(s, i, m))
  <2>1. Pulls(s, i, m) /\ m \in Nat
    <3>1. m \in Nat
      BY SnapTyped, ListedTyped DEF Listed
    <3>2. shard' = [shard EXCEPT ![s][i] = shard[s][i] \o Part(s, i, m)]
      BY <1>2, <1>3 DEF AppendForeign
    <3> QED BY <1>2, <1>3, <3>1, <3>2 DEF Pulls
  <2> QED BY <2>1 DEF LogStep
<1>4. CASE ~ContinuesChain(shard[s][i], Part(s, i, m))
  BY <1>2, <1>4 DEF AppendForeign, LogStep
<1> QED BY <1>3, <1>4

\* A crash in the middle of a pull's append leaves a beginning of the batch behind.
LEMMA CrashInAppendStep ==
  ASSUME TypeInv, NEW s \in Store, NEW i \in pulling[s], CrashInAppend(s, i)
  PROVE  LogStep(s)
<1> DEFINE batch == Batch(PullPlan(s, i), Len(PullPlan(s, i)))
           c == Len(shard[s][i])
           evs == Events(Listed(s, i))
<1>1. Len(PullPlan(s, i)) \in 0 .. Len(PullPlan(s, i))
  <2>1. shard[s][i] \in Seq(RisingEvent) /\ Listed(s, i) \in Seq(SegmentOf(RisingEvent))
    BY SnapTyped, ListedTyped DEF Listed
  <2>2. PullPlan(s, i) \in Seq(Fetch(RisingEvent))
    BY <2>1, PlanPullBatch DEF PullPlan, Listed
  <2> QED BY <2>2
<1>2. PICK m \in 0 .. Total(Listed(s, i)) : batch = Part(s, i, m)
  BY <1>1, PullIs
<1>3. /\ pc[s] = "pull" /\ cfg' = cfg /\ ContinuesChain(shard[s][i], batch)
  BY DEF CrashInAppend, identity
<1>4. PICK n \in 1 .. Len(batch) - 1 : shard' = [shard EXCEPT ![s][i] = @ \o SubSeq(batch, 1, n)]
  BY DEF CrashInAppend
<1>5. evs \in Seq(RisingEvent) /\ Len(evs) = Total(Listed(s, i)) /\ c \in Nat /\ Len(evs) \in Nat
  <2>1. shard[s][i] \in Seq(RisingEvent)
    BY SnapTyped
  <2> QED BY <2>1, SnapTyped, ListedTyped DEF Listed
<1> HIDE DEF evs, c
<1>6. batch = SubSeq(evs, c + 1, m) /\ m \in 0 .. Len(evs)
  BY <1>2, <1>5 DEF Part, evs, c
<1>7. batch \in Seq(RisingEvent)
  BY <1>5, <1>6
<1> HIDE DEF batch
<1>8. n \in 1 .. Len(batch)
  BY <1>4, <1>7
<1>9. ContinuesChain(shard[s][i], SubSeq(batch, 1, n))
  BY <1>3, <1>7, <1>8, ContinuesPart
<1>10. c + n \in 0 .. m /\ SubSeq(batch, 1, n) = SubSeq(evs, c + 1, c + n)
  BY <1>5, <1>6, <1>8, PartOfPart
<1>11. c + n \in 0 .. Total(Listed(s, i)) /\ c + n \in Nat
  BY <1>5, <1>6, <1>10
<1>12. SubSeq(batch, 1, n) = Part(s, i, c + n)
  BY <1>10 DEF Part, evs, c
<1>13. shard' = [shard EXCEPT ![s][i] = shard[s][i] \o Part(s, i, c + n)]
  BY <1>4, <1>12
<1>14. Pulls(s, i, c + n)
  BY <1>3, <1>9, <1>11, <1>12, <1>13 DEF Pulls
<1> QED BY <1>11, <1>14 DEF LogStep

\* The operations and steps of a store that leave the other directories alone.
Step(s) ==
  \/ SyncStep(s) \/ FaultStep(s) \/ Rotate(s)
  \/ \E m \in Machine : Create(s, m) \/ Move(s, m)
  \/ \E d \in Decision : Record(s, d)

\* Every step is a step of one store, or a fresh copy of one.
LEMMA NextIs ==
  ASSUME Next
  PROVE  \E s \in Store : Step(s) \/ \E t \in Store, m \in Machine : Copy(t, s, m)
BY DEF Next, UserStep, Step

\* Every step changes the shards in one of the ways of LogStep.
LEMMA LogStepIs ==
  ASSUME TypeInv, NEW s \in Store, Step(s) \/ \E t \in Store, m \in Machine : Copy(t, s, m)
  PROVE  LogStep(s)
<1>2. CASE Adopt(s)
  <2>1. Adopts(s)
    BY <1>2 DEF Adopt, Adopts, identity
  <2> QED BY <2>1 DEF LogStep
<1>3. CASE ReEmit(s)
  <2>1. /\ pc[s] = "reemit" /\ cfg' = cfg
        /\ shard' = [shard EXCEPT ![s] =
             AppendOwn(shard[s], Mine(s), NextLamport(shard[s]), Last(Head(orphans[s])).dec)]
    BY <1>3 DEF ReEmit, identity
  <2>2. Mine(s) \in Install /\ Exists(s)
    BY <2>1, SnapTyped DEF Exists, Mine, Install, NoInstall
  <2>3. Last(Head(orphans[s])).dec \in Decision
    <3>1. orphans[s] \in Seq(RisingEvent) /\ orphans[s] # <<>>
      BY <2>1 DEF TypeInv, LogTyped
    <3>2. Head(orphans[s]) \in RisingEvent
      BY <3>1
    <3> QED BY <3>2, RisingTyped
  <2>4. WritesOwn(s, Last(Head(orphans[s])).dec)
    BY <2>1, <2>2 DEF WritesOwn, Mine
  <2> QED BY <2>3, <2>4 DEF LogStep
<1>4. CASE \E d \in Decision : Record(s, d)
  <2>1. PICK d \in Decision : Record(s, d)
    BY <1>4
  <2>2. Lock(s) /\ cfg'[s].own \in Install
    BY <2>1, LockSound DEF Record, TypeInv, Config
  <2>3. WritesOwn(s, d)
    BY <2>1, <2>2 DEF WritesOwn, Record, Lock
  <2> QED BY <2>3 DEF LogStep
<1>5. CASE \E t \in Store, m \in Machine : Copy(t, s, m)
  <2>1. PICK t \in Store, m \in Machine : Copy(t, s, m)
    BY <1>5
  <2>2. CopiedFrom(s, t)
    BY <2>1 DEF Copy, CopiedFrom
  <2> QED BY <2>2 DEF LogStep
<1>6. CASE \E i \in pulling[s] : Pull(s, i, Len(PullPlan(s, i)))
  <2>1. PICK i \in pulling[s] : Pull(s, i, Len(PullPlan(s, i)))
    BY <1>6
  <2>2. Len(PullPlan(s, i)) \in 0 .. Len(PullPlan(s, i))
    BY <2>1 DEF Pull
  <2> QED BY <2>1, <2>2, PullStep
<1>7. CASE \E i \in pulling[s] : \E n \in 0 .. Len(PullPlan(s, i)) - 1 : Pull(s, i, n)
  <2>1. PICK i \in pulling[s] : \E n \in 0 .. Len(PullPlan(s, i)) - 1 : Pull(s, i, n)
    BY <1>7
  <2>2. PICK n \in 0 .. Len(PullPlan(s, i)) - 1 : Pull(s, i, n)
    BY <2>1
  <2>3. n \in 0 .. Len(PullPlan(s, i))
    BY <2>2 DEF Pull
  <2> QED BY <2>2, <2>3, PullStep
<1>8. CASE \E i \in pulling[s] : CrashInAppend(s, i)
  BY <1>8, CrashInAppendStep
<1>9. CASE UNCHANGED shard
  BY <1>9 DEF LogStep
<1> QED
  BY <1>2, <1>3, <1>4, <1>5, <1>6, <1>7, <1>8, <1>9
     DEF Step, SyncStep, FaultStep, SyncFork, SyncBegin, SyncUnreachable, NothingToReconcile,
         NothingToPush, Push, PushRefused, Finish, ReconcileFails, PushFails, Crash,
         Create, Move, Rotate

\* The shards stay sequences of rising events.
LEMMA FilesTyped ==
  ASSUME TypeInv, Next
  PROVE  shard' \in [Store -> [Install -> Seq(RisingEvent)]]
<1>1. PICK s \in Store : LogStep(s)
  BY NextIs, LogStepIs
<1>2. /\ shard \in [Store -> [Install -> Seq(RisingEvent)]]
      /\ shard[s] \in [Install -> Seq(RisingEvent)]
      /\ retiring[s] \in Seq(Install) /\ pulling[s] \in SUBSET Install
      /\ snap[s] \in SUBSET bucket
  BY SnapTyped DEF TypeInv, LogTyped
<1>3. CASE \E d \in Decision : WritesOwn(s, d)
  <2>1. PICK d \in Decision : WritesOwn(s, d)
    BY <1>3
  <2>2. AppendOwn(shard[s], cfg'[s].own, NextLamport(shard[s]), d) \in [Install -> Seq(RisingEvent)]
    BY <1>2, <2>1, AppendOwnIs DEF WritesOwn
  <2> QED BY <1>2, <2>1, <2>2 DEF WritesOwn
<1>4. CASE \E t \in Store : CopiedFrom(s, t)
  BY <1>2, <1>4 DEF CopiedFrom
<1>5. CASE Adopts(s)
  <2>1. Head(retiring[s]) \in Install /\ Canon(s) \in Seq(RisingEvent)
    BY <1>2, <1>5, ListedTyped DEF Adopts, Canon
  <2> QED BY <1>2, <1>5, <2>1 DEF Adopts
<1>6. CASE \E i \in pulling[s] : \E m \in Nat : Pulls(s, i, m)
  <2>1. PICK i \in pulling[s] : \E m \in Nat : Pulls(s, i, m)
    BY <1>6
  <2>2. PICK m \in Nat : Pulls(s, i, m)
    BY <2>1
  <2>3. /\ i \in Install /\ shard[s][i] \in Seq(RisingEvent) /\ Len(shard[s][i]) \in Nat
        /\ Events(Listed(s, i)) \in Seq(RisingEvent)
        /\ m \in 0 .. Len(Events(Listed(s, i)))
    BY <1>2, <2>2, ListedTyped DEF Listed, Pulls
  <2>4. Part(s, i, m) \in Seq(RisingEvent)
    BY <2>3 DEF Part
  <2>5. shard[s][i] \o Part(s, i, m) \in Seq(RisingEvent)
    BY <2>3, <2>4, ConcatProperties
  <2> QED BY <1>2, <2>2, <2>3, <2>5 DEF Pulls
<1> QED BY <1>1, <1>2, <1>3, <1>4, <1>5, <1>6 DEF LogStep

\* A sync that leaves forgets its orphans.
LEMMA LeaveOrphans ==
  ASSUME TypeInv, NEW s \in Store, Leave(s)
  PROVE  /\ orphans' \in [Store -> Seq(RisingEvent)]
         /\ \A t \in Store : (orphans'[t] # <<>>) = (pc'[t] = "reemit")
<1>1. /\ orphans \in [Store -> Seq(RisingEvent)] /\ pc \in [Store -> Phase]
      /\ \A t \in Store : (orphans[t] # <<>>) = (pc[t] = "reemit")
  BY DEF TypeInv, LogTyped, IdentityInv, IdentityTypeOK
<1>2. orphans' = [orphans EXCEPT ![s] = <<>>] /\ pc' = [pc EXCEPT ![s] = "idle"]
  BY DEF Leave
<1>3. orphans' \in [Store -> Seq(RisingEvent)]
  BY <1>1, <1>2
<1>4. ASSUME NEW t \in Store PROVE (orphans'[t] # <<>>) = (pc'[t] = "reemit")
  BY <1>1, <1>2
<1> QED BY <1>3, <1>4

\* The orphans of a store are rising events, and there are some exactly while the store
\* is about to re-emit them.
LEMMA OrphansTyped ==
  ASSUME TypeInv, Next
  PROVE  /\ orphans' \in [Store -> Seq(RisingEvent)]
         /\ \A t \in Store : (orphans'[t] # <<>>) = (pc'[t] = "reemit")
<1>1. PICK s \in Store : SyncStep(s) \/ FaultStep(s) \/ UserStep(s)
  BY DEF Next
<1>2. /\ orphans \in [Store -> Seq(RisingEvent)] /\ pc \in [Store -> Phase]
      /\ \A t \in Store : (orphans[t] # <<>>) = (pc[t] = "reemit")
  BY DEF TypeInv, LogTyped, IdentityInv, IdentityTypeOK
<1>3. /\ shard[s] \in [Install -> Seq(RisingEvent)] /\ retiring[s] \in Seq(Install)
      /\ snap[s] \in SUBSET bucket
  BY SnapTyped
<1>4. CASE Adopt(s)
  <2> DEFINE local == shard[s][Head(retiring[s])]
             a == Agreement(local, Canon(s))
  <2>1. /\ orphans' = [orphans EXCEPT ![s] = Orphans(s)] /\ Orphans(s) # <<>>
        /\ pc' = [pc EXCEPT ![s] = "reemit"]
    BY <1>4 DEF Adopt
  <2>2. Head(retiring[s]) \in Install
    BY <1>3, <1>4 DEF Adopt
  <2>3. local \in Seq(RisingEvent) /\ Canon(s) \in Seq(RisingEvent)
    BY <1>3, <2>2, ListedTyped DEF Canon
  <2>4. Orphans(s) = SubSeq(local, a + 1, Len(local))
    BY DEF Orphans
  <2> HIDE DEF local
  <2>5. a \in Nat
    BY <2>3, AgreementIs
  <2> HIDE DEF a
  <2>6. Orphans(s) \in Seq(RisingEvent)
    BY <2>3, <2>4, <2>5
  <2>7. orphans' \in [Store -> Seq(RisingEvent)]
    BY <1>2, <2>1, <2>6
  <2>8. ASSUME NEW t \in Store PROVE (orphans'[t] # <<>>) = (pc'[t] = "reemit")
    BY <1>2, <2>1
  <2> QED BY <2>7, <2>8
<1>5. CASE ReEmit(s)
  <2>1. /\ pc[s] = "reemit" /\ orphans' = [orphans EXCEPT ![s] = Tail(@)]
        /\ IF Len(orphans[s]) = 1 THEN pc' = [pc EXCEPT ![s] = "reconcile"] ELSE pc' = pc
    BY <1>5 DEF ReEmit
  <2>2. orphans[s] \in Seq(RisingEvent) /\ orphans[s] # <<>>
    BY <1>2, <2>1
  <2>3. /\ Tail(orphans[s]) \in Seq(RisingEvent)
        /\ (Tail(orphans[s]) # <<>>) = (Len(orphans[s]) # 1)
    <3>1. ASSUME NEW o \in Seq(RisingEvent), o # <<>>
          PROVE  Tail(o) \in Seq(RisingEvent) /\ (Tail(o) # <<>> <=> Len(o) # 1)
      <4>1. Tail(o) \in Seq(RisingEvent) /\ Len(Tail(o)) = Len(o) - 1 /\ Len(o) \in Nat
        BY <3>1
      <4> DEFINE u == Tail(o)
      <4>2. u \in Seq(RisingEvent) /\ Len(u) = Len(o) - 1
        BY <4>1
      <4> HIDE DEF u
      <4>3. u = <<>> <=> Len(u) = 0
        BY <4>2, EmptySeq
      <4> QED BY <4>1, <4>2, <4>3 DEF u
    <3> QED BY <2>2, <3>1
  <2>4. orphans' \in [Store -> Seq(RisingEvent)]
    BY <1>2, <2>1, <2>3
  <2>5. ASSUME NEW t \in Store PROVE (orphans'[t] # <<>>) = (pc'[t] = "reemit")
    BY <1>2, <2>1, <2>3
  <2> QED BY <2>4, <2>5
<1>6. CASE PushRefused(s) \/ Finish(s) \/ Crash(s) \/ (\E how \in PutFault : PushFails(s, how))
           \/ \E i \in pulling[s] : CrashInAppend(s, i)
  <2>1. Leave(s)
    BY <1>6 DEF PushRefused, Finish, Crash, PushFails, CrashInAppend
  <2> QED BY <2>1, LeaveOrphans
<1>7. CASE /\ orphans' = orphans
           /\ \/ pc' = pc
              \/ \E p \in {"reconcile", "pull"} :
                   pc' = [pc EXCEPT ![s] = p] /\ pc[s] \in {"idle", "reconcile"}
  BY <1>2, <1>7
<1>8. CASE SyncBegin(s)
  BY <1>7, <1>8 DEF SyncBegin, Lock
<1>9. CASE NothingToPush(s) \/ Push(s)
  BY <1>7, <1>9 DEF NothingToPush, Push, StartPull, ReadyToPush
<1>10. CASE \E i \in pulling[s] : \E n : Pull(s, i, n)
  BY <1>7, <1>10 DEF Pull
<1>11. CASE SyncFork(s) \/ SyncUnreachable(s) \/ NothingToReconcile(s) \/ ReconcileFails(s) \/ UserStep(s)
  BY <1>7, <1>11 DEF SyncFork, SyncUnreachable, NothingToReconcile, ReconcileFails, UserStep,
                     Create, Move, Copy, Record, Rotate, progress
<1> QED
  BY <1>1, <1>4, <1>5, <1>6, <1>8, <1>9, <1>10, <1>11 DEF SyncStep, FaultStep

\* The system starts well typed.
LEMMA TypeInit == Init => TypeInv
<1> SUFFICES ASSUME Init PROVE TypeInv
  OBVIOUS
<1>1. LogTyped
  <2>1. <<>> \in Seq(RisingEvent)
    OBVIOUS
  <2> QED BY <2>1 DEF Init, LogTyped
<1>2. KeysUnique
  BY FS_EmptySet DEF Init, KeysUnique
<1> QED BY <1>1, <1>2, IdentityInit DEF TypeInv

\* Every step keeps the system well typed.
LEMMA TypeStep == TypeInv /\ [Next]_vars => TypeInv'
<1> SUFFICES ASSUME TypeInv, [Next]_vars PROVE TypeInv'
  OBVIOUS
<1>1. IdentityInv'
  BY StepKeeps DEF TypeInv
<1>2. CASE UNCHANGED vars
  BY <1>1, <1>2 DEF vars, TypeInv, LogTyped, KeysUnique
<1>3. CASE Next
  BY <1>1, <1>3, FilesTyped, BucketTyped, OrphansTyped DEF TypeInv, LogTyped
<1> QED BY <1>2, <1>3

\* The types of everything a store and the bucket hold (TypeOK): in particular nothing but
\* nonempty segments of minted installs is ever uploaded, and a sync holds orphans exactly
\* while it re-emits them.
THEOREM Typed == Spec => []TypeOK
<1>1. TypeInv => TypeOK
  <2> SUFFICES ASSUME TypeInv PROVE TypeOK
    OBVIOUS
  <2>1. RisingEvent \subseteq Event(Decision)
    BY RisingTyped
  <2>2. Seq(RisingEvent) \subseteq Seq(Event(Decision))
    BY <2>1
  <2>3. shard \in [Store -> [Install -> Seq(Event(Decision))]]
    BY <2>2 DEF TypeInv, LogTyped
  <2>4. orphans \in [Store -> Seq(Event(Decision))]
    BY <2>2 DEF TypeInv, LogTyped
  <2>5. bucket \subseteq Segment
    <3>1. SUFFICES ASSUME NEW g \in bucket PROVE g \in Segment
      OBVIOUS
    <3>2. g \in SegmentOf(RisingEvent) /\ g.inst \in Install
      BY DEF TypeInv, LogTyped, IdentityInv, IdentityTypeOK
    <3>3. g.evs \in Seq(Event(Decision)) \ {<<>>} /\ g.seq \in Nat \ {0}
          /\ g = [inst |-> g.inst, seq |-> g.seq, evs |-> g.evs]
      BY <2>2, <3>2 DEF SegmentOf
    <3> QED BY <3>2, <3>3 DEF Segment
  <2> QED BY <2>3, <2>4, <2>5 DEF TypeOK, LogTypeOK, TypeInv, LogTyped, IdentityInv
<1>2. Spec => []TypeInv
  BY TypeInit, TypeStep, PTL DEF Spec
<1> QED BY <1>1, <1>2, PTL

\* What the bucket holds of an install, as a list of segments.
Group(i) == GroupSegments(bucket, i)

\* Every shard file is one hash chain; a directory without a store has none.
FilesOK ==
  \A s \in Store : \A i \in Install :
    IsChain(shard[s][i]) /\ (~Exists(s) => shard[s][i] = <<>>)

\* The segments of an install are numbered from 1 on, and hold one hash chain.
BucketOK == \A i \in Install : Numbered(Group(i), bucket, i) /\ IsChain(Remote(i))

\* What a running sync listed is a beginning of what the bucket holds by now.
SnapOK ==
  \A s \in Store : \A i \in Install : pc[s] # "idle" =>
    /\ Numbered(Listed(s, i), snap[s], i)
    /\ \E m \in 0 .. Len(Group(i)) : Listed(s, i) = SubSeq(Group(i), 1, m)

\* Until it has pushed, a sync's own shard continues what it listed of it, and nothing was
\* uploaded since, unless a twin uploaded what the sync is about to upload itself.
PushOK ==
  \A s \in Store : pc[s] \in {"reconcile", "reemit"} =>
    /\ IsPrefix(Events(Listed(s, Mine(s))), shard[s][Mine(s)])
    /\ \/ Group(Mine(s)) = Listed(s, Mine(s))
       \/ /\ cfg[s].retired = <<>>
          /\ \E h \in SegmentOf(RisingEvent) :
               /\ Group(Mine(s)) = Append(Listed(s, Mine(s)), h)
               /\ Total(Listed(s, Mine(s))) + Len(h.evs) = Len(shard[s][Mine(s)])

\* Twins that sync at once have equally much to push and nothing to re-emit.
TwinsOK ==
  \A s, t \in Store :
    s # t /\ pc[s] # "idle" /\ pc[t] # "idle" /\ Mine(s) = Mine(t)
      => /\ cfg[s].retired = <<>> /\ cfg[t].retired = <<>>
         /\ Len(shard[s][Mine(s)]) = Len(shard[t][Mine(s)])

\* A sync only reconciles retired installs.
RetiringOK ==
  \A s \in Store : \A k \in 1 .. Len(retiring[s]) :
    \E j \in 1 .. Len(cfg[s].retired) : retiring[s][k] = cfg[s].retired[j]

ShareInv ==
  FilesOK /\ BucketOK /\ SnapOK /\ PushOK /\ TwinsOK /\ RetiringOK /\ ForeignIsPrefix

------------------------------------------------------------------------------
(* Shapes of steps.                                                        *)

Quiet(s) == pc[s] = "idle" /\ pc'[s] = "idle" /\ bucket' = bucket

Begins(s) ==
  /\ pc[s] = "idle" /\ pc'[s] = "reconcile" /\ Turn(s) /\ cfg'[s] \in Config /\ cfg'[s].own \in Install
  /\ ~ForkSeen(shard[s][cfg'[s].own], GroupSegments(bucket, cfg'[s].own))
  /\ snap'[s] = bucket /\ retiring'[s] = cfg'[s].retired
  /\ shard' = shard /\ bucket' = bucket

Reconciles(s) ==
  /\ pc[s] \in {"reconcile", "reemit"} /\ pc'[s] \in {"reconcile", "reemit"}
  /\ cfg' = cfg /\ snap'[s] = snap[s] /\ bucket' = bucket
  /\ retiring[s] # <<>> /\ retiring'[s] \in {retiring[s], Tail(retiring[s])}

Goes(s) ==
  /\ pc[s] \in {"reconcile", "pull"} /\ cfg' = cfg
  /\ pc'[s] = "pull" /\ snap'[s] = snap[s] /\ retiring'[s] = retiring[s]
  /\ (pc[s] = "reconcile" => shard' = shard)
  /\ bucket' = bucket \/ Uploads(s)

Leaves(s) ==
  /\ pc[s] # "idle" /\ cfg' = cfg
  /\ pc'[s] = "idle" /\ retiring'[s] = <<>>
  /\ bucket' = bucket \/ Uploads(s)

Shape(s) ==
  /\ \A t \in Store \ {s} : /\ pc'[t] = pc[t] /\ snap'[t] = snap[t]
                            /\ retiring'[t] = retiring[t] /\ cfg'[t] = cfg[t]
  /\ Quiet(s) \/ Begins(s) \/ Reconciles(s) \/ Goes(s) \/ Leaves(s)

\* A store that takes its lock, adopting or rotating an id on the way.
LEMMA LockedShape ==
  ASSUME TypeInv, NEW s \in Store, Lock(s), UNCHANGED <<bucket, progress>>
  PROVE  Shape(s)
<1>1. \A t \in Store \ {s} : cfg'[t] = cfg[t]
  BY LockSound DEF TypeInv
<1>2. pc[s] = "idle" /\ pc' = pc /\ snap' = snap /\ retiring' = retiring
  BY DEF Lock, progress
<1> QED BY <1>1, <1>2 DEF Shape, Quiet

\* A store that ends its sync, regularly, on an error or in a crash.
LEMMA LeavesShape ==
  ASSUME TypeInv, NEW s \in Store, Leave(s), pc[s] # "idle", UNCHANGED identity,
         bucket' = bucket \/ Uploads(s)
  PROVE  Shape(s)
<1>1. /\ pc \in [Store -> Phase] /\ snap \in [Store -> SUBSET bucket]
      /\ retiring \in [Store -> Seq(Install)]
  BY DEF TypeInv, IdentityInv, IdentityTypeOK
<1>2. cfg' = cfg
  BY DEF identity
<1> QED BY <1>1, <1>2 DEF Shape, Leaves, Leave

\* Every step has one of the shapes.
LEMMA ShapeIs ==
  ASSUME TypeInv, NEW s \in Store, Step(s) \/ \E t \in Store, m \in Machine : Copy(t, s, m)
  PROVE  Shape(s)
<1>0. /\ pc \in [Store -> Phase] /\ snap \in [Store -> SUBSET bucket] /\ cfg \in [Store -> Config]
      /\ retiring \in [Store -> Seq(Install)] /\ ProgressOK(s)
  BY DEF TypeInv, IdentityInv, IdentityTypeOK, IdentityOK
<1>1. CASE SyncFork(s) \/ SyncUnreachable(s) \/ \E d \in Decision : Record(s, d)
  BY <1>1, LockedShape DEF SyncFork, SyncUnreachable, Record
<1>2. CASE SyncBegin(s)
  <2>1. /\ Lock(s) /\ Turn(s) /\ pc[s] = "idle"
        /\ \A t \in Store \ {s} : cfg'[t] = cfg[t]
        /\ cfg'[s] \in Config /\ cfg'[s].own \in Install
    BY <1>2, LockSound DEF SyncBegin, Lock, TypeInv, Config
  <2>2. /\ pc' = [pc EXCEPT ![s] = "reconcile"] /\ snap' = [snap EXCEPT ![s] = bucket]
        /\ retiring' = [retiring EXCEPT ![s] = cfg'[s].retired]
        /\ shard' = shard /\ bucket' = bucket
        /\ ~ForkSeen(shard[s][cfg'[s].own], GroupSegments(bucket, cfg'[s].own))
    BY <1>2 DEF SyncBegin
  <2>3. Begins(s)
    BY <1>0, <2>1, <2>2 DEF Begins
  <2> QED BY <1>0, <2>1, <2>2, <2>3 DEF Shape
<1>3. CASE NothingToReconcile(s) \/ ReconcileFails(s)
  <2>1. /\ pc[s] = "reconcile" /\ retiring[s] # <<>> /\ pc' = pc /\ snap' = snap /\ bucket' = bucket
        /\ retiring' = [retiring EXCEPT ![s] = Tail(@)] /\ cfg' = cfg
    BY <1>3 DEF NothingToReconcile, ReconcileFails, identity
  <2> QED BY <1>0, <2>1 DEF Shape, Reconciles
<1>4. CASE Adopt(s)
  <2>1. /\ pc[s] = "reconcile" /\ retiring[s] # <<>> /\ pc' = [pc EXCEPT ![s] = "reemit"]
        /\ snap' = snap /\ bucket' = bucket /\ retiring' = retiring /\ cfg' = cfg
    BY <1>4 DEF Adopt, identity
  <2> QED BY <1>0, <2>1 DEF Shape, Reconciles
<1>5. CASE ReEmit(s)
  <2>1. /\ pc[s] = "reemit" /\ snap' = snap /\ bucket' = bucket /\ cfg' = cfg
        /\ \/ pc' = [pc EXCEPT ![s] = "reconcile"] /\ retiring' = [retiring EXCEPT ![s] = Tail(@)]
           \/ pc' = pc /\ retiring' = retiring
    BY <1>5 DEF ReEmit, identity
  <2>2. retiring[s] # <<>>
    BY <1>0, <2>1 DEF ProgressOK
  <2> QED BY <1>0, <2>1, <2>2 DEF Shape, Reconciles
<1>6. CASE NothingToPush(s) \/ Push(s)
  <2>1. /\ pc[s] = "reconcile" /\ pc' = [pc EXCEPT ![s] = "pull"] /\ snap' = snap
        /\ retiring' = retiring /\ shard' = shard /\ cfg' = cfg
    BY <1>6 DEF NothingToPush, Push, StartPull, ReadyToPush, identity
  <2>2. bucket' = bucket \/ Uploads(s)
    BY <1>6 DEF NothingToPush, Push, Uploads, identity
  <2> QED BY <1>0, <2>1, <2>2 DEF Shape, Goes
<1>7. CASE \E how \in PutFault : PushFails(s, how)
  <2>1. Leave(s) /\ pc[s] # "idle" /\ UNCHANGED identity
    BY <1>7 DEF PushFails, ReadyToPush
  <2>2. bucket' = bucket \/ Uploads(s)
    BY <1>7 DEF PushFails, Uploads, identity
  <2> QED BY <2>1, <2>2, LeavesShape
<1>8. CASE PushRefused(s) \/ Finish(s) \/ Crash(s) \/ \E i \in pulling[s] : CrashInAppend(s, i)
  <2>1. Leave(s) /\ pc[s] # "idle" /\ UNCHANGED identity /\ bucket' = bucket
    BY <1>8, BoundsAssumption DEF PushRefused, Finish, Crash, CrashInAppend, ReadyToPush
  <2> QED BY <2>1, LeavesShape
<1>9. CASE \E i \in pulling[s] : \E n : Pull(s, i, n)
  <2>1. /\ pc[s] = "pull" /\ pc' = pc /\ snap' = snap /\ retiring' = retiring
        /\ cfg' = cfg /\ bucket' = bucket
    BY <1>9 DEF Pull, identity
  <2> QED BY <1>0, <2>1 DEF Shape, Goes
<1>10. CASE Rotate(s) \/ \E m \in Machine : Create(s, m) \/ Move(s, m)
  <2>1. /\ pc[s] = "idle" /\ pc' = pc /\ snap' = snap /\ retiring' = retiring /\ bucket' = bucket
        /\ \A t \in Store \ {s} : cfg'[t] = cfg[t]
    BY <1>0, <1>10 DEF Rotate, Create, Move, progress, ProgressOK
  <2> QED BY <2>1 DEF Shape, Quiet
<1>11. CASE \E t \in Store, m \in Machine : Copy(t, s, m)
  <2>1. /\ pc[s] = "idle" /\ pc' = pc /\ snap' = snap /\ retiring' = retiring /\ bucket' = bucket
        /\ \A t \in Store \ {s} : cfg'[t] = cfg[t]
    BY <1>0, <1>11 DEF Copy, progress, ProgressOK
  <2> QED BY <2>1 DEF Shape, Quiet
<1> QED
  BY <1>1, <1>2, <1>3, <1>4, <1>5, <1>6, <1>7, <1>8, <1>9, <1>10, <1>11 DEF Step, SyncStep, FaultStep

\* An upload completes the bucket's version of a shard to the uploader's.
LEMMA UploadCompletes ==
  ASSUME TypeInv, FilesOK, BucketOK, SnapOK, PushOK, NEW s \in Store, Uploads(s)
  PROVE  LET i == Mine(s)
             P == Listed(s, i)
             g == NextSegment(s)
         IN  /\ i \in Install /\ P \in Seq(SegmentOf(RisingEvent))
             /\ g \in SegmentOf(RisingEvent) /\ g.inst = i
             /\ Group(i) = P
             /\ Len(g.evs) = Len(shard[s][i]) - Total(P)
             /\ Total(P) < Len(shard[s][i])
             /\ Numbered(Append(P, g), bucket', i)
             /\ GroupSegments(bucket', i) = Append(P, g)
             /\ Events(Append(P, g)) = shard[s][i]
<1> DEFINE i == Mine(s)
           P == Listed(s, i)
           g == NextSegment(s)
           local == shard[s][i]
           T == Total(P)
<1>1. pc[s] = "reconcile" /\ ~KeyTaken(g) /\ bucket' = bucket \cup {g} /\ ReadyToPush(s) /\ PushPlan(s).needed
  BY DEF Uploads, ReadyToPush
<1>2. /\ i \in Install
      /\ T \in Nat /\ LastSeq(P) \in Nat /\ T < Len(local)
      /\ g = [inst |-> i, seq |-> LastSeq(P) + 1, evs |-> SubSeq(local, T + 1, Len(local))]
      /\ Len(SubSeq(local, T + 1, Len(local))) = Len(local) - T
      /\ g \in SegmentOf(RisingEvent)
  BY <1>1, UploadIs
<1>3. local \in Seq(RisingEvent) /\ Len(local) \in Nat
  <2>1. local \in Seq(RisingEvent)
    BY <1>2, SnapTyped
  <2> QED BY <2>1
<1>4. /\ P \in Seq(SegmentOf(RisingEvent)) /\ Events(P) \in Seq(RisingEvent)
      /\ Len(Events(P)) = T
  BY SnapTyped, ListedTyped DEF Listed
<1>5. Numbered(P, snap[s], i) /\ Numbered(Group(i), bucket, i) /\ IsPrefix(Events(P), local)
  BY <1>1, <1>2 DEF SnapOK, BucketOK, PushOK
<1>6. g.inst = i /\ g.seq = Len(P) + 1 /\ Len(g.evs) = Len(local) - T
      /\ g.evs = SubSeq(local, T + 1, Len(local))
  <2>1. LastSeq(P) = Len(P)
    BY <1>4, <1>5, LastSeqNumbered DEF Numbered
  <2> HIDE DEF i, P, g, local, T
  <2> QED BY <1>2, <2>1
<1>7. Group(i) = P
  <2>1. SUFFICES ASSUME Group(i) # P PROVE FALSE
    OBVIOUS
  <2>2. PICK h \in SegmentOf(RisingEvent) : Group(i) = Append(P, h) /\ T + Len(h.evs) = Len(local)
    BY <1>1, <2>1 DEF PushOK
  <2> HIDE DEF i, P, g, local, T
  <2>3. Len(P) + 1 \in DOMAIN Append(P, h) /\ Append(P, h)[Len(P) + 1] = h /\ Len(P) \in Nat
    BY <1>4
  <2>4. h \in bucket /\ h.inst = i /\ h.seq = Len(P) + 1
    BY <1>5, <2>2, <2>3 DEF Numbered
  <2>5. Len(h.evs) \in Nat
    <3>1. h.evs \in Seq(RisingEvent)
      BY DEF SegmentOf
    <3> QED BY <3>1
  <2>6. Len(h.evs) = Len(g.evs)
    BY <1>2, <1>3, <1>6, <2>2, <2>5
  <2> QED BY <1>1, <1>6, <2>4, <2>6 DEF KeyTaken
<1> HIDE DEF i, P, g, local, T
<1>8. Numbered(P, bucket, i)
  BY <1>5, <1>7
<1>9. Numbered(Append(P, g), bucket', i) /\ Append(P, g) \in Seq(SegmentOf(RisingEvent))
  <2>1. Numbered(Append(P, g), bucket \cup {g}, i)
    BY <1>2, <1>4, <1>6, <1>8, NumberedAppend
  <2>2. Append(P, g) \in Seq(SegmentOf(RisingEvent))
    BY <1>2, <1>4
  <2> QED BY <1>1, <2>1, <2>2
<1>10. GroupSegments(bucket', i) = Append(P, g)
  BY <1>9, GroupIs
<1>11. Events(Append(P, g)) = local
  <2>1. Events(Append(P, g)) = Events(P) \o g.evs
    BY <1>2, <1>4, EventsSteps
  <2>2. Events(P) \o SubSeq(local, T + 1, Len(local)) = local
    BY <1>3, <1>4, <1>5, SplitAt
  <2> QED BY <1>6, <2>1, <2>2
<1> QED
  BY <1>2, <1>4, <1>6, <1>7, <1>9, <1>10, <1>11 DEF i, P, g, local, T

\* Nothing in the bucket is ever changed: what it holds of an install only grows, at its
\* end, and stays one numbered hash chain.
BucketGrows(i) ==
  /\ Numbered(GroupSegments(bucket', i), bucket', i)
  /\ IsChain(Events(GroupSegments(bucket', i)))
  /\ IsPrefix(Remote(i), Events(GroupSegments(bucket', i)))
  /\ Len(Group(i)) <= Len(GroupSegments(bucket', i))
  /\ Group(i) = SubSeq(GroupSegments(bucket', i), 1, Len(Group(i)))

\* An upload leaves the group of an install alone or adds its next segment at the end.
LEMMA BucketGrowsIs ==
  ASSUME TypeInv, FilesOK, BucketOK, SnapOK, PushOK, NEW i \in Install,
         bucket' = bucket \/ \E s \in Store : Uploads(s)
  PROVE  BucketGrows(i)
<1>0. Group(i) \in Seq(SegmentOf(RisingEvent)) /\ Remote(i) \in Seq(RisingEvent) /\ Len(Group(i)) \in Nat
  <2>1. Group(i) \in Seq(SegmentOf(RisingEvent)) /\ Remote(i) \in Seq(RisingEvent)
    BY ListedTyped, bucket \in SUBSET bucket DEF Group, Remote
  <2> QED BY <2>1
<1>1. ASSUME GroupSegments(bucket', i) = Group(i), Numbered(Group(i), bucket', i)
      PROVE  BucketGrows(i)
  <2>1. IsChain(Remote(i)) /\ Remote(i) = Events(Group(i))
    BY DEF BucketOK, Remote, Group
  <2>2. IsPrefix(Remote(i), Remote(i))
    BY <1>0, PrefixByElements
  <2>3. Group(i) = SubSeq(Group(i), 1, Len(Group(i)))
    BY <1>0, SubSeqFull
  <2> QED BY <1>0, <1>1, <2>1, <2>2, <2>3 DEF BucketGrows
<1>2. CASE bucket' = bucket
  BY <1>1, <1>2 DEF BucketOK, Group
<1>3. ASSUME NEW s \in Store, Uploads(s) PROVE BucketGrows(i)
  <2> DEFINE P == Listed(s, Mine(s))
             g == NextSegment(s)
             local == shard[s][Mine(s)]
  <2>1. /\ Mine(s) \in Install /\ P \in Seq(SegmentOf(RisingEvent)) /\ g \in SegmentOf(RisingEvent)
        /\ g.inst = Mine(s) /\ Group(Mine(s)) = P
        /\ Numbered(Append(P, g), bucket', Mine(s))
        /\ GroupSegments(bucket', Mine(s)) = Append(P, g)
        /\ Events(Append(P, g)) = local
    BY <1>3, UploadCompletes
  <2>2. bucket' = bucket \cup {g}
    BY <1>3 DEF Uploads
  <2>3. CASE i # Mine(s)
    <3>1. Numbered(Group(i), bucket', i)
      BY <2>1, <2>2, <2>3, NumberedOther DEF BucketOK
    <3>2. GroupSegments(bucket', i) = Group(i)
      BY <1>0, <3>1, GroupIs
    <3> QED BY <1>1, <3>1, <3>2
  <2>4. CASE i = Mine(s)
    <3>1. IsPrefix(Events(P), local)
      BY <1>3, <2>4 DEF PushOK, Uploads, ReadyToPush
    <3>2. IsChain(local)
      BY <2>1 DEF FilesOK
    <3>3. Remote(i) = Events(P)
      BY <2>1, <2>4 DEF Remote, Group
    <3> HIDE DEF P, g, local
    <3>4. Len(P) \in 0 .. Len(P) /\ Len(Append(P, g)) = Len(P) + 1 /\ Len(P) \in Nat
      BY <2>1
    <3>5. SubSeq(Append(P, g), 1, Len(P)) = P
      BY <2>1, <3>4, PrefixOfAppend, SubSeqFull
    <3>6. GroupSegments(bucket', i) = Append(P, g) /\ Group(i) = P /\ Numbered(Append(P, g), bucket', i)
      BY <2>1, <2>4
    <3>7. Len(P) <= Len(Append(P, g))
      BY <3>4
    <3> QED BY <2>1, <3>1, <3>2, <3>3, <3>5, <3>6, <3>7, Zenon DEF BucketGrows
  <2> QED BY <2>3, <2>4
<1> QED BY <1>2, <1>3

\* The ids a store has written under.
Ids(c) == {c.own} \cup ToSet(c.retired)

\* No identity change forgets an id.
LEMMA RotationKeepsIds ==
  ASSUME NEW c \in Config, c.own # NoInstall, NEW fresh, NEW m
  PROVE  /\ Ids(c) \subseteq Ids(RotateInstallLocked(c, fresh))
         /\ Ids(RotateInstallLocked(c, fresh)) = Ids(BindTo(RotateInstallLocked(c, fresh), m))
         /\ Ids(c) \subseteq Ids(ApplyMachineBinding(c, m, fresh))
<1> DEFINE r == RotateInstallLocked(c, fresh)
<1>1. c.retired \in Seq(Install) /\ c.own \in Install
  BY DEF Config, Install, NoInstall
<1>2. r.retired = Append(c.retired, c.own)
  BY DEF RotateInstallLocked
<1>3. Ids(c) \subseteq Ids(r)
  <2>1. /\ DOMAIN Append(c.retired, c.own) = 1 .. Len(c.retired) + 1
        /\ DOMAIN c.retired = 1 .. Len(c.retired) /\ Len(c.retired) \in Nat
        /\ Append(c.retired, c.own)[Len(c.retired) + 1] = c.own
        /\ \A k \in 1 .. Len(c.retired) : Append(c.retired, c.own)[k] = c.retired[k]
    BY <1>1
  <2>2. ASSUME NEW i \in Ids(c) PROVE \E k \in DOMAIN Append(c.retired, c.own) : Append(c.retired, c.own)[k] = i
    <3>1. CASE i = c.own
      BY <2>1, <3>1
    <3>2. CASE i # c.own
      <4>1. PICK k \in DOMAIN c.retired : i = c.retired[k]
        BY <3>2 DEF Ids, ToSet
      <4> QED BY <2>1, <4>1
    <3> QED BY <3>1, <3>2
  <2> QED BY <1>2, <2>2 DEF Ids, ToSet
<1>4. \A d : Ids(BindTo(d, m)) = Ids(d)
  BY DEF Ids, BindTo
<1>5. ApplyMachineBinding(c, m, fresh) \in {c, BindTo(c, m), BindTo(r, m)}
  BY DEF ApplyMachineBinding
<1> HIDE DEF r
<1>6. Ids(c) \subseteq Ids(ApplyMachineBinding(c, m, fresh))
  BY <1>3, <1>4, <1>5
<1> QED BY <1>3, <1>4, <1>6 DEF r

\* A store never forgets an id it has written under.
LEMMA IdsKept ==
  ASSUME TypeInv, NEW s \in Store, Step(s) \/ \E t \in Store, m \in Machine : Copy(t, s, m),
         NEW t \in Store, Exists(t)
  PROVE  Exists(t)' /\ Ids(cfg[t]) \subseteq Ids(cfg'[t])
<1>1. /\ cfg \in [Store -> Config] /\ cfg[s] \in Config /\ cfg[t] \in Config
      /\ cfg[t].own # NoInstall
  BY DEF TypeInv, IdentityInv, IdentityTypeOK, Exists
<1>3. CASE cfg' = cfg
  BY <1>3 DEF Exists
<1>4. CASE Lock(s)
  <2>1. cfg' = [cfg EXCEPT ![s] = ApplyMachineBinding(cfg[s], at[s], minted + 1)]
    BY <1>4 DEF Lock
  <2>2. \A u \in Store \ {s} : cfg'[u] = cfg[u]
    BY <1>1, <2>1
  <2>3. cfg'[s].own # NoInstall
    BY <1>4, LockSound DEF TypeInv
  <2>4. CASE t = s
    BY <1>1, <2>1, <2>3, <2>4, RotationKeepsIds DEF Exists
  <2> QED BY <1>1, <2>2, <2>4 DEF Exists
<1>5. CASE Rotate(s)
  <2> DEFINE used == IF Rotates(cfg[s], at[s]) THEN 2 ELSE 1
             locked == ApplyMachineBinding(cfg[s], at[s], minted + 1)
             rotated == RotateInstallLocked(locked, minted + used)
  <2>1. cfg' = [cfg EXCEPT ![s] = IF at[s] = NoFingerprint THEN rotated ELSE BindTo(rotated, at[s])]
    BY <1>5 DEF Rotate
  <2>2. CASE t = s
    <3>1. Ids(cfg[s]) \subseteq Ids(locked)
      BY <1>1, <2>2, RotationKeepsIds
    <3>2. locked \in Config /\ locked.own # NoInstall /\ minted + used \in Nat \ {0}
      <4>1. minted \in 0 .. MaxInstall /\ minted + used <= MaxInstall /\ IdsOK(cfg[s], minted)
            /\ at[s] \in Machine \cup {NoFingerprint}
        BY <1>5 DEF Rotate, TypeInv, IdentityInv, IdentityTypeOK, IdentityOK
      <4>2. Rotates(cfg[s], at[s]) => minted + 1 <= MaxInstall
        BY <4>1, BoundsAssumption
      <4>3. locked \in Config /\ locked.own # NoInstall
        BY <1>1, <2>2, <4>1, <4>2, BindingSound
      <4> HIDE DEF locked
      <4> QED BY <4>1, <4>3, BoundsAssumption
    <3> HIDE DEF locked, used
    <3>3. /\ Ids(locked) \subseteq Ids(rotated) /\ Ids(rotated) = Ids(BindTo(rotated, at[s]))
          /\ rotated.own # NoInstall /\ BindTo(rotated, at[s]).own # NoInstall
      <4>1. Ids(locked) \subseteq Ids(rotated) /\ Ids(rotated) = Ids(BindTo(rotated, at[s]))
        BY <3>2, RotationKeepsIds
      <4>2. rotated.own = minted + used /\ BindTo(rotated, at[s]).own = rotated.own
        BY DEF RotateInstallLocked, BindTo
      <4> QED BY <3>2, <4>1, <4>2 DEF NoInstall
    <3> HIDE DEF rotated
    <3> QED BY <1>1, <2>1, <2>2, <3>1, <3>3 DEF Exists
  <2> HIDE DEF rotated
  <2> QED BY <1>1, <2>1, <2>2 DEF Exists
<1>6. CASE \E m \in Machine : Create(s, m) \/ Move(s, m)
  BY <1>1, <1>6 DEF Create, Move, Exists
<1>7. CASE \E u \in Store, m \in Machine : Copy(u, s, m)
  BY <1>1, <1>7 DEF Copy, Exists
<1> QED
  BY <1>3, <1>4, <1>5, <1>6, <1>7
     DEF Step, SyncStep, FaultStep, SyncFork, SyncBegin, SyncUnreachable, NothingToReconcile,
         NothingToPush, Push, PushRefused, Finish, ReconcileFails, PushFails, Crash, Record,
         Adopt, ReEmit, Pull, CrashInAppend, identity

\* What a sync listed of an install is a beginning of what the bucket holds of it.
LEMMA ListedIsPrefix ==
  ASSUME TypeInv, SnapOK, NEW s \in Store, pc[s] # "idle", NEW i \in Install
  PROVE  IsPrefix(Events(Listed(s, i)), Remote(i))
<1>1. Group(i) \in Seq(SegmentOf(RisingEvent))
  BY ListedTyped, bucket \in SUBSET bucket DEF Group
<1>2. PICK m \in 0 .. Len(Group(i)) : Listed(s, i) = SubSeq(Group(i), 1, m)
  BY DEF SnapOK
<1> QED BY <1>1, <1>2, EventsPrefix DEF Remote, Group

\* Every step keeps the events of a shard linked, of the bucket's chain wherever the
\* bucket has them, and the shards of ids a store never had free of its own writing.
LEMMA FilesKept ==
  ASSUME TypeInv, FilesOK, BucketOK, SnapOK,
         NEW s \in Store, Step(s) \/ \E t \in Store, m \in Machine : Copy(t, s, m)
  PROVE  FilesOK'
<1>1. LogStep(s)
  BY LogStepIs
<1>2. /\ shard \in [Store -> [Install -> Seq(RisingEvent)]]
      /\ shard[s] \in [Install -> Seq(RisingEvent)]
      /\ retiring[s] \in Seq(Install) /\ pulling[s] \in SUBSET Install
      /\ snap[s] \in SUBSET bucket /\ (pc[s] # "idle" => Exists(s))
  BY SnapTyped DEF TypeInv, LogTyped, IdentityInv, IdentityOK, ProgressOK
<1>3. \A t \in Store : \A i \in Install : IsChain(shard[t][i]) /\ (~Exists(t) => shard[t][i] = <<>>)
  BY DEF FilesOK
<1>4. \A t \in Store : Exists(t) => Exists(t)'
  BY IdsKept
<1>5. ASSUME NEW j \in Install, NEW file \in Seq(RisingEvent), IsChain(file), Exists(s),
             shard' = [shard EXCEPT ![s][j] = file]
      PROVE  FilesOK'
  BY <1>2, <1>3, <1>4, <1>5 DEF FilesOK
<1>6. CASE UNCHANGED shard
  BY <1>3, <1>4, <1>6 DEF FilesOK
<1>7. CASE \E d \in Decision : WritesOwn(s, d)
  <2>1. PICK d \in Decision : WritesOwn(s, d)
    BY <1>7
  <2> DEFINE own == cfg'[s].own
             e == NewEvent(shard[s], own, d)
  <2>2. own \in Install /\ Exists(s)
    BY <2>1 DEF WritesOwn
  <2>3. /\ e \in RisingEvent /\ ParentHash(e) = TailHash(shard[s][own])
        /\ AppendOwn(shard[s], own, NextLamport(shard[s]), d)
             = [shard[s] EXCEPT ![own] = Append(shard[s][own], e)]
    BY <1>2, <2>2, AppendOwnIs
  <2>4. shard' = [shard EXCEPT ![s] = [shard[s] EXCEPT ![own] = Append(shard[s][own], e)]]
    BY <2>1, <2>3 DEF WritesOwn
  <2> HIDE DEF own, e
  <2>5. shard' = [shard EXCEPT ![s][own] = Append(shard[s][own], e)]
    BY <1>2, <2>2, <2>4
  <2>6. shard[s][own] \in Seq(RisingEvent)
    BY <1>2, <2>2
  <2>7. IsChain(Append(shard[s][own], e)) /\ Append(shard[s][own], e) \in Seq(RisingEvent)
    BY <1>3, <2>2, <2>3, <2>6, AppendIsChain
  <2> QED BY <1>5, <2>2, <2>5, <2>7
<1>8. CASE \E t \in Store : CopiedFrom(s, t)
  <2>1. PICK t \in Store : CopiedFrom(s, t)
    BY <1>8
  <2>2. cfg'[s] = cfg[t] /\ Exists(t) /\ shard' = [shard EXCEPT ![s] = shard[t]]
    BY <2>1 DEF CopiedFrom, TypeInv, IdentityInv, IdentityTypeOK
  <2> QED BY <1>2, <1>3, <1>4, <2>2 DEF FilesOK, Exists
<1>9. CASE Adopts(s)
  <2> DEFINE i == Head(retiring[s])
  <2>1. i \in Install /\ pc[s] # "idle" /\ Exists(s)
    BY <1>2, <1>9 DEF Adopts
  <2>2. Canon(s) = Events(Listed(s, i))
    BY DEF Canon, Listed
  <2>3. IsPrefix(Canon(s), Remote(i))
    BY <2>1, <2>2, ListedIsPrefix
  <2>4. Canon(s) \in Seq(RisingEvent) /\ Remote(i) \in Seq(RisingEvent)
    BY <1>2, <2>2, ListedTyped, bucket \in SUBSET bucket DEF Listed, Remote
  <2>5. IsChain(Canon(s))
    BY <2>1, <2>3, <2>4, PrefixIsChain DEF BucketOK
  <2> QED BY <1>5, <1>9, <2>1, <2>4, <2>5 DEF Adopts
<1>10. CASE \E i \in pulling[s] : \E m \in Nat : Pulls(s, i, m)
  <2>1. PICK i \in pulling[s] : \E m \in Nat : Pulls(s, i, m)
    BY <1>10
  <2>2. PICK m \in Nat : Pulls(s, i, m)
    BY <2>1
  <2>3. /\ i \in Install /\ Exists(s) /\ shard[s][i] \in Seq(RisingEvent) /\ Len(shard[s][i]) \in Nat
        /\ Events(Listed(s, i)) \in Seq(RisingEvent)
        /\ m \in 0 .. Len(Events(Listed(s, i)))
    BY <1>2, <2>2, ListedTyped DEF Listed, Pulls
  <2>4. Part(s, i, m) \in Seq(RisingEvent)
    BY <2>3 DEF Part
  <2>5. shard[s][i] \o Part(s, i, m) \in Seq(RisingEvent) /\ IsChain(shard[s][i] \o Part(s, i, m))
    BY <1>3, <2>2, <2>3, <2>4, ConcatProperties, ConcatIsChain DEF Pulls
  <2> QED BY <1>5, <2>2, <2>3, <2>5 DEF Pulls
<1> QED BY <1>1, <1>6, <1>7, <1>8, <1>9, <1>10 DEF LogStep

\* A shard of a chain that a group agrees with at its last event continues the group.
LEMMA NoForkPrefix ==
  ASSUME NEW group \in Seq(SegmentOf(RisingEvent)), NEW local \in Seq(RisingEvent),
         IsChain(Events(group)), IsChain(local), ~ForkSeen(local, group)
  PROVE  IsPrefix(Events(group), local)
<1> DEFINE evs == Events(group)
           T == Total(group)
<1>1. evs \in Seq(RisingEvent) /\ Len(evs) = T /\ T \in Nat /\ Len(local) \in Nat
  <2>1. evs \in Seq(RisingEvent) /\ Len(evs) = T /\ T \in Nat
    BY EventsTotal
  <2> QED BY <2>1
<1>2. CASE group = <<>>
  <2>1. evs = <<>> /\ Len(<<>>) = 0
    BY <1>2, EventsSteps
  <2> HIDE DEF evs, T
  <2>2. Len(evs) <= Len(local) /\ \A k \in 1 .. Len(evs) : evs[k] = local[k]
    BY <1>1, <2>1
  <2>3. IsPrefix(evs, local)
    BY <1>1, <2>2, PrefixByElements
  <2> QED BY <2>3 DEF evs
<1>3. CASE group # <<>>
  <2>1. T <= Len(local) /\ Last(Last(group).evs) = local[T]
    BY <1>1, <1>3 DEF ForkSeen
  <2>2. T > 0 /\ Last(Last(group).evs) = evs[T]
    BY <1>3, LastEvent
  <2> HIDE DEF evs, T
  <2>3. T \in 1 .. Len(evs) /\ T \in 1 .. Len(local) /\ evs[T] = local[T]
    BY <1>1, <2>1, <2>2
  <2>4. /\ evs \in Seq(Seq(Entry(Decision)) \ {<<>>}) /\ local \in Seq(Seq(Entry(Decision)) \ {<<>>})
    <3>1. Seq(RisingEvent) \subseteq Seq(Seq(Entry(Decision)) \ {<<>>})
      BY RisingTyped
    <3> QED BY <1>1, <3>1
  <2>5. \A k \in 1 .. T : evs[k] = local[k]
    BY <2>3, <2>4, ChainsAgree DEF evs
  <2>6. IsPrefix(evs, local)
    BY <1>1, <2>1, <2>5, PrefixByElements
  <2> QED BY <2>6 DEF evs
<1> QED BY <1>2, <1>3

\* One store's files change in a step, and while it reconciles or pulls not its own shard.
LEMMA OthersFiles ==
  ASSUME TypeInv, NEW s \in Store, LogStep(s), NEW t \in Store
  PROVE  /\ t # s => shard'[t] = shard[t]
         /\ pc[t] \in {"reconcile", "pull"} => shard'[t][Mine(t)] = shard[t][Mine(t)]
<1>1. /\ shard \in [Store -> [Install -> Seq(RisingEvent)]] /\ ProgressOK(s)
      /\ retiring[s] \in Seq(Install) /\ pulling[s] \in SUBSET Install
  BY DEF TypeInv, LogTyped, IdentityInv, IdentityTypeOK, IdentityOK
<1>2. t # s => shard'[t] = shard[t]
  BY <1>1 DEF LogStep, WritesOwn, CopiedFrom, Adopts, Pulls
<1>3. ASSUME t = s, pc[t] \in {"reconcile", "pull"}
      PROVE  shard'[t][Mine(t)] = shard[t][Mine(t)]
  <2>1. CASE UNCHANGED shard
    BY <2>1
  <2>2. CASE Adopts(s)
    <3>1. Head(retiring[s]) = retiring[s][1] /\ 1 \in DOMAIN retiring[s]
      BY <1>1, <2>2 DEF Adopts
    <3>2. Head(retiring[s]) # Mine(s)
      BY <1>1, <3>1 DEF ProgressOK
    <3> QED BY <1>1, <1>3, <2>2, <3>2 DEF Adopts
  <2>3. CASE \E i \in pulling[s] : \E m \in Nat : Pulls(s, i, m)
    BY <1>1, <1>3, <2>3 DEF Pulls, ProgressOK
  <2>4. Exists(s)
    BY <1>1, <1>3 DEF ProgressOK
  <2>5. \A d : ~WritesOwn(s, d)
    BY <1>3 DEF WritesOwn
  <2>6. \A u : ~CopiedFrom(s, u)
    BY <2>4 DEF CopiedFrom
  <2> QED BY <2>1, <2>2, <2>3, <2>5, <2>6 DEF LogStep
<1> QED BY <1>2, <1>3

\* A sync that reconciles runs under an identity with a retired one.
LEMMA ReconcilesRetired ==
  ASSUME TypeInv, RetiringOK, NEW s \in Store, retiring[s] # <<>>
  PROVE  /\ cfg[s].retired # <<>>
         /\ Head(retiring[s]) \in Ids(cfg[s])
<1>1. retiring[s] \in Seq(Install) /\ cfg[s] \in Config
  BY SnapTyped
<1>2. 1 \in 1 .. Len(retiring[s]) /\ Head(retiring[s]) = retiring[s][1]
  BY <1>1
<1>3. PICK j \in 1 .. Len(cfg[s].retired) : retiring[s][1] = cfg[s].retired[j]
  BY <1>2 DEF RetiringOK
<1>4. cfg[s].retired \in Seq(Install)
  BY <1>1 DEF Config
<1>5. cfg[s].retired # <<>> /\ j \in DOMAIN cfg[s].retired
  BY <1>3, <1>4
<1> QED BY <1>2, <1>3, <1>5 DEF Ids, ToSet

Acts(s) == Step(s) \/ \E t \in Store, m \in Machine : Copy(t, s, m)

\* In every shape the bucket is left alone or one segment is uploaded.
LEMMA BucketShape ==
  ASSUME TypeInv, NEW s \in Store, Shape(s)
  PROVE  bucket' = bucket \/ Uploads(s)
BY DEF Shape, Quiet, Begins, Reconciles, Goes, Leaves

\* A listing stays a beginning of the bucket.
LEMMA SnapKept ==
  ASSUME TypeInv, SnapOK, NEW s \in Store, Shape(s), \A i \in Install : BucketGrows(i),
         TypeInv'
  PROVE  SnapOK'
<1> SUFFICES ASSUME NEW t \in Store, NEW i \in Install, pc'[t] # "idle"
             PROVE  /\ Numbered(GroupSegments(snap'[t], i), snap'[t], i)
                    /\ \E m \in 0 .. Len(GroupSegments(bucket', i)) :
                         GroupSegments(snap'[t], i) = SubSeq(GroupSegments(bucket', i), 1, m)
  BY DEF SnapOK, Listed, Group
<1>1. /\ GroupSegments(bucket', i) \in Seq(SegmentOf(RisingEvent))
      /\ GroupSegments(bucket, i) \in Seq(SegmentOf(RisingEvent))
  <2>1. GroupSegments(bucket, i) \in Seq(SegmentOf(RisingEvent))
    BY ListedTyped, bucket \in SUBSET bucket
  <2>2. \A segs \in SUBSET SegmentOf(RisingEvent) :
          (/\ IsFiniteSet(segs)
           /\ \A g, h \in segs : g.inst = h.inst /\ g.seq = h.seq /\ Len(g.evs) = Len(h.evs) => g = h)
             => GroupSegments(segs, i) \in Seq(SegmentOf(RisingEvent))
    BY GroupTyped
  <2>3. bucket' \in SUBSET SegmentOf(RisingEvent) /\ IsFiniteSet(bucket')
        /\ \A g, h \in bucket' : g.inst = h.inst /\ g.seq = h.seq /\ Len(g.evs) = Len(h.evs) => g = h
    BY DEF TypeInv, LogTyped, KeysUnique
  <2> QED BY <2>1, <2>2, <2>3
<1>2. CASE pc[t] # "idle" /\ snap'[t] = snap[t]
  <2>1. Numbered(Listed(t, i), snap[t], i)
    BY <1>2 DEF SnapOK
  <2>2. PICK m \in 0 .. Len(Group(i)) : Listed(t, i) = SubSeq(Group(i), 1, m)
    BY <1>2 DEF SnapOK
  <2>3. /\ Len(Group(i)) <= Len(GroupSegments(bucket', i)) /\ Len(Group(i)) \in Nat
        /\ Len(GroupSegments(bucket', i)) \in Nat
        /\ Group(i) = SubSeq(GroupSegments(bucket', i), 1, Len(Group(i)))
    BY <1>1 DEF BucketGrows, Group
  <2>4. Len(Group(i)) \in 0 .. Len(GroupSegments(bucket', i)) /\ m \in 0 .. Len(GroupSegments(bucket', i))
    BY <2>3
  <2>5. SubSeq(SubSeq(GroupSegments(bucket', i), 1, Len(Group(i))), 1, m)
          = SubSeq(GroupSegments(bucket', i), 1, m)
    BY <1>1, <2>4, SubSubSeq
  <2>6. GroupSegments(snap'[t], i) = SubSeq(GroupSegments(bucket', i), 1, m)
    BY <1>2, <2>2, <2>3, <2>5 DEF Listed
  <2> QED BY <1>2, <2>1, <2>4, <2>6 DEF Listed
<1>3. CASE snap'[t] = bucket /\ bucket' = bucket
  <2>1. Numbered(GroupSegments(bucket', i), bucket', i)
    BY DEF BucketGrows
  <2>2. GroupSegments(bucket, i) = SubSeq(GroupSegments(bucket, i), 1, Len(GroupSegments(bucket, i)))
    BY <1>1, SubSeqFull
  <2>3. Len(GroupSegments(bucket, i)) \in 0 .. Len(GroupSegments(bucket, i))
    BY <1>1
  <2>4. GroupSegments(snap'[t], i) = GroupSegments(bucket, i)
        /\ GroupSegments(bucket', i) = GroupSegments(bucket, i)
        /\ Numbered(GroupSegments(bucket, i), snap'[t], i)
    BY <1>3, <2>1
  <2> QED BY <2>2, <2>3, <2>4, Zenon DEF Listed
<1> QED BY <1>2, <1>3 DEF Shape, Quiet, Begins, Reconciles, Goes, Leaves

\* Every step keeps what a reconciling store has yet to look at within its retired ids.
LEMMA RetiringKept ==
  ASSUME TypeInv, RetiringOK, NEW s \in Store, Shape(s), TypeInv'
  PROVE  RetiringOK'
<1> SUFFICES ASSUME NEW t \in Store, NEW k \in 1 .. Len(retiring'[t])
             PROVE  \E j \in 1 .. Len(cfg'[t].retired) : retiring'[t][k] = cfg'[t].retired[j]
  BY DEF RetiringOK
<1>1. retiring[t] \in Seq(Install) /\ retiring'[t] \in Seq(Install)
  BY DEF TypeInv, IdentityInv, IdentityTypeOK
<1>2. CASE retiring'[t] = retiring[t] /\ cfg'[t] = cfg[t]
  BY <1>2 DEF RetiringOK
<1>3. CASE retiring[t] # <<>> /\ retiring'[t] = Tail(retiring[t]) /\ cfg'[t] = cfg[t]
  <2>1. k + 1 \in 1 .. Len(retiring[t]) /\ retiring'[t][k] = retiring[t][k + 1]
    BY <1>1, <1>3
  <2> QED BY <1>3, <2>1 DEF RetiringOK
<1>4. CASE retiring'[t] = cfg'[t].retired
  BY <1>4
<1>5. CASE retiring'[t] = <<>>
  BY <1>5
<1>6. CASE Quiet(s) /\ t = s
  <2>1. ProgressOK(t)'
    BY DEF TypeInv, IdentityInv, IdentityOK
  <2> QED BY <1>5, <1>6, <2>1 DEF Quiet, ProgressOK
<1> QED BY <1>2, <1>3, <1>4, <1>5, <1>6 DEF Shape, Begins, Reconciles, Goes, Leaves

\* Every step keeps two stores from writing under one id unless they push alike.
LEMMA TwinsKept ==
  ASSUME TwinsPushAlike, TypeInv, TwinsOK, RetiringOK, NEW s \in Store, Shape(s), LogStep(s)
  PROVE  TwinsOK'
<1> DEFINE Alike(t, u) ==
      /\ cfg'[t].retired = <<>> /\ cfg'[u].retired = <<>>
      /\ Len(shard'[t][cfg'[t].own]) = Len(shard'[u][cfg'[t].own])
<1>1. ASSUME NEW t \in Store \ {s}, pc'[s] # "idle", pc'[t] # "idle", cfg'[s].own = cfg'[t].own
      PROVE  Alike(s, t)
  <2>1. pc'[t] = pc[t] /\ cfg'[t] = cfg[t] /\ shard'[t] = shard[t]
    BY OthersFiles DEF Shape
  <2>2. CASE Begins(s)
    <3>1. /\ pc[t] # "idle" /\ cfg[t].own = cfg'[s].own /\ shard' = shard
      BY <1>1, <2>1, <2>2 DEF Begins
    <3>2. /\ Len(shard[t][cfg'[s].own]) = Len(shard[s][cfg'[s].own])
          /\ cfg[t].retired = <<>> /\ cfg'[s].retired = <<>>
      BY <2>2, <3>1 DEF Begins, Turn
    <3> QED BY <2>1, <3>1, <3>2
  <2>3. CASE Reconciles(s)
    <3>1. cfg[s].retired # <<>> /\ cfg' = cfg /\ pc[s] # "idle"
      BY <2>3, ReconcilesRetired DEF Reconciles
    <3> QED BY <1>1, <2>1, <3>1 DEF TwinsOK, Mine
  <2>4. CASE Goes(s)
    <3>1. shard'[s][Mine(s)] = shard[s][Mine(s)] /\ cfg' = cfg /\ pc[s] # "idle"
      BY <2>4, OthersFiles DEF Goes
    <3>2. /\ cfg[s].retired = <<>> /\ cfg[t].retired = <<>>
          /\ Len(shard[s][Mine(s)]) = Len(shard[t][Mine(s)])
      BY <1>1, <2>1, <3>1 DEF TwinsOK, Mine
    <3> QED BY <2>1, <3>1, <3>2 DEF Mine
  <2>5. CASE Quiet(s) \/ Leaves(s)
    BY <1>1, <2>5 DEF Quiet, Leaves
  <2> QED BY <2>2, <2>3, <2>4, <2>5 DEF Shape
<1>2. ASSUME NEW t \in Store \ {s}, NEW u \in Store \ {s}, t # u,
             pc'[t] # "idle", pc'[u] # "idle", cfg'[t].own = cfg'[u].own
      PROVE  Alike(t, u)
  <2>1. /\ pc'[t] = pc[t] /\ cfg'[t] = cfg[t] /\ shard'[t] = shard[t]
        /\ pc'[u] = pc[u] /\ cfg'[u] = cfg[u] /\ shard'[u] = shard[u]
    BY OthersFiles DEF Shape
  <2> QED BY <1>2, <2>1 DEF TwinsOK, Mine
<1>3. ASSUME NEW t \in Store, NEW u \in Store, t # u,
             pc'[t] # "idle", pc'[u] # "idle", cfg'[t].own = cfg'[u].own
      PROVE  Alike(t, u)
  <2>1. CASE t = s
    BY <1>1, <1>3, <2>1
  <2>2. CASE u = s
    BY <1>1, <1>3, <2>2
  <2>3. CASE t # s /\ u # s
    BY <1>2, <1>3, <2>3
  <2> QED BY <2>1, <2>2, <2>3
<1> QED BY <1>3 DEF TwinsOK, Mine

\* Uploads of one install leave what the bucket holds of the others.
LEMMA UploadOther ==
  ASSUME TypeInv, FilesOK, BucketOK, SnapOK, PushOK, NEW s \in Store, Uploads(s),
         NEW i \in Install, i # Mine(s)
  PROVE  GroupSegments(bucket', i) = Group(i)
<1>1. Group(i) \in Seq(SegmentOf(RisingEvent))
  BY ListedTyped, bucket \in SUBSET bucket DEF Group
<1>2. NextSegment(s).inst = Mine(s) /\ bucket' = bucket \cup {NextSegment(s)}
  BY UploadCompletes DEF Uploads
<1>3. Numbered(Group(i), bucket', i)
  BY <1>2, NumberedOther DEF BucketOK
<1> QED BY <1>1, <1>3, GroupIs

\* Every step keeps a pushing store's plan a continuation of what the bucket holds.
LEMMA PushKept ==
  ASSUME TypeInv, ShareInv, NEW s \in Store, Shape(s), LogStep(s)
  PROVE  PushOK'
<1> USE DEF ShareInv
<1> DEFINE Fine(t, i) ==
      /\ IsPrefix(Events(GroupSegments(snap'[t], i)), shard'[t][i])
      /\ \/ GroupSegments(bucket', i) = GroupSegments(snap'[t], i)
         \/ /\ cfg'[t].retired = <<>>
            /\ \E h \in SegmentOf(RisingEvent) :
                 /\ GroupSegments(bucket', i) = Append(GroupSegments(snap'[t], i), h)
                 /\ Total(GroupSegments(snap'[t], i)) + Len(h.evs) = Len(shard'[t][i])
<1>1. ASSUME NEW t \in Store \ {s}, pc'[t] \in {"reconcile", "reemit"}
      PROVE  Fine(t, cfg'[t].own)
  <2> DEFINE i == Mine(t)
  <2>1. /\ pc'[t] = pc[t] /\ cfg'[t] = cfg[t] /\ shard'[t] = shard[t] /\ snap'[t] = snap[t]
        /\ i \in Install /\ pc[t] # "idle"
    BY <1>1, OthersFiles, SnapTyped DEF Shape
  <2>2. /\ IsPrefix(Events(Listed(t, i)), shard[t][i])
        /\ \/ Group(i) = Listed(t, i)
           \/ /\ cfg[t].retired = <<>>
              /\ \E h \in SegmentOf(RisingEvent) :
                   /\ Group(i) = Append(Listed(t, i), h)
                   /\ Total(Listed(t, i)) + Len(h.evs) = Len(shard[t][i])
    BY <1>1, <2>1 DEF PushOK
  <2>3. CASE GroupSegments(bucket', i) = Group(i)
    BY <2>1, <2>2, <2>3 DEF Mine, Listed
  <2>4. CASE bucket' = bucket
    BY <2>3, <2>4 DEF Group
  <2>5. CASE Uploads(s) /\ Mine(s) # i
    BY <2>1, <2>3, <2>5, UploadOther
  <2>6. CASE Uploads(s) /\ Mine(s) = i
    <3> DEFINE P == Listed(s, i)
               g == NextSegment(s)
               L == Len(shard[s][i])
    <3>1. /\ P \in Seq(SegmentOf(RisingEvent)) /\ g \in SegmentOf(RisingEvent)
          /\ Group(i) = P /\ Len(g.evs) = L - Total(P) /\ Total(P) < L
          /\ GroupSegments(bucket', i) = Append(P, g)
      BY <2>6, UploadCompletes
    <3>2. cfg[t].retired = <<>> /\ Len(shard[t][i]) = L
      BY <2>1, <2>6 DEF TwinsOK, Uploads, ReadyToPush
    <3>3. L \in Nat /\ Total(P) \in Nat
      <4>1. shard[s][i] \in Seq(RisingEvent)
        BY <2>1, SnapTyped
      <4>2. Total(P) \in Nat
        BY SnapTyped, ListedTyped DEF Listed
      <4> QED BY <4>1, <4>2
    <3> HIDE DEF P, g, L, i
    <3>4. ASSUME NEW h \in SegmentOf(RisingEvent), Group(i) = Append(Listed(t, i), h),
                 Total(Listed(t, i)) + Len(h.evs) = Len(shard[t][i])
          PROVE  FALSE
      <4>1. Listed(t, i) \in Seq(SegmentOf(RisingEvent))
        BY SnapTyped, ListedTyped DEF Listed
      <4>2. Total(P) = Total(Listed(t, i)) + Len(h.evs)
        BY <3>1, <3>4, <4>1, TotalSteps
      <4> QED BY <3>1, <3>2, <3>3, <3>4, <4>2
    <3>5. Group(i) = Listed(t, i)
      BY <2>2, <3>4
    <3>6. Total(Listed(t, i)) + Len(g.evs) = Len(shard[t][i])
      BY <3>1, <3>2, <3>3, <3>5
    <3> QED BY <2>1, <2>2, <3>1, <3>2, <3>5, <3>6 DEF Mine, Listed, i
  <2> QED BY <2>4, <2>5, <2>6, BucketShape
<1>2. ASSUME pc'[s] \in {"reconcile", "reemit"}
      PROVE  Fine(s, cfg'[s].own)
  <2>1. CASE Begins(s)
    <3> DEFINE i == cfg'[s].own
    <3>1. /\ i \in Install /\ snap'[s] = bucket /\ bucket' = bucket /\ shard' = shard
          /\ ~ForkSeen(shard[s][i], GroupSegments(bucket, i))
      BY <2>1 DEF Begins
    <3>2. /\ IsChain(shard[s][i]) /\ IsChain(Events(GroupSegments(bucket, i)))
          /\ shard[s][i] \in Seq(RisingEvent)
          /\ GroupSegments(bucket, i) \in Seq(SegmentOf(RisingEvent))
      BY <3>1, SnapTyped, ListedTyped DEF FilesOK, BucketOK, Remote
    <3>3. IsPrefix(Events(GroupSegments(bucket, i)), shard[s][i])
      BY <3>1, <3>2, NoForkPrefix
    <3> QED BY <3>1, <3>3
  <2>2. CASE Reconciles(s)
    <3> DEFINE i == Mine(s)
               P == Listed(s, i)
    <3>1. /\ cfg[s].retired # <<>> /\ cfg' = cfg /\ pc[s] \in {"reconcile", "reemit"}
          /\ snap'[s] = snap[s] /\ bucket' = bucket
      BY <2>2, ReconcilesRetired DEF Reconciles
    <3>2. IsPrefix(Events(P), shard[s][i]) /\ Group(i) = P
      BY <3>1 DEF PushOK
    <3>3. i \in Install /\ shard[s] \in [Install -> Seq(RisingEvent)] /\ Events(P) \in Seq(RisingEvent)
      BY <3>1, SnapTyped, ListedTyped DEF Listed
    <3>4. IsPrefix(Events(P), shard'[s][i])
      <4>1. CASE pc[s] = "reconcile"
        <5>1. shard'[s][i] = shard[s][i]
          BY <4>1, OthersFiles
        <5> QED BY <3>2, <5>1
      <4>2. CASE pc[s] = "reemit" /\ \E d \in Decision : WritesOwn(s, d)
        <5>1. PICK d \in Decision : WritesOwn(s, d)
          BY <4>2
        <5>2. /\ NewEvent(shard[s], i, d) \in RisingEvent
              /\ AppendOwn(shard[s], i, NextLamport(shard[s]), d)
                   = [shard[s] EXCEPT ![i] = Append(shard[s][i], NewEvent(shard[s], i, d))]
          BY <3>3, AppendOwnIs
        <5>3. shard'[s][i] = Append(shard[s][i], NewEvent(shard[s], i, d))
          BY <3>1, <3>3, <5>1, <5>2 DEF WritesOwn, Mine, TypeInv, LogTyped
        <5> HIDE DEF P, i
        <5>4. shard[s][i] \in Seq(RisingEvent)
          BY <3>3
        <5>5. Append(shard[s][i], NewEvent(shard[s], i, d)) \in Seq(RisingEvent)
              /\ IsPrefix(shard[s][i], Append(shard[s][i], NewEvent(shard[s], i, d)))
          <6> DEFINE u == Append(shard[s][i], NewEvent(shard[s], i, d))
          <6>1. /\ u \in Seq(RisingEvent) /\ Len(shard[s][i]) <= Len(u)
                /\ \A k \in 1 .. Len(shard[s][i]) : shard[s][i][k] = u[k]
            BY <5>2, <5>4
          <6> HIDE DEF u
          <6>2. IsPrefix(shard[s][i], u)
            BY <5>4, <6>1, PrefixByElements
          <6> QED BY <6>1, <6>2 DEF u
        <5> QED BY <3>2, <3>3, <5>3, <5>4, <5>5, PrefixTransitive
      <4>3. CASE pc[s] = "reemit" /\ \A d \in Decision : ~WritesOwn(s, d)
        <5>1. Exists(s)
          BY <4>3 DEF TypeInv, IdentityInv, IdentityOK, ProgressOK
        <5>2. UNCHANGED shard
          BY <4>3, <5>1 DEF LogStep, CopiedFrom, Adopts, Pulls
        <5> QED BY <3>2, <5>2
      <4> QED BY <3>1, <4>1, <4>2, <4>3
    <3> QED BY <3>1, <3>2, <3>4 DEF Mine, Listed, Group
  <2> QED BY <1>2, <2>1, <2>2 DEF Shape, Quiet, Goes, Leaves
<1> HIDE DEF Fine
<1>3. \A t \in Store : pc'[t] \in {"reconcile", "reemit"} => Fine(t, cfg'[t].own)
  BY <1>1, <1>2
<1> QED BY <1>3 DEF PushOK, Fine, Mine, Listed, Group

\* Every step keeps a foreign shard a beginning of what the bucket holds of its install.
LEMMA ForeignKept ==
  ASSUME TypeInv, ShareInv, NEW s \in Store, Acts(s), Shape(s), LogStep(s),
         \A i \in Install : BucketGrows(i), TypeInv'
  PROVE  ForeignIsPrefix'
<1> USE DEF ShareInv
<1> DEFINE Later(i) == Events(GroupSegments(bucket', i))
<1> SUFFICES ASSUME NEW t \in Store, NEW i \in Install, i \notin Ids(cfg'[t])
             PROVE  IsPrefix(shard'[t][i], Later(i))
  BY DEF ForeignIsPrefix, Ids, Mine, Retired, Remote
<1>1. /\ shard'[t][i] \in Seq(RisingEvent) /\ Later(i) \in Seq(RisingEvent)
      /\ Remote(i) \in Seq(RisingEvent)
      /\ shard \in [Store -> [Install -> Seq(RisingEvent)]]
  <2>1. shard' \in [Store -> [Install -> Seq(RisingEvent)]] /\ shard \in [Store -> [Install -> Seq(RisingEvent)]]
    BY DEF TypeInv, LogTyped
  <2>2. Remote(i) \in Seq(RisingEvent)
    BY ListedTyped, bucket \in SUBSET bucket DEF Remote
  <2>3. GroupSegments(bucket', i) \in Seq(SegmentOf(RisingEvent))
    <3>1. bucket' \in SUBSET SegmentOf(RisingEvent) /\ IsFiniteSet(bucket')
          /\ \A g, h \in bucket' : g.inst = h.inst /\ g.seq = h.seq /\ Len(g.evs) = Len(h.evs) => g = h
      BY DEF TypeInv, LogTyped, KeysUnique
    <3>2. \A segs \in SUBSET SegmentOf(RisingEvent) :
            (/\ IsFiniteSet(segs)
             /\ \A g, h \in segs : g.inst = h.inst /\ g.seq = h.seq /\ Len(g.evs) = Len(h.evs) => g = h)
               => GroupSegments(segs, i) \in Seq(SegmentOf(RisingEvent))
      BY GroupTyped
    <3> QED BY <3>1, <3>2
  <2>4. Later(i) \in Seq(RisingEvent)
    BY <2>3, EventsTotal
  <2> QED BY <2>1, <2>2, <2>4
<1>2. IsPrefix(Remote(i), Later(i))
  BY DEF BucketGrows
<1>3. ASSUME NEW u \in Store, i \notin Ids(cfg[u])
      PROVE  IsPrefix(shard[u][i], Remote(i))
  <2>1. CASE Exists(u)
    BY <1>3, <2>1 DEF ForeignIsPrefix, Ids, Mine, Retired
  <2>2. CASE ~Exists(u)
    <3>1. shard[u][i] = <<>> /\ <<>> \in Seq(RisingEvent) /\ Len(<<>>) = 0
      BY <2>2 DEF FilesOK
    <3>2. Len(Remote(i)) \in Nat
      BY <1>1
    <3> QED BY <1>1, <3>1, <3>2, PrefixByElements
  <2> QED BY <2>1, <2>2
<1>4. ASSUME NEW file \in Seq(RisingEvent), IsPrefix(file, Remote(i)), shard'[t][i] = file
      PROVE  IsPrefix(shard'[t][i], Later(i))
  BY <1>1, <1>2, <1>4, PrefixTransitive
<1>5. Exists(t) => i \notin Ids(cfg[t])
  BY IdsKept DEF Acts
<1>6. IsPrefix(shard[t][i], Remote(i))
  <2>1. CASE Exists(t)
    BY <1>3, <1>5, <2>1
  <2>2. CASE ~Exists(t)
    <3>1. shard[t][i] = <<>> /\ <<>> \in Seq(RisingEvent) /\ Len(<<>>) = 0
      BY <2>2 DEF FilesOK
    <3>2. Len(Remote(i)) \in Nat
      BY <1>1
    <3> QED BY <1>1, <3>1, <3>2, PrefixByElements
  <2> QED BY <2>1, <2>2
<1>7. CASE shard'[t][i] = shard[t][i]
  BY <1>1, <1>4, <1>6, <1>7
<1>8. CASE t # s
  BY <1>7, <1>8, OthersFiles
<1>9. CASE t = s
  <2>1. CASE UNCHANGED shard
    BY <1>7, <2>1
  <2>2. CASE \E d \in Decision : WritesOwn(s, d)
    <3>1. PICK d \in Decision : WritesOwn(s, d)
      BY <2>2
    <3>2. cfg'[s].own \in Install /\ i # cfg'[s].own
      BY <1>9, <3>1 DEF WritesOwn, Ids
    <3>3. AppendOwn(shard[s], cfg'[s].own, NextLamport(shard[s]), d)[i] = shard[s][i]
      BY <1>1, <3>2 DEF AppendOwn
    <3>4. shard'[s][i] = shard[s][i]
      BY <1>1, <3>1, <3>3 DEF WritesOwn
    <3> QED BY <1>7, <1>9, <3>4
  <2>3. CASE \E u \in Store : CopiedFrom(s, u)
    <3>1. PICK u \in Store : CopiedFrom(s, u)
      BY <2>3
    <3>2. cfg'[s] = cfg[u] /\ shard'[s] = shard[u]
      BY <1>1, <3>1 DEF CopiedFrom, TypeInv, IdentityInv, IdentityTypeOK
    <3>3. IsPrefix(shard[u][i], Remote(i))
      BY <1>3, <1>9, <3>2
    <3> QED BY <1>1, <1>4, <1>9, <3>2, <3>3
  <2>4. CASE Adopts(s)
    <3>1. Head(retiring[s]) \in Ids(cfg[s]) /\ cfg' = cfg
      BY <2>4, ReconcilesRetired DEF Adopts
    <3>2. i # Head(retiring[s])
      BY <1>9, <3>1
    <3>3. shard'[s][i] = shard[s][i]
      BY <1>1, <2>4, <3>2 DEF Adopts
    <3> QED BY <1>7, <1>9, <3>3
  <2>5. CASE \E j \in pulling[s] : \E m \in Nat : Pulls(s, j, m)
    <3>1. PICK j \in pulling[s] : \E m \in Nat : Pulls(s, j, m)
      BY <2>5
    <3>2. PICK m \in Nat : Pulls(s, j, m)
      BY <3>1
    <3>3. CASE i # j
      <4>1. shard'[s][i] = shard[s][i]
        BY <1>1, <3>2, <3>3 DEF Pulls
      <4> QED BY <1>7, <1>9, <4>1
    <3>4. CASE i = j
      <4> DEFINE e == Events(Listed(s, i))
                 a == shard[s][i]
      <4>1. pc[s] = "pull" /\ m \in 0 .. Total(Listed(s, i))
            /\ shard'[s][i] = a \o SubSeq(e, Len(a) + 1, m)
        BY <1>1, <3>2, <3>4 DEF Pulls, Part
      <4>2. /\ e \in Seq(RisingEvent) /\ a \in Seq(RisingEvent) /\ Len(e) = Total(Listed(s, i))
            /\ IsPrefix(a, Remote(i))
        BY <1>1, <1>6, <1>9, SnapTyped, ListedTyped DEF Listed
      <4>3. IsPrefix(e, Remote(i))
        BY <4>1, ListedIsPrefix
      <4> HIDE DEF e, a
      <4>4. IsPrefix(a \o SubSeq(e, Len(a) + 1, m), Remote(i))
        BY <1>1, <4>1, <4>2, <4>3, PrefixGrows
      <4>5. shard'[t][i] = a \o SubSeq(e, Len(a) + 1, m)
        BY <1>9, <4>1
      <4> QED BY <1>1, <1>4, <4>4, <4>5
    <3> QED BY <3>3, <3>4
  <2> QED BY <2>1, <2>2, <2>3, <2>4, <2>5 DEF LogStep
<1> QED BY <1>8, <1>9

\* The sharing invariant holds of an empty bucket.
LEMMA ShareInit == Init => ShareInv
<1> SUFFICES ASSUME Init PROVE ShareInv
  OBVIOUS
<1>1. TypeInv
  BY TypeInit
<1>2. <<>> \in Seq(RisingEvent) /\ Len(<<>>) = 0 /\ DOMAIN <<>> = {} /\ <<>> \in Seq(SegmentOf(RisingEvent))
  OBVIOUS
<1>3. IsChain(<<>>)
  BY <1>2 DEF IsChain
<1>4. \A i \in Install : Numbered(<<>>, {}, i)
  BY <1>2 DEF Numbered
<1>5. \A i \in Install : Group(i) = <<>> /\ Remote(i) = <<>>
  <2>1. \A i \in Install : GroupSegments({}, i) = <<>>
    BY <1>2, <1>4, GroupIs
  <2> QED BY <2>1, EventsSteps DEF Group, Remote, Init
<1>6. FilesOK
  BY <1>3 DEF Init, FilesOK, Exists
<1>7. BucketOK
  BY <1>3, <1>4, <1>5 DEF Init, BucketOK
<1>8. SnapOK /\ PushOK /\ TwinsOK /\ ForeignIsPrefix
  BY DEF Init, SnapOK, PushOK, TwinsOK, ForeignIsPrefix, Exists
<1>9. RetiringOK
  BY <1>2 DEF Init, RetiringOK
<1> QED BY <1>6, <1>7, <1>8, <1>9 DEF ShareInv

\* Every step keeps the sharing invariant.
LEMMA ShareStep ==
  ASSUME TwinsPushAlike, TypeInv, ShareInv, [Next]_vars, TypeInv'
  PROVE  ShareInv'
<1>1. CASE UNCHANGED vars
  BY <1>1 DEF vars, ShareInv, FilesOK, BucketOK, SnapOK, PushOK, TwinsOK, RetiringOK,
              ForeignIsPrefix, Exists, Mine, Retired, Group, Remote, Listed
<1>2. CASE Next
  <2>1. PICK s \in Store : Acts(s)
    BY <1>2, NextIs DEF Acts
  <2>2. LogStep(s) /\ Shape(s)
    BY <2>1, LogStepIs, ShapeIs DEF Acts
  <2>3. FilesOK /\ BucketOK /\ SnapOK /\ PushOK /\ TwinsOK /\ RetiringOK
    BY DEF ShareInv
  <2>4. \A i \in Install : BucketGrows(i)
    BY <2>2, <2>3, BucketShape, BucketGrowsIs
  <2>5. BucketOK'
    BY <2>4 DEF BucketOK, BucketGrows, Group, Remote
  <2>6. FilesOK'
    BY <2>1, <2>3, FilesKept DEF Acts
  <2>7. SnapOK' /\ PushOK' /\ TwinsOK' /\ RetiringOK'
    BY <2>2, <2>3, <2>4, SnapKept, PushKept, TwinsKept, RetiringKept
  <2>8. ForeignIsPrefix'
    BY <2>1, <2>2, <2>4, ForeignKept
  <2> QED BY <2>5, <2>6, <2>7, <2>8 DEF ShareInv
<1> QED BY <1>1, <1>2

\* When twins push alike, whatever is pushed twice, lost, retried, copied or rotated: the
\* segments of an install are numbered without a gap and are one hash chain (RemoteIsChain).
THEOREM RemoteSafe == TwinsPushAlike => (Spec => []RemoteIsChain)
<1> SUFFICES ASSUME TwinsPushAlike PROVE Spec => []RemoteIsChain
  OBVIOUS
<1>1. ShareInv => RemoteIsChain
  BY DEF ShareInv, BucketOK, RemoteIsChain, Numbered, Group
<1>2. TypeInv /\ ShareInv /\ [Next]_vars => TypeInv' /\ ShareInv'
  BY TypeStep, ShareStep
<1> QED BY <1>1, <1>2, TypeInit, ShareInit, PTL DEF Spec

\* Under the same condition a shard a store never wrote is a prefix of what the bucket
\* holds of it (ForeignIsPrefix): no partial pull, crash or rotation leaves a local file
\* that a later pull could not continue.
THEOREM ForeignSafe == TwinsPushAlike => (Spec => []ForeignIsPrefix)
<1> SUFFICES ASSUME TwinsPushAlike PROVE Spec => []ForeignIsPrefix
  OBVIOUS
<1>1. ShareInv => ForeignIsPrefix
  BY DEF ShareInv
<1>2. TypeInv /\ ShareInv /\ [Next]_vars => TypeInv' /\ ShareInv'
  BY TypeStep, ShareStep
<1> QED BY <1>1, <1>2, TypeInit, ShareInit, PTL DEF Spec

\* The last stamp of a file is the highest in it.
LEMMA LastIsHighest ==
  ASSUME NEW sh \in Seq(RisingEvent), IsChain(sh), NEW k \in 1 .. Len(sh)
  PROVE  Last(sh[k]).lam <= LastLamport(sh)
<1> DEFINE n == Len(sh)
           e == sh[n]
<1>1. sh # <<>> /\ n \in 1 .. n /\ n \in Nat /\ LastLamport(sh) = Last(e).lam
  BY DEF LastLamport, Last
<1>2. e \in RisingEvent /\ sh[k] \in RisingEvent
  BY <1>1
<1>3. sh \in Seq(Seq(Entry(Decision)) \ {<<>>})
  <2>1. Seq(RisingEvent) \subseteq Seq(Seq(Entry(Decision)) \ {<<>>})
    BY RisingTyped
  <2> QED BY <2>1
<1>4. Len(e) = n /\ Len(sh[k]) = k /\ sh[k] = SubSeq(e, 1, k)
  BY <1>1, <1>3, ChainShape
<1> HIDE DEF n
<1> HIDE DEF e
<1>5. e \in Seq(Entry(Decision)) /\ Len(e) = n /\ k \in 1 .. n
  BY <1>2, <1>4, RisingTyped DEF n
<1>6. Last(sh[k]) = e[k] /\ Last(e) = e[n]
  <2>1. SubSeq(e, 1, k)[k] = e[k]
    BY <1>5
  <2> QED BY <1>4, <2>1 DEF Last
<1>7. e[k].lam \in Nat /\ e[n].lam \in Nat
  <2>1. e[k] \in Entry(Decision) /\ e[n] \in Entry(Decision)
    BY <1>1, <1>5
  <2> QED BY <2>1 DEF Entry
<1>8. k < n => e[k].lam < e[n].lam
  BY <1>1, <1>2, <1>5 DEF RisingEvent
<1> QED BY <1>1, <1>5, <1>6, <1>7, <1>8

\* Under the same condition whatever a store writes is stamped later than everything it has
\* seen in any shard (CausalStamp).
THEOREM CausalSafe == TwinsPushAlike => (Spec => CausalStamp)
<1> SUFFICES ASSUME TwinsPushAlike PROVE Spec => CausalStamp
  OBVIOUS
<1> DEFINE Stamped == \A s \in Store :
       LET own == cfg'[s].own
       IN  Exists(s) /\ Len(shard'[s][own]) > Len(shard[s][own])
             => \A i \in Install : \A k \in DOMAIN shard[s][i] :
                  Last(shard[s][i][k]).lam < LastLamport(shard'[s][own])
<1>1. ASSUME TypeInv, ShareInv, Next, NEW t \in Store, Exists(t),
             Len(shard'[t][cfg'[t].own]) > Len(shard[t][cfg'[t].own]),
             NEW i \in Install, NEW k \in DOMAIN shard[t][i]
      PROVE  Last(shard[t][i][k]).lam < LastLamport(shard'[t][cfg'[t].own])
  <2> DEFINE own == cfg'[t].own
  <2>1. PICK s \in Store : Acts(s)
    BY <1>1, NextIs DEF Acts
  <2>2. LogStep(s) /\ Shape(s)
    BY <1>1, <2>1, LogStepIs, ShapeIs DEF Acts
  <2>3. /\ shard \in [Store -> [Install -> Seq(RisingEvent)]] /\ shard[t] \in [Install -> Seq(RisingEvent)]
        /\ shard[t][i] \in Seq(RisingEvent) /\ IsChain(shard[t][i])
    BY <1>1 DEF TypeInv, LogTyped, ShareInv, FilesOK
  <2>4. ASSUME shard'[t][own] = shard[t][own] PROVE FALSE
    <3>1. TypeInv'
      BY <1>1, TypeStep
    <3>2. Exists(t)'
      BY <1>1, <2>1, IdsKept DEF Acts
    <3>3. own \in Install
      BY <3>1, <3>2 DEF TypeInv, IdentityInv, IdentityTypeOK, Config, Exists
    <3>4. Len(shard[t][own]) \in Nat
      <4>1. shard[t][own] \in Seq(RisingEvent)
        BY <2>3, <3>3
      <4> QED BY <4>1
    <3> QED BY <1>1, <2>4, <3>4
  <2>5. t = s
    BY <1>1, <2>2, <2>4, OthersFiles
  <2>6. PICK d \in Decision : WritesOwn(s, d)
    <3>1. ~UNCHANGED shard
      BY <2>4
    <3>2. \A u : ~CopiedFrom(s, u)
      BY <1>1, <2>5 DEF CopiedFrom
    <3>3. pc[s] \in {"reconcile", "pull"} /\ cfg' = cfg => FALSE
      BY <1>1, <2>2, <2>4, <2>5, OthersFiles DEF Mine
    <3> QED BY <2>2, <3>1, <3>2, <3>3 DEF LogStep, Adopts, Pulls
  <2>7. own \in Install
    BY <2>5, <2>6 DEF WritesOwn
  <2>8. /\ Last(NewEvent(shard[t], own, d)) = [lam |-> NextLamport(shard[t]), dec |-> d]
        /\ NewEvent(shard[t], own, d) \in RisingEvent
        /\ AppendOwn(shard[t], own, NextLamport(shard[t]), d)
             = [shard[t] EXCEPT ![own] = Append(shard[t][own], NewEvent(shard[t], own, d))]
    BY <2>3, <2>7, AppendOwnIs
  <2>9. shard'[t][own] = Append(shard[t][own], NewEvent(shard[t], own, d))
    BY <2>3, <2>5, <2>6, <2>7, <2>8 DEF WritesOwn
  <2> HIDE DEF own
  <2>10. LastLamport(shard'[t][own]) = NextLamport(shard[t])
    <3>1. shard[t][own] \in Seq(RisingEvent)
      BY <2>3, <2>7
    <3>2. /\ Append(shard[t][own], NewEvent(shard[t], own, d)) # <<>>
          /\ Last(Append(shard[t][own], NewEvent(shard[t], own, d))) = NewEvent(shard[t], own, d)
      BY <2>8, <3>1, AppendProperties DEF Last
    <3> QED BY <2>8, <2>9, <3>2 DEF LastLamport
  <2>11. LastLamport(shard[t][i]) < NextLamport(shard[t]) /\ NextLamport(shard[t]) \in Nat
         /\ LastLamport(shard[t][i]) \in Nat
    BY <2>3, StampAbove
  <2>12. k \in 1 .. Len(shard[t][i])
    BY <2>3
  <2>13. Last(shard[t][i][k]).lam <= LastLamport(shard[t][i]) /\ Last(shard[t][i][k]).lam \in Nat
    <3>1. shard[t][i][k] \in RisingEvent
      BY <2>3, <2>12
    <3> QED BY <2>3, <2>12, <3>1, LastIsHighest, RisingTyped
  <2> QED BY <2>10, <2>11, <2>13 DEF own
<1>2. TypeInv /\ ShareInv /\ [Next]_vars => [Stamped]_vars
  BY <1>1
<1>3. TypeInv /\ ShareInv /\ [Next]_vars => TypeInv' /\ ShareInv'
  BY TypeStep, ShareStep
<1> QED BY <1>2, <1>3, TypeInit, ShareInit, PTL DEF Spec, CausalStamp

------------------------------------------------------------------------------
(* Decisions: what a store knows, what the remote holds, and UnionLog.      *)

\* The decisions of a list of events.
Decs(f) == {Last(f[k]).dec : k \in DOMAIN f}

\* The decisions of lists that are joined, extended or cut.
LEMMA DecsSteps ==
  ASSUME NEW X
  PROVE  /\ Decs(<<>>) = {}
         /\ \A a \in Seq(X), e \in X : Decs(Append(a, e)) = Decs(a) \cup {Last(e).dec}
         /\ \A a, b \in Seq(X) : Decs(a \o b) = Decs(a) \cup Decs(b)
         /\ \A a \in Seq(X) : a # <<>> => Decs(a) = {Last(Head(a)).dec} \cup Decs(Tail(a))
<1>1. Decs(<<>>) = {}
  BY DEF Decs
<1>2. ASSUME NEW a \in Seq(X), NEW e \in X
      PROVE  Decs(Append(a, e)) = Decs(a) \cup {Last(e).dec}
  <2>1. /\ DOMAIN Append(a, e) = 1 .. Len(a) + 1 /\ DOMAIN a = 1 .. Len(a) /\ Len(a) \in Nat
        /\ Append(a, e)[Len(a) + 1] = e
        /\ \A k \in 1 .. Len(a) : Append(a, e)[k] = a[k]
    OBVIOUS
  <2>2. \A k : k \in 1 .. Len(a) + 1 <=> k \in 1 .. Len(a) \/ k = Len(a) + 1
    BY <2>1
  <2>3. \A d : d \in Decs(Append(a, e)) <=> d \in Decs(a) \/ d = Last(e).dec
    BY <2>1, <2>2, Zenon DEF Decs
  <2> QED BY <2>3
<1>3. ASSUME NEW a \in Seq(X), NEW b \in Seq(X)
      PROVE  Decs(a \o b) = Decs(a) \cup Decs(b)
  <2>1. /\ DOMAIN (a \o b) = 1 .. Len(a) + Len(b)
        /\ DOMAIN a = 1 .. Len(a) /\ DOMAIN b = 1 .. Len(b)
        /\ Len(a) \in Nat /\ Len(b) \in Nat
    OBVIOUS
  <2>2. \A k \in 1 .. Len(a) : k \in 1 .. Len(a) + Len(b) /\ (a \o b)[k] = a[k]
    OBVIOUS
  <2>3. \A k \in 1 .. Len(b) : Len(a) + k \in 1 .. Len(a) + Len(b) /\ (a \o b)[Len(a) + k] = b[k]
    OBVIOUS
  <2>4. \A k \in 1 .. Len(a) + Len(b) :
          k \in 1 .. Len(a) \/ \E j \in 1 .. Len(b) : k = Len(a) + j
    <3>1. SUFFICES ASSUME NEW k \in 1 .. Len(a) + Len(b), k \notin 1 .. Len(a)
                   PROVE  \E j \in 1 .. Len(b) : k = Len(a) + j
      OBVIOUS
    <3>2. k - Len(a) \in 1 .. Len(b) /\ k = Len(a) + (k - Len(a))
      BY <2>1, <3>1
    <3> QED BY <3>2, Zenon
  <2>5. \A d : d \in Decs(a) \/ d \in Decs(b) => d \in Decs(a \o b)
    <3>1. \A k \in DOMAIN a : \E j \in DOMAIN (a \o b) : (a \o b)[j] = a[k]
      BY <2>1, <2>2
    <3>2. \A k \in DOMAIN b : \E j \in DOMAIN (a \o b) : (a \o b)[j] = b[k]
      BY <2>1, <2>3
    <3>3. ASSUME NEW d, d \in Decs(a) PROVE d \in Decs(a \o b)
      <4>1. PICK k \in DOMAIN a : d = Last(a[k]).dec
        BY <3>3, Zenon DEF Decs
      <4>2. PICK j \in DOMAIN (a \o b) : (a \o b)[j] = a[k]
        BY <3>1, <4>1, Zenon
      <4> QED BY <4>1, <4>2, Zenon DEF Decs
    <3>4. ASSUME NEW d, d \in Decs(b) PROVE d \in Decs(a \o b)
      <4>1. PICK k \in DOMAIN b : d = Last(b[k]).dec
        BY <3>4, Zenon DEF Decs
      <4>2. PICK j \in DOMAIN (a \o b) : (a \o b)[j] = b[k]
        BY <3>2, <4>1, Zenon
      <4> QED BY <4>1, <4>2, Zenon DEF Decs
    <3> QED BY <3>3, <3>4, Zenon
  <2>6. ASSUME NEW k \in 1 .. Len(a) + Len(b)
        PROVE  \/ \E j \in DOMAIN a : (a \o b)[k] = a[j]
               \/ \E j \in DOMAIN b : (a \o b)[k] = b[j]
    <3>1. CASE k \in 1 .. Len(a)
      BY <2>1, <2>2, <3>1, Zenon
    <3>2. CASE k \notin 1 .. Len(a)
      <4>1. PICK j \in 1 .. Len(b) : k = Len(a) + j
        BY <2>4, <3>2, Zenon
      <4> QED BY <2>1, <2>3, <4>1, Zenon
    <3> QED BY <3>1, <3>2
  <2>7. \A d : d \in Decs(a \o b) => d \in Decs(a) \/ d \in Decs(b)
    <3>1. SUFFICES ASSUME NEW k \in 1 .. Len(a) + Len(b)
                   PROVE  Last((a \o b)[k]).dec \in Decs(a) \cup Decs(b)
      BY <2>1, Zenon DEF Decs
    <3> QED BY <2>6, Zenon DEF Decs
  <2> QED BY <2>5, <2>7
<1>4. ASSUME NEW a \in Seq(X), a # <<>>
      PROVE  Decs(a) = {Last(Head(a)).dec} \cup Decs(Tail(a))
  <2>1. <<Head(a)>> \in Seq(X) /\ Tail(a) \in Seq(X) /\ a = <<Head(a)>> \o Tail(a)
    BY <1>4
  <2>2. Decs(<<Head(a)>>) = {Last(Head(a)).dec}
    BY DEF Decs
  <2> QED BY <1>3, <2>1, <2>2
<1> QED BY <1>1, <1>2, <1>3, <1>4

\* A list of elements of another has no other decisions.
LEMMA DecsWithin ==
  ASSUME NEW a, NEW b, \A k \in DOMAIN a : \E j \in DOMAIN b : a[k] = b[j]
  PROVE  Decs(a) \subseteq Decs(b)
BY DEF Decs

\* The decisions of a group are those of its segments.
LEMMA DecsEvents ==
  ASSUME NEW E, NEW group \in Seq(SegmentOf(E))
  PROVE  \A d \in Decs(Events(group)) : \E k \in DOMAIN group : d \in Decs(group[k].evs)
<1> DEFINE G == SegmentOf(E)
           Fine(q) == \A d \in Decs(Events(q)) : \E k \in DOMAIN q : d \in Decs(q[k].evs)
           S == {q \in Seq(G) : Fine(q)}
<1>1. <<>> \in S
  <2>1. Decs(Events(<<>>)) = {} /\ <<>> \in Seq(G)
    BY EventsSteps, DecsSteps
  <2> HIDE DEF G
  <2> QED BY <2>1
<1>2. ASSUME NEW q \in Seq(G), NEW g \in G, q \in S PROVE Append(q, g) \in S
  <2>1. Decs(Events(Append(q, g))) = Decs(Events(q)) \cup Decs(g.evs)
    <3>1. Events(Append(q, g)) = Events(q) \o g.evs
      BY EventsSteps
    <3>2. Events(q) \in Seq(E) /\ g.evs \in Seq(E)
      BY EventsTotal DEF SegmentOf
    <3> QED BY <3>1, <3>2, DecsSteps
  <2>2. /\ Append(q, g) \in Seq(G) /\ Len(q) \in Nat
        /\ Append(q, g)[Len(q) + 1] = g /\ DOMAIN q = 1 .. Len(q)
        /\ DOMAIN Append(q, g) = 1 .. Len(q) + 1
        /\ \A k \in 1 .. Len(q) : Append(q, g)[k] = q[k]
    OBVIOUS
  <2> HIDE DEF G
  <2>3. Len(q) + 1 \in 1 .. Len(q) + 1 /\ \A k \in 1 .. Len(q) : k \in 1 .. Len(q) + 1
    BY <2>2
  <2>4. Fine(Append(q, g))
    BY <1>2, <2>1, <2>2, <2>3, Zenon
  <2> QED BY <2>2, <2>4
<1> HIDE DEF S, Fine, G
<1>3. \A q \in Seq(G) : q \in S
  BY <1>1, <1>2, Count!SeqInduction
<1>4. Fine(group)
  BY <1>3 DEF S, G
<1> QED BY <1>4 DEF Fine

\* Known and Shared in terms of Decs.
LEMMA KnownIs ==
  /\ \A s \in Store : Known(s) = (UNION {Decs(shard[s][i]) : i \in Install}) \cup Decs(orphans[s])
  /\ Shared = UNION {Decs(g.evs) : g \in bucket}
BY DEF Known, Decisions, Shared, Decs

\* What a sync listed of an install has no other decisions than the remote.
LEMMA ListedShared ==
  ASSUME TypeInv, NEW s \in Store, NEW i
  PROVE  Decs(Events(Listed(s, i))) \subseteq Shared
<1> DEFINE q == Listed(s, i)
<1>1. q \in Seq(SegmentOf(RisingEvent))
  BY SnapTyped, ListedTyped DEF Listed
<1>2. \A k \in 1 .. Len(q) : q[k] \in bucket
  <2>1. snap[s] \in SUBSET bucket /\ IsFiniteSet(snap[s]) /\ snap[s] \in SUBSET SegmentOf(RisingEvent)
    BY SnapTyped, FS_Subset DEF TypeInv, KeysUnique, LogTyped
  <2>2. \A g, h \in snap[s] : g.inst = h.inst /\ g.seq = h.seq /\ Len(g.evs) = Len(h.evs) => g = h
    BY <2>1 DEF TypeInv, KeysUnique
  <2>3. \A k \in 1 .. Len(q) : q[k] \in snap[s]
    BY <2>1, <2>2, GroupTyped DEF Listed
  <2> QED BY <2>1, <2>3
<1>3. DOMAIN q = 1 .. Len(q)
  BY <1>1
<1> HIDE DEF q
<1>4. \A d \in Decs(Events(q)) : \E k \in DOMAIN q : d \in Decs(q[k].evs)
  BY <1>1, DecsEvents
<1>5. \A d \in Decs(Events(q)) : \E g \in bucket : d \in Decs(g.evs)
  BY <1>2, <1>3, <1>4
<1>6. Decs(Events(q)) \subseteq Shared
  BY <1>5, KnownIs
<1> QED BY <1>6 DEF q

\* A part of a list has no other decisions.
LEMMA DecsPart ==
  ASSUME NEW X, NEW a \in Seq(X), NEW m \in Nat \ {0}, NEW n \in Nat, n <= Len(a)
  PROVE  SubSeq(a, m, n) \in Seq(X) /\ Decs(SubSeq(a, m, n)) \subseteq Decs(a)
<1>1. /\ SubSeq(a, m, n) \in Seq(X) /\ DOMAIN a = 1 .. Len(a) /\ Len(a) \in Nat
      /\ DOMAIN SubSeq(a, m, n) = 1 .. Len(SubSeq(a, m, n))
      /\ Len(SubSeq(a, m, n)) = IF m <= n THEN n - m + 1 ELSE 0
      /\ \A k \in 1 .. n - m + 1 : SubSeq(a, m, n)[k] = a[m + k - 1]
  OBVIOUS
<1>2. ASSUME NEW k \in DOMAIN SubSeq(a, m, n) PROVE \E j \in DOMAIN a : SubSeq(a, m, n)[k] = a[j]
  <2>1. k \in 1 .. n - m + 1 /\ m + k - 1 \in 1 .. Len(a)
    BY <1>1
  <2> QED BY <1>1, <2>1, Zenon
<1> QED BY <1>1, <1>2, DecsWithin

\* The decisions in the shards and the bucket have their type.
LEMMA DecsTyped ==
  ASSUME NEW f \in Seq(RisingEvent)
  PROVE  Decs(f) \subseteq Decision
<1>1. \A k \in DOMAIN f : f[k] \in RisingEvent
  OBVIOUS
<1> QED BY <1>1, RisingTyped DEF Decs

\* What a store knows and what the bucket holds are decisions.
LEMMA KnownTyped ==
  ASSUME TypeInv
  PROVE  Shared \subseteq Decision /\ \A s \in Store : Known(s) \subseteq Decision
<1>1. ASSUME NEW g \in bucket PROVE Decs(g.evs) \subseteq Decision
  BY DecsTyped DEF TypeInv, LogTyped, SegmentOf
<1>2. ASSUME NEW s \in Store, NEW i \in Install PROVE Decs(shard[s][i]) \subseteq Decision
  BY DecsTyped DEF TypeInv, LogTyped
<1>3. ASSUME NEW s \in Store PROVE Decs(orphans[s]) \subseteq Decision
  BY DecsTyped DEF TypeInv, LogTyped
<1> QED BY <1>1, <1>2, <1>3, KnownIs

\* What a store knows after a step, and what the bucket then holds.
LEMMA KnownNext ==
  /\ \A s \in Store :
       Known(s)' = (UNION {Decs(shard'[s][i]) : i \in Install}) \cup Decs(orphans'[s])
  /\ Shared' = UNION {Decs(g.evs) : g \in bucket'}
BY DEF Known, Decisions, Shared, Decs

\* A store of which no file changes knows what it knew.
LEMMA KnownSame ==
  ASSUME NEW s \in Store, shard'[s] = shard[s], orphans'[s] = orphans[s]
  PROVE  Known(s)' = Known(s)
<1>1. Known(s)' = (UNION {Decs(shard'[s][i]) : i \in Install}) \cup Decs(orphans'[s])
  BY KnownNext
<1>2. Known(s) = (UNION {Decs(shard[s][i]) : i \in Install}) \cup Decs(orphans[s])
  BY KnownIs
<1> QED BY <1>1, <1>2, Zenon

\* When one file of a store changes and some decisions come with it.
LEMMA KnownByFile ==
  ASSUME TypeInv, NEW s \in Store, NEW i \in Install, NEW file, NEW ds,
         shard' = [shard EXCEPT ![s][i] = file],
         Decs(file) \cup Decs(orphans'[s]) = Decs(shard[s][i]) \cup Decs(orphans[s]) \cup ds
  PROVE  Known(s)' = Known(s) \cup ds /\ \A t \in Store \ {s} : shard'[t] = shard[t]
<1>1. shard \in [Store -> [Install -> Seq(RisingEvent)]]
  BY DEF TypeInv, LogTyped
<1>2. /\ shard'[s][i] = file
      /\ \A j \in Install \ {i} : shard'[s][j] = shard[s][j]
      /\ \A t \in Store \ {s} : shard'[t] = shard[t]
  BY <1>1
<1>3. ASSUME NEW d, d \in Known(s)' PROVE d \in Known(s) \cup ds
  BY <1>2, <1>3, KnownIs, KnownNext
<1>4. ASSUME NEW d, d \in Known(s) \cup ds PROVE d \in Known(s)'
  BY <1>2, <1>4, KnownIs, KnownNext
<1> QED BY <1>2, <1>3, <1>4

\* What the stores know, as UnionLog sees it.
AllKnown == [s \in Store |-> Known(s)]

\* The abstract state after a step in which one store gets to know some more decisions.
LEMMA AllKnownStep ==
  ASSUME NEW s \in Store, NEW ds, Known(s)' = Known(s) \cup ds,
         \A t \in Store \ {s} : shard'[t] = shard[t] /\ orphans'[t] = orphans[t]
  PROVE  AllKnown' = [AllKnown EXCEPT ![s] = @ \cup ds]
<1>1. \A t \in Store \ {s} : Known(t)' = Known(t)
  BY KnownSame
<1>2. AllKnown' = [t \in Store |-> Known(t)']
  BY DEF AllKnown
<1>3. AllKnown[s] = Known(s) /\ \A t \in Store : AllKnown[t] = Known(t)
  BY DEF AllKnown
<1>4. DOMAIN AllKnown = Store /\ AllKnown = [t \in Store |-> AllKnown[t]]
  BY DEF AllKnown
<1>5. [AllKnown EXCEPT ![s] = @ \cup ds]
        = [t \in Store |-> IF t = s THEN AllKnown[s] \cup ds ELSE AllKnown[t]]
  BY <1>4
<1>6. \A t \in Store : Known(t)' = IF t = s THEN AllKnown[s] \cup ds ELSE AllKnown[t]
  BY <1>1, <1>3
<1> QED BY <1>2, <1>5, <1>6

\* A step of nobody's knowledge is none of UnionLog.
LEMMA KnownUnchanged ==
  ASSUME UNCHANGED <<shard, orphans>> PROVE AllKnown' = AllKnown
<1>1. \A t \in Store : Known(t)' = Known(t)
  BY KnownSame
<1> QED BY <1>1 DEF AllKnown

\* A store that only gets what the remote holds learns it.
LEMMA Learns ==
  ASSUME TypeInv, NEW s \in Store, NEW ds \in SUBSET Shared, Known(s)' = Known(s) \cup ds,
         \A t \in Store \ {s} : shard'[t] = shard[t] /\ orphans'[t] = orphans[t],
         UNCHANGED <<bucket, recorded>>
  PROVE  Abstract!Learn(s, ds) /\ ds \in SUBSET Decision
<1>1. AllKnown' = [AllKnown EXCEPT ![s] = @ \cup ds]
  BY AllKnownStep
<1>2. Shared' = Shared
  BY DEF Shared
<1> QED BY <1>1, <1>2, KnownTyped DEF Abstract!Learn, AllKnown

\* Recording a decision adds it to what the store knows.
LEMMA RecordsOne ==
  ASSUME TypeInv, NEW s \in Store, NEW d \in Decision, Record(s, d)
  PROVE  Abstract!Record(s, d)
<1> DEFINE own == cfg'[s].own
           file == Append(shard[s][own], NewEvent(shard[s], own, d))
<1>1. own \in Install
  BY LockSound DEF Record, TypeInv, Config
<1>2. shard[s] \in [Install -> Seq(RisingEvent)] /\ shard[s][own] \in Seq(RisingEvent)
  BY <1>1, SnapTyped
<1>3. shard' = [shard EXCEPT ![s] = [shard[s] EXCEPT ![own] = file]]
  BY <1>1, <1>2, AppendOwnIs DEF Record
<1>4. Decs(file) = Decs(shard[s][own]) \cup {d}
  BY <1>1, <1>2, AppendOwnIs, DecsSteps
<1> HIDE DEF file, own
<1>5. shard' = [shard EXCEPT ![s][own] = file]
  BY <1>3
<1>6. orphans' = orphans /\ bucket' = bucket
  BY DEF Record, progress
<1>7. Known(s)' = Known(s) \cup {d} /\ \A t \in Store \ {s} : shard'[t] = shard[t]
  BY <1>1, <1>4, <1>5, <1>6, KnownByFile
<1>8. AllKnown' = [AllKnown EXCEPT ![s] = @ \cup {d}]
  BY <1>6, <1>7, AllKnownStep
<1>9. Shared' = Shared /\ d \notin recorded /\ recorded' = recorded \cup {d}
  BY <1>6 DEF Shared, Record
<1> QED BY <1>8, <1>9 DEF Abstract!Record, AllKnown

\* Re-emission moves a decision from the orphans to the own shard.
LEMMA ReEmitsSame ==
  ASSUME TypeInv, NEW s \in Store, ReEmit(s)
  PROVE  AllKnown' = AllKnown
<1> DEFINE own == Mine(s)
           d == Last(Head(orphans[s])).dec
           file == Append(shard[s][own], NewEvent(shard[s], own, d))
<1>0. pc[s] = "reemit" /\ orphans' = [orphans EXCEPT ![s] = Tail(orphans[s])]
  BY DEF ReEmit
<1>1. own \in Install /\ orphans[s] \in Seq(RisingEvent) /\ orphans[s] # <<>>
  BY <1>0, SnapTyped DEF TypeInv, LogTyped
<1>2. shard[s] \in [Install -> Seq(RisingEvent)] /\ shard[s][own] \in Seq(RisingEvent)
  BY <1>1, SnapTyped
<1>3. d \in Decision
  <2>1. Head(orphans[s]) \in RisingEvent
    BY <1>1
  <2> QED BY <2>1, RisingTyped
<1>4. shard' = [shard EXCEPT ![s] = AppendOwn(shard[s], own, NextLamport(shard[s]), d)]
  BY DEF ReEmit
<1> HIDE DEF own, d
<1>5. shard' = [shard EXCEPT ![s] = [shard[s] EXCEPT ![own] = file]]
  BY <1>1, <1>2, <1>3, <1>4, AppendOwnIs
<1>6. Decs(file) = Decs(shard[s][own]) \cup {d}
  <2>1. NewEvent(shard[s], own, d) \in RisingEvent /\ Last(NewEvent(shard[s], own, d)).dec = d
    BY <1>1, <1>2, <1>3, AppendOwnIs
  <2> QED BY <1>2, <2>1, DecsSteps
<1> HIDE DEF file
<1>7. shard' = [shard EXCEPT ![s][own] = file]
  BY <1>5
<1>8. Decs(orphans[s]) = {d} \cup Decs(Tail(orphans[s]))
  BY <1>1, DecsSteps DEF d
<1>9. /\ orphans'[s] = Tail(orphans[s])
      /\ \A t \in Store \ {s} : orphans'[t] = orphans[t]
  BY <1>0 DEF TypeInv, LogTyped
<1>10. Decs(file) \cup Decs(orphans'[s]) = Decs(shard[s][own]) \cup Decs(orphans[s]) \cup {}
  BY <1>6, <1>8, <1>9
<1>11. Known(s)' = Known(s) \cup {} /\ \A t \in Store \ {s} : shard'[t] = shard[t]
  BY <1>1, <1>7, <1>10, KnownByFile
<1>12. AllKnown' = [AllKnown EXCEPT ![s] = @ \cup {}]
  BY <1>9, <1>11, AllKnownStep
<1> QED BY <1>12 DEF AllKnown

\* Adopting the remote's version of a retired shard teaches the store what is in it; what
\* is not in it stays in memory as orphans.
LEMMA AdoptLearns ==
  ASSUME TypeInv, NEW s \in Store, Adopt(s)
  PROVE  \E ds \in SUBSET Decision : Abstract!Learn(s, ds)
<1> DEFINE i == Head(retiring[s])
           local == shard[s][i]
           canon == Canon(s)
           n == Agreement(local, canon)
           rest == SubSeq(local, n + 1, Len(local))
<1>0. /\ pc[s] = "reconcile" /\ retiring[s] # <<>>
      /\ shard' = [shard EXCEPT ![s][i] = canon]
      /\ orphans' = [orphans EXCEPT ![s] = rest]
      /\ UNCHANGED <<bucket, recorded>>
  BY DEF Adopt, Orphans
<1>1. i \in Install
  BY <1>0, SnapTyped
<1>2. local \in Seq(RisingEvent) /\ Len(local) \in Nat
  <2>1. local \in Seq(RisingEvent)
    BY <1>1, SnapTyped
  <2> HIDE DEF local
  <2> QED BY <2>1
<1>3. canon \in Seq(RisingEvent) /\ canon = Events(Listed(s, i))
  BY SnapTyped, ListedTyped DEF Canon, Listed
<1>4. orphans[s] = <<>>
  BY <1>0 DEF TypeInv, LogTyped
<1>5. Decs(canon) \in SUBSET Shared
  BY <1>3, ListedShared
<1> HIDE DEF canon, local, i
<1>6. n \in Nat /\ n <= Len(local) /\ n <= Len(canon) /\ \A j \in 1 .. n : local[j] = canon[j]
  BY <1>2, <1>3, AgreementIs
<1> HIDE DEF n
<1>7. /\ Decs(rest) \subseteq Decs(local) /\ rest \in Seq(RisingEvent)
      /\ \A k \in n + 1 .. Len(local) : \E j \in DOMAIN rest : rest[j] = local[k]
  <2>1. Decs(rest) \subseteq Decs(local)
    <3>1. n + 1 \in Nat \ {0}
      BY <1>6
    <3> QED BY <1>2, <3>1, DecsPart
  <2>2. /\ rest \in Seq(RisingEvent) /\ DOMAIN rest = 1 .. Len(local) - n
        /\ \A j \in 1 .. Len(local) - n : rest[j] = local[n + j]
    BY <1>2, <1>6
  <2> HIDE DEF rest
  <2>3. ASSUME NEW k \in n + 1 .. Len(local) PROVE \E j \in DOMAIN rest : rest[j] = local[k]
    <3>1. k - n \in 1 .. Len(local) - n /\ n + (k - n) = k
      BY <1>2, <1>6
    <3>2. k - n \in DOMAIN rest /\ rest[k - n] = local[k]
      BY <2>2, <3>1
    <3> QED BY <3>2
  <2> QED BY <2>1, <2>2, <2>3
<1> HIDE DEF rest
<1>8. Decs(local) \subseteq Decs(canon) \cup Decs(rest)
  <2>1. DOMAIN local = 1 .. Len(local) /\ DOMAIN canon = 1 .. Len(canon) /\ Len(canon) \in Nat
    BY <1>2, <1>3
  <2>2. ASSUME NEW k \in DOMAIN local PROVE Last(local[k]).dec \in Decs(canon) \cup Decs(rest)
    <3>1. CASE k <= n
      <4>1. k \in DOMAIN canon /\ local[k] = canon[k]
        BY <1>6, <2>1, <3>1
      <4> QED BY <4>1 DEF Decs
    <3>2. CASE ~(k <= n)
      <4>1. k \in n + 1 .. Len(local)
        BY <1>2, <1>6, <2>1, <3>2
      <4> QED BY <1>7, <4>1 DEF Decs
    <3> QED BY <3>1, <3>2
  <2> QED BY <2>2 DEF Decs
<1>9. /\ orphans'[s] = rest
      /\ \A t \in Store \ {s} : orphans'[t] = orphans[t]
  BY <1>0 DEF TypeInv, LogTyped
<1>10. Decs(canon) \cup Decs(orphans'[s]) = Decs(shard[s][i]) \cup Decs(orphans[s]) \cup Decs(canon)
  BY <1>4, <1>7, <1>8, <1>9, DecsSteps DEF local
<1>11. Known(s)' = Known(s) \cup Decs(canon) /\ \A t \in Store \ {s} : shard'[t] = shard[t]
  BY <1>0, <1>1, <1>10, KnownByFile
<1>12. Abstract!Learn(s, Decs(canon)) /\ Decs(canon) \in SUBSET Decision
  BY <1>0, <1>5, <1>9, <1>11, Learns
<1> QED BY <1>12

\* What a pull appends, whole or in part, the store learns.
LEMMA PullLearns ==
  ASSUME TypeInv, NEW s \in Store, pc[s] = "pull", LogStep(s), UNCHANGED <<bucket, recorded, orphans>>
  PROVE  AllKnown' = AllKnown \/ \E ds \in SUBSET Decision : Abstract!Learn(s, ds)
<1>1. CASE UNCHANGED shard
  BY <1>1, KnownUnchanged
<1>2. ASSUME NEW i \in pulling[s], NEW m \in Nat, Pulls(s, i, m)
      PROVE  \E ds \in SUBSET Decision : Abstract!Learn(s, ds)
  <2> DEFINE evs == Events(Listed(s, i))
             part == SubSeq(evs, Len(shard[s][i]) + 1, m)
             file == shard[s][i] \o part
  <2>1. i \in Install /\ shard[s][i] \in Seq(RisingEvent) /\ Len(shard[s][i]) + 1 \in Nat \ {0}
    <3>1. i \in Install /\ shard[s][i] \in Seq(RisingEvent)
      BY SnapTyped
    <3> QED BY <3>1
  <2>2. evs \in Seq(RisingEvent) /\ m <= Len(evs)
    <3>1. evs \in Seq(RisingEvent) /\ Len(evs) = Total(Listed(s, i)) /\ Total(Listed(s, i)) \in Nat
      BY SnapTyped, ListedTyped DEF Listed
    <3>2. m \in 0 .. Total(Listed(s, i))
      BY <1>2 DEF Pulls
    <3> HIDE DEF evs
    <3> QED BY <3>1, <3>2
  <2>3. Decs(evs) \subseteq Shared
    BY ListedShared
  <2> HIDE DEF evs
  <2>4. part \in Seq(RisingEvent) /\ Decs(part) \subseteq Shared
    BY <2>1, <2>2, <2>3, DecsPart
  <2>5. shard' = [shard EXCEPT ![s][i] = file]
    BY <1>2 DEF Pulls, Part, evs
  <2> HIDE DEF part
  <2>6. Decs(file) = Decs(shard[s][i]) \cup Decs(part)
    BY <2>1, <2>4, DecsSteps
  <2> HIDE DEF file
  <2>7. Known(s)' = Known(s) \cup Decs(part) /\ \A t \in Store \ {s} : shard'[t] = shard[t]
    <3>1. Decs(file) \cup Decs(orphans'[s])
            = Decs(shard[s][i]) \cup Decs(orphans[s]) \cup Decs(part)
      BY <2>6
    <3> QED BY <2>1, <2>5, <3>1, KnownByFile
  <2>8. Abstract!Learn(s, Decs(part)) /\ Decs(part) \in SUBSET Decision
    BY <2>4, <2>7, Learns
  <2> QED BY <2>8
<1>3. Exists(s)
  BY DEF TypeInv, IdentityInv, IdentityOK, ProgressOK
<1> QED BY <1>1, <1>2, <1>3 DEF LogStep, WritesOwn, CopiedFrom, Adopts

\* An upload publishes some of what the store knows.
LEMMA UploadPublishes ==
  ASSUME TypeInv, NEW s \in Store, Uploads(s), UNCHANGED <<orphans, recorded>>
  PROVE  \E ds \in SUBSET Decision : Abstract!Publish(s, ds)
<1> DEFINE local == shard[s][Mine(s)]
           part == SubSeq(local, Total(Listed(s, Mine(s))) + 1, Len(local))
<1>1. /\ Mine(s) \in Install /\ NextSegment(s).evs = part
      /\ Total(Listed(s, Mine(s))) + 1 \in Nat \ {0}
  <2>1. Mine(s) \in Install /\ NextSegment(s).evs = part /\ Total(Listed(s, Mine(s))) \in Nat
    BY UploadIs DEF Uploads
  <2> QED BY <2>1
<1>2. local \in Seq(RisingEvent)
  BY <1>1, SnapTyped
<1>3. Decs(part) \subseteq Decs(local)
  <2> HIDE DEF local
  <2>1. Len(local) \in Nat /\ Len(local) <= Len(local)
    BY <1>2
  <2> QED BY <1>1, <1>2, <2>1, DecsPart
<1> HIDE DEF part
<1>4. Decs(part) \subseteq Known(s)
  BY <1>1, <1>3, KnownIs
<1>5. Shared' = Shared \cup Decs(part)
  <2>1. bucket' = bucket \cup {NextSegment(s)}
    BY DEF Uploads
  <2>2. ASSUME NEW d, d \in Shared' PROVE d \in Shared \cup Decs(part)
    BY <1>1, <2>1, <2>2, KnownIs, KnownNext
  <2>3. ASSUME NEW d, d \in Shared \cup Decs(part) PROVE d \in Shared'
    BY <1>1, <2>1, <2>3, KnownIs, KnownNext
  <2> QED BY <2>2, <2>3
<1>6. AllKnown' = AllKnown
  BY KnownUnchanged DEF Uploads
<1>7. Abstract!Publish(s, Decs(part)) /\ Decs(part) \in SUBSET Decision
  BY <1>4, <1>5, <1>6, KnownTyped DEF Abstract!Publish, AllKnown
<1> QED BY <1>7

\* A directory without a store has no log.
NoStoreNoLog == \A s \in Store : \A i \in Install : ~Exists(s) => shard[s][i] = <<>>

\* A copy knows what the original knows, and nothing was known in its place.
LEMMA CopyKnows ==
  ASSUME TypeInv, NoStoreNoLog, NEW s \in Store, NEW t \in Store, NEW m \in Machine, Copy(s, t, m)
  PROVE  Abstract!CopyStore(s, t)
<1>1. /\ Exists(s) /\ ~Exists(t) /\ pc[s] = "idle" /\ pc[t] = "idle"
      /\ shard' = [shard EXCEPT ![t] = shard[s]]
      /\ UNCHANGED <<bucket, recorded, orphans>>
  BY DEF Copy, progress, TypeInv, IdentityInv, IdentityTypeOK, IdentityOK, ProgressOK, Phase
<1>2. orphans[s] = <<>> /\ orphans[t] = <<>>
  BY <1>1 DEF TypeInv, LogTyped
<1>3. Known(t) = {}
  BY <1>1, <1>2, KnownIs, DecsSteps DEF NoStoreNoLog
<1>4. shard'[t] = shard[s] /\ \A u \in Store \ {t} : shard'[u] = shard[u]
  BY <1>1 DEF TypeInv, LogTyped
<1>5. Known(t)' = Known(s)
  <2>1. Known(t)' = (UNION {Decs(shard'[t][i]) : i \in Install}) \cup Decs(orphans'[t])
    BY KnownNext
  <2>2. Known(s) = (UNION {Decs(shard[s][i]) : i \in Install}) \cup Decs(orphans[s])
    BY KnownIs
  <2> QED BY <1>1, <1>2, <1>4, <2>1, <2>2, Zenon
<1>6. \A u \in Store \ {t} : Known(u)' = Known(u)
  BY <1>1, <1>4, KnownSame
<1>7. AllKnown' = [AllKnown EXCEPT ![t] = AllKnown[s]]
  BY <1>5, <1>6 DEF AllKnown
<1>8. Shared' = Shared
  BY <1>1 DEF Shared
<1> QED BY <1>1, <1>3, <1>7, <1>8 DEF Abstract!CopyStore, AllKnown

\* Every step keeps that: only a store gets a log, and a store stays one.
LEMMA NoStoreNoLogKept ==
  ASSUME TypeInv, NoStoreNoLog, Next PROVE NoStoreNoLog'
<1>1. PICK s \in Store : Step(s) \/ \E t \in Store, m \in Machine : Copy(t, s, m)
  BY NextIs
<1>2. LogStep(s) /\ \A t \in Store : Exists(t) => Exists(t)'
  BY <1>1, LogStepIs, IdsKept
<1>3. \A t \in Store, i \in Install : ~Exists(t) => shard[t][i] = <<>>
  BY DEF NoStoreNoLog
<1>4. CASE UNCHANGED shard
  BY <1>2, <1>3, <1>4 DEF NoStoreNoLog
<1>5. CASE Exists(s)' /\ \A t \in Store \ {s} : shard'[t] = shard[t]
  BY <1>2, <1>3, <1>5 DEF NoStoreNoLog
<1>6. CASE (\E d \in Decision : WritesOwn(s, d)) \/ Adopts(s) \/ \E i \in pulling[s] : \E m \in Nat : Pulls(s, i, m)
  <2>1. Exists(s)
    BY <1>6 DEF WritesOwn, Adopts, Pulls, TypeInv, IdentityInv, IdentityOK, ProgressOK
  <2>2. \A t \in Store \ {s} : shard'[t] = shard[t]
    BY <1>6 DEF WritesOwn, Adopts, Pulls, TypeInv, LogTyped
  <2> QED BY <1>2, <1>5, <2>1, <2>2
<1>7. CASE \E t \in Store : CopiedFrom(s, t)
  BY <1>5, <1>7 DEF CopiedFrom, Exists, TypeInv, IdentityInv, IdentityTypeOK, LogTyped
<1> QED BY <1>2, <1>4, <1>6, <1>7 DEF LogStep

\* Ending a sync forgets no decision, unless it is about to re-emit some.
LEMMA LeaveKeepsLog ==
  ASSUME TypeInv, NEW s \in Store, Leave(s), pc[s] # "reemit"
  PROVE  orphans' = orphans
<1>1. orphans \in [Store -> Seq(RisingEvent)] /\ orphans[s] = <<>>
  BY DEF TypeInv, LogTyped
<1>2. orphans' = [orphans EXCEPT ![s] = <<>>]
  BY DEF Leave
<1>3. orphans' = orphans
  BY <1>1, <1>2
<1> QED
  BY <1>3

\* Every step is one of UnionLog or one it does not see, if no process dies while the
\* orphans of a retired shard are only in memory.
LEMMA StepIsUnion ==
  ASSUME "reemit" \notin CrashIn, TypeInv, NoStoreNoLog, Next
  PROVE  Abstract!Next \/ UNCHANGED <<AllKnown, Shared, recorded>>
<1>1. PICK s \in Store : SyncStep(s) \/ FaultStep(s) \/ UserStep(s)
  BY DEF Next
<1>2. ASSUME UNCHANGED <<shard, orphans, bucket, recorded>>
      PROVE  UNCHANGED <<AllKnown, Shared, recorded>>
  BY <1>2, KnownUnchanged DEF Shared
<1>3. CASE SyncFork(s) \/ SyncBegin(s) \/ SyncUnreachable(s) \/ NothingToReconcile(s)
           \/ ReconcileFails(s) \/ NothingToPush(s) \/ Rotate(s)
           \/ \E m \in Machine : Create(s, m) \/ Move(s, m)
  BY <1>2, <1>3
     DEF SyncFork, SyncBegin, SyncUnreachable, NothingToReconcile, ReconcileFails, NothingToPush,
         StartPull, Rotate, Create, Move, progress
<1>4. CASE Finish(s) \/ PushRefused(s) \/ Crash(s)
  <2>1. Leave(s) /\ pc[s] # "reemit" /\ UNCHANGED <<shard, bucket, recorded>>
    BY <1>4 DEF Finish, PushRefused, ReadyToPush, Crash
  <2>2. orphans' = orphans
    BY <2>1, LeaveKeepsLog, Zenon
  <2> QED BY <1>2, <2>1, <2>2
<1>5. CASE \E d \in Decision : Record(s, d)
  BY <1>5, RecordsOne DEF Abstract!Next
<1>6. CASE ReEmit(s)
  BY <1>6, ReEmitsSame DEF ReEmit, Shared
<1>7. CASE Adopt(s)
  BY <1>7, AdoptLearns DEF Abstract!Next
<1>8. ASSUME pc[s] = "pull", LogStep(s), UNCHANGED <<bucket, recorded, orphans>>
      PROVE  Abstract!Next \/ UNCHANGED <<AllKnown, Shared, recorded>>
  BY <1>8, PullLearns DEF Abstract!Next, Shared
<1>9. CASE \E i \in pulling[s] : \E n \in 0 .. Len(PullPlan(s, i)) : Pull(s, i, n)
  <2>1. pc[s] = "pull" /\ UNCHANGED <<bucket, recorded, orphans>> /\ LogStep(s)
    BY <1>9, PullStep DEF Pull
  <2> QED BY <1>8, <2>1
<1>10. CASE \E i \in pulling[s] : CrashInAppend(s, i)
  <2>1. pc[s] = "pull" /\ UNCHANGED <<bucket, recorded>> /\ Leave(s) /\ LogStep(s)
    BY <1>10, CrashInAppendStep DEF CrashInAppend
  <2>2. orphans' = orphans
    BY <2>1, LeaveKeepsLog, Zenon
  <2> QED BY <1>8, <2>1, <2>2
<1>11. CASE Push(s)
  <2>1. Uploads(s) /\ UNCHANGED <<orphans, recorded>>
    BY <1>11 DEF Push, Uploads, StartPull, identity
  <2> QED BY <2>1, UploadPublishes DEF Abstract!Next
<1>12. CASE \E how \in PutFault : PushFails(s, how)
  <2>1. Leave(s) /\ pc[s] # "reemit" /\ UNCHANGED <<shard, recorded>>
        /\ (bucket' = bucket \/ Uploads(s))
    BY <1>12 DEF PushFails, Uploads, ReadyToPush, identity
  <2>2. orphans' = orphans
    BY <2>1, LeaveKeepsLog, Zenon
  <2> QED BY <1>2, <2>1, <2>2, UploadPublishes DEF Abstract!Next
<1>13. CASE \E t \in Store, m \in Machine : Copy(s, t, m)
  BY <1>13, CopyKnows DEF Abstract!Next
<1>14. ASSUME NEW i \in pulling[s], Pull(s, i, Len(PullPlan(s, i)))
       PROVE  \E n \in 0 .. Len(PullPlan(s, i)) : Pull(s, i, n)
  BY <1>14 DEF Pull
<1>15. ASSUME NEW i \in pulling[s], NEW n \in 0 .. Len(PullPlan(s, i)) - 1, Pull(s, i, n)
       PROVE  \E k \in 0 .. Len(PullPlan(s, i)) : Pull(s, i, k)
  BY <1>15 DEF Pull
<1> QED
  BY <1>1, <1>3, <1>4, <1>5, <1>6, <1>7, <1>9, <1>10, <1>11, <1>12, <1>13, <1>14, <1>15
     DEF SyncStep, FaultStep, UserStep

\* Segment sync implements UnionLog: every store and the remote only ever gain decisions,
\* which somebody recorded, whatever is copied, moved, rotated, refused, lost or cut off,
\* and whether or not twins fork a shard. The one condition is the window that
\* NothingLost is about: no process dies between RewriteShard and ReEmit.
THEOREM SyncImplementsUnionLog == "reemit" \notin CrashIn => (Spec => ImplementsUnionLog)
<1> SUFFICES ASSUME "reemit" \notin CrashIn PROVE Spec => ImplementsUnionLog
  OBVIOUS
<1>1. Init => Abstract!Init /\ NoStoreNoLog
  <2> SUFFICES ASSUME Init PROVE Abstract!Init /\ NoStoreNoLog
    OBVIOUS
  <2>1. ASSUME NEW s \in Store PROVE Known(s) = {}
    <3>1. (\A i \in Install : shard[s][i] = <<>>) /\ orphans[s] = <<>>
      BY DEF Init
    <3> QED BY <3>1, KnownIs, DecsSteps
  <2>2. Shared = {}
    BY DEF Init, Shared
  <2> QED BY <2>1, <2>2 DEF Init, Abstract!Init, NoStoreNoLog
<1>2. TypeInv /\ NoStoreNoLog /\ [Next]_vars => NoStoreNoLog' /\ [Abstract!Next]_(Abstract!vars)
  <2> SUFFICES ASSUME TypeInv, NoStoreNoLog, [Next]_vars
               PROVE  NoStoreNoLog' /\ [Abstract!Next]_(Abstract!vars)
    OBVIOUS
  <2>1. CASE Next
    BY <2>1, NoStoreNoLogKept, StepIsUnion DEF Abstract!vars, AllKnown
  <2>2. CASE UNCHANGED vars
    <3>1. AllKnown' = AllKnown /\ Shared' = Shared /\ recorded' = recorded
      BY <2>2, KnownUnchanged DEF vars, Shared
    <3>2. NoStoreNoLog'
      BY <2>2 DEF vars, NoStoreNoLog, Exists
    <3> QED BY <3>1, <3>2 DEF Abstract!vars, AllKnown
  <2> QED BY <2>1, <2>2
<1> QED
  BY <1>1, <1>2, TypeInit, TypeStep, PTL DEF Spec, ImplementsUnionLog, Abstract!Spec

\* Nothing is lost (NothingLost): no step of any store, no fault and no copy takes a
\* decision from a store that has seen it, under the same condition. Without it the run
\* sync_crash_reemit shows the loss.
THEOREM NothingIsLost == "reemit" \notin CrashIn => (Spec => NothingLost)
<1> SUFFICES ASSUME "reemit" \notin CrashIn PROVE Spec => NothingLost
  OBVIOUS
<1>1. Init => NoStoreNoLog
  BY DEF Init, NoStoreNoLog
<1>2. TypeInv /\ NoStoreNoLog /\ [Next]_vars
        => NoStoreNoLog' /\ [\A s \in Store : Known(s) \subseteq Known(s)']_vars
  <2> SUFFICES ASSUME TypeInv, NoStoreNoLog, [Next]_vars
               PROVE  NoStoreNoLog' /\ [\A s \in Store : Known(s) \subseteq Known(s)']_vars
    OBVIOUS
  <2>1. CASE Next
    <3>1. \A s \in Store : AllKnown[s] \subseteq AllKnown'[s]
      <4>1. CASE Abstract!Next
        <5>1. \A s \in Store : AllKnown[s] \subseteq [t \in Store |-> Known(t)]'[s]
          BY <4>1 DEF Abstract!Next, Abstract!Record, Abstract!Publish, Abstract!Learn, Abstract!Exchange,
                      Abstract!CopyStore, AllKnown
        <5> QED BY <5>1 DEF AllKnown
      <4>2. CASE AllKnown' = AllKnown
        BY <4>2
      <4> QED BY <2>1, <4>1, <4>2, StepIsUnion
    <3>2. \A s \in Store : AllKnown[s] = Known(s) /\ AllKnown'[s] = Known(s)'
      BY DEF AllKnown
    <3> QED BY <2>1, <3>1, <3>2, NoStoreNoLogKept
  <2>2. CASE UNCHANGED vars
    BY <2>2 DEF vars, NoStoreNoLog, Exists
  <2> QED BY <2>1, <2>2
<1> QED BY <1>1, <1>2, TypeInit, TypeStep, PTL DEF Spec, NothingLost

------------------------------------------------------------------------------
(* Forks: who shares an id with nobody sees none.                          *)

\* An upload appends to what was listed, when nobody else uploads and the local shard
\* continues the listing.
LEMMA UploadAppends ==
  ASSUME TypeInv, NEW s \in Store, Uploads(s),
         Group(Mine(s)) = Listed(s, Mine(s)), Numbered(Group(Mine(s)), bucket, Mine(s)),
         IsPrefix(Events(Listed(s, Mine(s))), shard[s][Mine(s)])
  PROVE  LET i == Mine(s)
             P == Listed(s, i)
             g == NextSegment(s)
         IN  /\ i \in Install /\ P \in Seq(SegmentOf(RisingEvent))
             /\ g \in SegmentOf(RisingEvent) /\ g.inst = i
             /\ Len(g.evs) = Len(shard[s][i]) - Total(P)
             /\ Total(P) < Len(shard[s][i])
             /\ Numbered(Append(P, g), bucket', i)
             /\ GroupSegments(bucket', i) = Append(P, g)
             /\ Events(Append(P, g)) = shard[s][i]
<1> DEFINE i == Mine(s)
           P == Listed(s, i)
           g == NextSegment(s)
           local == shard[s][i]
           T == Total(P)
<1>1. bucket' = bucket \cup {g} /\ ReadyToPush(s) /\ PushPlan(s).needed
  BY DEF Uploads
<1>2. /\ i \in Install
      /\ T \in Nat /\ LastSeq(P) \in Nat /\ T < Len(local)
      /\ g = [inst |-> i, seq |-> LastSeq(P) + 1, evs |-> SubSeq(local, T + 1, Len(local))]
      /\ Len(SubSeq(local, T + 1, Len(local))) = Len(local) - T
      /\ g \in SegmentOf(RisingEvent)
  BY <1>1, UploadIs
<1>3. local \in Seq(RisingEvent) /\ Len(local) \in Nat
  <2>1. local \in Seq(RisingEvent)
    BY <1>2, SnapTyped
  <2> QED BY <2>1
<1>4. /\ P \in Seq(SegmentOf(RisingEvent)) /\ Events(P) \in Seq(RisingEvent)
      /\ Len(Events(P)) = T
  BY SnapTyped, ListedTyped DEF Listed
<1>5. Numbered(P, bucket, i) /\ IsPrefix(Events(P), local)
  OBVIOUS
<1> HIDE DEF i, P, g, local, T
<1>6. g.inst = i /\ g.seq = Len(P) + 1 /\ Len(g.evs) = Len(local) - T
      /\ g.evs = SubSeq(local, T + 1, Len(local))
  <2>1. LastSeq(P) = Len(P)
    BY <1>4, <1>5, LastSeqNumbered DEF Numbered
  <2> QED BY <1>2, <2>1
<1>9. Numbered(Append(P, g), bucket', i) /\ Append(P, g) \in Seq(SegmentOf(RisingEvent))
  <2>1. Numbered(Append(P, g), bucket \cup {g}, i)
    BY <1>2, <1>4, <1>5, <1>6, NumberedAppend
  <2>2. Append(P, g) \in Seq(SegmentOf(RisingEvent))
    BY <1>2, <1>4
  <2> QED BY <1>1, <2>1, <2>2
<1>10. GroupSegments(bucket', i) = Append(P, g)
  BY <1>9, GroupIs
<1>11. Events(Append(P, g)) = local
  <2>1. Events(Append(P, g)) = Events(P) \o g.evs
    BY <1>2, <1>4, EventsSteps
  <2>2. Events(P) \o SubSeq(local, T + 1, Len(local)) = local
    BY <1>3, <1>4, <1>5, SplitAt
  <2> QED BY <1>6, <2>1, <2>2
<1> QED
  BY <1>2, <1>4, <1>6, <1>9, <1>10, <1>11 DEF i, P, g, local, T

\* No other store has ever written under the id of this one.
Sole(s) == \A t \in Store \ {s} : Exists(t) => Mine(s) \notin Ids(cfg[t])

\* Every segment lives under an id that exists, and of the shard of a store that shares
\* its id with nobody the bucket holds a part it uploaded itself, which a sync about to
\* upload has listed.
SoleOK ==
  /\ \A g \in bucket : g.inst <= minted
  /\ \A s \in Store : Exists(s) /\ Sole(s) =>
       /\ Numbered(Group(Mine(s)), bucket, Mine(s))
       /\ IsPrefix(Remote(Mine(s)), shard[s][Mine(s)])
       /\ pc[s] \in {"reconcile", "reemit"} => Group(Mine(s)) = Listed(s, Mine(s))

\* A step gives a store no id that was there before, unless it is a copy.
LEMMA OwnIs ==
  ASSUME TypeInv, NEW s \in Store, Step(s) \/ \E t \in Store, m \in Machine : Copy(t, s, m),
         NEW u \in Store
  PROVE  /\ \/ cfg'[u] = cfg[u]
            \/ cfg'[u].own = cfg[u].own /\ Exists(u)
            \/ cfg'[u].own > minted
            \/ \E t \in Store \ {u} : Exists(t)' /\ cfg'[t].own = cfg'[u].own
         /\ minted \in Nat /\ minted' \in Nat /\ minted <= minted'
<1>1. /\ cfg \in [Store -> Config] /\ minted \in 0 .. MaxInstall /\ MaxInstall \in Nat
      /\ cfg[s] \in Config
  BY BoundsAssumption DEF TypeInv, IdentityInv, IdentityTypeOK
<1>3. CASE UNCHANGED <<cfg, minted>>
  BY <1>1, <1>3
<1>4. CASE Lock(s)
  <2>1. cfg' = [cfg EXCEPT ![s] = ApplyMachineBinding(cfg[s], at[s], minted + 1)] /\ Exists(s)
        /\ minted' = IF Rotates(cfg[s], at[s]) THEN minted + 1 ELSE minted
    BY <1>4 DEF Lock
  <2>2. ApplyMachineBinding(cfg[s], at[s], minted + 1).own \in {cfg[s].own, minted + 1}
    BY DEF ApplyMachineBinding, BindTo, RotateInstallLocked
  <2> QED BY <1>1, <2>1, <2>2
<1>5. CASE Rotate(s)
  <2> DEFINE used == IF Rotates(cfg[s], at[s]) THEN 2 ELSE 1
             locked == ApplyMachineBinding(cfg[s], at[s], minted + 1)
             rotated == RotateInstallLocked(locked, minted + used)
  <2>1. cfg' = [cfg EXCEPT ![s] = IF at[s] = NoFingerprint THEN rotated ELSE BindTo(rotated, at[s])]
        /\ minted' = minted + used
    BY <1>5 DEF Rotate
  <2>2. rotated.own = minted + used /\ BindTo(rotated, at[s]).own = minted + used
    BY DEF RotateInstallLocked, BindTo
  <2> HIDE DEF rotated
  <2> QED BY <1>1, <2>1, <2>2
<1>6. CASE \E m \in Machine : Create(s, m)
  BY <1>1, <1>6 DEF Create
<1>7. CASE \E t \in Store, m \in Machine : Copy(t, s, m)
  BY <1>1, <1>7 DEF Copy, Exists
<1> QED
  BY <1>3, <1>4, <1>5, <1>6, <1>7
     DEF Step, SyncStep, FaultStep, SyncFork, SyncBegin, SyncUnreachable, NothingToReconcile,
         NothingToPush, Push, PushRefused, Finish, ReconcileFails, PushFails, Crash, Record,
         Adopt, ReEmit, Pull, CrashInAppend, Move, identity

\* The own shard of a store only grows, at its end.
LEMMA OwnGrows ==
  ASSUME TypeInv, NEW s \in Store, LogStep(s), NEW u \in Store, Exists(u),
         cfg'[u].own = cfg[u].own
  PROVE  IsPrefix(shard[u][Mine(u)], shard'[u][Mine(u)])
<1> DEFINE i == Mine(u)
<1>1. shard \in [Store -> [Install -> Seq(RisingEvent)]] /\ i \in Install /\ shard[u][i] \in Seq(RisingEvent)
  BY DEF TypeInv, LogTyped, IdentityInv, IdentityTypeOK, Config, Exists, Mine
<1>2. ASSUME shard'[u][i] = shard[u][i] PROVE IsPrefix(shard[u][i], shard'[u][i])
  BY <1>1, <1>2, PrefixByElements
<1>3. CASE \A t \in Store : t = u => t # s
  <2>1. shard'[u] = shard[u]
    BY <1>1, <1>3 DEF LogStep, WritesOwn, CopiedFrom, Adopts, Pulls
  <2> QED BY <1>2, <2>1
<1>4. ASSUME s = u, NEW d \in Decision, WritesOwn(s, d)
      PROVE  IsPrefix(shard[u][i], shard'[u][i])
  <2> DEFINE e == NewEvent(shard[u], i, d)
  <2>1. /\ shard[u] \in [Install -> Seq(RisingEvent)] /\ cfg'[u].own = i
        /\ shard' = [shard EXCEPT ![u] = AppendOwn(shard[u], i, NextLamport(shard[u]), d)]
    BY <1>1, <1>4 DEF WritesOwn, Mine
  <2>2. /\ e \in RisingEvent
        /\ AppendOwn(shard[u], i, NextLamport(shard[u]), d)
             = [shard[u] EXCEPT ![i] = Append(shard[u][i], e)]
    BY <1>1, <2>1, AppendOwnIs
  <2> HIDE DEF e, i
  <2>3. shard'[u][i] = Append(shard[u][i], e)
    BY <1>1, <2>1, <2>2
  <2>4. /\ Append(shard[u][i], e) \in Seq(RisingEvent)
        /\ Len(shard[u][i]) <= Len(Append(shard[u][i], e))
        /\ \A k \in 1 .. Len(shard[u][i]) : shard[u][i][k] = Append(shard[u][i], e)[k]
    BY <1>1, <2>2
  <2> QED BY <1>1, <2>3, <2>4, PrefixByElements
<1>5. ASSUME s = u, Adopts(s) PROVE shard'[u][i] = shard[u][i]
  <2>1. Head(retiring[s]) # i /\ Head(retiring[s]) \in Install
    <3>1. retiring[s] \in Seq(Install) /\ retiring[s] # <<>>
      BY <1>5, SnapTyped DEF Adopts
    <3>2. 1 \in DOMAIN retiring[s] /\ Head(retiring[s]) = retiring[s][1]
      BY <3>1
    <3> QED BY <1>5, <3>1, <3>2 DEF TypeInv, IdentityInv, IdentityOK, ProgressOK
  <2> QED BY <1>1, <1>5, <2>1 DEF Adopts
<1>6. ASSUME s = u, NEW j \in pulling[s], NEW m \in Nat, Pulls(s, j, m) PROVE shard'[u][i] = shard[u][i]
  <2>1. j # i /\ j \in Install
    BY <1>6, SnapTyped DEF TypeInv, IdentityInv, IdentityOK, ProgressOK
  <2> QED BY <1>1, <1>6, <2>1 DEF Pulls
<1>7. CASE UNCHANGED shard
  BY <1>2, <1>7
<1> QED
  BY <1>2, <1>3, <1>4, <1>5, <1>6, <1>7 DEF LogStep, CopiedFrom

\* What SoleOK says of store u and its id i, after a step.
SoleNext(u, i) ==
  /\ Numbered(GroupSegments(bucket', i), bucket', i)
  /\ IsPrefix(Events(GroupSegments(bucket', i)), shard'[u][i])
  /\ pc'[u] \in {"reconcile", "reemit"} => GroupSegments(bucket', i) = GroupSegments(snap'[u], i)

\* An id minted in a step has nothing in the bucket.
LEMMA FreshSole ==
  ASSUME TypeInv, SoleOK, NEW s \in Store, Acts(s), TypeInv',
         NEW u \in Store, Exists(u)', cfg'[u].own > minted
  PROVE  SoleNext(u, cfg'[u].own)
<1> DEFINE i == cfg'[u].own
<1>1. Shape(s) /\ minted \in Nat
  BY ShapeIs, OwnIs DEF Acts
<1>2. i \in Install /\ i \in Nat /\ cfg[u].own <= minted /\ shard'[u][i] \in Seq(RisingEvent)
  <2>1. cfg'[u] \in Config /\ i # NoInstall /\ cfg[u].own <= minted
    BY DEF TypeInv, IdentityInv, IdentityTypeOK, IdentityOK, IdsOK, Exists
  <2>2. i \in Install /\ i \in Nat
    BY <2>1 DEF Config, Install, NoInstall
  <2>3. shard'[u] \in [Install -> Seq(RisingEvent)]
    BY DEF TypeInv, LogTyped
  <2> QED BY <2>1, <2>2, <2>3
<1>3. cfg'[u] # cfg[u]
  BY <1>1, <1>2
<1>4. bucket' = bucket
  BY <1>1, <1>3, BucketShape DEF Uploads
<1>5. \A g \in bucket : g.inst # i
  BY <1>1, <1>2 DEF SoleOK, TypeInv, LogTyped, SegmentOf
<1>6. Numbered(<<>>, bucket', i)
  BY <1>4, <1>5 DEF Numbered
<1>7. GroupSegments(bucket', i) = <<>>
  <2>1. <<>> \in Seq(SegmentOf(RisingEvent))
    OBVIOUS
  <2> QED BY <1>6, <2>1, GroupIs
<1>8. IsPrefix(Events(<<>>), shard'[u][i])
  <2>1. Events(<<>>) = <<>> /\ <<>> \in Seq(RisingEvent) /\ Len(<<>>) = 0
    BY EventsSteps
  <2> HIDE DEF i
  <2>2. Len(shard'[u][i]) \in Nat
    BY <1>2
  <2>3. Len(<<>>) <= Len(shard'[u][i])
    BY <2>1, <2>2
  <2>4. \A k \in 1 .. Len(<<>>) : <<>>[k] = shard'[u][i][k]
    BY <2>1
  <2>5. IsPrefix(<<>>, shard'[u][i])
    BY <1>2, <2>1, <2>3, <2>4, PrefixByElements
  <2> QED BY <2>1, <2>5
<1>9. pc'[u] \in {"reconcile", "reemit"} => snap'[u] = bucket'
  <2>1. u = s
    BY <1>1, <1>3 DEF Shape
  <2> QED BY <1>1, <1>3, <1>4, <2>1 DEF Shape, Quiet, Begins, Reconciles, Goes, Leaves
<1> QED BY <1>6, <1>7, <1>8, <1>9 DEF SoleNext

\* Every step keeps what the bucket holds of the shard of a store that kept its id.
LEMMA SameSole ==
  ASSUME TypeInv, SoleOK, NEW s \in Store, Acts(s), TypeInv',
         NEW u \in Store, Exists(u), cfg'[u].own = cfg[u].own, Sole(u)'
  PROVE  SoleNext(u, cfg'[u].own)
<1> DEFINE i == Mine(u)
<1>0. SUFFICES SoleNext(u, i)
  BY DEF Mine
<1>1. Shape(s) /\ LogStep(s)
  BY ShapeIs, LogStepIs DEF Acts
<1>2. /\ i \in Install /\ shard[u][i] \in Seq(RisingEvent) /\ shard'[u][i] \in Seq(RisingEvent)
      /\ i # NoInstall
  BY DEF TypeInv, LogTyped, IdentityInv, IdentityTypeOK, Config, Exists, Mine
<1>3. Sole(u)
  <2>1. ASSUME NEW t \in Store \ {u}, Exists(t) PROVE i \notin Ids(cfg[t])
    <3>1. Exists(t)' /\ Ids(cfg[t]) \subseteq Ids(cfg'[t])
      BY <2>1, IdsKept DEF Acts
    <3>2. i \notin Ids(cfg'[t])
      BY <3>1 DEF Sole, Mine
    <3> QED BY <3>1, <3>2
  <2> QED BY <2>1 DEF Sole
<1>4. /\ Numbered(Group(i), bucket, i)
      /\ IsPrefix(Remote(i), shard[u][i])
      /\ pc[u] \in {"reconcile", "reemit"} => Group(i) = Listed(u, i)
  BY <1>3 DEF SoleOK
<1>5. Group(i) \in Seq(SegmentOf(RisingEvent)) /\ Remote(i) \in Seq(RisingEvent) /\ Remote(i) = Events(Group(i))
  BY ListedTyped, bucket \in SUBSET bucket DEF Group, Remote
<1>6. IsPrefix(shard[u][i], shard'[u][i])
  BY <1>1, OwnGrows
<1>7. IsPrefix(Remote(i), shard'[u][i])
  BY <1>2, <1>4, <1>5, <1>6, PrefixTransitive
<1>8. ASSUME Numbered(Group(i), bucket', i), u # s \/ bucket' = bucket
      PROVE  SoleNext(u, i)
  <2>1. GroupSegments(bucket', i) = Group(i)
    BY <1>5, <1>8, GroupIs
  <2>2. ASSUME pc'[u] \in {"reconcile", "reemit"} PROVE Group(i) = GroupSegments(snap'[u], i)
    <3>1. CASE u # s
      <4>1. pc'[u] = pc[u] /\ snap'[u] = snap[u]
        BY <1>1, <3>1 DEF Shape
      <4> QED BY <1>4, <2>2, <4>1 DEF Listed
    <3>2. CASE u = s /\ bucket' = bucket
      <4>1. \/ snap'[u] = bucket
            \/ pc[u] \in {"reconcile", "reemit"} /\ snap'[u] = snap[u]
        BY <1>1, <2>2, <3>2 DEF Shape, Quiet, Begins, Reconciles, Goes, Leaves
      <4> QED BY <1>4, <4>1 DEF Listed, Group
    <3> QED BY <1>8, <3>1, <3>2
  <2> HIDE DEF i
  <2> QED BY <1>5, <1>7, <1>8, <2>1, <2>2 DEF SoleNext
<1>9. CASE bucket' = bucket
  BY <1>4, <1>8, <1>9
<1>10. CASE Uploads(s) /\ s # u
  <2>1. Exists(s) /\ Mine(s) # i
    <3>1. pc[s] # "idle"
      BY <1>10 DEF Uploads, ReadyToPush
    <3>2. Exists(s)
      BY <3>1 DEF TypeInv, IdentityInv, IdentityOK, ProgressOK
    <3> QED BY <1>3, <1>10, <3>2 DEF Sole, Ids, Mine
  <2>2. bucket' = bucket \cup {NextSegment(s)} /\ NextSegment(s).inst = Mine(s)
    BY <1>10 DEF Uploads, NextSegment
  <2>3. Numbered(Group(i), bucket', i)
    BY <1>4, <2>1, <2>2, NumberedOther
  <2> QED BY <1>8, <1>10, <2>3
<1>11. CASE Uploads(s) /\ s = u
  <2>1. Group(i) = Listed(u, i) /\ IsPrefix(Events(Listed(u, i)), shard[u][i])
    BY <1>4, <1>5, <1>11 DEF Uploads, ReadyToPush
  <2>2. /\ Numbered(Append(Listed(u, i), NextSegment(u)), bucket', i)
        /\ GroupSegments(bucket', i) = Append(Listed(u, i), NextSegment(u))
        /\ Events(Append(Listed(u, i), NextSegment(u))) = shard[u][i]
    BY <1>4, <1>11, <2>1, UploadAppends
  <2>3. pc'[u] \notin {"reconcile", "reemit"} \/ bucket' = bucket
    BY <1>1, <1>11 DEF Shape, Quiet, Begins, Reconciles, Goes, Leaves
  <2> QED BY <1>6, <1>9, <2>2, <2>3 DEF SoleNext, Mine
<1> QED BY <1>1, <1>9, <1>10, <1>11, BucketShape

\* Every step keeps that a store alone with its id has uploaded what the bucket holds of it.
LEMMA SoleKept ==
  ASSUME TypeInv, SoleOK, NEW s \in Store, Acts(s), TypeInv'
  PROVE  SoleOK'
<1>1. \A g \in bucket' : g.inst <= minted'
  <2>1. minted \in Nat /\ minted' \in Nat /\ minted <= minted'
    BY OwnIs DEF Acts
  <2>2. \A g \in bucket : g.inst <= minted /\ g.inst \in Nat
    BY DEF SoleOK, TypeInv, LogTyped, SegmentOf
  <2>3. CASE bucket' = bucket
    BY <2>1, <2>2, <2>3
  <2>4. CASE Uploads(s)
    <3>1. bucket' = bucket \cup {NextSegment(s)} /\ NextSegment(s).inst = Mine(s)
      BY <2>4 DEF Uploads, NextSegment
    <3>2. Mine(s) <= minted /\ Mine(s) \in Nat
      BY DEF TypeInv, IdentityInv, IdentityTypeOK, IdentityOK, IdsOK, Mine, Config, Install, NoInstall
    <3> QED BY <2>1, <2>2, <3>1, <3>2
  <2> QED BY <2>3, <2>4, ShapeIs, BucketShape DEF Acts
<1>2. ASSUME NEW u \in Store, Exists(u)', Sole(u)'
      PROVE  SoleNext(u, cfg'[u].own)
  <2>1. CASE cfg'[u].own > minted
    BY <1>2, <2>1, FreshSole
  <2>2. CASE Exists(u) /\ cfg'[u].own = cfg[u].own
    BY <1>2, <2>2, SameSole
  <2>3. CASE \E t \in Store \ {u} : Exists(t)' /\ cfg'[t].own = cfg'[u].own
    BY <1>2, <2>3 DEF Sole, Ids, Mine
  <2>4. CASE cfg'[u] = cfg[u]
    BY <1>2, <2>2, <2>4 DEF Exists
  <2> QED BY <2>1, <2>2, <2>3, <2>4, OwnIs DEF Acts
<1> QED BY <1>1, <1>2, Zenon DEF SoleOK, SoleNext, Group, Remote, Listed, Mine

\* A fork is seen, or an upload refused, only for an id that another store has or had.
LEMMA ForkHasTwin ==
  ASSUME "retried" \notin PutFault, TypeInv, SoleOK, Next,
         NEW u \in Store, forked'[u], ~forked[u]
  PROVE  \E t \in Store \ {u} : cfg'[u].own \in Ids(cfg[t])
<1> SUFFICES ASSUME \A t \in Store \ {u} : cfg'[u].own \notin Ids(cfg[t])
             PROVE  FALSE
  OBVIOUS
<1>1. PICK s \in Store : Step(s) \/ \E t \in Store, m \in Machine : Copy(t, s, m)
  BY NextIs
<1>2. SyncFork(u) \/ PushRefused(u)
  <2>1. forked \in [Store -> BOOLEAN]
    BY DEF TypeInv, IdentityInv, IdentityTypeOK
  <2>2. \A how \in PutFault : how # "retried"
    OBVIOUS
  <2>3. CASE \E how \in PutFault : PushFails(s, how)
    BY <2>1, <2>2, <2>3 DEF PushFails
  <2>4. CASE \E d \in Decision : Record(s, d)
    BY <2>4 DEF Record
  <2>5. CASE SyncFork(s) \/ PushRefused(s)
    BY <2>1, <2>5 DEF SyncFork, PushRefused
  <2>6. CASE SyncBegin(s) \/ SyncUnreachable(s) \/ Rotate(s)
    BY <2>1, <2>6 DEF SyncBegin, SyncUnreachable, Rotate
  <2> QED
    BY <1>1, <2>3, <2>4, <2>5, <2>6
       DEF Step, SyncStep, FaultStep, NothingToReconcile, NothingToPush, Push, Finish,
           ReconcileFails, Crash, Adopt, ReEmit, Pull, CrashInAppend, Create, Move, Copy
<1> DEFINE i == cfg'[u].own
<1>3. CASE SyncFork(u)
  <2>1. Lock(u) /\ ForkSeen(shard[u][i], Group(i))
    BY <1>3 DEF SyncFork, Group
  <2>2. i \in Install /\ minted \in Nat /\ Exists(u)
    <3>1. Lock(u) /\ IdentityInv /\ IdentityTypeOK
      BY <2>1 DEF TypeInv, IdentityInv
    <3>2. cfg' \in [Store -> Config] /\ cfg'[u].own # NoInstall
      BY <3>1, LockSound
    <3>3. cfg'[u].own \in Install
      <4>1. cfg'[u] \in Config
        BY <3>2
      <4> QED BY <3>2, <4>1 DEF Config
    <3>4. minted \in Nat /\ Exists(u)
      BY <3>1, BoundsAssumption DEF Lock, IdentityTypeOK
    <3> QED BY <3>3, <3>4
  <2>3. Group(i) \in Seq(SegmentOf(RisingEvent)) /\ shard[u][i] \in Seq(RisingEvent)
    BY <2>2, ListedTyped, SnapTyped, bucket \in SUBSET bucket DEF Group
  <2>4. Group(i) # <<>>
    BY <2>1 DEF ForkSeen
  <2>5. CASE i > minted
    <3>1. \A g \in bucket : g.inst # i
      BY <2>2, <2>5 DEF SoleOK, TypeInv, LogTyped, SegmentOf, Install
    <3>2. Numbered(<<>>, bucket, i) /\ <<>> \in Seq(SegmentOf(RisingEvent))
      BY <3>1 DEF Numbered
    <3> QED BY <2>4, <3>2, GroupIs DEF Group
  <2>6. CASE i = Mine(u)
    <3>1. IsPrefix(Events(Group(i)), shard[u][i])
      BY <2>2, <2>6 DEF SoleOK, Sole, Remote, Group
    <3>2. /\ Total(Group(i)) > 0 /\ Last(Last(Group(i)).evs) = Events(Group(i))[Total(Group(i))]
          /\ Events(Group(i)) \in Seq(RisingEvent) /\ Len(Events(Group(i))) = Total(Group(i))
          /\ Total(Group(i)) \in Nat
      BY <2>3, <2>4, LastEvent, EventsTotal
    <3> HIDE DEF i
    <3>3. /\ Total(Group(i)) <= Len(shard[u][i])
          /\ \A k \in 1 .. Total(Group(i)) : Events(Group(i))[k] = shard[u][i][k]
      BY <2>3, <3>1, <3>2, PrefixByElements
    <3>4. Total(Group(i)) \in 1 .. Total(Group(i))
      BY <3>2
    <3>5. Len(shard[u][i]) \in Nat
      BY <2>3
    <3> QED BY <2>1, <3>2, <3>3, <3>4, <3>5 DEF ForkSeen
  <2>7. i = Mine(u) \/ i > minted
    <3>1. cfg'[u].own \in {cfg[u].own, minted + 1}
      <4>1. ApplyMachineBinding(cfg[u], at[u], minted + 1).own \in {cfg[u].own, minted + 1}
        BY DEF ApplyMachineBinding, BindTo, RotateInstallLocked
      <4>2. cfg'[u] = ApplyMachineBinding(cfg[u], at[u], minted + 1)
        BY <2>1 DEF Lock, TypeInv, IdentityInv, IdentityTypeOK
      <4> QED BY <4>1, <4>2
    <3> QED BY <2>2, <3>1 DEF Mine
  <2> QED BY <2>5, <2>6, <2>7
<1>4. CASE PushRefused(u)
  <2>1. /\ pc[u] = "reconcile" /\ ReadyToPush(u) /\ PushPlan(u).needed /\ cfg' = cfg
        /\ KeyTaken(NextSegment(u))
    BY <1>4 DEF PushRefused, ReadyToPush, identity
  <2>2. Exists(u) /\ Sole(u)
    BY <2>1 DEF TypeInv, IdentityInv, IdentityOK, ProgressOK, Sole, Mine
  <2> DEFINE P == Listed(u, Mine(u))
  <2>3. Numbered(Group(Mine(u)), bucket, Mine(u)) /\ Group(Mine(u)) = P
    BY <2>1, <2>2 DEF SoleOK
  <2>4. P \in Seq(SegmentOf(RisingEvent))
    BY SnapTyped, ListedTyped DEF Listed
  <2>5. LastSeq(P) = Len(P)
    BY <2>3, <2>4, LastSeqNumbered DEF Numbered
  <2>6. NextSegment(u).inst = Mine(u) /\ NextSegment(u).seq = LastSeq(P) + 1
    BY <2>1, UploadIs
  <2> HIDE DEF P
  <2>7. PICK h \in bucket : h.inst = Mine(u) /\ h.seq = Len(P) + 1
    BY <2>1, <2>5, <2>6 DEF KeyTaken
  <2>8. Len(P) + 1 \in DOMAIN P
    BY <2>3, <2>7 DEF Numbered
  <2> QED BY <2>4, <2>8
<1> QED BY <1>2, <1>3, <1>4

\* A fork error accuses another directory with the same identity, and there is or was one
\* (NoFalseFork), however many uploads are lost, pulls cut short and processes killed, as
\* long as the client does not repeat an upload by itself.
THEOREM ForkIsTrue == "retried" \notin PutFault => (Spec => NoFalseFork)
<1> SUFFICES ASSUME "retried" \notin PutFault PROVE Spec => NoFalseFork
  OBVIOUS
<1>1. Init => SoleOK
  <2> SUFFICES ASSUME Init PROVE SoleOK
    OBVIOUS
  <2>1. bucket = {} /\ \A s \in Store : ~Exists(s)
    BY DEF Init, Exists
  <2> QED BY <2>1 DEF SoleOK
<1>2. TypeInv /\ SoleOK /\ TypeInv' /\ [Next]_vars => SoleOK'
  <2> SUFFICES ASSUME TypeInv, SoleOK, TypeInv', [Next]_vars PROVE SoleOK'
    OBVIOUS
  <2>1. CASE Next
    <3>1. PICK s \in Store : Acts(s)
      BY <2>1, NextIs DEF Acts
    <3> QED BY <3>1, SoleKept
  <2>2. CASE UNCHANGED vars
    BY <2>2 DEF vars, SoleOK, Sole, Exists, Mine, Group, Remote, Listed
  <2> QED BY <2>1, <2>2
<1>3. TypeInv /\ SoleOK /\ [Next]_vars
        => [\A s \in Store : forked'[s] /\ ~forked[s]
              => \E t \in Store \ {s} : cfg'[s].own \in {Mine(t)} \cup Retired(t)]_vars
  <2> SUFFICES ASSUME TypeInv, SoleOK, Next, NEW s \in Store, forked'[s], ~forked[s]
               PROVE  \E t \in Store \ {s} : cfg'[s].own \in {Mine(t)} \cup Retired(t)
    BY DEF vars
  <2>1. \E t \in Store \ {s} : cfg'[s].own \in Ids(cfg[t])
    BY ForkHasTwin
  <2> QED BY <2>1 DEF Ids, Mine, Retired
<1> QED
  BY <1>1, <1>2, <1>3, TypeInit, TypeStep, PTL DEF Spec, NoFalseFork
===============================================================================
