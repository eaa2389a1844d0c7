--------------------------- MODULE StoreConfigProofs ---------------------------
(***************************************************************************)
(* One store, any number of processes: what a process read before it       *)
(* waited for the lock never undoes what another one saved, if nobody      *)
(* initializes the store while it is in use (InitAlone) and a save is not  *)
(* cut off (~CrashInSave).                                                 *)
(*                                                                         *)
(* The argument: at most one process is saving (OneWriter); it holds the   *)
(* lock, or it initializes and then everybody else waits (Alone). So who   *)
(* holds the lock has the config that is on disk (MemoryIsDisk), and what  *)
(* is being saved keeps every identity that has a shard (Saves).           *)
(*                                                                         *)
(* Types hold in any environment (Typed): TypeInv counts the commands that *)
(* may still mint an id or record an event, so that neither runs out of    *)
(* numbers, and knows that every config speaks of ids already minted, so   *)
(* that a rotation never retires the id it takes.                          *)
(***************************************************************************)
EXTENDS StoreConfig, FiniteSetTheorems, TLAPS

Cfg == [id : Nat, retired : SUBSET Nat, set : Setting \cup {Unset}]
Cover(c) == {c.id} \cup c.retired
Writes(p) == pc[p] \in {"saving", "writing"}

Shape ==
  /\ file \in {"missing", "torn", "whole"} /\ disk \in Cfg /\ minted \in Nat
  /\ pc \in [Proc -> Phase] /\ cmd \in [Proc -> Command] /\ mem \in [Proc -> Cfg]
  /\ DOMAIN shard = Id
  /\ holder \in Proc \cup {NoProc}

\* The lock, and which process runs which command.
LockInv ==
  /\ \A p \in Proc : pc[p] = "locked" => holder = p
  /\ holder # NoProc => pc[holder] \in {"locked", "saving", "writing"}
  /\ \A p \in Hook : pc[p] \in {"idle", "opened", "trying", "locked"}
  /\ \A p \in Proc : pc[p] = "trying" => p \in Hook
  /\ \A p \in Proc : pc[p] # "idle" => (cmd[p].name = "auto" <=> p \in Hook)

\* The file is torn exactly while somebody writes it, and missing until then.
FileInv ==
  /\ file = "torn" => \E p \in Proc : pc[p] = "writing"
  /\ \A p \in Proc : pc[p] = "writing" => file = "torn"
  /\ file = "missing" =>
       /\ \A p \in Proc : pc[p] \in {"idle", "initializing", "saving"}
       /\ \A i \in Id : shard[i] = {}
       /\ wanted = Unset

\* Who initializes is alone, but for the process whose half-written config it found.
Alone ==
  \A p, q \in Proc : Initializing(p) /\ q # p /\ q \notin Hook =>
    \/ pc[q] = "idle"
    \/ /\ pc[p] = "initializing" /\ ~IsInit(cmd[p])
       /\ holder = q /\ pc[q] = "writing"

\* Who holds the lock, and is no hook, has read what is on disk.
MemoryIsDisk == \A p \in Proc \ Hook : pc[p] = "locked" => mem[p] = disk

\* What is being saved forgets no identity that has a shard, and no setting but the one that
\* the command sets.
Saves ==
  \A p \in Proc : Writes(p) =>
    /\ \A i \in Id : shard[i] # {} => i \in Cover(mem[p])
    /\ cmd[p].name \notin {"set", "init"} => mem[p].set = wanted

\* Nothing is forgotten on disk.
Kept ==
  /\ \A i \in Id : shard[i] # {} => i \in Cover(disk)
  /\ disk.set = wanted

ConfigInv == Shape /\ LockInv /\ FileInv /\ Alone /\ MemoryIsDisk /\ Saves /\ Kept

\* The invariant holds of an idle store.
LEMMA ConfigInit == Init => ConfigInv
<1> SUFFICES ASSUME Init PROVE ConfigInv
  OBVIOUS
<1>1. Shape
  BY ConfigAssumption DEF Init, Shape, Cfg, Fresh, NoConfig, Phase, Command, Name, Idle
<1>2. LockInv /\ FileInv /\ MemoryIsDisk /\ Saves
  BY ConfigAssumption DEF Init, LockInv, FileInv, MemoryIsDisk, Saves, Writes
<1>3. Alone
  BY DEF Init, Alone, Initializing
<1>4. Kept
  BY DEF Init, Kept, Fresh, NoConfig
<1> QED
  BY <1>1, <1>2, <1>3, <1>4 DEF ConfigInv

\* One process at a time is saving, and it is alone or holds the lock.
LEMMA OneWriter ==
  ASSUME ConfigInv, NEW p \in Proc, Writes(p), NEW q \in Proc, q # p
  PROVE  ~Writes(q) /\ (pc[q] = "locked" => q \in Hook)
<1>1. p \notin Hook
  BY DEF ConfigInv, LockInv, Writes
<1>2. CASE holder = p
  <2>1. holder # q /\ pc[q] # "locked"
    BY <1>2 DEF ConfigInv, LockInv
  <2>2. ASSUME Writes(q) PROVE FALSE
    BY <1>1, <1>2, <2>1, <2>2 DEF Writes, ConfigInv, Alone, Initializing
  <2> QED
    BY <2>1, <2>2
<1>3. CASE holder # p
  <2>1. Initializing(p)
    BY <1>3 DEF Initializing, Writes
  <2>2. q \in Hook \/ pc[q] = "idle"
    BY <2>1 DEF ConfigInv, Alone, Writes
  <2> QED
    BY <2>2 DEF Writes, ConfigInv, LockInv
<1> QED
  BY <1>2, <1>3

\* Under the lock, and when the lock is taken, the config is whole.
LEMMA LockedIsWhole ==
  ASSUME ConfigInv, NEW p \in Proc \ Hook,
         pc[p] = "locked" \/ (pc[p] = "opened" /\ holder = NoProc)
  PROVE  file = "whole"
<1>1. file # "missing"
  BY DEF ConfigInv, FileInv
<1>2. ASSUME file = "torn" PROVE FALSE
  <2>1. PICK w \in Proc : pc[w] = "writing"
    BY <1>2 DEF ConfigInv, FileInv
  <2>2. w # p /\ holder # w
    BY <2>1, ConfigAssumption DEF ConfigInv, LockInv
  <2>3. Initializing(w)
    BY <2>1, <2>2 DEF Initializing
  <2> QED
    BY <2>1, <2>2, <2>3 DEF ConfigInv, Alone
<1> QED
  BY <1>1, <1>2 DEF ConfigInv, Shape

------------------------------------------------------------------------------
(* Types.                                                                  *)

\* Every step keeps the shape the invariant relies on.
LEMMA ShapeStep == ASSUME ConfigInv, [Next]_vars PROVE Shape'
<1>1. /\ file \in {"missing", "torn", "whole"} /\ disk \in Cfg /\ minted \in Nat
      /\ pc \in [Proc -> Phase] /\ cmd \in [Proc -> Command] /\ mem \in [Proc -> Cfg]
      /\ DOMAIN shard = Id /\ holder \in Proc \cup {NoProc}
  BY DEF ConfigInv, Shape
<1>2. NoConfig \in Cfg /\ Idle \in Command /\ \A i \in Nat : Fresh(i) \in Cfg
  BY DEF NoConfig, Fresh, Cfg, Idle, Command, Name
<1>3. ASSUME NEW p \in Proc, End(p)
      PROVE  pc' \in [Proc -> Phase] /\ cmd' \in [Proc -> Command] /\ mem' \in [Proc -> Cfg]
  BY <1>1, <1>2, <1>3 DEF End, Goto, Phase
<1>4. ASSUME NEW p \in Proc, NEW phase \in Phase, Goto(p, phase) PROVE pc' \in [Proc -> Phase]
  BY <1>1, <1>4 DEF Goto
<1>5. \A p \in Proc : Reload(p) \in Cfg
  BY <1>1 DEF Reload
<1>6. ASSUME NEW p \in Proc, NEW c \in Command, Open(p, c) PROVE Shape'
  <2>1. pc' \in [Proc -> Phase] /\ mem' \in [Proc -> Cfg] /\ cmd' \in [Proc -> Command]
    BY <1>1, <1>4, <1>6 DEF Open, Phase
  <2> QED
    BY <1>1, <1>6, <2>1 DEF Open, Shape
<1>7. ASSUME NEW p \in Proc, InitRead(p) PROVE Shape'
  <2>1. \A c \in Cfg, v \in Setting \cup {Unset} : WithSetting(c, v) \in Cfg
    BY DEF WithSetting, Cfg
  <2>2. NewConfig \in Cfg /\ minted + 1 \in Nat
    BY <1>1, <1>2 DEF NewConfig
  <2> DEFINE val == IF cmd[p].name = "init" THEN cmd[p].val ELSE Unset
  <2>3. val \in Setting \cup {Unset}
    BY <1>1 DEF Command
  <2>a. /\ \/ Goto(p, "saving") /\ UNCHANGED cmd
           \/ End(p) /\ UNCHANGED minted
        /\ minted' \in {minted, minted + 1}
        /\ \/ mem' = [mem EXCEPT ![p] = WithSetting(disk, val)]
           \/ mem' = [mem EXCEPT ![p] = WithSetting(NewConfig, val)]
           \/ End(p)
    BY <1>1, <1>7 DEF InitRead
  <2> HIDE DEF val
  <2>b. pc' \in [Proc -> Phase] /\ cmd' \in [Proc -> Command]
    BY <1>1, <1>3, <1>4, <2>a, "saving" \in Phase DEF Phase
  <2>c. mem' \in [Proc -> Cfg]
    BY <1>1, <1>3, <2>1, <2>2, <2>3, <2>a
  <2>4. /\ pc' \in [Proc -> Phase] /\ mem' \in [Proc -> Cfg] /\ cmd' \in [Proc -> Command]
        /\ minted' \in Nat
    BY <1>1, <2>2, <2>a, <2>b, <2>c
  <2> QED
    BY <1>1, <1>7, <2>4 DEF InitRead, Shape
<1>8. ASSUME NEW p \in Proc, Truncate(p) PROVE Shape'
  BY <1>1, <1>4, <1>8 DEF Truncate, Shape, Phase
<1>9. ASSUME NEW p \in Proc, Write(p) PROVE Shape'
  <2>1. [cmd[p] EXCEPT !.name = IF cmd[p].name = "inittoken" THEN "init" ELSE cmd[p].name]
          \in Command
    BY <1>1 DEF Command, Name
  <2>2. CASE holder = p
    BY <1>1, <1>3, <1>9, <2>2 DEF Write, Shape
  <2>3. CASE holder # p
    <3>1. cmd' = [cmd EXCEPT ![p] = [cmd[p] EXCEPT !.name =
                    IF cmd[p].name = "inittoken" THEN "init" ELSE cmd[p].name]]
      BY <1>1, <1>9, <2>3 DEF Write
    <3>2. cmd' \in [Proc -> Command]
      BY <1>1, <2>1, <3>1
    <3>3. pc' \in [Proc -> Phase]
      BY <1>4, <1>9, <2>3 DEF Write, Phase
    <3> QED
      BY <1>1, <1>9, <2>3, <3>2, <3>3 DEF Write, Shape
  <2> QED
    BY <2>2, <2>3
<1>10. ASSUME NEW p \in Proc, Lock(p) \/ CheckStamp(p) \/ TryLock(p) PROVE Shape'
  <2>1. pc' \in [Proc -> Phase] /\ mem' \in [Proc -> Cfg] /\ cmd' \in [Proc -> Command]
    BY <1>1, <1>3, <1>4, <1>5, <1>10 DEF Lock, CheckStamp, TryLock, Phase
  <2>2. holder' \in Proc \cup {NoProc}
    BY <1>1, <1>10 DEF Lock, CheckStamp, TryLock
  <2> QED
    BY <1>1, <1>10, <2>1, <2>2 DEF Lock, CheckStamp, TryLock, Shape
<1>11. ASSUME NEW p \in Proc, Ingest(p) \/ RebuildAfterInit(p) \/ Sync(p) \/ SyncFails(p) \/ Die(p)
       PROVE  Shape'
  <2>1. /\ End(p) /\ UNCHANGED <<file, disk, minted>>
        /\ holder' \in Proc \cup {NoProc} /\ DOMAIN shard' = Id
    BY <1>1, <1>11 DEF Ingest, RebuildAfterInit, Sync, SyncFails, Die, Unlock
  <2> QED
    BY <1>1, <1>3, <2>1 DEF Shape
<1>12. ASSUME NEW p \in Proc, SetSetting(p) PROVE Shape'
  <2>1. mem' = [mem EXCEPT ![p] = [mem[p] EXCEPT !.set = cmd[p].val]]
    BY <1>1, <1>12 DEF SetSetting
  <2>2. [mem[p] EXCEPT !.set = cmd[p].val] \in Cfg
    BY <1>1 DEF Cfg, Command
  <2> QED
    BY <1>1, <1>4, <1>12, <2>1, <2>2 DEF SetSetting, Shape, Phase
<1>13. ASSUME NEW p \in Proc, RotateInstall(p) PROVE Shape'
  <2>1. \A c \in Cfg, i \in Nat : Rotated(c, i) \in Cfg
    BY DEF Rotated, Cfg
  <2> QED
    BY <1>1, <1>4, <1>13, <2>1 DEF RotateInstall, Shape, Phase
<1>14. ASSUME Tick \/ UNCHANGED vars PROVE Shape'
  BY <1>1, <1>14 DEF Tick, vars, Shape
<1> QED
  BY <1>6, <1>7, <1>8, <1>9, <1>10, <1>11, <1>12, <1>13, <1>14 DEF Next, Step


------------------------------------------------------------------------------
(* One lemma per step.                                                     *)

Rest == LockInv /\ FileInv /\ Alone /\ MemoryIsDisk /\ Saves /\ Kept

\* A process that was not writing ends and drops its lock; at most it recorded an event
\* under an identity the config has, while nobody was saving.
LEMMA Leaves ==
  ASSUME ConfigInv, NEW p \in Proc, End(p), pc[p] # "writing",
         holder' = IF holder = p THEN NoProc ELSE holder,
         UNCHANGED <<file, disk, wanted>>,
         \A i \in Id : shard'[i] # {} => i \in Cover(disk),
         shard' = shard \/ (file # "missing" /\ \A q \in Proc \ {p} : ~Writes(q))
  PROVE  Rest'
<1>1. /\ pc' = [pc EXCEPT ![p] = "idle"] /\ cmd' = [cmd EXCEPT ![p] = Idle]
      /\ mem' = [mem EXCEPT ![p] = NoConfig]
  BY DEF End, Goto
<1>2. /\ pc \in [Proc -> Phase] /\ cmd \in [Proc -> Command] /\ mem \in [Proc -> Cfg]
      /\ holder \in Proc \cup {NoProc} /\ NoProc \notin Proc /\ Hook \subseteq Proc
  BY ConfigAssumption DEF ConfigInv, Shape
<1>3. /\ pc'[p] = "idle"
      /\ \A q \in Proc \ {p} : pc'[q] = pc[q] /\ cmd'[q] = cmd[q] /\ mem'[q] = mem[q]
  BY <1>1, <1>2
<1>4. LockInv'
  BY <1>2, <1>3 DEF ConfigInv, LockInv
<1>5. FileInv'
  BY <1>3 DEF ConfigInv, FileInv
<1>6. \A q \in Proc : Initializing(q)' => q # p /\ Initializing(q)
  BY <1>3 DEF Initializing
<1>7. Alone'
  BY <1>3, <1>6 DEF ConfigInv, Alone
<1>8. MemoryIsDisk'
  BY <1>3 DEF ConfigInv, MemoryIsDisk
<1>9. Saves'
  BY <1>3 DEF ConfigInv, Saves, Writes
<1>10. Kept'
  BY DEF ConfigInv, Kept, Cover
<1> QED
  BY <1>4, <1>5, <1>7, <1>8, <1>9, <1>10 DEF Rest

\* A command opens the store; it initializes it only if it is alone.
LEMMA OpenStep ==
  ASSUME ConfigInv, InitAlone, NEW p \in Proc, NEW c \in Command, Open(p, c)
  PROVE  Rest'
<1>1. /\ pc \in [Proc -> Phase] /\ cmd \in [Proc -> Command] /\ mem \in [Proc -> Cfg]
      /\ holder \in Proc \cup {NoProc} /\ NoProc \notin Proc /\ Hook \subseteq Proc
  BY ConfigAssumption DEF ConfigInv, Shape
<1>2. /\ pc'[p] = IF file = "whole" /\ ~IsInit(c) THEN "opened" ELSE "initializing"
      /\ cmd'[p] = c
      /\ \A q \in Proc \ {p} : pc'[q] = pc[q] /\ cmd'[q] = cmd[q] /\ mem'[q] = mem[q]
  BY <1>1 DEF Open, Goto
<1>3. pc[p] = "idle" /\ UNCHANGED <<file, disk, holder, shard, wanted>>
  BY DEF Open
<1>4. holder # p
  BY <1>1, <1>3 DEF ConfigInv, LockInv
<1>5. p \in Hook => pc'[p] = "opened"
  BY <1>2 DEF Open, OpensRead, IsInit
<1>6. LockInv'
  BY <1>1, <1>2, <1>3, <1>4, <1>5 DEF ConfigInv, LockInv, Open
<1>7. FileInv'
  BY <1>2, <1>3 DEF ConfigInv, FileInv
<1>8. \A q \in Proc \ {p} :
        \/ pc[q] = "idle"
        \/ /\ file # "missing" /\ ~IsInit(c) /\ ~Initializing(q)
           /\ file = "torn" => holder = q \/ q \in Hook
  BY DEF Open, Undisturbed
<1>9. \A q \in Proc \ {p} : Initializing(q)' = Initializing(q)
  BY <1>2, <1>3 DEF Initializing
<1>10. ASSUME NEW q \in Proc \ {p}, q \notin Hook, Initializing(p)', pc[q] # "idle"
       PROVE  /\ pc'[p] = "initializing" /\ ~IsInit(cmd'[p])
              /\ holder = q /\ pc[q] = "writing"
  <2>1. ~IsInit(c) /\ file # "missing"
    BY <1>8, <1>10
  <2>2. pc'[p] = "initializing" /\ file # "whole"
    BY <1>2, <1>10, <2>1 DEF Initializing
  <2>3. file = "torn" /\ holder = q
    BY <1>8, <1>10, <2>1, <2>2 DEF ConfigInv, Shape
  <2>4. PICK w \in Proc : pc[w] = "writing"
    BY <2>3 DEF ConfigInv, FileInv
  <2>5. w # p /\ w \notin Hook
    BY <1>3, <2>4 DEF ConfigInv, LockInv
  <2>6. w = q
    BY <1>8, <2>3, <2>4, <2>5
  <2> QED
    BY <1>2, <2>1, <2>2, <2>3, <2>4, <2>6
<1>11. ASSUME NEW r \in Proc \ {p}, Initializing(r) PROVE FALSE
  BY <1>8, <1>11 DEF Initializing
<1>12. Alone'
  BY <1>2, <1>3, <1>9, <1>10, <1>11 DEF Alone
<1>13. MemoryIsDisk' /\ Saves' /\ Kept'
  BY <1>2, <1>3 DEF ConfigInv, MemoryIsDisk, Saves, Kept, Writes, Cover
<1> QED
  BY <1>6, <1>7, <1>12, <1>13 DEF Rest

\* Init keeps every identity and setting of the config it loads.
LEMMA InitReadStep == ASSUME ConfigInv, NEW p \in Proc, InitRead(p) PROVE Rest'
<1>1. /\ pc \in [Proc -> Phase] /\ cmd \in [Proc -> Command] /\ mem \in [Proc -> Cfg]
      /\ holder \in Proc \cup {NoProc} /\ NoProc \notin Proc /\ Hook \subseteq Proc
  BY ConfigAssumption DEF ConfigInv, Shape
<1>2. pc[p] = "initializing" /\ UNCHANGED <<file, disk, holder, shard, wanted>>
  BY DEF InitRead
<1>3. holder # p /\ p \notin Hook
  BY <1>1, <1>2 DEF ConfigInv, LockInv
<1>4. CASE file = "torn"
  <2>1. End(p)
    BY <1>4 DEF InitRead
  <2> QED
    BY <1>2, <1>3, <2>1, Leaves DEF ConfigInv, Kept
<1>5. CASE file # "torn"
  <2>1. /\ pc'[p] = "saving" /\ cmd' = cmd
        /\ \A q \in Proc \ {p} : pc'[q] = pc[q] /\ mem'[q] = mem[q]
    BY <1>1, <1>5 DEF InitRead, Goto, ConfigInv, Shape
  <2>2. LockInv'
    BY <1>1, <1>2, <1>3, <2>1 DEF ConfigInv, LockInv
  <2>3. FileInv'
    BY <1>2, <2>1 DEF ConfigInv, FileInv
  <2>4. \A q \in Proc : Initializing(q)' => Initializing(q)
    BY <1>2, <2>1 DEF Initializing
  <2>5. \A q \in Proc \ {p} : q \notin Hook => pc[q] = "idle"
    BY <1>2, <1>5 DEF ConfigInv, Alone, Initializing, FileInv
  <2>6. \A r \in Proc \ {p} : ~Initializing(r)
    BY <1>2, <1>3 DEF ConfigInv, Alone
  <2>7. Alone'
    BY <2>1, <2>4, <2>5, <2>6 DEF Alone
  <2>8. MemoryIsDisk'
    BY <1>2, <2>1 DEF ConfigInv, MemoryIsDisk
  <2>9. /\ \A i \in Id : shard[i] # {} => i \in Cover(mem'[p])
        /\ cmd[p].name \notin {"set", "init"} => mem'[p].set = wanted
    <3>1. CASE file = "whole"
      <4>1. mem'[p] = WithSetting(disk, IF cmd[p].name = "init" THEN cmd[p].val ELSE Unset)
        BY <1>1, <3>1 DEF InitRead
      <4>2. mem'[p].id = disk.id /\ mem'[p].retired = disk.retired
        BY <4>1 DEF WithSetting, ConfigInv, Shape, Cfg
      <4>3. cmd[p].name # "init" => mem'[p] = disk
        BY <4>1 DEF WithSetting
      <4> QED
        BY <4>2, <4>3 DEF ConfigInv, Kept, Cover
    <3>2. CASE file = "missing"
      <4>1. mem'[p] = WithSetting(NewConfig, IF cmd[p].name = "init" THEN cmd[p].val ELSE Unset)
        BY <1>1, <3>2 DEF InitRead
      <4>2. cmd[p].name # "init" => mem'[p].set = Unset
        BY <4>1 DEF WithSetting, NewConfig, Fresh
      <4> QED
        BY <3>2, <4>2 DEF ConfigInv, FileInv
    <3> QED
      BY <1>5, <3>1, <3>2 DEF ConfigInv, Shape
  <2>10. Saves'
    BY <1>2, <2>1, <2>9 DEF ConfigInv, Saves, Writes, Cover
  <2>11. Kept'
    BY <1>2 DEF ConfigInv, Kept, Cover
  <2> QED
    BY <2>2, <2>3, <2>7, <2>8, <2>10, <2>11 DEF Rest
<1> QED
  BY <1>4, <1>5

\* Truncating the file loses nothing that is in memory.
LEMMA TruncateStep == ASSUME ConfigInv, NEW p \in Proc, Truncate(p) PROVE Rest'
<1>1. /\ pc \in [Proc -> Phase]
      /\ holder \in Proc \cup {NoProc} /\ NoProc \notin Proc /\ Hook \subseteq Proc
  BY ConfigAssumption DEF ConfigInv, Shape
<1>2. /\ pc[p] = "saving" /\ pc'[p] = "writing" /\ file' = "torn"
      /\ \A q \in Proc \ {p} : pc'[q] = pc[q]
      /\ UNCHANGED <<disk, holder, cmd, mem, shard, wanted>>
  BY <1>1 DEF Truncate, Goto
<1>3. p \notin Hook
  BY <1>2 DEF ConfigInv, LockInv
<1>4. LockInv'
  BY <1>1, <1>2, <1>3 DEF ConfigInv, LockInv
<1>5. FileInv'
  BY <1>2 DEF FileInv
<1>6. \A q \in Proc : Initializing(q)' => Initializing(q)
  BY <1>2 DEF Initializing
<1>7. \A r \in Proc \ {p} : ~Initializing(r)
  BY <1>2, <1>3 DEF ConfigInv, Alone
<1>8. Alone'
  BY <1>2, <1>6, <1>7 DEF ConfigInv, Alone
<1>9. MemoryIsDisk' /\ Saves' /\ Kept'
  BY <1>2 DEF ConfigInv, MemoryIsDisk, Saves, Kept, Writes, Cover
<1> QED
  BY <1>4, <1>5, <1>8, <1>9 DEF Rest

\* The step in which what was saved becomes what is on disk.
LEMMA WriteStep == ASSUME ConfigInv, NEW p \in Proc, Write(p) PROVE Rest'
<1>1. /\ pc \in [Proc -> Phase] /\ cmd \in [Proc -> Command] /\ mem \in [Proc -> Cfg]
      /\ holder \in Proc \cup {NoProc} /\ NoProc \notin Proc /\ Hook \subseteq Proc
  BY ConfigAssumption DEF ConfigInv, Shape
<1>2. pc[p] = "writing" /\ disk' = mem[p] /\ UNCHANGED shard
  BY DEF Write
<1>3. file' = "whole"
  BY <1>2 DEF Write, Mixed, ConfigInv, FileInv
<1>4. p \notin Hook
  BY <1>2 DEF ConfigInv, LockInv
<1>5. \A q \in Proc \ {p} : ~Writes(q) /\ (pc[q] = "locked" => q \in Hook)
  BY <1>2, OneWriter DEF Writes
<1>6. \A q \in Proc \ {p} : pc'[q] = pc[q] /\ cmd'[q] = cmd[q] /\ mem'[q] = mem[q]
  BY <1>1 DEF Write, End, Goto
<1>7. wanted' = IF cmd[p].name \in {"set", "init"} THEN mem[p].set ELSE wanted
  BY DEF Write
<1>8. Kept'
  BY <1>2, <1>7 DEF ConfigInv, Saves, Kept, Writes, Cover
<1>9. CASE holder = p
  <2>1. pc'[p] = "idle" /\ holder' = NoProc
    BY <1>1, <1>9 DEF Write, End, Goto
  <2>2. LockInv'
    BY <1>1, <1>6, <1>9, <2>1 DEF ConfigInv, LockInv
  <2>3. FileInv'
    BY <1>3, <1>5, <1>6, <2>1 DEF FileInv, Writes
  <2>4. \A q \in Proc : Initializing(q)' => q # p /\ Initializing(q)
    BY <1>5, <1>6, <2>1 DEF Initializing, Writes
  <2>5. Alone'
    BY <1>6, <1>9, <2>1, <2>4 DEF ConfigInv, Alone
  <2>6. MemoryIsDisk' /\ Saves'
    BY <1>5, <1>6, <2>1 DEF MemoryIsDisk, Saves, Writes
  <2> QED
    BY <1>8, <2>2, <2>3, <2>5, <2>6 DEF Rest
<1>10. CASE holder # p
  <2>1. /\ pc'[p] = IF cmd[p].name = "inittoken" THEN "saving" ELSE "opened"
        /\ holder' = holder /\ mem' = mem
    BY <1>1, <1>10 DEF Write, Goto
  <2>2. cmd'[p].name = IF cmd[p].name = "inittoken" THEN "init" ELSE cmd[p].name
    <3>1. cmd' = [cmd EXCEPT ![p] = [cmd[p] EXCEPT !.name =
                    IF cmd[p].name = "inittoken" THEN "init" ELSE cmd[p].name]]
      BY <1>1, <1>10 DEF Write
    <3> QED
      BY <1>1, <3>1 DEF Command
  <2>3. LockInv'
    BY <1>1, <1>2, <1>4, <1>6, <1>10, <2>1, <2>2 DEF ConfigInv, LockInv
  <2>4. FileInv'
    BY <1>3, <1>5, <1>6, <2>1 DEF FileInv, Writes
  <2>5. Initializing(p)
    BY <1>2, <1>10 DEF Initializing
  <2>6. \A q \in Proc \ {p} : q \notin Hook => pc[q] = "idle"
    BY <1>2, <2>5 DEF ConfigInv, Alone
  <2>7. \A r \in Proc \ {p} : ~Initializing(r)
    BY <1>2, <1>4, <1>10 DEF ConfigInv, Alone
  <2>8. \A r \in Proc \ {p} : ~Initializing(r)'
    BY <1>6, <2>1, <2>7 DEF Initializing
  <2>9. Alone'
    BY <1>6, <2>6, <2>8 DEF Alone
  <2>10. MemoryIsDisk'
    BY <1>5, <1>6, <2>1 DEF MemoryIsDisk
  <2>11. Saves'
    <3>1. \A i \in Id : shard[i] # {} => i \in Cover(mem[p])
      BY <1>2 DEF ConfigInv, Saves, Writes
    <3>2. pc'[p] = "saving" => cmd'[p].name = "init"
      BY <2>1, <2>2
    <3> QED
      BY <1>2, <1>5, <1>6, <2>1, <3>1, <3>2 DEF Saves, Writes, Cover
  <2> QED
    BY <1>8, <2>3, <2>4, <2>9, <2>10, <2>11 DEF Rest
<1> QED
  BY <1>9, <1>10

\* Who takes the lock reads the config again, and has what is on disk.
LEMMA LockStep == ASSUME ConfigInv, NEW p \in Proc, Lock(p) PROVE Rest'
<1>1. /\ pc \in [Proc -> Phase] /\ mem \in [Proc -> Cfg]
      /\ holder \in Proc \cup {NoProc} /\ NoProc \notin Proc /\ Hook \subseteq Proc
  BY ConfigAssumption DEF ConfigInv, Shape
<1>2. /\ pc[p] = "opened" /\ holder = NoProc /\ holder' = p
      /\ UNCHANGED <<file, disk, cmd, shard, wanted>>
  BY DEF Lock
<1>3. p \notin Hook
  BY <1>2 DEF Lock, ConfigInv, LockInv
<1>4. file = "whole"
  BY <1>2, <1>3, LockedIsWhole
<1>5. /\ pc'[p] = "locked" /\ mem'[p] = disk
      /\ \A q \in Proc \ {p} : pc'[q] = pc[q] /\ mem'[q] = mem[q]
  BY <1>1, <1>4 DEF Lock, Goto, Reload
<1>6. LockInv'
  BY <1>1, <1>2, <1>3, <1>5 DEF ConfigInv, LockInv
<1>7. FileInv'
  BY <1>2, <1>4, <1>5 DEF ConfigInv, FileInv
<1>8. \A q \in Proc : Initializing(q)' => Initializing(q)
  BY <1>1, <1>2, <1>5 DEF Initializing
<1>9. \A r \in Proc \ {p} : ~Initializing(r)
  BY <1>2, <1>3 DEF ConfigInv, Alone
<1>10. Alone'
  BY <1>1, <1>2, <1>5, <1>8, <1>9 DEF ConfigInv, Alone
<1>11. MemoryIsDisk'
  BY <1>2, <1>5 DEF ConfigInv, MemoryIsDisk
<1>12. Saves' /\ Kept'
  BY <1>2, <1>5 DEF ConfigInv, Saves, Kept, Writes, Cover
<1> QED
  BY <1>6, <1>7, <1>10, <1>11, <1>12 DEF Rest

\* A background sync reads the config only.
LEMMA HookStep == ASSUME ConfigInv, NEW p \in Proc, CheckStamp(p) \/ TryLock(p) PROVE Rest'
<1>1. /\ pc \in [Proc -> Phase] /\ mem \in [Proc -> Cfg]
      /\ holder \in Proc \cup {NoProc} /\ NoProc \notin Proc /\ Hook \subseteq Proc
  BY ConfigAssumption DEF ConfigInv, Shape
<1>2. p \in Hook /\ pc[p] \in {"opened", "trying"} /\ ~IsInit(cmd[p]) /\ holder # p
  BY <1>1 DEF CheckStamp, TryLock, ConfigInv, LockInv, IsInit
<1>3. UNCHANGED <<file, disk, shard, wanted>>
  BY DEF CheckStamp, TryLock
<1>4. CASE End(p) /\ UNCHANGED holder
  BY <1>2, <1>3, <1>4, Leaves DEF ConfigInv, Kept
<1>5. CASE ~(End(p) /\ UNCHANGED holder)
  <2>1. /\ cmd' = cmd
        /\ \A q \in Proc \ {p} : pc'[q] = pc[q] /\ mem'[q] = mem[q]
        /\ \/ pc'[p] = "trying" /\ holder' = holder
           \/ pc'[p] = "locked" /\ holder = NoProc /\ holder' = p
    BY <1>1, <1>5 DEF CheckStamp, TryLock, Goto
  <2>2. LockInv'
    BY <1>1, <1>2, <2>1 DEF ConfigInv, LockInv
  <2>3. FileInv'
    BY <1>2, <1>3, <2>1 DEF ConfigInv, FileInv
  <2>4. \A q \in Proc : Initializing(q)' => Initializing(q)
    BY <1>1, <1>2, <2>1 DEF Initializing, IsInit
  <2>5. Alone'
    BY <1>1, <1>2, <2>1, <2>4 DEF ConfigInv, Alone
  <2>6. MemoryIsDisk' /\ Saves' /\ Kept'
    BY <1>2, <1>3, <2>1 DEF ConfigInv, MemoryIsDisk, Saves, Kept, Writes, Cover
  <2> QED
    BY <2>2, <2>3, <2>5, <2>6 DEF Rest
<1> QED
  BY <1>4, <1>5

\* A setting and a rotation start from the config on disk and forget nothing of it.
LEMMA MutateStep == ASSUME ConfigInv, NEW p \in Proc, SetSetting(p) \/ RotateInstall(p) PROVE Rest'
<1>1. /\ pc \in [Proc -> Phase] /\ mem \in [Proc -> Cfg]
      /\ holder \in Proc \cup {NoProc} /\ NoProc \notin Proc /\ Hook \subseteq Proc
  BY ConfigAssumption DEF ConfigInv, Shape
<1>2. /\ pc[p] = "locked" /\ cmd[p].name \in {"set", "rotate"}
      /\ UNCHANGED <<file, disk, holder, cmd, shard, wanted>>
  BY DEF SetSetting, RotateInstall
<1>3. holder = p /\ p \notin Hook
  BY <1>2 DEF ConfigInv, LockInv
<1>4. file = "whole" /\ mem[p] = disk
  BY <1>2, <1>3, LockedIsWhole DEF ConfigInv, MemoryIsDisk
<1>5. /\ pc'[p] = "saving"
      /\ \A q \in Proc \ {p} : pc'[q] = pc[q] /\ mem'[q] = mem[q]
  BY <1>1 DEF SetSetting, RotateInstall, Goto
<1>6. /\ Cover(disk) \subseteq Cover(mem'[p])
      /\ cmd[p].name # "set" => mem'[p].set = disk.set
  <2>1. CASE SetSetting(p)
    <3>1. mem' = [mem EXCEPT ![p] = [mem[p] EXCEPT !.set = cmd[p].val]]
      BY <1>1, <2>1 DEF SetSetting
    <3>2. mem'[p] = [disk EXCEPT !.set = cmd[p].val]
      BY <1>1, <1>4, <3>1
    <3> QED
      BY <2>1, <3>2 DEF SetSetting, Cover, ConfigInv, Shape, Cfg
  <2>2. CASE RotateInstall(p)
    <3>1. mem'[p] = [disk EXCEPT !.id = minted + 1, !.retired = disk.retired \cup {disk.id}]
      BY <1>1, <1>4, <2>2 DEF RotateInstall, Rotated
    <3> QED
      BY <3>1 DEF Cover, ConfigInv, Shape, Cfg
  <2> QED
    BY <2>1, <2>2
<1>7. LockInv'
  BY <1>1, <1>2, <1>3, <1>5 DEF ConfigInv, LockInv
<1>8. FileInv'
  BY <1>2, <1>4, <1>5 DEF ConfigInv, FileInv
<1>9. \A q \in Proc : Initializing(q)' => Initializing(q)
  BY <1>2, <1>3, <1>5 DEF Initializing
<1>10. \A r \in Proc \ {p} : ~Initializing(r)
  BY <1>2, <1>3 DEF ConfigInv, Alone
<1>11. Alone'
  BY <1>2, <1>5, <1>9, <1>10 DEF ConfigInv, Alone
<1>12. MemoryIsDisk' /\ Kept'
  BY <1>2, <1>5 DEF ConfigInv, MemoryIsDisk, Kept, Cover
<1>13. Saves'
  <2>1. \A i \in Id : shard[i] # {} => i \in Cover(mem'[p])
    BY <1>6 DEF ConfigInv, Kept
  <2>2. cmd[p].name \notin {"set", "init"} => mem'[p].set = wanted
    BY <1>6 DEF ConfigInv, Kept
  <2> QED
    BY <1>2, <1>5, <2>1, <2>2 DEF ConfigInv, Saves, Writes, Cover
<1> QED
  BY <1>7, <1>8, <1>11, <1>12, <1>13 DEF Rest

\* An event is recorded under the identity of the config on disk.
LEMMA IngestIsCurrent ==
  ASSUME ConfigInv, NEW p \in Proc, Ingest(p)
  PROVE  /\ file = "whole"
         /\ \A q \in Proc \ {p} : ~Writes(q)
         /\ \A i \in Id : shard'[i] # shard[i] => i = disk.id
<1>1. pc[p] = "locked" /\ p \notin Hook
  BY DEF Ingest, ConfigInv, LockInv
<1>2. mem[p] = disk /\ file = "whole"
  BY <1>1, LockedIsWhole DEF ConfigInv, MemoryIsDisk
<1>3. \A q \in Proc \ {p} : ~Writes(q)
  BY <1>1, OneWriter
<1>4. \A i \in Id : shard'[i] # shard[i] => i = disk.id
  BY <1>2 DEF Ingest, ConfigInv, Shape
<1> QED
  BY <1>2, <1>3, <1>4

\* What a command does before it drops the lock leaves the config alone.
LEMMA LeaveStep ==
  ASSUME ConfigInv, ~CrashInSave, NEW p \in Proc,
         Ingest(p) \/ RebuildAfterInit(p) \/ Sync(p) \/ SyncFails(p) \/ Die(p)
  PROVE  Rest'
<1>1. /\ End(p) /\ pc[p] # "writing" /\ UNCHANGED <<file, disk, wanted>>
      /\ holder' = IF holder = p THEN NoProc ELSE holder
  BY DEF Ingest, RebuildAfterInit, Sync, SyncFails, Die, Unlock, ConfigInv, LockInv
<1>2. CASE Ingest(p)
  <2>1. \A i \in Id : shard'[i] # {} => i \in Cover(disk)
    BY <1>2, IngestIsCurrent DEF ConfigInv, Kept, Cover
  <2>2. file # "missing" /\ \A q \in Proc \ {p} : ~Writes(q)
    BY <1>2, IngestIsCurrent
  <2> QED
    BY <1>1, <2>1, <2>2, Leaves
<1>3. CASE ~Ingest(p)
  <2>1. shard' = shard
    BY <1>3 DEF RebuildAfterInit, Sync, SyncFails, Die
  <2>2. \A i \in Id : shard'[i] # {} => i \in Cover(disk)
    BY <2>1 DEF ConfigInv, Kept
  <2> QED
    BY <1>1, <2>1, <2>2, Leaves
<1> QED
  BY <1>2, <1>3

\* Time passes, or nothing happens.
LEMMA StutterStep == ASSUME ConfigInv, Tick \/ UNCHANGED vars PROVE Rest'
<1>1. UNCHANGED <<file, disk, holder, pc, cmd, mem, shard, wanted>>
  BY DEF Tick, vars
<1>2. \A p \in Proc : Initializing(p)' = Initializing(p) /\ Writes(p)' = Writes(p)
  BY <1>1 DEF Initializing, Writes
<1>3. LockInv' /\ FileInv' /\ Alone' /\ MemoryIsDisk' /\ Kept'
  BY <1>1, <1>2 DEF ConfigInv, LockInv, FileInv, Alone, MemoryIsDisk, Kept, Cover
<1>4. Saves'
  BY <1>1, <1>2 DEF ConfigInv, Saves, Cover
<1> QED
  BY <1>3, <1>4 DEF Rest

------------------------------------------------------------------------------

\* Every step keeps the invariant.
LEMMA ConfigStep == ASSUME InitAlone, ~CrashInSave, ConfigInv, [Next]_vars PROVE ConfigInv'
<1>1. Shape'
  BY ShapeStep
<1>2. ASSUME NEW p \in Proc, Step(p) \/ SyncFails(p) \/ Die(p) PROVE Rest'
  BY <1>2, InitReadStep, TruncateStep, WriteStep, LockStep, HookStep, MutateStep, LeaveStep
     DEF Step
<1>3. Rest'
  BY <1>2, OpenStep, StutterStep DEF Next
<1> QED
  BY <1>1, <1>3 DEF ConfigInv, Rest

\* The invariant holds, for every number of processes, hooks and commands.
THEOREM ConfigSafe == ASSUME InitAlone, ~CrashInSave PROVE Spec => []ConfigInv
<1>1. Init => ConfigInv
  BY ConfigInit
<1>2. ConfigInv /\ [Next]_vars => ConfigInv'
  BY ConfigStep
<1> QED
  BY <1>1, <1>2, PTL DEF Spec

\* No shard this store has written drops out of its config (saveConfig, UpdateConfig,
\* RotateInstall): a sync takes every one along.
THEOREM NoShardLost == ASSUME InitAlone, ~CrashInSave PROVE Spec => []NoOrphanShard
<1>1. ConfigInv => NoOrphanShard
  BY DEF ConfigInv, Kept, Cover, NoOrphanShard
<1> QED
  BY <1>1, ConfigSafe, PTL

\* A setting that was saved is what the config says until another one is saved.
THEOREM SettingsSurvive == ASSUME InitAlone, ~CrashInSave PROVE Spec => []SettingKept
<1>1. ConfigInv => SettingKept
  BY DEF ConfigInv, Kept, SettingKept
<1> QED
  BY <1>1, ConfigSafe, PTL

\* Every append goes to the shard of the identity the config has at that moment.
THEOREM AppendsAreCurrent == ASSUME InitAlone, ~CrashInSave PROVE Spec => CurrentIdentity
<1>1. ASSUME ConfigInv, [Next]_vars
      PROVE  [\A i \in Id : shard'[i] # shard[i] => (file = "whole" /\ i = disk.id)]_vars
  <2>1. CASE \E p \in Proc : Ingest(p)
    BY <1>1, <2>1, IngestIsCurrent
  <2>2. CASE ~(\E p \in Proc : Ingest(p)) /\ Next
    <3>1. shard' = shard
      BY <2>2 DEF Next, Step, InitRead, Truncate, Write, Lock, CheckStamp, TryLock, SetSetting,
            RotateInstall, RebuildAfterInit, Sync, SyncFails, Die, Open, Tick
    <3> QED
      BY <3>1
  <2>3. CASE UNCHANGED vars
    BY <2>3 DEF vars
  <2> QED
    BY <1>1, <2>1, <2>2, <2>3
<1>2. ConfigInv /\ [Next]_vars
        => [\A i \in Id : shard'[i] # shard[i] => (file = "whole" /\ i = disk.id)]_vars
  BY <1>1
<1> QED
  BY <1>2, ConfigSafe, PTL DEF Spec, CurrentIdentity

------------------------------------------------------------------------------
(* Types, with no assumption on the environment: ids and events never run  *)
(* out of the numbers there are for them, because a command mints at most  *)
(* one id and records at most one event.                                   *)

Minting == {p \in Proc : \/ pc[p] = "initializing"
                         \/ cmd[p].name = "rotate" /\ pc[p] \in {"opened", "locked"}}
Ingesting == {p \in Proc : pc[p] # "idle" /\ cmd[p].name = "ingest"}

One(b) == IF b THEN 1 ELSE 0

\* A config speaks of ids that exist.
Known(c) == c.id <= minted /\ \A i \in c.retired : i <= minted

\* Whose config has an id, and who holds the lock.
ProcOK(p) ==
  /\ Known(mem[p])
  /\ pc[p] \notin {"idle", "initializing"} => mem[p].id # 0
  /\ pc[p] = "initializing" => cmd[p].name # "rotate"
  /\ pc[p] = "trying" => cmd[p].name = "auto"
  /\ pc[p] = "locked" \/ (pc[p] \in {"saving", "writing"} /\ cmd[p].name = "rotate") => holder = p

Counted ==
  /\ IsFiniteSet(Minting) /\ minted + Cardinality(Minting) <= commands + 1
  /\ IsFiniteSet(Ingesting) /\ Cardinality(Recorded) + Cardinality(Ingesting) <= commands

TypeInv ==
  /\ TypeOK /\ Counted
  /\ Known(disk) /\ (file = "whole" => disk.id # 0)
  /\ \A p \in Proc : ProcOK(p)

\* Two sets that differ in one element.
LEMMA OneApart ==
  ASSUME NEW S, NEW T, NEW x, IsFiniteSet(S), S \ {x} = T \ {x}
  PROVE  /\ IsFiniteSet(T) /\ Cardinality(T) \in Nat /\ Cardinality(S) \in Nat
         /\ Cardinality(T) + One(x \in S) = Cardinality(S) + One(x \in T)
<1>1. /\ IsFiniteSet(S \ {x})
      /\ Cardinality(S \ {x}) = IF x \in S THEN Cardinality(S) - 1 ELSE Cardinality(S)
  BY FS_RemoveElement
<1>2. T = IF x \in T THEN (S \ {x}) \cup {x} ELSE S \ {x}
  OBVIOUS
<1>3. /\ IsFiniteSet((S \ {x}) \cup {x})
      /\ Cardinality((S \ {x}) \cup {x}) = Cardinality(S \ {x}) + 1
  BY <1>1, FS_AddElement
<1>4. IsFiniteSet(T) /\ Cardinality(T) = Cardinality(S \ {x}) + One(x \in T)
  <2>1. CASE x \in T
    BY <1>2, <1>3, <2>1 DEF One
  <2>2. CASE x \notin T
    <3>1. T = S \ {x}
      BY <1>2, <2>2
    <3>2. Cardinality(S \ {x}) \in Nat
      BY <1>1, FS_CardinalityType
    <3> QED BY <1>1, <2>2, <3>1, <3>2 DEF One
  <2> QED BY <2>1, <2>2
<1>5. Cardinality(S) \in Nat /\ Cardinality(T) \in Nat
  BY <1>4, FS_CardinalityType
<1> QED BY <1>1, <1>4, <1>5 DEF One

\* What is recorded are finitely many events, at most as many as numbers.
LEMMA RecordedFinite ==
  ASSUME TypeOK
  PROVE  /\ Recorded \subseteq 1 .. MaxCommand /\ IsFiniteSet(Recorded)
         /\ Cardinality(Recorded) \in Nat
<1>1. Recorded \subseteq 1 .. MaxCommand
  BY DEF TypeOK, Recorded
<1>2. IsFiniteSet(1 .. MaxCommand)
  BY ConfigAssumption, FS_Interval
<1>3. IsFiniteSet(Recorded)
  BY <1>1, <1>2, FS_Subset
<1> QED BY <1>1, <1>3, FS_CardinalityType

\* A step of one process keeps the counts if it uses what it was counted for.
LEMMA CountStep ==
  ASSUME TypeInv, NEW p \in Proc,
         \A q \in Proc \ {p} : pc'[q] = pc[q] /\ cmd'[q] = cmd[q],
         minted' \in Nat, commands' \in Nat, Cardinality(Recorded') \in Nat,
         minted' + One(p \in Minting') + commands <= minted + One(p \in Minting) + commands',
         Cardinality(Recorded') + One(p \in Ingesting') + commands
           <= Cardinality(Recorded) + One(p \in Ingesting) + commands'
  PROVE  Counted'
<1>1. Minting \ {p} = Minting' \ {p} /\ Ingesting \ {p} = Ingesting' \ {p}
  BY DEF Minting, Ingesting
<1>2. /\ IsFiniteSet(Minting') /\ Cardinality(Minting') \in Nat /\ Cardinality(Minting) \in Nat
      /\ Cardinality(Minting') + One(p \in Minting) = Cardinality(Minting) + One(p \in Minting')
  BY <1>1, OneApart DEF TypeInv, Counted
<1>3. /\ IsFiniteSet(Ingesting') /\ Cardinality(Ingesting') \in Nat
      /\ Cardinality(Ingesting) \in Nat
      /\ Cardinality(Ingesting') + One(p \in Ingesting)
           = Cardinality(Ingesting) + One(p \in Ingesting')
  BY <1>1, OneApart DEF TypeInv, Counted
<1>4. minted \in Nat /\ commands \in Nat /\ Cardinality(Recorded) \in Nat
  BY RecordedFinite, ConfigAssumption DEF TypeInv, TypeOK
<1>5. \A b : One(b) \in {0, 1}
  BY DEF One
<1> HIDE DEF One
<1> DEFINE mi == Cardinality(Minting) mi1 == Cardinality(Minting')
           ig == Cardinality(Ingesting) ig1 == Cardinality(Ingesting')
           r == Cardinality(Recorded) r1 == Cardinality(Recorded')
           a == One(p \in Minting) a1 == One(p \in Minting')
           b == One(p \in Ingesting) b1 == One(p \in Ingesting')
<1>6. minted + mi <= commands + 1 /\ r + ig <= commands
  BY DEF TypeInv, Counted
<1>7. minted' + mi1 <= commands' + 1 /\ r1 + ig1 <= commands'
  <2>1. mi1 + a = mi + a1 /\ ig1 + b = ig + b1
    BY <1>2, <1>3
  <2>2. {a, a1, b, b1} \subseteq {0, 1}
    BY <1>5
  <2>3. {mi, mi1, ig, ig1, r, r1} \subseteq Nat
    BY <1>2, <1>3, <1>4
  <2>4. minted' + a1 + commands <= minted + a + commands' /\ r1 + b1 + commands <= r + b + commands'
    OBVIOUS
  <2> HIDE DEF mi, mi1, ig, ig1, r, r1, a, a1, b, b1
  <2> QED BY <1>4, <1>6, <2>1, <2>2, <2>3, <2>4
<1> QED BY <1>2, <1>3, <1>7 DEF Counted

\* A step that uses nothing it was counted for.
LEMMA Quiet ==
  ASSUME TypeInv, NEW p \in Proc,
         \A q \in Proc \ {p} : pc'[q] = pc[q] /\ cmd'[q] = cmd[q],
         UNCHANGED <<shard, minted, commands>>,
         p \in Minting' => p \in Minting, p \in Ingesting' => p \in Ingesting
  PROVE  Counted'
<1>1. Recorded' = Recorded
  BY DEF Recorded
<1>2. One(p \in Minting') <= One(p \in Minting) /\ One(p \in Ingesting') <= One(p \in Ingesting)
  BY DEF One
<1>3. \A b : One(b) \in {0, 1}
  BY DEF One
<1>4. minted \in Nat /\ commands \in Nat /\ Cardinality(Recorded) \in Nat
  BY RecordedFinite, ConfigAssumption DEF TypeInv, TypeOK
<1>5. /\ minted' + One(p \in Minting') + commands <= minted + One(p \in Minting) + commands'
      /\ Cardinality(Recorded') + One(p \in Ingesting') + commands
           <= Cardinality(Recorded) + One(p \in Ingesting) + commands'
  <2>1. /\ One(p \in Minting') \in {0, 1} /\ One(p \in Minting) \in {0, 1}
        /\ One(p \in Ingesting') \in {0, 1} /\ One(p \in Ingesting) \in {0, 1}
    BY <1>3
  <2>2. minted' = minted /\ commands' = commands /\ Cardinality(Recorded') = Cardinality(Recorded)
    BY <1>1
  <2> DEFINE a == One(p \in Minting) a1 == One(p \in Minting')
             b == One(p \in Ingesting) b1 == One(p \in Ingesting')
             r == Cardinality(Recorded)
  <2>3. minted + a1 + commands <= minted + a + commands /\ r + b1 + commands <= r + b + commands
    <3>1. a1 <= a /\ b1 <= b /\ {a, a1, b, b1} \subseteq {0, 1} /\ r \in Nat
      BY <1>2, <1>4, <2>1
    <3> HIDE DEF a, a1, b, b1, r
    <3> QED BY <1>4, <3>1
  <2> QED BY <2>2, <2>3
<1>6. minted' \in Nat /\ commands' \in Nat /\ Cardinality(Recorded') \in Nat
  BY <1>1, <1>4
<1> QED BY <1>5, <1>6, CountStep

SharedOK ==
  /\ file \in {"missing", "torn", "whole"} /\ disk \in Config
  /\ holder \in Proc \cup {NoProc} /\ stamp \in BOOLEAN
  /\ shard \in [Id -> SUBSET (1 .. MaxCommand)] /\ team \subseteq 1 .. MaxCommand
  /\ minted \in Nat /\ wanted \in Setting \cup {Unset}
  /\ commands \in 0 .. MaxCommand /\ faults \in 0 .. MaxFault
  /\ Known(disk) /\ (file = "whole" => disk.id # 0)

OwnOK(p) == pc[p] \in Phase /\ cmd[p] \in Command /\ mem[p] \in Config /\ ProcOK(p)

\* What a step of p has to show.
LEMMA Rejoin ==
  ASSUME TypeInv, NEW p \in Proc,
         \A q \in Proc \ {p} : /\ pc'[q] = pc[q] /\ cmd'[q] = cmd[q] /\ mem'[q] = mem[q]
                               /\ holder = q => holder' = q,
         pc' = [q \in Proc |-> pc'[q]], cmd' = [q \in Proc |-> cmd'[q]],
         mem' = [q \in Proc |-> mem'[q]],
         minted <= minted', SharedOK', OwnOK(p)', Counted'
  PROVE  TypeInv'
<1>1. \A q \in Proc : OwnOK(q)'
  <2>1. ASSUME NEW q \in Proc \ {p} PROVE OwnOK(q)'
    <3>1. /\ pc'[q] = pc[q] /\ cmd'[q] = cmd[q] /\ mem'[q] = mem[q]
          /\ holder = q => holder' = q
      OBVIOUS
    <3>2. pc[q] \in Phase /\ cmd[q] \in Command /\ mem[q] \in Config
      BY DEF TypeInv, TypeOK
    <3>3. ProcOK(q)
      BY DEF TypeInv
    <3>4. Known(mem[q])'
      <4>1. mem[q].id \in Nat /\ mem[q].retired \subseteq Nat
        BY <3>2, ConfigAssumption DEF Config, Id
      <4>2. mem[q].id <= minted /\ \A i \in mem[q].retired : i <= minted
        BY <3>3 DEF ProcOK, Known
      <4>3. minted \in Nat /\ minted' \in Nat
        BY DEF TypeInv, TypeOK, SharedOK
      <4>4. \A n \in Nat : n <= minted => n <= minted'
        BY <4>3
      <4> QED BY <3>1, <4>1, <4>2, <4>4 DEF Known
    <3>5. ProcOK(q)'
      BY <3>1, <3>3, <3>4 DEF ProcOK
    <3> QED BY <3>1, <3>2, <3>5 DEF OwnOK
  <2> QED BY <2>1
<1>2. TypeOK'
  <2>1. pc' \in [Proc -> Phase] /\ cmd' \in [Proc -> Command] /\ mem' \in [Proc -> Config]
    BY <1>1 DEF OwnOK
  <2> QED BY <2>1 DEF SharedOK, TypeOK
<1> QED BY <1>1, <1>2 DEF TypeInv, SharedOK, OwnOK

\* What an operation makes of a config is a config.
LEMMA ConfigOps ==
  ASSUME NEW c \in Config, NEW v \in Setting \cup {Unset}
  PROVE  /\ [c EXCEPT !.set = v] \in Config
         /\ [c EXCEPT !.set = v].id = c.id /\ [c EXCEPT !.set = v].retired = c.retired
         /\ WithSetting(c, v) \in Config
         /\ WithSetting(c, v).id = c.id /\ WithSetting(c, v).retired = c.retired
<1>1. /\ [c EXCEPT !.set = v] \in Config
      /\ [c EXCEPT !.set = v].id = c.id /\ [c EXCEPT !.set = v].retired = c.retired
  BY DEF Config
<1> QED BY <1>1 DEF WithSetting

\* A config that was never saved has no retired ids.
LEMMA FreshConfig ==
  ASSUME NEW i \in Id \cup {0}
  PROVE  /\ Fresh(i) \in Config /\ Fresh(i).id = i /\ Fresh(i).retired = {}
         /\ NoConfig \in Config /\ NoConfig.id = 0 /\ NoConfig.retired = {}
BY DEF Config, Fresh, NoConfig

\* A rotation to an id the config does not know keeps it one: no id is current and retired.
LEMMA RotatedConfig ==
  ASSUME NEW c \in Config, NEW i \in Id, c.id # 0, c.id # i, i \notin c.retired
  PROVE  /\ Rotated(c, i) \in Config
         /\ Rotated(c, i).id = i /\ Rotated(c, i).retired = c.retired \cup {c.id}
<1>1. c.id \in Id /\ c.retired \subseteq Id
  BY DEF Config
<1> QED BY <1>1 DEF Rotated, Config

\* What the invariant says of one process, and of the world it shares.
LEMMA Typing ==
  ASSUME TypeInv, NEW p \in Proc
  PROVE  /\ SharedOK /\ OwnOK(p)
         /\ pc \in [Proc -> Phase] /\ cmd \in [Proc -> Command] /\ mem \in [Proc -> Config]
         /\ Idle \in Command /\ MaxCommand \in Nat /\ NoProc \notin Proc /\ 0 \notin Id
<1>1. Idle \in Command /\ 0 \notin Id /\ MaxCommand \in Nat /\ NoProc \notin Proc
  BY ConfigAssumption DEF Idle, Command, Name, Id
<1>2. SharedOK
  BY DEF TypeInv, TypeOK, SharedOK
<1>3. OwnOK(p) /\ pc \in [Proc -> Phase] /\ cmd \in [Proc -> Command] /\ mem \in [Proc -> Config]
  BY DEF TypeInv, TypeOK, OwnOK
<1> QED BY <1>1, <1>2, <1>3

\* The process ends.
LEMMA Ends ==
  ASSUME TypeInv, NEW p \in Proc, End(p),
         holder' \in {holder, NoProc}, holder' # holder => holder = p,
         UNCHANGED minted, SharedOK', Counted'
  PROVE  TypeInv'
<1>1. /\ pc' = [pc EXCEPT ![p] = "idle"] /\ cmd' = [cmd EXCEPT ![p] = Idle]
      /\ mem' = [mem EXCEPT ![p] = NoConfig]
  BY DEF End, Goto
<1>2. /\ pc'[p] = "idle" /\ cmd'[p] = Idle /\ mem'[p] = NoConfig
      /\ pc' = [q \in Proc |-> pc'[q]] /\ cmd' = [q \in Proc |-> cmd'[q]]
      /\ mem' = [q \in Proc |-> mem'[q]]
      /\ \A q \in Proc \ {p} : pc'[q] = pc[q] /\ cmd'[q] = cmd[q] /\ mem'[q] = mem[q]
  BY <1>1, Typing
<1>3. OwnOK(p)'
  <2>1. Known(NoConfig)'
    BY FreshConfig DEF SharedOK, Known
  <2>2. ProcOK(p)'
    BY <1>2, <2>1 DEF ProcOK
  <2> QED BY <1>2, <2>2, FreshConfig, Typing DEF OwnOK, Phase
<1>4. \A q \in Proc \ {p} : holder = q => holder' = q
  OBVIOUS
<1>5. minted <= minted'
  BY Typing DEF SharedOK
<1> QED BY <1>2, <1>3, <1>4, <1>5, Rejoin

\* A process that ended uses nothing.
LEMMA EndsQuietly ==
  ASSUME TypeInv, NEW p \in Proc, End(p),
         holder' \in {holder, NoProc}, holder' # holder => holder = p,
         UNCHANGED <<shard, minted, commands>>, SharedOK'
  PROVE  TypeInv'
<1>1. /\ pc' = [pc EXCEPT ![p] = "idle"] /\ cmd' = [cmd EXCEPT ![p] = Idle]
  BY DEF End, Goto
<1>2. pc'[p] = "idle" /\ \A q \in Proc \ {p} : pc'[q] = pc[q] /\ cmd'[q] = cmd[q]
  BY <1>1, Typing
<1>3. p \notin Minting' /\ p \notin Ingesting'
  BY <1>2 DEF Minting, Ingesting
<1>4. Counted'
  BY <1>2, <1>3, Quiet
<1> QED BY <1>4, Ends

\* The process goes on.
LEMMA GoesOn ==
  ASSUME TypeInv, NEW p \in Proc, NEW phase \in Phase, NEW c \in Command, NEW m \in Config,
         Goto(p, phase), cmd' = [cmd EXCEPT ![p] = c], mem' = [mem EXCEPT ![p] = m],
         holder' \in {holder, p}, holder' # holder => holder = NoProc,
         minted <= minted', SharedOK', Known(m)',
         phase \notin {"idle", "initializing"} => m.id # 0,
         phase = "initializing" => c.name # "rotate",
         phase = "trying" => c.name = "auto",
         phase = "locked" \/ (phase \in {"saving", "writing"} /\ c.name = "rotate") => holder' = p,
         Counted'
  PROVE  TypeInv'
<1>1. /\ pc'[p] = phase /\ cmd'[p] = c /\ mem'[p] = m
      /\ pc' = [q \in Proc |-> pc'[q]] /\ cmd' = [q \in Proc |-> cmd'[q]]
      /\ mem' = [q \in Proc |-> mem'[q]]
      /\ \A q \in Proc \ {p} : pc'[q] = pc[q] /\ cmd'[q] = cmd[q] /\ mem'[q] = mem[q]
  BY Typing DEF Goto
<1>2. OwnOK(p)'
  <2>1. ProcOK(p)'
    BY <1>1 DEF ProcOK
  <2> QED BY <1>1, <2>1 DEF OwnOK
<1>3. \A q \in Proc \ {p} : holder = q => holder' = q
  BY Typing
<1> QED BY <1>1, <1>2, <1>3, Rejoin

\* ... and uses nothing.
LEMMA GoesOnQuietly ==
  ASSUME TypeInv, NEW p \in Proc, NEW phase \in Phase, NEW c \in Command, NEW m \in Config,
         Goto(p, phase), cmd' = [cmd EXCEPT ![p] = c], mem' = [mem EXCEPT ![p] = m],
         holder' \in {holder, p}, holder' # holder => holder = NoProc,
         UNCHANGED <<shard, minted, commands>>, SharedOK', Known(m),
         phase \notin {"idle", "initializing"} => m.id # 0,
         phase # "initializing", phase = "trying" => c.name = "auto",
         phase = "locked" \/ (phase \in {"saving", "writing"} /\ c.name = "rotate") => holder' = p,
         phase \in {"opened", "locked"} /\ c.name = "rotate"
           => pc[p] = "opened" /\ cmd[p].name = "rotate",
         c.name = "ingest" => pc[p] # "idle" /\ cmd[p].name = "ingest"
  PROVE  TypeInv'
<1>1. /\ pc'[p] = phase /\ cmd'[p] = c
      /\ \A q \in Proc \ {p} : pc'[q] = pc[q] /\ cmd'[q] = cmd[q]
  BY Typing DEF Goto
<1>2. p \in Minting' => p \in Minting
  BY <1>1 DEF Minting
<1>3. p \in Ingesting' => p \in Ingesting
  BY <1>1 DEF Ingesting
<1>4. Counted'
  BY <1>1, <1>2, <1>3, Quiet
<1>5. Known(m)' /\ minted <= minted'
  BY Typing DEF Known, SharedOK
<1> QED BY <1>4, <1>5, GoesOn

\* Minting an id uses what the process was counted for; there is a number left for it.
LEMMA Mints ==
  ASSUME TypeInv, NEW p \in Proc, p \in Minting, p \notin Minting',
         p \in Ingesting' => p \in Ingesting,
         \A q \in Proc \ {p} : pc'[q] = pc[q] /\ cmd'[q] = cmd[q],
         minted' = minted + 1, UNCHANGED <<shard, commands>>
  PROVE  Counted'
<1>1. Recorded' = Recorded
  BY DEF Recorded
<1>2. minted \in Nat /\ commands \in Nat /\ Cardinality(Recorded) \in Nat
  BY RecordedFinite, ConfigAssumption DEF TypeInv, TypeOK
<1>3. One(p \in Minting) = 1 /\ One(p \in Minting') = 0
  BY DEF One
<1>4. /\ One(p \in Ingesting') \in {0, 1} /\ One(p \in Ingesting) \in {0, 1}
      /\ One(p \in Ingesting') <= One(p \in Ingesting)
  BY DEF One
<1>5. minted' + One(p \in Minting') + commands <= minted + One(p \in Minting) + commands'
  BY <1>2, <1>3
<1>6. Cardinality(Recorded') + One(p \in Ingesting') + commands
        <= Cardinality(Recorded) + One(p \in Ingesting) + commands'
  <2>1. \A a, b \in {0, 1} : \A r, k \in Nat : a <= b => r + a + k <= r + b + k
    OBVIOUS
  <2> QED BY <1>1, <1>2, <1>4, <2>1
<1> QED BY <1>1, <1>2, <1>5, <1>6, CountStep

\* While a process is about to mint an id there is one left.
LEMMA MintsId ==
  ASSUME TypeInv, NEW p \in Minting
  PROVE  minted + 1 \in Id
<1>1. IsFiniteSet(Minting) /\ minted + Cardinality(Minting) <= commands + 1
  BY DEF TypeInv, Counted
<1>2. Cardinality(Minting) \in Nat /\ Cardinality(Minting) # 0
  BY <1>1, FS_CardinalityType, FS_EmptySet
<1>3. minted \in Nat /\ commands \in 0 .. MaxCommand /\ MaxCommand \in Nat
  BY ConfigAssumption DEF TypeInv, TypeOK
<1> DEFINE k == Cardinality(Minting)
<1> HIDE DEF k
<1>4. minted + k <= commands + 1 /\ k \in Nat /\ k # 0
  BY <1>1, <1>2 DEF k
<1>5. minted + 1 <= MaxCommand + 1
  BY <1>3, <1>4
<1> QED BY <1>3, <1>5 DEF Id

\* Ids that exist go on existing.
LEMMA KnownLater ==
  ASSUME NEW c \in Config, Known(c), minted \in Nat, minted' \in Nat, minted <= minted'
  PROVE  Known(c)'
<1>1. c.id \in Nat /\ c.retired \subseteq Nat
  BY ConfigAssumption DEF Config, Id
<1>2. \A n \in Nat : n <= minted => n <= minted'
  OBVIOUS
<1> QED BY <1>1, <1>2 DEF Known

\* The system starts well typed.
LEMMA TypeInit == Init => TypeInv
<1> SUFFICES ASSUME Init PROVE TypeInv
  OBVIOUS
<1>1. NoConfig \in Config /\ 1 \in Id /\ Fresh(1) \in Config /\ Idle \in Command /\ "idle" \in Phase
  <2>1. 1 \in Id
    BY ConfigAssumption DEF Id
  <2> QED BY <2>1, FreshConfig DEF Idle, Command, Name, Phase
<1>2. /\ NoConfig = Fresh(0) /\ NoConfig.id = 0 /\ NoConfig.retired = {}
      /\ Fresh(1).id = 1 /\ Fresh(1).retired = {}
  BY DEF NoConfig, Fresh
<1>3. disk \in Config /\ Known(disk) /\ (file = "whole" => disk.id # 0)
  BY <1>1, <1>2, ConfigAssumption DEF Init, Known
<1>4. shard \in [Id -> SUBSET (1 .. MaxCommand)]
  BY DEF Init
<1>5. TypeOK
  <2>1. /\ pc \in [Proc -> Phase] /\ cmd \in [Proc -> Command] /\ mem \in [Proc -> Config]
    BY <1>1 DEF Init
  <2>2. /\ file \in {"missing", "torn", "whole"} /\ stamp \in BOOLEAN /\ team = {} /\ minted \in Nat
        /\ wanted = Unset /\ commands = 0 /\ faults = 0 /\ holder = NoProc
    BY DEF Init
  <2>3. commands \in 0 .. MaxCommand /\ faults \in 0 .. MaxFault
    BY <2>2, ConfigAssumption
  <2> QED BY <1>3, <1>4, <2>1, <2>2, <2>3 DEF TypeOK
<1>6. Minting = {} /\ Ingesting = {} /\ Recorded = {}
  BY DEF Init, Minting, Ingesting, Recorded
<1>7. Counted
  BY <1>6, FS_EmptySet, ConfigAssumption DEF Init, Counted
<1>8. \A p \in Proc : ProcOK(p)
  BY <1>2, ConfigAssumption DEF Init, ProcOK, Known
<1> QED BY <1>3, <1>5, <1>7, <1>8 DEF TypeInv

\* A command that starts may mint and record later, and is counted for both.
LEMMA TypeOpen == ASSUME TypeInv, NEW p \in Proc, NEW c \in Command, Open(p, c) PROVE TypeInv'
<1>1. /\ pc[p] = "idle" /\ cmd' = [cmd EXCEPT ![p] = c]
      /\ OpensRead(c) => file = "whole"
      /\ UNCHANGED <<file, disk, holder, stamp, shard, team, minted, wanted, faults>>
  BY DEF Open
<1>2. SharedOK'
  <2>1. commands' \in 0 .. MaxCommand
    BY Typing DEF Open, SharedOK
  <2> QED BY <1>1, <2>1, Typing DEF SharedOK, Known
<1>3. commands \in Nat /\ commands' \in Nat /\ minted \in Nat /\ Cardinality(Recorded) \in Nat
  BY <1>2, Typing, RecordedFinite DEF SharedOK, TypeInv
<1>4. c.name = "auto" <=> p \in Hook
  BY DEF Open, Command, Name
<1>5. PICK phase \in Phase, m \in Config :
        /\ phase = IF file = "whole" /\ ~IsInit(c) THEN "opened" ELSE "initializing"
        /\ m = IF file = "whole" /\ ~IsInit(c) THEN disk ELSE mem[p]
  BY Typing DEF SharedOK, OwnOK, Phase
<1>6. Goto(p, phase) /\ mem' = [mem EXCEPT ![p] = m]
  BY <1>5, Typing DEF Open
<1>7. pc'[p] = phase /\ cmd'[p] = c /\ \A q \in Proc \ {p} : pc'[q] = pc[q] /\ cmd'[q] = cmd[q]
  BY <1>1, <1>6, Typing DEF Goto
<1>8. phase = "initializing" => c.name \notin {"rotate", "auto"}
  BY <1>1, <1>5 DEF OpensRead, IsInit
<1>9. Counted'
  <2>1. p \notin Minting /\ p \notin Ingesting
    <3>1. p \notin Minting
      BY <1>1 DEF Minting
    <3>2. p \notin Ingesting
      BY <1>1 DEF Ingesting
    <3> QED BY <3>1, <3>2
  <2>2. CASE p \in Hook
    <3>1. p \notin Minting' /\ p \notin Ingesting'
      BY <1>4, <1>7, <1>8, <2>2 DEF Minting, Ingesting
    <3>2. UNCHANGED <<shard, minted, commands>>
      BY <1>1, <2>2 DEF Open
    <3> QED BY <1>7, <3>1, <3>2, Quiet
  <2>3. CASE p \notin Hook
    <3>1. commands' = commands + 1 /\ minted' = minted /\ Recorded' = Recorded
      BY <1>1, <2>3 DEF Open, Recorded
    <3>2. One(p \in Minting) = 0 /\ One(p \in Ingesting) = 0
      BY <2>1 DEF One
    <3>3. One(p \in Minting') \in {0, 1} /\ One(p \in Ingesting') \in {0, 1}
      BY DEF One
    <3>4. minted' + One(p \in Minting') + commands <= minted + One(p \in Minting) + commands'
      BY <1>3, <3>1, <3>2, <3>3
    <3>5. Cardinality(Recorded') + One(p \in Ingesting') + commands
            <= Cardinality(Recorded) + One(p \in Ingesting) + commands'
      BY <1>3, <3>1, <3>2, <3>3
    <3>6. minted' \in Nat /\ Cardinality(Recorded') \in Nat
      BY <1>3, <3>1
    <3> QED BY <1>3, <1>7, <3>4, <3>5, <3>6, CountStep
  <2> QED BY <2>2, <2>3
<1>10. Known(m)' /\ (phase # "initializing" => m.id # 0)
  <2>1. Known(m)
    BY <1>5, Typing DEF SharedOK, OwnOK, ProcOK
  <2>2. phase # "initializing" => m.id # 0
    BY <1>5, Typing DEF SharedOK
  <2> QED BY <1>1, <2>1, <2>2 DEF Known
<1>11. phase \in {"opened", "initializing"} /\ minted <= minted' /\ holder' = holder
  BY <1>1, <1>3, <1>5
<1> QED BY <1>1, <1>2, <1>6, <1>8, <1>9, <1>10, <1>11, GoesOn

\* Init loads the config, or makes one with a new id.
LEMMA TypeInitRead == ASSUME TypeInv, NEW p \in Proc, InitRead(p) PROVE TypeInv'
<1>1. /\ pc[p] = "initializing"
      /\ UNCHANGED <<file, disk, holder, stamp, shard, team, wanted, commands, faults>>
  BY DEF InitRead
<1>2. file \in {"missing", "torn", "whole"} /\ cmd[p].name # "rotate" /\ cmd[p] \in Command
  BY <1>1, Typing DEF SharedOK, OwnOK, ProcOK
<1> DEFINE val == IF cmd[p].name = "init" THEN cmd[p].val ELSE Unset
<1>3. val \in Setting \cup {Unset}
  BY <1>2 DEF Command
<1>4. cmd = [cmd EXCEPT ![p] = cmd[p]] /\ "saving" \in Phase
  BY Typing DEF Phase
<1>5. CASE file = "whole"
  <2>1. /\ mem' = [mem EXCEPT ![p] = WithSetting(disk, val)] /\ Goto(p, "saving")
        /\ UNCHANGED <<cmd, minted>>
    BY <1>5 DEF InitRead
  <2> HIDE DEF val
  <2>2. SharedOK'
    BY <1>1, <2>1, Typing DEF SharedOK, Known
  <2>3. PICK m \in Config : m = WithSetting(disk, val) /\ m.id = disk.id /\ m.retired = disk.retired
    BY <1>3, Typing, ConfigOps DEF SharedOK
  <2>4. Known(m) /\ m.id # 0
    BY <1>5, <2>3, Typing DEF SharedOK, Known
  <2>5. mem' = [mem EXCEPT ![p] = m] /\ cmd' = [cmd EXCEPT ![p] = cmd[p]]
    BY <1>4, <2>1, <2>3
  <2> QED BY <1>1, <1>2, <1>4, <2>1, <2>2, <2>4, <2>5, GoesOnQuietly
<1>6. CASE file = "missing"
  <2>1. /\ mem' = [mem EXCEPT ![p] = WithSetting(NewConfig, val)] /\ Goto(p, "saving")
        /\ minted' = minted + 1 /\ UNCHANGED cmd
    BY <1>6 DEF InitRead
  <2> HIDE DEF val
  <2>2. /\ pc'[p] = "saving" /\ cmd'[p] = cmd[p]
        /\ \A q \in Proc \ {p} : pc'[q] = pc[q] /\ cmd'[q] = cmd[q]
    BY <2>1, Typing DEF Goto
  <2>3. SharedOK'
    <3>1. minted \in Nat /\ minted' \in Nat /\ minted <= minted'
      BY <2>1, Typing DEF SharedOK
    <3>2. Known(disk)'
      BY <1>1, <3>1, Typing, KnownLater DEF SharedOK, Known
    <3> QED BY <1>1, <2>1, <3>1, <3>2, Typing DEF SharedOK
  <2>4. minted + 1 \in Id
    BY <1>1, MintsId DEF Minting
  <2>5. PICK m \in Config : m = WithSetting(NewConfig, val) /\ m.id = minted + 1 /\ m.retired = {}
    <3>1. NewConfig \in Config /\ NewConfig.id = minted + 1 /\ NewConfig.retired = {}
      BY <2>4, FreshConfig DEF NewConfig
    <3> DEFINE n == WithSetting(NewConfig, val)
    <3>2. n \in Config /\ n.id = NewConfig.id /\ n.retired = NewConfig.retired
      BY <1>3, <3>1, ConfigOps
    <3> HIDE DEF n
    <3>3. \E m \in Config : m = n /\ m.id = minted + 1 /\ m.retired = {}
      BY <3>1, <3>2
    <3> QED BY <3>3 DEF n
  <2>6. minted \in Nat
    BY Typing DEF SharedOK
  <2>7. m.id # 0 /\ Known(m)'
    BY <2>1, <2>5, <2>6 DEF Known
  <2>8. Counted'
    <3>1. p \in Minting /\ p \notin Minting'
      BY <1>1, <2>2 DEF Minting
    <3>2. p \in Ingesting <=> p \in Ingesting'
      BY <1>1, <2>2 DEF Ingesting
    <3> QED BY <1>1, <2>1, <2>2, <3>1, <3>2, Mints
  <2>9. mem' = [mem EXCEPT ![p] = m] /\ cmd' = [cmd EXCEPT ![p] = cmd[p]] /\ minted <= minted'
    BY <1>4, <2>1, <2>5, <2>6
  <2> QED BY <1>1, <1>2, <1>4, <2>1, <2>3, <2>7, <2>8, <2>9, GoesOn
<1>7. CASE file = "torn"
  <2>1. End(p) /\ UNCHANGED minted
    BY <1>7 DEF InitRead
  <2>2. SharedOK'
    BY <1>1, <2>1, Typing DEF SharedOK, Known
  <2> QED BY <1>1, <2>1, <2>2, EndsQuietly
<1> QED BY <1>2, <1>5, <1>6, <1>7

\* Saving the config changes the file and nothing in memory.
LEMMA TypeTruncate == ASSUME TypeInv, NEW p \in Proc, Truncate(p) PROVE TypeInv'
<1>1. /\ pc[p] = "saving" /\ file' = "torn" /\ Goto(p, "writing")
      /\ UNCHANGED <<disk, holder, stamp, cmd, mem, shard, team, minted, wanted, commands, faults>>
  BY DEF Truncate
<1>2. SharedOK'
  BY <1>1, Typing DEF SharedOK, Known
<1>3. /\ cmd' = [cmd EXCEPT ![p] = cmd[p]] /\ mem' = [mem EXCEPT ![p] = mem[p]]
      /\ cmd[p] \in Command /\ mem[p] \in Config /\ "writing" \in Phase
  BY <1>1, Typing DEF Phase
<1>4. Known(mem[p]) /\ mem[p].id # 0 /\ (cmd[p].name = "rotate" => holder = p)
  BY <1>1, Typing DEF OwnOK, ProcOK
<1>5. PICK c \in Command, m \in Config : c = cmd[p] /\ m = mem[p]
  BY <1>3
<1> QED BY <1>1, <1>2, <1>3, <1>4, <1>5, GoesOnQuietly

\* What was saved is on disk, and a command goes on or ends.
LEMMA TypeWrite == ASSUME TypeInv, NEW p \in Proc, Write(p) PROVE TypeInv'
<1>1. /\ pc[p] = "writing" /\ disk' = mem[p] /\ file' \in {"torn", "whole"}
      /\ wanted' \in {mem[p].set, wanted}
      /\ UNCHANGED <<stamp, shard, team, minted, commands, faults>>
  BY DEF Write
<1>2. /\ mem[p] \in Config /\ cmd[p] \in Command /\ Known(mem[p]) /\ mem[p].id # 0
      /\ cmd[p].name = "rotate" => holder = p
  BY <1>1, Typing DEF OwnOK, ProcOK
<1>3. wanted' \in Setting \cup {Unset}
  BY <1>1, <1>2, Typing DEF SharedOK, Config
<1>4. holder' \in {holder, NoProc} /\ (holder' # holder => holder = p)
  BY DEF Write
<1>5. SharedOK'
  <2>1. holder' \in Proc \cup {NoProc}
    BY <1>4, Typing DEF SharedOK
  <2>2. Known(disk)' /\ disk' \in Config /\ disk'.id # 0
    BY <1>1, <1>2 DEF Known
  <2> QED BY <1>1, <1>3, <2>1, <2>2, Typing DEF SharedOK
<1>6. CASE holder = p
  <2>1. End(p)
    BY <1>6 DEF Write
  <2> QED BY <1>1, <1>4, <1>5, <2>1, EndsQuietly
<1>7. CASE holder # p
  <2>1. PICK c \in Command :
          c = [cmd[p] EXCEPT !.name = IF cmd[p].name = "inittoken" THEN "init" ELSE cmd[p].name]
    BY <1>2 DEF Command, Name
  <2>2. PICK phase \in Phase : phase = IF cmd[p].name = "inittoken" THEN "saving" ELSE "opened"
    BY DEF Phase
  <2>3. PICK m \in Config : m = mem[p]
    BY <1>2
  <2>4. cmd' = [cmd EXCEPT ![p] = c] /\ mem' = [mem EXCEPT ![p] = m] /\ Goto(p, phase)
    BY <1>7, <2>1, <2>2, <2>3, Typing DEF Write
  <2>5. /\ c.name \notin {"ingest", "rotate"} \/ c.name = cmd[p].name
        /\ c.name # "rotate"
    BY <1>2, <1>7, <2>1 DEF Command
  <2>6. holder' = holder
    BY <1>7 DEF Write
  <2> QED BY <1>1, <1>2, <1>5, <2>2, <2>3, <2>4, <2>5, <2>6, GoesOnQuietly
<1> QED BY <1>6, <1>7

\* Whoever takes the lock has a config with an id.
LEMMA TypeTakesLock ==
  ASSUME TypeInv, NEW p \in Proc, Lock(p) \/ TryLock(p), holder = NoProc
  PROVE  TypeInv'
<1>1. /\ pc[p] \in {"opened", "trying"} /\ holder' = p /\ Goto(p, "locked")
      /\ UNCHANGED <<file, disk, cmd, shard, team, minted, wanted, commands, faults>>
      /\ stamp' \in {stamp, TRUE} /\ mem' = [mem EXCEPT ![p] = Reload(p)]
  BY DEF Lock, TryLock
<1>2. pc[p] = "trying" => ~Lock(p)
  BY DEF Lock
<1>3. PICK m \in Config : m = Reload(p)
  BY Typing DEF Reload, SharedOK, OwnOK
<1>4. Known(m) /\ m.id # 0
  BY <1>1, <1>3, Typing DEF Reload, SharedOK, OwnOK, ProcOK
<1>5. PICK c \in Command : c = cmd[p]
  BY Typing
<1>6. cmd' = [cmd EXCEPT ![p] = c] /\ mem' = [mem EXCEPT ![p] = m] /\ "locked" \in Phase
  BY <1>1, <1>3, <1>5, Typing DEF Phase
<1>7. SharedOK'
  BY <1>1, Typing DEF SharedOK, Known
<1>8. pc[p] = "trying" => cmd[p].name = "auto"
  BY Typing DEF OwnOK, ProcOK
<1>9. c.name = "rotate" => pc[p] = "opened"
  BY <1>1, <1>5, <1>8
<1> QED BY <1>1, <1>4, <1>5, <1>6, <1>7, <1>9, GoesOnQuietly

\* A background sync looks at the stamp, and tries the lock.
LEMMA TypeLooks == ASSUME TypeInv, NEW p \in Proc, CheckStamp(p) \/ TryLock(p) PROVE TypeInv'
<1>1. CASE TryLock(p) /\ holder = NoProc
  BY <1>1, TypeTakesLock
<1>2. CASE ~(TryLock(p) /\ holder = NoProc)
  <2>1. /\ UNCHANGED <<file, disk, holder, stamp, shard, team, minted, wanted, commands, faults>>
        /\ \/ End(p)
           \/ /\ Goto(p, "trying") /\ pc[p] = "opened" /\ cmd[p].name = "auto"
              /\ UNCHANGED <<cmd, mem>>
    BY <1>2 DEF CheckStamp, TryLock
  <2>2. SharedOK'
    BY <2>1, Typing DEF SharedOK, Known
  <2>3. CASE End(p)
    BY <2>1, <2>2, <2>3, EndsQuietly
  <2>4. CASE ~End(p)
    <3>1. PICK c \in Command, m \in Config : c = cmd[p] /\ m = mem[p]
      BY Typing
    <3>2. cmd' = [cmd EXCEPT ![p] = c] /\ mem' = [mem EXCEPT ![p] = m] /\ "trying" \in Phase
      BY <2>1, <2>4, <3>1, Typing DEF Phase
    <3>3. Known(m) /\ m.id # 0
      BY <2>1, <2>4, <3>1, Typing DEF OwnOK, ProcOK
    <3> QED BY <2>1, <2>2, <2>4, <3>1, <3>2, <3>3, GoesOnQuietly
  <2> QED BY <2>3, <2>4
<1> QED BY <1>1, <1>2

\* A process that ends and leaves the config as it is.
LEMMA TypeLeaves ==
  ASSUME TypeInv, NEW p \in Proc,
         RebuildAfterInit(p) \/ Sync(p) \/ SyncFails(p) \/ Die(p)
  PROVE  TypeInv'
<1>1. /\ End(p) /\ UNCHANGED <<file, disk, stamp, shard, minted, wanted, commands>>
      /\ holder' \in {holder, NoProc}
  BY DEF RebuildAfterInit, Sync, SyncFails, Die, Unlock
<1>2. holder' # holder => holder = p
  <2>1. Die(p) \/ pc[p] = "locked"
    BY DEF RebuildAfterInit, Sync, SyncFails
  <2> QED BY <2>1, Typing DEF Die, OwnOK, ProcOK
<1>3. faults' \in 0 .. MaxFault
  BY Typing, ConfigAssumption DEF RebuildAfterInit, Sync, SyncFails, Die, Fault, SharedOK
<1>4. team' \subseteq 1 .. MaxCommand
  <2>1. Synced(mem[p]) \subseteq Id \cup {0}
    BY Typing DEF OwnOK, Config, Synced
  <2>2. CASE Sync(p)
    <3>1. mem[p].id # 0
      BY <2>2, Typing DEF Sync, OwnOK, ProcOK
    <3>2. Synced(mem[p]) \subseteq Id
      BY <2>1, <3>1, Typing DEF Synced, OwnOK, Config
    <3>3. \A i \in Synced(mem[p]) : shard[i] \subseteq 1 .. MaxCommand
      BY <3>2, Typing DEF SharedOK
    <3>4. UNION {shard[i] : i \in Synced(mem[p])} \subseteq 1 .. MaxCommand
      BY <3>3
    <3> QED BY <2>2, <3>4, Typing DEF Sync, SharedOK
  <2> QED BY <2>2, Typing DEF RebuildAfterInit, SyncFails, Die, SharedOK
<1>5. SharedOK'
  <2>1. holder' \in Proc \cup {NoProc}
    BY <1>1, Typing DEF SharedOK
  <2> QED BY <1>1, <1>3, <1>4, <2>1, Typing DEF SharedOK, Known
<1> QED BY <1>1, <1>2, <1>5, EndsQuietly

\* The number of an event that is recorded.
LEMMA TypeIngest == ASSUME TypeInv, NEW p \in Proc, Ingest(p) PROVE TypeInv'
<1>1. /\ pc[p] = "locked" /\ cmd[p].name = "ingest" /\ End(p) /\ holder' = NoProc
      /\ UNCHANGED <<file, disk, stamp, team, minted, wanted, commands, faults>>
  BY DEF Ingest, Unlock
<1>2. holder = p /\ mem[p].id \in Id
  BY <1>1, Typing DEF OwnOK, ProcOK, Config
<1> DEFINE n == Cardinality(Recorded) + 1
<1>3. /\ commands \in Nat /\ commands <= MaxCommand /\ minted \in Nat
      /\ Cardinality(Recorded) \in Nat
  BY Typing, RecordedFinite DEF SharedOK, TypeInv
<1>4. n \in 1 .. MaxCommand
  <2>1. p \in Ingesting
    BY <1>1 DEF Ingesting
  <2>2. /\ IsFiniteSet(Ingesting) /\ Cardinality(Recorded) + Cardinality(Ingesting) <= commands
    BY DEF TypeInv, Counted
  <2>3. Cardinality(Ingesting) \in Nat /\ Cardinality(Ingesting) # 0
    BY <2>1, <2>2, FS_CardinalityType, FS_EmptySet
  <2>4. \A r, k, c, mx \in Nat : (k # 0 /\ r + k <= c /\ c <= mx) => r + 1 \in 1 .. mx
    OBVIOUS
  <2>5. MaxCommand \in Nat
    BY Typing
  <2> QED BY <1>3, <2>2, <2>3, <2>4, <2>5
<1>5. shard' = [shard EXCEPT ![mem[p].id] = shard[mem[p].id] \cup {n}]
  BY <1>1 DEF Ingest
<1>6. n \in Nat
  BY <1>3
<1> HIDE DEF n
<1>7. shard' \in [Id -> SUBSET (1 .. MaxCommand)]
  <2>1. shard \in [Id -> SUBSET (1 .. MaxCommand)]
    BY Typing DEF SharedOK
  <2>2. shard[mem[p].id] \cup {n} \in SUBSET (1 .. MaxCommand)
    BY <1>2, <1>4, <2>1
  <2> QED BY <1>2, <1>5, <2>1, <2>2
<1>8. SharedOK'
  BY <1>1, <1>7, Typing DEF SharedOK, Known
<1>9. Counted'
  <2>1. Recorded' = Recorded \cup {n}
    BY <1>2, <1>5, Typing DEF Recorded, SharedOK
  <2>2. Cardinality(Recorded') \in Nat /\ Cardinality(Recorded') <= Cardinality(Recorded) + 1
    <3>1. IsFiniteSet(Recorded)
      BY RecordedFinite DEF TypeInv
    <3>2. /\ IsFiniteSet(Recorded \cup {n})
          /\ Cardinality(Recorded \cup {n}) =
               IF n \in Recorded THEN Cardinality(Recorded) ELSE Cardinality(Recorded) + 1
      BY <3>1, FS_AddElement
    <3> QED BY <1>3, <2>1, <3>2
  <2>3. pc' = [pc EXCEPT ![p] = "idle"] /\ cmd' = [cmd EXCEPT ![p] = Idle]
    BY <1>1 DEF End, Goto
  <2>4. pc'[p] = "idle" /\ \A q \in Proc \ {p} : pc'[q] = pc[q] /\ cmd'[q] = cmd[q]
    BY <2>3, Typing
  <2>5. p \notin Minting /\ p \notin Minting' /\ p \in Ingesting /\ p \notin Ingesting'
    BY <1>1, <2>4 DEF Minting, Ingesting
  <2>6. /\ One(p \in Minting) = 0 /\ One(p \in Minting') = 0
        /\ One(p \in Ingesting) = 1 /\ One(p \in Ingesting') = 0
    BY <2>5 DEF One
  <2>7. minted' + One(p \in Minting') + commands <= minted + One(p \in Minting) + commands'
    BY <1>1, <1>3, <2>6
  <2>8. Cardinality(Recorded') + One(p \in Ingesting') + commands
          <= Cardinality(Recorded) + One(p \in Ingesting) + commands'
    <3>1. \A r, r1, k \in Nat : r1 <= r + 1 => r1 + 0 + k <= r + 1 + k
      OBVIOUS
    <3> QED BY <1>1, <1>3, <2>2, <2>6, <3>1
  <2> QED BY <1>1, <1>3, <2>2, <2>4, <2>7, <2>8, CountStep
<1>10. holder' \in {holder, NoProc} /\ (holder' # holder => holder = p)
  BY <1>1, <1>2
<1> QED BY <1>1, <1>8, <1>9, <1>10, Ends

\* A setting or a rotation changes the config in memory.
LEMMA TypeSetSetting == ASSUME TypeInv, NEW p \in Proc, SetSetting(p) PROVE TypeInv'
<1>1. /\ pc[p] = "locked" /\ cmd[p].name = "set" /\ Goto(p, "saving")
      /\ UNCHANGED <<file, disk, holder, stamp, cmd, shard, team, minted, wanted, commands, faults>>
  BY DEF SetSetting
<1>2. /\ mem[p] \in Config /\ cmd[p] \in Command /\ Known(mem[p]) /\ mem[p].id # 0
  BY <1>1, Typing DEF OwnOK, ProcOK
<1>3. cmd[p].val \in Setting \cup {Unset}
  BY <1>2 DEF Command
<1>4. PICK m \in Config : /\ m = [mem[p] EXCEPT !.set = cmd[p].val]
                          /\ m.id = mem[p].id /\ m.retired = mem[p].retired
  BY <1>2, <1>3, ConfigOps
<1>5. PICK c \in Command : c = cmd[p]
  BY <1>2
<1>6. cmd' = [cmd EXCEPT ![p] = c] /\ mem' = [mem EXCEPT ![p] = m] /\ "saving" \in Phase
  BY <1>1, <1>4, <1>5, Typing DEF SetSetting, Phase
<1>7. SharedOK'
  BY <1>1, Typing DEF SharedOK, Known
<1>8. Known(m) /\ m.id # 0
  BY <1>2, <1>4 DEF Known
<1> QED BY <1>1, <1>5, <1>6, <1>7, <1>8, GoesOnQuietly

\* A rotation takes an id nobody knew.
LEMMA TypeRotate == ASSUME TypeInv, NEW p \in Proc, RotateInstall(p) PROVE TypeInv'
<1>1. /\ pc[p] = "locked" /\ cmd[p].name = "rotate" /\ Goto(p, "saving") /\ minted' = minted + 1
      /\ UNCHANGED <<file, disk, holder, stamp, cmd, shard, team, wanted, commands, faults>>
  BY DEF RotateInstall
<1>2. /\ mem[p] \in Config /\ cmd[p] \in Command /\ Known(mem[p]) /\ mem[p].id # 0 /\ holder = p
  BY <1>1, Typing DEF OwnOK, ProcOK
<1>3. minted + 1 \in Id /\ minted \in Nat /\ minted <= minted'
  BY <1>1, MintsId, Typing DEF Minting, SharedOK
<1>4. /\ mem[p].id # minted + 1 /\ minted + 1 \notin mem[p].retired
      /\ mem[p].id \in Nat /\ mem[p].retired \subseteq Nat
  <2>1. mem[p].id \in Nat /\ mem[p].retired \subseteq Nat
    BY <1>2 DEF Config, Id
  <2>2. mem[p].id <= minted /\ \A i \in mem[p].retired : i <= minted
    BY <1>2 DEF Known
  <2>3. ~(minted + 1 <= minted)
    BY <1>3
  <2> QED BY <2>1, <2>2, <2>3
<1>5. PICK m \in Config : /\ m = Rotated(mem[p], minted + 1) /\ m.id = minted + 1
                          /\ m.retired = mem[p].retired \cup {mem[p].id}
  BY <1>2, <1>3, <1>4, RotatedConfig
<1>6. PICK c \in Command : c = cmd[p]
  BY <1>2
<1>7. cmd' = [cmd EXCEPT ![p] = c] /\ mem' = [mem EXCEPT ![p] = m] /\ "saving" \in Phase
  BY <1>1, <1>5, <1>6, Typing DEF RotateInstall, Phase
<1>8. SharedOK'
  <2>1. Known(disk)'
    BY <1>1, <1>3, Typing, KnownLater DEF SharedOK, Known
  <2> QED BY <1>1, <1>3, <2>1, Typing DEF SharedOK
<1>9. m.id # 0 /\ Known(m)'
  <2>1. \A n \in Nat : n <= minted => n <= minted + 1
    BY <1>3
  <2>2. mem[p].id <= minted + 1 /\ \A i \in mem[p].retired : i <= minted + 1
    BY <1>2, <1>4, <2>1 DEF Known
  <2>3. m.id <= minted + 1 /\ m.id # 0
    BY <1>3, <1>5
  <2> QED BY <1>1, <1>5, <2>2, <2>3 DEF Known
<1>10. /\ pc'[p] = "saving" /\ cmd'[p] = cmd[p]
       /\ \A q \in Proc \ {p} : pc'[q] = pc[q] /\ cmd'[q] = cmd[q]
  BY <1>1, Typing DEF Goto
<1>11. p \in Minting /\ p \notin Minting' /\ (p \in Ingesting' => p \in Ingesting)
  BY <1>1, <1>10 DEF Minting, Ingesting
<1>12. Counted'
  BY <1>1, <1>10, <1>11, Mints
<1> QED BY <1>1, <1>2, <1>3, <1>7, <1>8, <1>9, <1>12, GoesOn

\* Time passes, or nothing happens.
LEMMA TypeStutter == ASSUME TypeInv, Tick \/ UNCHANGED vars PROVE TypeInv'
<1>1. /\ stamp' \in {stamp, FALSE}
      /\ UNCHANGED <<file, disk, holder, pc, cmd, mem>>
      /\ UNCHANGED <<shard, team, minted, wanted, commands, faults>>
  BY DEF Tick, vars
<1>2. TypeOK'
  BY <1>1 DEF TypeInv, TypeOK
<1>3. Minting' = Minting /\ Ingesting' = Ingesting /\ Recorded' = Recorded
  BY <1>1 DEF Minting, Ingesting, Recorded
<1>4. Counted'
  BY <1>1, <1>3 DEF TypeInv, Counted
<1> QED BY <1>1, <1>2, <1>4 DEF TypeInv, ProcOK, Known

\* Every step keeps the system well typed.
LEMMA TypeStep == ASSUME TypeInv, [Next]_vars PROVE TypeInv'
<1>1. ASSUME NEW p \in Proc, Step(p) \/ SyncFails(p) \/ Die(p) PROVE TypeInv'
  <2>1. Lock(p) => holder = NoProc
    BY DEF Lock
  <2> QED BY <1>1, <2>1, TypeInitRead, TypeTruncate, TypeWrite, TypeTakesLock, TypeLooks,
             TypeIngest, TypeSetSetting, TypeRotate, TypeLeaves DEF Step
<1> QED BY <1>1, TypeOpen, TypeStutter DEF Next

\* Every variable keeps its type: a shard, a config and a command never refer to an
\* identity that was not minted, and an id is never current and retired at once, whatever
\* processes initialize the store, die in a save or rotate at the same time.
THEOREM Typed == Spec => []TypeOK
<1>1. TypeInv => TypeOK
  BY DEF TypeInv
<1> QED BY <1>1, TypeInit, TypeStep, PTL DEF Spec

===============================================================================
