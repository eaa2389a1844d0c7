------------------------------ MODULE StoreConfig -----------------------------
(***************************************************************************)
(* The commands that share one store directory: several kg processes, one  *)
(* kg.config.json and one lock (internal/store, internal/engine, main.go). *)
(*                                                                         *)
(* The config holds the identity that decides which shard is written and   *)
(* synced, and the settings. It is written in place, truncated and then    *)
(* filled, under the lock by most commands and without it by Init. Every   *)
(* command reads it once before it waits for the lock.                     *)
(***************************************************************************)
EXTENDS Naturals, FiniteSets

CONSTANTS
  Proc,         \* processes: a terminal, an agent, a hook
  Hook,         \* those of them that run nothing but kg sync --auto
  NoProc,       \* nobody holds the lock
  Setting,      \* values of the settings of the config
  Unset,        \* no value
  Existing,     \* does the store exist already?
  InitAlone,    \* environment: nobody initializes a store while it is in use
  CrashInSave,  \* may a process die between truncating the config and filling it?
  MaxCommand,   \* bound: commands other than background syncs
  MaxFault      \* bound: deaths of a process and failed syncs

ASSUME ConfigAssumption ==
  /\ Hook \subseteq Proc /\ NoProc \notin Proc /\ Unset \notin Setting
  /\ Existing \in BOOLEAN /\ InitAlone \in BOOLEAN /\ CrashInSave \in BOOLEAN
  /\ MaxCommand \in Nat /\ MaxFault \in Nat

VARIABLES
  file,     \* kg.config.json: "missing", "torn" (truncated, or a mixture), "whole"
  disk,     \* what it says when it is whole
  holder,   \* the process that holds .kg.lock
  stamp,    \* .autosync-stamp is younger than the cooldown
  pc,       \* where the command of each process is
  cmd,      \* the command of each process
  mem,      \* s.Config of each process
  shard,    \* the events in log/<install>.ndjson, numbered as they were recorded
  team,     \* the events the remote has got
  minted,   \* how many install ids exist
  wanted,   \* the value that was last set successfully (ghost)
  commands, \* how many commands have been started
  faults    \* how many faults have happened

vars == <<file, disk, holder, stamp, pc, cmd, mem, shard, team, minted, wanted, commands, faults>>

Id == 1 .. MaxCommand + 1
\* An id is current or retired, never both.
Config == {c \in [id : Id \cup {0}, retired : SUBSET Id, set : Setting \cup {Unset}] :
             c.id \notin c.retired}
Fresh(i) == [id |-> i, retired |-> {}, set |-> Unset]
NoConfig == Fresh(0)

\* kg ingest, kg sync, kg sync --auto, kg config set/unset, kg rotate, kg init, and
\* kg init --token, which saves the config a second time.
Name == {"ingest", "sync", "auto", "set", "rotate", "init", "inittoken"}
Command == [name : Name, val : Setting \cup {Unset}]
Idle == [name |-> "sync", val |-> Unset]

Phase == {"idle", "initializing", "saving", "writing", "opened", "trying", "locked"}

Init ==
  /\ file = IF Existing THEN "whole" ELSE "missing"
  /\ disk = IF Existing THEN Fresh(1) ELSE NoConfig
  /\ holder = NoProc
  /\ stamp = FALSE
  /\ pc = [p \in Proc |-> "idle"]
  /\ cmd = [p \in Proc |-> Idle]
  /\ mem = [p \in Proc |-> NoConfig]
  /\ shard = [i \in Id |-> {}]
  /\ team = {}
  /\ minted = IF Existing THEN 1 ELSE 0
  /\ wanted = Unset
  /\ commands = 0
  /\ faults = 0

Goto(p, phase) == pc' = [pc EXCEPT ![p] = phase]

\* The process ends, and its memory with it.
End(p) ==
  /\ Goto(p, "idle")
  /\ cmd' = [cmd EXCEPT ![p] = Idle]
  /\ mem' = [mem EXCEPT ![p] = NoConfig]

IsInit(c) == c.name \in {"init", "inittoken"}

\* Reads, rotations, background syncs and the clearing of a setting never create a store.
OpensRead(c) == c.name \in {"auto", "rotate"} \/ (c.name = "set" /\ c.val = Unset)

\* The environment: who would initialize the store, or is doing it, is alone. A writer that
\* finds the config half-written initializes the store too; beside it are only the process
\* that is writing, and hooks.
Initializing(p) ==
  \/ pc[p] = "initializing"
  \/ pc[p] # "idle" /\ IsInit(cmd[p])
  \/ pc[p] \in {"saving", "writing"} /\ holder # p

Undisturbed(p, c) ==
  InitAlone => \A q \in Proc \ {p} :
    \/ pc[q] = "idle"
    \/ /\ file # "missing" /\ ~IsInit(c) /\ ~Initializing(q)
       /\ file = "torn" => holder = q \/ q \in Hook

------------------------------------------------------------------------------
(* Opening the store and, for a command that may create one, initializing. *)

\* A hook starts background syncs again and again; people start a few commands. open and
\* openRead: a config that cannot be read sends a writer to Init and ends a reader.
Open(p, c) ==
  /\ pc[p] = "idle"
  /\ (c.name = "auto") = (p \in Hook)
  /\ c.name \in {"set", "init"} \/ c.val = Unset
  /\ OpensRead(c) => file = "whole"
  /\ Undisturbed(p, c)
  /\ commands' = IF p \in Hook THEN commands ELSE commands + 1
  /\ commands' <= MaxCommand
  /\ cmd' = [cmd EXCEPT ![p] = c]
  /\ IF file = "whole" /\ ~IsInit(c)
       THEN mem' = [mem EXCEPT ![p] = disk] /\ Goto(p, "opened")
       ELSE mem' = mem /\ Goto(p, "initializing")
  /\ UNCHANGED <<file, disk, holder, stamp, shard, team, minted, wanted, faults>>

\* The config of a store that did not exist, with a new install id.
NewConfig == Fresh(minted + 1)

WithSetting(c, val) == IF val = Unset THEN c ELSE [c EXCEPT !.set = val]

\* Init: load or create the config, and overlay the flags of kg init.
InitRead(p) ==
  LET val == IF cmd[p].name = "init" THEN cmd[p].val ELSE Unset
  IN  /\ pc[p] = "initializing"
      /\ CASE file = "whole" ->
                /\ mem' = [mem EXCEPT ![p] = WithSetting(disk, val)]
                /\ Goto(p, "saving") /\ UNCHANGED <<cmd, minted>>
           [] file = "missing" ->
                /\ mem' = [mem EXCEPT ![p] = WithSetting(NewConfig, val)]
                /\ minted' = minted + 1 /\ Goto(p, "saving") /\ UNCHANGED cmd
           [] file = "torn" -> End(p) /\ UNCHANGED minted
      /\ UNCHANGED <<file, disk, holder, stamp, shard, team, wanted, commands, faults>>

\* saveConfig, os.WriteFile: open with O_TRUNC ...
Truncate(p) ==
  /\ pc[p] = "saving"
  /\ file' = "torn"
  /\ Goto(p, "writing")
  /\ UNCHANGED <<disk, holder, stamp, cmd, mem, shard, team, minted, wanted, commands, faults>>

\* ... then write. Over the longer text of another process that truncated and wrote in
\* the meantime, the end of that text stays.
Length(c) == Cardinality(c.retired) + (IF c.set = Unset THEN 0 ELSE 1)
Mixed(old, new) == file = "whole" /\ Length(old) > Length(new)

Write(p) ==
  /\ pc[p] = "writing"
  /\ file' = IF Mixed(disk, mem[p]) THEN "torn" ELSE "whole"
  /\ disk' = mem[p]
  /\ wanted' = IF cmd[p].name \in {"set", "init"} THEN mem[p].set ELSE wanted
  /\ IF holder = p
       THEN holder' = NoProc /\ End(p)
       ELSE /\ UNCHANGED <<holder, mem>>
            /\ cmd' = [cmd EXCEPT ![p].name = IF @ = "inittoken" THEN "init" ELSE @]
            /\ Goto(p, IF cmd[p].name = "inittoken" THEN "saving" ELSE "opened")
  /\ UNCHANGED <<stamp, shard, team, minted, commands, faults>>

------------------------------------------------------------------------------
(* The lock.                                                               *)

\* Wrong on purpose: the config that was read before the wait is used.
ReloadStale(p) == mem[p]

\* lock2: the config is read again under the lock; one that does not parse is ignored.
Reload(p) == IF file = "whole" THEN disk ELSE mem[p]

Lock(p) ==
  /\ pc[p] = "opened"
  /\ cmd[p].name # "auto"
  /\ holder = NoProc
  /\ holder' = p
  /\ mem' = [mem EXCEPT ![p] = Reload(p)]
  /\ Goto(p, "locked")
  /\ UNCHANGED <<file, disk, stamp, cmd, shard, team, minted, wanted, commands, faults>>

\* The stamp is looked at before the lock is tried ...
CheckStamp(p) ==
  /\ pc[p] = "opened"
  /\ cmd[p].name = "auto"
  /\ IF stamp THEN End(p) ELSE Goto(p, "trying") /\ UNCHANGED <<cmd, mem>>
  /\ UNCHANGED <<file, disk, holder, stamp, shard, team, minted, wanted, commands, faults>>

\* ... and set under it. A lock that is taken means: not this time.
TryLock(p) ==
  /\ pc[p] = "trying"
  /\ IF holder = NoProc
       THEN /\ holder' = p /\ stamp' = TRUE
            /\ mem' = [mem EXCEPT ![p] = Reload(p)]
            /\ Goto(p, "locked") /\ UNCHANGED cmd
       ELSE End(p) /\ UNCHANGED <<holder, stamp>>
  /\ UNCHANGED <<file, disk, shard, team, minted, wanted, commands, faults>>

Unlock(p) == holder' = NoProc /\ End(p)

------------------------------------------------------------------------------
(* What the commands do under the lock.                                    *)

Recorded == UNION {shard[i] : i \in Id}

\* Append, to the shard of the identity in memory.
Ingest(p) ==
  /\ pc[p] = "locked" /\ cmd[p].name = "ingest"
  /\ shard' = [shard EXCEPT ![mem[p].id] = @ \cup {Cardinality(Recorded) + 1}]
  /\ Unlock(p)
  /\ UNCHANGED <<file, disk, stamp, team, minted, wanted, commands, faults>>

\* UpdateConfig: mutate, then save.
SetSetting(p) ==
  /\ pc[p] = "locked" /\ cmd[p].name = "set"
  /\ mem' = [mem EXCEPT ![p].set = cmd[p].val]
  /\ Goto(p, "saving")
  /\ UNCHANGED <<file, disk, holder, stamp, cmd, shard, team, minted, wanted, commands, faults>>

\* Wrong on purpose: a rotation starts with an empty list of retired ids.
RotatedForgetting(c, i) == [c EXCEPT !.id = i, !.retired = {c.id}]

\* Wrong on purpose: the new id is retired, not the old one.
RotatedRetiringNew(c, i) == [c EXCEPT !.id = i, !.retired = @ \cup {i}]

Rotated(c, i) == [c EXCEPT !.id = i, !.retired = @ \cup {c.id}]

\* RotateInstall: retire, mint, save.
RotateInstall(p) ==
  /\ pc[p] = "locked" /\ cmd[p].name = "rotate"
  /\ mem' = [mem EXCEPT ![p] = Rotated(@, minted + 1)]
  /\ minted' = minted + 1
  /\ Goto(p, "saving")
  /\ UNCHANGED <<file, disk, holder, stamp, cmd, shard, team, wanted, commands, faults>>

\* kg init ends with a rebuild of the graph, under the lock.
RebuildAfterInit(p) ==
  /\ pc[p] = "locked" /\ IsInit(cmd[p])
  /\ Unlock(p)
  /\ UNCHANGED <<file, disk, stamp, shard, team, minted, wanted, commands, faults>>

Fault == faults < MaxFault /\ faults' = faults + 1

\* Wrong on purpose: only the shard of the current identity is looked at.
SyncedCurrentOnly(c) == {c.id}

Synced(c) == {c.id} \cup c.retired

\* syncLocked: the own shard is pushed and what is unsynced in retired ones is
\* re-recorded and pushed with it (SegmentSync). A shard of nobody is neither.
Sync(p) ==
  /\ pc[p] = "locked" /\ cmd[p].name \in {"sync", "auto"}
  /\ team' = team \cup UNION {shard[i] : i \in Synced(mem[p])}
  /\ Unlock(p)
  /\ UNCHANGED <<file, disk, stamp, shard, minted, wanted, commands, faults>>

SyncFails(p) ==
  /\ pc[p] = "locked" /\ cmd[p].name \in {"sync", "auto"}
  /\ Fault
  /\ Unlock(p)
  /\ UNCHANGED <<file, disk, stamp, shard, team, minted, wanted, commands>>

\* The process dies; the kernel drops its lock.
Die(p) ==
  /\ pc[p] # "idle"
  /\ CrashInSave \/ pc[p] # "writing"
  /\ Fault
  /\ holder' = IF holder = p THEN NoProc ELSE holder
  /\ End(p)
  /\ UNCHANGED <<file, disk, stamp, shard, team, minted, wanted, commands>>

\* The cooldown is over.
Tick ==
  /\ stamp
  /\ stamp' = FALSE
  /\ UNCHANGED <<file, disk, holder, pc, cmd, mem, shard, team, minted, wanted, commands, faults>>

------------------------------------------------------------------------------

Step(p) ==
  \/ InitRead(p) \/ Truncate(p) \/ Write(p)
  \/ Lock(p) \/ CheckStamp(p) \/ TryLock(p)
  \/ Ingest(p) \/ SetSetting(p) \/ RotateInstall(p) \/ RebuildAfterInit(p) \/ Sync(p)

Next ==
  \/ \E p \in Proc : Step(p) \/ SyncFails(p) \/ Die(p) \/ \E c \in Command : Open(p, c)
  \/ Tick

Spec == Init /\ [][Next]_vars

\* A command that runs goes on, time passes, and the hooks fire at the end of every turn.
\* flock gives the lock to one of those who wait, so that a waiting command gets its turn.
Fairness ==
  /\ WF_vars(Tick)
  /\ \A p \in Proc : WF_vars(Step(p)) /\ SF_vars(Lock(p))
  /\ \A p \in Hook : WF_vars(\E c \in Command : Open(p, c))

FairSpec == Spec /\ Fairness

------------------------------------------------------------------------------
(* Properties.                                                             *)

TypeOK ==
  /\ file \in {"missing", "torn", "whole"}
  /\ disk \in Config
  /\ holder \in Proc \cup {NoProc}
  /\ stamp \in BOOLEAN
  /\ pc \in [Proc -> Phase]
  /\ cmd \in [Proc -> Command]
  /\ mem \in [Proc -> Config]
  /\ shard \in [Id -> SUBSET (1 .. MaxCommand)]
  /\ team \subseteq 1 .. MaxCommand
  /\ minted \in Nat
  /\ wanted \in Setting \cup {Unset}
  /\ commands \in 0 .. MaxCommand
  /\ faults \in 0 .. MaxFault

\* A shard this store has written is the shard of its current or of a retired identity,
\* so that a sync takes it along, whatever commands wrote the config at the same time
\* ("leaving the rotated shard neither current nor retired" is what UpdateConfig is for).
NoOrphanShard ==
  file = "whole" => \A i \in Id : shard[i] # {} => i \in {disk.id} \cup disk.retired

\* A setting that was saved stays until the next one is, although rotations and
\* other settings are written as whole files from what a process has in memory.
SettingKept == file = "whole" => disk.set = wanted

\* An event is appended under the identity the config has at that moment, however
\* long the command has waited for the lock.
CurrentIdentity ==
  [][\A i \in Id : shard'[i] # shard[i] => file = "whole" /\ i = disk.id]_vars

\* Background syncs that skip (cooldown, a taken lock), fail or die, and rotations in
\* between, only delay: what was recorded gets to the team.
Delivered == <>[](Recorded \subseteq team)
===============================================================================
