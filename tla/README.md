# kgai, verified: TLA+ models and proofs

kgai keeps a team's decisions as events in per-writer append-only shards, projects them
into an element graph, and exchanges the shards through an object store or a git remote.
These modules model that: how shards travel (`SegmentSync`, `GitSync`), what the graph makes
of them (`TeamGraph`) and what is read from it (`Reads`), what happens to the files underneath
and to a viewer that reads them without a lock (`KgRead`), the commands that share a store's
config and lock (`StoreConfig`), and the settings a repository may bring along
(`Layers`, `TrustRegistry`); and why none of these loses or invents anything, or where it does.

Run a check with `tlc -config <run>.cfg <module>` and a proof with
`tlapm <module>Proofs.tla`; `PROJECT.json` lists the runs, the findings, the source
lines every definition stands for, and the mutations each property is known to catch.

## 1. The system

| Component | State | Operations | Hard part |
|---|---|---|---|
| Store log (`internal/store/store.go`, `internal/event`) | `log/<install>.ndjson` shards: hash chains of events with Lamport stamps | `Append`, `AppendForeign`, `RewriteShard`, `ReEmit`, `NextLamport`, `ReadAll`, the store lock | one writer per shard; partial writes; stamps from last lines |
| Store identity (`machine.go`) | `install_id`, `machine`, `retired_installs` in `kg.config.json` | `applyMachineBinding` on every lock, `kg rotate` | copied and moved directories, machines without a fingerprint |
| Object sync (`internal/remote/objectsync.go`, `segments.go`) | the bucket: write-once objects `<install>/<seq>-<count>` | verify own shard, reconcile retired shards, push tail, pull tails | twins, lost answers, partial pulls, crashes |
| Transports (`s3.go`, `cloud.go`, `git.go`) | credentials, HTTP sessions, a git worktree | list, get, conditional put; commit/fetch/merge/push of the whole directory | refusals that look alike; retries inside the SDK; a .gitignore that is itself shared |
| Engine (`internal/engine/engine.go`) | none of its own: it drives log and graph under the lock | `Ingest`, `Sync`, `SyncAuto`, `Rebuild`, `openWrite`, `openRead` | log and graph are two stores that must agree |
| Projection (`internal/graph`, `internal/replay`) | `graph.kuzu`: elements, decisions, links, SHAPES, SUPERSEDES, `_Applied` | `ApplyEvent`, `BulkLoad`, heads and conflicts | order of application; stubs; authority per element |
| Reads and search (`reads.go`, `search.go`, `replay/query.go`, `stats.go`) | none | heads, conflicts, context, history, as-of, for `kg` and again for the viewer | two implementations over two projections must agree |
| Settings, layers, trust (`settings.go`, `globalconfig.go`, `trust.go`) | three config files and a registry of approved fingerprints | `Effective`, `WriteLayer`, `Trust`, `Untrust`, `Dismiss` | unlocked read-modify-write |
| Turn marks (`internal/turn`, hooks) | `turn-<session>` marker files | `Mark`, `Take`, `Sweep` | hooks in several processes |
| Viewer (`internal/view`, `cmd/kgread`) | one immutable model of the log | `open`, `refresh`, `watch`, queries | the watcher races the client |
| CLI, editor extension, installer, host integrations | - | wrappers around the above | - |

How they interact: the CLI opens a store and calls the engine; the engine takes the store
lock, appends to the own shard, and applies the event to the graph. A sync, under the same
lock, calls the transport, which reads and writes shards directly, and then projects what
arrived. Hooks start background syncs and count edits. The viewer only reads the log.
Stores of different people share nothing but the bucket, or the git remote and the `.gitignore` in
it; repositories of one person share the registry of approvals.

What makes each correct:

* log and sync: an event, once recorded, reaches everybody exactly once and in the order of
  its writer; a shard has one writer; a stamp is later than everything its author had.
* projection: the graph is a function of the log, whatever path produced it; concurrent
  decisions, and only those, are branches; a later decision resolves them.
* engine: a failure between log and graph costs at most freshness.
* config and lock: a command acts on what the config says when it acts, and a save undoes nothing.
* git: only decisions travel, and all of them do.
* trust: a committed file decides nothing that a person has not approved, and an answer holds until it is
  revoked.
* reads: one log has one answer, whoever computes it.

## 2. The modules

```
UnionLog                 what sync promises: a growing set of events, everyone catches up
  ^ refined by SegmentSync, GitSync and TeamGraph
SegmentPlan  --->  SegmentSync  --->  MCSegmentSync (runs sync_*)
(PlanPush, PlanPull,   (stores, ids,          SegmentSyncProofs
 fork test: pure)       bucket, processes)      ^
SegmentPlanProofs -----------------------------'  (lemmas about segments, chains, prefixes)
  ^ FoldTheory  (induction and folds, for any operator)
                   GitSync                    (run git_sync)
                       (clones, trees)        GitSyncProofs
Projection   --->  TeamGraph    --->  Reads    --->  MCTeamGraph (runs graph_*)
(ApplyEvent, heads,    (log, graph,     (what kg and   TeamGraphProofs
 decision building)     sync paths)      kgread answer)  (also uses FoldTheory)
LogFile      --->  KgRead       --->  MCKgRead (runs view_*)
(lines of a shard)     (writers, model        KgReadProofs
                        loads, server)
                   StoreConfig                (run store_config)
                       (config, lock)         StoreConfigProofs
Layers       --->  TrustRegistry --->  MCTrust (run trust)
(layers, resolvers,    (files, registry,      TrustProofs
 fingerprints: pure)    commands)
```

The state machines are not composed with one another. The store lock is what separates
them: `TeamGraph` takes a whole locked operation as one step, `SegmentSync` and `GitSync` look
inside a sync at what other stores can see through the remote, `KgRead` inside a write at what
a process without the lock can see on disk, and `StoreConfig` at how processes get the lock.

### SegmentPlan, SegmentSync

`SegmentPlan` holds the pure functions of `segments.go` and the decisions that
`objectsync.go` takes on them: what to push, what to pull, whether the remote's shard is a
prefix of mine. `SegmentSync` is the state machine.

| Variable | In the code |
|---|---|
| `cfg[s]` | the identity in `kg.config.json`: `install_id`, `machine`, `retired_installs` |
| `at[s]` | the machine the store directory lies on |
| `shard[s]` | `log/<install>.ndjson` of store s, per install |
| `bucket` | the objects of the remote: install, sequence number, count, events |
| `minted` | how many install ids were ever made |
| `recorded` | the decisions recorded anywhere (ghost) |
| `pc[s]`, `snap[s]` | where the sync of s is, and what it listed at its start |
| `retiring[s]`, `orphans[s]` | retired ids still to reconcile; events in memory between `RewriteShard` and `ReEmit` |
| `pulling[s]` | foreign installs still to pull |
| `forked[s]` | the last sync ended in `forkError` |
| `faults` | bound |

An event is the chain of pairs of a stamp and a decision from the first event of its shard to
itself: two events have the same hash when the two chains are the same.
One sync is many steps: list and verify; reconcile each retired id (adopt, then re-emit
event by event); push one segment; pull shard by shard; between any two of them another
store acts, and the process may die. Dying while it re-emits also stands for an error of `NextLamport` or
`Append` there: `ReEmit` returns it, the sync ends, and the orphans in memory are gone the same way. Steps inside one store that hold the lock and cannot be
observed by another store are one step.

`UnionLog` is the promise: a set of recorded decisions that only grows, and stores that know
more and more of it. `ImplementsUnionLog` is its refinement, step by step in `SegmentSync` and `GitSync`; in
`TeamGraph`, where a sync is one step, that step uploads and downloads in one go (`Exchange`).

### LogFile, KgRead

`LogFile` is one shard file as a sequence of lines, each an event or malformed, with the bit
whether the last one is terminated, and its size. The code sees the same file in three ways:
`countLines` counts newlines, `readShard` skips what does not parse, `NextLamport` looks at the
last line alone. A write that is cut leaves an unterminated line, and whatever is written
next is joined to it.

`KgRead` has two kinds of processes. A folder's writer, under the store's lock, creates
the store (`MakeLog`), rewrites its config (`BeginSave`, `EndSave`: truncated, then written),
records (`BeginIngest`) and pulls (`BeginPull`); both of these write lines, which are on disk in part
(`HalfLine`) or whole (`WholeLine`), and the process may die at any step (`Die`). `kgread`,
without a lock, has two threads that replace its model.

| Variable | In the code |
|---|---|
| `disk[s]` | `log/<install>.ndjson` |
| `config[d]` | `kg.config.json` of the store of folder d: no log directory yet, missing, truncated, whole |
| `op[d]`, `todo[d]`, `before[d]` | the lock holder's work: which file, which events are left, the file before the line being written |
| `acked[d]` | the events `kg` reported as recorded (ghost) |
| `model` | `server.model`: folder, error, fingerprint, events |
| `asked`, `watched` | the models that `dispatch` and `watch` are loading |
| `same` | whether `s.current() == cur` still holds for the watcher |
| `opened` | the folder the client opened last (ghost) |
| `saved`, `tried`, `crashes`, `asks` | bounds |

`view.Load` takes the fingerprint one file per step, opens the store in one (`store.Open`), and reads one shard
file per step, in the order of their names, so that writes happen anywhere in between. A folder whose `store` setting
`ResolveRootIn` refuses (`Refused`) becomes a model in error that has no root (`NoRoot`): the watcher never compares it,
and only the client's next `open` replaces it. The watcher's comparison (`Check`) and
its replacement (`Swap`) are two steps, as each takes the mutex for itself.

### Projection, TeamGraph

`Projection` translates `ApplyEvent` (and its twin `replay.Projection.Apply`) into
functions on a graph record, with the `MERGE ... ON CREATE` semantics that decide most of
its behaviour, and `buildDecisionEvent` into a function from what a person writes, and the
graph they have, to an event. Ids are values; decisions are numbers because the order of
hashes breaks ties of stamps. An element has one property, and an event remembers in a ghost
field `saw` which decisions its author had, which is what the correctness of heads is about.

| Variable | In the code |
|---|---|
| `log[s]` | the events of all shards of store s (how they got there is `SegmentSync`) |
| `graph[s]` | `graph.kuzu`, or `NoGraph` |
| `writer[s]` | the current install of s, as store and number of rotations |
| `bucket` | the events the remote holds |

Each operation holds the store lock from start to end, so each is one action: `Ingest`,
`IngestNoOp`, `IngestFails`, `Sync`, `SyncFails`, `Rebuild`, `OpenRead`, `LoseGraph`,
`Rotate`, `RebuildFails`. A sync downloads from every other writer any prefix of what is missing.
The graph file exists from the first moment of a rebuild, and `openWrite` only fills one that is missing. So
`RebuildFails` leaves the replay of the first events of the log (`Begun`), and that is what is read, and added to,
until the next rebuild. It is how `kg rebuild` and the first opening of a store end when they are interrupted; a
sync interrupted in its rebuild is a `SyncFails` and then a `RebuildFails`. (Those are two faults, which the proofs cover; the run has one.) The bulk loader writes table
by table, and a death between two tables is not modelled.
`BulkPull` stands for the constant 50 beyond which a pull is projected by a rebuild.

A recorded event has one decision, as in the code; a batch is a sequence of `Ingest`
steps ending, when it fails, in `IngestFails`.

### Reads

What is computed from a graph (`kg conflicts`, `kg context`, `kg history`), from the log
(`kg as-of`), and once more in Go from the viewer's own projection (`replay/query.go`), as pure
operators on top of `TeamGraph`. Histories are lists: `kg history` sorts by date alone (`reads.go:167`), which leaves
ties open, so it is a set of lists (`Listings`), and the viewer, which breaks ties by id, must show one of them. `RecordedAt` gives a decision a date of its own, as an import
may; `Sorted` keeps the order in which sides and reasons are shown. `WhyMax` stands for the constant 4, of which
only that it is more than 1 matters.

### StoreConfig

Several processes on one store directory. A command opens the store (`Open`), which reads
the config once, waits for the lock (`Lock`; `CheckStamp` and `TryLock` for `kg sync --auto`),
reads the config again (`Reload`), and acts; a save is two steps (`Truncate`, `Write`) and
between them the file is torn for everybody else. `Init` (`InitRead` and the same two steps)
does that without the lock.

| Variable | In the code |
|---|---|
| `file`, `disk` | `kg.config.json`: missing, torn or whole, and what it says |
| `holder` | who holds `.kg.lock` |
| `stamp` | `.autosync-stamp` is younger than the cooldown |
| `pc[p]`, `cmd[p]`, `mem[p]` | where the command of process p is, what it is, its `s.Config` |
| `shard[i]` | the events in `log/<i>.ndjson` |
| `team` | the events that were pushed |
| `minted`, `wanted` | install ids so far; the setting that was last saved (ghost) |

### GitSync

One clone per store; a shard is a length, because it has one writer and only grows, and a
commit is the tree it holds: lengths, the `.gitignore`, and whether the config with the token is
in it. A `.gitignore` is a set of lines: the store's own rules, harmless lines, lines that take a
file out of the rules (`!kg.config.json`) or the log out of the commit (`log/`), and conflict
markers. `Begin` is `EnsureScaffold` and the commit, `BeginEdited` the same with an edit in
between; `Merge`, `MergeConflict` and `MergeRefused` are what git makes of fetch and merge
(when both sides changed the `.gitignore`, a conflict or a merge line by line, as their places in the file have it),
`Push`, `PushFails` and `Offline` the ends of a sync, with the projection by line counts
(`Apply`). `merging` is `MERGE_HEAD`. That a commit is its tree means that two commits of one content are one: a merge
that would only join their histories does not happen here, and changes no file there. The remote starts empty. The
clones have committed the token, as older engines did, but none has pushed it: what a remote already has,
`Untrack` does not take out of its history, and `TokenPrivate` does not speak of it.

### Layers, TrustRegistry

`Layers` translates which layer may set which key, the fingerprint of a committed `.kgairc`, and the
two resolvers of the store: `StoreRootFromLayers`, used before there is a store, and `LoadLayers`
with `Effective`, which is what `kg config` reports. `TrustRegistry` has the files of several
repositories, `trusted.json`, and any number of commands at once: each checks (`Check`, for `--ack` and
`--dismiss`), takes the fingerprint (`Read`), loads the registry (`Load`), writes `trusted.json.new` (`WriteTmp`)
and renames it (`Rename`), five steps without a lock, between which files are pulled and edited, other commands do
the same, and the process may die.

| Variable | In the code |
|---|---|
| `kgairc[r]`, `global` | `.kgairc` of repository r, `config.json` of the machine: missing, torn or whole |
| `registry`, `tmp` | `trusted.json`, and `trusted.json.new` with the command that wrote it |
| `pc[p]`, `cmd[p]`, `fp[p]`, `mem[p]` | where the command of process p is, what it is, `fp` and `m` of `recordPath`, `Dismiss` or `Untrust` |
| `seen[p]` | the registries p has decided on: one, unless another command has saved in between (ghost) |
| `read` | what another command has read of a file, and not yet asked about |
| `consent` | what `kg trust` has ever approved (ghost) |

The temporary file is shared: a command overwrites it, renames what another one wrote, or finds it gone and ends
with an error. `ReadFile` and `AskTrust` are any other command, which reads a file and then asks for trust by
reading it again. Left out is what `kg trust` prints: it reads the file first for that, and then again for the
fingerprint it records, so after a pull in between it has printed another text than it approved. `OnlyConsented` is
about what it approved, and about commands for which the file says the same both times they read it.

## 3. Runs

| Run | Question | Size |
|---|---|---|
| `sync_faults` | Does every invariant of the protocol, and the refinement, survive copies, moves between machines, rotation, lost uploads, partial pulls and crashes? | 2 stores, 2 machines, 2 decisions, 3 ids, 1 fault |
| `sync_converge` | After the last fault, do all stores get every decision? | 2 stores, 4 ids |
| `git_sync` | Does sync over git only spread decisions, all of them and nothing else, and do the graphs follow, whatever people do to the `.gitignore`? | 2 clones, 2 events, 2 edits |
| `store_config` | Do commands that read the config before they wait for the lock ever undo each other, and does every event get to the team? | 3 processes, one of them the hook; 4 commands, 1 fault; the store is created first |
| `graph_team` | Does Lamport order carry causality into values, stubs and heads when knowledge travels through a third store? | 3 stores, 3 decisions on one property |
| `graph_notes` | Is the graph the replay of the log on every path? Are heads exactly the concurrent decisions, with notes, links, retired links over two elements; what survives rotation and operations that fail between log and graph; do all reads agree; is no decision forgotten? | 2 stores, of which one rotates and fails; 3 decisions |
| `trust` | Does a committed file ever decide what `kg trust` did not approve, does an answer hold, and do the two resolvers of the store agree, when commands run at once and files are pulled, set and torn? | 2 repositories, 2 processes; 3 commands, or 2 and a change of a file |
| `view_log` | Does what was recorded stay readable when writes are cut, and does a viewer that reads meanwhile end up with all of it? | 2 folders, 3 shards |

The passing runs check the deadlock too, except `view_log`, whose users and viewer stop when nothing
changes any more.

Four more runs are expected to be violated; each is a disagreement between the code and
what its documentation or comments say, with a counterexample:

| Run | What TLC shows |
|---|---|
| `sync_twin_race` | Twins with different numbers of unsynced events write different keys, so the write-once test does not stop them and the shard forks silently. |
| `sync_crash_reemit` | A crash, or an error of an append, between `RewriteShard` and the end of `ReEmit` loses the orphaned decisions. |
| `graph_reemit` | Re-emission puts an old `set_prop` after the decision that superseded it: the old value is live again, and the stub made for the old decision is never filled. |
| `view_open` | The client opens a folder between the watcher's comparison and its replacement: the viewer falls back to the folder the client left. |

The passing runs say what they need for not showing these: `TwinsPushAlike` (twins of
different length do not upload at once), no `"reemit"` in `CrashIn`, `SameAuthor = FALSE`,
values and stubs only without rotations (`Troubled = {}`), and the graph as a replay for logs in
which no re-emission moved a decision behind one that supersedes it (`InOrder`), and an answer that holds unless it
is undone by a save whose command had decided on an older registry (`Late`). Also deliberately excluded from passing runs:
`"retried"` uploads where `NoFalseFork` is checked (the S3 client's own repetition of a
lost upload is refused and reported as a copied store), and faults where `RecordedOnce`,
`GraphIsReplay`, `ReadsAgree` and `HistoryIsWhole` are (the idempotency check asks the graph, which a failed ingest rolled back,
a sync projects only what it pulled itself, and an interrupted rebuild leaves a part of the graph).

What the environment is assumed to do is a constant where it is more than a bound:

* `InitAlone` (`store_config`): nobody initializes a store that is in use. This is about more than
  `kg init`: a writer that cannot parse the config falls back to `Init` (`main.go:119`), and it
  cannot parse it while another process is between `Truncate` and `Write`. With `InitAlone = FALSE`,
  TLC finds that `Init`, which then reads a whole config and rewrites it without the lock, undoes a
  rotation or a setting saved in between (`NoOrphanShard` and `SettingKept` fail). With `InitAlone`,
  such a writer is next to nobody but the process that saves, and hooks.
* `CrashInSave = FALSE` (`store_config`): a save is not cut off. After one that is, the config has no identity,
  every command ends with an error, and a process that already waited for the lock goes on with the
  config it had read before.
* `BeginEdited` (`git_sync`) excludes one edit: `log/` typed into the `.gitignore` in the instant
  between `EnsureScaffold` and `git add`. It keeps a shard that was never committed at home,
  for that one sync.

Four smaller disagreements have no run of their own. Two commands that load the same `trusted.json` save one after
the other, and the second rename drops what the first one recorded (`trust.go:179`; a session hook runs `kg trust --ack` at
every start): the first repository asks for approval, or announces an inherited one, again. Without its exception
`Late`, TLC finds that `AnswerKept` fails this way with two commands and no change of a file. `InheritedFrom` is said to name "the repo
this exact configuration was first approved from" (`trust.go:109`); `saveTrust` sorts the paths, so it names
the first by name, which may also be one that only dismissed it. A repository that dismissed a
configuration gets it, without notice, when the same configuration is approved in another one:
the record holds both, and the approval wins. And a decision whose ingest failed after the append, retried
after another decision, is in the log twice; a rebuild gives it its first stamp.

### Bounds, and why they are enough

Every bound is a constant named `Max...` in the module and is a guard, so it cuts behaviours
short and never changes a step. The sync runs need two stores for one writer and one
reader or two twins, two or three ids so that an identity can be retired and
its shard still be foreign to the other store, and events enough for two segments of
different sizes. The graph runs need three decisions for a branch and its resolution, and a
third store for knowledge that arrives by a detour. `BulkPull = 3` makes both the incremental path
and the rebuild happen in logs of three and four events; `WhyMax = 2` makes a third reason fall off the list. Three stamps are enough for a chain of three
decisions, and for a re-emission that moves the first behind the second; `graph_team` and `graph_reemit` have four.

Decision content is written by one store only (`SameAuthor = FALSE`) in the graph
runs: the author is part of a decision's id, so two people never produce one id. The same
person in two stores can: with `SameAuthor = TRUE`, two decisions recorded in opposite order
in two stores that have not synced become two nodes that supersede each other
(`NewestIsHead` fails), because the id leaves out what a decision supersedes.
`HeadsAreMaximal` speaks of logs that hold everything their events knew of: in the middle
of a partial pull a superseding decision may be there without the superseded one's rivals,
and branches may show for a while.

`view_log` has a folder whose store is created, with its user's shard and a teammate's, and
a second folder to open. Two attempts to record and one crash let the second meet the torn line of
the first; one pulled event changes a second file while a load is between files; one
request races the watcher. `Where = {"json"}` says that a cut write ends within the JSON. With
`"newline"`, when all but the newline is on disk, `OwnIntact` fails: the line parses,
`NextLamport` accepts it, and the next append is joined to it, so that neither event parses.
A torn line in a teammate's shard is in the run too. It is outside `OwnIntact`, and has no property
that could hold: the pull that follows joins its first line to the torn one, and the event
is missing until that shard is fetched again.

`store_config` needs a creating command, a rotation or a setting, an ingest and a sync that follows: four
commands of two people, and the hook, which starts as often as it likes. Three people and no
hook hold as well. `git_sync` needs two events for a sync that finds the other's shard longer twice, and two
edits for a conflict, which takes one on each side. `trust` needs an approval, a revocation and a third
command that overtakes them; two repositories that ask for the same are what makes approvals shared. Its contents
are no file, rules with a key that is ignored, and the same rules with a store. Two processes are as many as can
share a temporary file; one change of a file, by a pull or by `kg config`, counts like a command, so that it meets two of them.

### Fairness

`Delivered` (`store_config`) assumes that a running command goes on, that the cooldown passes (`Tick`), that hooks
fire again and again (the end of every turn), and that `flock` does not starve a waiter (strong
fairness of `Lock`). Failed syncs and deaths are bounded, users need not do anything.

`Converges` of `git_sync` assumes weak fairness of starting a sync and of its end, strong fairness of the
merge (the remote is reachable again and again, although any attempt may be `Offline`) and of a
push that is refused because a teammate was faster, and that who is told that a `.gitignore` is not the store's removes it.
It excuses a clone that is `Stuck`: its conflict was resolved to exactly what HEAD has, so that `commit`
finds nothing to do and returns before it would conclude the merge, and every further
merge is refused until something is recorded.

`CatchesUp` assumes weak fairness of `Watch`: the ticker of `watch` runs as long as the
server. Nothing is assumed of writers and clients, who may stop at any point. The
property accepts a model in error: a config that was truncated, or not yet there, when the model
was loaded leaves an error that the watcher, which compares the log only, never clears, and a folder that was refused
leaves one that it does not even look at.

`Converges` assumes that every store syncs again and again and that a sync that started makes
its next step: weak fairness of a running sync, strong fairness of starting one, because a twin on
the same bucket may change again and again whether the start succeeds or ends in a fork
error. `hooks/auto-sync.sh` runs a sync at the end of every turn. Faults, copies and new decisions are not fair: they are bounded
or simply may stop. After a fork error the user rotates, as the message of `forkError` tells
them; that step is fair too.

## 4. Proofs

`SegmentSyncProofs` proves, for every number of stores, machines, ids, decisions, copies and faults
(the run has one fault, the proofs any number):

* `Typed` (`TypeOK`), `IdentityTyped`: nothing but numbered, nonempty segments of minted installs
  is ever uploaded, and a sync holds orphans exactly while it re-emits them.
* `IdentitySafe` (`IdentityOK`): the current id of a store was minted and is not retired, and
  the retired ids it still has to reconcile are never its own.
* `OwnShardSafe` (`OwnShardUntouched`): no step of a sync other than its own re-emission
  changes the own shard, so the refusals of `RewriteShard` and `AppendForeign` to touch it never fire.
* `RemoteSafe` (`RemoteIsChain`), `ForeignSafe` (`ForeignIsPrefix`), `CausalSafe` (`CausalStamp`), assuming
  `TwinsPushAlike`: the bucket is one hash chain per install, a shard somebody else writes is a
  prefix of it, and a stamp is later than everything its store has seen.
* `SyncImplementsUnionLog` (`ImplementsUnionLog`) and `NothingIsLost` (`NothingLost`), assuming
  `"reemit" \notin CrashIn`: sync only spreads decisions, also where twins fork a shard.
* `ForkIsTrue` (`NoFalseFork`), assuming `"retried" \notin PutFault`: who is told of a copied
  store has one, also where twins push what they like.

The three assumptions are needed: the runs `sync_twin_race` and `sync_crash_reemit` show what happens
without the first two, and section 3 says why repeated uploads are excluded.

The argument. `IdentityInv == IdentityTypeOK /\ IdentityOK` is inductive by itself. `IdsOK` is what
matters in it: the current id was minted, and the retired ids were minted and are not the
current one. `ProgressOK` is what a step in the middle of a sync needs: what it has still to reconcile
and to pull never holds the current id. `TypeInv` adds that the events of a shard are chains with rising
stamps and that two objects differ in their keys (`LogTyped`, `KeysUnique`).

`ShareInv` is what it takes for the bucket to be a chain. Every file is a chain (`FilesOK`), and so is what the bucket
holds of an install, in segments numbered without a gap (`BucketOK`). What a running sync listed is an initial part
of what the bucket holds by now (`SnapOK`). Until it has pushed, its own shard continues what it listed, and nothing was
uploaded since, except by a twin, and then just what this sync is about to upload (`PushOK`); that is so because
twins that sync at once have equally much to push and nothing to re-emit (`TwinsOK`). What is retired or foreign
is only taken from listings (`RetiringOK`, `ForeignIsPrefix`). Numbers without a gap (`Numbered`) are what makes
`GroupSegments`, which sorts, give the segments back in the order of their upload.

`ForkIsTrue` has an
invariant of its own, `SoleOK`: of the id of a store that no other store has or had (`Sole`), the bucket
holds a part of the store's shard, which a sync about to upload has listed. The refinement needs `NoStoreNoLog`
besides: a directory without a store has no shards.

Only lemmas of `SegmentPlanProofs` unfold the folds of `SegmentPlan`. The induction theorems of the library
cannot be used here, because they are about a predicate; `FoldTheory` proves induction for *sets*, of numbers or of
sequences, for which something holds, from the well-foundedness of the naturals, and from it the equations of
`FoldLeft` over the empty and the appended sequence, for any operator. `SegmentPlanProofs` then has, by
induction over segments or events: a batch that is pulled is a part of the remote's shard that continues mine
(`PlanPullBatch`), a group that is numbered is the sorted list of its keys (`GroupIs`), sequences whose events are the chains
of themselves are determined by their last event (`ChainShape`, `ChainsAgree`), and prefixes and parts of
concatenations. Assumption: `BoundsAssumption`.

`KgReadProofs` proves `ViewerIsFresh`: a model without an error, whose fingerprint is that
of the log, shows the whole log, for any folders, shards, attempts, cuts (`"newline"` too),
crashes and requests. The inductive invariant `Inv == Files /\ ViewInv` says of every model, shown
or being loaded, that for each shard already read either what was read is what is on disk,
or the fingerprint has moved on (`Current`). What makes it inductive is `Growth`: as long as
an entry of the fingerprint stays, so does the file, because every write makes a file longer.
The lemma behind it needs `before`: the rest of a half written line makes the file longer
than the half was. The load steps then only have to take the fingerprint before they read.
The model has no modification times, which could only make more fingerprints differ.
Rewriting a shard (`RewriteShard`, in a sync after a rotation) is outside this argument: it is
there that the time stamps matter. Assumption: `KgReadAssumption`.

It also proves `Typed` (`TypeOK`) and `OwnStaysIntact` (`OwnIntact`), for any number of attempts and crashes, assuming
`"newline" \notin Where`. `OwnSafe` is the invariant: the lines of an own shard that parse are one chain and hold everything that was
reported as recorded; a shard whose last line is not terminated ends in one that does not parse, so that `NextLamport` refuses
and nothing is written behind it; and who writes adds one event, which continues the chain. What a run of lines adds to what is
read (`AddParsed`) is a fold, for which `FoldTheory` serves again. Without the assumption it is false: a line that
lacks only its newline parses, and the next write is joined to it.

`GitSyncProofs` proves, for any team, any lines and any number of events and edits: `GitTyped` (`TypeOK`),
`TokenNeverShared` (`TokenPrivate`), `GraphFollowsLog` (`ShownIsLog`), `PushSharesAll` (`PushedMeansShared`) and
`GitImplementsUnionLog` (`ImplementsUnionLog`). The inductive invariant is
`GitInv == TypeOK /\ OneWriter /\ Committed /\ Projected /\ TokenPrivate`. `OneWriter`, that nobody has more
of a shard than its writer, and no commit that was merged more than the clone that merged it, makes of two copies the longer one the union and lets
`evs[prev:]` find what is new. `Committed` carries what the commit established, HEAD has the log and
no token, to the push, over a merge whose other side has no token either. `Projected` is
`ShownIsLog` for the middle of a sync: the graph shows the log as it was counted at the begin.
Assumptions: `GitAssumption`, `NoTreeAssumption`.

`StoreConfigProofs` proves `NoShardLost` (`NoOrphanShard`), `SettingsSurvive` (`SettingKept`) and
`AppendsAreCurrent` (`CurrentIdentity`) for any number of processes, hooks and commands, assuming `InitAlone` and
`~CrashInSave`, and `Typed` (`TypeOK`) without them. For the first three, the inductive invariant is `ConfigInv`, from which `OneWriter` follows: one process
at a time is saving. It holds the lock, or it initializes, and then (`Alone`) every other one that is not a hook is idle, or
is the one whose half-written config it found. So nobody writes over anybody, a torn file
has its writer, who holds the lock knows the config on disk (`MemoryIsDisk`; not a hook, which may have got the
lock over a torn file, but a hook never writes), and what is about to be saved keeps every identity with
a shard (`Saves`). `WriteStep` is where that becomes what is on disk (`Kept`). `Typed` is about counters: that ids and events never exceed
their bounds, although several processes may be past the guard that checks them. `Counted` says that what was minted and
what every command on its way will still mint is within the bound, as a sum over processes, and `Known` that every identity
on disk or in memory was minted. Assumption besides: `ConfigAssumption`.

`TrustProofs` proves `EffectNeedsConsent` (`OnlyConsented`), `AnswersAreKept` (`AnswerKept`) and `Typed` (`TypeOK`) for any
repositories, files, processes and commands, with no assumption about who runs when. The invariant `TrustInv` follows a
registry from where a command computes it through `trusted.json.new` to `trusted.json`, whoever renames it: it
approves nothing that `kg trust` has not approved, except what the `kg trust` that is saving it approves (`Consented`);
and if its command has decided on one registry only, it is that registry with one answer more or one withdrawn
(`InTime`, `Keeps`). `AnswersAreKept` is then about a rename when that one registry is the present one. A later
rename may undo anything, as section 3 says. `ResolversDoAgree` (`ResolversAgree`) says that the store that
commands open is the one `kg config` names. It holds in every state whatever, as
a fact about the two resolvers: the one asks the files in turn, the other takes the first layer that sets a store
out of all three. Assumptions: `LayersAssumption`, `TrustAssumption`.

`TeamGraphProofs` proves, for any stores, elements, decisions and inputs and any order of stamps, and for any number of
rotations and of failed ingests, syncs and rebuilds:

* `Typed` (`TypeOK`), `GraphsAreBacked` (`GraphBacked`), `RecordsOnce` (`RecordedOnce`), `NewDecisionsResolve` (`Resolves`)
  `HistoriesAreWhole` (`HistoryIsWhole`) and `ViewerHasTheHeads`, without further hypotheses: a graph says what its log says, an ingest or a re-emission
  writes no decision twice, a new decision becomes the only head of what it changes even on a graph that
  lags behind, history and time travel tell one story, and the two definitions of a head, in Go over the viewer's
  projection and as a query over the graph, are one.
* `GraphsAreReplays` (`GraphIsReplay`), `HeadsAreTheBranches` (`HeadsAreMaximal`) and `ReadsDoAgree` (`ReadsAgree`),
  assuming `~SameAuthor`.
* `NoStubsStay` (`StubsFilled`), `LiveValuesAreCurrent` (`LiveValueCurrent`), `NewestAlwaysHeads` and
  `NewestIsShownFirst` (`NewestIsHead`), the comment at `reads.go:418`, assuming besides that nobody rotates or fails
  (`Troubled = {}`).
* `TeamImplementsUnionLog` (`ImplementsUnionLog`), assuming `~SameAuthor`: whatever rotates and fails, no store and no
  remote forgets a decision, and nobody records what somebody else has. The engine may record one of its own again,
  when a failure left its graph behind the log; `UnionLog` does not see that step.

The hypotheses are those of the runs. Section 3 says what happens when one person records a decision twice
(`SameAuthor`); what re-emission does to stubs and to the order of stamps is the finding of `graph_reemit`.

The argument. What a log and a graph have to do with each other is `Projects(g, F, E)`: the graph is a record of ids
(`GraphOK`), every edge has its nodes (`Joined`), it states nothing but what an event of F states (`Backed`), and it has a node and
edges for each event of E (`Complete`). F is the log; E is the log too, until an operation fails, and then nothing.
`TypeInv` says so for every store, next to the types of logs and identities, and is inductive: `ApplyEvent` adds one
event to both sets, re-emission leaves their `Content` as it was. For a replay it takes
`ApplyAllIs`, that a fold over a set applies its newest event last: `FiniteSetsExt` defines that fold through a
function chosen on sets, so the proof has to construct one (`AppliesExists`), set size by set size, before anything
can be said of it, and to show that Lamport stamp, hash and install order any two events (`BeforeIsOrder`).

`OnceInv` adds where events are: what is not a store's own came from the remote, and what the remote has of a
store, that store has (`Shared`). `AuthorInv` adds that a decision has one author, from which there is one event of
it, in whichever logs (`EventsUnique`). `ReplayInv` is `GraphIsReplay` on top of that. An ingest keeps it as its event is the newest
of its log (`ApplyAllNewer`). An incremental pull keeps it as all that is pulled comes after
all that is projected (`ApplyAllLater`): what the code compares is the stamps of decision nodes in the graph, so
this needs that every event in the log has left its stamp there (`ReplayStamps`). That is false for a stub that is never
filled, hence `InOrder` in the property.

`HeadInv` is about what was written rather than about graphs, as graphs come and go: `Coherent` says that who knew of a
decision about an element, and decided about it too, superseded it or knew of somebody who did. It takes the place of
a proof by induction along chains of supersession. That heads follow from it is `HeadsAre`: the
heads in a graph that `Projects` its log are the decisions nobody with authority in that log supersedes. `OrderInv` says
for a team without rotations that nothing is ever an orphan and that what supersedes a decision was stamped
after it. It makes every log `InOrder`, hence the graph a replay and every stamp known.

The value of an element is a fold over mutations within one over events. `MutationsValue` says of the first that the
last mutation that assigns the property decides, and `ReplayValue` of the second that the newest event that sets it does
(`LiveFrom`); by `OrderInv` no other setter supersedes that one. `ShapedInv` is for histories: `buildDecisionEvent` adds to
the mutations of an event nothing its input does not name (`ResolvedWithin`), so elements are exactly what decisions shape, in
every graph, rebuilt from a part of the log too, which is what `kg as-of` does. What is sorted is taken apart by `LineExists` and
`LineIs`: a finite set with a total order has a list in that order, with every member once and what
precedes all others first.

Assumptions: `ContentAssumption`, by which there are finitely many decisions (ids are hashes of one length),
`TeamAssumption`, `ReadsAssumption`.

The assumptions on constants are evaluated by the runs.

Every invariant, action property and refinement of the passing runs is proved. Only model-checked are `Converges`, `Delivered` and
`CatchesUp`, because liveness is beyond the prover; the properties of the four runs that expect a violation are refuted.

## 5. Not modelled, and the plan

* Turn marks (`internal/turn`, hooks): marker files that hooks append to and consume. `Take` reads and then
  removes without a lock, so a mark in between is lost; one step shows it and nothing else depends on marks.
* The reference resolver (`engine.go:205-290`): names and kinds of elements and the anti-fork guard. Elements
  are ids here; the guard is local to one store, and two stores that have not synced can create one name with two kinds.
* `WriteLayer` is one step. Two processes that set keys of one layer file at the same moment can lose one,
  as it is an unlocked read-modify-write like that of `trusted.json`; `trust` has its torn results.
* `os.WriteFile` of `trusted.json.new` is one step. While one command fills it, another could rename it half-written.
* Blobs of properties (one property stands for them), dates other than of imports, dry runs, the scores of search, statistics.
* Lines of foreign shards that were cut short: `KgRead` has the steps, and no property could hold.

Worth proving next: that what a sync of `SegmentSync` leaves in the shards is what `Pulls` of `TeamGraph` allows, which
today is an assumption by inspection (both pull prefixes, in the order of their writer; `ForeignSafe` is the half of it that
says so of shards); and how much of `ReadsAgree` and
`GraphIsReplay` is left after a failed operation once the log was rebuilt.

Left out for good: wording, formatting, the installer, prompt texts, the editor extension and the
user interface; credentials and HTTP; the git program, of which `GitSync` has what a merge of append-only
files and of a `.gitignore` does.
