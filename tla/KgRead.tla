-------------------------------- MODULE KgRead --------------------------------
(***************************************************************************)
(* kgread, the reader behind editor extensions (cmd/kgread over            *)
(* internal/view), next to the kg processes that write the logs it shows.  *)
(*                                                                         *)
(* kgread takes no lock. Two of its threads replace the model it shows:    *)
(* dispatch, on a request of the client, and watch, when the log's file    *)
(* names, sizes and times differ from those of the model. Building a model *)
(* reads the disk in several steps, between which writers append lines,    *)
(* are seen in the middle of a line, and die there.                        *)
(***************************************************************************)
EXTENDS LogFile, FiniteSets

CONSTANTS
  Dir,          \* folders, each with the store kg would resolve for it
  Home,         \* the folder kgread is started in
  Shard,        \* shard files
  Own,          \* the shard of the install that writes in a folder
  Listing,      \* all its shards in the order of their names; syncs append to the others
  Refused,      \* the folders whose `store` setting may be refused
  Where,        \* how a write may be cut: subset of {"json", "newline"}
  New,          \* the folders that have no store yet when kgread starts, its own among them
  MaxSave,      \* bound: how often the config of a folder's store is written
  MaxIngest,    \* bound: attempts to record in a folder
  MaxSent,      \* bound: events a teammate sends
  MaxAsk,       \* bound: requests that load a model
  MaxCrash      \* bound: kg processes that die

Shards(d) == ToSet(Listing[d])
Pulled(d) == Shards(d) \ {Own[d]}

ASSUME KgReadAssumption ==
  /\ Own \in [Dir -> Shard]
  /\ Listing \in [Dir -> Seq(Shard)]
  /\ \A d \in Dir : Own[d] \in Shards(d)
  /\ New \subseteq Dir /\ Home \in New /\ Refused \subseteq Dir
  /\ {"idle", "save"} \cap Shard = {}
  /\ MaxSave \in [Dir -> Nat] /\ MaxIngest \in [Dir -> Nat]
  /\ \A d, e \in Dir : d # e => Shards(d) \cap Shards(e) = {}
  /\ Where \subseteq {"json", "newline"}
  /\ MaxSent \in Nat /\ MaxAsk \in Nat /\ MaxCrash \in Nat

VARIABLES
  disk,    \* log/*.ndjson; a file that does not exist is an empty one
  config,  \* kg.config.json: "nostore" without even a log directory, "missing", "cut", "ok"
  saved,   \* how often it has been written
  op,      \* what the holder of a store's lock does: "idle", "save", or append to a shard
  todo,    \* the events it has still to write there
  before,  \* that file as it was when the line now half written was begun
  tried,   \* how many events a folder's user has tried to record
  acked,   \* which of them kg reported as recorded
  crashes,
  model,   \* what kgread shows
  asked,   \* the model that dispatch is loading for a request
  watched, \* the model that watch is loading
  same,    \* has nobody replaced the model since watch looked at it?
  asks,    \* how many requests have come
  opened   \* the folder the client opened last

log == <<disk, config, saved, op, todo, before, tried, acked, crashes>>
kgread == <<model, asked, watched, same, asks, opened>>
vars == <<log, kgread>>

NoFile == [lines |-> <<>>, ended |-> FALSE, size |-> 0]
Half(d) == before[d] # NoFile

------------------------------------------------------------------------------
(* The writers. Everything but the creation of a store holds its lock.     *)

Init ==
  /\ disk = [s \in Shard |-> Empty]
  /\ config = [d \in Dir |-> IF d \in New THEN "nostore" ELSE "ok"]
  /\ saved = [d \in Dir |-> 0]
  /\ op = [d \in Dir |-> "idle"]
  /\ todo = [d \in Dir |-> <<>>]
  /\ before = [d \in Dir |-> NoFile]
  /\ tried = [d \in Dir |-> 0]
  /\ acked = [d \in Dir |-> {}]
  /\ crashes = 0
  /\ model = [dir |-> Home, err |-> TRUE, print |-> [s \in Shards(Home) |-> -1],
              shown |-> [s \in Shard |-> <<>>]]
  /\ asked = [step |-> "none"]
  /\ watched = [step |-> "none"]
  /\ same = TRUE
  /\ asks = 0
  /\ opened = Home

\* store.Init begins with the log directory; the config follows.
MakeLog(d) ==
  /\ config[d] = "nostore"
  /\ config' = [config EXCEPT ![d] = "missing"]
  /\ UNCHANGED <<disk, saved, op, todo, before, tried, acked, crashes, kgread>>

\* saveConfig writes in place: first the file is empty ...
BeginSave(d) ==
  /\ op[d] = "idle" /\ config[d] \in {"missing", "ok"} /\ saved[d] < MaxSave[d]
  /\ saved' = [saved EXCEPT ![d] = @ + 1]
  /\ op' = [op EXCEPT ![d] = "save"]
  /\ config' = [config EXCEPT ![d] = "cut"]
  /\ UNCHANGED <<disk, todo, before, tried, acked, crashes, kgread>>

\* ... then it has its new content.
EndSave(d) ==
  /\ op[d] = "save"
  /\ op' = [op EXCEPT ![d] = "idle"]
  /\ config' = [config EXCEPT ![d] = "ok"]
  /\ UNCHANGED <<disk, saved, todo, before, tried, acked, crashes, kgread>>

\* Wrong on purpose: a last line that does not parse counts as stamp 0.
NextLamportLenient(d) == d \in Dir

\* NextLamport reads the last line of every shard and fails on one that does not parse.
NextLamport(d) == \A s \in Shards(d) : TailParses(disk[s])

\* Ingest up to the write: the stamp, the parent, the event.
BeginIngest(d) ==
  /\ op[d] = "idle" /\ config[d] = "ok" /\ tried[d] < MaxIngest[d]
  /\ NextLamport(d)
  /\ op' = [op EXCEPT ![d] = Own[d]]
  /\ todo' = [todo EXCEPT ![d] = <<[n |-> tried[d] + 1, parent |-> TailEvent(disk[Own[d]])]>>]
  /\ tried' = [tried EXCEPT ![d] = @ + 1]
  /\ UNCHANGED <<disk, config, saved, before, acked, crashes, kgread>>

\* The k-th event of a teammate's shard.
Foreign(k) == [n |-> k, parent |-> k - 1]

\* A sync downloads what lies past the count of local lines, as far as the remote
\* or the connection goes, and AppendForeign accepts it only if it continues the
\* last event that parses.
BeginPull(d, s) ==
  /\ op[d] = "idle" /\ config[d] = "ok"
  /\ \E upTo \in CountLines(disk[s]) + 1 .. MaxSent :
       todo' = [todo EXCEPT ![d] = [k \in 1 .. upTo - CountLines(disk[s]) |->
                                      Foreign(CountLines(disk[s]) + k)]]
  /\ CountLines(disk[s]) = TailEvent(disk[s])
  /\ op' = [op EXCEPT ![d] = s]
  /\ UNCHANGED <<disk, config, saved, before, tried, acked, crashes, kgread>>

\* A line on its way to the disk, as a reader without the lock may see it.
HalfLine(d) ==
  /\ op[d] \in Shards(d) /\ ~Half(d)
  /\ \E w \in Where :
       disk' = [disk EXCEPT ![op[d]] = CutOff(@, Head(todo[d]), w)]
  /\ before' = [before EXCEPT ![d] = disk[op[d]]]
  /\ UNCHANGED <<config, saved, op, todo, tried, acked, crashes, kgread>>

\* The line is on disk; after its last line the command is done.
WholeLine(d) ==
  /\ op[d] \in Shards(d)
  /\ disk' = [disk EXCEPT ![op[d]] =
       Written(IF Half(d) THEN before[d] ELSE @, Head(todo[d]))]
  /\ before' = [before EXCEPT ![d] = NoFile]
  /\ todo' = [todo EXCEPT ![d] = Tail(@)]
  /\ op' = [op EXCEPT ![d] = IF Len(todo[d]) = 1 THEN "idle" ELSE @]
  /\ acked' = [acked EXCEPT ![d] = IF op[d] = Own[d] THEN @ \cup {Head(todo[d])} ELSE @]
  /\ UNCHANGED <<config, saved, tried, crashes, kgread>>

\* Wrong on purpose: what was still to write is written by the next command.
DieForgetful(d) ==
  /\ op[d] # "idle" /\ crashes < MaxCrash
  /\ crashes' = crashes + 1
  /\ op' = [op EXCEPT ![d] = "idle"]
  /\ UNCHANGED <<disk, config, saved, todo, before, tried, acked, kgread>>

\* The process dies, or its write fails (a full disk): what is on disk stays.
Die(d) ==
  /\ op[d] # "idle" /\ crashes < MaxCrash
  /\ crashes' = crashes + 1
  /\ op' = [op EXCEPT ![d] = "idle"]
  /\ todo' = [todo EXCEPT ![d] = <<>>]
  /\ before' = [before EXCEPT ![d] = NoFile]
  /\ UNCHANGED <<disk, config, saved, tried, acked, kgread>>

Write(d) ==
  \/ MakeLog(d) \/ BeginSave(d) \/ EndSave(d)
  \/ BeginIngest(d) \/ \E s \in Pulled(d) : BeginPull(d, s)
  \/ HalfLine(d) \/ WholeLine(d) \/ Die(d)

------------------------------------------------------------------------------
(* Loading a model: view.Load, in the steps in which it meets the disk.    *)

\* Wrong on purpose: names and numbers of lines.
LogFingerprintByLines(d) ==
  [s \in Shards(d) |-> IF config[d] = "nostore" THEN -1 ELSE Len(disk[s].lines)]

\* logFingerprint: names and sizes (times add nothing while files only grow);
\* "missing" without a log directory.
LogFingerprint(d) ==
  [s \in Shards(d) |-> IF config[d] = "nostore" THEN -1 ELSE disk[s].size]

NoEvents == [s \in Shard |-> <<>>]

\* Load resolves the folder and takes the fingerprint before it reads: without a log
\* directory there is nothing to ask for.
BeginLoad(d) ==
  [step |-> IF config[d] = "nostore" THEN "open" ELSE "print",
   dir |-> d, err |-> FALSE, print |-> [s \in Shards(d) |-> -1], shown |-> NoEvents,
   left |-> IF config[d] = "nostore" THEN <<>> ELSE Listing[d]]

\* It asks for the size of one file after the other.
PrintOne(l) ==
  [l EXCEPT !.print[Head(l.left)] = LogFingerprint(l.dir)[Head(l.left)], !.left = Tail(@),
            !.step = IF Len(l.left) = 1 THEN "open" ELSE "print"]

NoRoot(d) == [s \in Shards(d) |-> -2]

\* ResolveRootIn fails: the model has an error, no root and no fingerprint.
RefuseLoad(d) ==
  [step |-> "loaded", dir |-> d, err |-> TRUE, print |-> NoRoot(d), shown |-> NoEvents, left |-> <<>>]

Loads(d) == {BeginLoad(d)} \cup {RefuseLoad(f) : f \in {d} \cap Refused}

\* A model without a root is never reloaded by watch.
Changed(m) == m.print # NoRoot(m.dir) /\ m.print # LogFingerprint(m.dir)

\* store.Open: a missing or cut config is an error, carried in the model.
OpenStore(l) ==
  IF config[l.dir] = "ok" THEN [l EXCEPT !.step = "read", !.left = Listing[l.dir]]
  ELSE [l EXCEPT !.step = "loaded", !.err = TRUE]

\* Wrong on purpose: the fingerprint is taken when the log has been read.
ReadOnePrintLast(l) ==
  [l EXCEPT !.shown[Head(l.left)] = ReadShard(disk[Head(l.left)]), !.left = Tail(@),
            !.print = LogFingerprint(l.dir),
            !.step = IF Len(l.left) = 1 THEN "loaded" ELSE "read"]

\* ReadAll, one shard after the other in the order of their names.
ReadOne(l) ==
  [l EXCEPT !.shown[Head(l.left)] = ReadShard(disk[Head(l.left)]), !.left = Tail(@),
            !.step = IF Len(l.left) = 1 THEN "loaded" ELSE "read"]

\* How a load goes on.
Loading(l) == l.step \in {"print", "open", "read"}
LoadStep(l) ==
  CASE l.step = "print" -> PrintOne(l)
    [] l.step = "open" -> OpenStore(l)
    [] l.step = "read" -> ReadOne(l)

NoLoad == [step |-> "none"]
Loaded(l) == [dir |-> l.dir, err |-> l.err, print |-> l.print, shown |-> l.shown]

------------------------------------------------------------------------------
(* The server.                                                             *)

\* The requests that load: open names a folder, refresh takes the shown one.
Ask(d) ==
  /\ asked = NoLoad /\ asks < MaxAsk
  /\ asks' = asks + 1
  /\ asked' \in Loads(d)
  /\ UNCHANGED <<log, model, watched, same, opened>>

AskedLoad ==
  /\ Loading(asked)
  /\ asked' = LoadStep(asked)
  /\ UNCHANGED <<log, model, watched, same, asks, opened>>

\* s.set: the model loaded replaces the one shown, whichever that is by now.
Answer ==
  /\ asked.step = "loaded"
  /\ model' = Loaded(asked)
  /\ asked' = NoLoad
  /\ same' = (watched = NoLoad)
  /\ opened' = asked.dir
  /\ UNCHANGED <<log, watched, asks>>

\* A tick: the log differs from that of the model shown.
Poll ==
  /\ watched = NoLoad
  /\ Changed(model)
  /\ watched' \in Loads(model.dir)
  /\ UNCHANGED <<log, model, asked, same, asks, opened>>

WatchedLoad ==
  /\ Loading(watched)
  /\ watched' = LoadStep(watched)
  /\ UNCHANGED <<log, model, asked, same, asks, opened>>

\* s.current() == cur, under a lock that is released before s.set.
Check ==
  /\ watched.step = "loaded"
  /\ watched' = IF same THEN [watched EXCEPT !.step = "checked"] ELSE NoLoad
  /\ same' = TRUE
  /\ UNCHANGED <<log, model, asked, asks, opened>>

Swap ==
  /\ watched.step = "checked"
  /\ model' = Loaded(watched)
  /\ watched' = NoLoad
  /\ same' = TRUE
  /\ UNCHANGED <<log, asked, asks, opened>>

Serve == (\E d \in Dir : Ask(d)) \/ AskedLoad \/ Answer
Watch == Poll \/ WatchedLoad \/ Check \/ Swap

Next ==
  \/ \E d \in Dir : Write(d)
  \/ Serve
  \/ Watch

\* The ticker of watch keeps running; nothing is assumed of writers and clients.
Spec == Init /\ [][Next]_vars /\ WF_vars(Watch)

------------------------------------------------------------------------------
(* Properties.                                                             *)

ModelOK(m) ==
  /\ m.dir \in Dir /\ m.err \in BOOLEAN
  /\ m.print \in [Shards(m.dir) -> Int]
  /\ m.shown \in [Shard -> Seq(Event)]

LoadOK(l) ==
  \/ l = NoLoad
  \/ /\ l.step \in {"print", "open", "read", "loaded", "checked"}
     /\ ModelOK(l)
     /\ ToSet(l.left) \subseteq Shards(l.dir) /\ (l.step \in {"print", "read"}) = (l.left # <<>>)

\* Types, what belongs together while a line is half written, and that a
\* process without the lock holds nothing to write.
TypeOK ==
  /\ disk \in [Shard -> File]
  /\ config \in [Dir -> {"nostore", "missing", "cut", "ok"}]
  /\ op \in [Dir -> Shard \cup {"idle", "save"}]
  /\ todo \in [Dir -> Seq(Event)]
  /\ before \in [Dir -> File \cup {NoFile}]
  /\ \A d \in Dir : (todo[d] # <<>>) = (op[d] \in Shards(d))
  /\ \A d \in Dir : Half(d) => todo[d] # <<>> /\ ~disk[op[d]].ended
  /\ crashes \in 0 .. MaxCrash
  /\ \A d \in Dir : tried[d] \in 0 .. MaxIngest[d] /\ saved[d] \in 0 .. MaxSave[d]
  /\ acked \in [Dir -> SUBSET Event]
  /\ ModelOK(model) /\ LoadOK(asked) /\ LoadOK(watched)
  /\ same \in BOOLEAN /\ asks \in 0 .. MaxAsk /\ opened \in Dir

\* What kg reported as recorded stays readable and stays one hash chain, through
\* writes that died in the middle of a line: nothing is ever appended to a torn
\* line of the own shard, because NextLamport refuses it first.
OwnIntact ==
  \A d \in Dir : LET own == ReadShard(disk[Own[d]]) IN
    /\ acked[d] \subseteq ToSet(own)
    /\ \A k \in 1 .. Len(own) : own[k].parent = IF k = 1 THEN 0 ELSE own[k - 1].n

Complete == \A s \in Shards(model.dir) : model.shown[s] = ReadShard(disk[s])

\* A model the watcher takes for current is current: it never shows less than
\* the log holds while its fingerprint is that of the log, however writes, half
\* written lines and the steps of Load interleave.
FreshIsComplete ==
  ~model.err /\ model.print = LogFingerprint(model.dir) => Complete

\* Once the writers are done, the viewer shows the whole log of the folder it
\* shows, or says that it cannot open it.
CatchesUp == <>[](model.err \/ Complete)

\* "nobody opened another folder meanwhile": watch only refreshes the folder the
\* client opened last.
OpenStays == model.dir = opened
==============================================================================
