----------------------------- MODULE KgReadProofs -----------------------------
(***************************************************************************)
(* What kgread takes for current is current (FreshIsComplete), and what kg *)
(* reports as recorded stays readable (OwnIntact), for any folders,        *)
(* shards, writers, cut lines, crashes and requests.                       *)
(*                                                                         *)
(* The first argument rests on one property of the writers, Growth: as     *)
(* long as the fingerprint of a file stays, its content does, because      *)
(* every write makes the file longer, the rest of a half written line      *)
(* included. A load takes the fingerprint before it reads, so what it has  *)
(* read is what is there now or the fingerprint has moved on (Current).    *)
(* The second one: a cut leaves a last line that does not parse, and       *)
(* NextLamport then refuses every further write (OwnSafe).                 *)
(***************************************************************************)
EXTENDS KgRead, TLAPS

\* One entry of logFingerprint.
Mark(d, s) == IF config[d] = "nostore" THEN -1 ELSE disk[s].size

\* The files have sizes, and a half written line is half a line longer than the
\* file was before it.
Files ==
  /\ DOMAIN disk = Shard /\ \A s \in Shard : disk[s].size \in Nat
  /\ DOMAIN config = Dir /\ DOMAIN op = Dir /\ DOMAIN before = Dir
  /\ \A d \in Dir : op[d] # "idle" => config[d] # "nostore"
  /\ \A d \in Dir : Half(d) =>
       /\ op[d] \in Shards(d)
       /\ before[d].size \in Nat
       /\ disk[op[d]].size = before[d].size + 1

\* Fingerprints only grow, and one that stays means a file that stays.
Growth ==
  \A d \in Dir : \A s \in Shards(d) :
    /\ Mark(d, s) \in Int /\ Mark(d, s)' \in Int /\ Mark(d, s) <= Mark(d, s)'
    /\ Mark(d, s) = Mark(d, s)' => disk'[s] = disk[s]

\* Of the shards in done, m shows the content that belongs to its fingerprint.
Current(m, done) ==
  \A s \in Shards(m.dir) :
    /\ m.print[s] \in Int /\ m.print[s] <= Mark(m.dir, s)
    /\ s \in done /\ m.print[s] = Mark(m.dir, s) => m.shown[s] = ReadShard(disk[s])

\* The shards a load has read.
Done(l) == IF l.step \in {"print", "open"} THEN {} ELSE Shards(l.dir) \ ToSet(l.left)

IsLoad(l) ==
  /\ l = [step |-> l.step, dir |-> l.dir, err |-> l.err, print |-> l.print,
          shown |-> l.shown, left |-> l.left]
  /\ l.dir \in Dir
  /\ l.left \in Seq(Shard)
  /\ DOMAIN l.shown = Shard /\ DOMAIN l.print = Shards(l.dir)
  /\ l.step \in {"print", "open", "read", "loaded", "checked"}
  /\ l.step \in {"print", "read"} => l.left # <<>>
  /\ l.step \in {"loaded", "checked"} => l.err \/ l.left = <<>>
  /\ ~l.err => Current(l, Done(l))

LoadInv(l) == l.step = "none" \/ IsLoad(l)

ViewInv ==
  /\ model.dir \in Dir
  /\ ~model.err => Current(model, Shards(model.dir))
  /\ LoadInv(asked) /\ LoadInv(watched)

Inv == Files /\ ViewInv

------------------------------------------------------------------------------

LEMMA ShardsOfDir == ASSUME NEW d \in Dir PROVE Shards(d) \subseteq Shard
  BY KgReadAssumption DEF Shards, ToSet

LEMMA EmptyLen == ASSUME NEW S, NEW q \in Seq(S) PROVE q = <<>> <=> Len(q) = 0
  OBVIOUS

LEMMA InvInit == Init => Inv
<1> SUFFICES ASSUME Init PROVE Inv
  OBVIOUS
<1>1. Files
  BY DEF Init, Files, Empty, NoFile, Half
<1>2. ViewInv
  BY KgReadAssumption DEF Init, ViewInv, LoadInv
<1> QED
  BY <1>1, <1>2 DEF Inv

\* A command that starts or ends, and writes no log: the locks stay in order.
LEMMA QuietKeeps ==
  ASSUME Files, NEW d \in Dir, UNCHANGED <<disk, before>>,
         NEW o, op' = [op EXCEPT ![d] = o], ~Half(d),
         DOMAIN config' = Dir, config'[d] # "nostore",
         \A e \in Dir \ {d} : config'[e] = config[e]
  PROVE  Files' /\ Growth
<1>1. Files'
  BY DEF Files, Half
<1>2. Growth
  BY ShardsOfDir DEF Files, Growth, Mark
<1> QED
  BY <1>1, <1>2

\* The steps of writers keep Files and never change a file under its fingerprint.
LEMMA WriteGrows ==
  ASSUME Files, NEW d \in Dir, Write(d)
  PROVE  Files' /\ Growth
<1> USE ShardsOfDir
<1>s. "idle" \notin Shard /\ "save" \notin Shard
  BY KgReadAssumption
<1>d. ASSUME NEW e \in Dir, e # d PROVE Shards(d) \cap Shards(e) = {}
  BY <1>d, KgReadAssumption
<1>h. op[d] \in {"idle", "save"} => ~Half(d)
  BY <1>s DEF Files
<1>1. CASE MakeLog(d)
  <2>1. Files'
    BY <1>1 DEF MakeLog, Files, Half
  <2>2. Growth
    BY <1>1 DEF MakeLog, Files, Growth, Mark
  <2> QED
    BY <2>1, <2>2
<1>2. CASE BeginSave(d)
  BY <1>2, <1>h, QuietKeeps DEF BeginSave, Files
<1>3. CASE EndSave(d)
  BY <1>3, <1>h, QuietKeeps DEF EndSave, Files
<1>4. CASE op[d] = "idle" /\ config[d] = "ok" /\ UNCHANGED <<disk, config, before>>
           /\ \E o : op' = [op EXCEPT ![d] = o]
  BY <1>4, <1>h, QuietKeeps DEF Files
<1>5. CASE HalfLine(d)
  <2>1. PICK w \in Where : disk' = [disk EXCEPT ![op[d]] = CutOff(@, Head(todo[d]), w)]
    BY <1>5 DEF HalfLine
  <2>2. /\ op[d] \in Shards(d) /\ config[d] # "nostore"
        /\ before' = [before EXCEPT ![d] = disk[op[d]]]
        /\ UNCHANGED <<config, op>>
    BY <1>5, <1>s DEF HalfLine, Files
  <2>3. disk'[op[d]].size = disk[op[d]].size + 1
    BY <2>1, <2>2 DEF CutOff, Files
  <2>4. \A s \in Shard \ {op[d]} : disk'[s] = disk[s]
    BY <2>1 DEF Files
  <2>5. Files'
    <3>1. \A s \in Shard : disk'[s].size \in Nat
      BY <2>2, <2>3, <2>4 DEF Files
    <3>2. DOMAIN disk' = Shard
      BY <2>1 DEF Files
    <3>3. ASSUME NEW e \in Dir, Half(e)'
          PROVE  op[e] \in Shards(e) /\ before'[e].size \in Nat
                 /\ disk'[op[e]].size = before'[e].size + 1
      <4>1. CASE e = d
        BY <4>1, <2>2, <2>3 DEF Files
      <4>2. CASE e # d
        BY <4>2, <3>3, <2>2, <2>4, <1>d DEF Files, Half
      <4> QED
        BY <4>1, <4>2
    <3> QED
      BY <3>1, <3>2, <3>3, <2>2 DEF Files
  <2>6. Growth
    BY <2>2, <2>3, <2>4, <1>d DEF Growth, Mark, Files
  <2> QED
    BY <2>5, <2>6
<1>6. CASE WholeLine(d)
  <2>1. disk' = [disk EXCEPT ![op[d]] =
                   Written(IF Half(d) THEN before[d] ELSE @, Head(todo[d]))]
    BY <1>6 DEF WholeLine
  <2>2. /\ op[d] \in Shards(d) /\ config[d] # "nostore"
        /\ before' = [before EXCEPT ![d] = NoFile]
        /\ UNCHANGED config
        /\ \E o : op' = [op EXCEPT ![d] = o]
    BY <1>6, <1>s DEF WholeLine, Files
  <2>3. disk'[op[d]].size \in Nat /\ disk'[op[d]].size > disk[op[d]].size
    BY <2>1, <2>2 DEF Written, Files
  <2>4. \A s \in Shard \ {op[d]} : disk'[s] = disk[s]
    BY <2>1 DEF Files
  <2>5. Files'
    <3>1. \A s \in Shard : disk'[s].size \in Nat
      BY <2>2, <2>3, <2>4 DEF Files
    <3>2. DOMAIN disk' = Shard /\ DOMAIN op' = Dir /\ DOMAIN before' = Dir
      BY <2>1, <2>2 DEF Files
    <3>3. ASSUME NEW e \in Dir, Half(e)'
          PROVE  op'[e] \in Shards(e) /\ before'[e].size \in Nat
                 /\ disk'[op'[e]].size = before'[e].size + 1
      <4>1. e # d
        BY <3>3, <2>2 DEF Files, Half
      <4> QED
        BY <4>1, <3>3, <2>2, <2>4, <1>d DEF Files, Half
    <3> QED
      BY <3>1, <3>2, <3>3, <2>2 DEF Files
  <2>6. Growth
    BY <2>2, <2>3, <2>4, <1>d DEF Growth, Mark, Files
  <2> QED
    BY <2>5, <2>6
<1>7. CASE Die(d)
  <2>1. /\ UNCHANGED <<disk, config>>
        /\ before' = [before EXCEPT ![d] = NoFile]
        /\ op' = [op EXCEPT ![d] = "idle"]
    BY <1>7 DEF Die
  <2>2. Files'
    BY <2>1 DEF Files, Half
  <2>3. Growth
    BY <2>1 DEF Files, Growth, Mark
  <2> QED
    BY <2>2, <2>3
<1>8. CASE BeginIngest(d)
  BY <1>8, <1>4 DEF BeginIngest
<1>9. CASE \E s \in Pulled(d) : BeginPull(d, s)
  BY <1>9, <1>4 DEF BeginPull
<1> QED
  BY <1>1, <1>2, <1>3, <1>5, <1>6, <1>7, <1>8, <1>9 DEF Write

------------------------------------------------------------------------------

\* The model, as far as it says that it is complete.
ModelOf(m) == m.dir \in Dir /\ (~m.err => Current(m, Shards(m.dir)))

\* What the writers do leaves what is shown, and what is being loaded, current.
LEMMA ViewsKeep ==
  ASSUME ViewInv, Growth, UNCHANGED <<model, asked, watched>>
  PROVE  ViewInv'
<1>1. ASSUME NEW m, ModelOf(m), model' = m PROVE ModelOf(model)'
  BY <1>1 DEF ModelOf, Current, Growth, Mark
<1>2. ASSUME NEW l, LoadInv(l), asked' = l PROVE LoadInv(asked)'
  BY <1>2 DEF LoadInv, IsLoad, Current, Done, Growth, Mark
<1>3. ASSUME NEW l, LoadInv(l), watched' = l PROVE LoadInv(watched)'
  BY <1>3 DEF LoadInv, IsLoad, Current, Done, Growth, Mark
<1> QED
  BY <1>1, <1>2, <1>3 DEF ViewInv, ModelOf

\* The steps of the server do not touch the disk.
LEMMA ServerGrowth == ASSUME UNCHANGED <<disk, config>>, Files PROVE Growth
  BY ShardsOfDir DEF Growth, Mark, Files

\* A fingerprint just taken is that of the disk; of a refused folder nothing is said.
LEMMA BeginLoadSound ==
  ASSUME Files, NEW d \in Dir, NEW l \in Loads(d)
  PROVE  IsLoad(l)
<1>1. IsLoad(BeginLoad(d))
  <2>1. Listing[d] \in Seq(Shard) /\ Listing[d] # <<>>
    BY KgReadAssumption DEF Shards, ToSet
  <2>2. \A s \in Shards(d) : -1 <= Mark(d, s)
    BY ShardsOfDir DEF Mark, Files
  <2>3. Current(BeginLoad(d), {})
    BY <2>2 DEF BeginLoad, Current
  <2>4. Done(BeginLoad(d)) = {}
    BY DEF BeginLoad, Done
  <2> DEFINE r == BeginLoad(d)
  <2>5. /\ r = [step |-> r.step, dir |-> r.dir, err |-> r.err, print |-> r.print,
                shown |-> r.shown, left |-> r.left]
        /\ r.dir = d /\ DOMAIN r.shown = Shard /\ DOMAIN r.print = Shards(d)
    BY DEF BeginLoad, NoEvents
  <2>6. /\ r.step \in {"open", "print"} /\ r.left \in Seq(Shard)
        /\ r.step = "print" => r.left # <<>>
    BY <2>1 DEF BeginLoad
  <2> HIDE DEF r
  <2>7. IsLoad(r)
    BY <2>3, <2>4, <2>5, <2>6 DEF IsLoad, r
  <2> QED BY <2>7 DEF r
<1>2. IsLoad(RefuseLoad(d))
  BY DEF RefuseLoad, NoRoot, IsLoad, NoEvents
<1>3. l = BeginLoad(d) \/ l = RefuseLoad(d)
  BY DEF Loads
<1> QED BY <1>1, <1>2, <1>3

\* One step of a load: what was read stays current, what is read now is.
LEMMA LoadStepSound ==
  ASSUME Files, NEW l, IsLoad(l), Loading(l)
  PROVE  IsLoad(LoadStep(l))
<1> USE ShardsOfDir
<1>0. /\ l = [step |-> l.step, dir |-> l.dir, err |-> l.err, print |-> l.print,
              shown |-> l.shown, left |-> l.left]
      /\ l.dir \in Dir /\ DOMAIN l.shown = Shard
  BY DEF IsLoad
<1>1. CASE l.step = "open" /\ config[l.dir] = "ok"
  <2>1. LoadStep(l) = [step |-> "read", dir |-> l.dir, err |-> l.err, print |-> l.print,
                       shown |-> l.shown, left |-> Listing[l.dir]]
    BY <1>0, <1>1 DEF LoadStep, OpenStore
  <2>2. Listing[l.dir] \in Seq(Shard) /\ Listing[l.dir] # <<>>
    BY <1>0, KgReadAssumption DEF Shards, ToSet
  <2>3. ~l.err => Current(LoadStep(l), Done(LoadStep(l)))
    BY <1>0, <1>1, <2>1 DEF IsLoad, Current, Done, Shards
  <2> QED
    BY <1>0, <2>1, <2>2, <2>3 DEF IsLoad
<1>2. CASE l.step = "open" /\ config[l.dir] # "ok"
  <2>1. LoadStep(l) = [step |-> "loaded", dir |-> l.dir, err |-> TRUE, print |-> l.print,
                       shown |-> l.shown, left |-> l.left]
    BY <1>0, <1>2 DEF LoadStep, OpenStore
  <2> QED
    BY <1>0, <2>1 DEF IsLoad
<1>4. CASE l.step = "print"
  <2> DEFINE s == Head(l.left)
             r == LoadStep(l)
             p == [l.print EXCEPT ![s] = LogFingerprint(l.dir)[s]]
  <2>1. l.left \in Seq(Shard) /\ l.left # <<>>
    BY <1>4 DEF IsLoad
  <2>2. Tail(l.left) \in Seq(Shard) /\ (Len(l.left) # 1 => Tail(l.left) # <<>>)
    <3>1. Len(Tail(l.left)) = Len(l.left) - 1 /\ Len(l.left) \in Nat
      BY <2>1
    <3>2. Tail(l.left) \in Seq(Shard)
      BY <2>1
    <3>3. Tail(l.left) = <<>> <=> Len(Tail(l.left)) = 0
      BY <3>2, EmptyLen
    <3> QED BY <3>1, <3>2, <3>3
  <2>3. r = [step |-> IF Len(l.left) = 1 THEN "open" ELSE "print", dir |-> l.dir, err |-> l.err,
             print |-> p, shown |-> l.shown, left |-> Tail(l.left)]
    BY <1>0, <1>4 DEF LoadStep, PrintOne
  <2>4. ASSUME ~l.err PROVE Current(r, {})
    <3>1. \A t \in Shards(l.dir) : l.print[t] \in Int /\ l.print[t] <= Mark(l.dir, t)
      BY <2>4 DEF IsLoad, Current
    <3>2. \A t \in Shards(l.dir) : /\ LogFingerprint(l.dir)[t] = Mark(l.dir, t)
                                   /\ Mark(l.dir, t) \in Int
      BY <1>0 DEF LogFingerprint, Mark, Files
    <3>3. DOMAIN l.print = Shards(l.dir)
      BY DEF IsLoad
    <3>4. \A t \in Shards(l.dir) : p[t] \in Int /\ p[t] <= Mark(l.dir, t)
      <4> HIDE DEF s
      <4>1. \A t \in Shards(l.dir) : p[t] = IF t = s THEN LogFingerprint(l.dir)[s] ELSE l.print[t]
        BY <3>3
      <4> HIDE DEF p
      <4> QED BY <3>1, <3>2, <4>1
    <3> HIDE DEF r, p
    <3> QED BY <2>3, <3>4 DEF Current
  <2>5. DOMAIN p = Shards(l.dir)
    BY DEF IsLoad
  <2>6. Done(r) = {}
    BY <2>3 DEF Done
  <2>7. IsLoad(r)
    <3> HIDE DEF r, p, s
    <3> QED BY <1>0, <2>2, <2>3, <2>4, <2>5, <2>6 DEF IsLoad
  <2> QED BY <2>7 DEF r
<1>3. CASE l.step = "read"
  <2> DEFINE s == Head(l.left)
             r == LoadStep(l)
  <2>1. l.left \in Seq(Shard) /\ l.left # <<>>
    BY <1>3 DEF IsLoad
  <2>2. /\ s \in Shard /\ Tail(l.left) \in Seq(Shard)
        /\ ToSet(l.left) \subseteq {s} \cup ToSet(Tail(l.left))
        /\ (Len(l.left) = 1) = (Tail(l.left) = <<>>)
    <3>1. s \in Shard /\ Tail(l.left) \in Seq(Shard)
      BY <2>1
    <3>2. (Len(l.left) = 1) = (Tail(l.left) = <<>>)
      <4>1. Len(Tail(l.left)) = Len(l.left) - 1 /\ Len(l.left) \in Nat
        BY <2>1
      <4>2. Tail(l.left) = <<>> <=> Len(Tail(l.left)) = 0
        BY <3>1, EmptyLen
      <4> QED
        BY <4>1, <4>2
    <3>3. ASSUME NEW k \in DOMAIN l.left, l.left[k] # s
          PROVE  l.left[k] \in ToSet(Tail(l.left))
      <4>1. k - 1 \in DOMAIN Tail(l.left) /\ Tail(l.left)[k - 1] = l.left[k]
        BY <2>1, <3>3
      <4> QED
        BY <4>1 DEF ToSet
    <3> QED
      BY <3>1, <3>2, <3>3 DEF ToSet
  <2>3. /\ r.step = IF Len(l.left) = 1 THEN "loaded" ELSE "read"
        /\ r.dir = l.dir /\ r.err = l.err /\ r.print = l.print /\ r.left = Tail(l.left)
        /\ r.shown = [l.shown EXCEPT ![s] = ReadShard(disk[s])]
        /\ r = [step |-> r.step, dir |-> r.dir, err |-> r.err, print |-> r.print,
                shown |-> r.shown, left |-> r.left]
    BY <1>0, <1>3 DEF LoadStep, ReadOne
  <2>4. ASSUME ~l.err PROVE Current(r, Done(r))
    <3>1. Current(l, Done(l))
      BY <2>4 DEF IsLoad
    <3>2. Done(l) = Shards(l.dir) \ ToSet(l.left) /\ Done(r) = Shards(l.dir) \ ToSet(r.left)
      BY <1>3, <2>3 DEF Done
    <3>3. \A t \in Shard : r.shown[t] = IF t = s THEN ReadShard(disk[s]) ELSE l.shown[t]
      BY <1>0, <2>3
    <3> HIDE DEF r, s
    <3> QED
      BY <1>0, <2>2, <2>3, <3>1, <3>2, <3>3 DEF Current
  <2> HIDE DEF r, s
  <2> QED
    <3>1. r.step \in {"loaded", "read"} /\ (r.step = "loaded") = (r.left = <<>>)
      BY <2>2, <2>3
    <3>2. /\ DOMAIN r.shown = Shard /\ r.left \in Seq(Shard) /\ r.dir \in Dir
          /\ DOMAIN r.print = Shards(r.dir)
      BY <1>0, <2>2, <2>3 DEF IsLoad
    <3>3. r = [step |-> r.step, dir |-> r.dir, err |-> r.err, print |-> r.print,
               shown |-> r.shown, left |-> r.left] /\ r.err = l.err
      BY <2>3
    <3>4. IsLoad(r)
      BY <2>4, <3>1, <3>2, <3>3 DEF IsLoad
    <3> QED
      BY <3>4 DEF r
<1> QED
  BY <1>1, <1>2, <1>3, <1>4 DEF Loading

\* A finished load shows, when it replaces the model, the log of its fingerprint.
LEMMA LoadedSound ==
  ASSUME NEW l, IsLoad(l), l.step \in {"loaded", "checked"}
  PROVE  /\ Loaded(l).dir \in Dir
         /\ ~Loaded(l).err => Current(Loaded(l), Shards(Loaded(l).dir))
<1>1. l.dir \in Dir /\ (l.err \/ l.left = <<>>) /\ (~l.err => Current(l, Done(l)))
  BY DEF IsLoad
<1>2. l.left = <<>> => Done(l) = Shards(l.dir)
  <2>1. Done(l) = Shards(l.dir) \ ToSet(l.left)
    BY DEF Done
  <2>2. ToSet(<<>>) = {}
    BY DEF ToSet
  <2> QED BY <2>1, <2>2
<1> QED
  BY <1>1, <1>2 DEF Loaded, Current

LEMMA ServerKeeps ==
  ASSUME Inv, Serve \/ Watch
  PROVE  Inv'
<1>0. /\ Files /\ ViewInv
      /\ UNCHANGED <<disk, config, op, before>>
  BY DEF Inv, Serve, Watch, Ask, AskedLoad, Answer, Poll, WatchedLoad, Check, Swap, log
<1>1. Files'
  BY <1>0 DEF Files, Half
<1>2. ASSUME NEW m, ModelOf(m), model' = m PROVE ModelOf(model)'
  BY <1>0, <1>2 DEF ModelOf, Current, Mark
<1>3. ASSUME NEW l, LoadInv(l), asked' = l PROVE LoadInv(asked)'
  BY <1>0, <1>3 DEF LoadInv, IsLoad, Current, Done, Mark
<1>4. ASSUME NEW l, LoadInv(l), watched' = l PROVE LoadInv(watched)'
  BY <1>0, <1>4 DEF LoadInv, IsLoad, Current, Done, Mark
<1>5. ModelOf(model) /\ LoadInv(asked) /\ LoadInv(watched) /\ LoadInv(NoLoad)
  BY <1>0 DEF ViewInv, ModelOf, LoadInv, NoLoad
<1>6. ModelOf(model)'
  <2>1. CASE UNCHANGED model
    BY <2>1, <1>5, <1>2
  <2>2. CASE Answer
    <3>1. IsLoad(asked) /\ asked.step \in {"loaded", "checked"} /\ model' = Loaded(asked)
      BY <2>2, <1>5 DEF Answer, LoadInv
    <3> QED
      BY <3>1, <1>2, LoadedSound DEF ModelOf
  <2>3. CASE Swap
    <3>1. IsLoad(watched) /\ watched.step \in {"loaded", "checked"} /\ model' = Loaded(watched)
      BY <2>3, <1>5 DEF Swap, LoadInv
    <3> QED
      BY <3>1, <1>2, LoadedSound DEF ModelOf
  <2> QED
    BY <2>1, <2>2, <2>3 DEF Serve, Watch, Ask, AskedLoad, Poll, WatchedLoad, Check
<1>7. LoadInv(asked)'
  <2>1. CASE UNCHANGED asked
    BY <2>1, <1>5, <1>3
  <2>2. ASSUME NEW d \in Dir, Ask(d) PROVE LoadInv(asked)'
    BY <2>2, <1>0, <1>3, BeginLoadSound DEF Ask, LoadInv
  <2>3. CASE AskedLoad
    <3>1. IsLoad(asked) /\ Loading(asked) /\ asked' = LoadStep(asked)
      BY <2>3, <1>5 DEF AskedLoad, LoadInv, Loading
    <3> QED
      BY <3>1, <1>0, <1>3, LoadStepSound DEF LoadInv
  <2>4. CASE Answer
    BY <2>4, <1>3, <1>5 DEF Answer
  <2> QED
    BY <2>1, <2>2, <2>3, <2>4 DEF Serve, Watch, Poll, WatchedLoad, Check, Swap
<1>8. LoadInv(watched)'
  <2>1. CASE UNCHANGED watched
    BY <2>1, <1>5, <1>4
  <2>2. CASE Poll
    <3>1. model.dir \in Dir /\ watched' \in Loads(model.dir)
      BY <2>2, <1>5 DEF Poll, ModelOf
    <3> QED
      BY <3>1, <1>0, <1>4, BeginLoadSound DEF LoadInv
  <2>3. CASE WatchedLoad
    <3>1. IsLoad(watched) /\ Loading(watched) /\ watched' = LoadStep(watched)
      BY <2>3, <1>5 DEF WatchedLoad, LoadInv, Loading
    <3> QED
      BY <3>1, <1>0, <1>4, LoadStepSound DEF LoadInv
  <2>4. CASE Check
    <3>1. IsLoad(watched) /\ watched.step = "loaded"
      BY <2>4, <1>5 DEF Check, LoadInv
    <3> DEFINE c == [watched EXCEPT !.step = "checked"]
    <3>2. c = [step |-> "checked", dir |-> watched.dir, err |-> watched.err,
               print |-> watched.print, shown |-> watched.shown, left |-> watched.left]
      BY <3>1 DEF IsLoad
    <3>3. IsLoad(c)
      <4> HIDE DEF c
      <4> QED
        BY <3>1, <3>2 DEF IsLoad, Current, Done
    <3> HIDE DEF c
    <3>4. watched' = c \/ watched' = NoLoad
      BY <2>4 DEF Check, c
    <3> QED
      BY <3>3, <3>4, <1>4, <1>5 DEF LoadInv
  <2>5. CASE Swap
    BY <2>5, <1>4, <1>5 DEF Swap
  <2> QED
    BY <2>1, <2>2, <2>3, <2>4, <2>5 DEF Serve, Watch, Ask, AskedLoad, Answer
<1> QED
  BY <1>1, <1>6, <1>7, <1>8 DEF Inv, ViewInv, ModelOf

LEMMA InvStep == Inv /\ [Next]_vars => Inv'
<1> SUFFICES ASSUME Inv, [Next]_vars PROVE Inv'
  OBVIOUS
<1>1. CASE UNCHANGED vars
  <2>1. Files' /\ Growth /\ UNCHANGED <<model, asked, watched>>
    BY <1>1, ServerGrowth DEF Inv, Files, Half, vars, log, kgread
  <2> QED
    BY <2>1, ViewsKeep DEF Inv
<1>2. ASSUME NEW d \in Dir, Write(d) PROVE Inv'
  <2>1. Files' /\ Growth
    BY <1>2, WriteGrows DEF Inv
  <2>2. UNCHANGED <<model, asked, watched>>
    BY <1>2 DEF Write, MakeLog, BeginSave, EndSave, BeginIngest, BeginPull, HalfLine,
       WholeLine, Die, kgread
  <2> QED
    BY <2>1, <2>2, ViewsKeep DEF Inv
<1>3. CASE Serve \/ Watch
  BY <1>3, ServerKeeps
<1> QED
  BY <1>1, <1>2, <1>3 DEF Next

\* A model the watcher takes for current is current, in every reachable state:
\* no schedule of writers, half written lines, requests and polls leaves the
\* viewer behind without the watcher noticing at its next tick.
THEOREM ViewerIsFresh == Spec => []FreshIsComplete
<1>1. Inv => FreshIsComplete
  <2> SUFFICES ASSUME Inv, ~model.err, model.print = LogFingerprint(model.dir),
                      NEW s \in Shards(model.dir)
               PROVE  model.shown[s] = ReadShard(disk[s])
    BY DEF FreshIsComplete, Complete
  <2>1. model.print[s] = Mark(model.dir, s)
    BY DEF LogFingerprint, Mark
  <2> QED
    BY <2>1 DEF Inv, ViewInv, Current
<1> QED
  BY <1>1, InvInit, InvStep, PTL DEF Spec

------------------------------------------------------------------------------
(* Shard files.                                                            *)

\* The loop of readShard is a fold over the lines, see FoldTheory.
Parsing == INSTANCE FoldTheory WITH Op <- AddParsed

\* AddParsed folded over the lines is FoldTheory's fold of it.
LEMMA ParsingFold == \A b, s : FoldLeft(AddParsed, b, s) = Parsing!FoldLeft(AddParsed, b, s)
  BY Zenon DEF FoldLeft, MapThenFoldSet, Max, Parsing!FoldLeft, Parsing!MapThenFoldSet, Parsing!Max

\* Nothing is read from an empty file.
LEMMA ReadShardEmpty ==
  ASSUME NEW f, f.lines = <<>>
  PROVE  ReadShard(f) = <<>>
BY ParsingFold, Parsing!FoldLeftEmpty, Zenon DEF ReadShard

\* A line that parses is read after those before it; one that does not is skipped.
LEMMA ReadShardAppend ==
  ASSUME NEW X, NEW f, NEW g, NEW l \in X, f.lines \in Seq(X), g.lines = Append(f.lines, l)
  PROVE  ReadShard(g) = AddParsed(ReadShard(f), l)
<1>1. Parsing!FoldLeft(AddParsed, <<>>, Append(f.lines, l))
        = AddParsed(Parsing!FoldLeft(AddParsed, <<>>, f.lines), l)
  BY Parsing!FoldLeftAppend, Zenon
<1> QED BY <1>1, ParsingFold, Zenon DEF ReadShard

\* The lines of a file.
Lines == Seq(Event \cup {Malformed})

\* One more element at the end of a sequence.
LEMMA AppendTyped ==
  ASSUME NEW X, NEW q \in Seq(X), NEW x \in X
  PROVE  /\ Append(q, x) \in Seq(X) /\ Append(q, x) # <<>>
         /\ Len(Append(q, x)) = Len(q) + 1 /\ Len(q) \in Nat
         /\ Append(q, x)[Len(q) + 1] = x /\ Last(Append(q, x)) = x
         /\ \A k \in 1 .. Len(q) : Append(q, x)[k] = q[k]
BY DEF Last

\* What is read are events.
LEMMA ReadShardTyped ==
  ASSUME NEW f, f.lines \in Lines
  PROVE  ReadShard(f) \in Seq(Event)
<1> DEFINE Shown(q) == ReadShard([lines |-> q])
           S == {q \in Lines : Shown(q) \in Seq(Event)}
           X == Event \cup {Malformed}
<1>1. <<>> \in S
  <2>1. Shown(<<>>) = <<>>
    BY ReadShardEmpty
  <2> QED BY <2>1 DEF Lines
<1>2. ASSUME NEW q \in Seq(X), NEW x \in X, q \in S PROVE Append(q, x) \in S
  <2>1. Shown(Append(q, x)) = AddParsed(Shown(q), x)
    <3> DEFINE f0 == [lines |-> q]
               g0 == [lines |-> Append(q, x)]
    <3>1. f0.lines \in Seq(X) /\ g0.lines = Append(f0.lines, x)
      OBVIOUS
    <3> HIDE DEF f0, g0, X
    <3>2. ReadShard(g0) = AddParsed(ReadShard(f0), x)
      BY <3>1, ReadShardAppend
    <3> QED BY <3>2 DEF f0, g0
  <2>2. Shown(q) \in Seq(Event)
    BY <1>2
  <2> HIDE DEF Shown
  <2>3. x # Malformed => Append(Shown(q), x) \in Seq(Event)
    BY <2>2, AppendTyped
  <2>4. Shown(Append(q, x)) \in Seq(Event)
    BY <2>1, <2>2, <2>3 DEF AddParsed
  <2>5. Append(q, x) \in Lines
    BY DEF Lines
  <2> QED BY <2>4, <2>5
<1>3. Lines = Seq(X)
  BY DEF Lines
<1> HIDE DEF S, X, Shown
<1>4. \A q \in Seq(X) : q \in S
  BY <1>1, <1>2, Parsing!SeqInduction
<1>5. ReadShard([lines |-> f.lines]) \in Seq(Event)
  BY <1>3, <1>4 DEF S, Shown
<1> QED BY <1>5 DEF ReadShard

\* A file that does not end in a newline has a last line.
WholeFile(f) == f \in File /\ (~f.ended => f.lines # <<>>)

\* The ends of a sequence that is not empty.
LEMMA SeqEnds ==
  ASSUME NEW X, NEW q \in Seq(X), q # <<>>
  PROVE  Front(q) \in Seq(X) /\ Last(q) \in X /\ Len(q) \in Nat \ {0}
BY DEF Front, Last

\* What the writes make of a file.
LEMMA WritesTyped ==
  ASSUME NEW f, WholeFile(f), NEW e \in Event, NEW where \in {"json", "newline"}
  PROVE  /\ Kept(f) \in Lines /\ Line(f, e) \in Event \cup {Malformed}
         /\ WholeFile(Written(f, e)) /\ Written(f, e).ended
         /\ WholeFile(CutOff(f, e, where)) /\ ~CutOff(f, e, where).ended
         /\ CountLines(f) \in Nat /\ TailEvent(f) \in Nat
<1> DEFINE X == Event \cup {Malformed}
<1>1. /\ f \in File /\ f.lines \in Seq(X) /\ f.ended \in BOOLEAN /\ f.size \in Nat
      /\ (~f.ended => f.lines # <<>>)
  BY DEF WholeFile, File
<1>2. Kept(f) \in Seq(X) /\ Line(f, e) \in X
  BY <1>1, SeqEnds DEF Kept, Line
<1>3. \A l \in X : Append(Kept(f), l) \in Seq(X) /\ Append(Kept(f), l) # <<>>
  <2> HIDE DEF X
  <2> QED BY <1>2, AppendTyped
<1>4. WholeFile(Written(f, e)) /\ Written(f, e).ended
  BY <1>1, <1>2, <1>3 DEF Written, WholeFile, File
<1>5. WholeFile(CutOff(f, e, where)) /\ ~CutOff(f, e, where).ended
  <2> DEFINE last == IF where = "newline" THEN Line(f, e) ELSE Malformed
             cut == Append(Kept(f), last)
  <2>1. last \in X
    BY <1>2
  <2> HIDE DEF last
  <2>2. cut \in Seq(X) /\ cut # <<>>
    BY <1>3, <2>1
  <2>3. CutOff(f, e, where) = [lines |-> cut, ended |-> FALSE, size |-> f.size + 1]
    BY DEF CutOff, last
  <2> HIDE DEF cut
  <2>4. f.size + 1 \in Nat
    BY <1>1
  <2> QED BY <2>2, <2>3, <2>4 DEF WholeFile, File
<1>6. CountLines(f) \in Nat
  BY <1>1, SeqEnds DEF CountLines
<1>7. TailEvent(f) \in Nat
  <2>1. ReadShard(f) \in Seq(Event)
    BY <1>1, ReadShardTyped DEF Lines
  <2>2. CASE ReadShard(f) = <<>>
    BY <2>2 DEF TailEvent
  <2>3. CASE ReadShard(f) # <<>>
    <3>1. Last(ReadShard(f)) \in Event
      BY <2>1, <2>3, SeqEnds
    <3> QED BY <2>3, <3>1 DEF TailEvent, Event
  <2> QED BY <2>2, <2>3
<1> QED BY <1>2, <1>4, <1>5, <1>6, <1>7 DEF Lines

------------------------------------------------------------------------------
(* The logs: types, and the own shard of a folder.                         *)

\* What belongs together while a line is written.
WriteOK(d) ==
  /\ (todo[d] # <<>>) = (op[d] \in Shards(d))
  /\ Half(d) => WholeFile(before[d]) /\ todo[d] # <<>> /\ ~disk[op[d]].ended
  /\ tried[d] <= MaxIngest[d] /\ saved[d] <= MaxSave[d]

\* Types of what the writers change.
LogTyped ==
  /\ disk \in [Shard -> File] /\ \A s \in Shard : WholeFile(disk[s])
  /\ config \in [Dir -> {"nostore", "missing", "cut", "ok"}]
  /\ op \in [Dir -> Shard \cup {"idle", "save"}]
  /\ todo \in [Dir -> Seq(Event)]
  /\ before \in [Dir -> File]
  /\ tried \in [Dir -> Nat] /\ saved \in [Dir -> Nat] /\ acked \in [Dir -> SUBSET Event]
  /\ \A d \in Dir : WriteOK(d)
  /\ crashes \in 0 .. MaxCrash

\* The events of a shard are one hash chain.
Linked(events) ==
  \A k \in 1 .. Len(events) : events[k].parent = IF k = 1 THEN 0 ELSE events[k - 1].n

\* An own shard that has been cut has a last line that does not parse, so that nobody
\* writes to it any more; who writes to it adds one event that continues it.
OwnSafe(d) ==
  LET own == disk[Own[d]] IN
    /\ Linked(ReadShard(own)) /\ acked[d] \subseteq ToSet(ReadShard(own))
    /\ ~own.ended => ~TailParses(own)
    /\ op[d] = Own[d] =>
         /\ Len(todo[d]) = 1 /\ Head(todo[d]).parent = TailEvent(own)
         /\ IF Half(d) THEN before[d].ended /\ ReadShard(before[d]) = ReadShard(own)
            ELSE own.ended

OwnOK == \A d \in Dir : OwnSafe(d)

\* What the writers of one folder leave alone.
LEMMA OthersKeep ==
  ASSUME LogTyped, NEW d \in Dir, Write(d)
  PROVE  /\ \A s \in Shard \ Shards(d) : disk'[s] = disk[s]
         /\ \A e \in Dir \ {d} :
              /\ config'[e] = config[e] /\ op'[e] = op[e] /\ todo'[e] = todo[e]
              /\ before'[e] = before[e] /\ tried'[e] = tried[e] /\ saved'[e] = saved[e]
              /\ acked'[e] = acked[e]
BY DEF LogTyped, Write, MakeLog, BeginSave, EndSave, BeginIngest, BeginPull, HalfLine, WholeLine, Die

\* A half or a whole line ends up in a file.
LEMMA LineTyped ==
  ASSUME LogTyped, NEW d \in Dir, op[d] \in Shards(d)
  PROVE  /\ op[d] \in Shard /\ Head(todo[d]) \in Event /\ Tail(todo[d]) \in Seq(Event)
         /\ (Tail(todo[d]) = <<>>) = (Len(todo[d]) = 1)
         /\ WholeFile(disk[op[d]]) /\ WholeFile(IF Half(d) THEN before[d] ELSE disk[op[d]])
<1>1. todo[d] \in Seq(Event) /\ todo[d] # <<>>
  BY DEF LogTyped, WriteOK
<1>2. op[d] \in Shard
  BY ShardsOfDir
<1>3. Head(todo[d]) \in Event /\ Tail(todo[d]) \in Seq(Event)
  BY <1>1
<1>4. Len(Tail(todo[d])) = Len(todo[d]) - 1 /\ Len(todo[d]) \in Nat
  BY <1>1
<1>5. (Tail(todo[d]) = <<>>) = (Len(Tail(todo[d])) = 0)
  BY <1>3, EmptyLen
<1>6. (Tail(todo[d]) = <<>>) = (Len(todo[d]) = 1)
  BY <1>4, <1>5
<1> QED BY <1>2, <1>3, <1>6 DEF LogTyped, WriteOK

\* Every step of a writer keeps the logs typed.
LEMMA LogStep ==
  ASSUME LogTyped, NEW d \in Dir, Write(d)
  PROVE  LogTyped'
<1>0. /\ "idle" \notin Shards(d) /\ "save" \notin Shards(d) /\ Shards(d) \subseteq Shard
      /\ Own[d] \in Shards(d) /\ MaxIngest \in [Dir -> Nat] /\ MaxSave \in [Dir -> Nat]
      /\ MaxCrash \in Nat /\ MaxSent \in Nat /\ Where \subseteq {"json", "newline"}
      /\ \A e \in Dir \ {d} : Shards(e) \cap Shards(d) = {}
  BY ShardsOfDir, KgReadAssumption
<1>1. LogTyped
  OBVIOUS
<1>2. \A e \in Dir \ {d} : WriteOK(e)'
  <2>1. SUFFICES ASSUME NEW e \in Dir \ {d} PROVE WriteOK(e)'
    OBVIOUS
  <2>2. /\ op'[e] = op[e] /\ todo'[e] = todo[e] /\ before'[e] = before[e]
        /\ tried'[e] = tried[e] /\ saved'[e] = saved[e]
    BY OthersKeep
  <2>3. op[e] \in Shards(e) => disk'[op[e]] = disk[op[e]]
    BY <1>0, ShardsOfDir, OthersKeep
  <2>4. WriteOK(e) /\ (Half(e)' = Half(e))
    BY <2>2 DEF LogTyped, Half
  <2> QED BY <2>2, <2>3, <2>4 DEF WriteOK
<1>3. ASSUME NEW c \in {"missing", "cut", "ok"}, config' = [config EXCEPT ![d] = c],
             NEW o \in {"idle", "save"}, op' = [op EXCEPT ![d] = o] \/ op' = op,
             NEW k \in Nat, k <= MaxSave[d], saved' = [saved EXCEPT ![d] = k] \/ saved' = saved,
             op'[d] # op[d] => op[d] \in {"idle", "save"},
             UNCHANGED <<disk, todo, before, tried, acked, crashes>>
      PROVE  LogTyped'
  <2>1. /\ config' \in [Dir -> {"nostore", "missing", "cut", "ok"}]
        /\ op' \in [Dir -> Shard \cup {"idle", "save"}] /\ saved' \in [Dir -> Nat]
    BY <1>3 DEF LogTyped
  <2>2. /\ op'[d] = op[d] \/ {op'[d], op[d]} \subseteq {"idle", "save"}
        /\ saved'[d] <= MaxSave[d]
    BY <1>3 DEF LogTyped, WriteOK
  <2>3. Half(d)' = Half(d)
    BY <1>3 DEF Half
  <2>4. WriteOK(d)'
    BY <1>0, <1>3, <2>2, <2>3 DEF LogTyped, WriteOK
  <2> QED BY <1>2, <1>3, <2>1, <2>4 DEF LogTyped
<1>10. CASE MakeLog(d)
  BY <1>3, <1>10, 0 \in Nat, saved[d] \in Nat, saved[d] <= MaxSave[d] DEF MakeLog, LogTyped, WriteOK
<1>11. CASE BeginSave(d)
  <2>1. saved[d] + 1 \in Nat /\ saved[d] + 1 <= MaxSave[d]
    BY <1>0, <1>11 DEF BeginSave, LogTyped
  <2> QED BY <1>3, <1>11, <2>1 DEF BeginSave
<1>12. CASE EndSave(d)
  BY <1>3, <1>12, saved[d] \in Nat, saved[d] <= MaxSave[d] DEF EndSave, LogTyped, WriteOK
<1>4. ASSUME NEW s \in Shards(d), NEW q \in Seq(Event), q # <<>>, op[d] = "idle",
             op' = [op EXCEPT ![d] = s], todo' = [todo EXCEPT ![d] = q],
             UNCHANGED <<disk, config, saved, before, acked, crashes>>,
             tried' \in [Dir -> Nat], tried'[d] <= MaxIngest[d]
      PROVE  LogTyped'
  <2>1. op' \in [Dir -> Shard \cup {"idle", "save"}] /\ todo' \in [Dir -> Seq(Event)]
        /\ op'[d] = s /\ todo'[d] = q
    BY <1>0, <1>4 DEF LogTyped
  <2>2. ~Half(d)'
    BY <1>0, <1>4 DEF Half, LogTyped, WriteOK
  <2>3. WriteOK(d)'
    BY <1>4, <2>1, <2>2 DEF LogTyped, WriteOK
  <2> QED BY <1>2, <1>4, <2>1, <2>3 DEF LogTyped
<1>5. CASE BeginIngest(d)
  <2> DEFINE e == [n |-> tried[d] + 1, parent |-> TailEvent(disk[Own[d]])]
  <2>1. WholeFile(disk[Own[d]])
    BY <1>0 DEF LogTyped
  <2>2. e \in Event
    <3>1. TailEvent(disk[Own[d]]) \in Nat
      <4>1. [n |-> 1, parent |-> 0] \in Event
        BY DEF Event
      <4> QED BY <2>1, <4>1, WritesTyped
    <3> QED BY <3>1 DEF Event, LogTyped
  <2>3. <<e>> \in Seq(Event) /\ <<e>> # <<>>
    BY <2>2
  <2>4. tried' \in [Dir -> Nat] /\ tried'[d] <= MaxIngest[d]
    BY <1>0, <1>5 DEF BeginIngest, LogTyped
  <2> QED BY <1>0, <1>4, <1>5, <2>3, <2>4 DEF BeginIngest
<1>6. ASSUME NEW s \in Pulled(d), BeginPull(d, s) PROVE LogTyped'
  <2>1. s \in Shards(d)
    BY DEF Pulled
  <2> DEFINE c == CountLines(disk[s])
  <2>2. c \in Nat
    <3>1. [n |-> 1, parent |-> 0] \in Event /\ WholeFile(disk[s])
      BY <1>0, <2>1 DEF Event, LogTyped
    <3> QED BY <3>1, WritesTyped
  <2> HIDE DEF c
  <2>3. PICK upTo \in c + 1 .. MaxSent :
          todo' = [todo EXCEPT ![d] = [k \in 1 .. upTo - c |-> Foreign(c + k)]]
    BY <1>6 DEF BeginPull, c
  <2> DEFINE q == [k \in 1 .. upTo - c |-> Foreign(c + k)]
  <2>4. upTo - c \in Nat /\ upTo - c >= 1
    BY <1>0, <2>2
  <2>5. \A k \in 1 .. upTo - c : Foreign(c + k) \in Event
    BY <2>2, <2>4 DEF Foreign, Event
  <2>6. q \in Seq(Event) /\ Len(q) = upTo - c
    BY <2>4, <2>5
  <2>7. q # <<>>
    BY <2>4, <2>6
  <2> HIDE DEF q
  <2>8. tried' \in [Dir -> Nat] /\ tried'[d] <= MaxIngest[d]
    BY <1>6 DEF BeginPull, LogTyped, WriteOK
  <2>9. /\ op[d] = "idle" /\ op' = [op EXCEPT ![d] = s] /\ todo' = [todo EXCEPT ![d] = q]
        /\ UNCHANGED <<disk, config, saved, before, acked, crashes>>
    BY <1>6, <2>3 DEF BeginPull, q
  <2> QED BY <1>4, <2>1, <2>6, <2>7, <2>8, <2>9
<1>7. CASE HalfLine(d)
  <2>1. PICK w \in Where : disk' = [disk EXCEPT ![op[d]] = CutOff(@, Head(todo[d]), w)]
    BY <1>7 DEF HalfLine
  <2>2. /\ op[d] \in Shards(d) /\ before' = [before EXCEPT ![d] = disk[op[d]]]
        /\ UNCHANGED <<config, saved, op, todo, tried, acked, crashes>>
    BY <1>7 DEF HalfLine
  <2>3. /\ op[d] \in Shard /\ Head(todo[d]) \in Event /\ WholeFile(disk[op[d]])
    BY <2>2, LineTyped
  <2> DEFINE f == CutOff(disk[op[d]], Head(todo[d]), w)
  <2>4. WholeFile(f) /\ ~f.ended
    BY <1>0, <2>3, WritesTyped
  <2>5. f \in File
    BY <2>4 DEF WholeFile
  <2> HIDE DEF f
  <2>6. disk' \in [Shard -> File] /\ disk'[op[d]] = f /\ \A s \in Shard : WholeFile(disk'[s])
    BY <2>1, <2>3, <2>4, <2>5 DEF LogTyped, f
  <2>7. before' \in [Dir -> File] /\ before'[d] = disk[op[d]]
    BY <2>2, <2>3 DEF LogTyped
  <2>8. WriteOK(d)'
    BY <2>2, <2>3, <2>4, <2>6, <2>7 DEF LogTyped, WriteOK
  <2> QED BY <1>2, <2>2, <2>6, <2>7, <2>8 DEF LogTyped
<1>8. CASE WholeLine(d)
  <2> DEFINE old == IF Half(d) THEN before[d] ELSE disk[op[d]]
             f == Written(old, Head(todo[d]))
  <2>1. /\ op[d] \in Shards(d) /\ disk' = [disk EXCEPT ![op[d]] = f]
        /\ before' = [before EXCEPT ![d] = NoFile]
        /\ todo' = [todo EXCEPT ![d] = Tail(todo[d])]
        /\ op' = [op EXCEPT ![d] = IF Len(todo[d]) = 1 THEN "idle" ELSE op[d]]
        /\ acked' = [acked EXCEPT ![d] = IF op[d] = Own[d] THEN acked[d] \cup {Head(todo[d])}
                                         ELSE acked[d]]
        /\ UNCHANGED <<config, saved, tried, crashes>>
    BY <1>8 DEF WholeLine, LogTyped
  <2>2. /\ op[d] \in Shard /\ Head(todo[d]) \in Event /\ Tail(todo[d]) \in Seq(Event)
        /\ (Tail(todo[d]) = <<>>) = (Len(todo[d]) = 1) /\ WholeFile(old)
    BY <2>1, LineTyped
  <2>3. WholeFile(f)
    BY <2>2, WritesTyped
  <2>4. f \in File /\ NoFile \in File
    BY <2>3 DEF WholeFile, NoFile, File
  <2> HIDE DEF f, old
  <2>5. disk' \in [Shard -> File] /\ \A s \in Shard : WholeFile(disk'[s])
    BY <2>1, <2>2, <2>3, <2>4 DEF LogTyped
  <2>6. /\ before' \in [Dir -> File] /\ todo' \in [Dir -> Seq(Event)]
        /\ op' \in [Dir -> Shard \cup {"idle", "save"}] /\ acked' \in [Dir -> SUBSET Event]
        /\ before'[d] = NoFile /\ todo'[d] = Tail(todo[d])
        /\ op'[d] = IF Len(todo[d]) = 1 THEN "idle" ELSE op[d]
    BY <2>1, <2>2, <2>4 DEF LogTyped
  <2>7. WriteOK(d)'
    BY <1>0, <2>1, <2>2, <2>6 DEF LogTyped, WriteOK, Half
  <2> QED BY <1>2, <2>1, <2>5, <2>6, <2>7 DEF LogTyped
<1>9. CASE Die(d)
  <2>1. /\ op' = [op EXCEPT ![d] = "idle"] /\ todo' = [todo EXCEPT ![d] = <<>>]
        /\ before' = [before EXCEPT ![d] = NoFile] /\ crashes' \in 0 .. MaxCrash
        /\ UNCHANGED <<disk, config, saved, tried, acked>>
    BY <1>0, <1>9 DEF Die, LogTyped
  <2>2. NoFile \in File /\ <<>> \in Seq(Event)
    BY DEF NoFile, File
  <2>3. WriteOK(d)'
    BY <1>0, <2>1 DEF LogTyped, WriteOK, Half
  <2> QED BY <1>2, <2>1, <2>2, <2>3 DEF LogTyped
<1> QED BY <1>10, <1>11, <1>12, <1>5, <1>6, <1>7, <1>8, <1>9 DEF Write

\* One more event that names the last one as its parent.
LEMMA LinkedAppend ==
  ASSUME NEW q \in Seq(Event), Linked(q), NEW e \in Event,
         e.parent = IF q = <<>> THEN 0 ELSE Last(q).n
  PROVE  Linked(Append(q, e)) /\ ToSet(q) \cup {e} \subseteq ToSet(Append(q, e))
<1> DEFINE a == Append(q, e)
           n == Len(q)
<1>1. /\ a \in Seq(Event) /\ Len(a) = n + 1 /\ n \in Nat /\ a[n + 1] = e
      /\ \A k \in 1 .. n : a[k] = q[k]
  BY AppendTyped
<1>2. q = <<>> <=> n = 0
  BY EmptyLen
<1>3. q # <<>> => Last(q) = q[n]
  BY DEF Last
<1> HIDE DEF a
<1>4. ASSUME NEW k \in 1 .. Len(a) PROVE a[k].parent = IF k = 1 THEN 0 ELSE a[k - 1].n
  <2>1. CASE k = n + 1
    BY <1>1, <1>2, <1>3, <2>1
  <2>2. CASE k # n + 1
    <3>1. k \in 1 .. n /\ (k # 1 => k - 1 \in 1 .. n)
      BY <1>1, <2>2
    <3>2. q[k].parent = IF k = 1 THEN 0 ELSE q[k - 1].n
      BY <3>1 DEF Linked
    <3> QED BY <1>1, <3>1, <3>2
  <2> QED BY <2>1, <2>2
<1>5. ASSUME NEW x \in ToSet(q) \cup {e} PROVE x \in ToSet(a)
  <2>1. DOMAIN a = 1 .. n + 1 /\ DOMAIN q = 1 .. n
    BY <1>1
  <2>2. CASE x = e
    BY <1>1, <2>1, <2>2 DEF ToSet
  <2>3. CASE x \in ToSet(q)
    <3>1. PICK k \in 1 .. n : q[k] = x
      BY <2>1, <2>3 DEF ToSet
    <3>2. k \in 1 .. n + 1 /\ a[k] = x
      BY <1>1, <3>1
    <3> QED BY <2>1, <3>2 DEF ToSet
  <2> QED BY <2>2, <2>3
<1> QED BY <1>4, <1>5 DEF Linked, a

\* What a reader finds in a file that ended in a newline, after one more write: the new
\* event as well, or, when the write was cut off within it, a last line that does not parse.
LEMMA WritesRead ==
  ASSUME NEW f, WholeFile(f), f.ended, NEW e \in Event
  PROVE  /\ ReadShard(Written(f, e)) = Append(ReadShard(f), e)
         /\ ReadShard(CutOff(f, e, "json")) = ReadShard(f)
         /\ ~TailParses(CutOff(f, e, "json"))
<1> DEFINE X == Event \cup {Malformed}
           w == Written(f, e)
           c == CutOff(f, e, "json")
<1>1. f.lines \in Seq(X) /\ e \in X /\ Malformed \in X /\ e # Malformed
  BY DEF WholeFile, File, Event, Malformed
<1>2. w.lines = Append(f.lines, e) /\ c.lines = Append(f.lines, Malformed)
  BY DEF Written, CutOff, Kept, Line
<1> HIDE DEF X, w, c
<1>3. ReadShard(w) = AddParsed(ReadShard(f), e)
  BY <1>1, <1>2, ReadShardAppend
<1>4. ReadShard(c) = AddParsed(ReadShard(f), Malformed)
  BY <1>1, <1>2, ReadShardAppend
<1>5. c.lines # <<>> /\ Last(c.lines) = Malformed
  BY <1>1, <1>2, AppendTyped
<1> QED BY <1>1, <1>3, <1>4, <1>5 DEF AddParsed, TailParses, w, c

\* The parent that the next event must name only depends on what can be read.
LEMMA TailIs == \A f : TailEvent(f) = IF ReadShard(f) = <<>> THEN 0 ELSE Last(ReadShard(f)).n
  BY DEF TailEvent

\* The own shard of a folder stays whole up to a torn end, if no write is cut off exactly
\* before its newline.
LEMMA OwnStep ==
  ASSUME Files, LogTyped, OwnOK, "newline" \notin Where, NEW d \in Dir, Write(d)
  PROVE  OwnOK'
<1>0. /\ "idle" \notin Shards(d) /\ "save" \notin Shards(d) /\ Shards(d) \subseteq Shard
      /\ Own[d] \in Shards(d) /\ Where \subseteq {"json"}
      /\ \A e \in Dir : Own[e] \in Shards(e) /\ Own[e] \in Shard
      /\ \A e \in Dir \ {d} : Shards(e) \cap Shards(d) = {}
  BY ShardsOfDir, KgReadAssumption
<1>1. ASSUME NEW e \in Dir \ {d} PROVE OwnSafe(e)'
  <2>1. disk'[Own[e]] = disk[Own[e]]
    BY <1>0, OthersKeep
  <2>2. op'[e] = op[e] /\ todo'[e] = todo[e] /\ before'[e] = before[e] /\ acked'[e] = acked[e]
    BY OthersKeep
  <2> QED BY <2>1, <2>2 DEF OwnOK, OwnSafe, Half
<1> SUFFICES OwnSafe(d)'
  BY <1>1 DEF OwnOK
<1> DEFINE s == Own[d]
           own == disk[s]
<1>2. /\ OwnSafe(d) /\ WholeFile(own) /\ ReadShard(own) \in Seq(Event)
      /\ disk \in [Shard -> File] /\ WriteOK(d)
  <2>1. WholeFile(own)
    BY <1>0 DEF LogTyped
  <2>2. own.lines \in Lines
    BY <2>1 DEF WholeFile, File, Lines
  <2> QED BY <2>1, <2>2, ReadShardTyped DEF OwnOK, LogTyped
<1>3. ASSUME disk'[s] = own, acked'[d] = acked[d], op'[d] # s PROVE OwnSafe(d)'
  BY <1>2, <1>3 DEF OwnSafe
<1>4. CASE MakeLog(d) \/ BeginSave(d) \/ EndSave(d)
  <2>1. disk' = disk /\ acked' = acked /\ op'[d] \in {"idle", "save"}
    BY <1>4 DEF MakeLog, BeginSave, EndSave, Files
  <2> QED BY <1>0, <1>3, <2>1
<1>5. CASE BeginIngest(d)
  <2> DEFINE e == [n |-> tried[d] + 1, parent |-> TailEvent(own)]
  <2>1. /\ op[d] = "idle" /\ TailParses(own) /\ op' = [op EXCEPT ![d] = s]
        /\ todo' = [todo EXCEPT ![d] = <<e>>] /\ UNCHANGED <<disk, before, acked>>
    BY <1>0, <1>5 DEF BeginIngest, NextLamport
  <2>2. own.ended /\ ~Half(d)
    BY <1>0, <1>2, <2>1 DEF OwnSafe, WriteOK
  <2>3. /\ todo'[d] = <<e>> /\ ~Half(d)'
    BY <2>1, <2>2 DEF LogTyped, Half
  <2>4. Len(<<e>>) = 1 /\ Head(<<e>>).parent = TailEvent(own)
    OBVIOUS
  <2> QED BY <1>2, <2>1, <2>2, <2>3, <2>4 DEF OwnSafe
<1>6. ASSUME NEW t \in Pulled(d), BeginPull(d, t) PROVE OwnSafe(d)'
  <2>1. t # s /\ disk' = disk /\ acked' = acked /\ op'[d] = t
    BY <1>6 DEF Pulled, BeginPull, LogTyped
  <2> QED BY <1>3, <2>1
<1>7. CASE HalfLine(d)
  <2>1. /\ op[d] \in Shards(d) /\ ~Half(d) /\ before' = [before EXCEPT ![d] = disk[op[d]]]
        /\ UNCHANGED <<op, todo, acked>>
        /\ disk' = [disk EXCEPT ![op[d]] = CutOff(@, Head(todo[d]), "json")]
    BY <1>0, <1>7 DEF HalfLine
  <2>2. CASE op[d] # s
    <3>1. disk'[s] = own
      BY <1>0, <2>1, <2>2 DEF LogTyped
    <3> QED BY <1>3, <2>1, <2>2, <3>1
  <2>3. CASE op[d] = s
    <3> DEFINE e == Head(todo[d])
               c == CutOff(own, e, "json")
    <3>1. own.ended /\ e \in Event
      BY <1>2, <2>1, <2>3, LineTyped DEF OwnSafe
    <3>2. ReadShard(c) = ReadShard(own) /\ ~TailParses(c)
      BY <1>2, <3>1, WritesRead
    <3>3. disk'[s] = c /\ before'[d] = own
      BY <1>0, <2>1, <2>3 DEF LogTyped
    <3>4. TailEvent(c) = TailEvent(own)
      BY <3>2, TailIs
    <3>5. c.ended = FALSE
      BY DEF CutOff
    <3>6. Half(d)'
      <4>1. own # NoFile
        BY <3>1 DEF NoFile
      <4> QED BY <3>3, <4>1 DEF Half
    <3> HIDE DEF c, e
    <3> QED BY <1>2, <2>1, <2>3, <3>1, <3>2, <3>3, <3>4, <3>5, <3>6 DEF OwnSafe, e
  <2> QED BY <2>2, <2>3
<1>8. CASE WholeLine(d)
  <2> DEFINE old == IF Half(d) THEN before[d] ELSE disk[op[d]]
             e == Head(todo[d])
  <2>1. /\ op[d] \in Shards(d) /\ disk' = [disk EXCEPT ![op[d]] = Written(old, e)]
        /\ op' = [op EXCEPT ![d] = IF Len(todo[d]) = 1 THEN "idle" ELSE op[d]]
        /\ acked' = [acked EXCEPT ![d] = IF op[d] = s THEN acked[d] \cup {e} ELSE acked[d]]
    BY <1>8 DEF WholeLine, LogTyped
  <2>2. CASE op[d] # s
    <3>1. disk'[s] = own /\ acked'[d] = acked[d] /\ op'[d] # s
      BY <1>0, <2>1, <2>2 DEF LogTyped
    <3> QED BY <1>3, <3>1
  <2>3. CASE op[d] = s
    <3>1. WholeFile(old) /\ old.ended /\ ReadShard(old) = ReadShard(own) /\ e \in Event
      BY <1>2, <2>1, <2>3, LineTyped DEF OwnSafe
    <3>2. /\ Len(todo[d]) = 1 /\ Linked(ReadShard(own)) /\ acked[d] \subseteq ToSet(ReadShard(own))
          /\ e.parent = IF ReadShard(own) = <<>> THEN 0 ELSE Last(ReadShard(own)).n
      BY <1>2, <2>3, TailIs DEF OwnSafe
    <3> DEFINE w == Written(old, e)
    <3>3. ReadShard(w) = Append(ReadShard(own), e) /\ w.ended
      BY <3>1, WritesRead DEF Written
    <3>4. Linked(ReadShard(w)) /\ ToSet(ReadShard(own)) \cup {e} \subseteq ToSet(ReadShard(w))
      BY <1>2, <3>1, <3>2, <3>3, LinkedAppend
    <3>5. disk'[s] = w /\ op'[d] = "idle" /\ acked'[d] = acked[d] \cup {e}
      BY <1>0, <2>1, <2>3, <3>2 DEF LogTyped
    <3> HIDE DEF w, old, e
    <3>6. /\ Linked(ReadShard(disk'[s])) /\ acked'[d] \subseteq ToSet(ReadShard(disk'[s]))
          /\ disk'[s].ended /\ op'[d] # s
      BY <1>0, <3>2, <3>3, <3>4, <3>5
    <3> QED BY <3>6 DEF OwnSafe
  <2> QED BY <2>2, <2>3
<1>9. CASE Die(d)
  <2>1. disk' = disk /\ acked' = acked /\ op'[d] = "idle"
    BY <1>9 DEF Die, LogTyped
  <2> QED BY <1>0, <1>3, <2>1
<1> QED BY <1>4, <1>5, <1>6, <1>7, <1>8, <1>9 DEF Write

------------------------------------------------------------------------------
(* What kgread loads and shows.                                            *)

\* Types of what the server and its watcher change.
ViewTyped ==
  /\ ModelOK(model) /\ LoadOK(asked) /\ LoadOK(watched)
  /\ same \in BOOLEAN /\ asks \in 0 .. MaxAsk /\ opened \in Dir

\* What a reader finds in the files is typed, and so is the fingerprint of a log.
LEMMA DiskTyped ==
  ASSUME LogTyped
  PROVE  /\ \A s \in Shard : ReadShard(disk[s]) \in Seq(Event)
         /\ \A d \in Dir : LogFingerprint(d) \in [Shards(d) -> Int]
<1>1. \A s \in Shard : disk[s].lines \in Lines /\ disk[s].size \in Nat
  BY DEF LogTyped, File, Lines
<1> QED BY <1>1, ReadShardTyped, ShardsOfDir DEF LogFingerprint

\* A load begins typed, also when it is refused.
LEMMA BeginLoadTyped ==
  ASSUME LogTyped, NEW d \in Dir, NEW l \in Loads(d)
  PROVE  LoadOK(l)
<1>1. NoEvents \in [Shard -> Seq(Event)] /\ ToSet(<<>>) \subseteq Shards(d)
  BY DEF NoEvents, ToSet
<1>2. LoadOK(BeginLoad(d))
  <2>1. Listing[d] # <<>> /\ ToSet(Listing[d]) \subseteq Shards(d)
    BY KgReadAssumption DEF Shards, ToSet
  <2> QED BY <1>1, <2>1 DEF BeginLoad, LoadOK, ModelOK
<1>3. LoadOK(RefuseLoad(d))
  BY <1>1 DEF RefuseLoad, NoRoot, LoadOK, ModelOK
<1>4. l = BeginLoad(d) \/ l = RefuseLoad(d)
  BY DEF Loads
<1> QED BY <1>2, <1>3, <1>4

\* Every step of a load keeps it typed.
LEMMA LoadStepTyped ==
  ASSUME LogTyped, NEW l, IsLoad(l), Loading(l), LoadOK(l)
  PROVE  LoadOK(LoadStep(l))
<1>0. /\ l = [step |-> l.step, dir |-> l.dir, err |-> l.err, print |-> l.print,
              shown |-> l.shown, left |-> l.left]
      /\ ModelOK(l) /\ ToSet(l.left) \subseteq Shards(l.dir)
      /\ (l.step \in {"print", "read"}) = (l.left # <<>>)
      /\ l.dir \in Dir /\ l.left \in Seq(Shard)
  <2>1. l.step \in {"print", "open", "read"} /\ NoLoad.step = "none"
    BY DEF Loading, NoLoad
  <2>2. l # NoLoad
    BY <2>1
  <2> QED BY <2>2 DEF IsLoad, LoadOK
<1>1. CASE l.step = "open" /\ config[l.dir] = "ok"
  <2>1. LoadStep(l) = [step |-> "read", dir |-> l.dir, err |-> l.err, print |-> l.print,
                       shown |-> l.shown, left |-> Listing[l.dir]]
    BY <1>0, <1>1 DEF LoadStep, OpenStore
  <2>2. Listing[l.dir] # <<>> /\ ToSet(Listing[l.dir]) \subseteq Shards(l.dir)
    BY <1>0, KgReadAssumption DEF Shards, ToSet
  <2> QED BY <1>0, <2>1, <2>2 DEF LoadOK, ModelOK
<1>2. CASE l.step = "open" /\ config[l.dir] # "ok"
  <2>1. LoadStep(l) = [step |-> "loaded", dir |-> l.dir, err |-> TRUE, print |-> l.print,
                       shown |-> l.shown, left |-> l.left]
    BY <1>0, <1>2 DEF LoadStep, OpenStore
  <2> QED BY <1>0, <1>2, <2>1 DEF LoadOK, ModelOK
<1>3. CASE l.step \in {"print", "read"}
  <2> DEFINE s == Head(l.left)
             r == LoadStep(l)
             p == IF l.step = "print" THEN [l.print EXCEPT ![s] = LogFingerprint(l.dir)[s]] ELSE l.print
             w == IF l.step = "read" THEN [l.shown EXCEPT ![s] = ReadShard(disk[s])] ELSE l.shown
             last == IF l.step = "print" THEN "open" ELSE "loaded"
  <2>1. l.left \in Seq(Shard) /\ l.left # <<>>
    BY <1>0, <1>3
  <2>2. /\ s \in Shard /\ (Len(l.left) = 1) = (Tail(l.left) = <<>>)
        /\ ToSet(Tail(l.left)) \subseteq ToSet(l.left)
    <3>1. s \in Shard /\ Tail(l.left) \in Seq(Shard)
      BY <2>1
    <3>2. Len(Tail(l.left)) = Len(l.left) - 1 /\ Len(l.left) \in Nat
      BY <2>1
    <3>3. Tail(l.left) = <<>> <=> Len(Tail(l.left)) = 0
      BY <3>1, EmptyLen
    <3>4. ASSUME NEW k \in DOMAIN Tail(l.left) PROVE Tail(l.left)[k] \in ToSet(l.left)
      <4>1. k + 1 \in DOMAIN l.left /\ l.left[k + 1] = Tail(l.left)[k]
        BY <2>1
      <4> QED BY <4>1 DEF ToSet
    <3> QED BY <3>1, <3>2, <3>3, <3>4 DEF ToSet
  <2>3. r = [step |-> IF Len(l.left) = 1 THEN last ELSE l.step,
             dir |-> l.dir, err |-> l.err, print |-> p, shown |-> w, left |-> Tail(l.left)]
    <3>1. CASE l.step = "print"
      BY <1>0, <3>1 DEF LoadStep, PrintOne
    <3>2. CASE l.step = "read"
      BY <1>0, <3>2 DEF LoadStep, ReadOne
    <3> QED BY <1>3, <3>1, <3>2
  <2>4. w \in [Shard -> Seq(Event)] /\ p \in [Shards(l.dir) -> Int]
    <3>1. ReadShard(disk[s]) \in Seq(Event) /\ l.shown \in [Shard -> Seq(Event)]
      BY <1>0, <2>2, DiskTyped DEF ModelOK
    <3>2. LogFingerprint(l.dir) \in [Shards(l.dir) -> Int] /\ l.print \in [Shards(l.dir) -> Int]
      BY <1>0, DiskTyped DEF ModelOK
    <3>3. s \in Shards(l.dir)
      BY <1>0, <2>1 DEF ToSet
    <3> HIDE DEF s
    <3> QED BY <3>1, <3>2, <3>3
  <2> HIDE DEF r, s, p, w
  <2>5. /\ r.step \in {last, l.step} /\ (r.step \in {"print", "read"}) = (r.left # <<>>)
        /\ r.dir = l.dir /\ r.err = l.err /\ r.print = p
        /\ r.shown \in [Shard -> Seq(Event)] /\ ToSet(r.left) \subseteq Shards(r.dir)
    BY <1>0, <1>3, <2>2, <2>3, <2>4
  <2>6. ModelOK(r)
    BY <1>0, <2>4, <2>5 DEF ModelOK
  <2>7. LoadOK(r)
    BY <1>3, <2>5, <2>6 DEF LoadOK
  <2> QED BY <2>7 DEF r
<1> QED BY <1>1, <1>2, <1>3 DEF Loading

\* A finished load is a model.
LEMMA LoadedTyped ==
  ASSUME NEW l, LoadOK(l), l.step \in {"loaded", "checked"}
  PROVE  ModelOK(Loaded(l))
<1>1. l # NoLoad
  BY DEF NoLoad
<1> QED BY <1>1 DEF LoadOK, ModelOK, Loaded

\* The steps of the server and of its watcher.
LEMMA ServerTyped ==
  ASSUME LogTyped, ViewTyped, ViewInv, Serve \/ Watch
  PROVE  ViewTyped'
<1>0. ModelOK(model) /\ model.dir \in Dir /\ MaxAsk \in Nat /\ LoadOK(NoLoad)
  BY KgReadAssumption DEF ViewTyped, ModelOK, LoadOK
<1>1. ModelOK(model')
  <2>1. CASE Answer
    BY <2>1, LoadedTyped DEF Answer, ViewTyped
  <2>2. CASE Swap
    BY <2>2, LoadedTyped DEF Swap, ViewTyped
  <2>3. CASE ~Answer /\ ~Swap
    <3>1. model' = model
      BY <2>3 DEF Serve, Watch, Ask, AskedLoad, Poll, WatchedLoad, Check
    <3> QED BY <1>0, <3>1
  <2> QED BY <2>1, <2>2, <2>3
<1>2. LoadOK(asked')
  <2>1. ASSUME NEW d \in Dir, Ask(d) PROVE LoadOK(asked')
    BY <2>1, BeginLoadTyped DEF Ask
  <2>2. CASE AskedLoad
    <3>1. IsLoad(asked) /\ Loading(asked) /\ asked' = LoadStep(asked)
      BY <2>2 DEF AskedLoad, ViewInv, LoadInv, Loading
    <3> QED BY <3>1, LoadStepTyped DEF ViewTyped
  <2>3. CASE Answer
    BY <1>0, <2>3 DEF Answer
  <2>4. CASE Watch
    BY <2>4 DEF Watch, Poll, WatchedLoad, Check, Swap, ViewTyped
  <2> QED BY <2>1, <2>2, <2>3, <2>4 DEF Serve
<1>3. LoadOK(watched')
  <2>1. CASE Poll
    BY <1>0, <2>1, BeginLoadTyped DEF Poll
  <2>2. CASE WatchedLoad
    <3>1. IsLoad(watched) /\ Loading(watched) /\ watched' = LoadStep(watched)
      BY <2>2 DEF WatchedLoad, ViewInv, LoadInv, Loading
    <3> QED BY <3>1, LoadStepTyped DEF ViewTyped
  <2>3. CASE Check
    <3>1. IsLoad(watched) /\ LoadOK(watched) /\ watched.step = "loaded"
      BY <2>3 DEF Check, ViewInv, LoadInv, ViewTyped
    <3> DEFINE c == [watched EXCEPT !.step = "checked"]
    <3>2. c = [step |-> "checked", dir |-> watched.dir, err |-> watched.err,
               print |-> watched.print, shown |-> watched.shown, left |-> watched.left]
      BY <3>1 DEF IsLoad
    <3>3. watched # NoLoad
      BY <3>1 DEF NoLoad
    <3> HIDE DEF c
    <3>4. LoadOK(c)
      BY <3>1, <3>2, <3>3 DEF LoadOK, ModelOK
    <3>5. watched' = c \/ watched' = NoLoad
      BY <2>3 DEF Check, c
    <3> QED BY <1>0, <3>4, <3>5
  <2>4. CASE Swap
    BY <1>0, <2>4 DEF Swap
  <2>5. CASE Serve
    BY <2>5 DEF Serve, Ask, AskedLoad, Answer, ViewTyped
  <2> QED BY <2>1, <2>2, <2>3, <2>4, <2>5 DEF Watch
<1>4. same' \in BOOLEAN /\ asks' \in 0 .. MaxAsk
  <2>1. asks' \in 0 .. MaxAsk
    BY <1>0 DEF Serve, Watch, Ask, AskedLoad, Answer, Poll, WatchedLoad, Check, Swap, ViewTyped
  <2>2. same' \in {same, TRUE, watched = NoLoad}
    BY DEF Serve, Watch, Ask, AskedLoad, Answer, Poll, WatchedLoad, Check, Swap
  <2> QED BY <2>1, <2>2 DEF ViewTyped
<1>5. opened' \in Dir
  <2>1. CASE Answer
    <3>1. asked # NoLoad
      BY <2>1 DEF Answer, NoLoad
    <3> QED BY <2>1, <3>1 DEF Answer, ViewTyped, LoadOK, ModelOK
  <2>2. CASE ~Answer
    BY <2>2 DEF Serve, Watch, Ask, AskedLoad, Poll, WatchedLoad, Check, Swap, ViewTyped
  <2> QED BY <2>1, <2>2
<1> QED BY <1>1, <1>2, <1>3, <1>4, <1>5 DEF ViewTyped, ModelOK, LoadOK, NoLoad

TypeInv == LogTyped /\ ViewTyped

\* Empty logs and a viewer that has loaded nothing are well typed.
LEMMA TypeInit == Init => TypeInv /\ OwnOK
<1> SUFFICES ASSUME Init PROVE TypeInv /\ OwnOK
  OBVIOUS
<1>0. /\ "idle" \notin Shard /\ MaxIngest \in [Dir -> Nat] /\ MaxSave \in [Dir -> Nat]
      /\ MaxCrash \in Nat /\ MaxAsk \in Nat /\ Home \in Dir
      /\ \A d \in Dir : Own[d] \in Shard /\ Shards(d) \subseteq Shard
  BY KgReadAssumption, ShardsOfDir
<1>1. Empty \in File /\ NoFile \in File /\ WholeFile(Empty) /\ Empty.ended
  BY DEF Empty, NoFile, File, WholeFile
<1>2. ReadShard(Empty) = <<>>
  BY ReadShardEmpty DEF Empty
<1>3. LogTyped
  BY <1>0, <1>1 DEF Init, LogTyped, WriteOK, Half
<1>4. ViewTyped
  BY <1>0 DEF Init, ViewTyped, ModelOK, LoadOK, NoLoad
<1>5. OwnOK
  BY <1>0, <1>1, <1>2 DEF Init, OwnOK, OwnSafe, Linked
<1> QED BY <1>3, <1>4, <1>5 DEF TypeInv

\* Every step keeps the types.
LEMMA TypeStep == ASSUME Inv, TypeInv, [Next]_vars PROVE TypeInv'
<1>1. ASSUME NEW d \in Dir, Write(d) PROVE TypeInv'
  <2>1. LogTyped'
    BY <1>1, LogStep DEF TypeInv
  <2>2. UNCHANGED kgread
    BY <1>1 DEF Write, MakeLog, BeginSave, EndSave, BeginIngest, BeginPull, HalfLine, WholeLine, Die
  <2>3. ViewTyped'
    BY <2>2 DEF TypeInv, ViewTyped, ModelOK, LoadOK, NoLoad, kgread
  <2> QED BY <2>1, <2>3 DEF TypeInv
<1>2. ASSUME UNCHANGED log PROVE LogTyped'
  BY <1>2 DEF TypeInv, LogTyped, WriteOK, Half, log
<1>3. CASE Serve \/ Watch
  <2>1. UNCHANGED log
    BY <1>3 DEF Serve, Watch, Ask, AskedLoad, Answer, Poll, WatchedLoad, Check, Swap
  <2> QED BY <1>2, <1>3, <2>1, ServerTyped DEF Inv, TypeInv
<1>4. CASE UNCHANGED vars
  <2>1. ViewTyped'
    BY <1>4 DEF TypeInv, ViewTyped, ModelOK, LoadOK, NoLoad, vars, kgread
  <2> QED BY <1>2, <1>4, <2>1 DEF TypeInv, vars
<1> QED BY <1>1, <1>3, <1>4 DEF Next

\* The files, the half written lines, the model and the loads under way are what TypeOK
\* says, however writers, crashes, requests and polls interleave.
THEOREM Typed == Spec => []TypeOK
<1>1. TypeInv => TypeOK
  <2> SUFFICES ASSUME TypeInv PROVE TypeOK
    OBVIOUS
  <2>1. \A d \in Dir : WriteOK(d)
    BY DEF TypeInv, LogTyped
  <2> QED BY <2>1 DEF TypeInv, LogTyped, ViewTyped, WriteOK, TypeOK
<1>2. Inv /\ TypeInv /\ [Next]_vars => TypeInv'
  BY TypeStep
<1> QED
  BY <1>1, <1>2, InvInit, InvStep, TypeInit, PTL DEF Spec

\* What kg has reported as recorded stays readable and one hash chain, through any writes
\* that die within a line, because a torn end of the own shard stops every writer
\* (OwnIntact). A write that is cut off exactly before its newline is excepted: its line
\* parses, so that the next one is joined to it.
THEOREM OwnStaysIntact == "newline" \notin Where => (Spec => []OwnIntact)
<1> SUFFICES ASSUME "newline" \notin Where PROVE Spec => []OwnIntact
  OBVIOUS
<1>1. OwnOK => OwnIntact
  BY DEF OwnOK, OwnSafe, OwnIntact, Linked
<1>2. Inv /\ TypeInv /\ OwnOK /\ [Next]_vars => OwnOK'
  <2> SUFFICES ASSUME Inv, TypeInv, OwnOK, [Next]_vars PROVE OwnOK'
    OBVIOUS
  <2>1. ASSUME NEW d \in Dir, Write(d) PROVE OwnOK'
    BY <2>1, OwnStep DEF Inv, TypeInv
  <2>2. ASSUME UNCHANGED log PROVE OwnOK'
    BY <2>2 DEF OwnOK, OwnSafe, Half, log
  <2>3. CASE Serve \/ Watch
    <3>1. UNCHANGED log
      BY <2>3 DEF Serve, Watch, Ask, AskedLoad, Answer, Poll, WatchedLoad, Check, Swap
    <3> QED BY <2>2, <3>1
  <2> QED BY <2>1, <2>2, <2>3 DEF Next, vars
<1>3. Inv /\ TypeInv /\ [Next]_vars => TypeInv'
  BY TypeStep
<1> QED
  BY <1>1, <1>2, <1>3, InvInit, InvStep, TypeInit, PTL DEF Spec
===============================================================================
