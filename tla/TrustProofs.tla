------------------------------ MODULE TrustProofs ------------------------------
(***************************************************************************)
(* What a committed file gets to decide is what kg trust approved, and a   *)
(* save that is not late undoes no answer, for any repositories, files and *)
(* processes, however commands interleave, overwrite each other's          *)
(* temporary file and die, and whatever happens to files meanwhile.        *)
(*                                                                         *)
(* The argument follows a registry from where a command computes it (mem)  *)
(* through trusted.json.new to trusted.json: it approves nothing that kg   *)
(* trust has not approved or is approving (Consented), and if the command  *)
(* decided on one registry only, it is that registry with one answer more  *)
(* or one withdrawn (InTime).                                              *)
(***************************************************************************)
EXTENDS TrustRegistry, TLAPS

------------------------------------------------------------------------------
(* The invariant.                                                          *)

Running(p) == pc[p] \in {"checking", "reading", "loading", "saving"}

Shape ==
  /\ DOMAIN pc = Proc /\ DOMAIN cmd = Proc /\ DOMAIN fp = Proc
  /\ DOMAIN mem = Proc /\ DOMAIN seen = Proc
  /\ \A p \in Proc : Running(p) =>
       cmd[p].name \in Name /\ (pc[p] = "reading" => cmd[p].name # "ack")

\* What a registry approves was approved by kg trust, or is by the one that is to save it.
Covered(reg, name, f) ==
  \A g \in DOMAIN reg : reg[g].approved => g \in consent \/ (name = "trust" /\ g = f)

Consented ==
  /\ \A g \in DOMAIN registry : registry[g].approved => g \in consent
  /\ tmp # NoFile => Covered(tmp.reg, tmp.name, tmp.fp)
  /\ \A p \in Proc :
       /\ pc[p] = "loading" /\ cmd[p].name = "ack" => fp[p] \in consent
       /\ pc[p] = "saving" => Covered(mem[p], cmd[p].name, fp[p])

\* What a command of this name about f may make of a registry.
Keeps(old, new, name, f) ==
  \A g :
    /\ Lookup(new, g).approved => Lookup(old, g).approved \/ (name = "trust" /\ g = f)
    /\ \/ name = "revoke" /\ g = f
       \/ /\ g \in DOMAIN old => g \in DOMAIN new
          /\ Lookup(old, g).approved => Lookup(new, g).approved
          /\ Lookup(old, g).paths \subseteq Lookup(new, g).paths

\* A command that has decided on one registry has made something like that of it.
InTime ==
  /\ tmp # NoFile => \A old : tmp.seen = {old} => Keeps(old, tmp.reg, tmp.name, tmp.fp)
  /\ \A p \in Proc :
       /\ pc[p] = "loading" /\ cmd[p].name = "ack" =>
            seen[p] # {} /\ \A old \in seen[p] : Lookup(old, fp[p]).approved
       /\ pc[p] = "saving" =>
            \A old : seen[p] = {old} => Keeps(old, mem[p], cmd[p].name, fp[p])

TrustInv == Shape /\ Consented /\ InTime

LEMMA TrustInit == Init => TrustInv
<1> SUFFICES ASSUME Init PROVE TrustInv
  OBVIOUS
<1>1. DOMAIN registry = {}
  BY DEF Init, NoRegistry
<1> QED
  BY <1>1 DEF Init, TrustInv, Shape, Consented, InTime, Running

\* Files come and go without the commands.
LEMMA CommandsAside == ASSUME TrustInv, UNCHANGED Commands PROVE TrustInv'
<1>1. UNCHANGED <<registry, tmp, pc, cmd, fp, mem, seen, consent>>
  BY DEF Commands
<1>2. Shape'
  BY <1>1 DEF TrustInv, Shape, Running
<1>3. Consented'
  BY <1>1 DEF TrustInv, Consented, Covered
<1>4. InTime'
  BY <1>1 DEF TrustInv, InTime
<1> QED
  BY <1>2, <1>3, <1>4 DEF TrustInv

\* A command that has nothing in memory, and others as they were, keep the invariant.
LEMMA OthersStay ==
  ASSUME TrustInv, NEW p \in Proc, NEW phase \in {"idle", "renaming", "checking", "reading"},
         pc' = [pc EXCEPT ![p] = phase],
         DOMAIN cmd' = Proc, DOMAIN fp' = Proc, DOMAIN mem' = Proc, DOMAIN seen' = Proc,
         \A q \in Proc \ {p} :
           cmd'[q] = cmd[q] /\ fp'[q] = fp[q] /\ mem'[q] = mem[q] /\ seen'[q] = seen[q],
         phase \in {"checking", "reading"} =>
           cmd'[p].name \in Name /\ (phase = "reading" => cmd'[p].name # "ack"),
         consent \subseteq consent',
         \A g \in DOMAIN registry' : registry'[g].approved => g \in consent',
         tmp' # NoFile =>
           /\ Covered(tmp'.reg, tmp'.name, tmp'.fp)
           /\ \A old : tmp'.seen = {old} => Keeps(old, tmp'.reg, tmp'.name, tmp'.fp)
  PROVE  TrustInv'
<1>1. pc'[p] = phase /\ \A q \in Proc \ {p} : pc'[q] = pc[q]
  BY DEF TrustInv, Shape
<1>2. Shape'
  BY <1>1 DEF TrustInv, Shape, Running
<1>3. \A q \in Proc : pc'[q] \in {"loading", "saving"} => q # p
  BY <1>1
<1>4. Consented'
  BY <1>1, <1>3 DEF TrustInv, Consented, Covered
<1>5. InTime'
  BY <1>1, <1>3 DEF TrustInv, InTime
<1> QED
  BY <1>2, <1>4, <1>5 DEF TrustInv

\* What Forget leaves of the others.
LEMMA Forgotten ==
  ASSUME TrustInv, NEW p \in Proc, Forget(p)
  PROVE  /\ DOMAIN cmd' = Proc /\ DOMAIN fp' = Proc /\ DOMAIN mem' = Proc /\ DOMAIN seen' = Proc
         /\ \A q \in Proc \ {p} :
              cmd'[q] = cmd[q] /\ fp'[q] = fp[q] /\ mem'[q] = mem[q] /\ seen'[q] = seen[q]
BY DEF TrustInv, Shape, Forget

LEMMA EndSafe ==
  ASSUME TrustInv, NEW p \in Proc, End(p), UNCHANGED <<registry, tmp, consent>>
  PROVE  TrustInv'
<1>1. Consented /\ InTime
  BY DEF TrustInv
<1> QED
  BY <1>1, Forgotten, OthersStay DEF End, Consented, InTime, Covered

LEMMA BeginSafe ==
  ASSUME TrustInv, NEW p \in Proc, NEW name \in Name, NEW r \in Repo, Begin(p, name, r)
  PROVE  TrustInv'
<1> DEFINE phase == IF name \in {"ack", "dismiss"} THEN "checking" ELSE "reading"
           c == [name |-> name, repo |-> r]
<1>1. /\ pc' = [pc EXCEPT ![p] = phase] /\ cmd' = [cmd EXCEPT ![p] = c]
      /\ UNCHANGED <<registry, tmp, fp, mem, seen, consent>>
  BY DEF Begin
<1>2. phase \in {"checking", "reading"} /\ c.name \in Name
      /\ (phase = "reading" => c.name # "ack")
  OBVIOUS
<1> HIDE DEF phase, c
<1>3. /\ DOMAIN cmd' = Proc /\ cmd'[p] = c /\ \A q \in Proc \ {p} : cmd'[q] = cmd[q]
      /\ DOMAIN fp' = Proc /\ DOMAIN mem' = Proc /\ DOMAIN seen' = Proc
  BY <1>1 DEF TrustInv, Shape
<1>4. /\ \A g \in DOMAIN registry' : registry'[g].approved => g \in consent'
      /\ tmp' # NoFile =>
           /\ Covered(tmp'.reg, tmp'.name, tmp'.fp)
           /\ \A old : tmp'.seen = {old} => Keeps(old, tmp'.reg, tmp'.name, tmp'.fp)
  BY <1>1 DEF TrustInv, Consented, InTime
<1>5. \A q \in Proc \ {p} :
        cmd'[q] = cmd[q] /\ fp'[q] = fp[q] /\ mem'[q] = mem[q] /\ seen'[q] = seen[q]
  BY <1>1, <1>3
<1>6. /\ phase \in {"idle", "renaming", "checking", "reading"} /\ consent \subseteq consent'
      /\ cmd'[p].name \in Name /\ (phase = "reading" => cmd'[p].name # "ack")
  BY <1>1, <1>2, <1>3
<1>7. pc' = [pc EXCEPT ![p] = phase]
  BY <1>1
<1> QED
  BY <1>3, <1>4, <1>5, <1>6, <1>7, OthersStay

\* --ack goes on only if the file is approved.
LEMMA CheckSafe == ASSUME TrustInv, NEW p \in Proc, Check(p) PROVE TrustInv'
<1>0. UNCHANGED <<registry, tmp, consent>>
  BY DEF Check, Unsaved
<1>1. CASE End(p)
  BY <1>0, <1>1, EndSafe
<1>2. CASE /\ cmd[p].name = "dismiss" /\ pc' = [pc EXCEPT ![p] = "reading"]
           /\ UNCHANGED <<cmd, fp, mem, seen>>
  <2>1. cmd[p].name \in Name
    BY <1>2 DEF Name
  <2> QED
    BY <1>0, <1>2, <2>1, OthersStay DEF TrustInv, Shape, Consented, InTime, Covered
<1>3. CASE /\ cmd[p].name = "ack" /\ Trusted(FileOf(p), registry)
           /\ Fingerprint(FileOf(p).set) # Blank
           /\ pc' = [pc EXCEPT ![p] = "loading"]
           /\ fp' = [fp EXCEPT ![p] = Fingerprint(FileOf(p).set)]
           /\ seen' = [seen EXCEPT ![p] = {registry}] /\ UNCHANGED <<cmd, mem>>
  <2>1. /\ pc'[p] = "loading" /\ fp'[p] = Fingerprint(FileOf(p).set) /\ seen'[p] = {registry}
        /\ \A q \in Proc \ {p} : pc'[q] = pc[q] /\ fp'[q] = fp[q] /\ seen'[q] = seen[q]
    BY <1>3 DEF TrustInv, Shape
  <2>2. Lookup(registry, fp'[p]).approved
    BY <1>3, <2>1 DEF Trusted
  <2>3. fp'[p] \in consent
    BY <2>2 DEF Lookup, NoRecord, TrustInv, Consented
  <2>4. Shape'
    BY <1>3, <2>1 DEF TrustInv, Shape, Running, Name
  <2>5. Consented'
    BY <1>0, <1>3, <2>1, <2>3 DEF TrustInv, Consented, Covered
  <2>6. InTime'
    BY <1>0, <1>3, <2>1, <2>2 DEF TrustInv, InTime
  <2> QED
    BY <2>4, <2>5, <2>6 DEF TrustInv
<1> QED
  BY <1>1, <1>2, <1>3 DEF Check

LEMMA ReadSafe == ASSUME TrustInv, NEW p \in Proc, Read(p) PROVE TrustInv'
<1>0. UNCHANGED <<registry, tmp, consent>>
  BY DEF Read, Unsaved
<1>1. CASE End(p)
  BY <1>0, <1>1, EndSafe
<1>2. CASE ~End(p)
  <2>1. /\ pc[p] = "reading" /\ pc' = [pc EXCEPT ![p] = "loading"]
        /\ fp' = [fp EXCEPT ![p] = Fingerprint(FileOf(p).set)] /\ UNCHANGED <<cmd, mem, seen>>
    BY <1>2 DEF Read
  <2>2. /\ pc'[p] = "loading"
        /\ \A q \in Proc \ {p} : pc'[q] = pc[q] /\ fp'[q] = fp[q]
    BY <2>1 DEF TrustInv, Shape
  <2>3. cmd[p].name # "ack" 
    BY <2>1 DEF TrustInv, Shape, Running
  <2>4. Shape'
    BY <2>1, <2>2 DEF TrustInv, Shape, Running
  <2>5. Consented'
    BY <1>0, <2>1, <2>2, <2>3 DEF TrustInv, Consented, Covered
  <2>6. InTime'
    BY <1>0, <2>1, <2>2, <2>3 DEF TrustInv, InTime
  <2> QED
    BY <2>4, <2>5, <2>6 DEF TrustInv
<1> QED
  BY <1>1, <1>2

------------------------------------------------------------------------------
(* A registry is loaded, changed, written and renamed.                     *)

\* A command adds its own answer or withdraws a configuration, and nothing else.
LEMMA ChangedKeeps ==
  ASSUME NEW reg, NEW f, NEW c, c.name \in Name,
         c.name = "ack" => Lookup(reg, f).approved
  PROVE  Keeps(reg, Changed(reg, f, c), c.name, f)
<1> DEFINE new == Changed(reg, f, c)
<1>1. CASE c.name = "revoke"
  <2>1. DOMAIN new = DOMAIN reg \ {f} /\ \A g \in DOMAIN new : new[g] = reg[g]
    BY <1>1 DEF Changed, Restrict
  <2> HIDE DEF new
  <2> QED
    BY <1>1, <2>1 DEF Keeps, Lookup, NoRecord, new
<1>2. CASE c.name # "revoke"
  <2>1. /\ DOMAIN new = DOMAIN reg \cup {f}
        /\ new[f] = Answered(reg, f, c.repo, c.name # "dismiss")
        /\ \A g \in DOMAIN reg \ {f} : new[g] = reg[g]
    BY <1>2 DEF Changed, Recorded
  <2>2. /\ Lookup(new, f).approved = (c.name # "dismiss" \/ Lookup(reg, f).approved)
        /\ Lookup(reg, f).paths \subseteq Lookup(new, f).paths
    BY <2>1 DEF Lookup, Answered
  <2>3. \A g : g # f => Lookup(new, g) = Lookup(reg, g)
    BY <2>1 DEF Lookup
  <2> QED
    <3> HIDE DEF new
    <3>1. ASSUME NEW g
          PROVE  /\ Lookup(new, g).approved => Lookup(reg, g).approved \/ (c.name = "trust" /\ g = f)
                 /\ g \in DOMAIN reg => g \in DOMAIN new
                 /\ Lookup(reg, g).approved => Lookup(new, g).approved
                 /\ Lookup(reg, g).paths \subseteq Lookup(new, g).paths
      <4>1. CASE g = f
        BY <1>2, <2>1, <2>2, <4>1 DEF Name
      <4>2. CASE g # f
        BY <2>1, <2>3, <4>2
      <4> QED
        BY <4>1, <4>2
    <3>2. Keeps(reg, new, c.name, f)
      BY <3>1 DEF Keeps
    <3> QED
      BY <3>2 DEF new
<1> QED
  BY <1>1, <1>2

LEMMA LoadSafe == ASSUME TrustInv, NEW p \in Proc, Load(p) PROVE TrustInv'
<1> DEFINE new == Changed(registry, fp[p], cmd[p])
<1>0. UNCHANGED <<registry, tmp, consent>>
  BY DEF Load, Unsaved
<1>1. CASE End(p)
  BY <1>0, <1>1, EndSafe
<1>2. CASE ~End(p)
  <2>1. /\ pc[p] = "loading" /\ pc' = [pc EXCEPT ![p] = "saving"]
        /\ mem' = [mem EXCEPT ![p] = new]
        /\ seen' = [seen EXCEPT ![p] = seen[p] \cup {registry}] /\ UNCHANGED <<cmd, fp>>
    BY <1>2 DEF Load
  <2>2. /\ pc'[p] = "saving" /\ mem'[p] = new /\ seen'[p] = seen[p] \cup {registry}
        /\ \A q \in Proc \ {p} : pc'[q] = pc[q] /\ mem'[q] = mem[q] /\ seen'[q] = seen[q]
    BY <2>1 DEF TrustInv, Shape
  <2>3. cmd[p].name \in Name
    BY <2>1 DEF TrustInv, Shape, Running
  <2>4. Shape'
    BY <2>1, <2>2 DEF TrustInv, Shape, Running
  <2>5. Covered(new, cmd[p].name, fp[p])
    <3>1. \A g \in DOMAIN registry : registry[g].approved => g \in consent
      BY DEF TrustInv, Consented
    <3>2. cmd[p].name = "ack" => fp[p] \in consent
      BY <2>1 DEF TrustInv, Consented
    <3>3. Lookup(registry, fp[p]).approved => fp[p] \in consent
      BY <3>1 DEF Lookup, NoRecord
    <3>4. CASE cmd[p].name = "revoke"
      BY <3>1, <3>4 DEF Covered, Changed, Restrict
    <3>5. CASE cmd[p].name # "revoke"
      <4>1. /\ DOMAIN new = DOMAIN registry \cup {fp[p]}
            /\ new[fp[p]].approved =
                 (cmd[p].name # "dismiss" \/ Lookup(registry, fp[p]).approved)
            /\ \A g \in DOMAIN registry \ {fp[p]} : new[g] = registry[g]
        BY <3>5 DEF Changed, Recorded, Answered
      <4> HIDE DEF new
      <4>2. new[fp[p]].approved => fp[p] \in consent \/ cmd[p].name = "trust"
        BY <2>3, <3>2, <3>3, <3>5, <4>1 DEF Name
      <4> QED
        BY <3>1, <4>1, <4>2 DEF Covered
    <3> QED
      BY <3>4, <3>5
  <2>6. ASSUME NEW old, seen'[p] = {old} PROVE Keeps(old, new, cmd[p].name, fp[p])
    <3>1. old = registry
      BY <2>2, <2>6
    <3>2. cmd[p].name = "ack" => Lookup(registry, fp[p]).approved
      <4>1. cmd[p].name = "ack" =>
              seen[p] # {} /\ \A x \in seen[p] : Lookup(x, fp[p]).approved
        BY <2>1 DEF TrustInv, InTime
      <4> QED BY <2>2, <2>6, <3>1, <4>1
    <3> QED
      BY <2>3, <3>1, <3>2, ChangedKeeps
  <2> HIDE DEF new
  <2>7. Consented'
    BY <1>0, <2>1, <2>2, <2>5 DEF TrustInv, Consented, Covered
  <2>8. InTime'
    BY <1>0, <2>1, <2>2, <2>6 DEF TrustInv, InTime
  <2> QED
    BY <2>4, <2>7, <2>8 DEF TrustInv
<1> QED
  BY <1>1, <1>2

LEMMA WriteTmpSafe == ASSUME TrustInv, NEW p \in Proc, WriteTmp(p) PROVE TrustInv'
<1>1. /\ pc[p] = "saving" /\ pc' = [pc EXCEPT ![p] = "renaming"] /\ Forget(p)
      /\ tmp'.name = cmd[p].name /\ tmp'.fp = fp[p] /\ tmp'.reg = mem[p] /\ tmp'.seen = seen[p]
      /\ UNCHANGED <<registry, consent>>
  BY DEF WriteTmp
<1>2. Covered(tmp'.reg, tmp'.name, tmp'.fp)
  BY <1>1 DEF TrustInv, Consented
<1>3. \A old : tmp'.seen = {old} => Keeps(old, tmp'.reg, tmp'.name, tmp'.fp)
  BY <1>1 DEF TrustInv, InTime
<1>4. \A g \in DOMAIN registry' : registry'[g].approved => g \in consent'
  BY <1>1 DEF TrustInv, Consented
<1> QED
  BY <1>1, <1>2, <1>3, <1>4, Forgotten, OthersStay

\* The registry approves what the temporary file did, and kg trust has approved it.
LEMMA RenameSafe == ASSUME TrustInv, NEW p \in Proc, Rename(p) PROVE TrustInv'
<1>1. pc' = [pc EXCEPT ![p] = "idle"] /\ Forget(p) /\ tmp' = NoFile
  BY DEF Rename, End
<1>2. consent \subseteq consent' /\ \A g \in DOMAIN registry' : registry'[g].approved => g \in consent'
  <2>1. CASE tmp = NoFile
    BY <2>1 DEF Rename, TrustInv, Consented
  <2>2. CASE tmp # NoFile
    <3>1. /\ registry' = tmp.reg
          /\ consent' = IF tmp.name = "trust" THEN consent \cup {tmp.fp} ELSE consent
      BY <2>2 DEF Rename
    <3>2. Covered(tmp.reg, tmp.name, tmp.fp)
      BY <2>2 DEF TrustInv, Consented
    <3> QED
      BY <3>1, <3>2 DEF Covered
  <2> QED
    BY <2>1, <2>2
<1> QED
  BY <1>1, <1>2, Forgotten, OthersStay

LEMMA TrustStep ==
  ASSUME TrustInv, [Next]_vars
  PROVE  TrustInv'
<1>1. ASSUME NEW r \in Repo, NEW f \in Content, Edit(r, f) PROVE TrustInv'
  BY <1>1, CommandsAside DEF Touch, Edit
<1>2. ASSUME NEW r \in Repo, NEW key \in Key, NEW val \in Value \cup {Unset}, SetProject(r, key, val)
      PROVE  TrustInv'
  BY <1>2, CommandsAside DEF Touch, SetProject
<1>3. ASSUME NEW key \in Key, NEW val \in Value \cup {Unset}, SetGlobal(key, val) PROVE TrustInv'
  BY <1>3, CommandsAside DEF Touch, SetGlobal
<1>4. ASSUME NEW r \in Repo, ReadFile(r) PROVE TrustInv'
  BY <1>4, CommandsAside DEF ReadFile
<1>5. CASE AskTrust
  BY <1>5, CommandsAside DEF AskTrust
<1>6. ASSUME NEW p \in Proc, Die(p) PROVE TrustInv'
  BY <1>6, EndSafe DEF Die, Unsaved
<1>7. CASE UNCHANGED vars
  BY <1>7, CommandsAside DEF vars, Commands
<1> QED
  BY <1>1, <1>2, <1>3, <1>4, <1>5, <1>6, <1>7, BeginSafe, CheckSafe, ReadSafe, LoadSafe,
     WriteTmpSafe, RenameSafe DEF Next

------------------------------------------------------------------------------
(* The theorems.                                                           *)

THEOREM TrustSafe == Spec => []TrustInv
BY TrustInit, TrustStep, PTL DEF Spec

\* Nothing that a committed file asks for takes effect unless kg trust approved exactly that.
THEOREM EffectNeedsConsent == Spec => OnlyConsented
<1>1. ASSUME TrustInv, kgairc[read.repo].set = read.set PROVE Taken \in consent \cup {Blank}
  <2>1. CASE ~Trusted(kgairc[read.repo], registry)
    BY <2>1 DEF Taken, LoadProjectLayer
  <2>2. CASE Fingerprint(read.set) = Blank
    BY <2>2 DEF Taken, LoadProjectLayer, Fingerprint
  <2>3. CASE Trusted(kgairc[read.repo], registry) /\ Fingerprint(read.set) # Blank
    <3>1. Lookup(registry, Fingerprint(read.set)).approved
      BY <1>1, <2>3 DEF Trusted
    <3>2. Fingerprint(read.set) \in consent
      BY <1>1, <3>1 DEF TrustInv, Consented, Lookup, NoRecord
    <3>3. Taken \in {Fingerprint(read.set), Blank}
      BY DEF Taken, LoadProjectLayer, Fingerprint
    <3> QED
      BY <3>2, <3>3
  <2> QED
    BY <2>1, <2>2, <2>3
<1>2. TrustInv /\ [Next]_vars =>
        [read # NoRead /\ read' = NoRead /\ kgairc[read.repo].set = read.set
           => Taken \in consent \cup {Blank}]_vars
  BY <1>1
<1> QED
  BY <1>2, TrustSafe, PTL DEF Spec, OnlyConsented

\* A rename that is not late replaces the registry by one that keeps it.
LEMMA RenameKeeps ==
  ASSUME TrustInv, [Next]_vars, registry' # registry, ~Late
  PROVE  Renamed /\ Keeps(registry, registry', tmp.name, tmp.fp)
<1>1. \E p \in Proc : Rename(p)
  BY DEF Next, vars, Commands, Unsaved, Touch, Edit, ReadFile, Begin, SetProject, SetGlobal, AskTrust,
       Check, Read, Load, WriteTmp, Die
<1>2. tmp # NoFile /\ tmp' = NoFile /\ registry' = tmp.reg
  BY <1>1 DEF Rename
<1>3. tmp.seen = {registry}
  BY <1>2 DEF Late, Renamed
<1> QED
  BY <1>2, <1>3 DEF Renamed, TrustInv, InTime

\* An approval, a dismissal and an acknowledgement hold until they are revoked, and nothing
\* but kg trust approves, whatever other commands save, unless a save comes late.
THEOREM AnswersAreKept == Spec => AnswerKept
<1>1. ASSUME TrustInv, [Next]_vars, ~Late, NEW r \in Repo PROVE Held(r)
  <2> DEFINE f == kgairc[r]
             asks == Fingerprint(f.set)
  <2>1. CASE registry' = registry
    BY <2>1 DEF Held
  <2>2. CASE registry' # registry
    <3>1. Renamed /\ Keeps(registry, registry', tmp.name, tmp.fp)
      BY <1>1, <2>2, RenameKeeps
    <3>2. /\ Lookup(registry', asks).approved =>
                Lookup(registry, asks).approved \/ By("trust", asks)
          /\ By("revoke", asks)
             \/ /\ asks \in DOMAIN registry => asks \in DOMAIN registry'
                /\ Lookup(registry, asks).approved => Lookup(registry', asks).approved
                /\ Lookup(registry, asks).paths \subseteq Lookup(registry', asks).paths
      BY <3>1 DEF Keeps, By
    <3> HIDE DEF asks
    <3>3. Trusted(f, registry') => Trusted(f, registry) \/ By("trust", asks)
      BY <3>2 DEF Trusted, asks
    <3>4. ASSUME ~By("revoke", asks)
          PROVE  /\ Pending(f, registry') => Pending(f, registry)
                 /\ Trusted(f, registry) => Trusted(f, registry')
                 /\ Inherited(f, registry', r) /\ Trusted(f, registry) => Inherited(f, registry, r)
      <4>1. Trusted(f, registry) => Trusted(f, registry')
        BY <3>2, <3>4 DEF Trusted, asks
      <4>2. Pending(f, registry') => Pending(f, registry)
        BY <3>2, <3>4, <4>1 DEF Pending, Dismissed, asks
      <4>3. Inherited(f, registry', r) /\ Trusted(f, registry) => Inherited(f, registry, r)
        BY <3>2, <3>4 DEF Inherited, asks
      <4> QED
        BY <4>1, <4>2, <4>3
    <3> QED
      BY <3>3, <3>4 DEF Held, asks
  <2> QED
    BY <2>1, <2>2
<1>2. TrustInv /\ [Next]_vars => [Late \/ \A r \in Repo : Held(r)]_vars
  BY <1>1
<1> QED
  BY <1>2, TrustSafe, PTL DEF Spec, AnswerKept

------------------------------------------------------------------------------
(* The resolvers.                                                          *)

\* Of the layers that set a key, the first one decides.
LEMMA EffectiveIs ==
  ASSUME NEW layers, NEW key
  PROVE  Effective(layers, key) =
           IF layers.session[key] # Unset THEN [val |-> layers.session[key], source |-> "session"]
           ELSE IF layers.project[key] # Unset
             THEN [val |-> layers.project[key], source |-> "project"]
           ELSE IF layers.global[key] # Unset
             THEN [val |-> layers.global[key], source |-> "global"]
           ELSE [val |-> Unset, source |-> "none"]
<1> DEFINE setting == {k \in DOMAIN Precedence : layers[Precedence[k]][key] # Unset}
<1>1. /\ DOMAIN Precedence = {1, 2, 3}
      /\ Precedence[1] = "session" /\ Precedence[2] = "project" /\ Precedence[3] = "global"
  BY DEF Precedence
<1>2. ASSUME NEW k \in setting, \A j \in setting : k <= j PROVE Min(setting) = k
  <2>1. setting \subseteq Int
    BY <1>1
  <2>2. \E x \in setting : \A y \in setting : x <= y
    BY <1>2
  <2>3. Min(setting) \in setting /\ \A y \in setting : Min(setting) <= y
    <3> HIDE DEF setting
    <3> QED BY <2>2, Zenon DEF Min
  <2> HIDE DEF setting
  <2>4. Min(setting) <= k /\ k <= Min(setting) /\ Min(setting) \in Int /\ k \in Int
    BY <1>2, <2>1, <2>3, Zenon
  <2> QED BY <2>4
<1>3. Effective(layers, key) =
        IF setting = {} THEN [val |-> Unset, source |-> "none"]
        ELSE [val |-> layers[Precedence[Min(setting)]][key], source |-> Precedence[Min(setting)]]
  BY DEF Effective
<1>a. /\ 1 \in setting <=> layers.session[key] # Unset
      /\ 2 \in setting <=> layers.project[key] # Unset
      /\ 3 \in setting <=> layers.global[key] # Unset
  BY <1>1
<1>b. setting \subseteq {1, 2, 3}
  BY <1>1
<1> HIDE DEF setting
<1>4. CASE layers.session[key] # Unset
  <2>1. 1 \in setting
    BY <1>a, <1>4
  <2>2. \A j \in setting : 1 <= j
    BY <1>b
  <2>3. Min(setting) = 1
    BY <1>2, <2>1, <2>2
  <2> QED BY <1>1, <1>3, <1>4, <2>1, <2>3
<1>5. CASE layers.session[key] = Unset /\ layers.project[key] # Unset
  <2>1. 2 \in setting /\ 1 \notin setting
    BY <1>a, <1>5
  <2>2. \A j \in setting : 2 <= j
    BY <1>b, <2>1
  <2>3. Min(setting) = 2
    BY <1>2, <2>1, <2>2
  <2> QED BY <1>1, <1>3, <1>5, <2>1, <2>3
<1>6. CASE layers.session[key] = Unset /\ layers.project[key] = Unset /\ layers.global[key] # Unset
  <2>1. 3 \in setting /\ 1 \notin setting /\ 2 \notin setting
    BY <1>a, <1>6
  <2>2. \A j \in setting : 3 <= j
    BY <1>b, <2>1
  <2>3. Min(setting) = 3
    BY <1>2, <2>1, <2>2
  <2> QED BY <1>1, <1>3, <1>6, <2>1, <2>3
<1>7. CASE layers.session[key] = Unset /\ layers.project[key] = Unset /\ layers.global[key] = Unset
  <2>1. setting = {}
    BY <1>a, <1>b, <1>7
  <2> QED BY <1>3, <1>7, <2>1
<1> QED
  BY <1>4, <1>5, <1>6, <1>7

\* The two ways to find the store agree, and a committed file does not choose the remote,
\* whatever the files say, torn ones included, and whatever has been approved.
LEMMA Agreement == ResolversAgree
<1> SUFFICES ASSUME Readable(global), NEW r \in Repo, Readable(kgairc[r])
             PROVE  LET root == StoreRootFromLayers(kgairc[r], global, registry)
                        shown == Effective(Layered(r, kgairc[r]), "store")
                    IN  /\ root.source = shown.source
                        /\ ~root.error => root.root = shown.val
                        /\ EffectiveRemote(Layered(r, kgairc[r]))
                             = EffectiveRemote(Layered(r, Missing))
  BY DEF ResolversAgree
<1> DEFINE layers == Layered(r, kgairc[r])
           mine == LoadProjectLayer(kgairc[r].set, Trusted(kgairc[r], registry))
           none == Layered(r, Missing)
<1>1. /\ layers.session = [Session[r] EXCEPT !.store = Unset]
      /\ layers.project = mine /\ layers.global = global.set
      /\ none.session = layers.session /\ none.global = layers.global
  BY DEF Layered, LoadLayers
<1>2. layers.session.store = Unset
  BY <1>1, TrustAssumption DEF Settings, Key
<1>3. layers.project.remote = Unset /\ none.project.remote = Unset
  <2>1. \A f, trusted : LoadProjectLayer(f, trusted).remote = Unset
    BY DEF LoadProjectLayer, Only, Blank, AllowedIn, KeyLayers, Key
  <2> QED BY <1>1, <2>1 DEF Layered, LoadLayers
<1>4. Effective(layers, "remote") = Effective(none, "remote")
  <2> HIDE DEF layers, none
  <2>1. /\ layers.session["remote"] = none.session["remote"]
        /\ layers.project["remote"] = none.project["remote"]
        /\ layers.global["remote"] = none.global["remote"]
    BY <1>1, <1>3
  <2> QED BY <2>1, EffectiveIs
<1>5. EffectiveRemote(layers) = EffectiveRemote(none)
  BY <1>4, Zenon DEF EffectiveRemote
<1>6. Effective(layers, "store") =
        IF mine.store # Unset THEN [val |-> mine.store, source |-> "project"]
        ELSE IF global.set.store # Unset THEN [val |-> global.set.store, source |-> "global"]
        ELSE [val |-> Unset, source |-> "none"]
  <2> HIDE DEF layers, mine
  <2>1. Effective(layers, "store") =
           IF layers.session["store"] # Unset
             THEN [val |-> layers.session["store"], source |-> "session"]
           ELSE IF layers.project["store"] # Unset
             THEN [val |-> layers.project["store"], source |-> "project"]
           ELSE IF layers.global["store"] # Unset
             THEN [val |-> layers.global["store"], source |-> "global"]
           ELSE [val |-> Unset, source |-> "none"]
    BY EffectiveIs
  <2> QED BY <1>1, <1>2, <2>1
<1>7. StoreRootFromLayers(kgairc[r], global, registry) =
        IF mine.store # Unset THEN ExpandStorePath(mine.store, "project")
        ELSE IF global.set.store = Unset THEN Default
        ELSE ExpandStorePath(global.set.store, "global")
  <2> HIDE DEF mine
  <2>1. mine = LoadProjectLayer(kgairc[r].set, Trusted(kgairc[r], registry))
    BY DEF mine
  <2>2. CASE mine.store # Unset
    BY <2>1, <2>2 DEF StoreRootFromLayers
  <2>3. CASE mine.store = Unset
    BY <2>1, <2>3 DEF StoreRootFromLayers
  <2> QED BY <2>2, <2>3
<1> HIDE DEF mine, layers
<1>8. LET root == StoreRootFromLayers(kgairc[r], global, registry)
          shown == Effective(layers, "store")
      IN  root.source = shown.source /\ (~root.error => root.root = shown.val)
  <2>1. \A v, layer : /\ ExpandStorePath(v, layer).source = layer
                      /\ ~ExpandStorePath(v, layer).error => ExpandStorePath(v, layer).root = v
    BY DEF ExpandStorePath
  <2>2. CASE mine.store # Unset
    BY <1>6, <1>7, <2>1, <2>2
  <2>3. CASE mine.store = Unset /\ global.set.store # Unset
    BY <1>6, <1>7, <2>1, <2>3
  <2>4. CASE mine.store = Unset /\ global.set.store = Unset
    BY <1>6, <1>7, <2>4 DEF Default
  <2> QED BY <2>2, <2>3, <2>4
<1> QED
  BY <1>5, <1>8 DEF layers

\* Every command finds the same store and the same remote (ResolversAgree).
THEOREM ResolversDoAgree == Spec => []ResolversAgree
  BY Agreement, PTL

------------------------------------------------------------------------------
(* Types.                                                                  *)

Phases == {"idle", "checking", "reading", "loading", "saving", "renaming"}
Cmds == [name : Name, repo : Repo \cup {0}]

\* What a command that is under way is about, and what it has in memory.
CommandOK(p) ==
  /\ Running(p) => cmd[p].repo \in Repo
  /\ pc[p] \in {"loading", "saving"} => fp[p] # Blank
  /\ \A f \in DOMAIN mem[p] : mem[p][f] \in Record

RegOK(reg) == DOMAIN reg \subseteq Asked /\ \A f \in DOMAIN reg : reg[f] \in Record

CommandsOK ==
  /\ DOMAIN mem = Proc /\ \A p \in Proc : CommandOK(p)
  /\ tmp # NoFile => RegOK(tmp.reg)
TypeInv == TypeOK /\ CommandsOK

\* What a committed file asks for.
LEMMA FingerprintTyped ==
  ASSUME NEW f \in File
  PROVE  f.set \in Settings /\ Fingerprint(f.set) \in Asked \cup {Blank}
<1>1. f.set \in Settings
  BY DEF File, Missing, Corrupt, Whole, Settings, Blank
<1>2. AllowedIn("project") = {"store", "prompt"}
  BY DEF AllowedIn, KeyLayers, Key
<1> QED BY <1>1, <1>2 DEF Fingerprint, Asked

\* What is left of the types, without that of the commands.
OtherTypes ==
  /\ kgairc \in [Repo -> File] /\ global \in File
  /\ RegOK(registry)
  /\ tmp # NoFile => tmp.name \in Name /\ tmp.fp \in Asked /\ RegOK(tmp.reg)
  /\ read \in [repo : Repo, set : Settings] \cup {NoRead}
  /\ consent \subseteq Asked
  /\ commands \in Nat /\ edits \in 0 .. MaxEdit /\ commands + edits <= MaxChange

\* One command goes on, or ends.
LEMMA CommandTyped ==
  ASSUME TypeInv, NEW p \in Proc,
         pc' \in [Proc -> Phases], cmd' \in [Proc -> Cmds], fp' \in [Proc -> Asked \cup {Blank}],
         DOMAIN mem' = Proc, DOMAIN mem'[p] \subseteq Asked,
         \A q \in Proc \ {p} :
           pc'[q] = pc[q] /\ cmd'[q] = cmd[q] /\ fp'[q] = fp[q] /\ mem'[q] = mem[q],
         CommandOK(p)', OtherTypes'
  PROVE  TypeInv'
<1>1. \A q \in Proc : DOMAIN mem'[q] \subseteq Asked
  BY DEF TypeInv, TypeOK
<1>2. \A q \in Proc \ {p} : CommandOK(q)'
  BY DEF CommandOK, Running, TypeInv, CommandsOK
<1> QED
  BY <1>1, <1>2 DEF TypeInv, CommandsOK, TypeOK, OtherTypes, RegOK, Phases, Cmds

\* A step that changes no command.
LEMMA FilesTyped ==
  ASSUME TypeInv, UNCHANGED <<tmp, pc, cmd, fp, mem>>, OtherTypes'
  PROVE  TypeInv'
BY DEF TypeInv, TypeOK, OtherTypes, RegOK, CommandsOK, CommandOK, Running

\* A command that has nothing in memory.
LEMMA ForgetTyped ==
  ASSUME TypeInv, NEW p \in Proc, NEW phase \in {"idle", "renaming"},
         pc' = [pc EXCEPT ![p] = phase], Forget(p), OtherTypes'
  PROVE  TypeInv'
<1>1. DOMAIN NoRegistry = {}
  BY DEF NoRegistry
<1>2. Idle \in Cmds
  BY DEF Idle, Name, Cmds
<1>3. /\ pc' \in [Proc -> Phases] /\ cmd' \in [Proc -> Cmds] /\ fp' \in [Proc -> Asked \cup {Blank}]
      /\ DOMAIN mem' = Proc /\ mem'[p] = NoRegistry /\ pc'[p] = phase
      /\ \A q \in Proc \ {p} :
           pc'[q] = pc[q] /\ cmd'[q] = cmd[q] /\ fp'[q] = fp[q] /\ mem'[q] = mem[q]
  BY <1>2 DEF Forget, TypeInv, TypeOK, CommandsOK, Phases, Cmds
<1>4. CommandOK(p)'
  BY <1>1, <1>3 DEF CommandOK, Running
<1> QED
  BY <1>1, <1>3, <1>4, CommandTyped

\* What Edit, SetProject and SetGlobal leave in a file.
LEMMA WrittenTyped ==
  ASSUME NEW f \in File, NEW layer, NEW key, NEW val \in Value \cup {Unset}
  PROVE  Written(f, layer, key, val) \subseteq File
<1>1. f.set \in Settings
  BY FingerprintTyped
<1>2. [f.set EXCEPT ![key] = val] \in Settings
  BY <1>1 DEF Settings
<1> QED
  BY <1>2 DEF Written, WriteLayer, File

\* A registry with one more answer.
LEMMA RecordedTyped ==
  ASSUME NEW reg, DOMAIN reg \subseteq Asked, \A f \in DOMAIN reg : reg[f] \in Record,
         NEW f \in Asked, NEW r \in Repo, NEW approve \in BOOLEAN
  PROVE  /\ DOMAIN Recorded(reg, f, r, approve) \subseteq Asked
         /\ \A g \in DOMAIN Recorded(reg, f, r, approve) :
              Recorded(reg, f, r, approve)[g] \in Record
<1>1. Lookup(reg, f) \in Record
  BY DEF Lookup, NoRecord, Record
<1>2. Answered(reg, f, r, approve) \in Record
  BY <1>1 DEF Answered, Record
<1> QED
  BY <1>2 DEF Recorded

\* Commands that are idle, and empty files, are well typed.
LEMMA TypeInit == Init => TypeInv
<1> SUFFICES ASSUME Init PROVE TypeInv
  OBVIOUS
<1>1. DOMAIN NoRegistry = {}
  BY DEF NoRegistry
<1>2. OtherTypes
  BY <1>1, TrustAssumption DEF Init, OtherTypes, RegOK, File, NoRegistry
<1>3. Idle \in [name : Name, repo : Repo \cup {0}]
  BY DEF Idle, Name
<1>4. TypeOK
  BY <1>1, <1>2, <1>3 DEF Init, OtherTypes, RegOK, TypeOK
<1> QED
  BY <1>1, <1>4 DEF Init, TypeInv, CommandsOK, CommandOK, Running

\* The command reads what it is about, and keeps it.
LEMMA CheckReadTyped ==
  ASSUME TypeInv, OtherTypes, OtherTypes', NEW p \in Proc, Check(p) \/ Read(p)
  PROVE  TypeInv'
<1>1. CASE End(p)
  BY <1>1, ForgetTyped DEF End
<1>2. CASE ~End(p)
  <2>1. PICK phase \in {"reading", "loading"} :
          /\ Running(p) /\ pc' = [pc EXCEPT ![p] = phase] /\ UNCHANGED <<cmd, mem>>
          /\ \/ phase = "reading" /\ UNCHANGED fp
             \/ /\ Fingerprint(FileOf(p).set) # Blank
                /\ fp' = [fp EXCEPT ![p] = Fingerprint(FileOf(p).set)]
    BY <1>2 DEF Check, Read, Running
  <2>2. cmd[p].repo \in Repo
    BY <2>1 DEF TypeInv, CommandsOK, CommandOK
  <2>3. Fingerprint(FileOf(p).set) \in Asked \cup {Blank}
    BY <2>2, FingerprintTyped DEF FileOf, OtherTypes
  <2>4. /\ pc' \in [Proc -> Phases] /\ cmd' \in [Proc -> Cmds] /\ fp' \in [Proc -> Asked \cup {Blank}]
        /\ DOMAIN mem' = Proc /\ DOMAIN mem'[p] \subseteq Asked
        /\ pc'[p] = phase /\ (phase = "loading" => fp'[p] # Blank)
        /\ \A q \in Proc \ {p} :
             pc'[q] = pc[q] /\ cmd'[q] = cmd[q] /\ fp'[q] = fp[q] /\ mem'[q] = mem[q]
    BY <2>1, <2>3 DEF TypeInv, TypeOK, CommandsOK, Phases, Cmds
  <2>5. CommandOK(p)'
    BY <2>1, <2>2, <2>4 DEF TypeInv, CommandsOK, CommandOK, Running
  <2> QED BY <2>4, <2>5, CommandTyped
<1> QED BY <1>1, <1>2

\* Every step keeps the types.
LEMMA TypeStep == ASSUME TypeInv, [Next]_vars PROVE TypeInv'
<1>0. /\ OtherTypes /\ CommandsOK
      /\ MaxChange \in Nat /\ MaxEdit \in Nat /\ Content \subseteq File
  BY TrustAssumption DEF TypeInv, TypeOK, OtherTypes, RegOK, CommandsOK
<1>1. ASSUME NEW r \in Repo, NEW f \in Content, Edit(r, f) PROVE TypeInv'
  BY <1>0, <1>1, FilesTyped DEF More, Touch, Edit, Commands, OtherTypes, RegOK
<1>2. ASSUME NEW r \in Repo, NEW key \in Key, NEW val \in Value \cup {Unset}, SetProject(r, key, val)
      PROVE  TypeInv'
  <2>1. kgairc' \in [Repo -> File]
    BY <1>0, <1>2, WrittenTyped DEF Touch, SetProject, OtherTypes
  <2> QED BY <1>0, <1>2, <2>1, FilesTyped DEF More, Touch, SetProject, Commands, OtherTypes, RegOK
<1>3. ASSUME NEW key \in Key, NEW val \in Value \cup {Unset}, SetGlobal(key, val) PROVE TypeInv'
  <2>1. global' \in File
    BY <1>0, <1>3, WrittenTyped DEF Touch, SetGlobal, OtherTypes
  <2> QED BY <1>0, <1>3, <2>1, FilesTyped DEF More, Touch, SetGlobal, Commands, OtherTypes, RegOK
<1>4. ASSUME NEW r \in Repo, ReadFile(r) PROVE TypeInv'
  <2>1. kgairc[r].set \in Settings
    BY <1>0, FingerprintTyped DEF OtherTypes
  <2>2. read' \in [repo : Repo, set : Settings] \cup {NoRead}
    BY <1>4, <2>1 DEF ReadFile
  <2> QED BY <1>0, <1>4, <2>2, FilesTyped DEF ReadFile, Commands, OtherTypes, RegOK
<1>5. ASSUME NEW r \in Repo, NEW p \in Proc, NEW name \in Name, Begin(p, name, r) PROVE TypeInv'
  <2> DEFINE c == [name |-> name, repo |-> r]
             phase == IF name \in {"ack", "dismiss"} THEN "checking" ELSE "reading"
  <2>1. c \in Cmds /\ c.repo \in Repo /\ phase \in Phases \ {"loading", "saving"}
    BY DEF Cmds, Phases
  <2>2. pc' = [pc EXCEPT ![p] = phase] /\ cmd' = [cmd EXCEPT ![p] = c] /\ UNCHANGED <<fp, mem>>
    BY <1>5 DEF Begin
  <2> HIDE DEF c, phase
  <2>3. /\ pc' \in [Proc -> Phases] /\ cmd' \in [Proc -> Cmds] /\ fp' \in [Proc -> Asked \cup {Blank}]
        /\ DOMAIN mem' = Proc /\ DOMAIN mem'[p] \subseteq Asked
        /\ pc'[p] = phase /\ cmd'[p] = c
        /\ \A q \in Proc \ {p} :
             pc'[q] = pc[q] /\ cmd'[q] = cmd[q] /\ fp'[q] = fp[q] /\ mem'[q] = mem[q]
    BY <2>1, <2>2 DEF TypeInv, TypeOK, CommandsOK, Phases, Cmds
  <2>4. CommandOK(p)'
    BY <1>0, <2>1, <2>2, <2>3 DEF CommandsOK, CommandOK
  <2>5. OtherTypes'
    BY <1>0, <1>5 DEF More, Begin, OtherTypes, RegOK
  <2> QED BY <2>3, <2>4, <2>5, CommandTyped
<1>6. CASE AskTrust
  BY <1>0, <1>6, FilesTyped DEF AskTrust, Commands, OtherTypes, RegOK
<1>7. ASSUME NEW p \in Proc, Check(p) \/ Read(p) PROVE TypeInv'
  <2>1. OtherTypes'
    BY <1>0, <1>7 DEF Check, Read, Unsaved, OtherTypes, RegOK
  <2> QED BY <1>0, <1>7, <2>1, CheckReadTyped
<1>8. ASSUME NEW p \in Proc, Load(p) PROVE TypeInv'
  <2>1. OtherTypes'
    BY <1>0, <1>8 DEF Load, Unsaved, OtherTypes, RegOK
  <2>2. CASE End(p)
    BY <2>1, <2>2, ForgetTyped DEF End
  <2>3. CASE ~End(p)
    <3> DEFINE m == Changed(registry, fp[p], cmd[p])
    <3>1. /\ pc[p] = "loading" /\ pc' = [pc EXCEPT ![p] = "saving"]
          /\ mem' = [mem EXCEPT ![p] = m] /\ UNCHANGED <<cmd, fp>>
      BY <1>8, <2>3 DEF Load
    <3>2. cmd[p].repo \in Repo /\ fp[p] # Blank
      BY <1>0, <3>1 DEF CommandsOK, CommandOK, Running
    <3>3. fp[p] \in Asked
      BY <3>2 DEF TypeInv, TypeOK
    <3>4. RegOK(m)
      <4>1. CASE cmd[p].name = "revoke"
        BY <1>0, <4>1 DEF OtherTypes, RegOK, Changed, Restrict
      <4>2. CASE cmd[p].name # "revoke"
        <5>1. (cmd[p].name # "dismiss") \in BOOLEAN
          OBVIOUS
        <5> QED BY <1>0, <3>2, <3>3, <4>2, <5>1, RecordedTyped DEF OtherTypes, RegOK, Changed
      <4> QED BY <4>1, <4>2
    <3> HIDE DEF m
    <3>5. /\ pc' \in [Proc -> Phases] /\ cmd' \in [Proc -> Cmds]
          /\ fp' \in [Proc -> Asked \cup {Blank}]
          /\ DOMAIN mem' = Proc /\ mem'[p] = m
          /\ \A q \in Proc \ {p} :
               pc'[q] = pc[q] /\ cmd'[q] = cmd[q] /\ fp'[q] = fp[q] /\ mem'[q] = mem[q]
      BY <3>1 DEF TypeInv, TypeOK, CommandsOK, Phases, Cmds
    <3>6. CommandOK(p)'
      BY <3>1, <3>2, <3>4, <3>5 DEF CommandOK, RegOK
    <3> QED BY <2>1, <3>4, <3>5, <3>6, CommandTyped DEF RegOK
  <2> QED BY <2>2, <2>3
<1>9. ASSUME NEW p \in Proc, WriteTmp(p) PROVE TypeInv'
  <2>1. /\ cmd[p].name \in Name /\ fp[p] \in Asked /\ RegOK(mem[p])
    BY <1>0, <1>9 DEF WriteTmp, TypeInv, TypeOK, CommandsOK, CommandOK, RegOK
  <2>2. tmp'.name = cmd[p].name /\ tmp'.fp = fp[p] /\ tmp'.reg = mem[p]
    BY <1>9 DEF WriteTmp
  <2>3. OtherTypes'
    BY <1>0, <1>9, <2>1, <2>2 DEF WriteTmp, OtherTypes, RegOK
  <2> QED BY <1>9, <2>3, ForgetTyped DEF WriteTmp
<1>10. ASSUME NEW p \in Proc, Rename(p) PROVE TypeInv'
  <2>1. RegOK(registry') /\ consent' \subseteq Asked /\ tmp' = NoFile
    BY <1>0, <1>10 DEF Rename, OtherTypes, RegOK
  <2>2. OtherTypes'
    BY <1>0, <1>10, <2>1 DEF Rename, OtherTypes, RegOK
  <2> QED BY <1>10, <2>2, ForgetTyped DEF Rename, End
<1>11. ASSUME NEW p \in Proc, Die(p) PROVE TypeInv'
  <2>1. OtherTypes'
    BY <1>0, <1>11 DEF Die, Unsaved, OtherTypes, RegOK
  <2> QED BY <1>11, <2>1, ForgetTyped DEF Die, End
<1>12. CASE UNCHANGED vars
  BY <1>0, <1>12, FilesTyped DEF vars, OtherTypes, RegOK
<1> QED
  BY <1>1, <1>2, <1>3, <1>4, <1>5, <1>6, <1>7, <1>8, <1>9, <1>10, <1>11, <1>12 DEF Next

\* trusted.json, what is about to be saved to it and what kg trust approved only ever speak of
\* configurations that ask for something (TypeOK).
THEOREM Typed == Spec => []TypeOK
<1>1. TypeInv => TypeOK
  BY DEF TypeInv
<1>2. TypeInv /\ [Next]_vars => TypeInv'
  BY TypeStep
<1> QED
  BY <1>1, <1>2, TypeInit, PTL DEF Spec
===============================================================================
