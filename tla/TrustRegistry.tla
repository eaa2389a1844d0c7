----------------------------- MODULE TrustRegistry -----------------------------
(***************************************************************************)
(* Approving what a committed .kgairc asks for: one trusted.json for every *)
(* repository of a person, read and rewritten without a lock by commands   *)
(* of terminals and of session hooks, while pulls change the files         *)
(* (internal/store/trust.go, main.go: kg trust, kg config).                *)
(*                                                                         *)
(* A save writes trusted.json.new, which all commands share, and renames   *)
(* it. Each of the two is one step, and so is reading a file.              *)
(***************************************************************************)
EXTENDS Layers

CONSTANTS
  Content,    \* what a .kgairc may be after a pull or an edit by hand
  Session,    \* Session[r]: the settings in the kg.config.json of r, also legacy ones
  Proc,       \* processes that change the registry
  NoRead,     \* nothing has been read
  NoFile,     \* there is no temporary file
  MaxChange,  \* bound: commands that change the registry, and changes of files
  MaxEdit     \* bound: changes of files

ASSUME TrustAssumption ==
  /\ Content \subseteq File /\ Session \in [Repo -> Settings]
  /\ MaxChange \in Nat /\ MaxEdit \in Nat

VARIABLES
  kgairc,   \* the committed file of each repository
  global,   \* config.json of this machine
  registry, \* trusted.json
  tmp,      \* trusted.json.new: the registry in it, and the command that wrote it
  pc,       \* where the command of each process is
  cmd,      \* its name and its repository
  fp,       \* the fingerprint it is about
  mem,      \* the registry it is about to save
  seen,     \* the registries that it decided on (ghost)
  read,     \* what some other command has read of a file so far
  consent,  \* what kg trust has ever approved (ghost)
  commands, \* how many commands there were
  edits     \* how many pulls, edits by hand and kg config there were

vars == <<kgairc, global, registry, tmp, pc, cmd, fp, mem, seen, read, consent, commands, edits>>

NoRegistry == <<>>
Name == {"trust", "dismiss", "revoke", "ack"}
Idle == [name |-> "ack", repo |-> 0]

Init ==
  /\ kgairc \in [Repo -> Content]
  /\ global = Missing
  /\ registry = NoRegistry
  /\ tmp = NoFile
  /\ pc = [p \in Proc |-> "idle"]
  /\ cmd = [p \in Proc |-> Idle]
  /\ fp = [p \in Proc |-> Blank]
  /\ mem = [p \in Proc |-> NoRegistry]
  /\ seen = [p \in Proc |-> {}]
  /\ read = NoRead
  /\ consent = {}
  /\ commands = 0
  /\ edits = 0

------------------------------------------------------------------------------
(* Files change, whatever commands are under way.                          *)

Commands == <<registry, tmp, pc, cmd, fp, mem, seen, consent, commands>>

\* The bounds.
More == commands + edits < MaxChange

Touch ==
  /\ More /\ edits < MaxEdit
  /\ edits' = edits + 1
  /\ UNCHANGED Commands /\ UNCHANGED read

\* A pull, a merge or an editor.
Edit(r, f) ==
  /\ Touch /\ UNCHANGED global
  /\ kgairc' = [kgairc EXCEPT ![r] = f]

\* kg config set and unset: the file is written in place, and torn if the process dies.
Written(f, layer, key, val) ==
  IF Settable(layer, key, val) /\ Readable(f) THEN {WriteLayer(f, key, val), Corrupt} ELSE {f}

SetProject(r, key, val) ==
  /\ Touch /\ UNCHANGED global
  /\ \E f \in Written(kgairc[r], "project", key, val) \ {kgairc[r]} :
       kgairc' = [kgairc EXCEPT ![r] = f]

SetGlobal(key, val) ==
  /\ Touch /\ UNCHANGED kgairc
  /\ global' \in Written(global, "global", key, val) \ {global}

------------------------------------------------------------------------------
(* kg trust, in any number of processes at once.                           *)

Exists(f) == Readable(f) /\ f # Missing

\* kg trust reads the file for what it prints, and refuses if there is none.
Begin(p, name, r) ==
  /\ pc[p] = "idle" /\ More
  /\ name = "trust" => Exists(kgairc[r])
  /\ pc' = [pc EXCEPT ![p] = IF name \in {"ack", "dismiss"} THEN "checking" ELSE "reading"]
  /\ cmd' = [cmd EXCEPT ![p] = [name |-> name, repo |-> r]]
  /\ commands' = commands + 1
  /\ UNCHANGED <<kgairc, global, registry, tmp, fp, mem, seen, read, consent, edits>>

\* What the command has in memory is of no use any more.
Forget(p) ==
  /\ cmd' = [cmd EXCEPT ![p] = Idle]
  /\ fp' = [fp EXCEPT ![p] = Blank]
  /\ mem' = [mem EXCEPT ![p] = NoRegistry]
  /\ seen' = [seen EXCEPT ![p] = {}]

\* The command has saved, refused, or died.
End(p) == pc' = [pc EXCEPT ![p] = "idle"] /\ Forget(p)

FileOf(p) == kgairc[cmd[p].repo]
Unsaved == UNCHANGED <<kgairc, global, registry, tmp, read, consent, commands, edits>>

\* TrustStateOf: --ack goes on if the file is approved, with the fingerprint it has here;
\* --dismiss goes on if it is not, and reads everything again.
Check(p) ==
  LET f == FileOf(p)
      asks == Readable(f) /\ Fingerprint(f.set) # Blank
  IN  /\ pc[p] = "checking" /\ Unsaved
      /\ \/ /\ asks /\ cmd[p].name = "dismiss" /\ ~Trusted(f, registry)
            /\ pc' = [pc EXCEPT ![p] = "reading"]
            /\ UNCHANGED <<cmd, fp, mem, seen>>
         \/ /\ asks /\ cmd[p].name = "ack" /\ Trusted(f, registry)
            /\ pc' = [pc EXCEPT ![p] = "loading"]
            /\ fp' = [fp EXCEPT ![p] = Fingerprint(f.set)]
            /\ seen' = [seen EXCEPT ![p] = {registry}]
            /\ UNCHANGED <<cmd, mem>>
         \/ /\ asks => Trusted(f, registry) = (cmd[p].name = "dismiss")
            /\ End(p)

\* FingerprintOf.
Read(p) ==
  LET f == FileOf(p)
  IN  /\ pc[p] = "reading" /\ Unsaved
      /\ IF Readable(f) /\ Fingerprint(f.set) # Blank
           THEN /\ pc' = [pc EXCEPT ![p] = "loading"]
                /\ fp' = [fp EXCEPT ![p] = Fingerprint(f.set)]
                /\ UNCHANGED <<cmd, mem, seen>>
           ELSE End(p)

Answered(reg, f, r, approve) ==
  [approved |-> approve \/ Lookup(reg, f).approved, paths |-> Lookup(reg, f).paths \cup {r}]

\* Wrong on purpose: the other configurations are forgotten.
RecordedAlone(reg, f, r, approve) == [g \in {f} |-> Answered(reg, f, r, approve)]

\* recordPath approves; Dismiss never takes an approval back.
Recorded(reg, f, r, approve) ==
  [g \in DOMAIN reg \cup {f} |-> IF g = f THEN Answered(reg, f, r, approve) ELSE reg[g]]

\* What a command makes of the registry it has loaded.
Changed(reg, f, c) ==
  IF c.name = "revoke" THEN Restrict(reg, DOMAIN reg \ {f})
  ELSE Recorded(reg, f, c.repo, c.name # "dismiss")

\* loadTrust.
Load(p) ==
  /\ pc[p] = "loading" /\ Unsaved
  /\ IF cmd[p].name = "revoke" /\ fp[p] \notin DOMAIN registry
       THEN End(p)
       ELSE /\ pc' = [pc EXCEPT ![p] = "saving"]
            /\ mem' = [mem EXCEPT ![p] = Changed(registry, fp[p], cmd[p])]
            /\ seen' = [seen EXCEPT ![p] = seen[p] \cup {registry}]
            /\ UNCHANGED <<cmd, fp>>

\* saveTrust, WriteFile: whatever another command has left there is overwritten.
WriteTmp(p) ==
  /\ pc[p] = "saving"
  /\ tmp' = [name |-> cmd[p].name, fp |-> fp[p], reg |-> mem[p], seen |-> seen[p]]
  /\ pc' = [pc EXCEPT ![p] = "renaming"] /\ Forget(p)
  /\ UNCHANGED <<kgairc, global, registry, read, consent, commands, edits>>

\* saveTrust, Rename: of whatever is there, or an error.
Rename(p) ==
  /\ pc[p] = "renaming" /\ End(p)
  /\ IF tmp = NoFile THEN UNCHANGED <<registry, consent>>
     ELSE /\ registry' = tmp.reg
          /\ consent' = IF tmp.name = "trust" THEN consent \cup {tmp.fp} ELSE consent
  /\ tmp' = NoFile
  /\ UNCHANGED <<kgairc, global, read, commands, edits>>

Die(p) ==
  /\ pc[p] # "idle" /\ End(p) /\ Unsaved

------------------------------------------------------------------------------
(* Every other command reads the file, and reads it again to ask about it. *)

ReadFile(r) ==
  /\ read = NoRead /\ Readable(kgairc[r])
  /\ read' = [repo |-> r, set |-> kgairc[r].set]
  /\ UNCHANGED Commands /\ UNCHANGED <<kgairc, global, edits>>

\* What the command then takes from the file.
Taken ==
  LET now == kgairc[read.repo]
  IN  LoadProjectLayer(read.set, Readable(now) /\ Trusted(now, registry))

AskTrust ==
  /\ read # NoRead
  /\ read' = NoRead
  /\ UNCHANGED Commands /\ UNCHANGED <<kgairc, global, edits>>

Next ==
  \/ \E r \in Repo :
       \/ \E f \in Content : Edit(r, f)
       \/ ReadFile(r)
       \/ \E p \in Proc, name \in Name : Begin(p, name, r)
       \/ \E key \in Key, val \in Value \cup {Unset} : SetProject(r, key, val)
  \/ \E key \in Key, val \in Value \cup {Unset} : SetGlobal(key, val)
  \/ AskTrust
  \/ \E p \in Proc : Check(p) \/ Read(p) \/ Load(p) \/ WriteTmp(p) \/ Rename(p) \/ Die(p)

Spec == Init /\ [][Next]_vars

------------------------------------------------------------------------------
(* Properties.                                                             *)

Asked == {Only(s, {"store", "prompt"}) : s \in Settings} \ {Blank}

\* trusted.json has records of configurations that ask for something, and of nothing else.
TypeOK ==
  /\ kgairc \in [Repo -> File] /\ global \in File
  /\ DOMAIN registry \subseteq Asked
  /\ \A f \in DOMAIN registry : registry[f] \in Record
  /\ tmp # NoFile => tmp.name \in Name /\ tmp.fp \in Asked /\ DOMAIN tmp.reg \subseteq Asked
  /\ pc \in [Proc -> {"idle", "checking", "reading", "loading", "saving", "renaming"}]
  /\ cmd \in [Proc -> [name : Name, repo : Repo \cup {0}]]
  /\ fp \in [Proc -> Asked \cup {Blank}]
  /\ \A p \in Proc : DOMAIN mem[p] \subseteq Asked
  /\ read \in [repo : Repo, set : Settings] \cup {NoRead}
  /\ consent \subseteq Asked
  /\ commands \in Nat /\ edits \in 0 .. MaxEdit /\ commands + edits <= MaxChange

\* What a command takes from a committed file, store and rules alike, kg trust has approved,
\* here or in another repository that asks for the same, whatever commands ran at once, died
\* or overwrote each other's registry, as long as the file still says what the command read.
OnlyConsented ==
  [][read # NoRead /\ read' = NoRead /\ kgairc[read.repo].set = read.set
       => Taken \in consent \cup {Blank}]_vars

Renamed == tmp # NoFile /\ tmp' = NoFile
By(name, f) == Renamed /\ tmp.name = name /\ tmp.fp = f

\* As long as the file of r asks for the same: an answer holds until it is revoked (it does
\* not ask again, stays in effect and is not announced again), and only kg trust approves.
Held(r) ==
  LET f == kgairc[r]
      asks == Fingerprint(f.set)
  IN  kgairc'[r] = f /\ Readable(f) =>
        /\ Trusted(f, registry') => Trusted(f, registry) \/ By("trust", asks)
        /\ By("revoke", asks)
           \/ /\ Pending(f, registry') => Pending(f, registry)
              /\ Trusted(f, registry) => Trusted(f, registry')
              /\ Inherited(f, registry', r) /\ Trusted(f, registry) => Inherited(f, registry, r)

\* The registry has changed since the command whose save takes effect decided on it. (Such
\* a save drops what the other one recorded: nothing locks the registry.)
Late == Renamed /\ tmp.seen # {registry}

\* No save undoes an answer about another configuration or from another repository, and none
\* but that of kg trust approves, unless it comes late, however commands interleave.
AnswerKept == [][Late \/ \A r \in Repo : Held(r)]_vars

Layered(r, project) == LoadLayers(Session[r], project, global, registry)

\* The two ways to find the store agree, the one that commands use before there is a store
\* and the one that kg config reports; and no committed file chooses where to sync.
ResolversAgree ==
  Readable(global) => \A r \in Repo : Readable(kgairc[r]) =>
    LET root == StoreRootFromLayers(kgairc[r], global, registry)
        shown == Effective(Layered(r, kgairc[r]), "store")
    IN  /\ root.source = shown.source
        /\ ~root.error => root.root = shown.val
        /\ EffectiveRemote(Layered(r, kgairc[r])) = EffectiveRemote(Layered(r, Missing))
===============================================================================
