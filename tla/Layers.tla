--------------------------------- MODULE Layers --------------------------------
(***************************************************************************)
(* The layered settings: session, project (a committed .kgairc) and global *)
(* (internal/store/settings.go, globalconfig.go), and the question whether *)
(* the committed file may decide anything (trust.go).                      *)
(*                                                                         *)
(* A registry maps what a file asks for, which stands for its fingerprint, *)
(* to a record. Repositories are numbered in the order of their paths.     *)
(***************************************************************************)
EXTENDS Naturals, SequencesExt

CONSTANTS
  Value,      \* values of settings
  Unset,      \* no value
  Unusable,   \* values of `store` that this machine must not or cannot use
  RemoteNone, \* the value of `remote` that turns syncing off
  Repo        \* repositories on this machine

ASSUME LayersAssumption ==
  /\ Unset \notin Value /\ Unusable \subseteq Value
  /\ Repo \subseteq Nat \ {0}

Key == {"remote", "prompt", "cloud_url", "store"}
Precedence == <<"session", "project", "global">>

KeyLayers ==
  [prompt |-> {"session", "project", "global"}, store |-> {"project", "global"},
   remote |-> {"session", "global"}, cloud_url |-> {"session"}]

Settings == [Key -> Value \cup {Unset}]
Blank == [k \in Key |-> Unset]
Only(s, keys) == [k \in Key |-> IF k \in keys THEN s[k] ELSE Unset]
AllowedIn(layer) == {k \in Key : layer \in KeyLayers[k]}

\* A layer file. A conflicted merge or an unfinished write makes it corrupt.
Whole(s) == [state |-> "whole", set |-> s]
Missing == [state |-> "missing", set |-> Blank]
Corrupt == [state |-> "corrupt", set |-> Blank]
File == {Missing, Corrupt} \cup {Whole(s) : s \in Settings}
Readable(f) == f.state # "corrupt"

------------------------------------------------------------------------------
(* Trust.                                                                  *)

\* Wrong on purpose: the keys that are ignored are part of the fingerprint.
FingerprintOfAll(s) == s

\* Wrong on purpose: only the rules are.
FingerprintOfRules(s) == Only(s, {"prompt"})

\* What a committed file asks for, of the keys it may set. Blank: no approval needed.
Fingerprint(s) == Only(s, AllowedIn("project"))

Record == [approved : BOOLEAN, paths : SUBSET Repo]
NoRecord == [approved |-> FALSE, paths |-> {}]
Lookup(reg, fp) == IF fp \in DOMAIN reg THEN reg[fp] ELSE NoRecord

Trusted(f, reg) == Fingerprint(f.set) = Blank \/ Lookup(reg, Fingerprint(f.set)).approved

\* Seen, and not approved: it decides nothing and does not prompt.
Dismissed(f, reg) == ~Trusted(f, reg) /\ Fingerprint(f.set) \in DOMAIN reg

Pending(f, reg) == ~Trusted(f, reg) /\ ~Dismissed(f, reg)

\* Approved in another repository and never used in this one.
Inherited(f, reg, r) ==
  LET fp == Fingerprint(f.set)
  IN  fp # Blank /\ Trusted(f, reg) /\ r \notin Lookup(reg, fp).paths

------------------------------------------------------------------------------
(* The resolvers.                                                          *)

\* What a committed file that parses decides.
LoadProjectLayer(s, trusted) == IF trusted THEN Only(s, AllowedIn("project")) ELSE Blank

\* A relative or ~ path is resolved; an unset variable, the home directory, the
\* repository and a directory with files of somebody else are refused.
ExpandStorePath(v, layer) ==
  [error |-> v \in Unusable, root |-> IF v \in Unusable THEN Unset ELSE v, source |-> layer]

Failed == [error |-> TRUE, root |-> Unset, source |-> "none"]
Default == [error |-> FALSE, root |-> Unset, source |-> "none"]

\* Where the store is. A file that does not parse is an error and never the default.
StoreRootFromLayers(project, global, reg) ==
  LET mine == LoadProjectLayer(project.set, Trusted(project, reg)).store
  IN  CASE ~Readable(project) -> Failed
        [] Readable(project) /\ mine # Unset -> ExpandStorePath(mine, "project")
        [] Readable(project) /\ mine = Unset /\ ~Readable(global) -> Failed
        [] OTHER -> IF global.set.store = Unset THEN Default
                    ELSE ExpandStorePath(global.set.store, "global")

\* Wrong on purpose: the session file may name a store.
LoadLayersWhole(session, project, global, reg) ==
  [session |-> session, global |-> global.set,
   project |-> LoadProjectLayer(project.set, Trusted(project, reg))]

\* The layers that are in effect; a `store` in the session file is blanked.
LoadLayers(session, project, global, reg) ==
  [session |-> [session EXCEPT !.store = Unset], global |-> global.set,
   project |-> LoadProjectLayer(project.set, Trusted(project, reg))]

\* The value of a key and the layer it comes from.
Effective(layers, key) ==
  LET setting == {k \in DOMAIN Precedence : layers[Precedence[k]][key] # Unset}
      winner == Precedence[Min(setting)]
  IN  IF setting = {} THEN [val |-> Unset, source |-> "none"]
      ELSE [val |-> layers[winner][key], source |-> winner]

\* The remote a store syncs with: "none" in the winning layer turns it off.
EffectiveRemote(layers) ==
  LET e == Effective(layers, "remote")
  IN  IF e.val = RemoteNone THEN [val |-> Unset, source |-> "disabled"] ELSE e

\* kg config set and unset refuse a key in a layer where it means nothing.
Settable(layer, key, val) ==
  /\ layer \in KeyLayers[key]
  /\ ~(layer = "global" /\ key = "remote" /\ val = RemoteNone)

WriteLayer(f, key, val) == Whole([f.set EXCEPT ![key] = val])
===============================================================================
