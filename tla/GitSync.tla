-------------------------------- MODULE GitSync --------------------------------
(***************************************************************************)
(* Sync through a git remote: the whole store directory is committed,      *)
(* merged with the remote's branch and pushed (internal/remote/git.go), so *)
(* that the .gitignore a store shares with its team decides what travels   *)
(* (internal/store: the scaffold), and what a merge brought is projected   *)
(* by line counts (internal/engine: applyPulled).                          *)
(*                                                                         *)
(* Shards belong to one writer and only grow, so a shard is a length. A    *)
(* tree stands for the commit that has it: commits with one content are    *)
(* one. The cloud token stands for everything the scaffold keeps out of    *)
(* the repository; stores may have committed it, but nobody has pushed it  *)
(* to the remote yet.                                                      *)
(***************************************************************************)
EXTENDS Naturals, FiniteSets

CONSTANTS
  Clone,       \* the stores of a team
  Line,        \* harmless lines people add to a .gitignore
  NoTree,      \* no commit
  MaxEvent,    \* bound: events of all stores
  MaxEdit      \* bound: edits of .gitignore files

ASSUME GitAssumption ==
  /\ Line \cap {"rules", "unignore", "hide", "markers"} = {}
  /\ IsFiniteSet(Clone) /\ MaxEvent \in Nat /\ MaxEdit \in Nat

VARIABLES
  n,        \* n[c][w]: lines of the shard of w in the log directory of c
  ign,      \* the .gitignore of each store
  tree,     \* HEAD of each store
  base,     \* what HEAD and the remote's branch last had in common
  merging,  \* MERGE_HEAD: the commit of an unfinished merge
  origin,   \* the remote's branch
  pc,       \* where the sync of each store is
  before,   \* the shard counts at its begin
  shown,    \* the events projected into the graph of each store
  missed,   \* a sync of this store died, or ended in a conflict, after it merged (ghost)
  edits     \* how many edits there were

vars == <<n, ign, tree, base, merging, origin, pc, before, shown, missed, edits>>

\* A .gitignore is a set of lines. "rules" are the store's own, among them the line by which
\* a file is recognised as the store's; "unignore" is !kg.config.json and its like, "hide"
\* is log/ and its like, "markers" are what a conflict leaves.
Typed == Line \cup {"rules", "unignore", "hide"}
Breaking == {"unignore", "hide"}

Log == [Clone -> 0 .. MaxEvent]
NoLog == [w \in Clone |-> 0]
Tree == [log : Log, ign : SUBSET Typed, token : BOOLEAN]

ASSUME NoTreeAssumption == NoTree \notin Tree

Init ==
  /\ n = [c \in Clone |-> NoLog]
  /\ ign = [c \in Clone |-> {"rules"}]
  \* An older engine has committed the config.
  /\ tree = [c \in Clone |-> [log |-> NoLog, ign |-> {"rules"}, token |-> TRUE]]
  /\ base = [c \in Clone |-> NoTree]
  /\ merging = [c \in Clone |-> NoTree]
  /\ origin = NoTree
  /\ pc = [c \in Clone |-> "idle"]
  /\ before = [c \in Clone |-> NoLog]
  /\ shown = [c \in Clone |-> {}]
  /\ missed = [c \in Clone |-> FALSE]
  /\ edits = 0

Events(log) == {ev \in Clone \X (1 .. MaxEvent) : ev[2] <= log[ev[1]]}
Recorded == UNION {Events(n[c]) : c \in Clone}
Goto(c, phase) == pc' = [pc EXCEPT ![c] = phase]

\* Ingest, under the lock that a sync holds: append and project.
Record(c) ==
  /\ pc[c] = "idle"
  /\ Cardinality(Recorded) < MaxEvent
  /\ n' = [n EXCEPT ![c][c] = @ + 1]
  /\ shown' = [shown EXCEPT ![c] = @ \cup {<<c, n[c][c] + 1>>}]
  /\ UNCHANGED <<ign, tree, base, merging, origin, pc, before, missed, edits>>

Toggle(lines, line) == IF line \in lines THEN lines \ {line} ELSE lines \cup {line}

\* People add a line to the .gitignore or remove one, with "rules" the whole file of the
\* store. (Git refuses to merge over an edit that is not committed; the next sync commits it.)
Edit(c, line) ==
  /\ edits < MaxEdit
  /\ pc[c] = "idle"
  /\ ign' = [ign EXCEPT ![c] = Toggle(@, line)]
  /\ edits' = edits + 1
  /\ UNCHANGED <<n, tree, base, merging, origin, pc, before, shown, missed>>

------------------------------------------------------------------------------
(* The scaffold.                                                           *)

\* writeOwnFile: the store's own line tells whether it may write the file.
OwnFile(lines) == "rules" \in lines

\* Wrong on purpose: every line somebody added is kept.
MergeLinesKeepingAll(lines) == {"rules"} \cup (lines \ {"markers"})

\* Wrong on purpose: conflict markers are lines like others.
MergeLinesKeepingMarkers(lines) == {"rules"} \cup (lines \ Breaking)

\* mergeLines: the rules, and the lines people added, unless they break the rules.
MergeLines(lines) == {"rules"} \cup (lines \ (Breaking \cup {"markers"}))

\* Somebody follows the refusal: delete the file; the next sync writes it anew.
Restore(c) ==
  /\ pc[c] = "idle"
  /\ ~OwnFile(ign[c])
  /\ ign' = [ign EXCEPT ![c] = MergeLines({})]
  /\ UNCHANGED <<n, tree, base, merging, origin, pc, before, shown, missed, edits>>

------------------------------------------------------------------------------
(* commit, fetch, merge, push.                                             *)

\* git add -A: what the .gitignore keeps out is not added, what is tracked stays so.
Added(c, lines) ==
  [log |-> [w \in Clone |-> IF "hide" \in lines /\ w = c /\ tree[c].log[w] = 0
                              THEN 0 ELSE n[c][w]],
   ign |-> lines,
   token |-> tree[c].token \/ "rules" \notin lines \/ "unignore" \in lines]

\* Wrong on purpose: the .gitignore is trusted.
UntrackNothing(t) == t

\* git rm --cached of everything the scaffold excludes, whatever the .gitignore says.
Untrack(t) == [t EXCEPT !.token = FALSE]

\* ShardCounts, then commit with the .gitignore that is there. Nothing is committed when
\* nothing differs from HEAD, also when a merge is unfinished.
Commit(c, lines) ==
  LET t == Untrack(Added(c, lines))
  IN  /\ ign' = [ign EXCEPT ![c] = lines]
      /\ before' = [before EXCEPT ![c] = n[c]]
      /\ tree' = [tree EXCEPT ![c] = t]
      /\ IF t # tree[c] /\ merging[c] # NoTree
           THEN /\ base' = [base EXCEPT ![c] = merging[c]]
                /\ merging' = [merging EXCEPT ![c] = NoTree]
           ELSE UNCHANGED <<base, merging>>
      /\ Goto(c, "committed")
      /\ UNCHANGED <<n, origin, shown, missed>>

\* EnsureScaffold, which refuses the sync if the file is not the store's, and the commit.
Begin(c) ==
  /\ pc[c] = "idle"
  /\ OwnFile(ign[c])
  /\ Commit(c, MergeLines(ign[c]))
  /\ UNCHANGED edits

\* Somebody edits the file in the instant in between. (The environment: nobody hides the
\* log in that instant.)
BeginEdited(c, line) ==
  /\ pc[c] = "idle"
  /\ OwnFile(ign[c])
  /\ edits < MaxEdit /\ line # "hide"
  /\ Commit(c, Toggle(MergeLines(ign[c]), line))
  /\ edits' = edits + 1

Larger(a, b) == IF a < b THEN b ELSE a

\* Wrong on purpose: the remote's version of a shard wins.
MergeShardTheirs(mine, theirs) == theirs

\* Shards are merged by union: of two prefixes of one shard, the longer one.
MergeShard(mine, theirs) == Larger(mine, theirs)

MergedLog(mine, theirs) == [w \in Clone |-> MergeShard(mine[w], theirs[w])]

\* What HEAD and theirs make of the .gitignore: b is what they had in common. Two changes may
\* conflict; git tells by their place in the file, and merges them line by line otherwise.
\* Without anything in common, any difference is a conflict.
Changed(t, b) == IF b = NoTree THEN TRUE ELSE t.ign # b.ign
Conflict(b, mine, theirs) ==
  mine.ign # theirs.ign /\ Changed(mine, b) /\ Changed(theirs, b)
MergedIgnore(b, mine, theirs) ==
  {line \in mine.ign \cup theirs.ign :
     b # NoTree /\ line \in b.ign => line \in mine.ign \cap theirs.ign}

\* The sync returns an error, and nothing of it is projected.
Abort(c) ==
  /\ Goto(c, "idle")
  /\ before' = [before EXCEPT ![c] = NoLog]

\* The remote has a branch, and it is not part of HEAD.
Behind(c) == origin # NoTree /\ origin # base[c]

\* git merge refuses, because an earlier merge is not concluded.
MergeRefused(c) ==
  /\ pc[c] = "committed" /\ origin # NoTree
  /\ merging[c] # NoTree
  /\ Abort(c)
  /\ UNCHANGED <<n, ign, tree, base, merging, origin, shown, missed, edits>>

\* Both sides changed the .gitignore, at the same place: the shards are merged, the file gets markers, and
\* the merge waits for a commit.
MergeConflict(c) ==
  /\ pc[c] = "committed" /\ Behind(c)
  /\ merging[c] = NoTree
  /\ Conflict(base[c], tree[c], origin)
  /\ n' = [n EXCEPT ![c] = MergedLog(@, origin.log)]
  /\ ign' = [ign EXCEPT ![c] = tree[c].ign \cup origin.ign \cup {"markers"}]
  /\ merging' = [merging EXCEPT ![c] = origin]
  /\ missed' = [missed EXCEPT ![c] = @ \/ n'[c] # n[c]]
  /\ Abort(c)
  /\ UNCHANGED <<tree, base, origin, shown, edits>>

\* fetch and merge; changes of the .gitignore on both sides are at different places.
Merge(c) ==
  /\ pc[c] = "committed"
  /\ origin # NoTree => merging[c] = NoTree
  /\ IF Behind(c)
       THEN LET lines == MergedIgnore(base[c], tree[c], origin)
            IN  /\ Conflict(base[c], tree[c], origin) => base[c] # NoTree
                /\ tree' = [tree EXCEPT ![c].log = MergedLog(@, origin.log), ![c].ign = lines]
                /\ ign' = [ign EXCEPT ![c] = lines]
                /\ n' = [n EXCEPT ![c] = MergedLog(@, origin.log)]
                /\ base' = [base EXCEPT ![c] = origin]
       ELSE UNCHANGED <<n, ign, tree, base>>
  /\ Goto(c, "merged")
  /\ UNCHANGED <<merging, origin, before, shown, missed, edits>>

\* Wrong on purpose: the counts are compared from the second new line on.
PulledLate(c) == {ev \in Events(n[c]) : ev[2] > before[c][ev[1]] + 1}

\* evs[prev:] of every shard that got longer.
Pulled(c) == {ev \in Events(n[c]) : ev[2] > before[c][ev[1]]}

\* applyPulled: incrementally, or by a rebuild; the stamps decide (TeamGraph).
Apply(c) ==
  /\ shown' \in {[shown EXCEPT ![c] = @ \cup Pulled(c)],
                 [shown EXCEPT ![c] = IF Pulled(c) = {} THEN @ ELSE Events(n[c])]}
  /\ before' = [before EXCEPT ![c] = NoLog]
  /\ Goto(c, "idle")
  /\ UNCHANGED <<n, ign, missed, edits>>

\* Offline, or no remote at all: committed locally, no error.
Offline(c) ==
  /\ pc[c] = "committed"
  /\ Apply(c)
  /\ UNCHANGED <<tree, base, merging, origin>>

Push(c) ==
  /\ pc[c] = "merged"
  /\ ~Behind(c)
  /\ origin' = tree[c]
  /\ base' = [base EXCEPT ![c] = tree[c]]
  /\ Apply(c)
  /\ UNCHANGED <<tree, merging>>

\* Somebody else pushed since the fetch, or the network is gone: a detail, no error.
PushFails(c) ==
  /\ pc[c] = "merged"
  /\ Apply(c)
  /\ UNCHANGED <<tree, base, merging, origin>>

\* kg rebuild.
Rebuild(c) ==
  /\ pc[c] = "idle"
  /\ shown' = [shown EXCEPT ![c] = Events(n[c])]
  /\ missed' = [missed EXCEPT ![c] = FALSE]
  /\ UNCHANGED <<n, ign, tree, base, merging, origin, pc, before, edits>>

\* The kg process dies between the merge and the projection, before or after the push.
\* (Before the merge, dying is going offline.)
Die(c) ==
  /\ pc[c] = "merged"
  /\ missed' = [missed EXCEPT ![c] = @ \/ Pulled(c) # {}]
  /\ \/ UNCHANGED <<base, origin>>
     \/ ~Behind(c) /\ origin' = tree[c] /\ base' = [base EXCEPT ![c] = tree[c]]
  /\ Abort(c)
  /\ UNCHANGED <<n, ign, tree, merging, shown, edits>>

Step(c) ==
  \/ Begin(c)
  \/ MergeRefused(c) \/ MergeConflict(c) \/ Merge(c) \/ Push(c)

Next ==
  \E c \in Clone :
    \/ Record(c) \/ Restore(c) \/ Rebuild(c) \/ Die(c)
    \/ Step(c) \/ Offline(c) \/ PushFails(c)
    \/ \E line \in Typed : Edit(c, line) \/ BeginEdited(c, line)

Spec == Init /\ [][Next]_vars

\* Hooks start a sync at the end of every turn, its commands terminate, the network is
\* there again and again, and who is refused removes the foreign file.
Fairness ==
  \A c \in Clone :
    /\ WF_vars(Restore(c)) /\ WF_vars(Begin(c))
    /\ SF_vars(MergeRefused(c) \/ MergeConflict(c) \/ Merge(c))
    /\ WF_vars(Push(c) \/ PushFails(c)) /\ SF_vars(Push(c))

FairSpec == Spec /\ Fairness

------------------------------------------------------------------------------
(* Properties.                                                             *)

\* Nothing that is committed has conflict markers in it.
TypeOK ==
  /\ n \in [Clone -> Log]
  /\ ign \in [Clone -> SUBSET (Typed \cup {"markers"})]
  /\ tree \in [Clone -> Tree]
  /\ base \in [Clone -> Tree \cup {NoTree}]
  /\ merging \in [Clone -> Tree \cup {NoTree}]
  /\ origin \in Tree \cup {NoTree}
  /\ pc \in [Clone -> {"idle", "committed", "merged"}]
  /\ before \in [Clone -> Log]
  /\ shown \in [Clone -> SUBSET (Clone \X (1 .. MaxEvent))]
  /\ missed \in [Clone -> BOOLEAN]
  /\ edits \in 0 .. MaxEdit

\* No tree the team pulls has the config with the cloud token, whatever people write into
\* .gitignore, also in the middle of a sync, and whatever older engines committed.
TokenPrivate == origin # NoTree => ~origin.token

\* A sync that reports pushed:true has shared every decision of its store: no line of a
\* .gitignore keeps the shards at home ("sync then reported pushed:true while no decision
\* ever left the machine").
PushedMeansShared ==
  [][\A c \in Clone : pc[c] = "merged" /\ origin' # origin /\ origin' = tree[c] /\ pc'[c] = "idle"
       => Events(n[c]) \subseteq Events(origin'.log)]_vars

\* Between syncs the graph shows every event in the log directory, in whatever order records,
\* merges and pushes of others came (unless a sync ended between merge and projection).
ShownIsLog ==
  \A c \in Clone : pc[c] = "idle" /\ ~missed[c] => shown[c] = Events(n[c])

Shared == IF origin = NoTree THEN {} ELSE Events(origin.log)

\* The merge is unfinished and its resolution is HEAD, so that commit finds nothing to do and
\* git refuses the next merge, until the store records something.
Stuck(c) == merging[c] # NoTree /\ Untrack(Added(c, MergeLines(ign[c]))) = tree[c]

\* Refused pushes, conflicts in .gitignore, foreign files, dead syncs and edits only delay:
\* every store that is not stuck, and the remote, end up with every decision of those.
Converges ==
  <>[]( \A c \in Clone : Stuck(c) \/ \A d \in Clone : Stuck(d) \/
          (n[c][d] = n[d][d] /\ <<d, n[d][d]>> \in Shared \cup {<<d, 0>>}))

Abstract == INSTANCE UnionLog
  WITH Store <- Clone, Decision <- Clone \X (1 .. MaxEvent),
       known <- [c \in Clone |-> Events(n[c])], shared <- Shared, recorded <- Recorded

\* Git sync is a growing union of decisions: no merge, conflict or push makes a store or the
\* remote forget a decision.
ImplementsUnionLog == Abstract!Spec
===============================================================================
