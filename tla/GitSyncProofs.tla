----------------------------- MODULE GitSyncProofs -----------------------------
(***************************************************************************)
(* Sync through a git remote, for any team, any .gitignore and any number  *)
(* of events and edits: what is pushed never has the token, a push shares  *)
(* every decision, a graph follows its log, and the whole is the union of  *)
(* decisions that UnionLog promises.                                       *)
(*                                                                         *)
(* The argument rests on one writer per shard (OneWriter): nobody has more *)
(* of a shard than its writer, so that of two copies the longer one has    *)
(* everything, and a merge is a union.                                     *)
(***************************************************************************)
EXTENDS GitSync, FiniteSetTheorems, TLAPS

------------------------------------------------------------------------------
(* Logs, and what a sync makes of the .gitignore.                          *)

\* a is a prefix of b, shard by shard.
Below(a, b) == \A w \in Clone : a[w] <= b[w]

\* A merged log has the lines of both sides and no others.
LEMMA MergeIsUnion ==
  ASSUME NEW a \in Log, NEW b \in Log
  PROVE  /\ MergedLog(a, b) \in Log
         /\ Below(a, MergedLog(a, b)) /\ Below(b, MergedLog(a, b))
         /\ Events(MergedLog(a, b)) = Events(a) \cup Events(b)
         /\ \A d \in Log : Below(a, d) /\ Below(b, d) => Below(MergedLog(a, b), d)
BY GitAssumption DEF MergedLog, MergeShard, Larger, Log, Below, Events

\* A longer log has more events.
LEMMA EventsGrow ==
  ASSUME NEW a \in Log, NEW b \in Log, Below(a, b)
  PROVE  Events(a) \subseteq Events(b)
BY GitAssumption DEF Log, Below, Events

\* The lines of the scaffold are the ones people may add and the store's own: no line hides
\* the log, or has markers.
LEMMA MergeLinesTyped ==
  ASSUME NEW lines \in SUBSET (Typed \cup {"markers"})
  PROVE  /\ MergeLines(lines) \in SUBSET Typed
         /\ "hide" \notin MergeLines(lines)
BY GitAssumption DEF MergeLines, Typed, Breaking

\* Editing one line leaves a file of lines, and does not hide the log unless that is the line.
LEMMA ToggleTyped ==
  ASSUME NEW S, NEW lines \in SUBSET S, NEW line \in S
  PROVE  /\ Toggle(lines, line) \in SUBSET S
         /\ \A x : x \notin lines /\ x # line => x \notin Toggle(lines, line)
BY DEF Toggle

\* What is committed: the shards as they are, and no token, whatever HEAD had.
LEMMA CommitTyped ==
  ASSUME TypeOK, NEW c \in Clone, NEW lines \in SUBSET Typed, "hide" \notin lines
  PROVE  /\ Untrack(Added(c, lines)) \in Tree
         /\ Untrack(Added(c, lines)).log = n[c]
         /\ Untrack(Added(c, lines)).token = FALSE
<1>1. n[c] \in Log /\ tree[c] \in Tree
  BY DEF TypeOK
<1>2. Added(c, lines).log = n[c]
  <2>1. Added(c, lines).log = [w \in Clone |-> n[c][w]]
    BY DEF Added
  <2> QED
    BY <1>1, <2>1 DEF Log
<1>3. Added(c, lines) = [log |-> n[c], ign |-> lines, token |-> Added(c, lines).token]
  BY <1>2 DEF Added
<1>4. Added(c, lines) \in Tree
  BY <1>1, <1>3 DEF Tree, Added, OwnFile
<1>5. ASSUME NEW t \in Tree
      PROVE  Untrack(t) \in Tree /\ Untrack(t).log = t.log /\ Untrack(t).token = FALSE
  BY DEF Untrack, Tree
<1> QED
  BY <1>2, <1>4, <1>5

------------------------------------------------------------------------------
(* Types.                                                                  *)

\* While there is room for another event, the own shard is not full.
LEMMA RoomToRecord ==
  ASSUME TypeOK, NEW c \in Clone, Cardinality(Recorded) < MaxEvent
  PROVE  n[c][c] + 1 \in 1 .. MaxEvent
<1>1. n[c][c] \in 0 .. MaxEvent
  BY DEF TypeOK, Log
<1>2. SUFFICES ASSUME n[c][c] = MaxEvent PROVE FALSE
  BY <1>1, GitAssumption
<1> DEFINE mine == {c} \X (1 .. MaxEvent)
           all == Clone \X (1 .. MaxEvent)
<1>3. IsFiniteSet(1 .. MaxEvent) /\ Cardinality(1 .. MaxEvent) = MaxEvent
  BY FS_Interval, GitAssumption
<1>4. IsFiniteSet({c}) /\ Cardinality({c}) = 1
  BY FS_Singleton
<1>5. Cardinality(mine) = MaxEvent
  <2>1. Cardinality(mine) = Cardinality({c}) * Cardinality(1 .. MaxEvent)
    BY <1>3, <1>4, FS_Product, Zenon
  <2> HIDE DEF mine
  <2> QED
    BY <1>3, <1>4, <2>1, GitAssumption
<1>6. IsFiniteSet(all)
  BY <1>3, FS_Product, GitAssumption
<1>7. mine \subseteq Recorded /\ Recorded \subseteq all
  BY <1>2, GitAssumption DEF Recorded, Events
<1>8. IsFiniteSet(Recorded)
  BY <1>6, <1>7, FS_Subset
<1>9. Cardinality(mine) <= Cardinality(Recorded)
  BY <1>7, <1>8, FS_Subset
<1>10. Cardinality(Recorded) \in Nat
  BY <1>8, FS_CardinalityType
<1> QED
  BY <1>5, <1>9, <1>10, GitAssumption

\* What is being added to the graph is events.
LEMMA EventsTyped == \A log : Events(log) \in SUBSET (Clone \X (1 .. MaxEvent))
BY DEF Events

LEMMA InitTyped == Init => TypeOK
BY GitAssumption DEF Init, TypeOK, NoLog, Log, Tree, Typed

\* Apply changes shown, before and pc only.
LEMMA ApplyTyped ==
  ASSUME TypeOK, NEW c \in Clone, Apply(c)
  PROVE  /\ shown' \in [Clone -> SUBSET (Clone \X (1 .. MaxEvent))]
         /\ before' \in [Clone -> Log]
         /\ pc' \in [Clone -> {"idle", "committed", "merged"}]
         /\ n' = n /\ ign' = ign /\ missed' = missed /\ edits' = edits
<1>1. Pulled(c) \in SUBSET (Clone \X (1 .. MaxEvent))
  BY EventsTyped DEF Pulled
<1>2. NoLog \in Log
  BY GitAssumption DEF NoLog, Log
<1> QED
  BY <1>1, <1>2, EventsTyped DEF TypeOK, Apply, Goto

LEMMA CommitKeepsTypes ==
  ASSUME TypeOK, NEW c \in Clone, NEW lines \in SUBSET Typed, "hide" \notin lines,
         Commit(c, lines), edits' \in 0 .. MaxEdit
  PROVE  TypeOK'
<1>1. Untrack(Added(c, lines)) \in Tree
  BY CommitTyped
<1> DEFINE t == Untrack(Added(c, lines))
<1>2. /\ ign' = [ign EXCEPT ![c] = lines]
      /\ before' = [before EXCEPT ![c] = n[c]]
      /\ tree' = [tree EXCEPT ![c] = t]
      /\ \/ UNCHANGED <<base, merging>>
         \/ /\ base' = [base EXCEPT ![c] = merging[c]]
            /\ merging' = [merging EXCEPT ![c] = NoTree]
      /\ pc' = [pc EXCEPT ![c] = "committed"]
      /\ UNCHANGED <<n, origin, shown, missed>>
  BY DEF Commit, Goto
<1>3. tree' \in [Clone -> Tree]
  BY <1>1, <1>2 DEF TypeOK
<1>4. base' \in [Clone -> Tree \cup {NoTree}] /\ merging' \in [Clone -> Tree \cup {NoTree}]
  BY <1>2 DEF TypeOK
<1>5. ign' \in [Clone -> SUBSET (Typed \cup {"markers"})]
  BY <1>2 DEF TypeOK
<1>6. /\ n' \in [Clone -> Log] /\ before' \in [Clone -> Log]
      /\ pc' \in [Clone -> {"idle", "committed", "merged"}]
  BY <1>2 DEF TypeOK
<1>7. /\ origin' \in Tree \cup {NoTree}
      /\ shown' \in [Clone -> SUBSET (Clone \X (1 .. MaxEvent))]
      /\ missed' \in [Clone -> BOOLEAN]
  BY <1>2 DEF TypeOK
<1> QED
  BY <1>3, <1>4, <1>5, <1>6, <1>7 DEF TypeOK

\* What a merge leaves in HEAD, in the directory and in what HEAD and the remote share.
LEMMA MergeTyped ==
  ASSUME TypeOK, NEW c \in Clone, Merge(c), Behind(c)
  PROVE  /\ tree' \in [Clone -> Tree] /\ base' = [base EXCEPT ![c] = origin]
         /\ tree'[c].log = MergedLog(tree[c].log, origin.log)
         /\ tree'[c].token = tree[c].token
         /\ \A d \in Clone : d # c => tree'[d] = tree[d]
         /\ ign' \in [Clone -> SUBSET (Typed \cup {"markers"})]
         /\ n' = [n EXCEPT ![c] = MergedLog(n[c], origin.log)]
         /\ n' \in [Clone -> Log]
<1> DEFINE lines == MergedIgnore(base[c], tree[c], origin)
           merged == MergedLog(tree[c].log, origin.log)
<1>1. /\ tree[c] \in Tree /\ origin \in Tree /\ n[c] \in Log
      /\ tree[c].log \in Log /\ origin.log \in Log
      /\ tree[c].ign \in SUBSET Typed /\ origin.ign \in SUBSET Typed
  BY DEF TypeOK, Behind, Tree
<1>2. lines \in SUBSET Typed
  BY <1>1 DEF MergedIgnore
<1>3. merged \in Log /\ MergedLog(n[c], origin.log) \in Log
  BY <1>1, MergeIsUnion
<1>4. /\ tree' = [tree EXCEPT ![c].log = merged, ![c].ign = lines]
      /\ ign' = [ign EXCEPT ![c] = lines]
      /\ n' = [n EXCEPT ![c] = MergedLog(n[c], origin.log)]
      /\ base' = [base EXCEPT ![c] = origin]
  BY DEF Merge, TypeOK
<1> HIDE DEF lines, merged
<1>5. tree' = [tree EXCEPT ![c] = [[tree[c] EXCEPT !.log = merged] EXCEPT !.ign = lines]]
  BY <1>4 DEF TypeOK
<1>6. ASSUME NEW t \in Tree, NEW l \in Log
      PROVE  LET u == [t EXCEPT !.log = l] IN u \in Tree /\ u.log = l /\ u.token = t.token
  BY DEF Tree
<1>7. ASSUME NEW t \in Tree, NEW i \in SUBSET Typed
      PROVE  LET u == [t EXCEPT !.ign = i] IN u \in Tree /\ u.log = t.log /\ u.token = t.token
  BY DEF Tree
<1> DEFINE t == [tree[c] EXCEPT !.log = merged]
           u == [t EXCEPT !.ign = lines]
<1>8. t \in Tree /\ t.log = merged /\ t.token = tree[c].token
  BY <1>1, <1>3, <1>6
<1> HIDE DEF t
<1>9. u \in Tree /\ u.log = merged /\ u.token = tree[c].token
  BY <1>2, <1>7, <1>8
<1>10. tree' = [tree EXCEPT ![c] = u]
  BY <1>5 DEF t
<1> HIDE DEF u
<1>11. tree' \in [Clone -> Tree] /\ tree'[c] = u /\ \A d \in Clone : d # c => tree'[d] = tree[d]
  BY <1>9, <1>10 DEF TypeOK
<1>12. n' \in [Clone -> Log] /\ ign' \in [Clone -> SUBSET (Typed \cup {"markers"})]
  BY <1>2, <1>3, <1>4 DEF TypeOK
<1> QED
  BY <1>4, <1>11, <1>9, <1>12 DEF merged

LEMMA StepTyped == ASSUME TypeOK, NEW c \in Clone PROVE
  /\ Record(c) \/ Restore(c) \/ Rebuild(c) \/ Die(c) => TypeOK'
  /\ Step(c) \/ Offline(c) \/ PushFails(c) => TypeOK'
  /\ \A line \in Typed : Edit(c, line) \/ BeginEdited(c, line) => TypeOK'
<1> USE GitAssumption
<1>1. ASSUME Record(c) PROVE TypeOK'
  <2>1. n[c][c] + 1 \in 1 .. MaxEvent
    BY <1>1, RoomToRecord DEF Record
  <2>2. n' = [n EXCEPT ![c] = [n[c] EXCEPT ![c] = n[c][c] + 1]]
    BY <1>1 DEF Record, TypeOK
  <2>3. n' \in [Clone -> Log]
    BY <2>1, <2>2 DEF TypeOK, Log
  <2>4. shown' \in [Clone -> SUBSET (Clone \X (1 .. MaxEvent))]
    BY <1>1, <2>1 DEF Record, TypeOK
  <2> QED
    BY <1>1, <2>3, <2>4 DEF Record, TypeOK
<1>2. ASSUME NEW line \in Typed, Edit(c, line) PROVE TypeOK'
  <2>1. Toggle(ign[c], line) \in SUBSET (Typed \cup {"markers"})
    BY DEF TypeOK, Toggle
  <2> QED
    BY <1>2, <2>1 DEF Edit, TypeOK
<1>3. ASSUME Restore(c) PROVE TypeOK'
  <2>1. MergeLines({}) \in SUBSET (Typed \cup {"markers"})
    BY MergeLinesTyped
  <2> QED
    BY <1>3, <2>1 DEF Restore, TypeOK
<1>4. ASSUME Begin(c) PROVE TypeOK'
  <2>1. ign[c] \in SUBSET (Typed \cup {"markers"}) /\ edits' \in 0 .. MaxEdit
    BY <1>4 DEF TypeOK, Begin
  <2> QED
    BY <1>4, <2>1, MergeLinesTyped, CommitKeepsTypes DEF Begin
<1>5. ASSUME NEW line \in Typed, BeginEdited(c, line) PROVE TypeOK'
  <2> DEFINE lines == Toggle(MergeLines(ign[c]), line)
  <2>1. ign[c] \in SUBSET (Typed \cup {"markers"}) /\ edits' \in 0 .. MaxEdit
    BY <1>5 DEF TypeOK, BeginEdited
  <2>2. lines \in SUBSET Typed /\ "hide" \notin lines
    BY <1>5, <2>1, MergeLinesTyped, ToggleTyped DEF BeginEdited
  <2>3. Commit(c, lines)
    BY <1>5 DEF BeginEdited
  <2> QED
    BY <2>1, <2>2, <2>3, CommitKeepsTypes
<1>6. ASSUME MergeRefused(c) PROVE TypeOK'
  BY <1>6 DEF MergeRefused, Abort, Goto, TypeOK, NoLog, Log
<1>7. ASSUME MergeConflict(c) PROVE TypeOK'
  <2>1. /\ origin \in Tree /\ origin.log \in Log /\ origin.ign \in SUBSET Typed
        /\ tree[c].ign \in SUBSET Typed /\ n[c] \in Log
    BY <1>7 DEF MergeConflict, Behind, TypeOK, Tree
  <2>2. MergedLog(n[c], origin.log) \in Log
    BY <2>1, MergeIsUnion
  <2>3. n' = [n EXCEPT ![c] = MergedLog(n[c], origin.log)]
    BY <1>7 DEF MergeConflict, TypeOK
  <2>4. n' \in [Clone -> Log]
    BY <2>2, <2>3 DEF TypeOK
  <2>5. ign' \in [Clone -> SUBSET (Typed \cup {"markers"})]
    BY <1>7, <2>1 DEF MergeConflict, TypeOK
  <2>6. missed' \in [Clone -> BOOLEAN]
    BY <1>7 DEF MergeConflict, TypeOK
  <2>7. /\ merging' \in [Clone -> Tree \cup {NoTree}] /\ before' \in [Clone -> Log]
        /\ pc' \in [Clone -> {"idle", "committed", "merged"}]
    BY <1>7, <2>1 DEF MergeConflict, Abort, Goto, TypeOK, NoLog, Log
  <2> QED
    BY <1>7, <2>4, <2>5, <2>6, <2>7 DEF MergeConflict, TypeOK
<1>8. ASSUME Merge(c) PROVE TypeOK'
  <2>1. CASE Behind(c)
    <3>1. base' \in [Clone -> Tree \cup {NoTree}]
      BY <1>8, <2>1, MergeTyped DEF TypeOK
    <3>2. pc' \in [Clone -> {"idle", "committed", "merged"}]
      BY <1>8 DEF Merge, Goto, TypeOK
    <3>3. /\ tree' \in [Clone -> Tree] /\ n' \in [Clone -> Log]
          /\ ign' \in [Clone -> SUBSET (Typed \cup {"markers"})]
      BY <1>8, <2>1, MergeTyped
    <3> QED
      BY <1>8, <3>1, <3>2, <3>3 DEF Merge, TypeOK
  <2>2. CASE ~Behind(c)
    BY <1>8, <2>2 DEF Merge, Goto, TypeOK
  <2> QED
    BY <2>1, <2>2
<1>9. ASSUME Offline(c) \/ PushFails(c) PROVE TypeOK'
  BY <1>9, ApplyTyped DEF Offline, PushFails, TypeOK
<1>10. ASSUME Push(c) PROVE TypeOK'
  <2>1. tree[c] \in Tree
    BY DEF TypeOK
  <2>2. Apply(c) /\ origin' = tree[c] /\ base' = [base EXCEPT ![c] = tree[c]]
        /\ UNCHANGED <<tree, merging>>
    BY <1>10 DEF Push
  <2> QED
    BY <2>1, <2>2, ApplyTyped DEF TypeOK
<1>11. ASSUME Rebuild(c) PROVE TypeOK'
  BY <1>11, EventsTyped DEF Rebuild, TypeOK
<1>12. ASSUME Die(c) PROVE TypeOK'
  <2>1. /\ pc' \in [Clone -> {"idle", "committed", "merged"}] /\ before' \in [Clone -> Log]
    BY <1>12 DEF Die, Abort, Goto, TypeOK, NoLog, Log
  <2>2. origin' \in Tree \cup {NoTree} /\ base' \in [Clone -> Tree \cup {NoTree}]
    BY <1>12 DEF Die, TypeOK
  <2>3. missed' \in [Clone -> BOOLEAN]
    BY <1>12 DEF Die, TypeOK
  <2> QED
    BY <1>12, <2>1, <2>2, <2>3 DEF Die, TypeOK
<1> QED
  BY <1>1, <1>2, <1>3, <1>4, <1>5, <1>6, <1>7, <1>8, <1>9, <1>10, <1>11, <1>12 DEF Step

\* Everything keeps its type: no conflict marker is ever committed, and no shard is longer
\* than what was recorded.
THEOREM GitTyped == Spec => []TypeOK
<1>1. TypeOK /\ [Next]_vars => TypeOK'
  <2>1. ASSUME TypeOK, Next PROVE TypeOK'
    BY <2>1, StepTyped DEF Next
  <2>2. ASSUME TypeOK, UNCHANGED vars PROVE TypeOK'
    BY <2>2 DEF TypeOK, vars
  <2> QED
    BY <2>1, <2>2
<1> QED
  BY InitTyped, <1>1, PTL DEF Spec

------------------------------------------------------------------------------
(* One writer per shard.                                                   *)

\* Nobody has more of a shard than the store that writes it, and what a store last had in
\* common with the remote, or is still merging, is in its log directory.
OneWriter ==
  /\ \A c, w \in Clone : n[c][w] <= n[w][w]
  /\ origin # NoTree => \A w \in Clone : origin.log[w] <= n[w][w]
  /\ \A c \in Clone : base[c] # NoTree => Below(base[c].log, n[c])
  /\ \A c \in Clone : merging[c] # NoTree => Below(merging[c].log, n[c])

\* During a sync, HEAD has the log directory and no token, and until the merge nothing
\* has been added to the log.
Committed ==
  \A c \in Clone : pc[c] # "idle" =>
    /\ tree[c].log = n[c] /\ ~tree[c].token
    /\ Below(before[c], n[c])
    /\ pc[c] = "committed" => before[c] = n[c]

\* What the graph of a store shows: the log, or, during a sync, the log at its begin.
Projected ==
  \A c \in Clone : ~missed[c] => shown[c] = Events(IF pc[c] = "idle" THEN n[c] ELSE before[c])

GitInv == TypeOK /\ OneWriter /\ Committed /\ Projected /\ TokenPrivate

LEMMA GitInvInit == Init => GitInv
<1> SUFFICES ASSUME Init PROVE GitInv
  OBVIOUS
<1>1. TypeOK
  BY InitTyped
<1>2. OneWriter
  BY DEF Init, OneWriter, NoLog
<1>3. Committed /\ TokenPrivate
  BY DEF Init, Committed, TokenPrivate
<1>4. Projected
  BY GitAssumption DEF Init, Projected, Events, NoLog
<1> QED
  BY <1>1, <1>2, <1>3, <1>4 DEF GitInv

\* A commit takes the log as it is; of the merge it concludes, it has everything.
LEMMA CommitSafe ==
  ASSUME GitInv, NEW c \in Clone, NEW lines \in SUBSET Typed, "hide" \notin lines,
         pc[c] = "idle", Commit(c, lines), TypeOK'
  PROVE  GitInv'
<1>1. /\ before' = [before EXCEPT ![c] = n[c]]
      /\ tree' = [tree EXCEPT ![c] = Untrack(Added(c, lines))]
      /\ \/ UNCHANGED <<base, merging>>
         \/ /\ base' = [base EXCEPT ![c] = merging[c]]
            /\ merging' = [merging EXCEPT ![c] = NoTree]
      /\ pc' = [pc EXCEPT ![c] = "committed"]
      /\ UNCHANGED <<n, origin, shown, missed>>
  BY DEF Commit, Goto
<1>2. Untrack(Added(c, lines)).log = n[c] /\ Untrack(Added(c, lines)).token = FALSE
  BY CommitTyped DEF GitInv
<1>3. OneWriter'
  <2>1. /\ OneWriter /\ n' = n /\ origin' = origin
        /\ \A d \in Clone :
             \/ base'[d] = base[d] /\ merging'[d] = merging[d]
             \/ base'[d] = merging[d] /\ merging'[d] = NoTree
    <3>1. OneWriter /\ n' = n /\ origin' = origin
      BY <1>1 DEF GitInv
    <3>2. CASE UNCHANGED <<base, merging>>
      BY <3>1, <3>2
    <3>3. CASE /\ base' = [base EXCEPT ![c] = merging[c]]
               /\ merging' = [merging EXCEPT ![c] = NoTree]
      <4>1. DOMAIN base = Clone /\ DOMAIN merging = Clone
        BY DEF GitInv, TypeOK
      <4> QED BY <3>1, <3>3, <4>1
    <3> QED BY <1>1, <3>2, <3>3
  <2> QED BY <2>1 DEF OneWriter
<1>4. Below(n[c], n[c])
  BY GitAssumption DEF GitInv, TypeOK, Log, Below
<1>5. Committed'
  <2> SUFFICES ASSUME NEW d \in Clone, pc'[d] # "idle"
               PROVE  /\ tree'[d].log = n'[d] /\ ~tree'[d].token
                      /\ Below(before'[d], n'[d])
                      /\ pc'[d] = "committed" => before'[d] = n'[d]
    BY DEF Committed
  <2>1. CASE d = c
    BY <1>1, <1>2, <1>4, <2>1 DEF GitInv, TypeOK
  <2>2. CASE d # c
    BY <1>1, <2>2 DEF GitInv, TypeOK, Committed
  <2> QED
    BY <2>1, <2>2
<1>6. Projected'
  BY <1>1 DEF Projected, GitInv, TypeOK
<1>7. TokenPrivate'
  BY <1>1 DEF TokenPrivate, GitInv
<1> QED
  BY <1>3, <1>5, <1>6, <1>7 DEF GitInv

\* What is applied is what the log got since the counts were taken.
LEMMA ApplyShowsLog ==
  ASSUME GitInv, NEW c \in Clone, pc[c] # "idle", Apply(c), UNCHANGED tree
  PROVE  /\ UNCHANGED <<n, ign, missed, edits>>
         /\ pc' = [pc EXCEPT ![c] = "idle"]
         /\ Committed' /\ Projected'
<1>1. /\ UNCHANGED <<n, ign, missed, edits>>
      /\ pc' = [pc EXCEPT ![c] = "idle"]
      /\ \A d \in Clone : d # c => before'[d] = before[d] /\ shown'[d] = shown[d]
      /\ shown'[c] \in {shown[c] \cup Pulled(c), IF Pulled(c) = {} THEN shown[c] ELSE Events(n[c])}
  BY DEF Apply, Goto, GitInv, TypeOK
<1>2. Committed'
  BY <1>1 DEF GitInv, TypeOK, Committed
<1>3. ASSUME ~missed[c] PROVE shown'[c] = Events(n[c])
  <2>1. shown[c] = Events(before[c])
    BY <1>3 DEF GitInv, Projected
  <2>2. n[c] \in Log /\ before[c] \in Log /\ Below(before[c], n[c])
    BY DEF GitInv, TypeOK, Committed
  <2>3. Events(before[c]) \cup Pulled(c) = Events(n[c])
    BY <2>2, GitAssumption DEF Events, Pulled, Below, Log
  <2> QED
    BY <1>1, <2>1, <2>3
<1>4. Projected'
  <2> SUFFICES ASSUME NEW d \in Clone, ~missed'[d]
               PROVE shown'[d] = Events(IF pc'[d] = "idle" THEN n'[d] ELSE before'[d])
    BY DEF Projected
  <2>1. CASE d = c
    BY <1>1, <1>3, <2>1 DEF GitInv, TypeOK
  <2>2. CASE d # c
    BY <1>1, <2>2 DEF GitInv, TypeOK, Projected
  <2> QED
    BY <2>1, <2>2
<1> QED
  BY <1>1, <1>2, <1>4

\* What the remote gets by a push is in the shards of those who wrote it, and has no token.
LEMMA PushSafe ==
  ASSUME GitInv, NEW c \in Clone, pc[c] = "merged", ~Behind(c), n' = n, merging' = merging,
         origin' = tree[c], base' = [base EXCEPT ![c] = tree[c]]
  PROVE  /\ OneWriter' /\ TokenPrivate'
         /\ origin # NoTree => Below(origin.log, origin'.log)
<1>1. tree[c].log = n[c] /\ ~tree[c].token
  BY DEF GitInv, Committed
<1>2. Below(n[c], n[c])
  BY GitAssumption DEF GitInv, TypeOK, Log, Below
<1>3. OneWriter'
  BY <1>1, <1>2 DEF GitInv, OneWriter, TypeOK
<1>4. TokenPrivate'
  BY <1>1 DEF TokenPrivate
<1>5. origin # NoTree => Below(origin.log, origin'.log)
  BY <1>1 DEF Behind, GitInv, OneWriter
<1> QED
  BY <1>3, <1>4, <1>5

\* A merge adds to a log what the remote has, which its writers have too.
LEMMA MergedSafe ==
  ASSUME GitInv, NEW c \in Clone, origin # NoTree,
         n' = [n EXCEPT ![c] = MergedLog(n[c], origin.log)], origin' = origin,
         \/ base' = base /\ merging' = [merging EXCEPT ![c] = origin]
         \/ base' = [base EXCEPT ![c] = origin] /\ merging' = merging
  PROVE  /\ OneWriter'
         /\ Below(n[c], n'[c]) /\ n'[c] \in Log
         /\ \A d \in Clone : d # c => n'[d] = n[d]
<1>1. n[c] \in Log /\ origin.log \in Log /\ n \in [Clone -> Log]
  BY DEF GitInv, TypeOK, Tree
<1> DEFINE m == MergedLog(n[c], origin.log)
<1>2. m \in Log /\ Below(n[c], m) /\ Below(origin.log, m)
  BY <1>1, MergeIsUnion
<1>3. \A w \in Clone : m[w] <= n[w][w]
  BY <1>1 DEF MergedLog, MergeShard, Larger, GitInv, OneWriter
<1> HIDE DEF m
<1>4. n'[c] = m /\ \A d \in Clone : d # c => n'[d] = n[d]
  BY <1>1 DEF m
<1>5. \A w \in Clone : n'[w][w] = n[w][w]
  <2>1. m[c] \in 0 .. MaxEvent /\ n[c][c] \in 0 .. MaxEvent
    BY <1>1, <1>2 DEF Log
  <2>2. m[c] = n[c][c]
    BY <1>2, <1>3, <2>1, GitAssumption DEF Below
  <2> QED
    BY <1>4, <2>2
<1>6. \A d, w \in Clone : n'[d][w] <= n'[w][w]
  BY <1>3, <1>4, <1>5 DEF GitInv, OneWriter
<1>7. ASSUME NEW d \in Clone, NEW l \in Log, Below(l, n[d]) PROVE Below(l, n'[d])
  BY <1>1, <1>2, <1>4, <1>7, GitAssumption DEF Below, Log
<1>8. \A d \in Clone : base'[d] # NoTree => Below(base'[d].log, n'[d])
  <2> SUFFICES ASSUME NEW d \in Clone, base'[d] # NoTree PROVE Below(base'[d].log, n'[d])
    OBVIOUS
  <2>1. CASE base'[d] = base[d]
    BY <1>7, <2>1 DEF GitInv, OneWriter, TypeOK, Tree
  <2>2. CASE d = c /\ base'[d] = origin
    BY <1>2, <1>4, <2>2
  <2> QED
    BY <2>1, <2>2 DEF GitInv, TypeOK
<1>9. \A d \in Clone : merging'[d] # NoTree => Below(merging'[d].log, n'[d])
  <2> SUFFICES ASSUME NEW d \in Clone, merging'[d] # NoTree PROVE Below(merging'[d].log, n'[d])
    OBVIOUS
  <2>1. CASE merging'[d] = merging[d]
    BY <1>7, <2>1 DEF GitInv, OneWriter, TypeOK, Tree
  <2>2. CASE d = c /\ merging'[d] = origin
    BY <1>2, <1>4, <2>2
  <2> QED
    BY <2>1, <2>2 DEF GitInv, TypeOK
<1>10. \A w \in Clone : origin'.log[w] <= n'[w][w]
  BY <1>5 DEF GitInv, OneWriter
<1> QED
  BY <1>2, <1>4, <1>6, <1>8, <1>9, <1>10 DEF OneWriter

LEMMA StepSafe == ASSUME GitInv, NEW c \in Clone, TypeOK' PROVE
  /\ Record(c) \/ Restore(c) \/ Rebuild(c) \/ Die(c) => GitInv'
  /\ Step(c) \/ Offline(c) \/ PushFails(c) => GitInv'
  /\ \A line \in Typed : Edit(c, line) \/ BeginEdited(c, line) => GitInv'
<1>1. ASSUME Record(c) PROVE GitInv'
  <2>1. n[c][c] + 1 \in 1 .. MaxEvent
    BY <1>1, RoomToRecord DEF Record, GitInv
  <2>2. /\ n'[c] = [n[c] EXCEPT ![c] = n[c][c] + 1]
        /\ \A d \in Clone : d # c => n'[d] = n[d]
        /\ n \in [Clone -> Log] /\ n[c] \in Log
    BY <1>1 DEF Record, GitInv, TypeOK
  <2>3. /\ n'[c][c] = n[c][c] + 1
        /\ \A d, w \in Clone : d # c \/ w # c => n'[d][w] = n[d][w]
        /\ \A d, w \in Clone : n[d][w] \in Nat
    <3>1. n[c][c] \in Nat
      BY <2>2, GitAssumption DEF Log
    <3>2. \A w \in Clone : w # c => n'[c][w] = n[c][w]
      BY <2>2 DEF Log
    <3>3. \A d, w \in Clone : n[d][w] \in 0 .. MaxEvent
      BY <2>2 DEF Log
    <3>4. n'[c][c] = n[c][c] + 1
      BY <2>2 DEF Log
    <3>5. \A d, w \in Clone : n[d][w] \in Nat
      BY <3>3, GitAssumption
    <3>6. \A d, w \in Clone : d # c \/ w # c => n'[d][w] = n[d][w]
      BY <2>2, <3>2
    <3> QED
      BY <3>4, <3>5, <3>6
  <2>4. \A d \in Clone : Below(n[d], n'[d])
    BY <2>3 DEF Below
  <2>5. ASSUME NEW d \in Clone, NEW l \in Log, Below(l, n[d]) PROVE Below(l, n'[d])
    BY <2>3, <2>4, <2>5, GitAssumption DEF Below, Log
  <2>6. OneWriter'
    <3>1. \A d, w \in Clone : n'[d][w] <= n'[w][w]
      BY <2>3 DEF GitInv, OneWriter
    <3>2. ASSUME origin # NoTree PROVE \A w \in Clone : origin.log[w] <= n'[w][w]
      <4>1. origin.log \in Log
        BY <3>2 DEF GitInv, TypeOK, Tree
      <4>2. \A w \in Clone : origin.log[w] \in Nat /\ origin.log[w] <= n[w][w]
        BY <3>2, <4>1, GitAssumption DEF GitInv, OneWriter, Log
      <4> QED
        BY <2>3, <4>2
    <3>3. \A d \in Clone : base[d] # NoTree => Below(base[d].log, n'[d])
      BY <2>5 DEF GitInv, OneWriter, TypeOK, Tree
    <3>4. \A d \in Clone : merging[d] # NoTree => Below(merging[d].log, n'[d])
      BY <2>5 DEF GitInv, OneWriter, TypeOK, Tree
    <3> QED
      BY <1>1, <3>1, <3>2, <3>3, <3>4 DEF Record, OneWriter
  <2>7. Committed'
    BY <1>1, <2>2 DEF Record, GitInv, Committed
  <2>8. Projected'
    <3>1. Events(n'[c]) = Events(n[c]) \cup {<<c, n[c][c] + 1>>}
      BY <2>1, <2>3, GitAssumption DEF Events
    <3>2. /\ shown'[c] = shown[c] \cup {<<c, n[c][c] + 1>>}
          /\ \A d \in Clone : d # c => shown'[d] = shown[d]
          /\ pc[c] = "idle" /\ UNCHANGED <<pc, before, missed>>
      BY <1>1 DEF Record, GitInv, TypeOK
    <3> SUFFICES ASSUME NEW d \in Clone, ~missed[d]
                 PROVE shown'[d] = Events(IF pc[d] = "idle" THEN n'[d] ELSE before[d])
      BY <3>2 DEF Projected
    <3> QED
      BY <2>2, <3>1, <3>2 DEF GitInv, Projected
  <2>9. TokenPrivate'
    BY <1>1 DEF Record, GitInv, TokenPrivate
  <2> QED
    BY <2>6, <2>7, <2>8, <2>9 DEF GitInv
<1>2. ASSUME NEW line \in Typed, Edit(c, line) PROVE GitInv'
  BY <1>2 DEF Edit, GitInv, OneWriter, Committed, Projected, TokenPrivate
<1>3. ASSUME Restore(c) PROVE GitInv'
  BY <1>3 DEF Restore, GitInv, OneWriter, Committed, Projected, TokenPrivate
<1>4. ASSUME Begin(c) PROVE GitInv'
  <2>1. ign[c] \in SUBSET (Typed \cup {"markers"})
    BY DEF GitInv, TypeOK
  <2> QED
    BY <1>4, <2>1, MergeLinesTyped, CommitSafe DEF Begin
<1>5. ASSUME NEW line \in Typed, BeginEdited(c, line) PROVE GitInv'
  <2> DEFINE lines == Toggle(MergeLines(ign[c]), line)
  <2>1. ign[c] \in SUBSET (Typed \cup {"markers"})
    BY DEF GitInv, TypeOK
  <2>2. lines \in SUBSET Typed /\ "hide" \notin lines
    BY <1>5, <2>1, MergeLinesTyped, ToggleTyped DEF BeginEdited
  <2>3. pc[c] = "idle" /\ Commit(c, lines)
    BY <1>5 DEF BeginEdited
  <2> QED
    BY <2>2, <2>3, CommitSafe
<1>6. ASSUME MergeRefused(c) PROVE GitInv'
  <2>1. /\ UNCHANGED <<n, tree, base, merging, origin, shown, missed>>
        /\ pc'[c] = "idle" /\ pc[c] = "committed"
        /\ \A d \in Clone : d # c => pc'[d] = pc[d] /\ before'[d] = before[d]
    BY <1>6 DEF MergeRefused, Abort, Goto, GitInv, TypeOK
  <2>2. OneWriter' /\ TokenPrivate' /\ Committed'
    BY <2>1 DEF GitInv, OneWriter, TokenPrivate, Committed
  <2>3. Projected'
    BY <2>1 DEF GitInv, Committed, Projected
  <2> QED
    BY <2>2, <2>3 DEF GitInv
<1>7. ASSUME MergeConflict(c) PROVE GitInv'
  <2>1. /\ origin # NoTree /\ n' = [n EXCEPT ![c] = MergedLog(n[c], origin.log)]
        /\ merging' = [merging EXCEPT ![c] = origin]
        /\ UNCHANGED <<tree, base, origin, shown>>
        /\ pc' = [pc EXCEPT ![c] = "idle"] /\ pc[c] = "committed"
        /\ missed'[c] = (missed[c] \/ n'[c] # n[c])
        /\ \A d \in Clone : d # c => before'[d] = before[d] /\ missed'[d] = missed[d]
    BY <1>7 DEF MergeConflict, Behind, Abort, Goto, GitInv, TypeOK
  <2>2. OneWriter' /\ \A d \in Clone : d # c => n'[d] = n[d]
    BY <2>1, MergedSafe
  <2>3. Committed'
    BY <2>1, <2>2 DEF GitInv, Committed, TypeOK
  <2>4. Projected'
    <3> SUFFICES ASSUME NEW d \in Clone, ~missed'[d]
                 PROVE shown'[d] = Events(IF pc'[d] = "idle" THEN n'[d] ELSE before'[d])
      BY DEF Projected
    <3>1. CASE d = c
      <4>1. ~missed[c] /\ n'[c] = n[c] /\ before[c] = n[c]
        BY <2>1, <3>1 DEF GitInv, TypeOK, Committed
      <4> QED
        BY <2>1, <3>1, <4>1 DEF GitInv, TypeOK, Projected
    <3>2. CASE d # c
      BY <2>1, <2>2, <3>2 DEF GitInv, TypeOK, Projected
    <3> QED
      BY <3>1, <3>2
  <2>5. TokenPrivate'
    BY <2>1 DEF GitInv, TokenPrivate
  <2> QED
    BY <2>2, <2>3, <2>4, <2>5 DEF GitInv
<1>8. ASSUME Merge(c) PROVE GitInv'
  <2>1. /\ UNCHANGED <<merging, origin, before, shown, missed>>
        /\ pc' = [pc EXCEPT ![c] = "merged"] /\ pc[c] = "committed"
    BY <1>8 DEF Merge, Goto
  <2>2. Projected'
    <3>1. \A d \in Clone : d # c => n'[d] = n[d]
      BY <1>8 DEF Merge, GitInv, TypeOK
    <3> QED
      BY <2>1, <3>1 DEF GitInv, Projected, TypeOK
  <2>3. TokenPrivate'
    BY <2>1 DEF GitInv, TokenPrivate
  <2>4. CASE Behind(c)
    <3>1. /\ n' = [n EXCEPT ![c] = MergedLog(n[c], origin.log)]
          /\ base' = [base EXCEPT ![c] = origin]
          /\ tree'[c].log = MergedLog(tree[c].log, origin.log)
          /\ tree'[c].token = tree[c].token
          /\ \A d \in Clone : d # c => tree'[d] = tree[d]
      BY <1>8, <2>4, MergeTyped DEF GitInv
    <3>2. /\ OneWriter' /\ Below(n[c], n'[c])
          /\ \A d \in Clone : d # c => n'[d] = n[d]
      BY <2>1, <2>4, <3>1, MergedSafe DEF Behind
    <3>3. /\ tree[c].log = n[c] /\ before[c] = n[c] /\ ~tree[c].token
          /\ n'[c] = MergedLog(n[c], origin.log)
      BY <2>1, <3>1 DEF GitInv, Committed, TypeOK
    <3>4. Committed'
      <4> SUFFICES ASSUME NEW d \in Clone, pc'[d] # "idle"
                   PROVE  /\ tree'[d].log = n'[d] /\ ~tree'[d].token
                          /\ Below(before'[d], n'[d])
                          /\ pc'[d] = "committed" => before'[d] = n'[d]
        BY DEF Committed
      <4>1. CASE d = c
        BY <2>1, <3>1, <3>2, <3>3, <4>1 DEF GitInv, TypeOK
      <4>2. CASE d # c
        BY <2>1, <3>1, <3>2, <4>2 DEF GitInv, TypeOK, Committed
      <4> QED
        BY <4>1, <4>2
    <3> QED
      BY <2>2, <2>3, <3>2, <3>4 DEF GitInv
  <2>5. CASE ~Behind(c)
    <3>1. UNCHANGED <<n, tree, base>>
      BY <1>8, <2>5 DEF Merge
    <3>2. OneWriter' /\ Committed'
      BY <2>1, <3>1 DEF GitInv, OneWriter, Committed, TypeOK
    <3> QED
      BY <2>2, <2>3, <3>2 DEF GitInv
  <2> QED
    BY <2>4, <2>5
<1>9. ASSUME Offline(c) \/ PushFails(c) PROVE GitInv'
  <2>1. Apply(c) /\ UNCHANGED <<tree, base, merging, origin>> /\ pc[c] # "idle"
    BY <1>9 DEF Offline, PushFails
  <2>2. n' = n /\ Committed' /\ Projected'
    BY <2>1, ApplyShowsLog
  <2>3. OneWriter' /\ TokenPrivate'
    BY <2>1, <2>2 DEF GitInv, OneWriter, TokenPrivate
  <2> QED
    BY <2>2, <2>3 DEF GitInv
<1>10. ASSUME Push(c) PROVE GitInv'
  <2>1. /\ Apply(c) /\ UNCHANGED <<tree, merging>> /\ pc[c] = "merged" /\ ~Behind(c)
        /\ origin' = tree[c] /\ base' = [base EXCEPT ![c] = tree[c]]
    BY <1>10 DEF Push
  <2>2. n' = n /\ Committed' /\ Projected'
    BY <2>1, ApplyShowsLog
  <2>3. OneWriter' /\ TokenPrivate'
    BY <2>1, <2>2, PushSafe
  <2> QED
    BY <2>2, <2>3 DEF GitInv
<1>11. ASSUME Rebuild(c) PROVE GitInv'
  <2>1. /\ UNCHANGED <<n, tree, base, merging, origin, pc, before>> /\ pc[c] = "idle"
        /\ shown'[c] = Events(n[c])
        /\ \A d \in Clone : d # c => shown'[d] = shown[d] /\ missed'[d] = missed[d]
    BY <1>11 DEF Rebuild, GitInv, TypeOK
  <2>2. OneWriter' /\ Committed' /\ TokenPrivate'
    BY <2>1 DEF GitInv, OneWriter, Committed, TokenPrivate
  <2>3. Projected'
    BY <2>1 DEF GitInv, Projected
  <2> QED
    BY <2>2, <2>3 DEF GitInv
<1>12. ASSUME Die(c) PROVE GitInv'
  <2>1. /\ UNCHANGED <<n, tree, merging, shown>> /\ pc[c] = "merged"
        /\ pc' = [pc EXCEPT ![c] = "idle"]
        /\ missed'[c] = (missed[c] \/ Pulled(c) # {})
        /\ \A d \in Clone : d # c => before'[d] = before[d] /\ missed'[d] = missed[d]
    BY <1>12 DEF Die, Abort, Goto, GitInv, TypeOK
  <2>2. OneWriter' /\ TokenPrivate'
    <3>1. CASE UNCHANGED <<base, origin>>
      BY <2>1, <3>1 DEF GitInv, OneWriter, TokenPrivate
    <3>2. CASE ~Behind(c) /\ origin' = tree[c] /\ base' = [base EXCEPT ![c] = tree[c]]
      BY <2>1, <3>2, PushSafe
    <3> QED
      BY <1>12, <3>1, <3>2 DEF Die
  <2>3. Committed'
    BY <2>1 DEF GitInv, Committed, TypeOK
  <2>4. ASSUME Pulled(c) = {} PROVE Events(before[c]) = Events(n[c])
    <3>1. n[c] \in Log /\ before[c] \in Log /\ Below(before[c], n[c])
      BY <2>1 DEF GitInv, TypeOK, Committed
    <3> QED
      BY <2>4, <3>1, GitAssumption DEF Events, Pulled, Below, Log
  <2>5. Projected'
    <3> SUFFICES ASSUME NEW d \in Clone, ~missed'[d]
                 PROVE shown'[d] = Events(IF pc'[d] = "idle" THEN n'[d] ELSE before'[d])
      BY DEF Projected
    <3>1. CASE d = c
      BY <2>1, <2>4, <3>1 DEF GitInv, TypeOK, Projected
    <3>2. CASE d # c
      BY <2>1, <3>2 DEF GitInv, TypeOK, Projected
    <3> QED
      BY <3>1, <3>2
  <2> QED
    BY <2>2, <2>3, <2>5 DEF GitInv
<1> QED
  BY <1>1, <1>2, <1>3, <1>4, <1>5, <1>6, <1>7, <1>8, <1>9, <1>10, <1>11, <1>12 DEF Step

LEMMA GitInvNext == GitInv /\ [Next]_vars => GitInv'
<1>1. ASSUME GitInv, Next PROVE GitInv'
  <2>1. TypeOK'
    BY <1>1, StepTyped DEF Next, GitInv
  <2> QED
    BY <1>1, <2>1, StepSafe DEF Next
<1>2. ASSUME GitInv, UNCHANGED vars PROVE GitInv'
  BY <1>2 DEF GitInv, TypeOK, OneWriter, Committed, Projected, TokenPrivate, vars
<1> QED
  BY <1>1, <1>2

THEOREM GitSafe == Spec => []GitInv
BY GitInvInit, GitInvNext, PTL DEF Spec

\* Whatever people write into .gitignore, and whenever: no tree on the remote has the token.
THEOREM TokenNeverShared == Spec => []TokenPrivate
<1>1. GitInv => TokenPrivate
  BY DEF GitInv
<1> QED
  BY <1>1, GitSafe, PTL

\* Between syncs a graph shows exactly its log, unless a sync ended after it merged.
THEOREM GraphFollowsLog == Spec => []ShownIsLog
<1>1. GitInv => ShownIsLog
  BY DEF GitInv, Projected, ShownIsLog
<1> QED
  BY <1>1, GitSafe, PTL

\* A push that succeeds shares every decision of the store.
THEOREM PushSharesAll == Spec => PushedMeansShared
<1>1. ASSUME GitInv, NEW c \in Clone, pc[c] = "merged", origin' = tree[c]
      PROVE  Events(n[c]) \subseteq Events(origin'.log)
  BY <1>1 DEF GitInv, Committed
<1>2. GitInv /\ [Next]_vars =>
        [\A c \in Clone : pc[c] = "merged" /\ origin' # origin /\ origin' = tree[c] /\ pc'[c] = "idle"
           => Events(n[c]) \subseteq Events(origin'.log)]_vars
  BY <1>1
<1> QED
  BY <1>2, GitSafe, PTL DEF Spec, PushedMeansShared

------------------------------------------------------------------------------
(* The refinement.                                                         *)

\* What the stores know, as UnionLog sees it.
Known == [c \in Clone |-> Events(n[c])]

\* The remote has nothing that was not recorded.
LEMMA SharedIsRecorded == GitInv => Shared \subseteq Recorded
<1> SUFFICES ASSUME GitInv, origin # NoTree, NEW ev \in Events(origin.log) PROVE ev \in Recorded
  BY DEF Shared
<1>1. ev[1] \in Clone /\ ev[2] \in 1 .. MaxEvent /\ ev[2] <= origin.log[ev[1]]
  BY DEF Events
<1>2. origin.log \in Log /\ n[ev[1]] \in Log
  BY <1>1 DEF GitInv, TypeOK, Tree
<1>3. ev[2] <= n[ev[1]][ev[1]]
  BY <1>1, <1>2, GitAssumption DEF GitInv, OneWriter, Log
<1>4. ev \in Events(n[ev[1]])
  BY <1>1, <1>3 DEF Events
<1> QED
  BY <1>1, <1>4 DEF Recorded

\* A merge: the store learns all that is shared.
LEMMA MergeLearns ==
  ASSUME GitInv, NEW c \in Clone, origin # NoTree, origin' = origin,
         n' = [n EXCEPT ![c] = MergedLog(n[c], origin.log)]
  PROVE  Abstract!Learn(c, Shared) /\ Shared \in SUBSET (Clone \X (1 .. MaxEvent))
<1>1. n \in [Clone -> Log] /\ origin.log \in Log
  BY DEF GitInv, TypeOK, Tree
<1>2. Events(n'[c]) = Events(n[c]) \cup Shared
  BY <1>1, MergeIsUnion DEF Shared
<1>3. \A d \in Clone : d # c => n'[d] = n[d]
  BY <1>1
<1>4. Known' = [Known EXCEPT ![c] = Known[c] \cup Shared]
  <2>1. \A d \in Clone : Events(n'[d]) = IF d = c THEN Events(n[c]) \cup Shared ELSE Events(n[d])
    BY <1>2, <1>3
  <2> QED
    BY <2>1 DEF Known
<1>5. Shared' = Shared
  BY DEF Shared
<1>6. Recorded' = Recorded
  <2>1. Recorded \subseteq Recorded' /\ Recorded' \subseteq Recorded \cup Shared
    BY <1>2, <1>3 DEF Recorded
  <2> QED
    BY <2>1, SharedIsRecorded
<1>7. Shared \in SUBSET (Clone \X (1 .. MaxEvent))
  BY EventsTyped DEF Shared
<1> QED
  BY <1>4, <1>5, <1>6, <1>7 DEF Abstract!Learn, Known

\* A push: the store publishes all it knows.
LEMMA PushPublishes ==
  ASSUME GitInv, NEW c \in Clone, pc[c] = "merged", ~Behind(c), n' = n, origin' = tree[c]
  PROVE  Abstract!Publish(c, Events(n[c])) /\ Events(n[c]) \in SUBSET (Clone \X (1 .. MaxEvent))
<1>1. tree[c].log = n[c] /\ n[c] \in Log /\ tree[c] \in Tree
  BY DEF GitInv, Committed, TypeOK
<1>2. Shared \subseteq Events(n[c])
  <2>1. CASE origin = NoTree
    BY <2>1 DEF Shared
  <2>2. CASE origin # NoTree
    <3>1. origin.log \in Log /\ Below(origin.log, n[c])
      BY <2>2 DEF Behind, GitInv, OneWriter, TypeOK, Tree
    <3> QED
      BY <1>1, <2>2, <3>1, EventsGrow DEF Shared
  <2> QED
    BY <2>1, <2>2
<1>3. Shared' = Events(n[c])
  BY <1>1, NoTreeAssumption DEF Shared
<1>4. Shared' = Shared \cup Events(n[c])
  BY <1>2, <1>3
<1>5. Recorded' = Recorded /\ Known' = Known
  BY DEF Recorded, Known
<1> QED
  BY <1>4, <1>5, EventsTyped DEF Abstract!Publish, Known

\* What leaves the logs and the remote alone is a stutter.
LEMMA Stutters == UNCHANGED <<n, origin>> => UNCHANGED <<Known, Shared, Recorded>>
BY DEF Known, Shared, Recorded

LEMMA RecordRecords ==
  ASSUME GitInv, NEW c \in Clone, Record(c)
  PROVE  /\ <<c, n[c][c] + 1>> \in Clone \X (1 .. MaxEvent)
         /\ Abstract!Record(c, <<c, n[c][c] + 1>>)
<1> DEFINE ev == <<c, n[c][c] + 1>>
<1>1. n[c][c] + 1 \in 1 .. MaxEvent
  BY RoomToRecord DEF Record, GitInv
<1>2. n \in [Clone -> Log] /\ n' = [n EXCEPT ![c] = [n[c] EXCEPT ![c] = n[c][c] + 1]]
  BY DEF Record, GitInv, TypeOK
<1>3. \A d \in Clone : d # c => n'[d] = n[d]
  BY <1>2
<1>4. Events(n'[c]) = Events(n[c]) \cup {ev}
  <2>1. n'[c] = [n[c] EXCEPT ![c] = n[c][c] + 1] /\ n[c] \in Log
    BY <1>2
  <2>2. n'[c][c] = n[c][c] + 1 /\ \A w \in Clone : w # c => n'[c][w] = n[c][w]
    BY <2>1 DEF Log
  <2>3. n[c][c] \in 0 .. MaxEvent
    BY <2>1 DEF Log
  <2> QED
    BY <1>1, <2>2, <2>3, GitAssumption DEF Events
<1>5. ev \notin Recorded
  <2> SUFFICES ASSUME NEW d \in Clone, ev \in Events(n[d]) PROVE FALSE
    BY DEF Recorded
  <2>1. n[c][c] + 1 <= n[d][c]
    BY DEF Events
  <2>2. n[d][c] <= n[c][c]
    BY DEF GitInv, OneWriter
  <2>3. n[d][c] \in 0 .. MaxEvent /\ n[c][c] \in 0 .. MaxEvent
    BY <1>2 DEF Log
  <2> QED
    BY <2>1, <2>2, <2>3, GitAssumption
<1>6. Known' = [Known EXCEPT ![c] = Known[c] \cup {ev}]
  <2>1. \A d \in Clone : Events(n'[d]) = IF d = c THEN Events(n[c]) \cup {ev} ELSE Events(n[d])
    BY <1>3, <1>4
  <2> QED
    BY <2>1 DEF Known
<1>7. Recorded' = Recorded \cup {ev}
  BY <1>3, <1>4 DEF Recorded
<1>8. Shared' = Shared
  BY DEF Record, Shared
<1> QED
  BY <1>1, <1>5, <1>6, <1>7, <1>8 DEF Abstract!Record, Known

LEMMA StepImplements ==
  ASSUME GitInv, NEW c \in Clone,
         \/ Record(c) \/ Restore(c) \/ Rebuild(c) \/ Die(c)
         \/ Step(c) \/ Offline(c) \/ PushFails(c)
         \/ \E line \in Typed : Edit(c, line) \/ BeginEdited(c, line)
  PROVE  Abstract!Next \/ UNCHANGED <<Known, Shared, Recorded>>
<1>1. CASE Record(c)
  BY <1>1, RecordRecords DEF Abstract!Next
<1>2. CASE MergeConflict(c) \/ (Merge(c) /\ Behind(c))
  <2>1. /\ origin # NoTree /\ origin' = origin
        /\ n' = [n EXCEPT ![c] = MergedLog(n[c], origin.log)]
    BY <1>2, MergeTyped DEF MergeConflict, Merge, Behind, GitInv
  <2> QED
    BY <2>1, MergeLearns DEF Abstract!Next
<1>3. CASE Push(c)
  <2>1. pc[c] = "merged" /\ ~Behind(c) /\ n' = n /\ origin' = tree[c]
    BY <1>3 DEF Push, Apply
  <2> QED
    BY <2>1, PushPublishes DEF Abstract!Next
<1>4. CASE Die(c) /\ origin' # origin
  <2>1. pc[c] = "merged" /\ ~Behind(c) /\ n' = n /\ origin' = tree[c]
    BY <1>4 DEF Die
  <2> QED
    BY <2>1, PushPublishes DEF Abstract!Next
<1>5. CASE \/ Restore(c) \/ Rebuild(c) \/ Begin(c) \/ MergeRefused(c)
           \/ Offline(c) \/ PushFails(c)
           \/ \E line \in Typed : Edit(c, line) \/ BeginEdited(c, line)
  <2>1. UNCHANGED <<n, origin>>
    BY <1>5 DEF Restore, Rebuild, Begin, MergeRefused, Offline, PushFails, Apply, Edit, BeginEdited, Commit
  <2> QED
    BY <2>1, Stutters
<1>6. CASE (Merge(c) /\ ~Behind(c)) \/ (Die(c) /\ origin' = origin)
  <2>1. UNCHANGED <<n, origin>>
    BY <1>6 DEF Merge, Die
  <2> QED
    BY <2>1, Stutters
<1>7. CASE Merge(c)
  <2>1. CASE Behind(c)
    BY <1>2, <1>7, <2>1
  <2>2. CASE ~Behind(c)
    BY <1>6, <1>7, <2>2
  <2> QED
    BY <2>1, <2>2
<1>8. CASE Die(c)
  <2>1. CASE origin' # origin
    BY <1>4, <1>8, <2>1
  <2>2. CASE origin' = origin
    BY <1>6, <1>8, <2>2
  <2> QED
    BY <2>1, <2>2
<1> QED
  BY <1>1, <1>2, <1>3, <1>5, <1>7, <1>8 DEF Step

\* Sync through git is a growing union of decisions: for every team, whatever conflicts,
\* refusals, deaths and edits there are, no store and no remote forgets a decision, and none
\* shows up that nobody recorded.
THEOREM GitImplementsUnionLog == Spec => ImplementsUnionLog
<1>1. Init => Abstract!Init
  <2> SUFFICES ASSUME Init PROVE Abstract!Init
    OBVIOUS
  <2>1. \A c \in Clone : Events(n[c]) = {}
    BY GitAssumption DEF Init, Events, NoLog
  <2>2. Shared = {} /\ Recorded = {}
    BY <2>1 DEF Init, Shared, Recorded
  <2> QED
    BY <2>1, <2>2 DEF Abstract!Init
<1>2. GitInv /\ [Next]_vars => [Abstract!Next]_(Abstract!vars)
  <2>1. ASSUME GitInv, Next PROVE Abstract!Next \/ UNCHANGED <<Known, Shared, Recorded>>
    BY <2>1, StepImplements DEF Next
  <2>2. ASSUME UNCHANGED vars PROVE UNCHANGED <<Known, Shared, Recorded>>
    BY <2>2, Stutters DEF vars
  <2>3. UNCHANGED <<Known, Shared, Recorded>> => UNCHANGED Abstract!vars
    BY DEF Abstract!vars, Known
  <2> QED
    BY <2>1, <2>2, <2>3
<1> QED
  BY <1>1, <1>2, GitSafe, PTL DEF Spec, ImplementsUnionLog, Abstract!Spec

===============================================================================
