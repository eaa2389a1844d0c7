----------------------------- MODULE SegmentPlan -----------------------------
(***************************************************************************)
(* The pure part of the segment protocol (internal/remote/segments.go):    *)
(* what to upload and what to download is computed from local event counts *)
(* and from the counts written in the segment keys, nothing else.          *)
(*                                                                         *)
(* An event's hash commits to its parent, so to its whole shard prefix. An *)
(* event is therefore modelled as the chain of entries from the genesis of *)
(* its shard to itself: two events have the same hash exactly when their   *)
(* chains are equal, and the parent hash is the chain without its last     *)
(* entry. Install and actor are not repeated in the event: a shard file    *)
(* and a segment key name the install, and decodeSegment refuses an event  *)
(* that lives under another one.                                           *)
(***************************************************************************)
EXTENDS Integers, SequencesExt

\* One recorded decision with its Lamport stamp; no genesis entry.
Entry(Dec) == [lam : Nat, dec : Dec]

\* A hash-chained event, see above.
Event(Dec) == Seq(Entry(Dec)) \ {<<>>}

\* event.Hash of the shard's tail, "" (here <<>>) for an empty shard.
TailHash(shard) == IF shard = <<>> THEN <<>> ELSE Last(shard)

\* Event.Parents[0].
ParentHash(ev) == Front(ev)

\* Every event names its predecessor; the first one names nobody.
IsChain(shard) ==
  \A k \in DOMAIN shard :
    ParentHash(shard[k]) = IF k = 1 THEN <<>> ELSE shard[k - 1]

\* Segments are sorted by seq; the listing is in key order and sort.Slice is an insertion
\* sort for fewer than twelve segments, so that two with the same seq stay in the order of
\* their count, which follows it in the key.
InOrder(a, b) == a.seq < b.seq \/ (a.seq = b.seq /\ Len(a.evs) < Len(b.evs))

\* GroupSegments for one install: the k-th segment is the one with k - 1 before it.
GroupSegments(segs, install) ==
  LET own == {g \in segs : g.inst = install}
  IN  [k \in 1 .. Cardinality(own) |->
         CHOOSE g \in own : Cardinality({h \in own : InOrder(h, g)}) = k - 1]

\* One turn of the loops over a group: the running count of its events ...
AddCount(cum, g) == cum + Len(g.evs)
Total(group) == FoldLeft(AddCount, 0, group)

\* ... the events themselves, in order ...
AddEvents(evs, g) == evs \o g.evs
Events(group) == FoldLeft(AddEvents, <<>>, group)

\* ... and the highest sequence number already used, 0 if none.
HigherSeq(m, g) == IF g.seq > m THEN g.seq ELSE m
LastSeq(group) == FoldLeft(HigherSeq, 0, group)

\* Wrong on purpose: the upload starts with the last event already uploaded.
PlanPushOverlapping(localCount, group) ==
  IF Total(group) > localCount THEN [refused |-> TRUE, needed |-> FALSE]
  ELSE IF Total(group) = localCount THEN [refused |-> FALSE, needed |-> FALSE]
  ELSE [refused |-> FALSE, needed |-> TRUE,
        from |-> IF group = <<>> THEN 1 ELSE Total(group), seq |-> LastSeq(group) + 1]

\* Wrong on purpose: the sequence number is reused, not advanced.
PlanPushSameSeq(localCount, group) ==
  IF Total(group) > localCount THEN [refused |-> TRUE, needed |-> FALSE]
  ELSE IF Total(group) = localCount THEN [refused |-> FALSE, needed |-> FALSE]
  ELSE [refused |-> FALSE, needed |-> TRUE,
        from |-> Total(group) + 1, seq |-> LastSeq(group)]

\* PlanPush: refused when the remote holds more of my shard than I do, nothing
\* to do at equal counts, otherwise everything after the remote's count under
\* the next sequence number.
PlanPush(localCount, group) ==
  IF Total(group) > localCount THEN [refused |-> TRUE, needed |-> FALSE]
  ELSE IF Total(group) = localCount THEN [refused |-> FALSE, needed |-> FALSE]
  ELSE [refused |-> FALSE, needed |-> TRUE,
        from |-> Total(group) + 1, seq |-> LastSeq(group) + 1]

\* Wrong on purpose: a segment of which some events are present counts as present.
PlanWholeSegment(plan, g) ==
  [have |-> plan.have, cum |-> plan.cum + Len(g.evs),
   fetches |-> IF plan.have > plan.cum THEN plan.fetches
               ELSE Append(plan.fetches, [seg |-> g, skip |-> 0])]

\* One turn of the loop of PlanPull: a segment that is not fully present locally is
\* fetched, and the number of its leading events to drop is noted, because an earlier,
\* partial pull already applied them.
PlanSegment(plan, g) ==
  [have |-> plan.have, cum |-> plan.cum + Len(g.evs),
   fetches |-> IF plan.have >= plan.cum + Len(g.evs) THEN plan.fetches
               ELSE Append(plan.fetches,
                           [seg |-> g, skip |-> IF plan.have > plan.cum
                                                  THEN plan.have - plan.cum ELSE 0])]

PlanPull(localCount, group) ==
  FoldLeft(PlanSegment, [have |-> localCount, cum |-> 0, fetches |-> <<>>], group).fetches

\* The batch objectRemote.Sync builds from the first n fetches of a plan: the
\* loop stops at the first segment it cannot download.
AddFetched(evs, f) == evs \o SubSeq(f.seg.evs, f.skip + 1, Len(f.seg.evs))
Batch(plan, n) == FoldLeft(AddFetched, <<>>, SubSeq(plan, 1, n))

\* Wrong on purpose: only the counts are compared.
ForkSeenByCount(local, group) == group # <<>> /\ Total(group) > Len(local)

\* Wrong on purpose: the remote's last event is compared with my last event, not
\* with my event at that position.
ForkSeenAtTail(local, group) ==
  /\ group # <<>>
  /\ \/ Total(group) > Len(local)
     \/ /\ Total(group) <= Len(local)
        /\ Last(Last(group).evs) # Last(local)

\* verifyOwnShard: my shard forked when the remote holds more of it than I do,
\* or when the remote's last event is not mine at that position. The shard is a
\* hash chain, so agreeing there is agreeing on the whole prefix.
ForkSeen(local, group) ==
  /\ group # <<>>
  /\ \/ Total(group) > Len(local)
     \/ /\ Total(group) <= Len(local)
        /\ Last(Last(group).evs) # local[Total(group)]

\* AppendForeign accepts a batch only if it continues the local hash chain.
ContinuesChain(shard, batch) ==
  \A k \in DOMAIN batch :
    ParentHash(batch[k]) = IF k = 1 THEN TailHash(shard) ELSE batch[k - 1]

\* Wrong on purpose: lengths are compared instead of hashes.
AgreementByLength(local, remote) ==
  IF Len(local) < Len(remote) THEN Len(local) ELSE Len(remote)

\* How far two versions of a shard agree (the loop over k in reconcileRetired).
Agreement(local, remote) ==
  LET n == IF Len(local) < Len(remote) THEN Len(local) ELSE Len(remote)
  IN  Max({k \in 0 .. n : \A j \in 1 .. k : local[j] = remote[j]})
==============================================================================
