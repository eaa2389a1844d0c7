--------------------------- MODULE SegmentPlanProofs ---------------------------
(***************************************************************************)
(* What the loops of internal/remote/segments.go compute, for any number   *)
(* of segments: totals, concatenation, the pull plan and its batch, and    *)
(* the grouping of a listing.                                              *)
(***************************************************************************)
EXTENDS SegmentPlan, FiniteSetTheorems, SequenceTheorems, TLAPS

\* The segments that hold events of E.
SegmentOf(E) == [inst : Nat, seq : Nat \ {0}, evs : Seq(E) \ {<<>>}]

\* The loops are folds, each over an operator of its own.
Count == INSTANCE FoldTheory WITH Op <- AddCount
Concat == INSTANCE FoldTheory WITH Op <- AddEvents
Highest == INSTANCE FoldTheory WITH Op <- HigherSeq
Planning == INSTANCE FoldTheory WITH Op <- PlanSegment
Fetching == INSTANCE FoldTheory WITH Op <- AddFetched

\* AddCount folded over a sequence is FoldTheory's fold of it, so that what FoldTheory
\* shows of a fold is known of this one. The same for the four folds below.
LEMMA CountFold == \A b, s : FoldLeft(AddCount, b, s) = Count!FoldLeft(AddCount, b, s)
  BY Zenon DEF FoldLeft, MapThenFoldSet, Max, Count!FoldLeft, Count!MapThenFoldSet, Count!Max

\* The same for the concatenation of events.
LEMMA ConcatFold == \A b, s : FoldLeft(AddEvents, b, s) = Concat!FoldLeft(AddEvents, b, s)
  BY Zenon DEF FoldLeft, MapThenFoldSet, Max, Concat!FoldLeft, Concat!MapThenFoldSet, Concat!Max

\* The same for the highest sequence number.
LEMMA HighestFold == \A b, s : FoldLeft(HigherSeq, b, s) = Highest!FoldLeft(HigherSeq, b, s)
  BY Zenon DEF FoldLeft, MapThenFoldSet, Max, Highest!FoldLeft, Highest!MapThenFoldSet, Highest!Max

\* The same for the plan of a pull.
LEMMA PlanningFold == \A b, s : FoldLeft(PlanSegment, b, s) = Planning!FoldLeft(PlanSegment, b, s)
  BY Zenon DEF FoldLeft, MapThenFoldSet, Max, Planning!FoldLeft, Planning!MapThenFoldSet, Planning!Max

\* The same for the batch of a pull.
LEMMA FetchingFold == \A b, s : FoldLeft(AddFetched, b, s) = Fetching!FoldLeft(AddFetched, b, s)
  BY Zenon DEF FoldLeft, MapThenFoldSet, Max, Fetching!FoldLeft, Fetching!MapThenFoldSet, Fetching!Max

\* One more segment in a group.
LEMMA TotalSteps ==
  /\ Total(<<>>) = 0
  /\ \A G : \A group \in Seq(G), g \in G : Total(Append(group, g)) = Total(group) + Len(g.evs)
<1>1. Total(<<>>) = 0
  BY CountFold, Count!FoldLeftEmpty, Zenon DEF Total
<1>2. ASSUME NEW G, NEW group \in Seq(G), NEW g \in G
      PROVE  Total(Append(group, g)) = Total(group) + Len(g.evs)
  <2>1. Count!FoldLeft(AddCount, 0, Append(group, g))
          = AddCount(Count!FoldLeft(AddCount, 0, group), g)
    BY Count!FoldLeftAppend, Zenon
  <2> QED BY <2>1, CountFold, Zenon DEF Total, AddCount
<1> QED BY <1>1, <1>2

\* The events of a group are those of its segments, one after the other.
LEMMA EventsSteps ==
  /\ Events(<<>>) = <<>>
  /\ \A G : \A group \in Seq(G), g \in G : Events(Append(group, g)) = Events(group) \o g.evs
<1>1. Events(<<>>) = <<>>
  BY ConcatFold, Concat!FoldLeftEmpty, Zenon DEF Events
<1>2. ASSUME NEW G, NEW group \in Seq(G), NEW g \in G
      PROVE  Events(Append(group, g)) = Events(group) \o g.evs
  <2>1. Concat!FoldLeft(AddEvents, <<>>, Append(group, g))
          = AddEvents(Concat!FoldLeft(AddEvents, <<>>, group), g)
    BY Concat!FoldLeftAppend, Zenon
  <2> QED BY <2>1, ConcatFold, Zenon DEF Events, AddEvents
<1> QED BY <1>1, <1>2

\* The highest number of a group is kept or raised by one more segment.
LEMMA LastSeqSteps ==
  /\ LastSeq(<<>>) = 0
  /\ \A G : \A group \in Seq(G), g \in G :
       LastSeq(Append(group, g)) = HigherSeq(LastSeq(group), g)
<1>1. LastSeq(<<>>) = 0
  BY HighestFold, Highest!FoldLeftEmpty, Zenon DEF LastSeq
<1>2. ASSUME NEW G, NEW group \in Seq(G), NEW g \in G
      PROVE  LastSeq(Append(group, g)) = HigherSeq(LastSeq(group), g)
  <2>1. Highest!FoldLeft(HigherSeq, 0, Append(group, g))
          = HigherSeq(Highest!FoldLeft(HigherSeq, 0, group), g)
    BY Highest!FoldLeftAppend, Zenon
  <2> QED BY <2>1, HighestFold, Zenon DEF LastSeq
<1> QED BY <1>1, <1>2

\* The events of a group are as many as the counts say.
LEMMA EventsTotal ==
  ASSUME NEW E, NEW group \in Seq(SegmentOf(E))
  PROVE  /\ Total(group) \in Nat /\ Events(group) \in Seq(E)
         /\ Len(Events(group)) = Total(group)
<1> DEFINE G == SegmentOf(E)
           Fine(q) == /\ Total(q) \in Nat /\ Events(q) \in Seq(E) /\ Len(Events(q)) = Total(q)
           S == {q \in Seq(G) : Fine(q)}
<1>1. <<>> \in S
  <2>1. Total(<<>>) = 0 /\ Events(<<>>) = <<>>
    BY TotalSteps, EventsSteps
  <2>2. <<>> \in Seq(G) /\ <<>> \in Seq(E) /\ Len(<<>>) = 0 /\ 0 \in Nat
    OBVIOUS
  <2> QED BY <2>1, <2>2, Zenon
<1>2. ASSUME NEW q \in Seq(G), NEW g \in G, q \in S PROVE Append(q, g) \in S
  <2>1. Fine(q) /\ g.evs \in Seq(E)
    BY <1>2 DEF SegmentOf
  <2>2. Total(Append(q, g)) = Total(q) + Len(g.evs)
    BY TotalSteps
  <2>3. Events(Append(q, g)) = Events(q) \o g.evs
    BY EventsSteps
  <2>4. /\ Events(q) \o g.evs \in Seq(E)
        /\ Len(Events(q) \o g.evs) = Len(Events(q)) + Len(g.evs) /\ Len(g.evs) \in Nat
    <3> HIDE DEF G
    <3>1. Events(q) \in Seq(E) /\ g.evs \in Seq(E)
      BY <2>1, Zenon
    <3> QED BY <3>1, ConcatProperties, LenProperties
  <2>5. Fine(Append(q, g))
    BY <2>1, <2>2, <2>3, <2>4
  <2> QED BY <2>5
<1> HIDE DEF S, Fine, G
<1>3. \A q \in Seq(G) : q \in S
  BY <1>1, <1>2, Count!SeqInduction
<1> QED BY <1>3 DEF S, G, Fine

------------------------------------------------------------------------------
(* Sequences.                                                              *)

\* One sequence begins another when they agree element by element.
LEMMA PrefixByElements ==
  ASSUME NEW X, NEW s \in Seq(X), NEW t \in Seq(X)
  PROVE  IsPrefix(s, t) <=> Len(s) <= Len(t) /\ \A k \in 1 .. Len(s) : s[k] = t[k]
<1>1. SubSeq(s, 1, Len(s)) = s
  BY SubSeqFull
<1>2. ASSUME Len(s) <= Len(t)
      PROVE  /\ SubSeq(t, 1, Len(s)) \in Seq(X) /\ Len(SubSeq(t, 1, Len(s))) = Len(s)
             /\ \A k \in 1 .. Len(s) : SubSeq(t, 1, Len(s))[k] = t[k]
  BY <1>2
<1>3. CASE IsPrefix(s, t)
  BY <1>1, <1>2, <1>3 DEF IsPrefix
<1>4. CASE Len(s) <= Len(t) /\ \A k \in 1 .. Len(s) : s[k] = t[k]
  <2>1. s = SubSeq(t, 1, Len(s))
    BY <1>2, <1>4, SeqEqual
  <2> QED BY <1>1, <1>4, <2>1 DEF IsPrefix
<1> QED BY <1>3, <1>4

\* What begins a beginning begins the whole.
LEMMA PrefixTransitive ==
  ASSUME NEW X, NEW s \in Seq(X), NEW t \in Seq(X), NEW u \in Seq(X),
         IsPrefix(s, t), IsPrefix(t, u)
  PROVE  IsPrefix(s, u)
<1>1. Len(s) \in Nat /\ Len(t) \in Nat /\ Len(u) \in Nat
  OBVIOUS
<1>2. Len(s) <= Len(t) /\ \A k \in 1 .. Len(s) : s[k] = t[k]
  BY PrefixByElements
<1>3. Len(t) <= Len(u) /\ \A k \in 1 .. Len(t) : t[k] = u[k]
  BY PrefixByElements
<1>4. Len(s) <= Len(u) /\ \A k \in 1 .. Len(s) : s[k] = u[k]
  BY <1>1, <1>2, <1>3
<1> QED BY <1>4, PrefixByElements

\* A sequence begins its extension.
LEMMA PrefixOfConcat ==
  ASSUME NEW X, NEW s \in Seq(X), NEW t \in Seq(X)
  PROVE  s \o t \in Seq(X) /\ IsPrefix(s, s \o t)
<1>1. /\ s \o t \in Seq(X) /\ Len(s) <= Len(s \o t)
      /\ \A k \in 1 .. Len(s) : (s \o t)[k] = s[k]
  BY ConcatProperties, LenProperties
<1> QED BY <1>1, PrefixByElements

\* An element at the end leaves the beginnings alone.
LEMMA PrefixOfAppend ==
  ASSUME NEW X, NEW q \in Seq(X), NEW x \in X, NEW m \in 0 .. Len(q)
  PROVE  SubSeq(Append(q, x), 1, m) = SubSeq(q, 1, m)
<1>1. /\ SubSeq(q, 1, m) \in Seq(X) /\ Len(SubSeq(q, 1, m)) = m
      /\ \A k \in 1 .. m : SubSeq(q, 1, m)[k] = q[k]
  OBVIOUS
<1>2. /\ SubSeq(Append(q, x), 1, m) \in Seq(X) /\ Len(SubSeq(Append(q, x), 1, m)) = m
      /\ \A k \in 1 .. m : SubSeq(Append(q, x), 1, m)[k] = q[k]
  OBVIOUS
<1> QED BY <1>1, <1>2, SeqEqual

\* A part of a concatenation that ends in the first half ...
LEMMA PartOfFirst ==
  ASSUME NEW X, NEW s \in Seq(X), NEW t \in Seq(X), NEW a \in Nat \ {0}, NEW m \in 0 .. Len(s)
  PROVE  SubSeq(s \o t, a, m) = SubSeq(s, a, m)
<1>1. CASE m < a
  BY <1>1, SubSeqEmpty
<1>2. CASE a <= m
  BY <1>2, SubSeqOfConcat1
<1> QED BY <1>1, <1>2

\* ... one that begins in it and goes to the end ...
LEMMA PartOfBoth ==
  ASSUME NEW X, NEW s \in Seq(X), NEW t \in Seq(X), NEW a \in 1 .. Len(s) + 1
  PROVE  SubSeq(s \o t, a, Len(s) + Len(t)) = SubSeq(s, a, Len(s)) \o t
<1> DEFINE l == SubSeq(s, a, Len(s))
           u == SubSeq(s \o t, a, Len(s) + Len(t))
<1>1. /\ s \o t \in Seq(X) /\ Len(s \o t) = Len(s) + Len(t) /\ Len(s) \in Nat /\ Len(t) \in Nat
      /\ \A k \in 1 .. Len(s) + Len(t) : (s \o t)[k] = IF k <= Len(s) THEN s[k] ELSE t[k - Len(s)]
  BY ConcatProperties, LenProperties
<1>2. /\ l \in Seq(X) /\ Len(l) = Len(s) + 1 - a
      /\ \A k \in 1 .. Len(s) + 1 - a : l[k] = s[a + k - 1]
  BY <1>1
<1>3. /\ u \in Seq(X) /\ Len(u) = Len(s) + Len(t) + 1 - a
      /\ \A k \in 1 .. Len(s) + Len(t) + 1 - a : u[k] = (s \o t)[a + k - 1]
  BY <1>1
<1> HIDE DEF l, u
<1>4. /\ l \o t \in Seq(X) /\ Len(l \o t) = Len(s) + Len(t) + 1 - a
      /\ \A k \in 1 .. Len(s) + Len(t) + 1 - a :
           (l \o t)[k] = IF k <= Len(s) + 1 - a THEN l[k] ELSE t[k - (Len(s) + 1 - a)]
  <2>1. /\ l \o t \in Seq(X) /\ Len(l \o t) = Len(l) + Len(t)
        /\ \A k \in 1 .. Len(l) + Len(t) : (l \o t)[k] = IF k <= Len(l) THEN l[k] ELSE t[k - Len(l)]
    BY <1>2, ConcatProperties
  <2>2. Len(l) + Len(t) = Len(s) + Len(t) + 1 - a
    BY <1>1, <1>2
  <2> QED BY <1>2, <2>1, <2>2
<1>5. ASSUME NEW k \in 1 .. Len(s) + Len(t) + 1 - a PROVE u[k] = (l \o t)[k]
  <2>1. a + k - 1 \in 1 .. Len(s) + Len(t)
    BY <1>1
  <2>2. u[k] = IF a + k - 1 <= Len(s) THEN s[a + k - 1] ELSE t[a + k - 1 - Len(s)]
    BY <1>1, <1>3, <2>1
  <2>3. CASE k <= Len(s) + 1 - a
    BY <1>1, <1>2, <1>4, <2>2, <2>3
  <2>4. CASE ~(k <= Len(s) + 1 - a)
    <3>1. k - (Len(s) + 1 - a) = a + k - 1 - Len(s) /\ ~(a + k - 1 <= Len(s))
      BY <1>1, <2>4
    <3>2. (l \o t)[k] = t[k - (Len(s) + 1 - a)] /\ u[k] = t[a + k - 1 - Len(s)]
      BY <1>4, <2>2, <2>4, <3>1, Zenon
    <3> QED BY <3>1, <3>2, Zenon
  <2> QED BY <2>3, <2>4
<1> QED BY <1>3, <1>4, <1>5, SeqEqual DEF l, u

\* ... and one that begins in the second half.
LEMMA PartOfSecond ==
  ASSUME NEW X, NEW s \in Seq(X), NEW t \in Seq(X), NEW a \in Nat, a > Len(s), a <= Len(s) + Len(t)
  PROVE  SubSeq(s \o t, a, Len(s) + Len(t)) = SubSeq(t, a - Len(s), Len(t))
<1>1. /\ a \in Len(s) + 1 .. Len(s) + Len(t) /\ Len(s) + Len(t) \in Len(s) + 1 .. Len(s) + Len(t)
      /\ (Len(s) + Len(t)) - Len(s) = Len(t)
  BY LenProperties
<1> QED BY <1>1, SubSeqOfConcat2

------------------------------------------------------------------------------
(* Groups.                                                                 *)

\* The initial segments of a group give initial segments of its events.
LEMMA EventsPrefix ==
  ASSUME NEW E, NEW group \in Seq(SegmentOf(E)), NEW m \in 0 .. Len(group)
  PROVE  /\ SubSeq(group, 1, m) \in Seq(SegmentOf(E))
         /\ IsPrefix(Events(SubSeq(group, 1, m)), Events(group))
<1> DEFINE G == SegmentOf(E)
           Fine(q) == \A j \in 0 .. Len(q) : IsPrefix(Events(SubSeq(q, 1, j)), Events(q))
           S == {q \in Seq(G) : Fine(q)}
<1>0. \A q \in Seq(G) : Events(q) \in Seq(E) /\ IsPrefix(Events(q), Events(q))
  BY EventsTotal, PrefixByElements
<1>1. <<>> \in S
  <2>1. \A j \in 0 .. Len(<<>>) : SubSeq(<<>>, 1, j) = <<>>
    OBVIOUS
  <2>2. <<>> \in Seq(G)
    OBVIOUS
  <2> HIDE DEF G
  <2>3. IsPrefix(Events(<<>>), Events(<<>>))
    BY <1>0, <2>2
  <2>4. Fine(<<>>)
    BY <2>1, <2>3
  <2> QED BY <2>2, <2>4
<1>2. ASSUME NEW q \in Seq(G), NEW g \in G, q \in S PROVE Append(q, g) \in S
  <2>1. Events(Append(q, g)) = Events(q) \o g.evs /\ g.evs \in Seq(E)
    BY EventsSteps DEF SegmentOf
  <2>2. Append(q, g) \in Seq(G) /\ Len(Append(q, g)) = Len(q) + 1 /\ Len(q) \in Nat
    OBVIOUS
  <2> HIDE DEF G
  <2>3. IsPrefix(Events(q), Events(Append(q, g)))
    BY <1>0, <2>1, PrefixOfConcat
  <2>4. ASSUME NEW j \in 0 .. Len(q) + 1
        PROVE  IsPrefix(Events(SubSeq(Append(q, g), 1, j)), Events(Append(q, g)))
    <3>1. CASE j = Len(q) + 1
      BY <1>0, <2>2, <3>1, SubSeqFull
    <3>2. CASE j \in 0 .. Len(q)
      <4>1. SubSeq(Append(q, g), 1, j) = SubSeq(q, 1, j) /\ SubSeq(q, 1, j) \in Seq(G)
        BY <3>2, PrefixOfAppend
      <4>2. IsPrefix(Events(SubSeq(q, 1, j)), Events(q))
        BY <1>2, <3>2
      <4>3. /\ Events(SubSeq(q, 1, j)) \in Seq(E) /\ Events(q) \in Seq(E)
            /\ Events(Append(q, g)) \in Seq(E)
        BY <1>0, <2>2, <4>1
      <4> QED BY <2>3, <4>1, <4>2, <4>3, PrefixTransitive
    <3> QED BY <2>2, <3>1, <3>2
  <2>5. Fine(Append(q, g))
    BY <2>2, <2>4
  <2> QED BY <2>2, <2>5
<1> HIDE DEF S, Fine, G
<1>3. \A q \in Seq(G) : q \in S
  BY <1>1, <1>2, Count!SeqInduction
<1>4. Fine(group)
  BY <1>3 DEF S, G
<1>5. SubSeq(group, 1, m) \in Seq(SegmentOf(E))
  OBVIOUS
<1> QED BY <1>4, <1>5 DEF Fine

\* The last element of two sequences joined is the last of the second.
LEMMA LastOfConcat ==
  ASSUME NEW E, NEW s \in Seq(E), NEW t \in Seq(E), t # <<>>
  PROVE  (s \o t)[Len(s) + Len(t)] = t[Len(t)]
OBVIOUS

\* The last event of a group is the last one of its last segment.
LEMMA LastEvent ==
  ASSUME NEW E, NEW group \in Seq(SegmentOf(E)), group # <<>>
  PROVE  /\ Total(group) > 0
         /\ Last(Last(group).evs) = Events(group)[Total(group)]
<1>1. PICK q \in Seq(SegmentOf(E)), g \in SegmentOf(E) : group = Append(q, g)
  BY SequenceEmptyOrAppend
<1>2. g.evs \in Seq(E) /\ g.evs # <<>>
  BY DEF SegmentOf
<1>3. Len(g.evs) \in Nat /\ Len(g.evs) > 0
  BY <1>2
<1>4. Last(group) = g
  BY <1>1, AppendProperties DEF Last
<1>5. Total(group) = Total(q) + Len(g.evs) /\ Events(group) = Events(q) \o g.evs
  BY <1>1, TotalSteps, EventsSteps
<1>6. Total(q) \in Nat /\ Events(q) \in Seq(E) /\ Len(Events(q)) = Total(q)
  BY EventsTotal
<1>7. (Events(q) \o g.evs)[Total(q) + Len(g.evs)] = g.evs[Len(g.evs)]
  <2>1. (Events(q) \o g.evs)[Len(Events(q)) + Len(g.evs)] = g.evs[Len(g.evs)]
    BY <1>2, <1>6, LastOfConcat
  <2> QED BY <1>6, <2>1, Zenon
<1>8. Total(group) > 0
  BY <1>3, <1>5, <1>6
<1>9. Last(Last(group).evs) = g.evs[Len(g.evs)]
  BY <1>4, Zenon DEF Last
<1> QED BY <1>5, <1>7, <1>8, <1>9, Zenon

\* A group whose segments are numbered from 1 on has its length as its last number.
LEMMA LastSeqNumbered ==
  ASSUME NEW E, NEW group \in Seq(SegmentOf(E)), \A k \in DOMAIN group : group[k].seq = k
  PROVE  LastSeq(group) = Len(group)
<1> DEFINE G == SegmentOf(E)
           Fine(q) == (\A k \in DOMAIN q : q[k].seq = k) => LastSeq(q) = Len(q)
           S == {q \in Seq(G) : Fine(q)}
<1>1. <<>> \in S
  <2>1. LastSeq(<<>>) = 0 /\ Len(<<>>) = 0 /\ <<>> \in Seq(G)
    BY LastSeqSteps
  <2> HIDE DEF G
  <2> QED BY <2>1
<1>2. ASSUME NEW q \in Seq(G), NEW g \in G, q \in S PROVE Append(q, g) \in S
  <2>1. LastSeq(Append(q, g)) = HigherSeq(LastSeq(q), g)
    BY LastSeqSteps
  <2>2. /\ Append(q, g) \in Seq(G) /\ Len(Append(q, g)) = Len(q) + 1 /\ Len(q) \in Nat
        /\ Append(q, g)[Len(q) + 1] = g /\ DOMAIN q = 1 .. Len(q)
        /\ DOMAIN Append(q, g) = 1 .. Len(q) + 1
        /\ \A k \in 1 .. Len(q) : Append(q, g)[k] = q[k]
    OBVIOUS
  <2> HIDE DEF G
  <2>3. ASSUME \A k \in DOMAIN Append(q, g) : Append(q, g)[k].seq = k
        PROVE  LastSeq(Append(q, g)) = Len(Append(q, g))
    <3>1. g.seq = Len(q) + 1
      BY <2>2, <2>3
    <3>2. \A k \in DOMAIN q : q[k].seq = k
      BY <2>2, <2>3
    <3>3. LastSeq(q) = Len(q)
      BY <1>2, <3>2
    <3> QED BY <2>1, <2>2, <3>1, <3>3 DEF HigherSeq
  <2>4. Fine(Append(q, g))
    BY <2>3
  <2> QED BY <2>2, <2>4
<1> HIDE DEF S, Fine, G
<1>3. \A q \in Seq(G) : q \in S
  BY <1>1, <1>2, Count!SeqInduction
<1>4. Fine(group)
  BY <1>3 DEF S, G
<1> QED BY <1>4 DEF Fine

------------------------------------------------------------------------------
(* The pull plan.                                                          *)

Start(c) == [have |-> c, cum |-> 0, fetches |-> <<>>]
PlanOf(c, group) == FoldLeft(PlanSegment, Start(c), group)

\* The plan of a group (planPull) is made segment by segment.
LEMMA PlanSteps ==
  ASSUME NEW c
  PROVE  /\ PlanOf(c, <<>>) = Start(c)
         /\ \A G : \A group \in Seq(G), g \in G :
              PlanOf(c, Append(group, g)) = PlanSegment(PlanOf(c, group), g)
<1>1. PlanOf(c, <<>>) = Start(c)
  BY PlanningFold, Planning!FoldLeftEmpty, Zenon DEF PlanOf
<1>2. ASSUME NEW G, NEW group \in Seq(G), NEW g \in G
      PROVE  PlanOf(c, Append(group, g)) = PlanSegment(PlanOf(c, group), g)
  <2>1. Planning!FoldLeft(PlanSegment, Start(c), Append(group, g))
          = PlanSegment(Planning!FoldLeft(PlanSegment, Start(c), group), g)
    BY Planning!FoldLeftAppend, Zenon
  <2> QED BY <2>1, PlanningFold, Zenon DEF PlanOf
<1> QED BY <1>1, <1>2

\* The first fetches of a plan do not depend on the later ones.
LEMMA BatchSteps ==
  /\ \A plan : Batch(plan, 0) = <<>>
  /\ \A F : \A plan \in Seq(F), f \in F :
       /\ \A n \in 0 .. Len(plan) : Batch(Append(plan, f), n) = Batch(plan, n)
       /\ Batch(Append(plan, f), Len(plan) + 1) = AddFetched(Batch(plan, Len(plan)), f)
<1>1. ASSUME NEW plan PROVE Batch(plan, 0) = <<>>
  <2>1. SubSeq(plan, 1, 0) = <<>>
    BY SubSeqEmpty
  <2> QED BY <2>1, FetchingFold, Fetching!FoldLeftEmpty, Zenon DEF Batch
<1>2. ASSUME NEW F, NEW plan \in Seq(F), NEW f \in F
      PROVE  /\ \A n \in 0 .. Len(plan) : Batch(Append(plan, f), n) = Batch(plan, n)
             /\ Batch(Append(plan, f), Len(plan) + 1) = AddFetched(Batch(plan, Len(plan)), f)
  <2>1. ASSUME NEW n \in 0 .. Len(plan) PROVE Batch(Append(plan, f), n) = Batch(plan, n)
    BY PrefixOfAppend, Zenon DEF Batch
  <2>2. SubSeq(Append(plan, f), 1, Len(plan) + 1) = Append(plan, f) /\ SubSeq(plan, 1, Len(plan)) = plan
    <3>1. Append(plan, f) \in Seq(F) /\ Len(Append(plan, f)) = Len(plan) + 1
      OBVIOUS
    <3> QED BY <3>1, SubSeqFull
  <2>3. Fetching!FoldLeft(AddFetched, <<>>, Append(plan, f))
          = AddFetched(Fetching!FoldLeft(AddFetched, <<>>, plan), f)
    BY Fetching!FoldLeftAppend, Zenon
  <2>4. Batch(Append(plan, f), Len(plan) + 1) = AddFetched(Batch(plan, Len(plan)), f)
    BY <2>2, <2>3, FetchingFold, Zenon DEF Batch
  <2> QED BY <2>1, <2>4
<1> QED BY <1>1, <1>2

Fetch(E) == [seg : SegmentOf(E), skip : Nat]

\* What a pull downloads is exactly what the group holds beyond what is there, or a
\* beginning of it: nothing is skipped and nothing is taken twice.
PlanFine(E, c, group, plan) ==
  /\ plan.have = c /\ plan.cum = Total(group)
  /\ plan.fetches \in Seq(Fetch(E))
  /\ c >= Total(group) => plan.fetches = <<>>
  /\ \A n \in 0 .. Len(plan.fetches) : \E m \in 0 .. Total(group) :
       /\ Batch(plan.fetches, n) = SubSeq(Events(group), c + 1, m)
       /\ n = Len(plan.fetches) => m = Total(group)

\* One more segment keeps what is known of a plan: whatever number of its fetches
\* is carried out, the events fetched are the ones after the c already held.
LEMMA PlanFineSteps ==
  ASSUME NEW E, NEW c \in Nat, NEW q \in Seq(SegmentOf(E)), NEW g \in SegmentOf(E),
         NEW p, PlanFine(E, c, q, p)
  PROVE  PlanFine(E, c, Append(q, g), PlanSegment(p, g))
<1> DEFINE T == Total(q)
           L == Len(g.evs)
           f == [seg |-> g, skip |-> IF c > T THEN c - T ELSE 0]
           r == PlanSegment(p, g)
<1>1. g.evs \in Seq(E) /\ L \in Nat /\ L > 0
  BY DEF SegmentOf
<1>2. T \in Nat /\ Events(q) \in Seq(E) /\ Len(Events(q)) = T
  BY EventsTotal
<1>3. Total(Append(q, g)) = T + L /\ Events(Append(q, g)) = Events(q) \o g.evs
  BY TotalSteps, EventsSteps
<1>4. p.have = c /\ p.cum = T /\ p.fetches \in Seq(Fetch(E))
  BY DEF PlanFine
<1>5. /\ r.have = c /\ r.cum = T + L
      /\ r.fetches = IF c >= T + L THEN p.fetches ELSE Append(p.fetches, f)
  BY <1>4 DEF PlanSegment
<1>6. f \in Fetch(E) /\ f.seg = g /\ f.skip = IF c > T THEN c - T ELSE 0
  <2>1. (IF c > T THEN c - T ELSE 0) \in Nat
    BY <1>2
  <2> QED BY <2>1 DEF Fetch
<1> HIDE DEF f, r
<1>7. CASE c >= T + L
  <2>1. p.fetches = <<>> /\ r.fetches = <<>>
    BY <1>1, <1>2, <1>5, <1>7 DEF PlanFine
  <2>2. Batch(<<>>, 0) = <<>>
    BY BatchSteps
  <2>3. SubSeq(Events(q) \o g.evs, c + 1, T + L) = <<>>
    BY <1>1, <1>2, <1>7, SubSeqEmpty
  <2>4. T + L \in 0 .. T + L
    BY <1>1, <1>2
  <2>5. <<>> \in Seq(Fetch(E)) /\ Len(<<>>) = 0
    OBVIOUS
  <2>6. \A n \in 0 .. Len(r.fetches) : n = 0
    BY <2>1, <2>5
  <2> QED BY <1>3, <1>5, <2>1, <2>2, <2>3, <2>4, <2>5, <2>6 DEF PlanFine, r
<1>8. CASE c < T + L
  <2>1. r.fetches = Append(p.fetches, f)
    BY <1>1, <1>2, <1>5, <1>8
  <2>2. /\ r.fetches \in Seq(Fetch(E)) /\ Len(r.fetches) = Len(p.fetches) + 1
        /\ Len(p.fetches) \in Nat
    BY <1>4, <1>6, <2>1
  <2>3. ASSUME NEW n \in 0 .. Len(p.fetches)
        PROVE  \E m \in 0 .. T + L :
                 /\ Batch(r.fetches, n) = SubSeq(Events(q) \o g.evs, c + 1, m)
                 /\ n = Len(r.fetches) => m = T + L
    <3>1. PICK m \in 0 .. T : Batch(p.fetches, n) = SubSeq(Events(q), c + 1, m)
      BY <1>2, <2>3 DEF PlanFine
    <3>2. Batch(r.fetches, n) = Batch(p.fetches, n)
      BY <1>4, <1>6, <2>1, BatchSteps
    <3>3. SubSeq(Events(q) \o g.evs, c + 1, m) = SubSeq(Events(q), c + 1, m)
      BY <1>1, <1>2, PartOfFirst, c + 1 \in Nat \ {0}
    <3>4. n # Len(r.fetches) /\ m \in 0 .. T + L
      BY <1>1, <1>2, <2>2
    <3> QED BY <3>1, <3>2, <3>3, <3>4
  <2>4. Batch(r.fetches, Len(r.fetches)) = SubSeq(Events(q) \o g.evs, c + 1, T + L)
    <3>1. Batch(r.fetches, Len(r.fetches)) = AddFetched(Batch(p.fetches, Len(p.fetches)), f)
      BY <1>4, <1>6, <2>1, <2>2, BatchSteps
    <3>2. CASE c <= T
      <4>1. Batch(p.fetches, Len(p.fetches)) = SubSeq(Events(q), c + 1, T)
        BY <1>2, <2>2, Len(p.fetches) \in 0 .. Len(p.fetches) DEF PlanFine
      <4>2. SubSeq(g.evs, f.skip + 1, L) = g.evs
        BY <1>1, <1>2, <1>6, <3>2, SubSeqFull
      <4>3. AddFetched(Batch(p.fetches, Len(p.fetches)), f) = SubSeq(Events(q), c + 1, T) \o g.evs
        BY <1>6, <4>1, <4>2 DEF AddFetched
      <4>4. SubSeq(Events(q) \o g.evs, c + 1, T + L) = SubSeq(Events(q), c + 1, T) \o g.evs
        BY <1>1, <1>2, <3>2, PartOfBoth, c + 1 \in 1 .. Len(Events(q)) + 1
      <4> QED BY <3>1, <4>3, <4>4
    <3>3. CASE c > T
      <4>1. p.fetches = <<>> /\ Len(p.fetches) = 0
        BY <1>2, <3>3 DEF PlanFine
      <4>2. Batch(p.fetches, Len(p.fetches)) = <<>>
        BY <4>1, BatchSteps
      <4>3. AddFetched(<<>>, f) = <<>> \o SubSeq(g.evs, c - T + 1, L)
        BY <1>2, <1>6, <3>3 DEF AddFetched
      <4>4. SubSeq(g.evs, c - T + 1, L) \in Seq(E) /\ (c + 1) - T = c - T + 1
        BY <1>1, <1>2, <3>3
      <4>5. <<>> \o SubSeq(g.evs, c - T + 1, L) = SubSeq(g.evs, c - T + 1, L)
        BY <4>4, ConcatEmptySeq
      <4>6. SubSeq(Events(q) \o g.evs, c + 1, T + L) = SubSeq(g.evs, (c + 1) - T, L)
        <5>1. /\ c + 1 \in Nat /\ c + 1 > Len(Events(q)) /\ c + 1 <= Len(Events(q)) + Len(g.evs)
              /\ Len(Events(q)) + Len(g.evs) = T + L
          BY <1>1, <1>2, <1>8, <3>3
        <5> HIDE DEF T, L
        <5>2. SubSeq(Events(q) \o g.evs, c + 1, Len(Events(q)) + Len(g.evs))
                = SubSeq(g.evs, (c + 1) - Len(Events(q)), Len(g.evs))
          BY <1>1, <1>2, <5>1, PartOfSecond
        <5>3. Len(Events(q)) = T /\ Len(g.evs) = L
          BY <1>2 DEF L
        <5> QED BY <5>2, <5>3, Zenon
      <4> HIDE DEF T, L
      <4> QED BY <3>1, <4>2, <4>3, <4>4, <4>5, <4>6, Zenon
    <3>4. c <= T \/ c > T
      BY <1>2
    <3> QED BY <3>2, <3>3, <3>4, Zenon
  <2>5. ASSUME NEW n \in 0 .. Len(r.fetches)
        PROVE  \E m \in 0 .. T + L :
                 /\ Batch(r.fetches, n) = SubSeq(Events(q) \o g.evs, c + 1, m)
                 /\ n = Len(r.fetches) => m = T + L
    <3>1. CASE n \in 0 .. Len(p.fetches)
      BY <2>3, <3>1
    <3>2. CASE n = Len(r.fetches)
      BY <1>1, <1>2, <2>4, <3>2, T + L \in 0 .. T + L
    <3>3. n \in 0 .. Len(p.fetches) \/ n = Len(r.fetches)
      BY <2>2
    <3> QED BY <3>1, <3>2, <3>3
  <2>6. ~(c >= T + L)
    BY <1>1, <1>2, <1>8
  <2> QED BY <1>3, <1>5, <2>2, <2>5, <2>6 DEF PlanFine, r
<1> QED BY <1>1, <1>2, <1>7, <1>8

\* The fetches of a pull, carried out up to any point, give exactly the events of the
\* group after the c events the shard holds; all of them give the whole rest
\* (planPull, and the loop over the plan that a cut or an error may leave early).
LEMMA PlanPullBatch ==
  ASSUME NEW E, NEW c \in Nat, NEW group \in Seq(SegmentOf(E))
  PROVE  /\ PlanPull(c, group) \in Seq(Fetch(E))
         /\ \A n \in 0 .. Len(PlanPull(c, group)) : \E m \in 0 .. Total(group) :
              /\ Batch(PlanPull(c, group), n) = SubSeq(Events(group), c + 1, m)
              /\ n = Len(PlanPull(c, group)) => m = Total(group)
<1> DEFINE G == SegmentOf(E)
           S == {q \in Seq(G) : PlanFine(E, c, q, PlanOf(c, q))}
<1>1. <<>> \in S
  <2>1. PlanOf(c, <<>>) = Start(c) /\ Total(<<>>) = 0 /\ Events(<<>>) = <<>>
    BY PlanSteps, TotalSteps, EventsSteps
  <2>2. Batch(<<>>, 0) = <<>> /\ SubSeq(<<>>, c + 1, 0) = <<>>
    BY BatchSteps, SubSeqEmpty
  <2>3. <<>> \in Seq(Fetch(E)) /\ Len(<<>>) = 0 /\ 0 \in 0 .. 0 /\ \A n \in 0 .. 0 : n = 0
    OBVIOUS
  <2>4. PlanFine(E, c, <<>>, Start(c))
    BY <2>1, <2>2, <2>3 DEF PlanFine, Start
  <2>5. <<>> \in Seq(G)
    OBVIOUS
  <2> QED BY <2>1, <2>4, <2>5, Zenon
<1>2. ASSUME NEW q \in Seq(G), NEW g \in G, q \in S PROVE Append(q, g) \in S
  <2>1. PlanOf(c, Append(q, g)) = PlanSegment(PlanOf(c, q), g)
    BY PlanSteps
  <2>2. PlanFine(E, c, Append(q, g), PlanSegment(PlanOf(c, q), g))
    BY <1>2, PlanFineSteps
  <2>3. Append(q, g) \in Seq(G)
    OBVIOUS
  <2> QED BY <2>1, <2>2, <2>3
<1> HIDE DEF S, G
<1>3. \A q \in Seq(G) : q \in S
  BY <1>1, <1>2, Count!SeqInduction
<1>4. PlanFine(E, c, group, PlanOf(c, group))
  BY <1>3 DEF S, G
<1>5. PlanPull(c, group) = PlanOf(c, group).fetches
  BY Zenon DEF PlanPull, PlanOf, Start
<1> QED BY <1>4, <1>5 DEF PlanFine

------------------------------------------------------------------------------
(* The grouping of a listing.                                              *)

\* q lists the segments of install i, which are numbered from 1 on without a gap or a
\* repetition.
Numbered(q, segs, i) ==
  /\ \A k \in DOMAIN q : q[k] \in segs /\ q[k].inst = i /\ q[k].seq = k
  /\ \A g \in segs : g.inst = i => g.seq \in DOMAIN q /\ q[g.seq] = g

\* A set numbered 1 to n has n elements.
LEMMA CountTo ==
  ASSUME NEW n \in Nat, NEW S, NEW f \in [1 .. n -> S],
         \A x \in S : \E k \in 1 .. n : f[k] = x,
         \A j, k \in 1 .. n : f[j] = f[k] => j = k
  PROVE  IsFiniteSet(S) /\ Cardinality(S) = n
<1>1. f \in Bijection(1 .. n, S)
  BY DEF Bijection, Injection, Surjection, IsInjective
<1>2. ExistsBijection(1 .. n, S)
  BY <1>1 DEF ExistsBijection
<1> QED
  BY <1>2, FS_CountingElements, FS_NatBijection

\* A list of the segments of an install by ascending number is what GroupSegments
\* gives, whatever the set they are picked from.
LEMMA GroupIs ==
  ASSUME NEW E, NEW q \in Seq(SegmentOf(E)), NEW segs, NEW i, Numbered(q, segs, i)
  PROVE  GroupSegments(segs, i) = q
<1> DEFINE own == {g \in segs : g.inst = i}
           n == Len(q)
           before(g) == {h \in own : InOrder(h, g)}
<1>1. n \in Nat /\ DOMAIN q = 1 .. n /\ \A k \in 1 .. n : q[k] \in SegmentOf(E)
  OBVIOUS
<1>2. \A k \in 1 .. n : q[k] \in own /\ q[k].seq = k
  BY <1>1 DEF Numbered
<1>3. \A g \in own : g.seq \in 1 .. n /\ q[g.seq] = g
  BY <1>1 DEF Numbered
<1>4. q \in [1 .. n -> own]
  BY <1>1, <1>2
<1> HIDE DEF own, n
<1>5. Cardinality(own) = n
  <2>1. \A x \in own : \E k \in 1 .. n : q[k] = x
    BY <1>3
  <2>2. \A j, k \in 1 .. n : q[j] = q[k] => j = k
    <3>1. SUFFICES ASSUME NEW j \in 1 .. n, NEW k \in 1 .. n, q[j] = q[k] PROVE j = k
      BY Zenon
    <3>2. q[j].seq = j /\ q[k].seq = k
      BY <1>2
    <3> QED BY <3>1, <3>2, Zenon
  <2>3. n \in Nat
    BY <1>1
  <2> QED BY <1>4, <2>1, <2>2, <2>3, CountTo
<1>6. ASSUME NEW k \in 1 .. n PROVE Cardinality(before(q[k])) = k - 1
  <2> DEFINE S == before(q[k])
             f == [j \in 1 .. k - 1 |-> q[j]]
  <2>1. k - 1 \in Nat /\ \A j \in 1 .. k - 1 : j \in 1 .. n /\ j < k
    BY <1>1
  <2>2. ASSUME NEW j \in 1 .. k - 1 PROVE q[j] \in S
    BY <1>2, <2>1 DEF InOrder
  <2>3. ASSUME NEW g \in S PROVE g.seq \in 1 .. k - 1 /\ q[g.seq] = g
    <3>1. g \in own /\ InOrder(g, q[k])
      OBVIOUS
    <3>2. g.seq \in 1 .. n /\ q[g.seq] = g
      BY <1>3, <3>1
    <3>3. g.seq # k
      <4>1. SUFFICES ASSUME g.seq = k PROVE FALSE
        OBVIOUS
      <4>2. g = q[k]
        BY <3>2, <4>1
      <4>3. q[k].evs \in Seq(E)
        BY <1>1 DEF SegmentOf
      <4>4. Len(q[k].evs) \in Nat /\ q[k].seq = k
        BY <1>2, <4>3
      <4> QED BY <1>1, <3>1, <4>2, <4>4 DEF InOrder
    <3>4. g.seq <= k
      BY <1>1, <1>2, <3>1, <3>2 DEF InOrder
    <3> QED BY <1>1, <3>2, <3>3, <3>4
  <2>4. f \in [1 .. k - 1 -> S]
    BY <2>2
  <2>5. \A x \in S : \E j \in 1 .. k - 1 : f[j] = x
    BY <2>3
  <2>6. \A j, l \in 1 .. k - 1 : f[j] = f[l] => j = l
    BY <1>2, <2>1
  <2> HIDE DEF S, f
  <2>7. Cardinality(S) = k - 1
    BY <2>1, <2>4, <2>5, <2>6, CountTo
  <2> QED BY <2>7 DEF S
<1> HIDE DEF before
<1>7. ASSUME NEW k \in 1 .. n
      PROVE  (CHOOSE g \in own : Cardinality(before(g)) = k - 1) = q[k]
  <2>1. \E g \in own : Cardinality(before(g)) = k - 1
    BY <1>2, <1>6
  <2>2. ASSUME NEW g \in own, Cardinality(before(g)) = k - 1 PROVE g = q[k]
    <3>1. g.seq \in 1 .. n /\ q[g.seq] = g
      BY <1>3
    <3>2. Cardinality(before(q[g.seq])) = g.seq - 1
      BY <1>6, <3>1
    <3>3. g.seq = k
      BY <1>1, <2>2, <3>1, <3>2
    <3> QED BY <3>1, <3>3
  <2> QED BY <2>1, <2>2
<1>8. GroupSegments(segs, i) = [k \in 1 .. n |-> CHOOSE g \in own : Cardinality(before(g)) = k - 1]
  BY <1>5, Zenon DEF GroupSegments, own, before
<1>9. [k \in 1 .. n |-> CHOOSE g \in own : Cardinality(before(g)) = k - 1] = [k \in 1 .. n |-> q[k]]
  BY <1>7
<1>10. q = [k \in 1 .. n |-> q[k]]
  BY <1>4
<1> QED BY <1>8, <1>9, <1>10

------------------------------------------------------------------------------
(* Hash chains.                                                            *)

\* The maximum of a nonempty set of numbers is one of them and no less than any.
LEMMA LargestElement ==
  ASSUME NEW n \in Nat, NEW S \in SUBSET (0 .. n), S # {}
  PROVE  Max(S) \in S /\ \A k \in S : k <= Max(S)
<1>1. Count!Max(S) = Max(S)
  BY Zenon DEF Max, Count!Max
<1> QED
  BY <1>1, Count!LargestElement

\* Only a sequence of one element has nothing in front.
LEMMA FrontEmpty ==
  ASSUME NEW D, NEW e \in Seq(D), Len(e) > 0, SubSeq(e, 1, Len(e) - 1) = <<>>
  PROVE  Len(e) = 1
<1>1. Len(e) \in Nat /\ Len(e) - 1 \in 0 .. Len(e)
  OBVIOUS
<1>2. Len(SubSeq(e, 1, Len(e) - 1)) = IF 1 <= Len(e) - 1 THEN Len(e) - 1 ELSE 0
  BY <1>1, SubSeqProperties
<1>3. Len(SubSeq(e, 1, Len(e) - 1)) = Len(<<>>)
  BY Zenon
<1>4. Len(<<>>) = 0
  OBVIOUS
<1>5. ASSUME NEW n \in Nat, n > 0, NEW m \in Nat, m = IF 1 <= n - 1 THEN n - 1 ELSE 0, m = 0 PROVE n = 1
  BY <1>5
<1>6. Len(SubSeq(e, 1, Len(e) - 1)) = 0
  BY <1>3, <1>4, Zenon
<1> QED BY <1>1, <1>2, <1>5, <1>6, Zenon

\* An event is as long as its position says, and holds all events before it.
LEMMA ChainShape ==
  ASSUME NEW D, NEW s \in Seq(Seq(D) \ {<<>>}), IsChain(s)
  PROVE  \A k \in 1 .. Len(s) : /\ Len(s[k]) = k
                                /\ \A j \in 1 .. k : s[j] = SubSeq(s[k], 1, j)
<1> DEFINE Fine(k) == /\ Len(s[k]) = k
                      /\ \A j \in 1 .. k : s[j] = SubSeq(s[k], 1, j)
           S == {k \in Nat : k + 1 \in 1 .. Len(s) => Fine(k + 1)}
<1>1. \A k \in 1 .. Len(s) : /\ s[k] \in Seq(D) /\ s[k] # <<>> /\ Len(s[k]) \in Nat /\ Len(s[k]) > 0
                             /\ SubSeq(s[k], 1, Len(s[k]) - 1) = IF k = 1 THEN <<>> ELSE s[k - 1]
  BY DEF IsChain, ParentHash, Front
<1>2. 0 \in S
  <2>1. SUFFICES ASSUME 1 \in 1 .. Len(s) PROVE Fine(1)
    <3>1. 0 \in Nat /\ 0 + 1 = 1
      OBVIOUS
    <3> QED BY <3>1
  <2>2. s[1] \in Seq(D) /\ Len(s[1]) \in Nat /\ SubSeq(s[1], 1, Len(s[1]) - 1) = <<>> /\ Len(s[1]) > 0
    BY <1>1, <2>1
  <2>3. Len(s[1]) = 1
    BY <2>2, FrontEmpty
  <2>4. SubSeq(s[1], 1, 1) = s[1]
    BY <2>2, <2>3, SubSeqFull
  <2> QED BY <2>3, <2>4
<1>3. ASSUME NEW k \in Nat, k \in S PROVE k + 1 \in S
  <2>1. SUFFICES ASSUME k + 2 \in 1 .. Len(s) PROVE Fine(k + 2)
    OBVIOUS
  <2>2. Fine(k + 1) /\ k + 1 \in 1 .. Len(s)
    BY <1>3, <2>1
  <2> DEFINE e == s[k + 2]
  <2>3. e \in Seq(D) /\ Len(e) \in Nat /\ Len(e) > 0 /\ SubSeq(e, 1, Len(e) - 1) = s[k + 1]
    BY <1>1, <2>1
  <2>4. Len(e) = k + 2
    BY <2>2, <2>3
  <2>5. ASSUME NEW j \in 1 .. k + 1 PROVE s[j] = SubSeq(e, 1, j)
    <3>1. s[j] = SubSeq(SubSeq(e, 1, k + 1), 1, j)
      BY <2>2, <2>3, <2>4
    <3> QED BY <2>3, <2>4, <3>1
  <2>6. s[k + 2] = SubSeq(e, 1, k + 2)
    BY <2>3, <2>4, SubSeqFull
  <2> QED BY <2>4, <2>5, <2>6
<1> HIDE DEF S, Fine
<1>4. \A k \in Nat : k \in S
  BY <1>2, <1>3, Count!SetInduction
<1>5. ASSUME NEW k \in 1 .. Len(s) PROVE Fine(k)
  <2>1. k - 1 \in Nat /\ (k - 1) + 1 = k
    OBVIOUS
  <2> QED BY <1>4, <2>1 DEF S
<1> QED BY <1>5 DEF Fine

\* Two chains that agree at a position agree on everything before it.
LEMMA ChainsAgree ==
  ASSUME NEW D, NEW s \in Seq(Seq(D) \ {<<>>}), NEW t \in Seq(Seq(D) \ {<<>>}), IsChain(s), IsChain(t),
         NEW k \in 1 .. Len(s), k \in 1 .. Len(t), s[k] = t[k]
  PROVE  \A j \in 1 .. k : s[j] = t[j]
BY ChainShape

\* A beginning of a chain is a chain.
LEMMA PrefixIsChain ==
  ASSUME NEW X, NEW s \in Seq(X), NEW t \in Seq(X), IsPrefix(s, t), IsChain(t)
  PROVE  IsChain(s)
<1>1. Len(s) <= Len(t) /\ \A k \in 1 .. Len(s) : s[k] = t[k]
  BY PrefixByElements
<1>2. DOMAIN s = 1 .. Len(s) /\ DOMAIN t = 1 .. Len(t) /\ Len(s) \in Nat /\ Len(t) \in Nat
  OBVIOUS
<1>3. ASSUME NEW k \in 1 .. Len(s)
      PROVE  ParentHash(s[k]) = IF k = 1 THEN <<>> ELSE s[k - 1]
  <2>1. k \in 1 .. Len(t) /\ s[k] = t[k] /\ (k # 1 => s[k - 1] = t[k - 1])
    BY <1>1, <1>2
  <2> QED BY <1>2, <2>1 DEF IsChain
<1> QED BY <1>2, <1>3 DEF IsChain

\* AppendForeign keeps a chain a chain.
LEMMA ConcatIsChain ==
  ASSUME NEW X, NEW s \in Seq(X), NEW b \in Seq(X), IsChain(s), ContinuesChain(s, b)
  PROVE  IsChain(s \o b)
<1>1. /\ s \o b \in Seq(X) /\ Len(s \o b) = Len(s) + Len(b) /\ Len(s) \in Nat /\ Len(b) \in Nat
      /\ \A k \in 1 .. Len(s) + Len(b) : (s \o b)[k] = IF k <= Len(s) THEN s[k] ELSE b[k - Len(s)]
  BY ConcatProperties, LenProperties
<1>2. ASSUME NEW k \in 1 .. Len(s) + Len(b)
      PROVE  ParentHash((s \o b)[k]) = IF k = 1 THEN <<>> ELSE (s \o b)[k - 1]
  <2>1. CASE k <= Len(s)
    <3>1. k \in DOMAIN s /\ (s \o b)[k] = s[k] /\ (k # 1 => (s \o b)[k - 1] = s[k - 1])
      BY <1>1, <2>1
    <3> QED BY <3>1 DEF IsChain
  <2>2. CASE k > Len(s)
    <3> DEFINE j == k - Len(s)
    <3>1. j \in 1 .. Len(b) /\ j \in DOMAIN b /\ (s \o b)[k] = b[j]
      BY <1>1, <2>2
    <3>2. ParentHash(b[j]) = IF j = 1 THEN TailHash(s) ELSE b[j - 1]
      BY <3>1 DEF ContinuesChain
    <3>3. CASE j = 1
      <4>1. k = Len(s) + 1
        BY <1>1, <3>3
      <4>2. CASE s = <<>>
        BY <3>1, <3>2, <3>3, <4>1, <4>2 DEF TailHash
      <4>3. CASE s # <<>>
        <5>1. k - 1 \in 1 .. Len(s) + Len(b) /\ k - 1 = Len(s) /\ k # 1
          BY <1>1, <4>1, <4>3
        <5>2. (s \o b)[k - 1] = s[Len(s)]
          BY <1>1, <5>1
        <5>3. TailHash(s) = s[Len(s)]
          BY <4>3 DEF TailHash, Last
        <5> QED BY <3>1, <3>2, <3>3, <5>1, <5>2, <5>3
      <4> QED BY <4>2, <4>3
    <3>4. CASE j # 1
      <4>1. k # 1 /\ k - 1 \in 1 .. Len(s) + Len(b) /\ ~(k - 1 <= Len(s)) /\ (k - 1) - Len(s) = j - 1
        BY <1>1, <2>2, <3>4
      <4>2. (s \o b)[k - 1] = b[j - 1]
        BY <1>1, <4>1
      <4> QED BY <3>1, <3>2, <3>4, <4>1, <4>2
    <3> QED BY <3>3, <3>4
  <2> QED BY <1>1, <2>1, <2>2
<1>3. DOMAIN (s \o b) = 1 .. Len(s) + Len(b)
  BY <1>1
<1> QED BY <1>2, <1>3 DEF IsChain

\* Agreement is a position up to which the two versions agree.
LEMMA AgreementIs ==
  ASSUME NEW X, NEW s \in Seq(X), NEW t \in Seq(X)
  PROVE  LET a == Agreement(s, t)
         IN  a \in Nat /\ a <= Len(s) /\ a <= Len(t) /\ \A j \in 1 .. a : s[j] = t[j]
<1> DEFINE n == IF Len(s) < Len(t) THEN Len(s) ELSE Len(t)
           K == {k \in 0 .. n : \A j \in 1 .. k : s[j] = t[j]}
<1>1. n \in Nat /\ n <= Len(s) /\ n <= Len(t)
  OBVIOUS
<1>2. 0 \in K
  BY <1>1
<1>3. K \in SUBSET (0 .. n) /\ K # {}
  BY <1>2
<1>4. Agreement(s, t) = Max(K)
  BY Zenon DEF Agreement
<1> HIDE DEF n
<1>5. Max(K) \in K
  BY <1>1, <1>3, LargestElement, Zenon
<1> QED BY <1>1, <1>4, <1>5

\* GroupSegments lists the segments of an install, when no two of them share a key.
LEMMA GroupTyped ==
  ASSUME NEW E, NEW segs \in SUBSET SegmentOf(E), IsFiniteSet(segs), NEW i,
         \A g, h \in segs : g.inst = h.inst /\ g.seq = h.seq /\ Len(g.evs) = Len(h.evs) => g = h
  PROVE  /\ GroupSegments(segs, i) \in Seq(SegmentOf(E))
         /\ \A k \in 1 .. Len(GroupSegments(segs, i)) :
              GroupSegments(segs, i)[k] \in segs /\ GroupSegments(segs, i)[k].inst = i
<1> DEFINE own == {g \in segs : g.inst = i}
           n == Cardinality(own)
           before(g) == {h \in own : InOrder(h, g)}
           rank == [g \in own |-> Cardinality(before(g))]
<1>1. \A g \in own : g \in segs /\ g \in SegmentOf(E) /\ g.inst = i
  OBVIOUS
<1>2. IsFiniteSet(own) /\ n \in Nat
  <2>1. own \in SUBSET segs
    OBVIOUS
  <2> HIDE DEF own
  <2> QED BY <2>1, FS_Subset, FS_CardinalityType
<1>3. \A g \in own : g.seq \in Nat /\ Len(g.evs) \in Nat
  <2>1. SUFFICES ASSUME NEW g \in own PROVE g.seq \in Nat /\ Len(g.evs) \in Nat
    BY Zenon
  <2>2. g.seq \in Nat /\ g.evs \in Seq(E)
    BY DEF SegmentOf
  <2> QED BY <2>2
<1>4. \A g, h \in own : g # h => g.seq # h.seq \/ Len(g.evs) # Len(h.evs)
  BY <1>1
<1> HIDE DEF own
<1>5. \A g, h \in own : g # h => InOrder(g, h) \/ InOrder(h, g)
  BY <1>3, <1>4 DEF InOrder
<1>6. \A g, h, k \in own : InOrder(g, h) /\ InOrder(h, k) => InOrder(g, k)
  BY <1>3 DEF InOrder
<1>7. \A g \in own : ~InOrder(g, g)
  BY <1>3 DEF InOrder
<1>8. ASSUME NEW g \in own
      PROVE  IsFiniteSet(before(g)) /\ Cardinality(before(g)) \in 0 .. n - 1
  <2>1. before(g) \in SUBSET (own \ {g})
    BY <1>7
  <2>2. IsFiniteSet(own \ {g}) /\ Cardinality(own \ {g}) = n - 1
    BY <1>2, FS_RemoveElement
  <2> HIDE DEF before
  <2>3. IsFiniteSet(before(g)) /\ Cardinality(before(g)) <= n - 1
    BY <2>1, <2>2, FS_Subset
  <2>4. Cardinality(before(g)) \in Nat
    BY <2>3, FS_CardinalityType
  <2> HIDE DEF n
  <2> QED BY <1>2, <2>3, <2>4
<1>9. ASSUME NEW g \in own, NEW h \in own, InOrder(g, h)
      PROVE  Cardinality(before(g)) # Cardinality(before(h))
  <2>1. before(g) \in SUBSET (before(h) \ {g})
    <3>1. SUFFICES ASSUME NEW k \in before(g) PROVE k \in before(h) \ {g}
      BY Zenon
    <3>2. k \in own /\ InOrder(k, g)
      OBVIOUS
    <3> QED BY <1>6, <1>7, <1>9, <3>2
  <2>2. g \in before(h)
    BY <1>9
  <2>3. /\ IsFiniteSet(before(h)) /\ Cardinality(before(h)) \in Nat
        /\ Cardinality(before(g)) \in Nat
    <3> HIDE DEF before, n
    <3>1. \A m \in 0 .. n - 1 : m \in Nat
      BY <1>2
    <3> QED BY <1>8, <3>1
  <2> HIDE DEF before, n
  <2>4. /\ IsFiniteSet(before(h) \ {g})
        /\ Cardinality(before(h) \ {g}) = Cardinality(before(h)) - 1
    BY <2>2, <2>3, FS_RemoveElement
  <2>5. Cardinality(before(g)) <= Cardinality(before(h)) - 1
    BY <2>1, <2>4, FS_Subset
  <2> QED BY <2>3, <2>5
<1> HIDE DEF before
<1>10. \A k \in 1 .. n : \E g \in own : Cardinality(before(g)) = k - 1
  <2>1. rank \in [own -> 0 .. n - 1]
    BY <1>8
  <2>2. \A g, h \in own : rank[g] = rank[h] => g = h
    <3>1. SUFFICES ASSUME NEW g \in own, NEW h \in own, rank[g] = rank[h] PROVE g = h
      BY Zenon
    <3>2. Cardinality(before(g)) = Cardinality(before(h))
      BY <3>1
    <3> QED BY <1>5, <1>9, <3>2
  <2>3. rank \in Injection(own, 0 .. n - 1)
    BY <2>1, <2>2 DEF Injection, IsInjective
  <2>4. IsFiniteSet(0 .. n - 1) /\ Cardinality(0 .. n - 1) = n
    <3> HIDE DEF n
    <3>1. IsFiniteSet(0 .. n - 1) /\ Cardinality(0 .. n - 1) = IF 0 > n - 1 THEN 0 ELSE (n - 1) - 0 + 1
      BY <1>2, FS_Interval
    <3> QED BY <1>2, <3>1
  <2>5. rank \in Surjection(own, 0 .. n - 1)
    <3> HIDE DEF rank
    <3> QED BY <2>3, <2>4, FS_Injection
  <2>6. ASSUME NEW k \in 1 .. n PROVE \E g \in own : Cardinality(before(g)) = k - 1
    <3>1. k - 1 \in 0 .. n - 1
      BY <1>2
    <3>2. \E g \in own : rank[g] = k - 1
      <4> HIDE DEF rank
      <4> QED BY <2>5, <3>1 DEF Surjection
    <3> QED BY <3>2
  <2> QED BY <2>6
<1>11. GroupSegments(segs, i) = [k \in 1 .. n |-> CHOOSE g \in own : Cardinality(before(g)) = k - 1]
  BY Zenon DEF GroupSegments, own, before
<1>12. \A k \in 1 .. n : (CHOOSE g \in own : Cardinality(before(g)) = k - 1) \in own
  BY <1>10
<1> HIDE DEF n
<1>13. \A k \in 1 .. n : GroupSegments(segs, i)[k] \in own
  BY <1>11, <1>12
<1>14. GroupSegments(segs, i) \in Seq(SegmentOf(E)) /\ Len(GroupSegments(segs, i)) = n
  <2> DEFINE q == GroupSegments(segs, i)
  <2>1. q \in [1 .. n -> SegmentOf(E)]
    BY <1>1, <1>11, <1>13
  <2> HIDE DEF q
  <2>2. q \in Seq(SegmentOf(E)) /\ Len(q) = n
    BY <1>2, <2>1
  <2> QED BY <2>2 DEF q
<1> QED
  BY <1>1, <1>13, <1>14

\* Finitely many numbers have a largest one.
LEMMA LargestOfMany ==
  ASSUME NEW n \in Nat \ {0}, NEW f \in [1 .. n -> Nat]
  PROVE  LET S == {f[i] : i \in 1 .. n}
         IN  Max(S) \in Nat /\ \A i \in 1 .. n : f[i] <= Max(S)
<1> DEFINE Bounded(k) == \E m \in Nat : \A i \in 1 .. n : i <= k => f[i] <= m
           K == {k \in Nat : Bounded(k)}
           S == {f[i] : i \in 1 .. n}
<1>1. 0 \in K
  <2>1. \A i \in 1 .. n : ~(i <= 0)
    OBVIOUS
  <2> QED BY <2>1
<1>2. ASSUME NEW k \in Nat, k \in K PROVE k + 1 \in K
  <2>1. PICK m \in Nat : \A i \in 1 .. n : i <= k => f[i] <= m
    BY <1>2
  <2>2. CASE k + 1 \in 1 .. n
    <3> DEFINE l == IF f[k + 1] > m THEN f[k + 1] ELSE m
    <3>1. l \in Nat /\ \A i \in 1 .. n : i <= k + 1 => f[i] <= l
      <4>1. f[k + 1] \in Nat
        BY <2>2
      <4>2. ASSUME NEW i \in 1 .. n, i <= k + 1 PROVE f[i] <= l
        <5>1. f[i] \in Nat /\ (i = k + 1 \/ i <= k)
          BY <4>2
        <5> QED BY <2>1, <4>1, <5>1
      <4> QED BY <4>1, <4>2
    <3> HIDE DEF l
    <3>2. Bounded(k + 1)
      BY <3>1
    <3> QED BY <3>2
  <2>3. CASE k + 1 \notin 1 .. n
    <3>1. \A i \in 1 .. n : i <= k + 1 => i <= k
      BY <2>3
    <3>2. Bounded(k + 1)
      BY <2>1, <3>1
    <3> QED BY <3>2
  <2> QED BY <2>2, <2>3
<1> HIDE DEF K
<1>3. \A k \in Nat : k \in K
  BY <1>1, <1>2, Count!SetInduction
<1>4. PICK m \in Nat : \A i \in 1 .. n : i <= n => f[i] <= m
  BY <1>3 DEF K
<1>5. S \in SUBSET (0 .. m) /\ S # {}
  <2>1. \A i \in 1 .. n : f[i] \in 0 .. m
    BY <1>4
  <2>2. f[1] \in S
    OBVIOUS
  <2> QED BY <2>1, <2>2
<1>6. \A i \in 1 .. n : f[i] \in S
  OBVIOUS
<1> HIDE DEF S
<1>7. Max(S) \in S /\ \A x \in S : x <= Max(S)
  BY <1>5, LargestElement
<1>8. Max(S) \in Nat /\ \A i \in 1 .. n : f[i] <= Max(S)
  <2>1. Max(S) \in Nat
    <3>1. Max(S) \in 0 .. m
      BY <1>5, <1>7, Zenon
    <3> QED BY <3>1
  <2> QED BY <1>6, <1>7, <2>1, Zenon
<1> QED BY <1>8 DEF S

\* The highest sequence number of a group is a number.
LEMMA LastSeqTyped ==
  ASSUME NEW E, NEW group \in Seq(SegmentOf(E))
  PROVE  LastSeq(group) \in Nat
<1> DEFINE G == SegmentOf(E)
           S == {q \in Seq(G) : LastSeq(q) \in Nat}
<1>1. <<>> \in S
  <2>1. <<>> \in Seq(G) /\ 0 \in Nat
    OBVIOUS
  <2> QED BY <2>1, LastSeqSteps, Zenon
<1>2. ASSUME NEW q \in Seq(G), NEW g \in G, q \in S PROVE Append(q, g) \in S
  <2>0. LastSeq(Append(q, g)) = HigherSeq(LastSeq(q), g)
    BY LastSeqSteps
  <2>1. LastSeq(Append(q, g)) = HigherSeq(LastSeq(q), g) /\ g.seq \in Nat
    BY <2>0 DEF SegmentOf
  <2>2. LastSeq(q) \in Nat /\ Append(q, g) \in Seq(G)
    BY <1>2
  <2>3. LastSeq(Append(q, g)) \in Nat
    BY <2>1, <2>2 DEF HigherSeq
  <2> QED BY <2>2, <2>3
<1> HIDE DEF S, G
<1>3. \A q \in Seq(G) : q \in S
  BY <1>1, <1>2, Count!SeqInduction
<1> QED BY <1>3 DEF S, G

\* A beginning of such a part is one.
LEMMA PartOfPart ==
  ASSUME NEW X, NEW s \in Seq(X), NEW c \in Nat, NEW m \in 0 .. Len(s),
         NEW n \in 1 .. Len(SubSeq(s, c + 1, m))
  PROVE  c + n \in 0 .. m /\ SubSeq(SubSeq(s, c + 1, m), 1, n) = SubSeq(s, c + 1, c + n)
<1> DEFINE b == SubSeq(s, c + 1, m)
           u == SubSeq(b, 1, n)
           v == SubSeq(s, c + 1, c + n)
<1>1. /\ b \in Seq(X) /\ Len(b) = (IF c + 1 <= m THEN m - c ELSE 0)
      /\ \A k \in 1 .. m - c : b[k] = s[c + k]
  OBVIOUS
<1>2. c + 1 <= m /\ Len(b) = m - c /\ n \in 1 .. m - c
  <2> HIDE DEF b
  <2> QED BY <1>1 DEF b
<1> HIDE DEF b
<1>3. /\ u \in Seq(X) /\ Len(u) = n /\ \A k \in 1 .. n : u[k] = b[k]
  BY <1>1, <1>2
<1>4. /\ v \in Seq(X) /\ Len(v) = n /\ \A k \in 1 .. n : v[k] = s[c + k]
  <2>1. n \in Nat /\ c + 1 \in Int /\ c + n \in Int /\ c + 1 <= c + n /\ c + n <= Len(s) /\ c + 1 >= 1
    BY <1>2
  <2>2. \A k \in c + 1 .. c + n : s[k] \in X
    BY <2>1
  <2>3. /\ v \in Seq(X) /\ Len(v) = (c + n) - (c + 1) + 1
        /\ \A k \in 1 .. (c + n) - (c + 1) + 1 : v[k] = s[(c + 1) + k - 1]
    BY <2>1, <2>2, SubSeqProperties
  <2> HIDE DEF v
  <2>4. (c + n) - (c + 1) + 1 = n /\ \A k \in 1 .. n : (c + 1) + k - 1 = c + k
    BY <2>1
  <2> QED BY <2>3, <2>4
<1> HIDE DEF u, v
<1>5. u = v
  <2>1. \A k \in 1 .. n : k \in 1 .. m - c
    BY <1>2
  <2>2. \A k \in 1 .. n : u[k] = v[k]
    BY <1>1, <1>3, <1>4, <2>1, Zenon
  <2> QED BY <1>3, <1>4, <2>2, SeqEqual
<1> QED BY <1>2, <1>5 DEF u, v, b

\* A part of a batch continues the chain the batch continues.
LEMMA ContinuesPart ==
  ASSUME NEW X, NEW b \in Seq(X), NEW n \in 1 .. Len(b), NEW sh, ContinuesChain(sh, b)
  PROVE  ContinuesChain(sh, SubSeq(b, 1, n))
<1>1. /\ SubSeq(b, 1, n) \in Seq(X) /\ Len(SubSeq(b, 1, n)) = n
      /\ \A k \in 1 .. n : SubSeq(b, 1, n)[k] = b[k]
  OBVIOUS
<1>2. DOMAIN b = 1 .. Len(b) /\ DOMAIN SubSeq(b, 1, n) = 1 .. n /\ Len(b) \in Nat
  BY <1>1
<1>3. ASSUME NEW k \in 1 .. n
      PROVE  ParentHash(SubSeq(b, 1, n)[k]) = IF k = 1 THEN TailHash(sh) ELSE SubSeq(b, 1, n)[k - 1]
  <2>1. k \in DOMAIN b /\ SubSeq(b, 1, n)[k] = b[k] /\ (k # 1 => SubSeq(b, 1, n)[k - 1] = b[k - 1])
    BY <1>1, <1>2
  <2> QED BY <2>1 DEF ContinuesChain
<1> QED BY <1>2, <1>3 DEF ContinuesChain

\* A sequence is its beginning and the rest.
LEMMA SplitAt ==
  ASSUME NEW X, NEW a \in Seq(X), NEW s \in Seq(X), IsPrefix(a, s)
  PROVE  a \o SubSeq(s, Len(a) + 1, Len(s)) = s
<1> DEFINE b == SubSeq(s, Len(a) + 1, Len(s))
           u == a \o b
<1>1. Len(a) \in Nat /\ Len(s) \in Nat /\ Len(a) <= Len(s) /\ \A k \in 1 .. Len(a) : a[k] = s[k]
  BY PrefixByElements
<1>2. /\ b \in Seq(X) /\ Len(b) = Len(s) - Len(a)
      /\ \A k \in 1 .. Len(s) - Len(a) : b[k] = s[Len(a) + k]
  BY <1>1
<1> HIDE DEF b
<1>3. /\ u \in Seq(X) /\ Len(u) = Len(s)
      /\ \A k \in 1 .. Len(s) : u[k] = IF k <= Len(a) THEN a[k] ELSE b[k - Len(a)]
  <2>1. /\ u \in Seq(X) /\ Len(u) = Len(a) + Len(b)
        /\ \A k \in 1 .. Len(a) + Len(b) : u[k] = IF k <= Len(a) THEN a[k] ELSE b[k - Len(a)]
    BY <1>2, ConcatProperties
  <2>2. Len(a) + Len(b) = Len(s)
    BY <1>1, <1>2
  <2> QED BY <2>1, <2>2
<1> HIDE DEF u
<1>4. ASSUME NEW k \in 1 .. Len(s) PROVE u[k] = s[k]
  <2>1. CASE k <= Len(a)
    BY <1>1, <1>3, <2>1
  <2>2. CASE ~(k <= Len(a))
    <3>1. k - Len(a) \in 1 .. Len(s) - Len(a) /\ Len(a) + (k - Len(a)) = k
      BY <1>1, <2>2
    <3> QED BY <1>2, <1>3, <2>2, <3>1
  <2> QED BY <2>1, <2>2
<1>5. u = s
  BY <1>3, <1>4, SeqEqual
<1> QED BY <1>5 DEF u, b

\* The next segment of a group keeps it numbered.
LEMMA NumberedAppend ==
  ASSUME NEW E, NEW q \in Seq(SegmentOf(E)), NEW segs, NEW i, Numbered(q, segs, i),
         NEW g \in SegmentOf(E), g.inst = i, g.seq = Len(q) + 1
  PROVE  Numbered(Append(q, g), segs \cup {g}, i)
<1>1. /\ DOMAIN Append(q, g) = 1 .. Len(q) + 1 /\ DOMAIN q = 1 .. Len(q) /\ Len(q) \in Nat
      /\ Append(q, g)[Len(q) + 1] = g /\ \A k \in 1 .. Len(q) : Append(q, g)[k] = q[k]
  OBVIOUS
<1>2. ASSUME NEW k \in 1 .. Len(q) + 1
      PROVE  /\ Append(q, g)[k] \in segs \cup {g} /\ Append(q, g)[k].inst = i
             /\ Append(q, g)[k].seq = k
  <2>1. CASE k \in 1 .. Len(q)
    BY <1>1, <2>1 DEF Numbered
  <2>2. CASE k = Len(q) + 1
    BY <1>1, <2>2
  <2> QED BY <1>1, <2>1, <2>2
<1>3. ASSUME NEW h \in segs \cup {g}, h.inst = i
      PROVE  h.seq \in 1 .. Len(q) + 1 /\ Append(q, g)[h.seq] = h
  <2>1. CASE h = g
    BY <1>1, <2>1
  <2>2. CASE h \in segs
    <3>1. h.seq \in 1 .. Len(q) /\ q[h.seq] = h
      BY <1>1, <1>3, <2>2 DEF Numbered
    <3> QED BY <1>1, <3>1
  <2> QED BY <2>1, <2>2
<1> QED BY <1>1, <1>2, <1>3 DEF Numbered

\* A segment of another install does not.
LEMMA NumberedOther ==
  ASSUME NEW q, NEW segs, NEW i, Numbered(q, segs, i), NEW g, g.inst # i
  PROVE  Numbered(q, segs \cup {g}, i)
BY DEF Numbered

\* Append keeps a chain a chain.
LEMMA AppendIsChain ==
  ASSUME NEW X, NEW s \in Seq(X), NEW e \in X, IsChain(s), ParentHash(e) = TailHash(s)
  PROVE  IsChain(Append(s, e))
<1>1. /\ DOMAIN Append(s, e) = 1 .. Len(s) + 1 /\ DOMAIN s = 1 .. Len(s) /\ Len(s) \in Nat
      /\ Append(s, e)[Len(s) + 1] = e /\ \A k \in 1 .. Len(s) : Append(s, e)[k] = s[k]
  OBVIOUS
<1>2. ASSUME NEW k \in 1 .. Len(s) + 1
      PROVE  ParentHash(Append(s, e)[k]) = IF k = 1 THEN <<>> ELSE Append(s, e)[k - 1]
  <2>1. CASE k \in 1 .. Len(s)
    <3>1. Append(s, e)[k] = s[k] /\ (k # 1 => Append(s, e)[k - 1] = s[k - 1])
      BY <1>1, <2>1
    <3> QED BY <1>1, <2>1, <3>1 DEF IsChain
  <2>2. CASE k = Len(s) + 1
    <3>1. CASE s = <<>>
      BY <1>1, <2>2, <3>1 DEF TailHash
    <3>2. CASE s # <<>>
      <4>1. Len(s) \in 1 .. Len(s) /\ k # 1 /\ k - 1 = Len(s)
        BY <1>1, <2>2, <3>2
      <4>2. Append(s, e)[k - 1] = s[Len(s)] /\ TailHash(s) = s[Len(s)]
        BY <1>1, <3>2, <4>1 DEF TailHash, Last
      <4> QED BY <1>1, <2>2, <4>1, <4>2
    <3> QED BY <3>1, <3>2
  <2> QED BY <1>1, <2>1, <2>2
<1> QED BY <1>1, <1>2 DEF IsChain

\* A pull continues a beginning of the remote's version to a longer one.
LEMMA PrefixGrows ==
  ASSUME NEW X, NEW a \in Seq(X), NEW e \in Seq(X), NEW r \in Seq(X),
         IsPrefix(a, r), IsPrefix(e, r), NEW m \in 0 .. Len(e)
  PROVE  IsPrefix(a \o SubSeq(e, Len(a) + 1, m), r)
<1> DEFINE b == SubSeq(e, Len(a) + 1, m)
           u == a \o b
<1>1. Len(a) \in Nat /\ Len(r) \in Nat /\ Len(a) <= Len(r) /\ \A k \in 1 .. Len(a) : a[k] = r[k]
  BY PrefixByElements
<1>2. Len(e) \in Nat /\ Len(e) <= Len(r) /\ \A k \in 1 .. Len(e) : e[k] = r[k]
  BY PrefixByElements
<1>3. CASE m <= Len(a)
  <2>1. b = <<>>
    BY <1>1, <1>3, SubSeqEmpty
  <2>2. u = a
    BY <2>1, ConcatEmptySeq
  <2> QED BY <2>2
<1>4. CASE m > Len(a)
  <2>1. /\ b \in Seq(X) /\ Len(b) = m - Len(a)
        /\ \A k \in 1 .. m - Len(a) : b[k] = e[Len(a) + k]
    BY <1>1, <1>2, <1>4
  <2> HIDE DEF b
  <2>2. /\ u \in Seq(X) /\ Len(u) = m
        /\ \A k \in 1 .. m : u[k] = IF k <= Len(a) THEN a[k] ELSE b[k - Len(a)]
    <3>1. /\ u \in Seq(X) /\ Len(u) = Len(a) + Len(b)
          /\ \A k \in 1 .. Len(a) + Len(b) : u[k] = IF k <= Len(a) THEN a[k] ELSE b[k - Len(a)]
      BY <2>1, ConcatProperties
    <3>2. Len(a) + Len(b) = m
      BY <1>1, <2>1
    <3> QED BY <3>1, <3>2
  <2> HIDE DEF u
  <2>3. ASSUME NEW k \in 1 .. m PROVE u[k] = r[k]
    <3>1. CASE k <= Len(a)
      BY <1>1, <2>2, <3>1
    <3>2. CASE ~(k <= Len(a))
      <4>1. k - Len(a) \in 1 .. m - Len(a) /\ Len(a) + (k - Len(a)) = k /\ k \in 1 .. Len(e)
        BY <1>1, <1>2, <3>2
      <4> QED BY <1>2, <2>1, <2>2, <3>2, <4>1
    <3> QED BY <3>1, <3>2
  <2>4. Len(u) <= Len(r) /\ \A k \in 1 .. Len(u) : u[k] = r[k]
    BY <1>2, <2>2, <2>3
  <2>5. IsPrefix(u, r)
    BY <2>2, <2>4, PrefixByElements
  <2> QED BY <2>5 DEF u, b
<1> QED BY <1>1, <1>3, <1>4

\* A beginning of a beginning is one.
LEMMA SubSubSeq ==
  ASSUME NEW X, NEW q \in Seq(X), NEW l \in 0 .. Len(q), NEW m \in 0 .. l
  PROVE  SubSeq(SubSeq(q, 1, l), 1, m) = SubSeq(q, 1, m)
<1> DEFINE p == SubSeq(q, 1, l)
<1>1. p \in Seq(X) /\ Len(p) = l /\ \A k \in 1 .. l : p[k] = q[k]
  OBVIOUS
<1>2. /\ SubSeq(q, 1, m) \in Seq(X) /\ Len(SubSeq(q, 1, m)) = m
      /\ \A k \in 1 .. m : SubSeq(q, 1, m)[k] = q[k]
  OBVIOUS
<1> HIDE DEF p
<1>3. /\ SubSeq(p, 1, m) \in Seq(X) /\ Len(SubSeq(p, 1, m)) = m
      /\ \A k \in 1 .. m : SubSeq(p, 1, m)[k] = q[k]
  BY <1>1
<1>4. SubSeq(p, 1, m) = SubSeq(q, 1, m)
  BY <1>2, <1>3, SeqEqual
<1> QED BY <1>4 DEF p
===============================================================================
