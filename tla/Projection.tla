------------------------------ MODULE Projection ------------------------------
(***************************************************************************)
(* From decisions to the element graph and back: how an ingested decision  *)
(* becomes an event (internal/engine), how an event is projected           *)
(* (internal/graph, and internal/replay with the same semantics) and what  *)
(* the graph answers about heads and conflicts.                            *)
(*                                                                         *)
(* Elements and decisions are identified by hashes of their content; here  *)
(* they are values, and decisions are numbers so that the order of hashes, *)
(* which breaks ties between equal Lamport stamps, is the order of         *)
(* decisions. An element has one property, a number; 0 is "not set".       *)
(***************************************************************************)
EXTENDS Naturals, FiniteSets, SequencesExt

CONSTANTS
  Decision,  \* decision ids
  Element,   \* element ids
  Input      \* Input[d]: the mutations a person writes for decision d

\* "govern" is supersedes_on: authority over an element without a mutation of it.
Op == {"upsert", "set", "link", "retire", "govern"}
Mutation == [op : Op, el : Element, to : Element, val : Nat]

\* What an event does to the graph: a claim of authority alone changes nothing there.
Change == [op : Op \ {"govern"}, el : Element, to : Element, val : Nat]

\* Ids are hashes of one length.
ASSUME ContentAssumption ==
  /\ Decision \subseteq Nat \ {0} /\ IsFiniteSet(Decision)
  /\ Input \in [Decision -> Seq(Mutation)]

------------------------------------------------------------------------------
(* The graph: nodes and edges with MERGE ... ON CREATE semantics.          *)

\* elem maps an element to its node, dec a decision to the Lamport stamp of its
\* node (0 for a stub, known only because something supersedes it), shape a pair
\* <<decision, element>> to whether the decision has authority over the element.
EmptyGraph ==
  [elem |-> <<>>, dec |-> <<>>, link |-> {}, shape |-> <<>>, sup |-> {}, applied |-> {}]

\* MERGE ... ON CREATE: what exists keeps what it has.
Create(f, new) == [x \in DOMAIN f \cup DOMAIN new |-> IF x \in DOMAIN f THEN f[x] ELSE new[x]]

EnsureElements(g, els, named) ==
  [g EXCEPT !.elem = Create(@, [e \in els |-> [named |-> named, val |-> 0]])]

EnsureElement(g, e, named) == EnsureElements(g, {e}, named)

SetProp(g, e, val) == [g EXCEPT !.elem[e].val = val]

ApplyMutation(g, m) ==
  CASE m.op = "upsert" ->
         LET g1 == EnsureElement(g, m.el, TRUE)
         IN  IF m.val = 0 THEN g1 ELSE SetProp(g1, m.el, m.val)
    [] m.op = "set" -> SetProp(EnsureElement(g, m.el, FALSE), m.el, m.val)
    [] m.op = "link" ->
         [EnsureElement(EnsureElement(g, m.el, FALSE), m.to, FALSE)
            EXCEPT !.link = @ \cup {<<m.el, m.to>>}]
    [] m.op = "retire" -> [g EXCEPT !.link = @ \ {<<m.el, m.to>>}]

\* The four parts of ApplyEvent, in order.
AddDecision(g, ev) == [g EXCEPT !.dec = Create(@, [d \in {ev.dec} |-> ev.lam])]

AddShapes(g, ev) ==
  [EnsureElements(g, ev.shapes, FALSE)
     EXCEPT !.shape = Create(@, [p \in {ev.dec} \X ev.shapes |-> p[2] \in ev.targets])]

AddSupersedes(g, ev) ==
  [g EXCEPT !.dec = Create(@, [prev \in ev.supersedes |-> 0]),
            !.sup = @ \cup ({ev.dec} \X ev.supersedes)]

ApplyEvent(g, ev) ==
  LET mutated == FoldLeft(ApplyMutation, AddDecision(g, ev), ev.muts)
  IN  [AddSupersedes(AddShapes(mutated, ev), ev) EXCEPT !.applied = @ \cup {<<ev.dec, ev.by>>}]

\* Wrong on purpose: the order of hashes alone.
BeforeByHash(a, b) == a.dec < b.dec \/ (a.dec = b.dec /\ a.lam < b.lam)

\* SortEvents: by Lamport stamp, then by hash.
Before(a, b) ==
  \/ a.lam < b.lam
  \/ a.lam = b.lam /\ a.dec < b.dec
  \/ a.lam = b.lam /\ a.dec = b.dec /\ a.by[1] < b.by[1]
  \/ a.lam = b.lam /\ a.dec = b.dec /\ a.by[1] = b.by[1] /\ a.by[2] < b.by[2]

Latest(events) == {ev \in events : ~\E later \in events : Before(ev, later)}
Newest(events) == CHOOSE ev \in Latest(events) : TRUE

\* Events are applied in that order: the newest one last, on top of the others.
ApplyNext(ev, g) == ApplyEvent(g, ev)
ApplyAll(g, events) == MapThenFoldSet(ApplyNext, g, LAMBDA ev : ev, Newest, events)

\* rebuildLocked: the whole log, in canonical order, into an empty graph.
Replay(log) == ApplyAll(EmptyGraph, log)

------------------------------------------------------------------------------
(* Reads.                                                                  *)

Known(g, d) == d \in DOMAIN g.dec /\ g.dec[d] # 0

HasAuthority(g, d, e) == <<d, e>> \in DOMAIN g.shape /\ g.shape[<<d, e>>]

\* Wrong on purpose: any decision that supersedes it ends a head, also one that
\* has no authority over this element.
HeadsIgnoringElement(g, e) ==
  {d \in DOMAIN g.dec : /\ HasAuthority(g, d, e)
                        /\ ~\E d2 \in DOMAIN g.dec : <<d2, d>> \in g.sup}

\* headDecisions: authority over e, and not superseded by one with authority over e.
Heads(g, e) ==
  {d \in DOMAIN g.dec :
     /\ HasAuthority(g, d, e)
     /\ ~\E d2 \in DOMAIN g.dec : <<d2, d>> \in g.sup /\ HasAuthority(g, d2, e)}

------------------------------------------------------------------------------
(* buildDecisionEvent: from what a person writes to a self-contained event. *)

Upsert(e) == [op |-> "upsert", el |-> e, to |-> e, val |-> 0]

\* An element only referenced by a link or a property is upserted first, once.
EnsureUpsert(muts, e) ==
  IF \E k \in DOMAIN muts : muts[k].op = "upsert" /\ muts[k].el = e
    THEN muts ELSE Append(muts, Upsert(e))

AddMutation(muts, m) ==
  CASE m.op = "govern" -> muts
    [] m.op = "upsert" -> Append(muts, m)
    [] m.op = "set" -> Append(EnsureUpsert(muts, m.el), m)
    [] OTHER -> Append(EnsureUpsert(EnsureUpsert(muts, m.el), m.to), m)

Resolved(input) == FoldLeft(AddMutation, <<>>, input)

\* Provenance: every element the decision touches.
ShapesOf(input) == UNION {{m.el, m.to} : m \in ToSet(input)}

\* Authority: what it changes, links from, governs or creates; a bare upsert of an element
\* that exists is a note. (elementExists looks at the graph, not at the batch.)
TargetsOf(g, input) ==
  {m.el : m \in {k \in ToSet(input) :
                   k.op = "upsert" => k.val # 0 \/ k.el \notin DOMAIN g.elem}}

\* Wrong on purpose: of a branch only one head is superseded.
OneHead(g, targets) ==
  {(CHOOSE h \in Heads(g, e) : TRUE) : e \in {x \in targets : Heads(g, x) # {}}}

\* A decision supersedes every head of what it has authority over.
Superseded(g, targets) == UNION {Heads(g, e) : e \in targets}

\* The event of decision d written on top of graph g; "saw" is not in the code, it
\* remembers which decisions the author had in the graph when it was written.
BuildEvent(g, d, lam, by) ==
  LET targets == TargetsOf(g, Input[d])
  IN  [dec |-> d, lam |-> lam, by |-> by,
       muts |-> Resolved(Input[d]),
       shapes |-> ShapesOf(Input[d]),
       targets |-> targets,
       supersedes |-> Superseded(g, targets),
       saw |-> {p[1] : p \in g.applied}]
==============================================================================
