------------------------------- MODULE UiaTree -------------------------------
(***************************************************************************)
(* How the Windows adapter reads a window's tree of controls (crates/      *)
(* desktop-api/src/semantic/windows_uia.rs): breadth first, page by page,  *)
(* of the whole window, of its menu or of one container, which is looked   *)
(* for anew every time; and how a saved locator is followed through the    *)
(* containers around its control (observe_locator_scoped).                 *)
(*                                                                         *)
(* A node is known by what it is (role, name, automation id; one value     *)
(* here) and by its ancestors, and keeps no identity between two reads.    *)
(* One read sees one tree; it may fail at any node, or run out of time.    *)
(***************************************************************************)
EXTENDS Naturals, Sequences, FiniteSets

CONSTANTS
    Trees,          \* what the window may look like: [parent, what, focus], by node
    Menus, Plain,   \* what menus are, and controls with neither name nor structure
    Wanted,         \* saved locators: [what, chain]
    PageSize,       \* nodes of an observation (200)
    MaxOffset, SearchBudget, MaxDepth, MaxChain, MaxTreeRounds,     \* 10 000, 2000, 24, 8, 64
    MaxTreeChanges  \* bound: how often the tree changes

ASSUME TreesAssumption ==
    /\ \A t \in Trees : /\ t.parent \in Seq(Nat) \ {<<>>}
                        /\ \A n \in DOMAIN t.parent : t.parent[n] \in 0 .. n - 1
    /\ {PageSize, SearchBudget, MaxTreeRounds} \subseteq Nat \ {0}
    /\ {MaxOffset, MaxDepth, MaxChain, MaxTreeChanges} \subseteq Nat

VARIABLES
    tree, treeChanges,
    metadata,       \* AdapterState.metadata_by_node: [what, chain, index] of the last page
    scopeRoot,      \* AdapterState.scope_root: the region's id and what it is, or {}
    space,          \* the last observation: [region, offset, ids, truncated], or {}
    replay,         \* observe_locator_scoped under way: [wanted, region, offset, visited, rounds], or {}
    reading         \* history: [region, tree, nodes, more] of an observation and its
                    \* continuations, or {} if they are not of one tree

treeVars == <<tree, treeChanges, metadata, scopeRoot, space, replay, reading>>

\* The regions with a name of their own, among the ids.
Window == [what |-> "@window", chain |-> <<>>, index |-> 0]
Menu == [what |-> "@menu", chain |-> <<>>, index |-> 0]
Root == 1

Nodes(t) == DOMAIN t.parent
Children(t, n) == {m \in Nodes(t) : t.parent[m] = n}
Kids ==
    LET nth(kids, k) == CHOOSE m \in kids : Cardinality({j \in kids : j <= m}) = k
    IN  [t \in Trees |-> [n \in Nodes(t) |->
            [k \in 1 .. Cardinality(Children(t, n)) |-> nth(Children(t, n), k)]]]

\* semantic_ancestor_chain: of so many ancestors, those that say something.
Chain ==
    LET context(t, m) == IF t.what[m] \in Plain THEN <<>> ELSE <<t.what[m]>>
        up(t) == LET f[k \in 0 .. MaxChain] ==
                       [m \in Nodes(t) |->
                          IF k = 0 \/ t.parent[m] \in {0, Root} THEN <<>>
                          ELSE f[k - 1][t.parent[m]] \o context(t, t.parent[m])]
                 IN  f
    IN  [t \in Trees |-> up(t)[MaxChain]]

\* native_node: its id has what it is in it, and its place in the page.
NodeId(t, n, index) == [what |-> t.what[n], chain |-> Chain[t][n], index |-> index]
About(id) == [what |-> id.what, chain |-> id.chain]
IsLike(t, n, about) == t.what[n] = about.what /\ Chain[t][n] = about.chain

\* enqueue_children: what the queue is with a node's children, and whether some are left out.
Enqueue(t, e, queue, room) ==
    LET kids == Kids[t][e.node]
        free == IF e.depth >= MaxDepth \/ Len(queue) >= room THEN 0 ELSE room - Len(queue)
        taken == SubSeq(kids, 1, IF free < Len(kids) THEN free ELSE Len(kids))
    IN  [queue |-> queue \o [i \in DOMAIN taken |-> [node |-> taken[i], depth |-> e.depth + 1]],
         cut |-> taken # kids]

-----------------------------------------------------------------------------
(* The region, and a page of it. *)

\* focused_menu_root: the outermost menu around the focus.
FocusedMenu(t) ==
    LET around[n \in {0} \cup Nodes(t)] == IF n = 0 THEN {} ELSE {n} \cup around[t.parent[n]]
        menus == {n \in Nodes(t) : n \in around[t.focus] /\ t.what[n] \in Menus}
    IN  {n \in menus : \A m \in menus : n <= m}

\* One step of the search for a container.
SearchStep(t, fitting, s) ==
    LET e == Head(s.queue)
        seen == s.seen \cup {e.node}
        next == Enqueue(t, e, Tail(s.queue), SearchBudget - Cardinality(seen))
    IN  IF s.queue = <<>> THEN s
        ELSE IF Cardinality(s.seen) >= SearchBudget THEN [s EXCEPT !.queue = <<>>, !.cut = TRUE]
        ELSE IF e.node \in s.seen THEN [s EXCEPT !.queue = Tail(s.queue)]
        ELSE [queue |-> next.queue, seen |-> seen, cut |-> s.cut \/ next.cut,
              found |-> IF e.node \in fitting THEN Append(s.found, e.node) ELSE s.found]

\* The search, from the window and the menu the focus is in: those inspected of the
\* nodes that fit, and whether it was cut short.
Search(t, fitting) ==
    LET roots == <<Root>> \o (IF FocusedMenu(t) \subseteq {Root} THEN <<>>
                             ELSE <<CHOOSE m \in FocusedMenu(t) : TRUE>>)
        start == [queue |-> [i \in DOMAIN roots |-> [node |-> roots[i], depth |-> 0]],
                  seen |-> {}, found |-> <<>>, cut |-> FALSE]
        after[k \in 0 .. 2 * Len(t.parent)] ==
            IF k = 0 THEN start
            ELSE CHOOSE s \in {SearchStep(t, fitting, before) : before \in {after[k - 1]}} : TRUE
    IN  after[2 * Len(t.parent)]

\* A container must be the only one like it, and the search for it complete; of
\* the menus the first is taken.
RegionRoots(t, region, about) ==
    IF region = Window THEN {Root}
    ELSE IF region = Menu
    THEN IF FocusedMenu(t) # {} THEN FocusedMenu(t)
         ELSE LET found == Search(t, {n \in Nodes(t) : t.what[n] \in Menus}).found
              IN  IF found = <<>> THEN {} ELSE {Head(found)}
    ELSE LET search == Search(t, {n \in Nodes(t) : IsLike(t, n, about)})
         IN  IF search.cut \/ Len(search.found) # 1 THEN {} ELSE {Head(search.found)}

\* Mutant: the skipped nodes are not counted in.
OnePage(offset) == PageSize

\* page_traversal_limit: the skipped nodes count.
TraversalLimit(offset) == offset + PageSize

\* capture_native: one round of its loop.  A window's menus are not opened.
PageStep(t, region, offset, s) ==
    LET e == Head(s.queue)
        limit == TraversalLimit(offset)
        room == IF limit > s.visited + 1 THEN limit - (s.visited + 1) ELSE 0
        next == IF region = Window /\ t.what[e.node] \in Menus
                THEN [queue |-> Tail(s.queue), cut |-> FALSE]
                ELSE Enqueue(t, e, Tail(s.queue), room)
    IN  IF s.queue = <<>> THEN s
        ELSE IF Len(s.nodes) >= PageSize THEN [s EXCEPT !.queue = <<>>, !.truncated = TRUE]
        ELSE [queue |-> next.queue, visited |-> s.visited + 1, truncated |-> s.truncated \/ next.cut,
              nodes |-> IF s.visited >= offset
                        THEN Append(s.nodes, [node |-> e.node, index |-> s.visited])
                        ELSE s.nodes]

\* The nodes of a page.
Page(t, root, region, offset) ==
    LET start == [queue |-> <<[node |-> root, depth |-> 0]>>, nodes |-> <<>>, visited |-> 0,
                  truncated |-> offset > 0]
        after[k \in 0 .. Len(t.parent) + 1] ==
            IF k = 0 THEN start
            ELSE CHOOSE s \in {PageStep(t, region, offset, before) : before \in {after[k - 1]}} : TRUE
    IN  after[Len(t.parent) + 1]

\* What a region is: a node of the last page, or the root of the region read last.
AboutRegion(region) ==
    IF region \in {Window, Menu} THEN {About(region)} ELSE
    {About(id) : id \in metadata \cap {region}} \cup {r.about : r \in {s \in scopeRoot : s.id = region}}

Ids(page) == [i \in DOMAIN page.nodes |-> NodeId(tree, page.nodes[i].node, page.nodes[i].index)]
Elements(ids) == {ids[i] : i \in DOMAIN ids}

\* capture_observation: what a read may come to, [page, root]; nothing, if it fails.
Reads(region, offset) ==
    {[page |-> Page(tree, root, region, offset), root |-> root] :
        root \in IF offset + PageSize > MaxOffset THEN {}
                 ELSE UNION {RegionRoots(tree, region, about) : about \in AboutRegion(region)}}

\* observation_from_snapshot.  The fingerprint and the revision are those of ActionSpace.
Remembers(region, read) ==
    /\ metadata' = Elements(Ids(read.page))
    /\ scopeRoot' = IF region = Window THEN {}
                    ELSE {[id |-> region, about |-> About(NodeId(tree, read.root, 0))]}

-----------------------------------------------------------------------------
(* desktop_semantic_observe *)

\* next_tree_cursor: a full page that was cut goes on.
HasMore(page) == page.truncated /\ Len(page.nodes) >= PageSize

Seen(page) == [i \in DOMAIN page.nodes |-> page.nodes[i].node]

\* The window, the menu, or a container of the last observation.
Observes(region) ==
    /\ replay = {}
    /\ \E read \in Reads(region, 0) :
          /\ Remembers(region, read)
          /\ space' = {[region |-> region, offset |-> 0, ids |-> Ids(read.page),
                        truncated |-> read.page.truncated]}
          /\ reading' = {[region |-> region, tree |-> tree, nodes |-> Seen(read.page),
                          more |-> HasMore(read.page)]}
    /\ UNCHANGED <<tree, treeChanges, replay>>

\* tree_cursor
Continues ==
    /\ replay = {}
    /\ \E s \in space :
          /\ s.truncated /\ Len(s.ids) >= PageSize
          /\ \E read \in Reads(s.region, s.offset + Len(s.ids)) :
                /\ Remembers(s.region, read)
                /\ space' = {[s EXCEPT !.offset = s.offset + Len(s.ids), !.ids = Ids(read.page),
                                       !.truncated = read.page.truncated]}
                /\ reading' = {[r EXCEPT !.nodes = @ \o Seen(read.page), !.more = HasMore(read.page)] :
                                 r \in {q \in reading : q.tree = tree}}
    /\ UNCHANGED <<tree, treeChanges, replay>>

-----------------------------------------------------------------------------
(* observe_locator_scoped *)

Locates(wanted) ==
    /\ replay = {}
    /\ replay' = {[wanted |-> wanted, region |-> Window, offset |-> 0, visited |-> {},
                   rounds |-> MaxTreeRounds]}
    /\ UNCHANGED <<tree, treeChanges, metadata, scopeRoot, space, reading>>

\* replay_region: a locator without ancestors takes any.
Targets(ids, wanted) == {id \in ids : id.what = wanted.what /\ wanted.chain \in {<<>>, id.chain}}

Around(ids, wanted, k) ==
    {id \in ids : id.what = wanted.chain[k] /\ id.chain = SubSeq(wanted.chain, 1, k - 1)}

\* The nearest ancestor that is on the page.
Nearest(ids, wanted) ==
    {k \in DOMAIN wanted.chain : /\ Around(ids, wanted, k) # {}
                                 /\ \A j \in k + 1 .. Len(wanted.chain) : Around(ids, wanted, j) = {}}

\* What the round decides: the call goes on elsewhere, or it is over.
Decides(r, page) ==
    LET ids == Elements(Ids(page))
        regions == UNION {Around(ids, r.wanted, k) : k \in Nearest(ids, r.wanted)}
    IN  IF Targets(ids, r.wanted) # {} \/ Cardinality(regions) > 1 THEN replay' = {}
        ELSE IF \E region \in regions : region \notin r.visited
        THEN replay' = {[r EXCEPT !.region = region, !.offset = 0, !.rounds = @ - 1,
                                  !.visited = @ \cup {region}] : region \in regions}
        ELSE IF page.truncated /\ Len(page.nodes) = PageSize
        THEN replay' = {[r EXCEPT !.offset = TraversalLimit(r.offset), !.rounds = @ - 1]}
        ELSE replay' = {}

LocateRead ==
    /\ \E r \in replay :
          /\ r.rounds > 0
          /\ \E read \in Reads(r.region, r.offset) : Remembers(r.region, read) /\ Decides(r, read.page)
    /\ UNCHANGED <<tree, treeChanges, space, reading>>

\* A read fails, the region is not found, time is up or the rounds are used up.
LocateGivesUp ==
    /\ replay # {} /\ replay' = {}
    /\ UNCHANGED <<tree, treeChanges, metadata, scopeRoot, space, reading>>

-----------------------------------------------------------------------------
TreeChange(t) ==
    /\ treeChanges < MaxTreeChanges /\ t # tree
    /\ tree' = t /\ treeChanges' = treeChanges + 1
    /\ UNCHANGED <<metadata, scopeRoot, space, replay, reading>>

TreeInit ==
    /\ tree \in Trees /\ treeChanges = 0
    /\ metadata = {} /\ scopeRoot = {} /\ space = {} /\ replay = {} /\ reading = {}

Locating == LocateRead \/ LocateGivesUp

TreeNext ==
    \/ \E region \in {Window, Menu} \cup UNION {Elements(s.ids) : s \in space} : Observes(region)
    \/ Continues
    \/ \E wanted \in Wanted : Locates(wanted)
    \/ Locating
    \/ \E t \in Trees : TreeChange(t)

TreeFair == WF_treeVars(Locating)

-----------------------------------------------------------------------------
TreeTypeOK ==
    /\ tree \in Trees /\ treeChanges \in 0 .. MaxTreeChanges
    /\ Cardinality(metadata) <= PageSize
    /\ \A v \in {scopeRoot, space, replay, reading} : Cardinality(v) <= 1
    /\ \A s \in space : s.offset \in 0 .. MaxOffset /\ s.truncated \in BOOLEAN /\ Len(s.ids) <= PageSize
    /\ \A id \in metadata : Len(id.chain) <= MaxChain /\ id.index \in Nat
    /\ \A r \in replay : r.rounds \in 0 .. MaxTreeRounds /\ r.wanted \in Wanted

\* What there is of a region to see: down to a depth, and not below a window's menus.
Visible(t, root, region) ==
    LET under[d \in 0 .. MaxDepth] ==
          IF d = 0 THEN {root}
          ELSE under[d - 1] \cup
               {n \in Nodes(t) : /\ t.parent[n] \in under[d - 1]
                                 /\ region = Window => t.what[t.parent[n]] \notin Menus}
    IN  under[MaxDepth]

\* An observation and its continuations show every control of the region once, if
\* they were all of one tree: the pages neither overlap nor leave a gap, whatever
\* page the depth, the menus or a full queue cut short (capture_native 1150-1193).
PagesTile ==
    \A r \in reading :
        /\ \A i, j \in DOMAIN r.nodes : r.nodes[i] = r.nodes[j] => i = j
        /\ ~r.more => Elements(r.nodes) = Visible(r.tree, Head(r.nodes), r.region)

\* The control a saved locator is taken to is the only one in the window it fits, as
\* far as one read reaches (rebuild_semantic_candidate, "saved semantic locator is
\* ambiguous", 855-866; the test legacy_ordinal_never_selects_an_ambiguous_duplicate).
\* The code counts on the page it is at: the window's second page may hold another.
ReplayIsUnique ==
    [][LocateRead /\ replay' = {} =>
         \A r \in replay :
           Cardinality(Targets(metadata', r.wanted)) = 1 =>
             Cardinality({n \in Nodes(tree) : Targets({NodeId(tree, n, 0)}, r.wanted) # {}}) = 1]_treeVars

\* Every replay of a locator ends (observe_locator_scoped 472-512).
ReplayEnds == replay # {} ~> replay = {}
=============================================================================
