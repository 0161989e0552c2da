------------------------------- MODULE FileTree -------------------------------
(***************************************************************************)
(* The file tree of the Web IDE (web/ide-src/src/main.js): navigateTo,     *)
(* loadTree, the clicks on directories and the mark of the open file.      *)
(* Every directory that is listed has a container of its own for what is   *)
(* in it; a load appends to its container whatever happened to the tree    *)
(* since it was asked for.                                                 *)
(***************************************************************************)
EXTENDS Naturals, Sequences, SequencesExt

CONSTANTS
    Dirs,       \* the directories
    Nodes,      \* directories and files
    Entries,    \* directory -> what the agent lists, in its order
    RootNoise,  \* what is not shown at the top, by its name
    TopEntries, \* directory -> its entries without RootNoise, in the same order
    Home,       \* where the tree begins
    Loads,      \* fetches under way at a time
    NoPath,
    MaxItems    \* items of the tree

ASSUME TreeAssumption ==
    /\ Home \in Dirs /\ Dirs \subseteq Nodes /\ NoPath \notin Nodes
    /\ Entries \in [Dirs -> Seq(Nodes)] /\ TopEntries \in [Dirs -> Seq(Nodes)]
    /\ \A d \in Dirs : ToSet(TopEntries[d]) = ToSet(Entries[d]) \ RootNoise
    /\ MaxItems \in Nat

\* #tree is container 0, the children of item i are container i; what a fetch was to
\* fill may no longer be part of the page.
Top == 0
Detached == MaxItems + 1

\* into: the container the item is in; open: its own container is shown.
Item == [path : Nodes, into : 0..MaxItems, open : BOOLEAN]

Load == [path : Nodes \cup {NoPath}, into : 0..Detached,
         stage : {"free", "sent", "ok", "error"}]

Idle == [path |-> NoPath, into |-> Detached, stage |-> "free"]

VARIABLES
    treePath,   \* what the path bar shows
    items,      \* the items, in the order in which they were appended
    active,     \* the items marked as the open file
    load,       \* the fetches
    doubled     \* a container got a second load before its first had come back

treeVars == <<treePath, items, active, load, doubled>>

TreeTypeOK ==
    /\ treePath \in Dirs
    /\ items \in Seq(Item) /\ Len(items) <= MaxItems
    /\ active \subseteq DOMAIN items
    /\ load \in [Loads -> Load]
    /\ doubled \in BOOLEAN

-----------------------------------------------------------------------------

\* The items of a container.
Within(c) == {i \in DOMAIN items : items[i].into = c}

LoadingInto(c) == \E l \in Loads : load[l].stage # "free" /\ load[l].into = c

\* What loadTree shows of a listing.
Shown(p, c) == IF c = Top THEN TopEntries[p] ELSE Entries[p]

\* The fetch of loadTree.
LoadTree(l, p, c) ==
    /\ load[l] = Idle
    /\ load' = [load EXCEPT ![l] = [path |-> p, into |-> c, stage |-> "sent"]]

\* The containers of the items go with the items.
Detach == [l \in Loads |-> [load[l] EXCEPT !.into = IF @ = Top THEN Top ELSE Detached]]

\* Mutant: the tree is not cleared.
NavigateOnto(l, p) ==
    /\ LoadTree(l, p, Top)
    /\ treePath' = p
    /\ doubled' = LoadingInto(Top)
    /\ UNCHANGED <<items, active>>

\* Mutant: the loads under way are not kept apart from the new tree's containers.
NavigateAttached(l, p) ==
    /\ LoadTree(l, p, Top)
    /\ treePath' = p
    /\ items' = <<>> /\ active' = {}
    /\ doubled' = LoadingInto(Top)

\* navigateTo, from the path bar or the button beside it; what is typed there and is no
\* directory is one that fails to be listed.  The tree is cleared and loaded anew, without
\* regard to a load that is still under way.
NavigateTo(l, p) ==
    /\ load[l] = Idle
    /\ load' = [Detach EXCEPT ![l] = [path |-> p, into |-> Top, stage |-> "sent"]]
    /\ treePath' = p
    /\ items' = <<>> /\ active' = {}
    /\ doubled' = LoadingInto(Top)

\* Mutant: it is loaded whenever it is shown.
ExpandsAlways(i) == ~items[i].open

\* A click on a directory.  One that is shown and empty is loaded.
Expands(i) == ~items[i].open /\ Within(i) = {}

Toggle(i) ==
    /\ items[i].path \in Dirs
    /\ items' = [items EXCEPT ![i].open = ~@]
    /\ UNCHANGED <<treePath, active>>

Expand(l, i) ==
    /\ Toggle(i) /\ Expands(i)
    /\ LoadTree(l, items[i].path, i)
    /\ doubled' = (doubled \/ LoadingInto(i))

Fold(i) == Toggle(i) /\ ~Expands(i) /\ UNCHANGED <<load, doubled>>

\* The new items of a load.
Listing(q) ==
    [k \in DOMAIN Shown(q.path, q.into) |->
        [path |-> Shown(q.path, q.into)[k], into |-> q.into, open |-> FALSE]]

\* loadTree after its fetch.  No new item is marked, not even the open file's.  The bound
\* of the model: a tree that would grow beyond MaxItems is not loaded.
Listed(l) ==
    LET q == load[l] IN
    /\ q.stage = "ok"
    /\ IF q.into = Detached THEN UNCHANGED items
       ELSE Len(items) + Len(Listing(q)) <= MaxItems /\ items' = items \o Listing(q)
    /\ load' = [load EXCEPT ![l] = Idle]
    /\ UNCHANGED <<treePath, active, doubled>>

\* The answer is not ok, or is a file and no listing.
NotListed(l) ==
    /\ load[l].stage = "error"
    /\ load' = [load EXCEPT ![l] = Idle]
    /\ UNCHANGED <<treePath, items, active, doubled>>

\* highlightActive.
HighlightActive(p) ==
    /\ active' = {i \in DOMAIN items : items[i].path = p}
    /\ UNCHANGED <<treePath, items, load, doubled>>

-----------------------------------------------------------------------------
(* The agent's do_GET, and the way to it.                                  *)

ListReply(l, stage) ==
    /\ load[l].stage = "sent"
    /\ load' = [load EXCEPT ![l].stage = stage]
    /\ UNCHANGED <<treePath, items, active, doubled>>

ListDir(l) == ListReply(l, "ok")

ListFails(l) == ListReply(l, "error")

\* The page boots at Home.
BootLoads ==
    {[[k \in Loads |-> Idle] EXCEPT ![l] = [path |-> Home, into |-> Top, stage |-> "sent"]] :
        l \in Loads}

TreeInit ==
    /\ treePath = Home
    /\ items = <<>> /\ active = {}
    /\ load \in BootLoads
    /\ doubled = FALSE

\* It is reloaded; what it has asked for goes with it.
Reboot ==
    /\ treePath' = Home
    /\ items' = <<>> /\ active' = {}
    /\ load' \in BootLoads
    /\ doubled' = FALSE

TreeStep ==
    \/ \E l \in Loads :
        \/ \E p \in Dirs : NavigateTo(l, p)
        \/ \E i \in DOMAIN items : Expand(l, i)
        \/ Listed(l) \/ NotListed(l) \/ ListDir(l) \/ ListFails(l)
    \/ \E i \in DOMAIN items : Fold(i)

-----------------------------------------------------------------------------
(* Properties.                                                             *)

PathOf(c) == IF c = Top THEN treePath ELSE items[c].path

\* The items of container c are those from the n-th on, and the listing of directory p.
ListedFrom(n, p, c) ==
    /\ Within(c) = (n + 1)..(n + Len(Shown(p, c)))
    /\ \A k \in DOMAIN Shown(p, c) : items[n + k].path = Shown(p, c)[k]

\* navigateTo, loadTree: as long as no container is loaded twice at a time, every one of
\* them is empty or the listing of its directory, each entry once and in its order,
\* whatever was under way when the tree was left, folded or shown again.
ListedOnce ==
    ~doubled =>
        \A c \in {Top} \cup {i \in DOMAIN items : items[i].path \in Dirs} :
            Within(c) # {} => \E n \in 0..Len(items) : ListedFrom(n, PathOf(c), c)

\* loadTree: even when loads overlap, a directory never shows what is not in it, since a
\* load that comes late fills the container it was asked for, or none.
OwnEntries ==
    \A i \in DOMAIN items :
        LET d == items[items[i].into].path IN
        items[i].into # Top => d \in Dirs /\ Contains(Entries[d], items[i].path)
=============================================================================
