------------------------- MODULE RejillaDataProject -------------------------
(***************************************************************************)
(* The tree of a data project (rejilla-data-project.c, rejilla-file-node.c *)
(* and the tables rejilla-data-vfs.c keeps beside it): the files and       *)
(* folders that will be on the disc, and the table of grafts that tells    *)
(* the imaging programs how to make that tree out of the files on disk.    *)
(*                                                                         *)
(* A project is one record p.  Every function of the source that changes   *)
(* it is an operator from a project to a project, named as the function    *)
(* is; RejillaDataVfs calls them from its actions.                         *)
(*                                                                         *)
(*   tree      the nodes, a function from their identities to records      *)
(*   grafts    priv->grafts: for each URI the nodes grafted for it; a URI  *)
(*             without nodes is excluded from the disc                     *)
(*   joliet    priv->joliet: nodes with a name of more than 64 characters, *)
(*             by parent and shortened name                                *)
(*   children, dirs   the counters of files and of folders                 *)
(*   loading   priv->loading: operations left before an opened project is  *)
(*             loaded; busy is priv->loading of the track                  *)
(*   loads     the URIs whose information was asked for: the nodes that    *)
(*             wait, and whether the answer has been given already         *)
(*   listings  the folders being explored: the nodes that wait and the     *)
(*             names still to come                                         *)
(*                                                                         *)
(* A URI is the sequence of its path elements.  Imported sessions, virtual *)
(* nodes (which watch for a name), symbolic links inside of folders, the   *)
(* depth of the tree and the order of rows are left out.                   *)
(***************************************************************************)
EXTENDS Integers, Sequences, FiniteSets, FiniteSetsExt, SequencesExt

CONSTANTS
  Disk,          \* what URIs lead to: URI -> [dir, sectors, hidden, big, status, real]
  MaxNode,       \* bound: identities of nodes
  LongNames,     \* names that are longer than joliet allows
  ShortName      \* what is left of a long name

Root   == 0
None   == -1
NoUri  == << >>
NewFolder == << "NewFolder" >>

Base(u) == Last(u)
Dir(u)  == Front(u)
Below(u, v) == IsPrefix(u, v)

ASSUME DiskAssumption ==
  \A u \in DOMAIN Disk : /\ u # NoUri
                         /\ Disk[u].sectors \in Nat
                         /\ Disk[u].status \in {"ok", "unreadable", "missing"}
                         /\ Disk[u].real \in DOMAIN Disk

(* What the exploration of folder u finds. *)
Files == {u \in DOMAIN Disk : Disk[u].status # "missing" /\ Disk[u].real = u}
Listing(u) == {v \in Files : Len(v) = Len(u) + 1 /\ Below(u, v)}

(* URIs whose entry g_path_get_dirname and dirname reach from u. *)
Ancestors(u) == {SubSeq(u, 1, k) : k \in 1 .. Len(u) - 1} \ {NewFolder}

----------------------------------------------------------------------------
(* The tree. *)

Live(p) == DOMAIN p.tree
Grafted(p, n) == n # Root /\ p.tree[n].uri # NoUri
Fake(p, n) == n # Root /\ p.tree[n].fake
IsFolder(p, n) == n # Root => ~p.tree[n].file
ChildrenOf(p, m) == {n \in Live(p) : p.tree[n].parent = m}

(* n and what is above it, without the root. *)
Line(p, n) ==
  LET up[m \in Live(p) \cup {Root, None}] ==
        IF m \in {Root, None} THEN {} ELSE {m} \cup up[p.tree[m].parent]
  IN  up[n]

(* rejilla_file_node_is_ancestor: a node is its own ancestor. *)
IsAncestor(p, a, n) == a = Root \/ a \in Line(p, n)
Subtree(p, n) == {m \in Live(p) : IsAncestor(p, n, m)}

Path(p, n) ==
  LET down[m \in Live(p) \cup {Root}] ==
        IF m = Root THEN << >> ELSE Append(down[p.tree[m].parent], p.tree[m].name)
  IN  down[n]

(* rejilla_file_node_check_name_existence *)
Child(p, m, x) ==
  IF \E n \in ChildrenOf(p, m) : p.tree[n].name = x
  THEN CHOOSE n \in ChildrenOf(p, m) : p.tree[n].name = x
  ELSE None

(* rejilla_data_project_find_child_node *)
FindChild(p, m, names) ==
  LET step[i \in 0 .. Len(names)] ==
        IF i = 0 THEN m
        ELSE IF step[i - 1] = None THEN None ELSE Child(p, step[i - 1], names[i])
  IN  step[Len(names)]

(***************************************************************************)
(* The size of an ungrafted node counts in the nodes above it, up to the   *)
(* first grafted one.                                                      *)
(***************************************************************************)
Charged(p, m) ==
  LET up[k \in Live(p) \cup {Root, None}] ==
        IF k \in {Root, None} THEN {}
        ELSE IF Grafted(p, k) THEN {k} ELSE {k} \cup up[p.tree[k].parent]
  IN  up[m]
Charge(p, m, d) ==
  LET above == Charged(p, m)
  IN  [p EXCEPT !.tree = [k \in Live(p) |->
         IF k \in above THEN [p.tree[k] EXCEPT !.sectors = @ + d] ELSE p.tree[k]]]

(* A node that is not in the tree yet. *)
LoadingNodeOf(x, m, u) ==
  [parent |-> m, name |-> x, uri |-> NoUri, fake |-> FALSE, file |-> FALSE, loading |-> TRUE,
   exploring |-> FALSE, tmp |-> FALSE, sectors |-> 0, from |-> u]
EmptyFolderOf(x, m) == [LoadingNodeOf(x, m, NewFolder) EXCEPT !.fake = TRUE, !.loading = FALSE]
NodeFromInfo(x, m, u) ==
  [LoadingNodeOf(x, m, u) EXCEPT !.loading = FALSE, !.file = ~Disk[u].dir, !.exploring = Disk[u].dir,
                                !.sectors = IF Disk[u].dir THEN 0 ELSE Disk[u].sectors]

NextNode(p) == CHOOSE n \in 1 .. MaxNode : n \notin Live(p) /\ \A k \in 1 .. n - 1 : k \in Live(p)

(* rejilla_file_node_add, for a node that has just been made *)
AddNode(p, r) ==
  LET n == NextNode(p)
      q == [p EXCEPT !.tree = (n :> r) @@ @,
                     !.children = IF r.file THEN @ + 1 ELSE @,
                     !.dirs = IF r.file THEN @ ELSE @ + 1]
  IN  Charge(q, r.parent, r.sectors)

----------------------------------------------------------------------------
(* Grafts. *)

WithoutNode(g, u, n) == IF u \in DOMAIN g THEN [g EXCEPT ![u] = @ \ {n}] ELSE g

(* Fault: the size of the node is left in the folders above it. *)
GraftUncharged(p, n, u) ==
  [p EXCEPT !.tree[n].uri = u,
            !.grafts = [WithoutNode(@, p.tree[n].uri, n) EXCEPT ![u] = @ \cup {n}]]

(* rejilla_file_node_graft *)
Graft(p, n, u) ==
  [IF Grafted(p, n) THEN [p EXCEPT !.grafts = WithoutNode(@, p.tree[n].uri, n)]
   ELSE Charge(p, p.tree[n].parent, -p.tree[n].sectors)
     EXCEPT !.tree[n].uri = u, !.grafts[u] = @ \cup {n}]

(* rejilla_file_node_ungraft *)
Ungraft(p, n) ==
  IF ~Grafted(p, n) THEN p
  ELSE Charge([p EXCEPT !.tree[n].uri = NoUri, !.grafts = WithoutNode(@, p.tree[n].uri, n)],
              p.tree[n].parent, p.tree[n].sectors)

GraftAll(p, ns, u) == FoldSet(LAMBDA n, q : Graft(q, n, u), p, ns)
UngraftAll(p, ns)  == FoldSet(LAMBDA n, q : Ungraft(q, n), p, ns)

(* rejilla_data_project_node_to_uri *)
NodeToUri(p, n) ==
  LET of[m \in Live(p) \cup {Root}] ==
        IF m = Root THEN NoUri
        ELSE IF Grafted(p, m) THEN p.tree[m].uri
        ELSE IF of[p.tree[m].parent] = NoUri THEN NoUri
        ELSE Append(of[p.tree[m].parent], p.tree[m].name)
  IN  IF Fake(p, n) THEN NoUri ELSE of[n]

(* The closest URI above u that is in the table. *)
GraftedAbove(p, u) == Ancestors(u) \cap DOMAIN p.grafts
HasParentUri(p, u) == GraftedAbove(p, u) # {}
NearestAbove(p, u) == CHOOSE v \in GraftedAbove(p, u) : \A w \in GraftedAbove(p, u) : Len(w) <= Len(v)

(* rejilla_data_project_uri_to_nodes *)
UriToNodes(p, u) ==
  IF u \in DOMAIN p.grafts THEN p.grafts[u]
  ELSE IF ~HasParentUri(p, u) THEN {}
  ELSE LET v == NearestAbove(p, u)
           rest == SubSeq(u, Len(v) + 1, Len(u))
       IN  {FindChild(p, n, rest) : n \in p.grafts[v]} \ {None}

(***************************************************************************)
(* rejilla_data_project_uri_is_graft_needed: an entry may go when all its  *)
(* nodes are where the exploration of a grafted folder would put them and  *)
(* none is missing.  The function looks for the closest URI above in the   *)
(* table without end: there must be one, else CHOOSE has no value.         *)
(***************************************************************************)
InItsPlace(p, n, u) ==
  LET m == p.tree[n].parent
  IN  /\ m # Root /\ ~Fake(p, m)
      /\ p.tree[n].name = Base(u)
      /\ NodeToUri(p, m) # NoUri /\ NodeToUri(p, m) = Dir(u)
IsGraftNeeded(p, u) ==
  \/ \E n \in p.grafts[u] : ~InItsPlace(p, n, u)
  \/ Cardinality(p.grafts[NearestAbove(p, u)]) # Cardinality(p.grafts[u])

Drop(g, us) == [u \in DOMAIN g \ us |-> g[u]]

(* Fault: its nodes stay grafted. *)
RemoveGraftAlone(p, u) == [p EXCEPT !.grafts = Drop(@, {u})]

(***************************************************************************)
(* rejilla_data_project_uri_remove_graft.  uri_removed, the signal of the  *)
(* class, calls rejilla_filtered_uri_remove_with_children, which removes   *)
(* nothing: it tests a character beyond the end of each URI it looks at.   *)
(***************************************************************************)
RemoveGraft(p, u) == [UngraftAll(p, p.grafts[u]) EXCEPT !.grafts = Drop(@, {u})]

(* An entry without nodes that nothing above it explains goes. *)
DropIfAlone(p, u) == IF p.grafts[u] = {} /\ ~HasParentUri(p, u) THEN RemoveGraft(p, u) ELSE p

(* rejilla_data_project_uri_add_graft: replaces the entry if there is one *)
AddGraft(p, u)    == [p EXCEPT !.grafts = (u :> {}) @@ @]
EnsureGraft(p, u) == IF u \in DOMAIN p.grafts THEN p ELSE AddGraft(p, u)
ExcludeUri(p, u)  == EnsureGraft(p, u)

(* rejilla_data_project_uri_graft_nodes *)
GraftNodes(p, u) == GraftAll(AddGraft(p, u), UriToNodes(p, u), u)

(***************************************************************************)
(* rejilla_data_project_remove_node_children_graft: nodes below n lose     *)
(* their grafts, then entries without nodes and without an entry above     *)
(* them go.  The table is a hash table: whether an entry is looked at      *)
(* before or after one above it that goes too is p.order.                  *)
(***************************************************************************)
WithoutLostGrafts(q) ==
  LET stays(u) == \/ q.grafts[u] # {}
                  \/ \E v \in GraftedAbove(q, u) : q.order = "below first" \/ q.grafts[v] # {}
  IN  [q EXCEPT !.grafts = Drop(@, {u \in DOMAIN q.grafts : ~stays(u)})]
RemoveChildrenGraft(p, n) == WithoutLostGrafts(UngraftAll(p, Subtree(p, n) \ {n}))

----------------------------------------------------------------------------
(* Names that joliet shortens. *)

JolietKey(p, n) == << p.tree[n].parent, ShortName[p.tree[n].name] >>
IsLong(p, n) == p.tree[n].name \in LongNames

JolietAdd(p, n) ==
  IF ~IsLong(p, n) THEN p
  ELSE LET k == JolietKey(p, n)
       IN  [p EXCEPT !.joliet =
              (k :> (IF k \in DOMAIN @ THEN @[k] ELSE {}) \cup {n}) @@ @]

(* rejilla_data_project_joliet_remove_node *)
JolietRemove(p, n) ==
  LET k == JolietKey(p, n)
  IN  IF ~IsLong(p, n) \/ k \notin DOMAIN p.joliet THEN p
      ELSE IF p.joliet[k] \ {n} = {} THEN [p EXCEPT !.joliet = Drop(@, {k})]
      ELSE [p EXCEPT !.joliet[k] = @ \ {n}]

JolietRemoveChildren(p, n) ==
  [p EXCEPT !.joliet = Drop(@, {k \in DOMAIN @ : IsAncestor(p, n, k[1])})]

----------------------------------------------------------------------------
(* Removal. *)

(* Its names and what is grafted below it are forgotten first. *)
WithoutChildren(p, n) == JolietRemove(JolietRemoveChildren(RemoveChildrenGraft(p, n), n), n)

(* Fault: the file is not marked as removed from its folder. *)
MarkedAsUngraftedOnly(p, n) == Ungraft(p, n)

(* What was grafted may leave its entry, what is only found is excluded. *)
Marked(p, n) ==
  IF Grafted(p, n) THEN DropIfAlone(Ungraft(p, n), p.tree[n].uri)
  ELSE IF NodeToUri(p, n) \in DOMAIN p.grafts THEN p ELSE GraftNodes(p, NodeToUri(p, n))

(* rejilla_data_project_node_removed *)
NodeRemoved(p, n) == Marked(WithoutChildren(p, n), n)

(* rejilla_file_node_unlink *)
Unlink(p, n) == IF Grafted(p, n) THEN p ELSE Charge(p, p.tree[n].parent, -p.tree[n].sectors)

(* rejilla_file_node_destroy and rejilla_data_project_reference_invalidate *)
Destroy(p, n) ==
  LET gone == Subtree(p, n)
      files == {m \in gone : p.tree[m].file}
  IN  [p EXCEPT !.tree = [m \in Live(p) \ gone |-> p.tree[m]],
                !.grafts = [u \in DOMAIN @ |-> @[u] \ gone],
                !.children = @ - Cardinality(files),
                !.dirs = @ - Cardinality(gone \ files),
                !.loads = [u \in DOMAIN @ |-> [@[u] EXCEPT !.nodes = @ \ gone]],
                !.listings = [u \in DOMAIN @ |-> [@[u] EXCEPT !.nodes = @ \ gone]]]

RemoveReal(p, n) == Destroy(Unlink(NodeRemoved(p, n), n), n)

(* The signal project-loaded, and rejilla_track_data_cfg_project_loaded. *)
SignalLoaded(p) == [p EXCEPT !.busy = @ /\ p.loading > 0]

(* A created folder, in the entry of all created folders. *)
GraftFake(p, n) ==
  Graft(EnsureGraft([p EXCEPT !.tree[n].fake = TRUE, !.tree[n].loading = FALSE,
                              !.tree[n].from = NewFolder], NewFolder), n, NewFolder)

ConvertToFake(p, n) ==
  SignalLoaded([GraftFake(Ungraft([p EXCEPT !.tree[n].tmp = FALSE], n), n) EXCEPT !.loading = @ - 2])

RemoveNode(p, n) ==
  IF p.tree[n].tmp \/ (p.loading # 0 /\ Grafted(p, n)) THEN ConvertToFake(p, n)
  ELSE RemoveReal(p, n)

----------------------------------------------------------------------------
(* The requests of rejilla-data-vfs.c. *)

(* rejilla_data_vfs_loading_node: a URI is asked for once *)
LoadNode(p, n, u) ==
  IF u \in DOMAIN p.loads THEN [p EXCEPT !.loads[u].nodes = @ \cup {n}]
  ELSE [p EXCEPT !.loads = (u :> [nodes |-> {n}, answered |-> FALSE]) @@ @]

(* Fault: who comes second is forgotten. *)
LoadDirectoryOnce(p, n, u) ==
  IF u \in DOMAIN p.listings THEN p
  ELSE [p EXCEPT !.listings = (u :> [nodes |-> {n}, left |-> Listing(u)]) @@ @]

(* rejilla_data_vfs_load_directory *)
LoadDirectory(p, n, u) ==
  IF u \in DOMAIN p.listings THEN [p EXCEPT !.listings[u].nodes = @ \cup {n}]
  ELSE [p EXCEPT !.listings = (u :> [nodes |-> {n}, left |-> Listing(u)]) @@ @]

(* rejilla_data_vfs_node_added: u is NoUri for what needs no loading *)
NodeAdded(p, n, u) ==
  IF u = NoUri THEN p
  ELSE IF p.tree[n].loading THEN LoadNode(p, n, u)
  ELSE IF p.tree[n].file THEN p
  ELSE LoadDirectory(p, n, u)

----------------------------------------------------------------------------
(* Addition. *)

(***************************************************************************)
(* rejilla_data_project_add_node_real; found is whether an entry for u was *)
(* there when the caller looked, quiet while a project is opened.          *)
(***************************************************************************)
RightfulPlace(p, n, u) ==
  LET v == NodeToUri(p, p.tree[n].parent)
  IN  v # NoUri /\ IsStrictPrefix(v, u) /\ p.tree[n].name = Base(u)

GraftNew(p, n, found, u) ==
  LET above == ~found /\ p.tree[n].parent # Root
  IN  IF above /\ ~p.tree[n].fake /\ RightfulPlace(p, n, u) THEN p
      ELSE IF above /\ p.tree[n].fake THEN GraftNodes(p, u)
      ELSE Graft(IF found THEN p ELSE GraftNodes(p, u), n, u)
AddNodeReal(p, n, found, u, quiet) ==
  JolietAdd(NodeAdded(GraftNew(p, n, found, u), n, IF quiet \/ u = NewFolder THEN NoUri ELSE u), n)

(* A node is made and put in the tree. *)
Insert(p, r, u) == AddNodeReal(AddNode(p, r), NextNode(p), u \in DOMAIN p.grafts, u, FALSE)

(* Fault: what is replaced stays in the tree. *)
MakeRoomBeside(p, m, x) == p

(***************************************************************************)
(* A node of the same name is removed if the user agrees.  If not, what    *)
(* the user asked for is not done, which takes no step here.               *)
(***************************************************************************)
MakeRoom(p, m, x) == IF Child(p, m, x) = None THEN p ELSE RemoveReal(p, Child(p, m, x))
Taken(p, m, x) == Child(p, m, x) # None

(* rejilla_data_project_add_loading_node *)
AddLoadingNode(p, u, m) == Insert(MakeRoom(p, m, Base(u)), LoadingNodeOf(Base(u), m, u), u)

(* rejilla_data_project_add_empty_directory *)
AddEmptyDirectory(p, x, m) == Insert(MakeRoom(p, m, x), EmptyFolderOf(x, m), NewFolder)

(***************************************************************************)
(* rejilla_data_project_add_node_from_info: a file found in a folder that  *)
(* is explored.  refuse is the answer to the question about big files.     *)
(***************************************************************************)
AddNodeFromInfo(p, u, m, replace, refuse) ==
  IF p.loading # 0 /\ u \in DOMAIN p.grafts
  THEN IF (\E n \in p.grafts[u] : p.tree[n].parent = m /\ p.tree[n].tmp) /\ ~IsGraftNeeded(p, u)
       THEN RemoveGraft(p, u) ELSE p
  ELSE IF (Disk[u].big /\ refuse) \/ (Taken(p, m, Base(u)) /\ ~replace) THEN ExcludeUri(p, u)
  ELSE Insert(MakeRoom(p, m, Base(u)), NodeFromInfo(Base(u), m, u), u)

(* An entry whose nodes are all in their places goes. *)
DropIfNeedless(p, u) == IF IsGraftNeeded(p, u) THEN p ELSE RemoveGraft(p, u)

(* rejilla_data_project_restore_uri *)
RestoreUri(p, u) ==
  LET parents == {m \in UriToNodes(p, Dir(u)) : Child(p, m, Base(u)) = None}
      found == u \in DOMAIN p.grafts
      restore(m, q) == AddNodeReal(AddNode(q, LoadingNodeOf(Base(u), m, u)), NextNode(q), found, u, FALSE)
      restored == FoldSet(restore, p, parents)
  IN  IF found THEN DropIfNeedless(restored, u) ELSE restored

----------------------------------------------------------------------------
(* Answers about a node. *)

(* rejilla_data_project_update_uri: the URI found has no symbolic link in it *)
UpdateUri(p, n, u) ==
  LET v == NodeToUri(p, p.tree[n].parent)
      (* the test that decides: all names of an instance have the same length *)
      foreign == v = NoUri \/ (~Below(v, u) /\ Len(u) <= Len(v))
  IN  IF p.tree[n].uri = u THEN p
      ELSE DropIfAlone(IF foreign THEN Graft(AddGraft(p, u), n, u) ELSE Ungraft(p, n), p.tree[n].uri)

(* Fault: the file is still counted as a folder. *)
SetFromInfoUncounted(p, n, u) ==
  LET d == ~Disk[u].dir
      q == [p EXCEPT !.tree[n].file = d, !.tree[n].fake = FALSE, !.tree[n].loading = FALSE,
                     !.tree[n].exploring = IF d THEN @ ELSE TRUE]
  IN  IF d THEN Charge(q, n, Disk[u].sectors - p.tree[n].sectors) ELSE q

(* rejilla_file_node_set_from_info *)
SetFromInfo(p, n, u) ==
  LET r == p.tree[n]
      d == ~Disk[u].dir
      q == [p EXCEPT !.children = IF d /\ ~r.file THEN @ + 1 ELSE IF ~d /\ r.file THEN @ - 1 ELSE @,
                     !.dirs     = IF d /\ ~r.file THEN @ - 1 ELSE IF ~d /\ r.file THEN @ + 1 ELSE @,
                     !.tree[n].file = d, !.tree[n].fake = FALSE, !.tree[n].loading = FALSE,
                     !.tree[n].exploring = IF d THEN @ ELSE TRUE]
  IN  IF d THEN Charge(q, n, Disk[u].sectors - r.sectors) ELSE q

(***************************************************************************)
(* rejilla_data_project_node_loaded, then the exploration of what is a     *)
(* folder (rejilla_data_vfs_loading_node_result).                          *)
(***************************************************************************)
CountedLoad(p, n, info) ==
  IF p.tree[n].tmp THEN SignalLoaded([p EXCEPT !.loading = @ - 1])
  ELSE IF p.loading # 0 /\ Grafted(p, n)
  THEN SignalLoaded([p EXCEPT !.loading = @ - (IF info.dir THEN 1 ELSE 2)])
  ELSE p
Explored(p, n, u) == IF Disk[u].dir THEN LoadDirectory(p, n, u) ELSE p
Loaded(p, n, u, refuse) ==
  IF Disk[u].big /\ refuse THEN RemoveNode(p, n)
  ELSE Explored([SetFromInfo(p, n, u) EXCEPT !.tree[n].from = u], n, u)
LocatedAt(p, n, u) == IF Grafted(p, n) THEN UpdateUri(p, n, u) ELSE p
NodeLoaded(p, n, u, refuse) ==
  IF p.tree[n].tmp /\ ~Disk[u].dir
  THEN LoadDirectory(ConvertToFake(ExcludeUri(p, u), n), n, u)
  ELSE Loaded(LocatedAt(CountedLoad(p, n, Disk[u]), n, u), n, u, refuse)

(* Fault: the end of an exploration does not count. *)
DirectoryNodeLoadedUncounted(p, n) == [p EXCEPT !.tree[n].exploring = FALSE]

(* rejilla_data_project_directory_node_loaded *)
DirectoryNodeLoaded(p, n) ==
  LET q == [p EXCEPT !.tree[n].exploring = FALSE]
  IN  IF p.loading # 0 /\ (Grafted(p, n) \/ p.tree[n].tmp)
      THEN SignalLoaded([q EXCEPT !.loading = @ - 1]) ELSE q

----------------------------------------------------------------------------
(* Moving and renaming. *)

(* The URI n has in the table or would have there. *)
GraftUri(p, n) == IF Grafted(p, n) THEN p.tree[n].uri ELSE NodeToUri(p, n)

(* The exploration of its folder does not put n where it was any more. *)
InTable(p, n) ==
  IF Grafted(p, n) \/ GraftUri(p, n) \in DOMAIN p.grafts THEN p ELSE GraftNodes(p, GraftUri(p, n))

(* n, which had or got the entry of u, is in its new place. *)
Placed(p, n, u, grafted) == JolietAdd(IF grafted THEN DropIfNeedless(p, u) ELSE p, n)

MayMove(p, n, m) ==
  /\ IsFolder(p, m) /\ (m # Root => ~p.tree[m].loading)
  /\ p.tree[n].parent # m /\ ~IsAncestor(p, n, m)

(***************************************************************************)
(* rejilla_data_project_move_node.  A node of the same name that the user  *)
(* agreed to replace is passed to rejilla_data_project_remove_sibling,     *)
(* which returns at once unless it is the moved node itself.               *)
(***************************************************************************)
Relink(p, n, m) ==
  LET q == [Unlink(p, n) EXCEPT !.tree[n].parent = m]
  IN  IF Grafted(p, n) THEN q ELSE Charge(q, m, p.tree[n].sectors)
Moved(p, n, m) == Placed(Relink(InTable(p, n), n, m), n, GraftUri(p, n), Grafted(p, n))
MoveNode(p, n, m) == IF MayMove(p, n, m) THEN Moved(JolietRemove(p, n), n, m) ELSE p

Renamed(p, n, x) ==
  Placed([InTable(p, n) EXCEPT !.tree[n].name = x], n, GraftUri(p, n), Grafted(p, n))

(* Fault: the node stays in the table under its shortened name. *)
RenameNodeKeepsJoliet(p, n, x) == Renamed(p, n, x)

(* rejilla_data_project_rename_node *)
RenameNode(p, n, x) ==
  LET taken == Child(p, p.tree[n].parent, x)
  IN  Renamed(JolietRemove(IF taken \in {None, n} THEN p ELSE RemoveReal(p, taken), n), n, x)

----------------------------------------------------------------------------
(* Export and opening. *)

(***************************************************************************)
(* rejilla_data_project_get_contents: one graft point for each grafted     *)
(* node, one for each node whose name joliet shortens, and the URIs to     *)
(* leave out of the folders they are in.                                   *)
(***************************************************************************)
Contents(p, joliet) ==
  LET table == {[path |-> Path(p, n), uri |-> u] : <<u, n>> \in
                  {<<v, m>> \in (DOMAIN p.grafts) \X Live(p) : m \in p.grafts[v]}}
      named == IF joliet THEN {n \in UNION {p.joliet[k] : k \in DOMAIN p.joliet} : ~Grafted(p, n)} ELSE {}
  IN  [grafts   |-> table \cup {[path |-> Path(p, n), uri |-> NodeToUri(p, n)] : n \in named},
       excluded |-> (DOMAIN p.grafts \ {NewFolder}) \cup {NodeToUri(p, n) : n \in named}]

(***************************************************************************)
(* What an imaging program makes of an export: excluded URIs are left out  *)
(* with all that is below them, then each graft point is put in its place. *)
(***************************************************************************)
Image(c) ==
  LET below(u) == {v \in Files : Below(u, v)}
      stays(u, v) == \A k \in Len(u) + 1 .. Len(v) : SubSeq(v, 1, k) \notin c.excluded
  IN  UNION {{[path |-> g.path, uri |-> g.uri]} \cup
             {[path |-> g.path \o SubSeq(v, Len(g.uri) + 1, Len(v)), uri |-> v] :
                v \in {w \in below(g.uri) \ {g.uri} : stays(g.uri, w)}} : g \in c.grafts}

(* What the user sees: each node in its place with the file it was made for. *)
Shown(p) == {[path |-> Path(p, n), uri |-> p.tree[n].from] : n \in Live(p)}

(* How far down from m the names of a path exist (skip_existing). *)
Deepest(p, m, names) ==
  CHOOSE k \in 0 .. Len(names) :
    /\ FindChild(p, m, SubSeq(names, 1, k)) # None
    /\ \A j \in k + 1 .. Len(names) : FindChild(p, m, SubSeq(names, 1, j)) = None

(* rejilla_data_project_create_path: temporary parents, not grafted yet *)
CreatePath(p, m, names) ==
  LET make[i \in 0 .. Len(names)] ==
        IF i = 0 THEN [p |-> p, at |-> m]
        ELSE LET q == make[i - 1].p
                 n == NextNode(q)
                 r == [LoadingNodeOf(names[i], make[i - 1].at, NoUri) EXCEPT !.tmp = TRUE]
             IN  [p |-> JolietAdd(AddNode(q, r), n), at |-> n]
  IN  make[Len(names)]

(***************************************************************************)
(* rejilla_data_project_add_path: what is added, unless there is a node    *)
(* already; a temporary one is made what the path says.                    *)
(***************************************************************************)
AddAt(p, m, x, u) ==
  LET n == Child(p, m, x)
  IN  IF n = None
      THEN AddNodeReal(AddNode(p, IF u = NewFolder THEN EmptyFolderOf(x, m) ELSE LoadingNodeOf(x, m, u)),
                       NextNode(p), TRUE, u, TRUE)
      ELSE IF ~p.tree[n].tmp THEN p
      ELSE Graft([p EXCEPT !.tree[n].tmp = FALSE, !.tree[n].fake = u = NewFolder,
                           !.tree[n].loading = u # NewFolder, !.tree[n].from = u], n, u)
AddPath(p, path, u) ==
  LET k == Deepest(p, Root, Front(path))
      c == CreatePath(p, FindChild(p, Root, SubSeq(path, 1, k)), SubSeq(path, k + 1, Len(path) - 1))
  IN  AddAt(EnsureGraft(c.p, u), c.at, Last(path), u)

(* Fault: all of them become created folders. *)
SettleFolderFake(p, n) == GraftFake(p, n)

(***************************************************************************)
(* The temporary parents get the URI they have in the tree, or become      *)
(* created folders (the loop at the end of load_contents).                 *)
(***************************************************************************)
SettleFolder(p, n) ==
  LET u == NodeToUri(p, n)
  IN  IF u = NoUri THEN GraftFake(p, n) ELSE Graft(EnsureGraft([p EXCEPT !.tree[n].from = u], u), n, u)
Settled(p) ==
  FoldLeft(SettleFolder, p,
           SetToSortSeq({n \in Live(p) : p.tree[n].tmp}, LAMBDA a, b : Len(Path(p, a)) >= Len(Path(p, b))))

(* rejilla_data_project_load_contents_notify: everything is asked for *)
Notify(p) ==
  LET asked == {n \in Live(p) : ~p.tree[n].fake}
  IN  [FoldSet(LAMBDA n, q : NodeAdded(q, n, NodeToUri(q, n)), p, asked)
         EXCEPT !.loading = 2 * Cardinality(asked)]

(***************************************************************************)
(* rejilla_data_project_load_contents for the list of a saved project.     *)
(* add_excluded_uri only excludes: the path it would create starts with a  *)
(* separator that skip_existing has skipped.                               *)
(***************************************************************************)
InOrder(p, gs) ==
  SetToSortSeq(gs, LAMBDA a, b : IF p.order = "below first" THEN Len(a.path) >= Len(b.path)
                                 ELSE Len(a.path) <= Len(b.path))
LoadContents(p, c) ==
  LET paths == FoldLeft(LAMBDA q, g : AddPath(q, g.path, g.uri), p, InOrder(p, c.grafts))
      loaded == Notify(Settled(FoldSet(LAMBDA u, q : ExcludeUri(q, u), paths, c.excluded)))
  IN  [loaded EXCEPT !.busy = @ \/ loaded.loading # 0]

(* A new project, and one that has been reset. *)
Empty(order) ==
  [tree |-> << >>, grafts |-> << >>, joliet |-> << >>, children |-> 0, dirs |-> 0,
   loading |-> 0, busy |-> FALSE, loads |-> << >>, listings |-> << >>, order |-> order]
=============================================================================
