--------------------------- MODULE RejillaDataVfs ---------------------------
(***************************************************************************)
(* A data project and its user: files and folders are added, moved,        *)
(* renamed, removed, restored, saved and opened while what was asked of    *)
(* RejillaIO about earlier ones comes in (rejilla-data-vfs.c, the requests *)
(* of rejilla-track-data-cfg.c, rejilla-filtered-uri.c).                   *)
(*                                                                         *)
(* RejillaIO answers a request with results, each a call of the result     *)
(* callback, and then calls the end callback (see the module RejillaIO):   *)
(* the two are steps of their own.  A job that reset cancels calls neither.*)
(* The dialogs of the program are answered within the step that asks.      *)
(***************************************************************************)
EXTENDS RejillaDataProject

CONSTANTS
  NewNames,      \* names the user gives to nodes and to new folders
  MaxOps,        \* bound: requests of the user, the writing of a file included
  MaxSaves,      \* bound: project files written
  Inputs         \* which of the inputs known to go wrong are made

VARIABLES
  project,       \* the RejillaDataProject
  filtered,      \* RejillaFilteredUri: how many rows it has for a URI
  restored,      \* the URIs that are not to be filtered
  saved,         \* the project file, if one has been written
  same,          \* ghost: the project was opened from it and not touched since
  ops            \* requests made

vars == << project, filtered, restored, saved, same, ops >>

Uris == DOMAIN Disk
Kinds == {"overlap", "skip", "folder", "replace", "alias", "orphan", "tmp",
          "deep", "twice", "ignore", "race"}

ASSUME VfsAssumption ==
  MaxOps \in Nat /\ MaxNode \in Nat /\ MaxSaves \in 0 .. 1 /\ Inputs \subseteq Kinds

Init ==
  /\ \E order \in {"above first", "below first"} : project = Empty(order)
  /\ filtered = [u \in Uris |-> 0]
  /\ restored = {}
  /\ saved = << >>
  /\ same = FALSE
  /\ ops = 0

(* rejilla_data_vfs_is_active *)
Quiet == project.loads = << >> /\ project.listings = << >>

(* Rows where something can be put; on a loading one it goes to its parent. *)
Folders == {Root} \cup {m \in Live(project) : ~project.tree[m].file /\ ~project.tree[m].loading}

----------------------------------------------------------------------------
(* Inputs known to go wrong; the README says how. *)

Allowed(kind, happens) == happens => kind \in Inputs

(* Something is asked for that an earlier request, not answered yet, is about. *)
Asked == {Disk[u].real : u \in DOMAIN project.loads} \cup DOMAIN project.loads \cup DOMAIN project.listings
Overlaps(u) == \E v \in Asked, w \in {u, Disk[u].real} : Below(w, v) \/ Below(v, w)

(* The URI leads through a symbolic link to one that the project has. *)
Aliases(u) ==
  /\ Disk[u].real # u
  /\ Disk[u].real \in DOMAIN project.grafts \/ UriToNodes(project, Disk[u].real) # {}

(* The file is put in a folder that is some levels above it on disk. *)
SkipsFolder(u, m) ==
  LET v == NodeToUri(project, m)
  IN  v # NoUri /\ \E w \in {u, Disk[u].real} : IsStrictPrefix(v, Dir(w))

(* The first created folder of the project is not put at its root. *)
FirstInFolder(x, m) == m # Root /\ NewFolder \notin DOMAIN MakeRoom(project, m, x).grafts

(* A row that shows another file is where a folder being explored has u. *)
Mistakes(u) ==
  u \notin DOMAIN project.grafts /\ \E n \in UriToNodes(project, u) : project.tree[n].from # u
MistakesRow(n) == n # None /\ Mistakes(NodeToUri(project, n))

(* A URI is excluded that rows show without being grafted. *)
Ignores(u) == u \notin DOMAIN project.grafts /\ UriToNodes(project, u) # {}
ShowsHidden(p) ==
  \E n \in Live(p) : LET u == p.tree[n].from
                     IN  ~Fake(p, n) /\ Disk[u].hidden /\ u \notin restored /\ ~Grafted(p, n)

(* A saved project leaves out a URI below a folder that has no graft. *)
HidesDeep(p) ==
  \E u \in DOMAIN p.grafts \ {NewFolder} : HasParentUri(p, u) /\ Dir(u) \notin DOMAIN p.grafts

(* It has a folder twice that is no longer what it is on disk. *)
SplitsTwice(p) ==
  \E n \in Live(p) : LET u == p.tree[n].uri
                     IN  /\ p.tree[n].tmp /\ Dir(u) \in DOMAIN p.grafts
                         /\ p.grafts[Dir(u)] # {p.tree[n].parent}

----------------------------------------------------------------------------
(***************************************************************************)
(* What the user asks for.  While an opened project is loaded (busy) the   *)
(* track refuses some requests, and the window makes the rows insensitive, *)
(* so that none can be moved, renamed or restored either.                  *)
(***************************************************************************)

Request(p) ==
  /\ ~project.busy /\ ops < MaxOps /\ ops' = ops + 1
  /\ Allowed("ignore", ShowsHidden(p))
  /\ project' = p /\ same' = FALSE

(* rejilla_track_data_cfg_add, rejilla_data_project_add_loading_node *)
Add(u, m) ==
  /\ Allowed("overlap", Overlaps(u)) /\ Allowed("skip", SkipsFolder(u, m))
  /\ Allowed("alias", Aliases(u))
  /\ Allowed("race", Mistakes(u) \/ MistakesRow(Child(project, m, Base(u))))
  /\ Request(AddLoadingNode(project, u, m))
  /\ UNCHANGED << filtered, restored, saved >>

(* rejilla_track_data_cfg_add_empty_directory *)
CreateFolder(x, m) ==
  /\ Allowed("folder", FirstInFolder(x, m))
  /\ Allowed("race", MistakesRow(Child(project, m, x)))
  /\ Request(AddEmptyDirectory(project, x, m))
  /\ UNCHANGED << filtered, restored, saved >>

(* rejilla_track_data_cfg_remove *)
RemoveRow(n) ==
  /\ Allowed("tmp", project.tree[n].tmp) /\ Allowed("race", MistakesRow(n))
  /\ Request(RemoveNode(project, n))
  /\ UNCHANGED << filtered, restored, saved >>

(* A row dropped on another one (drag_data_received) *)
Move(n, m) ==
  /\ MayMove(project, n, m)
  /\ Allowed("replace", Taken(project, m, project.tree[n].name)) /\ Allowed("race", MistakesRow(n))
  /\ Request(MoveNode(project, n, m))
  /\ UNCHANGED << filtered, restored, saved >>

(* rejilla_track_data_cfg_rename *)
Rename(n, x) ==
  /\ Allowed("race", MistakesRow(n) \/ MistakesRow(Child(project, project.tree[n].parent, x)))
  /\ Request(RenameNode(project, n, x))
  /\ UNCHANGED << filtered, restored, saved >>

(* rejilla_track_data_cfg_restore, rejilla_filtered_uri_restore *)
Restore(u) ==
  /\ filtered[u] > 0
  /\ Allowed("overlap", Overlaps(u)) /\ Allowed("orphan", ~HasParentUri(project, u))
  /\ Request(RestoreUri(project, u))
  /\ filtered' = [filtered EXCEPT ![u] = @ - 1]
  /\ restored' = restored \cup {u}
  /\ UNCHANGED saved

(* rejilla_track_data_cfg_reset: rejilla_data_vfs_clear cancels all jobs *)
Reset ==
  /\ project.tree # << >>
  /\ Request(Empty(project.order))
  /\ filtered' = [u \in Uris |-> 0]
  /\ restored' = {}
  /\ UNCHANGED saved

(***************************************************************************)
(* The project is written to a file (rejilla_project_save) when nothing is *)
(* being loaded.  Opening it makes a new track; opening it once more       *)
(* before it has been touched comes to the same.                           *)
(***************************************************************************)
Save ==
  /\ Quiet /\ Len(saved) < MaxSaves /\ project.tree # << >>
  /\ ops < MaxOps /\ ops' = ops + 1
  /\ saved' = << [contents |-> Contents(project, FALSE), restored |-> restored, shown |-> Shown(project)] >>
  /\ UNCHANGED << project, filtered, restored, same >>

Open ==
  /\ saved # << >> /\ ~same
  /\ LET p == LoadContents(Empty(project.order), saved[1].contents)
     IN  /\ Allowed("deep", HidesDeep(p)) /\ Allowed("twice", SplitsTwice(p))
         /\ project' = p
  /\ filtered' = [u \in Uris |-> 0]
  /\ restored' = saved[1].restored
  /\ same' = TRUE
  /\ UNCHANGED << saved, ops >>

----------------------------------------------------------------------------
(* What RejillaIO answers. *)

(* The user is asked where it arises, and never while a project is loaded. *)
MayRefuse(u) == ~project.busy /\ Allowed("ignore", Ignores(u))
MayKeep(d, u) == MayRefuse(u) /\ \E m \in project.listings[d].nodes : Taken(project, m, Base(u))
Refusals(u) == {FALSE, Disk[u].big /\ MayRefuse(u)}

(* rejilla_data_vfs_loading_node_result *)
NodeResult(u, refuse) ==
  /\ u \in DOMAIN project.loads /\ ~project.loads[u].answered
  /\ LET nodes == {n \in project.loads[u].nodes : project.tree[n].loading}
         p == [project EXCEPT !.loads[u] = [nodes |-> {}, answered |-> TRUE]]
         loaded == FoldSet(LAMBDA n, q : NodeLoaded(q, n, Disk[u].real, refuse), p, nodes)
         removed == FoldSet(LAMBDA n, q : RemoveNode(q, n),
                            IF Disk[u].status = "unreadable" THEN ExcludeUri(p, u) ELSE p, nodes)
     IN  project' = IF Disk[u].status = "ok" THEN loaded ELSE removed
  /\ same' = (same /\ ~refuse)
  /\ UNCHANGED << filtered, restored, saved, ops >>

(* rejilla_data_vfs_loading_node_end *)
NodeEnd(u) ==
  /\ u \in DOMAIN project.loads /\ project.loads[u].answered
  /\ project' = [project EXCEPT !.loads = Drop(@, {u})]
  /\ UNCHANGED << filtered, restored, saved, same, ops >>

(* rejilla_data_vfs_directory_load_result: one entry of folder d *)
DirResult(d, u, replace, refuse) ==
  /\ d \in DOMAIN project.listings /\ u \in project.listings[d].left
  /\ LET p == [project EXCEPT !.listings[d].left = @ \ {u}]
         hidden == Disk[u].status = "ok" /\ Disk[u].hidden /\ u \notin restored
         found == FoldSet(LAMBDA m, q : AddNodeFromInfo(q, u, m, replace, refuse), p, p.listings[d].nodes)
     IN  /\ project' = IF Disk[u].status = "unreadable" \/ hidden THEN ExcludeUri(p, u) ELSE found
         /\ filtered' = IF hidden THEN [filtered EXCEPT ![u] = @ + 1] ELSE filtered
  /\ same' = (same /\ replace /\ ~refuse)
  /\ UNCHANGED << restored, saved, ops >>

(* rejilla_data_vfs_directory_load_end *)
DirEnd(d) ==
  /\ d \in DOMAIN project.listings /\ project.listings[d].left = {}
  /\ project' = [FoldSet(LAMBDA n, q : DirectoryNodeLoaded(q, n), project, project.listings[d].nodes)
                   EXCEPT !.listings = Drop(@, {d})]
  /\ UNCHANGED << filtered, restored, saved, same, ops >>

Answers == \E u \in DOMAIN project.loads :
             NodeEnd(u) \/ \E refuse \in Refusals(u) : NodeResult(u, refuse)
Entries == \E d \in DOMAIN project.listings :
             \/ \E u \in project.listings[d].left, replace \in BOOLEAN :
                  /\ ~replace => MayKeep(d, u)
                  /\ \E refuse \in Refusals(u) : DirResult(d, u, replace, refuse)
             \/ DirEnd(d)

Requests ==
  \/ \E m \in Folders : (\E u \in Uris : Add(u, m)) \/ (\E x \in NewNames : CreateFolder(x, m))
  \/ \E n \in Live(project) :
       \/ RemoveRow(n)
       \/ \E m \in Folders : Move(n, m)
       \/ \E x \in NewNames : Rename(n, x)
  \/ \E u \in Uris : Restore(u)
  \/ Reset \/ Save \/ Open

(* Nothing is being loaded and nothing asked for. *)
Rest == Quiet /\ UNCHANGED vars

Next == Requests \/ Answers \/ Entries \/ Rest

(***************************************************************************)
(* The jobs of RejillaIO end, and their results are delivered: Answers and *)
(* Entries are weakly fair, with what enables them written out.            *)
(***************************************************************************)
Fairness ==
  /\ []<>(project.loads = << >>) \/ []<><<Answers>>_vars
  /\ []<>(project.listings = << >>) \/ []<><<Entries>>_vars
Spec == Init /\ [][Next]_vars /\ Fairness

----------------------------------------------------------------------------
(* Properties. *)

NodeRecords ==
  [parent : {Root} \cup 1 .. MaxNode, uri : {NoUri, NewFolder} \cup Uris,
   fake : BOOLEAN, file : BOOLEAN, loading : BOOLEAN, exploring : BOOLEAN, tmp : BOOLEAN,
   sectors : Nat, from : {NoUri, NewFolder} \cup Uris]

(***************************************************************************)
(* Types; no counter and no size falls below zero, every node hangs below  *)
(* the root.                                                               *)
(***************************************************************************)
TypeOK ==
  /\ Live(project) \subseteq 1 .. MaxNode
  /\ \A n \in Live(project) :
       /\ [f \in DOMAIN project.tree[n] \ {"name"} |-> project.tree[n][f]] \in NodeRecords
       /\ project.tree[n].parent \in {Root} \cup Live(project)
  /\ DOMAIN project.grafts \subseteq Uris \cup {NewFolder}
  /\ project.children \in Nat /\ project.dirs \in Nat /\ project.loading \in Nat
  /\ filtered \in [Uris -> Nat] /\ restored \subseteq Uris

(***************************************************************************)
(* The tree can be told apart and looked up: no two children of a folder   *)
(* have the same name, whatever is dropped, renamed, found or restored     *)
(* (rejilla_file_node_check_name_existence), and a node is listed in the   *)
(* table of grafts under the URI it is grafted with and under no other     *)
(* (rejilla_file_node_graft, rejilla_file_node_ungraft).                   *)
(***************************************************************************)
UniqueNames ==
  \A n, m \in Live(project) :
    project.tree[n].parent = project.tree[m].parent /\ project.tree[n].name = project.tree[m].name => n = m

TableAndTreeAgree ==
  /\ UniqueNames
  /\ \A u \in DOMAIN project.grafts : \A n \in project.grafts[u] :
       n \in Live(project) /\ project.tree[n].uri = u
  /\ \A n \in Live(project) : Grafted(project, n) =>
       project.tree[n].uri \in DOMAIN project.grafts /\ n \in project.grafts[project.tree[n].uri]

(***************************************************************************)
(* The size of a folder is that of what its own graft puts on the disc,    *)
(* and "all nodes should have the exact same size" that are grafted for    *)
(* the same URI once they are loaded (rejilla-data-project.c, graft_nodes  *)
(* and get_sectors: the size of the disc counts each URI once).            *)
(***************************************************************************)
SizesAreExact ==
  /\ \A m \in Live(project) : IsFolder(project, m) =>
       project.tree[m].sectors =
         MapThenSumSet(LAMBDA n : project.tree[n].sectors,
                       {n \in ChildrenOf(project, m) : ~Grafted(project, n)})
  /\ Quiet => \A u \in DOMAIN project.grafts \ {NewFolder} : \A n, m \in project.grafts[u] :
       project.tree[n].sectors = project.tree[m].sectors

(***************************************************************************)
(* What the program tallies beside the tree: files and folders             *)
(* (RejillaFileTreeStats) and the names that joliet shortens, each under   *)
(* the folder it is in now.  The sizes, which tell whether it fits, are no *)
(* less exact.                                                             *)
(***************************************************************************)
TalliesAreExact ==
  /\ SizesAreExact
  /\ project.children = Cardinality({n \in Live(project) : project.tree[n].file})
  /\ project.dirs = Cardinality({n \in Live(project) : ~project.tree[n].file})
  /\ \A k \in DOMAIN project.joliet : project.joliet[k] # {}
  /\ \A n \in Live(project), k \in DOMAIN project.joliet :
       n \in project.joliet[k] <=> IsLong(project, n) /\ JolietKey(project, n) = k
  /\ \A n \in Live(project) : IsLong(project, n) => JolietKey(project, n) \in DOMAIN project.joliet

(***************************************************************************)
(* What is kept beside the tree is what the tree says.                     *)
(***************************************************************************)
BooksAgree == TableAndTreeAgree /\ TalliesAreExact

(***************************************************************************)
(* When nothing is being loaded, the grafts and the excluded URIs the      *)
(* imaging programs get make a disc with just the files and folders that   *)
(* the user sees, each in its place (rejilla_data_project_get_contents).   *)
(***************************************************************************)
ExportIsTheTree == Quiet => Image(Contents(project, FALSE)) = Shown(project)

(***************************************************************************)
(* A row that is shown as loading or as being explored is waited for: an   *)
(* answer of RejillaIO will reach it.                                      *)
(***************************************************************************)
NobodyIsForgotten ==
  \A n \in Live(project) :
    /\ project.tree[n].loading   => \E u \in DOMAIN project.loads : n \in project.loads[u].nodes
    /\ project.tree[n].exploring => \E u \in DOMAIN project.listings : n \in project.listings[u].nodes

(***************************************************************************)
(* A project that has been opened comes back as it was saved.              *)
(***************************************************************************)
ReopenedAsSaved == Quiet /\ same => Shown(project) = saved[1].shown

(***************************************************************************)
(* The loading of an opened project ends: until the count of its           *)
(* operations comes down to zero, the window stays insensitive.            *)
(***************************************************************************)
OpenedIsLoaded == project.busy ~> ~project.busy

(* What is loading is answered: every row that waits has its answer on the *)
(* way, and an opened project gets to its end.                             *)
LoadingEnds == []NobodyIsForgotten /\ OpenedIsLoaded
=============================================================================
