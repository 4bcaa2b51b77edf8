---------------------------- MODULE CatalogTree ----------------------------
(***************************************************************************)
(* One directory's catalog as translate/dd_files.c keeps it: the files     *)
(* read into a binary tree by time whose nodes head trees by version, and  *)
(* the rule that decides when a listing is read again.                     *)
(* Nodes are entry numbers; 0 is a NULL link.                              *)
(***************************************************************************)
EXTENDS Catalog, SequencesExt

CONSTANTS MaxStamp, MaxVersion,  \* file names carry these times and versions
          MaxFiles,              \* bound: files in the directory
          AutoRescan             \* auto_rescan_hit_max

ASSUME CatalogTreeAssumption ==
  /\ MaxStamp \in Nat \ {0} /\ MaxVersion \in Nat
  /\ MaxFiles \in Nat /\ AutoRescan \in Nat \ {0}

VARIABLES files,     \* the directory, in readdir order
          entries,   \* the catalog: the directory as it was last read
          tree,      \* links of the nodes
          num_hits, rescan_urgent,
          asked      \* history: listings asked for since files # entries
vars == <<files, entries, tree, num_hits, rescan_urgent, asked>>

NoLinks  == [left |-> 0, right |-> 0, ver_left |-> 0, ver_right |-> 0]
Root(tr) == IF tr = << >> THEN 0 ELSE 1

----------------------------------------------------------------------------
(* ddfn_sort_insert: where, and on which link, entry e is hung.            *)
RECURSIVE PlaceInVersions(_, _, _, _)
PlaceInVersions(tr, ents, n, e) ==
  LET link == IF e.version < ents[n].version THEN "ver_left" ELSE "ver_right"
  IN  IF tr[n][link] = 0 THEN <<n, link>>
      ELSE PlaceInVersions(tr, ents, tr[n][link], e)

RECURSIVE Place(_, _, _, _)
Place(tr, ents, n, e) ==
  IF e.stamp = ents[n].stamp THEN PlaceInVersions(tr, ents, n, e)
  ELSE LET link == IF e.stamp > ents[n].stamp THEN "right" ELSE "left"
       IN  IF tr[n][link] = 0 THEN <<n, link>>
           ELSE Place(tr, ents, tr[n][link], e)

(* The tree of the first n entries.                                        *)
RECURSIVE TreeOf(_, _)
TreeOf(ents, n) ==
  IF n = 0 THEN << >>
  ELSE LET tr == TreeOf(ents, n - 1)
           at == Place(tr, ents, 1, ents[n])
       IN  IF n = 1 THEN <<NoLinks>>
           ELSE Append([tr EXCEPT ![at[1]][at[2]] = n], NoLinks)

(* ddfn_search.  The descent by time keeps the last node it left to the    *)
(* right (lt) and to the left (gt).                                        *)
RECURSIVE DescendAfter(_, _), DescendBefore(_, _), DescendNearest(_, _, _, _)
DescendAfter(n, target) ==
  IF n = 0 THEN 0
  ELSE IF target >= entries[n].stamp THEN DescendAfter(tree[n].right, target)
  ELSE LET gt == DescendAfter(tree[n].left, target) IN IF gt = 0 THEN n ELSE gt

DescendBefore(n, target) ==
  IF n = 0 THEN 0
  ELSE IF target <= entries[n].stamp THEN DescendBefore(tree[n].left, target)
  ELSE LET lt == DescendBefore(tree[n].right, target) IN IF lt = 0 THEN n ELSE lt

DescendNearest(n, lt, gt, target) ==
  CASE n = 0 /\ lt = 0 -> gt
    [] n = 0 /\ gt = 0 -> lt
    [] n = 0 /\ lt # 0 /\ gt # 0 ->
         IF target - entries[lt].stamp < entries[gt].stamp - target THEN lt ELSE gt
    [] n # 0 /\ target > entries[n].stamp -> DescendNearest(tree[n].right, n, gt, target)
    [] n # 0 /\ target < entries[n].stamp -> DescendNearest(tree[n].left, lt, n, target)
    [] OTHER -> n

RECURSIVE DescendVersions(_, _)
DescendVersions(n, version) ==
  LET next == IF version < entries[n].version THEN tree[n].ver_left
              ELSE tree[n].ver_right
  IN  IF entries[n].version = version \/ next = 0 THEN n
      ELSE DescendVersions(next, version)

(* Mutant of ddfn_search: the version is not looked for.                   *)
SearchByTimeOnly(target, request, version) ==
  LET n == CASE request = TIME_AFTER   -> DescendAfter(Root(tree), target)
             [] request = TIME_NEAREST -> DescendNearest(Root(tree), 0, 0, target)
             [] OTHER                  -> DescendBefore(Root(tree), target)
  IN  IF n = 0 THEN {} ELSE {n}

ddfn_search(target, request, version) ==
  LET n == CASE request = TIME_AFTER   -> DescendAfter(Root(tree), target)
             [] request = TIME_NEAREST -> DescendNearest(Root(tree), 0, 0, target)
             [] OTHER                  -> DescendBefore(Root(tree), target)
  IN  IF n = 0 THEN {} ELSE {DescendVersions(n, version)}

(* Mutant of EditorVersion: the first file of the time is taken.           *)
FirstVersionRead(n, version) == n

(* The editor's own descent to a version, in dd_sweepfile_list_v3.         *)
RECURSIVE EditorVersion(_, _)
EditorVersion(n, version) ==
  LET next == IF version < entries[n].version THEN tree[n].ver_left
              ELSE tree[n].ver_right
  IN  IF next = 0 THEN n ELSE EditorVersion(next, version)

(* Mutant of VersionsInOrder: versions below the first one read are left out. *)
VersionsUpward(n) ==
  LET up[k \in 0 .. MaxFiles] ==
        IF k = 0 THEN << >> ELSE <<k>> \o up[tree[k].ver_right]
  IN  up[n]

(* ddfn_ptr_list and ddfn_list_versions.                                   *)
RECURSIVE VersionsInOrder(_), InOrder(_, _)
VersionsInOrder(n) ==
  IF n = 0 THEN << >>
  ELSE VersionsInOrder(tree[n].ver_left) \o <<n>> \o VersionsInOrder(tree[n].ver_right)

InOrder(n, exhaustive) ==
  IF n = 0 THEN << >>
  ELSE InOrder(tree[n].left, exhaustive)
         \o (IF exhaustive THEN VersionsInOrder(n) ELSE <<n>>)
         \o InOrder(tree[n].right, exhaustive)

----------------------------------------------------------------------------
Init ==
  /\ files = << >> /\ entries = << >> /\ tree = << >>
  /\ num_hits = 0 /\ rescan_urgent = FALSE /\ asked = 0

(* The editor, or another program, writes a file: readdir gives its name   *)
(* anywhere in the directory.                                              *)
FileAppears(stamp, version, at) ==
  /\ Len(files) < MaxFiles
  /\ files' = InsertAt(files, at,
                        [stamp |-> stamp, version |-> version])
  /\ UNCHANGED <<entries, tree, num_hits, rescan_urgent, asked>>

(* ddir_rescan_urgent.                                                     *)
RescanUrgent ==
  /\ rescan_urgent' = TRUE
  /\ UNCHANGED <<files, entries, tree, num_hits, asked>>

(* Mutants: an answer from the catalog whatever its age; a catalog read    *)
(* again without its tree.                                                 *)
FileListCachedForever ==
  /\ num_hits # 0 /\ ~rescan_urgent
  /\ num_hits' = num_hits + 1
  /\ asked' = IF files = entries THEN 0 ELSE asked + 1
  /\ UNCHANGED <<files, entries, tree, rescan_urgent>>

(* ddir_files_v3: answered from the catalog while it has been asked for    *)
(* fewer than AutoRescan times and nobody called the rescan urgent.        *)
FileListCached ==
  /\ num_hits # 0 /\ ~rescan_urgent /\ num_hits + 1 < AutoRescan
  /\ num_hits' = num_hits + 1
  /\ asked' = IF files = entries THEN 0 ELSE asked + 1
  /\ UNCHANGED <<files, entries, tree, rescan_urgent>>

FileListRead ==
  /\ num_hits = 0 \/ rescan_urgent \/ num_hits + 1 >= AutoRescan
  /\ entries' = files
  /\ tree' = TreeOf(files, Len(files))
  /\ num_hits' = 1 /\ rescan_urgent' = FALSE /\ asked' = 0
  /\ UNCHANGED files

Next ==
  \/ \E s \in 1 .. MaxStamp, v \in 0 .. MaxVersion, at \in 1 .. Len(files) + 1 :
       FileAppears(s, v, at)
  \/ RescanUrgent
  \/ FileListCached
  \/ FileListRead

Spec == Init /\ [][Next]_vars

----------------------------------------------------------------------------
Entries == [stamp : 1 .. MaxStamp, version : 0 .. MaxVersion]

(* Every variable has its type; links name entries of the catalog.         *)
TypeOK ==
  /\ files \in Seq(Entries) /\ entries \in Seq(Entries)
  /\ tree \in Seq([left : 0 .. MaxFiles, right : 0 .. MaxFiles,
                   ver_left : 0 .. MaxFiles, ver_right : 0 .. MaxFiles])
  /\ Len(tree) = Len(entries)
  /\ num_hits \in Nat /\ rescan_urgent \in BOOLEAN /\ asked \in Nat

Targets  == 0 .. MaxStamp + 1
Versions == (-1 .. MaxVersion + 1) \cup {LatestVersion}

(* Whatever order readdir gave the files in, a lookup by time and version  *)
(* finds the entry Catalog says it finds: next, previous and nearest time, *)
(* ties to the later one, then the exact version or a neighbour            *)
(* (ddfn_search over the trees ddfn_sort_insert builds).                   *)
SearchAgrees ==
  \A target \in Targets, version \in Versions :
    \A request \in {TIME_NEAREST, TIME_AFTER, TIME_BEFORE} :
      ddfn_search(target, request, version) = Search(entries, target, request, version)

(* The file the editor opens for a time and the file the display shows as  *)
(* the latest version of that time are the same file                       *)
(* (dd_sweepfile_list_v3 and ddfn_search descend the same version tree).   *)
EditorOpensLatest ==
  \A k \in 1 .. Len(InOrder(Root(tree), FALSE)) :
    LET n == InOrder(Root(tree), FALSE)[k]
    IN  {EditorVersion(n, LatestVersion)}
          = ddfn_search(entries[n].stamp, TIME_NEAREST, LatestVersion)

(* The listings are the entries in order of time, and of version within a  *)
(* time when every version is listed; none is lost or listed twice         *)
(* (ddfn_ptr_list, ddfn_list_versions).                                    *)
ListingsComplete ==
  /\ InOrder(Root(tree), TRUE) = EntireList(entries)
  /\ InOrder(Root(tree), FALSE) = SweepList(entries)

(* A catalog that is behind the directory is found out: it answers fewer   *)
(* than auto_rescan_hit_max - 1 listings before it is read again           *)
(* (num_hits in ddir_files_v3).                                            *)
BoundedStaleness == asked < AutoRescan - 1
=============================================================================
