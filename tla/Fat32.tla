------------------------------- MODULE Fat32 -------------------------------
(***************************************************************************)
(* The FAT32 volume (fat32.c) and the table of files over it (fs.c).  Each *)
(* operation is a plan of writes, a table entry or a cluster at a time, and*)
(* the power may go between any two; the volume is then mounted again.     *)
(***************************************************************************)
EXTENDS Integers, Sequences, FiniteSets

CONSTANTS
  FatNames,      \* files and directories; a name stands for its whole path
  FatDirs,       \* those that are directories, all of them in the root
  FatParent,     \* the directory a name is in: a name, or Top
  ShortName,     \* its name in a directory entry
  LastCluster,   \* clusters are 2 .. LastCluster; 2 is the root
  SlotsPerCluster,
  FileClusters,  \* clusters a file may have
  MaxCuts,
  CutsInGrowth,  \* power may go before a directory's new cluster is cleared
  WritesHoles    \* files are written beyond their ends

ASSUME Fat32Assumption ==
  /\ LastCluster \in Nat /\ LastCluster >= 2 /\ SlotsPerCluster \in Nat \ {0}
  /\ FileClusters \in Nat \ {0} /\ MaxCuts \in Nat
  /\ CutsInGrowth \in BOOLEAN /\ WritesHoles \in BOOLEAN

Top == "top"
RootCluster == 2
Clusters == RootCluster .. LastCluster
Eoc == 1000
FreeFatEntry == 0

VARIABLES
  fat,    \* copy (1, 2) -> cluster -> its entry
  cells,  \* cluster -> what it holds: slots of a directory, or a file's bytes
  plan,   \* writes still to be made by the operation
  after,  \* the table of files once they are made
  fatFiles,  \* name -> [used, cluster, size]: fs.files
  cuts,   \* power cuts
  atop    \* "running", "mounted": the last step was a mount

fatVars == <<fat, cells, plan, after, fatFiles, cuts, atop>>

EndSlot == [kind |-> "end"]
DeletedSlot == [kind |-> "deleted"]
DotSlot == [kind |-> "dot"]
DirCell(slots) == [kind |-> "dir", slots |-> slots]
DataCell(n) == [kind |-> "data", by |-> n]
BlankCluster == [i \in 1 .. SlotsPerCluster |-> EndSlot]
Put(slots, i, s) == [j \in 1 .. SlotsPerCluster |-> IF j = i THEN s ELSE slots[j]]
NoFile == [used |-> FALSE, cluster |-> 0, size |-> 0]
InUse(c, size) == [used |-> TRUE, cluster |-> c, size |-> size]

(***************************************************************************)
(* Reading the volume.  A state of it is a record [fat, cells, plan].      *)
(***************************************************************************)
\* fat32_next_cluster, followed to the end of the chain.
RECURSIVE Follow(_, _, _)
Follow(table, c, seen) ==
  IF c \notin Clusters \/ c \in seen THEN <<>>
  ELSE <<c>> \o Follow(table, table[c], seen \cup {c})
ChainOf(table, c) == Follow(table, c, {})

\* A cluster of file data taken for a directory shows no entry of ours.
SlotsOf(x) == IF x.kind = "dir" THEN x.slots ELSE [i \in 1 .. SlotsPerCluster |-> DeletedSlot]

\* The places of a directory, in order.
Places(v, dir) ==
  LET chain == ChainOf(v.fat, dir) IN
  [k \in 1 .. Len(chain) * SlotsPerCluster |->
     [c |-> chain[((k - 1) \div SlotsPerCluster) + 1], i |-> ((k - 1) % SlotsPerCluster) + 1]]
ClusterAt(v, p) == SlotsOf(v.cells[p.c])[p.i]

FirstIndex(n, P(_)) == CHOOSE k \in 1 .. n : P(k) /\ \A j \in 1 .. k - 1 : ~P(j)
Found(v, dir, P(_)) ==
  LET ps == Places(v, dir)
      hit(k) == P(ClusterAt(v, ps[k]))
      ends(k) == ClusterAt(v, ps[k]).kind = "end" IN
  IF \E k \in DOMAIN ps : hit(k) /\ \A j \in 1 .. k : ~ends(j)
    THEN <<ps[FirstIndex(Len(ps), hit)]>> ELSE <<>>

\* fat32_lookup.
fat32_lookup(v, dir, n) ==
  LET named(s) == s.kind = "entry" /\ ShortName[s.name] = ShortName[n] IN Found(v, dir, named)
EntriesIn(v, dir) ==
  LET ps == Places(v, dir) IN
  {ClusterAt(v, ps[k]) : k \in {j \in DOMAIN ps : /\ ClusterAt(v, ps[j]).kind = "entry"
                                          /\ \A m \in 1 .. j : ClusterAt(v, ps[m]).kind # "end"}}

(***************************************************************************)
(* Changing it: what each function adds to the plan.                       *)
(***************************************************************************)
\* fat32_set_cluster_entry: the first copy, then the second.
SetEntry(v, c, to) ==
  [v EXCEPT !.fat[c] = to,
            !.plan = @ \o <<[what |-> "fat", copy |-> 1, c |-> c, to |-> to],
                            [what |-> "fat", copy |-> 2, c |-> c, to |-> to]>>]
WriteCell(v, c, x) ==
  [v EXCEPT !.cells[c] = x, !.plan = Append(@, [what |-> "cell", copy |-> 0, c |-> c, to |-> x])]

FreeClusters(v) == {c \in Clusters : v.fat[c] = FreeFatEntry}
NextFree(v) == CHOOSE c \in FreeClusters(v) : \A d \in FreeClusters(v) : c <= d
fat32_alloc_cluster(v) == SetEntry(v, NextFree(v), Eoc)
\* Mutant: the cluster is linked before it is marked as taken.
LinkFirst(v, last) == SetEntry(SetEntry(v, last, NextFree(v)), NextFree(v), Eoc)
LinkNew(v, last) == SetEntry(fat32_alloc_cluster(v), last, NextFree(v))

RECURSIVE fat32_free_chain(_, _)
fat32_free_chain(v, chain) ==
  IF chain = <<>> THEN v ELSE fat32_free_chain(SetEntry(v, Head(chain), FreeFatEntry), Tail(chain))

SetSlot(v, p, s) == WriteCell(v, p.c, DirCell(Put(SlotsOf(v.cells[p.c]), p.i, s)))

\* fat32_write_dir_entry: the first place that is free, or a cluster more.
EntryRoom(v, dir) ==
  \E k \in DOMAIN Places(v, dir) : ClusterAt(v, Places(v, dir)[k]).kind \in {"end", "deleted"}
EntryFits(v, dir) == EntryRoom(v, dir) \/ FreeClusters(v) # {}
fat32_write_dir_entry(v, dir, s) ==
  LET ps == Places(v, dir)
      empty(k) == ClusterAt(v, ps[k]).kind \in {"end", "deleted"}
      chain == ChainOf(v.fat, dir) IN
  IF EntryRoom(v, dir) THEN SetSlot(v, ps[FirstIndex(Len(ps), empty)], s)
  ELSE WriteCell(LinkNew(v, chain[Len(chain)]), NextFree(v),
                 DirCell(Put(BlankCluster, 1, s)))

NewEntry(n, c) == [kind |-> "entry", name |-> n, cluster |-> c, size |-> 0]
\* fat32_create_file, fat32_mkdir: a cluster, what a directory starts with, the
\* entry; if it does not fit, the cluster goes back.
NewInDir(v, dir, n) ==
  LET c == NextFree(v)
      got == fat32_alloc_cluster(v)
      made == IF n \in FatDirs
                THEN WriteCell(got, c, DirCell(Put(Put(BlankCluster, 1, DotSlot), 2, DotSlot)))
                ELSE got IN
  IF EntryFits(made, dir) THEN fat32_write_dir_entry(made, dir, NewEntry(n, c))
  ELSE fat32_free_chain(made, <<c>>)

(***************************************************************************)
(* The table of files.                                                     *)
(***************************************************************************)
Volume == [fat |-> fat[1], cells |-> cells, plan |-> <<>>]
Starts(v, table) ==
  /\ plan = <<>>
  /\ IF v.plan = <<>> THEN fatFiles' = table /\ UNCHANGED <<plan, after>>
     ELSE plan' = v.plan /\ after' = table /\ UNCHANGED fatFiles
  /\ atop' = "running"
  /\ UNCHANGED <<fat, cells, cuts>>

EntryAt(v, place) == ClusterAt(v, place[1])

\* fat32_resolve_parent makes the directory if it is missing.
Resolved(v, n) ==
  IF \/ FatParent[n] = Top \/ FreeClusters(v) = {}
     \/ fat32_lookup(v, RootCluster, FatParent[n]) # <<>> THEN v
  ELSE NewInDir(v, RootCluster, FatParent[n])
ParentCluster(v, n) ==
  IF FatParent[n] = Top THEN RootCluster
  ELSE LET p == fat32_lookup(v, RootCluster, FatParent[n]) IN
       IF p = <<>> THEN 0 ELSE EntryAt(v, p).cluster

\* fs_create_file: an entry of that short name is taken for the file.
fs_create_file(n) ==
  /\ n \notin FatDirs /\ ~fatFiles[n].used
  /\ LET v == Resolved(Volume, n)
         dir == ParentCluster(v, n)
         old == fat32_lookup(v, dir, n)
         w == IF dir # 0 /\ old = <<>> /\ FreeClusters(v) # {} THEN NewInDir(v, dir, n) ELSE v
         p == fat32_lookup(w, dir, n) IN
     Starts(w, IF dir = 0 \/ p = <<>> THEN fatFiles
               ELSE [fatFiles EXCEPT ![n] = InUse(EntryAt(w, p).cluster, 0)])

fs_mkdir(n) ==
  /\ n \in FatDirs /\ ~fatFiles[n].used
  /\ LET v == Volume
         w == IF fat32_lookup(v, RootCluster, n) = <<>> /\ FreeClusters(v) # {}
                THEN NewInDir(v, RootCluster, n) ELSE v
         p == fat32_lookup(w, RootCluster, n) IN
     \* a directory that is there already is an error
     Starts(w, IF p = <<>> \/ w.plan = <<>> THEN fatFiles
               ELSE [fatFiles EXCEPT ![n] = InUse(EntryAt(w, p).cluster, 0)])

\* fat32_set_file_size finds the entry by its cluster.
OfCluster(v, dir, c) == LET same(s) == s.kind = "entry" /\ s.cluster = c IN Found(v, dir, same)
fat32_set_file_size(v, dir, c, size) ==
  LET p == OfCluster(v, dir, c) IN
  IF dir = 0 \/ p = <<>> THEN v ELSE SetSlot(v, p[1], [ClusterAt(v, p[1]) EXCEPT !.size = size])

RECURSIVE Extended(_, _, _)
Extended(v, c, upTo) ==
  LET chain == ChainOf(v.fat, c) IN
  IF Len(chain) >= upTo \/ FreeClusters(v) = {} THEN v
  ELSE Extended(LinkNew(v, chain[Len(chain)]), c, upTo)
RECURSIVE Stored(_, _, _)
Stored(v, n, indexes) ==
  IF indexes = {} THEN v
  ELSE LET k == CHOOSE i \in indexes : \A j \in indexes : i <= j IN
       Stored(WriteCell(v, ChainOf(v.fat, fatFiles[n].cluster)[k], DataCell(n)), n, indexes \ {k})

\* fat32_vfs_write of clusters from .. upTo of the file: the chain is made long
\* enough first, and the size is written last.
fat32_vfs_write(n, from, upTo) ==
  /\ n \notin FatDirs /\ fatFiles[n].used
  /\ WritesHoles \/ from <= fatFiles[n].size + 1
  /\ LET f == fatFiles[n]
         v == Extended(Volume, f.cluster, upTo)
         size == IF upTo > f.size THEN upTo ELSE f.size IN
     IF Len(ChainOf(v.fat, f.cluster)) < upTo THEN Starts(v, fatFiles)
     ELSE LET w == Stored(v, n, from .. upTo) IN
          Starts(fat32_set_file_size(w, ParentCluster(w, n), f.cluster, size),
                 [fatFiles EXCEPT ![n].size = size])

\* The clusters stay with the file.
fat32_vfs_truncate(n) ==
  /\ n \notin FatDirs /\ fatFiles[n].used
  /\ Starts(fat32_set_file_size(Volume, ParentCluster(Volume, n), fatFiles[n].cluster, 0),
            [fatFiles EXCEPT ![n].size = 0])

\* fat32_delete_file, fat32_rmdir: the entry goes first, then the chain, the
\* end of it last.
Removed(v, dir, p) ==
  LET c == EntryAt(v, p).cluster
      at == OfCluster(v, dir, c) IN
  fat32_free_chain(SetSlot(v, at[1], DeletedSlot), ChainOf(v.fat, c))
fat32_vfs_unlink(n) ==
  /\ n \notin FatDirs /\ fatFiles[n].used
  /\ LET v == Volume
         dir == ParentCluster(v, n)
         p == IF dir = 0 THEN <<>> ELSE fat32_lookup(v, dir, n) IN
     IF p = <<>> THEN Starts(v, fatFiles)
     ELSE Starts(Removed(v, dir, p), [fatFiles EXCEPT ![n] = NoFile])
fs_rmdir(n) ==
  /\ n \in FatDirs /\ fatFiles[n].used
  /\ \A m \in FatNames : fatFiles[m].used => FatParent[m] # n
  /\ LET v == Volume
         p == fat32_lookup(v, RootCluster, n) IN
     IF p = <<>> \/ EntriesIn(v, EntryAt(v, p).cluster) # {} THEN Starts(v, fatFiles)
     ELSE Starts(Removed(v, RootCluster, p), [fatFiles EXCEPT ![n] = NoFile])

\* block_write_sector, one table entry or cluster.
WriteNext ==
  /\ plan # <<>>
  /\ LET w == Head(plan) IN
       IF w.what = "fat" THEN fat' = [fat EXCEPT ![w.copy][w.c] = w.to] /\ UNCHANGED cells
       ELSE cells' = [cells EXCEPT ![w.c] = w.to] /\ UNCHANGED fat
  /\ plan' = Tail(plan)
  /\ fatFiles' = IF Tail(plan) = <<>> THEN after ELSE fatFiles
  /\ UNCHANGED <<after, cuts, atop>>

\* fat32_rebuild_dir.  The prefix of a subdirectory is lengthened with every
\* entry, so that only its first is entered under its name.
FirstOf(v, dir) ==
  LET ps == Places(v, dir)
      some(k) == ClusterAt(v, ps[k]).kind = "entry" IN
  {s \in EntriesIn(v, dir) : s = ClusterAt(v, ps[FirstIndex(Len(ps), some)])}
fat32_rebuild_dir(v) ==
  LET top == EntriesIn(v, RootCluster)
      below == UNION {FirstOf(v, d.cluster) : d \in {s \in top : s.name \in FatDirs}}
      seen == top \cup below IN
  [n \in FatNames |->
     IF \E s \in seen : s.name = n
       THEN LET s == CHOOSE x \in seen : x.name = n IN InUse(s.cluster, s.size)
       ELSE NoFile]

\* The new cluster of a directory, linked and not yet cleared.
Growing ==
  \E i \in DOMAIN plan : /\ plan[i].what = "cell" /\ plan[i].to.kind = "dir"
                         /\ cells[plan[i].c].kind = "data"
                         /\ \E c \in Clusters : fat[1][c] = plan[i].c
PowerCut ==
  /\ cuts < MaxCuts /\ cuts' = cuts + 1
  /\ CutsInGrowth \/ ~Growing
  /\ plan' = <<>>
  /\ fatFiles' = fat32_rebuild_dir(Volume) /\ after' = fatFiles'
  /\ atop' = "mounted"
  /\ UNCHANGED <<fat, cells>>

\* fat32_format.
Fat32Init ==
  /\ fat = [k \in 1 .. 2 |-> [c \in Clusters |-> IF c = RootCluster THEN Eoc ELSE FreeFatEntry]]
  /\ cells = [c \in Clusters |-> DirCell(BlankCluster)]
  /\ plan = <<>>
  /\ fatFiles = [n \in FatNames |-> NoFile] /\ after = fatFiles
  /\ cuts = 0 /\ atop = "running"

Fat32Next ==
  \/ \E n \in FatNames :
       \/ fs_create_file(n) \/ fs_mkdir(n) \/ fs_rmdir(n)
       \/ fat32_vfs_truncate(n) \/ fat32_vfs_unlink(n)
       \/ \E from, upTo \in 1 .. FileClusters : from <= upTo /\ fat32_vfs_write(n, from, upTo)
  \/ WriteNext \/ PowerCut

Fat32Spec == Fat32Init /\ [][Fat32Next]_fatVars

(***************************************************************************)
(* Properties.                                                             *)
(***************************************************************************)
Fat32TypeOK ==
  /\ \A k \in 1 .. 2 : fat[k] \in [Clusters -> Clusters \cup {FreeFatEntry, Eoc}]
  /\ cuts \in 0 .. MaxCuts

OnDisk == LET top == EntriesIn(Volume, RootCluster) IN
  top \cup UNION {EntriesIn(Volume, d.cluster) : d \in {s \in top : s.name \in FatDirs}}
Heads == {RootCluster} \cup {s.cluster : s \in OnDisk}
OwnClusters(c) == LET chain == ChainOf(fat[1], c) IN {chain[i] : i \in DOMAIN chain}

DirHeads == {RootCluster} \cup {s.cluster : s \in {x \in OnDisk : x.name \in FatDirs}}

\* Whatever write the power stops at, the chain of every entry on the volume
\* is allocated to its end, no cluster belongs to two, and no directory shows
\* what a file left in a cluster.
ChainsAreSound ==
  /\ Cardinality(Heads) = Cardinality(OnDisk) + 1
  /\ \A c \in Heads :
       /\ OwnClusters(c) # {} /\ LET chain == ChainOf(fat[1], c) IN fat[1][chain[Len(chain)]] = Eoc
       /\ \A d \in Heads \ {c} : OwnClusters(c) \cap OwnClusters(d) = {}
  /\ plan = <<>> => \A c \in DirHeads : \A k \in OwnClusters(c) : cells[k].kind = "dir"

\* The first clusters of a file, as many as its entry says, hold what was
\* written to it and never what another file left.
FilesHoldOwn ==
  \A s \in OnDisk : s.name \notin FatDirs =>
    LET chain == ChainOf(fat[1], s.cluster) IN
    \A i \in 1 .. s.size : i <= Len(chain) /\ cells[chain[i]] = DataCell(s.name)

\* Between operations every file in the table is on the volume, where the
\* table says, and no longer than there.
TableIsOnDisk ==
  plan = <<>> => \A n \in FatNames : fatFiles[n].used =>
    \E s \in OnDisk : s.name = n /\ s.cluster = fatFiles[n].cluster /\ fatFiles[n].size <= s.size

\* Until the power goes, every allocated cluster belongs to some entry, and
\* the copies of the table agree.
NothingIsLost ==
  plan = <<>> /\ cuts = 0 =>
    /\ fat[1] = fat[2]
    /\ \A c \in Clusters : fat[1][c] # FreeFatEntry => \E h \in Heads : c \in OwnClusters(h)

\* The comment at fs.c:495 has the files of a directory found again after a
\* restart.
RemountFindsFiles == atop = "mounted" => \A s \in OnDisk : fatFiles[s.name].used

Fat32Safe == Fat32TypeOK /\ ChainsAreSound /\ FilesHoldOwn /\ TableIsOnDisk /\ NothingIsLost
=============================================================================
