-------------------------------- MODULE Ext2 --------------------------------
(***************************************************************************)
(* The ext2 volume (ext2.c) and the table of files over it (fs.c).  An     *)
(* operation is a plan of writes, one block of the volume at a time; the   *)
(* power may go between any two, and the volume is then mounted again.     *)
(***************************************************************************)
EXTENDS Integers, Sequences, FiniteSets

CONSTANTS
  ExtNames,       \* files and directories; a name stands for its whole path
  ExtDirs,        \* those that are directories, all of them in the root
  ExtParent,      \* the directory a name is in: a name, or "root"
  LastBlock,      \* blocks are 1 .. LastBlock; 1 is the root's
  LastInode,      \* inodes are 1 .. LastInode; 1 is the root's
  EntriesPerBlock,
  DirectBlocks,   \* EXT2_NDIR_BLOCKS
  IndirectBlocks, \* block numbers in an indirect block
  MaxPowerCuts,
  MaxLosses,      \* operations go on until so many have lost blocks or inodes
  CutsInTruncate, \* power may go while a file is truncated
  RemountsTrees,  \* power may go while there are directories
  SkipsBlocks     \* files are written beyond their ends

ASSUME Ext2Assumption ==
  /\ LastBlock \in Nat \ {0} /\ LastInode \in Nat \ {0}
  /\ EntriesPerBlock \in Nat /\ EntriesPerBlock >= 2
  /\ {DirectBlocks, IndirectBlocks} \subseteq Nat \ {0}
  /\ {MaxPowerCuts, MaxLosses} \subseteq Nat
  /\ {CutsInTruncate, RemountsTrees, SkipsBlocks} \subseteq BOOLEAN

Root == "root"
Blocks == 1 .. LastBlock
Inodes == 1 .. LastInode
FileBlocks == 1 .. DirectBlocks + IndirectBlocks

VARIABLES
  extDisk,      \* the volume: a function for each kind of thing on it
  writes,    \* writes still to be made by the operation
  whole,     \* the volume once they are made
  next,      \* the table of files once they are made
  extTable,     \* name -> inode and size: fs.files
  doing,     \* the operation the writes are of
  powerCuts, \* power cuts
  losses     \* operations that went a way on which blocks or inodes are lost

ext2Vars == <<extDisk, writes, whole, next, extTable, doing, powerCuts, losses>>

NoInode == [kind |-> "free", size |-> 0, direct |-> [k \in 1 .. DirectBlocks |-> 0], indirect |-> 0]
NewInode(kind) == [NoInode EXCEPT !.kind = kind]
NoEntry == [name |-> "", inode |-> 0]
Dot == [name |-> ".", inode |-> 1]
DirBlock(es) == [kind |-> "dir", entries |-> es]
EmptyDirBlock == [i \in 1 .. EntriesPerBlock |-> NoEntry]
DirStart == DirBlock([i \in 1 .. EntriesPerBlock |-> IF i <= 2 THEN Dot ELSE NoEntry])
Table(t) == [kind |-> "table", blocks |-> t]
DataBlock(n) == [kind |-> "data", of |-> n]
Unused == [inode |-> 0, size |-> 0]

\* A volume that is being changed: what it becomes, the writes that make it
\* so, whether something was lost, and what the last call returned.
Volume2 == [disk |-> extDisk, writes |-> <<>>, losses |-> losses, got |-> 0]
Put2(v, field, key, value) ==
  [v EXCEPT !.disk[field][key] = value, !.writes = Append(@, <<field, key, value>>)]
Got(v, x) == [v EXCEPT !.got = x]
Leaks(v) == [v EXCEPT !.losses = losses + 1]

(***************************************************************************)
(* Allocation: the bitmap, then the group's count, then the superblock's.  *)
(***************************************************************************)
Least(s) == CHOOSE x \in s : \A y \in s : x <= y
Counted(v, group, super, by) ==
  Put2(Put2(v, "counts", group, v.disk.counts[group] + by),
       "counts", super, v.disk.counts[super] + by)
Unset(used) == {x \in DOMAIN used : ~used[x]}

ext2_alloc_block(v) ==
  LET free == Unset(v.disk.blockUsed) IN
  IF free = {} \/ 0 \in {v.disk.counts[c] : c \in {"groupBlocks", "superBlocks"}} THEN Got(v, 0)
  ELSE Got(Counted(Put2(v, "blockUsed", Least(free), TRUE), "groupBlocks", "superBlocks", -1),
           Least(free))
ext2_free_block(v, b) ==
  Counted(Put2(v, "blockUsed", b, FALSE), "groupBlocks", "superBlocks", 1)
ext2_alloc_inode(v) ==
  LET free == Unset(v.disk.inodeUsed) IN
  IF free = {} \/ 0 \in {v.disk.counts[c] : c \in {"groupInodes", "superInodes"}} THEN Got(v, 0)
  ELSE Got(Counted(Put2(v, "inodeUsed", Least(free), TRUE), "groupInodes", "superInodes", -1),
           Least(free))
ext2_free_inode(v, i) ==
  Counted(Put2(v, "inodeUsed", i, FALSE), "groupInodes", "superInodes", 1)

(***************************************************************************)
(* Blocks of a file.                                                       *)
(***************************************************************************)
\* ext2_inode_block.  Without an indirect block it reads the boot block, which
\* is zero on a volume of 1 KiB blocks.
ext2_inode_block(v, inode, k) ==
  IF k <= DirectBlocks THEN inode.direct[k]
  ELSE IF inode.indirect = 0 \/ v.disk.block[inode.indirect].kind # "table" THEN 0
  ELSE v.disk.block[inode.indirect].blocks[k - DirectBlocks]

\* ext2_inode_set_block: its first use of the indirect block allocates it.
\* got is 0 if that fails.
ext2_inode_set_block(v, i, k, b) ==
  IF k <= DirectBlocks THEN Got(Put2(v, "inode", i, [v.disk.inode[i] EXCEPT !.direct[k] = b]), b)
  ELSE
    LET w == IF v.disk.inode[i].indirect # 0 THEN Got(v, v.disk.inode[i].indirect)
             ELSE LET a == ext2_alloc_block(v) IN
                  IF a.got = 0 THEN a
                  ELSE Got(Put2(Put2(a, "block", a.got, Table([j \in 1 .. IndirectBlocks |-> 0])),
                                "inode", i, [a.disk.inode[i] EXCEPT !.indirect = a.got]), a.got)
    IN IF w.got = 0 THEN w
       ELSE Got(Put2(w, "block", w.got,
                     Table([j \in 1 .. IndirectBlocks |->
                              IF j = k - DirectBlocks THEN b
                              ELSE w.disk.block[w.got].blocks[j]])), b)

\* A turn of ext2_write_file's loop; got is 0 if the file cannot grow.
StoreBlock(v, i, k, n) ==
  LET b == ext2_inode_block(v, v.disk.inode[i], k)
      a == IF b # 0 THEN Got(v, b) ELSE ext2_alloc_block(v)
      s == IF b # 0 \/ a.got = 0 THEN a ELSE ext2_inode_set_block(a, i, k, a.got)
  IN IF a.got = 0 THEN a
     ELSE IF s.got = 0 THEN Leaks(s)
     ELSE Put2(s, "block", s.got, DataBlock(n))

RECURSIVE StoreBlocks(_, _, _, _, _)
StoreBlocks(v, i, k, upTo, n) ==
  IF k > upTo THEN Got(v, upTo)
  ELSE LET w == StoreBlock(v, i, k, n) IN
       IF w.got = 0 THEN Got(w, k - 1) ELSE StoreBlocks(w, i, k + 1, upTo, n)

Sized(w, i, from) ==
  LET size == IF w.got >= from /\ w.got > w.disk.inode[i].size THEN w.got ELSE w.disk.inode[i].size
  IN Got(Put2(w, "inode", i, [w.disk.inode[i] EXCEPT !.size = size]), size)
ext2_write_file(v, i, from, upTo, n) == Sized(StoreBlocks(v, i, from, upTo, n), i, from)

RECURSIVE FreeDirect(_, _, _)
FreeDirect(v, direct, k) ==
  IF k > DirectBlocks THEN v
  ELSE FreeDirect(IF direct[k] = 0 THEN v ELSE ext2_free_block(v, direct[k]), direct, k + 1)

\* ext2_truncate and ext2_unlink give back the direct blocks only.
LosesIndirect(v, inode) == IF inode.indirect # 0 THEN Leaks(v) ELSE v
ext2_truncate(v, i) ==
  LET inode == v.disk.inode[i]
      w == FreeDirect(v, inode.direct, 1)
  IN Put2(LosesIndirect(w, inode), "inode", i,
          [inode EXCEPT !.direct = NoInode.direct, !.size = 0])

(***************************************************************************)
(* Directories.                                                            *)
(***************************************************************************)
DirBlocks(v, i) ==
  LET inode == v.disk.inode[i] IN
  [k \in 1 .. inode.size |-> ext2_inode_block(v, inode, k)]
ExtEntry(v, p) == v.disk.block[p[1]].entries[p[2]]
\* The places of a directory's entries in order; a block that is none of a
\* directory's has none.
Places2(v, i) ==
  LET bs == DirBlocks(v, i)
      all == [k \in 1 .. Len(bs) * EntriesPerBlock |->
                <<bs[((k - 1) \div EntriesPerBlock) + 1], ((k - 1) % EntriesPerBlock) + 1>>]
  IN SelectSeq(all, LAMBDA p : p[1] # 0 /\ v.disk.block[p[1]].kind = "dir")
Matching(v, i, P(_)) == SelectSeq(Places2(v, i), LAMBDA p : P(ExtEntry(v, p)))
SetEntry2(v, p, e) ==
  Put2(v, "block", p[1], DirBlock([v.disk.block[p[1]].entries EXCEPT ![p[2]] = e]))

\* ext2_lookup: the inode of a name, 0 if there is none.
ext2_lookup(v, i, n) ==
  LET named(e) == e.inode # 0 /\ e.name = n
      hits == Matching(v, i, named)
  IN IF hits = <<>> THEN 0 ELSE ExtEntry(v, Head(hits)).inode

\* ext2_resolve_parent.
ParentInode(v, n) == IF ExtParent[n] = Root THEN 1 ELSE ext2_lookup(v, 1, ExtParent[n])

KindOf(n) == IF n \in ExtDirs THEN "dir" ELSE "file"

\* ext2_create_file: an inode, then the entry, in a free place or a new block.
\* Nothing is given back when there is no block.
EntryMade(a, dir, n) ==
  LET i == a.got
      w == Put2(a, "inode", i, NewInode(KindOf(n)))
      e == [name |-> n, inode |-> i]
      free(x) == x.inode = 0
      room == Matching(w, dir, free)
      b == ext2_alloc_block(w)
      grown == ext2_inode_set_block(
                 Put2(b, "block", b.got, DirBlock([EmptyDirBlock EXCEPT ![1] = e])),
                 dir, b.disk.inode[dir].size + 1, b.got)
  IN IF i = 0 THEN a
     ELSE IF room # <<>> THEN Got(SetEntry2(w, Head(room), e), i)
     ELSE IF b.got = 0 THEN Got(Leaks(b), 0)
     ELSE Got(Put2(grown, "inode", dir, [grown.disk.inode[dir] EXCEPT !.size = @ + 1]), i)
ext2_create_file(v, dir, n) == EntryMade(ext2_alloc_inode(v), dir, n)

\* ext2_mkdir.  A failure of ext2_create_file passes for an inode number: a
\* block is allocated before the inode turns out not to exist.
DirMade(c) ==
  LET b == ext2_alloc_block(c) IN
     IF b.got = 0 THEN Got(IF c.got = 0 THEN b ELSE Leaks(b), 0)
     ELSE IF c.got = 0 THEN Got(Leaks(Put2(b, "block", b.got, DirStart)), 0)
     ELSE Got(Put2(Put2(b, "block", b.got, DirStart), "inode", c.got,
                   [NewInode("dir") EXCEPT !.direct[1] = b.got, !.size = 1]), c.got)
ext2_mkdir(v, dir, n) == DirMade(ext2_create_file(v, dir, n))

\* ext2_unlink: the entry, the blocks, the inode.  A directory goes as a file.
ext2_unlink(v, dir, n) ==
  LET named(e) == e.inode # 0 /\ e.name = n
      hits == Matching(v, dir, named)
      p == Head(hits)
      i == ExtEntry(v, p).inode
      inode == v.disk.inode[i]
      w == FreeDirect(SetEntry2(v, p, NoEntry), inode.direct, 1)
  IN IF hits = <<>> THEN Got(v, 0)
     ELSE Got(ext2_free_inode(Put2(LosesIndirect(w, inode), "inode", i,
                                   [inode EXCEPT !.kind = "free"]), i), i)

(***************************************************************************)
(* The table of files.                                                     *)
(***************************************************************************)
Begins(what, v, t) ==
  /\ writes = <<>> /\ losses < MaxLosses
  /\ doing' = what
  /\ losses' = v.losses
  /\ IF v.writes = <<>> THEN extTable' = t /\ UNCHANGED <<writes, whole, next>>
     ELSE writes' = v.writes /\ whole' = v.disk /\ next' = t /\ UNCHANGED extTable
  /\ UNCHANGED <<extDisk, powerCuts>>

InTable(n) == extTable[n].inode # 0

ExtCreates(n) ==
  /\ ~InTable(n)
  /\ LET dir == ParentInode(Volume2, n)
         v == IF dir = 0 THEN Volume2
              ELSE IF n \in ExtDirs THEN ext2_mkdir(Volume2, dir, n)
              ELSE ext2_create_file(Volume2, dir, n)
     IN Begins("create", v, [extTable EXCEPT ![n] = [inode |-> v.got, size |-> 0]])

ext2_vfs_write(n, from, upTo) ==
  /\ InTable(n) /\ n \notin ExtDirs
  /\ SkipsBlocks \/ from <= extTable[n].size + 1
  /\ LET v == ext2_write_file(Volume2, extTable[n].inode, from, upTo, n)
     IN Begins("write", v, [extTable EXCEPT ![n].size = v.got])

ext2_vfs_truncate(n) ==
  /\ InTable(n) /\ n \notin ExtDirs
  /\ Begins("truncate", ext2_truncate(Volume2, extTable[n].inode), [extTable EXCEPT ![n].size = 0])

\* ext2_vfs_unlink; and fs_rmdir, which looks for what is in a directory in
\* the table of files only.
ExtRemoves(n) ==
  /\ InTable(n)
  /\ \A m \in ExtNames : InTable(m) => ExtParent[m] # n
  /\ LET dir == ParentInode(Volume2, n)
         v == IF dir = 0 THEN Volume2 ELSE ext2_unlink(Volume2, dir, n)
     IN Begins("remove", v, IF v.got = 0 THEN extTable ELSE [extTable EXCEPT ![n] = Unused])

\* ext2_write_block.
WriteBlock ==
  /\ writes # <<>>
  /\ LET w == Head(writes) IN extDisk' = [extDisk EXCEPT ![w[1]][w[2]] = w[3]]
  /\ writes' = Tail(writes)
  /\ extTable' = IF Tail(writes) = <<>> THEN next ELSE extTable
  /\ UNCHANGED <<whole, next, doing, powerCuts, losses>>

\* ext2_rebuild_files: what is in the root.
ext2_rebuild_files ==
  [n \in ExtNames |->
     LET i == IF ExtParent[n] = Root THEN ext2_lookup(Volume2, 1, n) ELSE 0
     IN IF i = 0 THEN Unused
        ELSE [inode |-> i, size |-> IF n \in ExtDirs THEN 0 ELSE extDisk.inode[i].size]]

CutExt2 ==
  /\ powerCuts < MaxPowerCuts
  /\ CutsInTruncate \/ doing # "truncate" \/ writes = <<>>
  /\ RemountsTrees \/ \A n \in ExtDirs : ~InTable(n) /\ next[n].inode = 0
  /\ powerCuts' = powerCuts + 1
  /\ writes' = <<>> /\ whole' = extDisk
  /\ extTable' = ext2_rebuild_files /\ next' = extTable'
  /\ doing' = "mount"
  /\ UNCHANGED <<extDisk, losses>>

Ext2Init ==
  /\ extDisk = [blockUsed |-> [b \in Blocks |-> b = 1],
             inodeUsed |-> [i \in Inodes |-> i = 1],
             counts |-> [c \in {"groupBlocks", "superBlocks", "groupInodes", "superInodes"} |->
                           IF c \in {"groupBlocks", "superBlocks"} THEN LastBlock - 1
                           ELSE LastInode - 1],
             inode |-> [i \in Inodes |->
                          IF i = 1 THEN [NewInode("dir") EXCEPT !.direct[1] = 1, !.size = 1]
                          ELSE NoInode],
             block |-> [b \in Blocks |-> IF b = 1 THEN DirStart ELSE DataBlock("nothing")]]
  /\ writes = <<>> /\ whole = extDisk
  /\ extTable = [n \in ExtNames |-> Unused] /\ next = extTable
  /\ doing = "mount" /\ powerCuts = 0 /\ losses = 0

Ext2Next ==
  \/ \E n \in ExtNames :
       \/ ExtCreates(n) \/ ExtRemoves(n) \/ ext2_vfs_truncate(n)
       \/ \E from, upTo \in FileBlocks : from <= upTo /\ ext2_vfs_write(n, from, upTo)
  \/ WriteBlock \/ CutExt2

Ext2Spec == Ext2Init /\ [][Ext2Next]_ext2Vars

(***************************************************************************)
(* Properties.                                                             *)
(***************************************************************************)
Ext2TypeOK ==
  /\ extDisk.blockUsed \in [Blocks -> BOOLEAN] /\ extDisk.inodeUsed \in [Inodes -> BOOLEAN]
  /\ \A n \in ExtNames : /\ extTable[n].inode \in 0 .. LastInode
                         /\ extTable[n].size \in 0 .. Cardinality(FileBlocks)
  /\ \A c \in DOMAIN extDisk.counts : extDisk.counts[c] \in Nat
  /\ losses \in 0 .. MaxLosses /\ powerCuts \in 0 .. MaxPowerCuts

\* What can be reached from the root, on the volume as it is.
ExtEntriesIn(i) ==
  LET ps == Places2(Volume2, i) IN {ExtEntry(Volume2, ps[k]) : k \in DOMAIN ps} \ {NoEntry, Dot}
RootEntries == ExtEntriesIn(1)
OnVolume ==
  LET dirs == {e \in RootEntries : extDisk.inode[e.inode].kind = "dir"}
  IN RootEntries \cup UNION {ExtEntriesIn(e.inode) : e \in dirs}
LiveInodes == {1} \cup {e.inode : e \in OnVolume}
BlocksOf(i) ==
  LET inode == extDisk.inode[i] IN
  ({ext2_inode_block(Volume2, inode, k) : k \in FileBlocks} \cup {inode.indirect}) \ {0}
References(i) ==
  LET inode == extDisk.inode[i] IN
  Cardinality({k \in FileBlocks : ext2_inode_block(Volume2, inode, k) # 0})
  + (IF inode.indirect = 0 THEN 0 ELSE 1)

\* Whatever write the power stops at, but within a truncation: an entry's
\* inode is allocated and no other's, and a block belongs to one file or
\* directory, once, and is allocated too.
BlocksHaveOneOwner ==
  (doing = "truncate" => writes = <<>>) =>
  LET live == LiveInodes
      of == [i \in live |-> BlocksOf(i)]
  IN /\ Cardinality(live) = Cardinality(OnVolume) + 1
     /\ \A i \in live :
          /\ extDisk.inodeUsed[i]
          /\ Cardinality(of[i]) = References(i)
          /\ \A b \in of[i] : extDisk.blockUsed[b]
          /\ \A j \in live \ {i} : of[i] \cap of[j] = {}

\* What a file's size covers is what was written to it, also after a restart.
SizesCoverOwn ==
  \A e \in OnVolume : extDisk.inode[e.inode].kind = "file" =>
    \A k \in 1 .. extDisk.inode[e.inode].size :
      LET b == ext2_inode_block(Volume2, extDisk.inode[e.inode], k)
      IN b # 0 => extDisk.block[b] = DataBlock(e.name)

\* Between operations a name is on the volume once; the table of files says of
\* every file in it what the volume says; and a directory that looks empty in
\* the table, so that fs_rmdir removes it, is empty on the volume.
TableMatchesVolume ==
  writes = <<>> => LET entries == OnVolume IN \A n \in ExtNames : InTable(n) =>
    /\ [name |-> n, inode |-> extTable[n].inode] \in entries
    /\ extDisk.inode[extTable[n].inode].kind = KindOf(n)
    /\ n \notin ExtDirs => extTable[n].size = extDisk.inode[extTable[n].inode].size
    /\ \A e \in entries : e.name = n => e.inode = extTable[n].inode
    /\ n \in ExtDirs /\ ExtEntriesIn(extTable[n].inode) # {} =>
         \E m \in ExtNames : InTable(m) /\ ExtParent[m] = n

\* Until the power goes or an operation takes a way known to lose some, the
\* free counts are those of the bitmaps, and what is allocated is reachable.
NothingLeaks2 ==
  writes = <<>> /\ powerCuts = 0 /\ losses = 0 =>
    /\ extDisk.counts["superBlocks"] = Cardinality(Unset(extDisk.blockUsed))
    /\ extDisk.counts["groupBlocks"] = extDisk.counts["superBlocks"]
    /\ extDisk.counts["superInodes"] = Cardinality(Unset(extDisk.inodeUsed))
    /\ extDisk.counts["groupInodes"] = extDisk.counts["superInodes"]
    /\ LET live == LiveInodes IN
         /\ {b \in Blocks : extDisk.blockUsed[b]} \subseteq UNION {BlocksOf(i) : i \in live}
         /\ {i \in Inodes : extDisk.inodeUsed[i]} \subseteq live

Ext2Safe ==
  Ext2TypeOK /\ BlocksHaveOneOwner /\ SizesCoverOwn /\ TableMatchesVolume /\ NothingLeaks2
=============================================================================
