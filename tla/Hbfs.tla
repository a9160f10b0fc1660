-------------------------------- MODULE Hbfs --------------------------------
(***************************************************************************)
(* The flat file table of fs.c with its RAM and HBFS back ends, and the    *)
(* calls of vfs.c and posix.c that change it.  HBFS keeps the table in     *)
(* memory (hbfs_table), beside the files, and writes it whole after every  *)
(* change, sector after sector; file data goes to a fixed range per slot.  *)
(* A sector write may fail (WritesFail) and the power may go (PowerCuts)   *)
(* after any sector; the next boot mounts what the disk then holds.        *)
(*                                                                         *)
(* A path is a sequence of names, a size counts sectors, and a tag (ghost) *)
(* tells two files that use a slot one after the other apart.  The disk's  *)
(* driver polls (AHCI, ATA): a call is one step for the other tasks.       *)
(***************************************************************************)
EXTENDS Naturals, Sequences, SequencesExt, FiniteSets

CONSTANTS
  FileSlots,      \* indices of fs.files, of table and of the data area
  SlotsPerSector, \* table entries in one sector
  Paths,          \* the paths programs use
  MaxBlocks,      \* RAMFS_MAX_FILE_SIZE, in sectors
  MaxBirths,      \* bound: files created
  Openers,        \* processes with a descriptor table of their own
  WritesFail,     \* BOOLEAN: a sector write may report an error (once)
  PowerCuts,      \* the kinds of call a power cut may hit
  ForeignUnlinks, \* BOOLEAN: a process may unlink a file another has open
  MovesUp,        \* BOOLEAN: a directory that is not empty may be moved to the
                  \* path of a parent that is not there
  BlankDisk       \* BOOLEAN: was the disk never used before it is formatted?

ASSUME HbfsAssumption ==
  /\ IsFiniteSet(FileSlots) /\ FileSlots = 1 .. Cardinality(FileSlots)
  /\ {SlotsPerSector, MaxBlocks} \subseteq Nat \ {0} /\ MaxBirths \in Nat
  /\ \A path \in Paths : path \in Seq(STRING)
  /\ {WritesFail, ForeignUnlinks, MovesUp, BlankDisk} \subseteq BOOLEAN

VARIABLES
  backend,   \* fs_backend: "ram" or "hbfs"
  files,     \* fs.files
  hbfs_table, \* hbfs_table, the table in memory
  disk,      \* the table on the disk
  blocks,    \* per slot and sector of its data range: the tag last written
  formatted, \* does the disk hold a valid superblock?
  opened,    \* per process: the file its descriptor names, or NoHandle
  births,    \* files created
  due,       \* ghost: tags of the files reported as created, whose end nobody asked for
  failed     \* ghost: has a write failed?

hbfsVars == <<backend, files, hbfs_table, disk, blocks, formatted, opened, births,
              due, failed>>

Free == [used |-> FALSE, type |-> 0, size |-> 0, name |-> <<>>, tag |-> 0]
NoHandle == [slot |-> 0, tag |-> 0]
Sectors == 1 .. ((Cardinality(FileSlots) + SlotsPerSector - 1) \div SlotsPerSector)
SectorOf(slot) == (slot - 1) \div SlotsPerSector + 1

\* What an unformatted disk holds where the table will be: nothing on a new
\* disk, anything on one that had another use.
Former == IF BlankDisk THEN Free ELSE [Free EXCEPT !.used = TRUE, !.size = MaxBlocks]

HbfsInit ==
  /\ backend = "ram"
  /\ files = [s \in FileSlots |-> Free]
  /\ hbfs_table = [s \in FileSlots |-> Free]
  /\ disk = [s \in FileSlots |-> Former]
  /\ blocks = [s \in FileSlots |-> [b \in 1 .. MaxBlocks |-> 0]]
  /\ formatted = FALSE
  /\ opened = [p \in Openers |-> NoHandle]
  /\ births = 0
  /\ due = {}
  /\ failed = FALSE
-----------------------------------------------------------------------------
(* Lookup *)

Used(name) == {s \in FileSlots : files[s].used /\ files[s].name = name}
fs_find_file(name) == CHOOSE s \in Used(name) : \A r \in Used(name) : s <= r
Exists(name) == Used(name) # {}
FreeSlots == {s \in FileSlots : ~files[s].used}
FirstFreeSlot == CHOOSE s \in FreeSlots : \A r \in FreeSlots : s <= r
InTree(path, root) == IsPrefix(root, path)
Children(s) == {r \in FileSlots \ {s} : files[r].used /\ InTree(files[r].name, files[s].name)}
IsDir(path) == Exists(path) /\ files[fs_find_file(path)].type = 1
RootOrDir(path) == path = <<>> \/ IsDir(path)
\* Mutant: descriptors of other processes are not looked for.
IsOpenNever(s) == s \notin FileSlots
IsOpen(s) == \E p \in Openers : opened[p].slot = s
-----------------------------------------------------------------------------
(* Writing the table.  A call hands over the versions of the table it      *)
(* syncs, one after the other; a sync that stops early has written a       *)
(* prefix of the sectors of its version over the version before.           *)

Written(versions, i, k) ==
  LET before == IF i = 1 THEN disk ELSE versions[i - 1]
  IN  [s \in FileSlots |-> IF SectorOf(s) <= k THEN versions[i][s] ELSE before[s]]

\* hbfs_sync_table: all the sectors of all the versions.
hbfs_sync_table(versions) == Written(versions, Len(versions), Cardinality(Sectors))

\* Memory is lost, and fs_init mounts the disk as it is now.
Mounts(held, data) ==
  /\ disk' = held
  /\ hbfs_table' = held
  /\ files' = held
  /\ blocks' = data
  /\ backend' = "hbfs"
  /\ opened' = [p \in Openers |-> NoHandle]

\* The power goes during a sync of one of the versions.
CutWhile(kind, versions) ==
  /\ kind \in PowerCuts
  /\ \E i \in DOMAIN versions, k \in {0} \cup Sectors :
       Mounts(Written(versions, i, k), blocks)
  /\ UNCHANGED <<formatted, failed>>

\* A sync reports an error; the files, the table
\* and the data are then errs[i]'s.
FailWhile(versions, errs) ==
  /\ WritesFail /\ ~failed
  /\ \E i \in DOMAIN errs, k \in {0} \cup Sectors :
       /\ k < Cardinality(Sectors)
       /\ files' = errs[i].files
       /\ hbfs_table' = errs[i].hbfs_table
       /\ blocks' = errs[i].data
       /\ \/ disk' = Written(versions, i, k)
          \/ /\ errs[i].again \* a second sync, whose result is not looked at
             /\ \E n \in Sectors :
                  disk' = [s \in FileSlots |-> IF SectorOf(s) <= n THEN errs[i].hbfs_table[s]
                                               ELSE Written(versions, i, k)[s]]
  /\ failed' = TRUE
  /\ UNCHANGED <<backend, formatted, opened>>

\* Every sync succeeds; the RAM back end does not sync.
Completes(after, versions) ==
  /\ files' = after
  /\ IF backend = "hbfs"
     THEN hbfs_table' = Last(versions) /\ disk' = hbfs_sync_table(versions)
     ELSE UNCHANGED <<hbfs_table, disk>>
  /\ UNCHANGED <<backend, blocks, formatted, failed>>

\* hbfs_update_entry: the table with slot s's entry made from the file.
Updated(tab, after, s) == [tab EXCEPT ![s] = after[s]]
-----------------------------------------------------------------------------
(* fs_create_file, fs_mkdir and fs_create_symlink *)

NewFile(name, type) ==
  [used |-> TRUE, type |-> type, size |-> 0, name |-> name, tag |-> births + 1]

\* The error path of a creation frees the file but not its table entry.
Create(name, type) ==
  LET s == FirstFreeSlot
      after == [files EXCEPT ![s] = NewFile(name, type)]
      versions == <<Updated(hbfs_table, after, s)>>
  IN  /\ ~Exists(name) /\ FreeSlots # {}
      /\ births < MaxBirths
      /\ births' = births + 1
      /\ \/ Completes(after, versions) /\ due' = due \cup {births + 1} /\ UNCHANGED opened
         \/ backend = "hbfs" /\ CutWhile("create", versions) /\ UNCHANGED due
         \/ /\ backend = "hbfs" /\ UNCHANGED due
            /\ FailWhile(versions, <<[files |-> files, hbfs_table |-> versions[1],
                                      again |-> FALSE, data |-> blocks]>>)

\* The entry is created as a file, then the target is written to its data,
\* its size synced, and only then its type: four writes, three of the table.
fs_create_symlink(name) ==
  LET s == FirstFreeSlot
      empty == [files EXCEPT ![s] = NewFile(name, 0)]
      sized == [empty EXCEPT ![s].size = 1]
      after == [sized EXCEPT ![s].type = 2]
      stages == <<empty, sized, after>>
      versions == [i \in 1 .. 3 |-> Updated(hbfs_table, stages[i], s)]
      data == [blocks EXCEPT ![s][1] = births + 1]
      gone == [files |-> files, hbfs_table |-> hbfs_table, again |-> TRUE, data |-> data]
  IN  /\ ~Exists(name) /\ FreeSlots # {}
      /\ births < MaxBirths
      /\ births' = births + 1
      /\ \/ /\ files' = after
            /\ IF backend = "hbfs"
               THEN /\ hbfs_table' = Last(versions) /\ disk' = hbfs_sync_table(versions)
                    /\ blocks' = data
               ELSE UNCHANGED <<hbfs_table, disk, blocks>>
            /\ due' = due \cup {births + 1}
            /\ UNCHANGED <<backend, formatted, opened, failed>>
         \/ /\ backend = "hbfs" /\ "symlink" \in PowerCuts
            /\ \E i \in DOMAIN versions, k \in {0} \cup Sectors :
                 Mounts(Written(versions, i, k), IF i = 1 THEN blocks ELSE data)
            /\ UNCHANGED <<formatted, due, failed>>
         \/ /\ backend = "hbfs" /\ UNCHANGED due
            /\ FailWhile(versions, <<[files |-> files, hbfs_table |-> versions[1],
                                      again |-> FALSE, data |-> blocks],
                                     gone, gone>>)
-----------------------------------------------------------------------------
(* fs_write_file_data and fs_truncate_file, through a descriptor *)

\* The sectors of the data first, then, if the file grows, its entry.
hbfs_write_data(s, offset, count) ==
  LET tag == files[s].tag
      end == offset + count
      grown == [files EXCEPT ![s].size = end]
      versions == <<Updated(hbfs_table, grown, s)>>
      Holding(n) == [blocks EXCEPT ![s] = [b \in 1 .. MaxBlocks |->
                                          IF b \in offset + 1 .. offset + n THEN tag ELSE @[b]]]
      grows == end > files[s].size
  IN  \/ /\ blocks' = Holding(count)
         /\ IF grows THEN /\ files' = grown /\ hbfs_table' = versions[1]
                          /\ disk' = hbfs_sync_table(versions)
                     ELSE UNCHANGED <<files, hbfs_table, disk>>
         /\ UNCHANGED <<backend, formatted, opened, failed>>
      \/ /\ "write" \in PowerCuts
         /\ UNCHANGED <<formatted, failed>>
         /\ \/ \E n \in 0 .. count : Mounts(disk, Holding(n))
            \/ grows /\ \E k \in Sectors : Mounts(Written(versions, 1, k), Holding(count))
      \/ /\ WritesFail /\ ~failed
         /\ failed' = TRUE
         /\ UNCHANGED <<backend, formatted, opened>>
         /\ \/ /\ \E n \in 0 .. count - 1 : blocks' = Holding(n)
               /\ UNCHANGED <<files, hbfs_table, disk>>
            \/ /\ grows
               /\ blocks' = Holding(count)
               /\ files' = grown /\ hbfs_table' = versions[1]
               /\ \E k \in {0} \cup Sectors :
                    k < Cardinality(Sectors) /\ disk' = Written(versions, 1, k)

\* A program writes at an offset up to its end of file: a hole keeps what the
\* slot's former file left there.
Write(p, offset, count) ==
  LET s == opened[p].slot
  IN  /\ opened[p] # NoHandle
      /\ offset <= files[s].size
      /\ files[s].type = 0 /\ files[s].used /\ offset + count <= MaxBlocks
      /\ UNCHANGED <<births, due>>
      /\ IF backend = "hbfs" THEN hbfs_write_data(s, offset, count)
         ELSE /\ files' = [files EXCEPT ![s].size =
                             IF @ < offset + count THEN offset + count ELSE @]
              /\ UNCHANGED <<backend, hbfs_table, disk, blocks, formatted, opened, failed>>

fs_truncate_file(p) ==
  LET s == opened[p].slot
      after == [files EXCEPT ![s].size = 0]
      versions == <<Updated(hbfs_table, after, s)>>
  IN  /\ opened[p] # NoHandle /\ files[s].used /\ files[s].type = 0
      /\ UNCHANGED <<births, due>>
      /\ \/ Completes(after, versions) /\ UNCHANGED opened
         \/ backend = "hbfs" /\ CutWhile("write", versions)
         \/ backend = "hbfs" /\ FailWhile(versions, <<[files |-> after, hbfs_table |-> versions[1],
                                                      again |-> FALSE, data |-> blocks]>>)
-----------------------------------------------------------------------------
(* fs_delete_file, unlink and rmdir *)

\* The file is freed in memory before the sync, and stays freed if it fails.
fs_delete_file(s) ==
  LET after == [files EXCEPT ![s] = Free]
      versions == <<Updated(hbfs_table, after, s)>>
  IN  /\ due' = due \ {files[s].tag}
      /\ UNCHANGED births
      /\ \/ Completes(after, versions) /\ UNCHANGED opened
         \/ backend = "hbfs" /\ CutWhile("delete", versions)
         \/ backend = "hbfs" /\ FailWhile(versions, <<[files |-> after, hbfs_table |-> versions[1],
                                                      again |-> FALSE, data |-> blocks]>>)

\* posix.c: EBUSY if a descriptor of the calling process names the file.
unlink(p, name) ==
  /\ Exists(name) /\ ~IsDir(name)
  /\ opened[p].slot # fs_find_file(name)
  /\ ForeignUnlinks \/ ~IsOpen(fs_find_file(name))
  /\ fs_delete_file(fs_find_file(name))

rmdir(name) ==
  /\ IsDir(name)
  /\ Children(fs_find_file(name)) = {}
  /\ fs_delete_file(fs_find_file(name))
-----------------------------------------------------------------------------
(* posix_rename, vfs_rename and fs_rename_file *)

Renamed(list, old, new) ==
  [s \in FileSlots |->
     IF list[s].used /\ InTree(list[s].name, old)
     THEN [list[s] EXCEPT !.name = new \o SubSeq(@, Len(old) + 1, Len(@))]
     ELSE list[s]]

\* A name of the moved tree may be taken by a file outside of it.
Conflict(list, old, new) ==
  \E s, r \in FileSlots :
    /\ list[s].used /\ InTree(list[s].name, old)
    /\ list[r].used /\ ~InTree(list[r].name, old)
    /\ list[r].name = Renamed(list, old, new)[s].name

\* A target is removed first (and synced).  A directory's tree is renamed in
\* the table in place; an error undoes that, and syncs again.  A file's entry
\* is synced twice; an error keeps the new name.  Creation does not ask for a
\* parent, so that a directory may move to the path of one that is not there.
posix_rename(old, new) ==
  LET s == fs_find_file(old)
      isDir == files[s].type = 1
      target == IF Exists(new) THEN fs_find_file(new) ELSE s
      base == IF target = s THEN files ELSE [files EXCEPT ![target] = Free]
      without == IF target = s THEN hbfs_table ELSE [hbfs_table EXCEPT ![target] = Free]
      after == IF isDir THEN Renamed(base, old, new) ELSE [base EXCEPT ![s].name = new]
      tab == IF isDir THEN [r \in FileSlots |-> IF after[r].name = base[r].name THEN without[r]
                                            ELSE [without[r] EXCEPT !.name = after[r].name]]
             ELSE Updated(without, after, s)
      head == IF target = s THEN <<>> ELSE <<without>>
      versions == head \o (IF isDir THEN <<tab>> ELSE <<tab, tab>>)
      err == IF isDir THEN [files |-> base, hbfs_table |-> without, again |-> TRUE, data |-> blocks]
                      ELSE [files |-> after, hbfs_table |-> tab, again |-> FALSE, data |-> blocks]
      removed == [files |-> base, hbfs_table |-> without, again |-> FALSE, data |-> blocks]
  IN  /\ Exists(old) /\ old # new
      /\ \A r \in FileSlots : base[r].used => base[r].name # new
      /\ isDir => ~Conflict(base, old, new)
      /\ MovesUp \/ Children(s) = {} \/ ~InTree(old, new)
      /\ RootOrDir(Front(new))
      /\ isDir => ~InTree(new, old)
      /\ target # s => /\ (files[target].type = 1) = isDir
                       /\ ~IsOpen(target)
                       /\ Children(target) = {}
      /\ UNCHANGED births
      /\ due' = IF target = s THEN due ELSE due \ {files[target].tag}
      /\ \/ Completes(after, versions) /\ UNCHANGED opened
         \/ backend = "hbfs" /\ CutWhile("rename", versions)
         \/ /\ backend = "hbfs"
            /\ FailWhile(versions, IF target = s THEN <<err>> ELSE <<removed, err>>)
-----------------------------------------------------------------------------
(* Formatting, opening, closing *)

\* hbfs_format_range on a disk that is not mounted: the superblock, then an
\* empty table, then the mount, which replaces the files of the RAM back end.
hbfs_format_range ==
  LET versions == <<[s \in FileSlots |-> Free]>>
  IN  /\ backend = "ram"
      /\ \A p \in Openers : opened[p] = NoHandle
      /\ formatted' = TRUE
      /\ due' = {}
      /\ UNCHANGED <<births, failed>>
      /\ \/ Mounts(versions[1], blocks)
         \/ /\ "format" \in PowerCuts
            /\ \E k \in {0} \cup Sectors : Mounts(Written(versions, 1, k), blocks)

\* A plain open of a file; openers keep one descriptor each.
open(p, name) ==
  /\ opened[p] = NoHandle
  /\ Exists(name) /\ files[fs_find_file(name)].type = 0
  /\ opened' = [opened EXCEPT ![p] = [slot |-> fs_find_file(name),
                                      tag |-> files[fs_find_file(name)].tag]]
  /\ UNCHANGED <<backend, files, hbfs_table, disk, blocks, formatted, births, due, failed>>

hbfs_close(p) ==
  /\ opened[p] # NoHandle
  /\ opened' = [opened EXCEPT ![p] = NoHandle]
  /\ UNCHANGED <<backend, files, hbfs_table, disk, blocks, formatted, births, due, failed>>

HbfsNext ==
  \/ \E name \in Paths, type \in {0, 1} : Create(name, type)
  \/ \E name \in Paths : fs_create_symlink(name)
  \/ \E p \in Openers, offset \in 0 .. MaxBlocks - 1, count \in 1 .. MaxBlocks :
       Write(p, offset, count)
  \/ \E p \in Openers : fs_truncate_file(p)
  \/ \E p \in Openers, name \in Paths : unlink(p, name)
  \/ \E name \in Paths : rmdir(name)
  \/ \E old, new \in Paths : posix_rename(old, new)
  \/ hbfs_format_range
  \/ \E p \in Openers, name \in Paths : open(p, name)
  \/ \E p \in Openers : hbfs_close(p)

HbfsSpec == HbfsInit /\ [][HbfsNext]_hbfsVars
-----------------------------------------------------------------------------
(* Properties *)

EntryType == [used : BOOLEAN, type : 0 .. 2, size : 0 .. MaxBlocks,
              name : Seq(UNION {ToSet(path) : path \in Paths}),
              tag : 0 .. MaxBirths]

HbfsTypeOK ==
  /\ files \in [FileSlots -> EntryType] /\ hbfs_table \in [FileSlots -> EntryType]
  /\ disk \in [FileSlots -> EntryType]
  /\ opened \in [Openers -> [slot : FileSlots \cup {0}, tag : 0 .. MaxBirths]]
  /\ births \in 0 .. MaxBirths /\ backend \in {"ram", "hbfs"}

\* fs_check's "duplicate file name" never shows, in memory or on the disk,
\* wherever the power went: the pre-checks of a tree's rename hold to the end,
\* unless the tree moves up (MovesUp).
NamesUnique ==
  ~failed => \A s, r \in FileSlots : s # r =>
    /\ files[s].used /\ files[r].used => files[s].name # files[r].name
    /\ formatted /\ disk[s].used /\ disk[r].used => disk[s].name # disk[r].name

\* fs_check's "hbfs table mismatch": unless a write was refused, the files, the
\* table in memory and the table on the disk say the same.
TableFollowsFiles ==
  ~failed /\ backend = "hbfs" => hbfs_table = files /\ disk = files

\* A file whose creation was reported stays on the disk, under some name, until
\* somebody asks for its end, across failed writes, rollbacks and power cuts.
NoFileLost ==
  backend = "hbfs" =>
    \A t \in due : \E s \in FileSlots : disk[s].used /\ disk[s].tag = t

\* The size on the disk never covers a sector the file did not write: data
\* reaches the disk before the entry that makes it visible.
BytesAreOwn ==
  backend = "hbfs" =>
    \A s \in FileSlots : disk[s].used /\ disk[s].type # 1 /\ disk[s].tag # 0 =>
      \A b \in 1 .. disk[s].size : blocks[s][b] = disk[s].tag

\* A descriptor keeps naming the file it opened, never another one that got its
\* slot: unlink and a replacing rename look for open descriptors first.
HandlesKeepFile ==
  \A p \in Openers : opened[p] # NoHandle =>
    files[opened[p].slot].used /\ files[opened[p].slot].tag = opened[p].tag

HbfsSafe == HbfsTypeOK /\ NamesUnique /\ TableFollowsFiles /\ NoFileLost /\ BytesAreOwn
            /\ HandlesKeepFile
=============================================================================
