----------------------------- MODULE HbfsProofs -----------------------------
(***************************************************************************)
(* The native file system across failed writes and power cuts, for tables  *)
(* of any size, any paths and any number of processes.                     *)
(***************************************************************************)
EXTENDS Hbfs, Integers, FiniteSetTheorems, SequenceTheorems, NaturalsInduction,
        WellFoundedInduction, TLAPS

Word == UNION {ToSet(path) : path \in Paths}
Tables == [FileSlots -> EntryType]
Rows == [FileSlots -> [1 .. MaxBlocks -> 0 .. MaxBirths]]

\* A row of data sectors holds what an entry says is there.
Owned(e, row) == e.used /\ e.type # 1 /\ e.tag # 0 => \A b \in 1 .. e.size : row[b] = e.tag
AllOwned(list, data) == \A s \in FileSlots : Owned(list[s], data[s])

\* Where both have an entry, it is the entry of one file.
Alike(list, other) ==
  \A s \in FileSlots : list[s].used /\ other[s].used => list[s].tag = other[s].tag

Holds(list, t, s) == list[s].used /\ list[s].tag = t

HandlesTold(list) ==
  \A p \in Openers : opened[p] # NoHandle =>
    /\ opened[p].slot \in FileSlots /\ list[opened[p].slot].used
    /\ list[opened[p].slot].tag = opened[p].tag /\ list[opened[p].slot].type = 0

HbfsTypes ==
  /\ files \in Tables /\ hbfs_table \in Tables /\ disk \in Tables /\ blocks \in Rows
  /\ opened \in [Openers -> [slot : FileSlots \cup {0}, tag : 0 .. MaxBirths]]
  /\ births \in 0 .. MaxBirths /\ backend \in {"ram", "hbfs"}
  /\ formatted \in BOOLEAN /\ failed \in BOOLEAN

DueTold ==
  \A t \in due : \E s \in FileSlots :
    /\ Holds(files, t, s)
    /\ backend = "hbfs" => Holds(hbfs_table, t, s) /\ Holds(disk, t, s)

\* The files, the table in memory and the table on the disk may each be a
\* different past of the same files.
DiskTold ==
  /\ backend = "hbfs" =>
       /\ AllOwned(files, blocks) /\ AllOwned(hbfs_table, blocks) /\ AllOwned(disk, blocks)
       /\ Alike(hbfs_table, files) /\ Alike(disk, files)
       /\ ~failed => hbfs_table = files /\ disk = files
  /\ backend # "hbfs" => disk = [s \in FileSlots |-> Former]

HbfsInv ==
  HbfsTypes /\ HandlesTold(files) /\ DueTold /\ DiskTold /\ (formatted <=> backend = "hbfs")

Unique(list) ==
  \A s, r \in FileSlots : s # r /\ list[s].used /\ list[r].used => list[s].name # list[r].name

NamesInv == ~failed => Unique(files)

-----------------------------------------------------------------------------
(* Slots, entries, sectors                                                 *)

LEMMA SlotsAre ==
  /\ FileSlots \subseteq Nat \ {0} /\ IsFiniteSet(FileSlots) /\ 0 \notin FileSlots
  /\ Cardinality(FileSlots) \in Nat
  /\ MaxBlocks \in Nat \ {0} /\ MaxBirths \in Nat /\ SlotsPerSector \in Nat \ {0}
<1>1. FileSlots = 1 .. Cardinality(FileSlots) /\ IsFiniteSet(FileSlots)
  BY HbfsAssumption
<1>2. Cardinality(FileSlots) \in Nat
  BY <1>1, FS_CardinalityType
<1> QED BY <1>1, <1>2, HbfsAssumption

LEMMA PathsAreWords == ASSUME NEW path \in Paths PROVE path \in Seq(Word)
<1>1. path \in Seq(STRING)
  BY HbfsAssumption
<1>2. \A i \in 1 .. Len(path) : path[i] \in Word
  BY <1>1 DEF Word, ToSet
<1>3. Len(path) \in Nat /\ path = [i \in 1 .. Len(path) |-> path[i]]
  BY <1>1
<1> QED BY <1>2, <1>3

LEMMA FreeIs == Free \in EntryType /\ Free.used = FALSE
  BY SlotsAre DEF Free, EntryType

LEMMA NewFileIs ==
  ASSUME NEW name \in Paths, NEW type \in 0 .. 2, births \in 0 .. MaxBirths, births < MaxBirths
  PROVE  /\ NewFile(name, type) \in EntryType
         /\ NewFile(name, type).type = type
         /\ NewFile(name, type).size = 0 /\ NewFile(name, type).name = name
         /\ NewFile(name, type).tag = births + 1 /\ NewFile(name, type).tag \in 1 .. MaxBirths
<1>1. name \in Seq(Word)
  BY PathsAreWords
<1>2. births + 1 \in 1 .. MaxBirths
  BY SlotsAre
<1> QED BY <1>1, <1>2, SlotsAre DEF NewFile, EntryType, Word

LEMMA SlotFound ==
  ASSUME NEW T, T \subseteq FileSlots, T # {}
  PROVE  (CHOOSE s \in T : \A r \in T : s <= r) \in T
<1>1. PICK s \in T : \A r \in T : ~ (<<r, s>> \in OpToRel(<, Nat))
  BY SlotsAre, NatLessThanWellFounded, WFMin
<1>2. \A r \in T : ~ r < s
  BY <1>1, SlotsAre DEF OpToRel
<1>3. \A r \in T : s <= r
  BY <1>2, SlotsAre
<1> QED BY <1>3

LEMMA Found ==
  ASSUME NEW name, Exists(name)
  PROVE  LET s == fs_find_file(name) IN
         s \in FileSlots /\ files[s].used /\ files[s].name = name
<1>1. Used(name) \subseteq FileSlots /\ Used(name) # {}
  BY DEF Used, Exists
<1>2. fs_find_file(name) \in Used(name)
  BY <1>1, SlotFound DEF fs_find_file
<1> QED BY <1>2 DEF Used

LEMMA FreeFound ==
  ASSUME FreeSlots # {}
  PROVE  FirstFreeSlot \in FileSlots /\ ~files[FirstFreeSlot].used
<1>1. FreeSlots \subseteq FileSlots
  BY DEF FreeSlots
<1>2. FirstFreeSlot \in FreeSlots
  BY <1>1, SlotFound DEF FirstFreeSlot
<1> QED BY <1>2 DEF FreeSlots

LEMMA DivisionIs ==
  ASSUME NEW a \in Nat, NEW k \in Nat \ {0}
  PROVE  /\ a \div k \in Nat /\ k * (a \div k) <= a /\ a < k * (a \div k) + k
  BY SMTT(30)

LEMMA SectorsCover ==
  /\ Cardinality(Sectors) \in Nat
  /\ \A s \in FileSlots : SectorOf(s) \in Nat /\ SectorOf(s) <= Cardinality(Sectors)
<1> DEFINE n == Cardinality(FileSlots)
           k == SlotsPerSector
           b == (n + k - 1) \div k
<1>1. n \in Nat /\ k \in Nat \ {0} /\ n + k - 1 \in Nat
  BY SlotsAre
<1>2. b \in Nat /\ n + k - 1 < k * b + k
  BY <1>1, DivisionIs
<1>3. Cardinality(Sectors) = b
  <2>1. Cardinality(1 .. b) = b
    BY <1>2, FS_Interval
  <2> QED BY <2>1 DEF Sectors
<1>4. ASSUME NEW s \in FileSlots
      PROVE  SectorOf(s) \in Nat /\ SectorOf(s) <= b
  <2> DEFINE a == (s - 1) \div k
  <2>1. s \in 1 .. n
    BY HbfsAssumption
  <2>2. s - 1 \in Nat /\ s - 1 < n
    BY <1>1, <2>1
  <2>3. a \in Nat /\ k * a <= s - 1
    BY <1>1, <2>2, DivisionIs
  <2> HIDE DEF a, b, k, n
  <2>4. k * a < k * b
    BY <1>1, <1>2, <2>2, <2>3
  <2>5. a < b
    BY <1>1, <1>2, <2>3, <2>4
  <2>6. a + 1 \in Nat /\ a + 1 <= b
    BY <1>2, <2>3, <2>5
  <2> QED BY <2>6 DEF SectorOf, a, k
<1> HIDE DEF b
<1> QED BY <1>2, <1>3, <1>4

\* What a sync that stopped has left: each slot is as it was, or as the version
\* before has it, or as this one.
Before(versions, i) == IF i = 1 THEN disk ELSE versions[i - 1]

LEMMA WrittenIs ==
  ASSUME disk \in Tables, NEW versions \in Seq(Tables), NEW i \in DOMAIN versions, NEW k
  PROVE  /\ Written(versions, i, k) \in Tables /\ Before(versions, i) \in Tables
         /\ \A s \in FileSlots : Written(versions, i, k)[s] \in {versions[i][s], Before(versions, i)[s]}
<1>1. versions[i] \in Tables
  OBVIOUS
<1>2. Before(versions, i) \in Tables
  <2>1. i # 1 => i - 1 \in DOMAIN versions
    OBVIOUS
  <2> QED BY <2>1 DEF Before
<1>3. Written(versions, i, k) = [s \in FileSlots |-> IF SectorOf(s) <= k THEN versions[i][s]
                                                     ELSE Before(versions, i)[s]]
  BY DEF Written, Before
<1> QED BY <1>1, <1>2, <1>3 DEF Tables

LEMMA SyncIs ==
  ASSUME NEW versions \in Seq(Tables), versions # <<>>
  PROVE  /\ hbfs_sync_table(versions) = Last(versions) /\ Last(versions) \in Tables
         /\ Len(versions) \in DOMAIN versions /\ Last(versions) = versions[Len(versions)]
<1>1. Len(versions) \in DOMAIN versions /\ Last(versions) = versions[Len(versions)]
      /\ versions[Len(versions)] \in Tables
  BY DEF Last
<1>2. hbfs_sync_table(versions) = [s \in FileSlots |-> versions[Len(versions)][s]]
  BY SectorsCover DEF hbfs_sync_table, Written
<1> QED BY <1>1, <1>2 DEF Tables
-----------------------------------------------------------------------------
(* What a mount, a completed call and a failed call need                   *)

LEMMA RunKeeps ==
  ASSUME HbfsInv, births' \in 0 .. MaxBirths, formatted' = formatted, backend' = backend,
         failed' = failed, due' = due, files' = files, hbfs_table' = hbfs_table, disk' = disk,
         blocks' = blocks, opened' \in [Openers -> [slot : FileSlots \cup {0}, tag : 0 .. MaxBirths]],
         HandlesTold(files)'
  PROVE  HbfsInv'
<1>1. HbfsTypes'
  BY DEF HbfsInv, HbfsTypes, Tables, Rows, EntryType
<1>2. DueTold'
  BY DEF HbfsInv, DueTold, Holds
<1>3. DiskTold'
  BY DEF HbfsInv, DiskTold, AllOwned, Owned, Alike, Former, Free
<1> QED BY <1>1, <1>2, <1>3 DEF HbfsInv

LEMMA MountKeeps ==
  ASSUME HbfsInv, NEW held \in Tables, NEW data \in Rows, AllOwned(held, data),
         Mounts(held, data), births' \in 0 .. MaxBirths, failed' \in BOOLEAN, formatted' = TRUE,
         \A t \in due' : \E s \in FileSlots : Holds(held, t, s)
  PROVE  HbfsInv'
<1>1. /\ files' = held /\ hbfs_table' = held /\ disk' = held /\ blocks' = data
      /\ backend' = "hbfs" /\ opened' = [p \in Openers |-> NoHandle]
  BY DEF Mounts
<1>2. opened' \in [Openers -> [slot : FileSlots \cup {0}, tag : 0 .. MaxBirths]]
  BY <1>1, SlotsAre DEF NoHandle
<1>3. HbfsTypes'
  BY <1>1, <1>2 DEF HbfsTypes
<1>4. HandlesTold(files)'
  BY <1>1 DEF HandlesTold
<1>5. DueTold'
  BY <1>1 DEF DueTold, Holds
<1>6. DiskTold'
  BY <1>1 DEF DiskTold, AllOwned, Owned, Alike
<1> QED BY <1>1, <1>3, <1>4, <1>5, <1>6 DEF HbfsInv

LEMMA CutKeeps ==
  ASSUME HbfsInv, backend = "hbfs", NEW kind, NEW versions \in Seq(Tables),
         \A i \in DOMAIN versions : AllOwned(versions[i], blocks),
         \A t \in due' : \E s \in FileSlots :
           Holds(disk, t, s) /\ \A i \in DOMAIN versions : Holds(versions[i], t, s),
         CutWhile(kind, versions), births' \in 0 .. MaxBirths
  PROVE  HbfsInv'
<1>1. PICK i \in DOMAIN versions, k \in {0} \cup Sectors : Mounts(Written(versions, i, k), blocks)
  BY DEF CutWhile
<1> DEFINE held == Written(versions, i, k)
<1>2. disk \in Tables /\ blocks \in Rows /\ AllOwned(disk, blocks) /\ formatted /\ failed \in BOOLEAN
      /\ formatted \in BOOLEAN
  BY DEF HbfsInv, HbfsTypes, DiskTold
<1>3. /\ held \in Tables
      /\ \A s \in FileSlots : held[s] \in {versions[i][s], Before(versions, i)[s]}
  BY <1>1, <1>2, WrittenIs
<1>4. Before(versions, i) = disk \/ \E j \in DOMAIN versions : Before(versions, i) = versions[j]
  <2>1. i # 1 => i - 1 \in DOMAIN versions
    BY <1>1
  <2> QED BY <2>1 DEF Before
<1> HIDE DEF held
<1>5. AllOwned(Before(versions, i), blocks) /\ AllOwned(versions[i], blocks)
  BY <1>1, <1>2, <1>4
<1>6. AllOwned(held, blocks)
  BY <1>3, <1>5 DEF AllOwned
<1>7. ASSUME NEW t \in due'
      PROVE  \E s \in FileSlots : Holds(held, t, s)
  <2>1. PICK s \in FileSlots : Holds(disk, t, s) /\ \A j \in DOMAIN versions : Holds(versions[j], t, s)
    OBVIOUS
  <2>2. Holds(Before(versions, i), t, s) /\ Holds(versions[i], t, s)
    BY <1>1, <1>4, <2>1
  <2>3. Holds(held, t, s)
    BY <1>3, <2>1, <2>2 DEF Holds
  <2> QED BY <2>1, <2>3
<1>8. Mounts(held, blocks)
  BY <1>1 DEF held
<1>9. formatted' = TRUE /\ failed' \in BOOLEAN
  BY <1>2 DEF CutWhile
<1> QED BY <1>2, <1>3, <1>6, <1>7, <1>8, <1>9, MountKeeps

LEMMA CompleteKeeps ==
  ASSUME HbfsInv, NEW after \in Tables, NEW versions \in Seq(Tables), versions # <<>>,
         backend = "hbfs" =>
           /\ AllOwned(after, blocks) /\ AllOwned(Last(versions), blocks)
           /\ Alike(Last(versions), after)
           /\ ~failed => Last(versions) = after,
         HandlesTold(after),
         \A t \in due' : \E s \in FileSlots :
           /\ Holds(after, t, s)
           /\ backend = "hbfs" => Holds(Last(versions), t, s),
         Completes(after, versions), opened' = opened, births' \in 0 .. MaxBirths
  PROVE  HbfsInv'
<1> DEFINE last == Last(versions)
<1>1. last \in Tables /\ hbfs_sync_table(versions) = last
  BY SyncIs
<1>2. /\ files' = after /\ backend' = backend /\ blocks' = blocks /\ formatted' = formatted
      /\ failed' = failed
      /\ backend = "hbfs" => hbfs_table' = last /\ disk' = last
      /\ backend # "hbfs" => hbfs_table' = hbfs_table /\ disk' = disk
  BY <1>1 DEF Completes
<1>3. HbfsTypes'
  BY <1>1, <1>2 DEF HbfsInv, HbfsTypes
<1>4. HandlesTold(files)'
  BY <1>2 DEF HandlesTold
<1>5. DueTold'
  BY <1>2 DEF DueTold, Holds
<1>6. DiskTold'
  <2>1. SUFFICES ASSUME backend = "hbfs"
                 PROVE  /\ AllOwned(after, blocks) /\ AllOwned(last, blocks)
                        /\ Alike(last, after)
                        /\ ~failed => last = after
    <3>1. backend # "hbfs" => (disk = [s \in FileSlots |-> Former])'
      BY <1>2 DEF HbfsInv, DiskTold, Former, Free
    <3> QED BY <1>2, <3>1 DEF DiskTold, AllOwned, Owned, Alike
  <2> QED BY <2>1
<1> QED BY <1>2, <1>3, <1>4, <1>5, <1>6 DEF HbfsInv

\* What an error of a sync over `before' leaves.
ErrTold(err, version, before) ==
  /\ err.files \in Tables /\ err.hbfs_table \in Tables /\ err.data \in Rows
  /\ HandlesTold(err.files)
  /\ AllOwned(err.files, err.data)
  /\ \A list \in {err.hbfs_table, version, before} :
       AllOwned(list, err.data) /\ Alike(list, err.files)
ErrKeeps(err, version, before, t) ==
  \E s \in FileSlots : \A list \in {err.files, err.hbfs_table, version, before} : Holds(list, t, s)

LEMMA FailKeeps ==
  ASSUME HbfsInv, backend = "hbfs", NEW versions \in Seq(Tables), NEW errs,
         DOMAIN errs \subseteq DOMAIN versions,
         \A i \in DOMAIN errs : ErrTold(errs[i], versions[i], Before(versions, i)),
         \A t \in due' : \A i \in DOMAIN errs :
           ErrKeeps(errs[i], versions[i], Before(versions, i), t),
         FailWhile(versions, errs), births' \in 0 .. MaxBirths
  PROVE  HbfsInv'
<1>1. PICK i \in DOMAIN errs, k \in {0} \cup Sectors :
        /\ files' = errs[i].files /\ hbfs_table' = errs[i].hbfs_table /\ blocks' = errs[i].data
        /\ \/ disk' = Written(versions, i, k)
           \/ \E n \in Sectors :
                disk' = [s \in FileSlots |-> IF SectorOf(s) <= n THEN errs[i].hbfs_table[s]
                                             ELSE Written(versions, i, k)[s]]
  BY DEF FailWhile
<1> DEFINE held == Written(versions, i, k)
           version == versions[i]
           before == Before(versions, i)
           tab == errs[i].hbfs_table
           f == errs[i].files
           data == errs[i].data
<1>2. i \in DOMAIN versions /\ disk \in Tables
  BY <1>1 DEF HbfsInv, HbfsTypes
<1>3. held \in Tables /\ \A s \in FileSlots : held[s] \in {version[s], before[s]}
  BY <1>2, WrittenIs
<1>4. ErrTold(errs[i], version, before) /\ \A t \in due' : ErrKeeps(errs[i], version, before, t)
  BY <1>1
<1>5. files' = f /\ hbfs_table' = tab /\ blocks' = data
  BY <1>1
<1>6. \/ disk' = held
      \/ \E n \in Sectors :
           disk' = [s \in FileSlots |-> IF SectorOf(s) <= n THEN tab[s] ELSE held[s]]
  BY <1>1
<1>7. failed' = TRUE /\ backend' = backend /\ formatted' = formatted /\ opened' = opened
  BY DEF FailWhile
<1>8. f \in Tables /\ tab \in Tables /\ data \in Rows /\ HandlesTold(f) /\ AllOwned(f, data)
      /\ AllOwned(tab, data) /\ AllOwned(version, data) /\ AllOwned(before, data)
      /\ Alike(tab, f) /\ Alike(version, f) /\ Alike(before, f)
  BY <1>4 DEF ErrTold
<1>9. \A t \in due' : \E s \in FileSlots :
        Holds(f, t, s) /\ Holds(tab, t, s) /\ Holds(version, t, s) /\ Holds(before, t, s)
  BY <1>4 DEF ErrKeeps
<1> HIDE DEF held, version, before, tab, f, data
<1>10. disk' \in Tables /\ \A s \in FileSlots : disk'[s] \in {version[s], before[s], tab[s]}
  BY <1>3, <1>6, <1>8 DEF Tables
<1>11. AllOwned(disk', data)
  BY <1>8, <1>10 DEF AllOwned
<1>12. Alike(disk', f)
  BY <1>8, <1>10 DEF Alike
<1>13. \A t \in due' : \E s \in FileSlots : Holds(f, t, s) /\ Holds(tab, t, s) /\ Holds(disk', t, s)
  <2> SUFFICES ASSUME NEW t \in due'
               PROVE  \E s \in FileSlots : Holds(f, t, s) /\ Holds(tab, t, s) /\ Holds(disk', t, s)
    OBVIOUS
  <2>1. PICK s \in FileSlots :
          Holds(f, t, s) /\ Holds(tab, t, s) /\ Holds(version, t, s) /\ Holds(before, t, s)
    BY <1>9
  <2>2. disk'[s] \in {version[s], before[s], tab[s]}
    BY <1>10
  <2>3. Holds(disk', t, s)
    BY <2>1, <2>2 DEF Holds
  <2> QED BY <2>1, <2>3
<1>14. HbfsTypes'
  BY <1>5, <1>7, <1>8, <1>10 DEF HbfsInv, HbfsTypes
<1>15. HandlesTold(files)'
  BY <1>5, <1>7, <1>8 DEF HandlesTold
<1>16. DueTold'
  BY <1>5, <1>13 DEF DueTold, Holds
<1>17. DiskTold'
  BY <1>5, <1>7, <1>8, <1>11, <1>12 DEF DiskTold, AllOwned, Owned, Alike
<1> QED BY <1>7, <1>14, <1>15, <1>16, <1>17 DEF HbfsInv
-----------------------------------------------------------------------------
(* Calls that remove, shorten or rename files                              *)

\* The entry y is x, perhaps emptied, perhaps under a new name.
Kin(x, y) ==
  y.used = x.used /\ y.type = x.type /\ y.tag = x.tag /\ (y.size = x.size \/ y.size = 0)

\* The files without those of the slots T; a table whose entries all come from
\* the files or from the tables, or say nothing of a slot that has no file.
FromFiles(list, T) ==
  \A s \in FileSlots : Kin(files[s], list[s]) \/ (s \in T /\ ~list[s].used)
FromTables(list, T) ==
  \A s \in FileSlots :
    \/ \E x \in {files[s], hbfs_table[s], disk[s]} : Kin(x, list[s])
    \/ s \in T /\ ~list[s].used
    \/ ~files[s].used /\ list[s].size = 0

LEMMA KinIs ==
  ASSUME NEW x \in EntryType, NEW y \in EntryType, Kin(x, y), NEW row, Owned(x, row)
  PROVE  Owned(y, row)
  BY SlotsAre DEF Kin, Owned, EntryType

LEMMA FilesFollow ==
  ASSUME HbfsInv, NEW T, NEW f \in Tables, FromFiles(f, T)
  PROVE  /\ backend = "hbfs" => AllOwned(f, blocks)
         /\ (\A p \in Openers : opened[p].slot \notin T) => HandlesTold(f)
         /\ \A t : \A s \in FileSlots \ T : Holds(files, t, s) => Holds(f, t, s)
<1>1. files \in Tables
  BY DEF HbfsInv, HbfsTypes
<1>2. backend = "hbfs" => AllOwned(f, blocks)
  <2>1. SUFFICES ASSUME backend = "hbfs", NEW s \in FileSlots
                 PROVE  Owned(f[s], blocks[s])
    BY DEF AllOwned
  <2>2. Owned(files[s], blocks[s])
    BY <2>1 DEF HbfsInv, DiskTold, AllOwned
  <2>3. files[s] \in EntryType /\ f[s] \in EntryType
    BY <1>1 DEF Tables
  <2>4. CASE Kin(files[s], f[s])
    BY <2>2, <2>3, <2>4, KinIs
  <2>5. CASE ~f[s].used
    BY <2>5 DEF Owned
  <2> QED BY <2>4, <2>5 DEF FromFiles
<1>3. (\A p \in Openers : opened[p].slot \notin T) => HandlesTold(f)
  BY DEF HbfsInv, HandlesTold, FromFiles, Kin
<1>4. \A t : \A s \in FileSlots \ T : Holds(files, t, s) => Holds(f, t, s)
  BY DEF Holds, FromFiles, Kin
<1> QED BY <1>2, <1>3, <1>4

LEMMA TablesFollow ==
  ASSUME HbfsInv, backend = "hbfs", NEW T, NEW list \in Tables, FromTables(list, T)
  PROVE  /\ AllOwned(list, blocks)
         /\ \A f \in Tables : FromFiles(f, T) => Alike(list, f)
         /\ \A t : \A s \in FileSlots \ T :
              Holds(files, t, s) /\ Holds(hbfs_table, t, s) /\ Holds(disk, t, s)
              => Holds(list, t, s)
<1>1. files \in Tables /\ hbfs_table \in Tables /\ disk \in Tables
  BY DEF HbfsInv, HbfsTypes
<1>2. ASSUME NEW s \in FileSlots
      PROVE  Owned(list[s], blocks[s])
  <2>1. Owned(files[s], blocks[s]) /\ Owned(hbfs_table[s], blocks[s]) /\ Owned(disk[s], blocks[s])
    BY DEF HbfsInv, DiskTold, AllOwned
  <2>2. {files[s], hbfs_table[s], disk[s]} \subseteq EntryType /\ list[s] \in EntryType
    BY <1>1 DEF Tables
  <2>3. CASE \E x \in {files[s], hbfs_table[s], disk[s]} : Kin(x, list[s])
    BY <2>1, <2>2, <2>3, KinIs
  <2>4. CASE ~list[s].used
    BY <2>4 DEF Owned
  <2>5. CASE list[s].size = 0
    BY <2>5 DEF Owned
  <2> QED BY <2>3, <2>4, <2>5 DEF FromTables
<1>3. ASSUME NEW f \in Tables, FromFiles(f, T)
      PROVE  Alike(list, f)
  <2> SUFFICES ASSUME NEW s \in FileSlots, list[s].used, f[s].used
               PROVE  list[s].tag = f[s].tag
    BY DEF Alike
  <2>1. f[s].used = files[s].used /\ f[s].tag = files[s].tag
    BY <1>3 DEF FromFiles, Kin
  <2>2. \A x \in {files[s], hbfs_table[s], disk[s]} : x.used /\ files[s].used => x.tag = files[s].tag
    BY DEF HbfsInv, DiskTold, Alike
  <2>3. \/ \E x \in {files[s], hbfs_table[s], disk[s]} : Kin(x, list[s])
        \/ ~files[s].used
    BY DEF FromTables
  <2>4. PICK x \in {files[s], hbfs_table[s], disk[s]} : Kin(x, list[s])
    BY <2>1, <2>3
  <2>5. x.used /\ list[s].tag = x.tag
    BY <2>4 DEF Kin
  <2> QED BY <2>1, <2>2, <2>5
<1>4. \A t : \A s \in FileSlots \ T :
        Holds(files, t, s) /\ Holds(hbfs_table, t, s) /\ Holds(disk, t, s) => Holds(list, t, s)
  BY DEF Holds, FromTables, Kin
<1> QED BY <1>2, <1>3, <1>4 DEF AllOwned

\* Nobody's end is asked for but that of the files in the slots T.
Spares(T) == \A t \in due' : t \in due /\ \A s \in T : ~Holds(files, t, s)

LEMMA DueSpared ==
  ASSUME HbfsInv, NEW T, Spares(T), NEW t \in due'
  PROVE  \E s \in FileSlots \ T :
           Holds(files, t, s) /\ (backend = "hbfs" => Holds(hbfs_table, t, s) /\ Holds(disk, t, s))
  BY DEF HbfsInv, DueTold, Spares

LEMMA CutFollows ==
  ASSUME HbfsInv, backend = "hbfs", NEW T, NEW kind, NEW versions \in Seq(Tables),
         \A i \in DOMAIN versions : FromTables(versions[i], T), Spares(T),
         CutWhile(kind, versions), births' \in 0 .. MaxBirths
  PROVE  HbfsInv'
<1>1. ASSUME NEW i \in DOMAIN versions
      PROVE  /\ AllOwned(versions[i], blocks)
             /\ \A t : \A s \in FileSlots \ T :
                  Holds(files, t, s) /\ Holds(hbfs_table, t, s) /\ Holds(disk, t, s)
                  => Holds(versions[i], t, s)
  <2>1. versions[i] \in Tables /\ FromTables(versions[i], T)
    BY <1>1
  <2> QED BY <2>1, TablesFollow
<1>2. ASSUME NEW t \in due'
      PROVE  \E s \in FileSlots :
               Holds(disk, t, s) /\ \A i \in DOMAIN versions : Holds(versions[i], t, s)
  <2>1. PICK s \in FileSlots \ T : Holds(files, t, s) /\ Holds(hbfs_table, t, s) /\ Holds(disk, t, s)
    BY DueSpared
  <2> QED BY <1>1, <2>1
<1> QED BY <1>1, <1>2, CutKeeps

\* What a call reports an error with: errs come from the files and the tables.
ErrsFrom(errs, T) ==
  \A i \in DOMAIN errs :
    /\ errs[i].files \in Tables /\ FromFiles(errs[i].files, T)
    /\ errs[i].hbfs_table \in Tables /\ FromTables(errs[i].hbfs_table, T)
    /\ errs[i].data = blocks

LEMMA FailFollows ==
  ASSUME HbfsInv, backend = "hbfs", NEW T, NEW versions \in Seq(Tables), NEW errs,
         DOMAIN errs \subseteq DOMAIN versions,
         \A i \in DOMAIN versions : FromTables(versions[i], T), ErrsFrom(errs, T), Spares(T),
         \A p \in Openers : opened[p].slot \notin T,
         FailWhile(versions, errs), births' \in 0 .. MaxBirths
  PROVE  HbfsInv'
<1>1. disk \in Tables /\ FromTables(disk, T) /\ blocks \in Rows
  BY DEF HbfsInv, HbfsTypes, FromTables, Kin
<1>2. ASSUME NEW i \in DOMAIN errs
      PROVE  /\ errs[i].files \in Tables /\ FromFiles(errs[i].files, T) /\ errs[i].data = blocks
             /\ \A list \in {errs[i].hbfs_table, versions[i], Before(versions, i)} :
                  list \in Tables /\ FromTables(list, T)
  <2>1. i \in DOMAIN versions
    BY <1>2
  <2>2. Before(versions, i) \in Tables /\ FromTables(Before(versions, i), T)
    <3>1. i # 1 => i - 1 \in DOMAIN versions
      BY <2>1
    <3>2. i # 1 => versions[i - 1] \in Tables /\ FromTables(versions[i - 1], T)
      BY <3>1
    <3> QED BY <1>1, <3>2 DEF Before
  <2>3. versions[i] \in Tables /\ FromTables(versions[i], T)
    BY <2>1
  <2> QED BY <1>2, <2>2, <2>3 DEF ErrsFrom
<1>3. ASSUME NEW i \in DOMAIN errs
      PROVE  ErrTold(errs[i], versions[i], Before(versions, i))
  <2>1. \A list \in {errs[i].hbfs_table, versions[i], Before(versions, i)} :
          AllOwned(list, blocks) /\ Alike(list, errs[i].files)
    <3> SUFFICES ASSUME NEW list \in {errs[i].hbfs_table, versions[i], Before(versions, i)}
                 PROVE  AllOwned(list, blocks) /\ Alike(list, errs[i].files)
      OBVIOUS
    <3>1. list \in Tables /\ FromTables(list, T)
      BY <1>2, <1>3
    <3>2. errs[i].files \in Tables /\ FromFiles(errs[i].files, T)
      BY <1>2, <1>3
    <3> QED BY <3>1, <3>2, TablesFollow
  <2>2. HandlesTold(errs[i].files) /\ AllOwned(errs[i].files, blocks)
    <3>1. errs[i].files \in Tables /\ FromFiles(errs[i].files, T)
      BY <1>2, <1>3
    <3> QED BY <3>1, FilesFollow
  <2>3. errs[i].data = blocks /\ errs[i].files \in Tables /\ errs[i].hbfs_table \in Tables
    BY <1>2, <1>3
  <2> QED BY <1>1, <2>1, <2>2, <2>3 DEF ErrTold
<1>4. ASSUME NEW t \in due', NEW i \in DOMAIN errs
      PROVE  ErrKeeps(errs[i], versions[i], Before(versions, i), t)
  <2>1. PICK s \in FileSlots \ T : Holds(files, t, s) /\ Holds(hbfs_table, t, s) /\ Holds(disk, t, s)
    BY DueSpared
  <2>2. Holds(errs[i].files, t, s)
    <3>1. errs[i].files \in Tables /\ FromFiles(errs[i].files, T)
      BY <1>2, <1>4
    <3> QED BY <2>1, <3>1, FilesFollow
  <2>3. \A list \in {errs[i].hbfs_table, versions[i], Before(versions, i)} : Holds(list, t, s)
    <3> SUFFICES ASSUME NEW list \in {errs[i].hbfs_table, versions[i], Before(versions, i)}
                 PROVE  Holds(list, t, s)
      OBVIOUS
    <3>1. list \in Tables /\ FromTables(list, T)
      BY <1>2, <1>4
    <3> QED BY <2>1, <3>1, TablesFollow
  <2> QED BY <2>1, <2>2, <2>3 DEF ErrKeeps
<1> QED BY <1>3, <1>4, FailKeeps

LEMMA CompleteFollows ==
  ASSUME HbfsInv, NEW T, NEW after \in Tables, FromFiles(after, T),
         NEW versions \in Seq(Tables), versions # <<>>, FromTables(Last(versions), T),
         backend = "hbfs" /\ ~failed => Last(versions) = after, Spares(T),
         \A p \in Openers : opened[p].slot \notin T,
         Completes(after, versions), opened' = opened, births' \in 0 .. MaxBirths
  PROVE  HbfsInv'
<1> DEFINE last == Last(versions)
<1>1. last \in Tables
  BY SyncIs
<1>2. FromTables(last, T) /\ (backend = "hbfs" /\ ~failed => last = after)
  OBVIOUS
<1>3. HandlesTold(after) /\ (backend = "hbfs" => AllOwned(after, blocks))
      /\ \A t : \A s \in FileSlots \ T : Holds(files, t, s) => Holds(after, t, s)
  BY FilesFollow
<1> HIDE DEF last
<1>4. backend = "hbfs" => AllOwned(last, blocks) /\ Alike(last, after)
        /\ \A t : \A s \in FileSlots \ T :
             Holds(files, t, s) /\ Holds(hbfs_table, t, s) /\ Holds(disk, t, s) => Holds(last, t, s)
  BY <1>1, <1>2, TablesFollow
<1>5. backend = "hbfs" =>
        /\ AllOwned(after, blocks) /\ AllOwned(last, blocks) /\ Alike(last, after)
        /\ ~failed => last = after
  BY <1>2, <1>3, <1>4
<1>6. ASSUME NEW t \in due'
      PROVE  \E s \in FileSlots : Holds(after, t, s) /\ (backend = "hbfs" => Holds(last, t, s))
  <2>1. PICK s \in FileSlots \ T :
          Holds(files, t, s) /\ (backend = "hbfs" => Holds(hbfs_table, t, s) /\ Holds(disk, t, s))
    BY DueSpared
  <2> QED BY <1>3, <1>4, <2>1
<1> QED BY <1>3, <1>5, <1>6, CompleteKeeps DEF last
-----------------------------------------------------------------------------
(* The calls                                                               *)

LEMMA TypesAre ==
  ASSUME HbfsInv
  PROVE  /\ files \in Tables /\ hbfs_table \in Tables /\ disk \in Tables /\ blocks \in Rows
         /\ births \in 0 .. MaxBirths /\ backend \in {"ram", "hbfs"}
         /\ opened \in [Openers -> [slot : FileSlots \cup {0}, tag : 0 .. MaxBirths]]
  BY DEF HbfsInv, HbfsTypes

LEMMA PutIs ==
  ASSUME NEW list \in Tables, NEW s \in FileSlots, NEW e \in EntryType
  PROVE  LET m == [list EXCEPT ![s] = e] IN
         m \in Tables /\ m[s] = e /\ \A r \in FileSlots \ {s} : m[r] = list[r]
  BY DEF Tables

LEMMA KinSelf == ASSUME NEW x PROVE Kin(x, x)
  BY DEF Kin

\* A handle's slot has a file.
LEMMA HandleSlots ==
  ASSUME HbfsInv, NEW p \in Openers, opened[p].slot # 0
  PROVE  opened[p].slot \in FileSlots /\ files[opened[p].slot].used
         /\ files[opened[p].slot].type = 0 /\ files[opened[p].slot].tag = opened[p].tag
<1>1. opened[p] # NoHandle
  BY DEF NoHandle
<1> QED BY <1>1 DEF HbfsInv, HandlesTold

LEMMA CreateKeeps ==
  ASSUME HbfsInv, NEW name \in Paths, NEW type \in {0, 1}, Create(name, type)
  PROVE  HbfsInv'
<1> DEFINE s == FirstFreeSlot
           e == NewFile(name, type)
           after == [files EXCEPT ![s] = e]
           tab == [hbfs_table EXCEPT ![s] = e]
           versions == <<tab>>
<1>1. s \in FileSlots /\ ~files[s].used
  BY FreeFound DEF Create
<1>2. births \in 0 .. MaxBirths /\ births < MaxBirths /\ births' = births + 1 /\ MaxBirths \in Nat
  BY TypesAre, SlotsAre DEF Create
<1>3. e \in EntryType /\ e.used = TRUE /\ e.size = 0 /\ e.tag = births + 1
  <2>1. type \in 0 .. 2
    OBVIOUS
  <2>2. NewFile(name, type) \in EntryType
        /\ NewFile(name, type).size = 0 /\ NewFile(name, type).tag = births + 1
    <3> HIDE DEF s, e, after, tab, versions
    <3> QED BY <1>2, <2>1, NewFileIs
  <2>3. NewFile(name, type).used = TRUE
    BY DEF NewFile
  <2> QED BY <2>2, <2>3
<1>4. files \in Tables /\ hbfs_table \in Tables /\ blocks \in Rows
  BY TypesAre
<1>5. /\ after \in Tables /\ after[s] = e /\ \A r \in FileSlots \ {s} : after[r] = files[r]
      /\ tab \in Tables /\ tab[s] = e /\ \A r \in FileSlots \ {s} : tab[r] = hbfs_table[r]
  BY <1>1, <1>3, <1>4, PutIs
<1>6. Updated(hbfs_table, after, s) = tab
  BY <1>5 DEF Updated
<1> DEFINE errs == <<[files |-> files, hbfs_table |-> tab, again |-> FALSE, data |-> blocks]>>
<1>7. \/ Completes(after, versions) /\ due' = due \cup {births + 1} /\ UNCHANGED opened
      \/ backend = "hbfs" /\ CutWhile("create", versions) /\ UNCHANGED due
      \/ backend = "hbfs" /\ UNCHANGED due /\ FailWhile(versions, errs)
  BY <1>6 DEF Create
<1> HIDE DEF s, e, after, tab
<1>8. births' \in 0 .. MaxBirths
  BY <1>2
<1>9. versions \in Seq(Tables) /\ versions # <<>> /\ Last(versions) = tab
      /\ DOMAIN versions = {1} /\ versions[1] = tab
  BY <1>5 DEF Last
<1>10. FromTables(tab, {}) /\ FromFiles(files, {})
  BY <1>1, <1>3, <1>5, KinSelf DEF FromTables, FromFiles
<1>11. \A i \in DOMAIN versions : FromTables(versions[i], {})
  BY <1>9, <1>10
<1>12. due' = due => Spares({})
  BY DEF Spares
<1>13. CASE Completes(after, versions) /\ due' = due \cup {births + 1} /\ UNCHANGED opened
  <2>1. HandlesTold(after)
    <3> SUFFICES ASSUME NEW p \in Openers, opened[p] # NoHandle
                 PROVE  /\ opened[p].slot \in FileSlots /\ after[opened[p].slot].used
                        /\ after[opened[p].slot].tag = opened[p].tag
                        /\ after[opened[p].slot].type = 0
      BY DEF HandlesTold
    <3>1. /\ opened[p].slot \in FileSlots /\ files[opened[p].slot].used
          /\ files[opened[p].slot].tag = opened[p].tag /\ files[opened[p].slot].type = 0
      BY DEF HbfsInv, HandlesTold
    <3>2. after[opened[p].slot] = files[opened[p].slot]
      BY <1>1, <1>5, <3>1
    <3> QED BY <3>1, <3>2
  <2>2. backend = "hbfs" =>
          /\ AllOwned(after, blocks) /\ AllOwned(tab, blocks) /\ Alike(tab, after)
          /\ ~failed => tab = after
    <3> SUFFICES ASSUME backend = "hbfs"
                 PROVE  /\ AllOwned(after, blocks) /\ AllOwned(tab, blocks) /\ Alike(tab, after)
                        /\ ~failed => tab = after
      OBVIOUS
    <3>1. AllOwned(files, blocks) /\ AllOwned(hbfs_table, blocks) /\ Alike(hbfs_table, files)
          /\ (~failed => hbfs_table = files)
      BY DEF HbfsInv, DiskTold
    <3>2. Owned(e, blocks[s])
      BY <1>3 DEF Owned
    <3>3. AllOwned(after, blocks) /\ AllOwned(tab, blocks)
      BY <1>1, <1>5, <3>1, <3>2 DEF AllOwned
    <3>4. Alike(tab, after)
      BY <1>1, <1>5, <3>1 DEF Alike
    <3>5. ~failed => tab = after
      BY <3>1 DEF tab, after
    <3> QED BY <3>3, <3>4, <3>5
  <2>3. ASSUME NEW t \in due'
        PROVE  \E r \in FileSlots : Holds(after, t, r) /\ (backend = "hbfs" => Holds(tab, t, r))
    <3>1. CASE t = births + 1
      BY <1>1, <1>3, <1>5, <3>1 DEF Holds
    <3>2. CASE t \in due
      <4>1. PICK r \in FileSlots : Holds(files, t, r) /\ (backend = "hbfs" => Holds(hbfs_table, t, r))
        BY <3>2 DEF HbfsInv, DueTold
      <4>2. r # s
        BY <1>1, <4>1 DEF Holds
      <4>3. after[r] = files[r] /\ tab[r] = hbfs_table[r]
        BY <1>5, <4>2
      <4> QED BY <4>1, <4>3 DEF Holds
    <3> QED BY <1>13, <2>3, <3>1, <3>2
  <2>4. backend = "hbfs" =>
          /\ AllOwned(after, blocks) /\ AllOwned(Last(versions), blocks)
          /\ Alike(Last(versions), after)
          /\ ~failed => Last(versions) = after
    BY <1>9, <2>2
  <2>5. \A t \in due' : \E r \in FileSlots :
          /\ Holds(after, t, r)
          /\ backend = "hbfs" => Holds(Last(versions), t, r)
    BY <1>9, <2>3
  <2>6. opened' = opened /\ after \in Tables /\ Completes(after, versions)
        /\ versions \in Seq(Tables) /\ versions # <<>>
    BY <1>5, <1>9, <1>13
  <2> HIDE DEF versions
  <2> QED BY <1>8, <2>1, <2>4, <2>5, <2>6, CompleteKeeps
<1>14. CASE backend = "hbfs" /\ CutWhile("create", versions) /\ UNCHANGED due
  <2>1. Spares({})
    BY <1>12, <1>14
  <2> QED BY <1>8, <1>9, <1>11, <1>14, <2>1, CutFollows
<1>15. CASE backend = "hbfs" /\ UNCHANGED due /\ FailWhile(versions, errs)
  <2>1. Spares({})
    BY <1>12, <1>15
  <2>2. ErrsFrom(errs, {})
    BY <1>4, <1>5, <1>10 DEF ErrsFrom
  <2>3. DOMAIN errs \subseteq DOMAIN versions
    BY <1>9
  <2> HIDE DEF errs, versions
  <2> QED BY <1>8, <1>9, <1>11, <1>15, <2>1, <2>2, <2>3, FailFollows
<1> QED BY <1>7, <1>13, <1>14, <1>15

\* The calls that change one file, or remove it, and sync once.
LEMMA OneEntryKeeps ==
  ASSUME HbfsInv, NEW s \in FileSlots, NEW e \in EntryType, NEW T \in SUBSET {s}, NEW kind,
         Kin(files[s], e) \/ (s \in T /\ ~e.used), Spares(T), births' = births,
         \A p \in Openers : opened[p].slot \notin T,
         LET after == [files EXCEPT ![s] = e]
             versions == <<Updated(hbfs_table, after, s)>>
         IN  \/ Completes(after, versions) /\ UNCHANGED opened
             \/ backend = "hbfs" /\ CutWhile(kind, versions)
             \/ backend = "hbfs" /\ FailWhile(versions, <<[files |-> after, hbfs_table |-> versions[1],
                                                          again |-> FALSE, data |-> blocks]>>)
  PROVE  HbfsInv'
<1> DEFINE after == [files EXCEPT ![s] = e]
           tab == [hbfs_table EXCEPT ![s] = e]
           versions == <<tab>>
           errs == <<[files |-> after, hbfs_table |-> tab, again |-> FALSE, data |-> blocks]>>
<1>1. files \in Tables /\ hbfs_table \in Tables /\ births' \in 0 .. MaxBirths
  BY TypesAre
<1>2. /\ after \in Tables /\ after[s] = e /\ \A r \in FileSlots \ {s} : after[r] = files[r]
      /\ tab \in Tables /\ tab[s] = e /\ \A r \in FileSlots \ {s} : tab[r] = hbfs_table[r]
  BY <1>1 DEF Tables
<1>3. Updated(hbfs_table, after, s) = tab
  BY <1>2 DEF Updated
<1>4. \/ Completes(after, versions) /\ UNCHANGED opened
      \/ backend = "hbfs" /\ CutWhile(kind, versions)
      \/ backend = "hbfs" /\ FailWhile(versions, errs)
  BY <1>3
<1>5. ~failed /\ backend = "hbfs" => tab = after
  BY DEF HbfsInv, DiskTold
<1> HIDE DEF after, tab
<1>6. FromFiles(after, T)
  BY <1>2, KinSelf DEF FromFiles
<1>7. FromTables(tab, T)
  BY <1>2, KinSelf DEF FromTables
<1>8. versions \in Seq(Tables) /\ versions # <<>> /\ Last(versions) = tab
      /\ DOMAIN versions = {1} /\ versions[1] = tab
  BY <1>2 DEF Last
<1>9. \A i \in DOMAIN versions : FromTables(versions[i], T)
  BY <1>7, <1>8
<1>10. CASE Completes(after, versions) /\ UNCHANGED opened
  BY <1>1, <1>2, <1>5, <1>6, <1>7, <1>8, <1>10, CompleteFollows
<1>11. CASE backend = "hbfs" /\ CutWhile(kind, versions)
  BY <1>1, <1>8, <1>9, <1>11, CutFollows
<1>12. CASE backend = "hbfs" /\ FailWhile(versions, errs)
  <2>1. ErrsFrom(errs, T)
    BY <1>2, <1>6, <1>7 DEF ErrsFrom
  <2>2. DOMAIN errs \subseteq DOMAIN versions
    BY <1>8
  <2> HIDE DEF errs, versions
  <2> QED BY <1>1, <1>8, <1>9, <1>12, <2>1, <2>2, FailFollows
<1> QED BY <1>4, <1>10, <1>11, <1>12

LEMMA DeleteKeeps ==
  ASSUME HbfsInv, NEW s \in FileSlots, files[s].used, fs_delete_file(s), ~IsOpen(s)
  PROVE  HbfsInv'
<1> DEFINE after == [files EXCEPT ![s] = Free]
           versions == <<Updated(hbfs_table, after, s)>>
<1>1. /\ due' = due \ {files[s].tag} /\ births' = births
      /\ \/ Completes(after, versions) /\ UNCHANGED opened
         \/ backend = "hbfs" /\ CutWhile("delete", versions)
         \/ backend = "hbfs" /\ FailWhile(versions, <<[files |-> after, hbfs_table |-> versions[1],
                                                      again |-> FALSE, data |-> blocks]>>)
  BY DEF fs_delete_file
<1>2. Spares({s})
  BY <1>1 DEF Spares, Holds
<1>3. \A p \in Openers : opened[p].slot \notin {s}
  BY DEF IsOpen
<1> QED BY <1>1, <1>2, <1>3, FreeIs, OneEntryKeeps

LEMMA UnlinkKeeps ==
  ASSUME ForeignUnlinks = FALSE, HbfsInv, NEW p \in Openers, NEW name \in Paths, unlink(p, name)
  PROVE  HbfsInv'
<1>1. /\ Exists(name) /\ ~IsOpen(fs_find_file(name))
      /\ fs_delete_file(fs_find_file(name))
  BY DEF unlink
<1>2. fs_find_file(name) \in FileSlots /\ files[fs_find_file(name)].used
  BY <1>1, Found
<1> QED BY <1>1, <1>2, DeleteKeeps

LEMMA RmdirKeeps ==
  ASSUME HbfsInv, NEW name \in Paths, rmdir(name)
  PROVE  HbfsInv'
<1> DEFINE s == fs_find_file(name)
<1>1. s \in FileSlots /\ files[s].used
  BY Found DEF rmdir, IsDir
<1>2. files[s].type = 1 /\ fs_delete_file(s)
  BY DEF rmdir, IsDir
<1> HIDE DEF s
<1>3. ~IsOpen(s)
  <2> SUFFICES ASSUME NEW p \in Openers, opened[p].slot = s
               PROVE  FALSE
    BY DEF IsOpen
  <2>1. opened[p].slot # 0
    BY <1>1, SlotsAre
  <2>2. files[s].type = 0
    BY <2>1, HandleSlots
  <2> QED BY <1>2, <2>2
<1> QED BY <1>1, <1>2, <1>3, DeleteKeeps

LEMMA OpenedIs ==
  ASSUME HbfsInv, NEW p \in Openers, opened[p] # NoHandle
  PROVE  /\ opened[p].slot \in FileSlots /\ files[opened[p].slot].used
         /\ files[opened[p].slot].type = 0 /\ files[opened[p].slot].tag = opened[p].tag
  BY DEF HbfsInv, HandlesTold

LEMMA TruncateKeeps ==
  ASSUME HbfsInv, NEW p \in Openers, fs_truncate_file(p)
  PROVE  HbfsInv'
<1> DEFINE s == opened[p].slot
           e == [files[s] EXCEPT !.size = 0]
           after == [files EXCEPT ![s] = e]
           versions == <<Updated(hbfs_table, after, s)>>
<1>1. s \in FileSlots /\ files \in Tables
  BY OpenedIs, TypesAre DEF fs_truncate_file
<1>2. files[s] \in EntryType
  BY <1>1 DEF Tables
<1>3. e \in EntryType /\ Kin(files[s], e)
  BY <1>2, SlotsAre DEF EntryType, Kin
<1>4. [files EXCEPT ![s].size = 0] = after
  OBVIOUS
<1>5. /\ due' = due /\ births' = births
      /\ \/ Completes(after, versions) /\ UNCHANGED opened
         \/ backend = "hbfs" /\ CutWhile("write", versions)
         \/ backend = "hbfs" /\ FailWhile(versions, <<[files |-> after, hbfs_table |-> versions[1],
                                                      again |-> FALSE, data |-> blocks]>>)
  BY <1>4 DEF fs_truncate_file
<1>6. Spares({}) /\ {} \in SUBSET {s} /\ \A q \in Openers : opened[q].slot \notin {}
  BY <1>5 DEF Spares
<1> HIDE DEF e, s
<1> QED BY <1>1, <1>3, <1>5, <1>6, OneEntryKeeps

LEMMA OpenKeeps ==
  ASSUME HbfsInv, NEW p \in Openers, NEW name \in Paths, open(p, name)
  PROVE  HbfsInv'
<1> DEFINE s == fs_find_file(name)
           h == [slot |-> s, tag |-> files[s].tag]
<1>1. s \in FileSlots /\ files[s].used
  BY Found DEF open
<1>2. files[s].type = 0 /\ opened' = [opened EXCEPT ![p] = h]
      /\ UNCHANGED <<backend, files, hbfs_table, disk, blocks, formatted, births, due, failed>>
  BY DEF open
<1> HIDE DEF s
<1>3. files \in Tables /\ births \in 0 .. MaxBirths
      /\ opened \in [Openers -> [slot : FileSlots \cup {0}, tag : 0 .. MaxBirths]]
  BY TypesAre
<1>4. h \in [slot : FileSlots \cup {0}, tag : 0 .. MaxBirths]
  BY <1>1, <1>3 DEF Tables, EntryType
<1>5. opened' \in [Openers -> [slot : FileSlots \cup {0}, tag : 0 .. MaxBirths]]
  BY <1>2, <1>3, <1>4
<1>6. \A q \in Openers : opened'[q] = IF q = p THEN h ELSE opened[q]
  BY <1>2, <1>3
<1>7. HandlesTold(files)'
  BY <1>1, <1>2, <1>6 DEF HandlesTold, HbfsInv
<1> QED BY <1>2, <1>3, <1>5, <1>7, RunKeeps

LEMMA CloseKeeps ==
  ASSUME HbfsInv, NEW p \in Openers, hbfs_close(p)
  PROVE  HbfsInv'
<1>1. opened' = [opened EXCEPT ![p] = NoHandle]
      /\ UNCHANGED <<backend, files, hbfs_table, disk, blocks, formatted, births, due, failed>>
  BY DEF hbfs_close
<1>2. births \in 0 .. MaxBirths
      /\ opened \in [Openers -> [slot : FileSlots \cup {0}, tag : 0 .. MaxBirths]]
  BY TypesAre
<1>3. NoHandle \in [slot : FileSlots \cup {0}, tag : 0 .. MaxBirths]
  BY SlotsAre DEF NoHandle
<1>4. opened' \in [Openers -> [slot : FileSlots \cup {0}, tag : 0 .. MaxBirths]]
  BY <1>1, <1>2, <1>3
<1>5. HandlesTold(files)'
  BY <1>1, <1>2 DEF HandlesTold, HbfsInv
<1> QED BY <1>1, <1>2, <1>4, <1>5, RunKeeps

LEMMA FormatKeeps ==
  ASSUME HbfsInv, hbfs_format_range
  PROVE  HbfsInv'
<1> DEFINE blank == [s \in FileSlots |-> Free]
           versions == <<blank>>
<1>1. disk \in Tables /\ blocks \in Rows /\ births \in 0 .. MaxBirths /\ failed \in BOOLEAN
  BY DEF HbfsInv, HbfsTypes
<1>2. blank \in Tables /\ \A s \in FileSlots : Owned(blank[s], blocks[s])
  BY FreeIs DEF Tables, Owned
<1>3. formatted' = TRUE /\ due' = {} /\ births' = births /\ failed' = failed
  BY DEF hbfs_format_range
<1>4. \A s \in FileSlots : Owned(disk[s], blocks[s])
  <2>1. disk = [s \in FileSlots |-> Former]
    BY DEF hbfs_format_range, HbfsInv, DiskTold
  <2> QED BY <2>1 DEF Former, Free, Owned
<1>5. versions \in Seq(Tables) /\ DOMAIN versions = {1} /\ versions[1] = blank
  BY <1>2
<1>6. Mounts(blank, blocks) \/ \E k \in {0} \cup Sectors : Mounts(Written(versions, 1, k), blocks)
  BY DEF hbfs_format_range
<1> HIDE DEF blank, versions
<1>7. CASE Mounts(blank, blocks)
  BY <1>1, <1>2, <1>3, <1>7, MountKeeps DEF AllOwned
<1>8. ASSUME NEW k \in {0} \cup Sectors, Mounts(Written(versions, 1, k), blocks)
      PROVE  HbfsInv'
  <2> DEFINE held == Written(versions, 1, k)
  <2>1. held \in Tables /\ \A s \in FileSlots : held[s] \in {versions[1][s], Before(versions, 1)[s]}
    BY <1>1, <1>5, WrittenIs
  <2>2. Mounts(held, blocks)
    BY <1>8
  <2> HIDE DEF held
  <2>3. AllOwned(held, blocks)
    BY <1>2, <1>5, <1>4, <2>1 DEF Before, AllOwned
  <2> QED BY <1>1, <1>3, <2>1, <2>2, <2>3, MountKeeps
<1> QED BY <1>6, <1>7, <1>8

\* A call that leaves these files, tables and data on a mounted disk.
LEMMA StepKeeps ==
  ASSUME HbfsInv, backend = "hbfs", NEW f \in Tables, NEW tab \in Tables, NEW d \in Tables,
         NEW data \in Rows, files' = f, hbfs_table' = tab, disk' = d, blocks' = data,
         backend' = backend, formatted' = formatted, opened' = opened, failed' \in BOOLEAN,
         births' \in 0 .. MaxBirths, HandlesTold(f),
         AllOwned(f, data), AllOwned(tab, data), AllOwned(d, data), Alike(tab, f), Alike(d, f),
         ~failed' => tab = f /\ d = f,
         \A t \in due' : \E s \in FileSlots : Holds(f, t, s) /\ Holds(tab, t, s) /\ Holds(d, t, s)
  PROVE  HbfsInv'
<1>1. HbfsTypes'
  BY DEF HbfsInv, HbfsTypes
<1>2. HandlesTold(files)'
  BY DEF HandlesTold
<1>3. DueTold'
  BY DEF DueTold, Holds
<1>4. DiskTold'
  BY DEF DiskTold, AllOwned, Owned, Alike
<1> QED BY <1>1, <1>2, <1>3, <1>4 DEF HbfsInv

LEMMA SymlinkKeeps ==
  ASSUME HbfsInv, NEW name \in Paths, fs_create_symlink(name)
  PROVE  HbfsInv'
<1> DEFINE s == FirstFreeSlot
           tag == births + 1
           e1 == NewFile(name, 0)
           e2 == [e1 EXCEPT !.size = 1]
           e3 == [e2 EXCEPT !.type = 2]
           V(e) == [hbfs_table EXCEPT ![s] = e]
           versions == <<V(e1), V(e2), V(e3)>>
           after == [files EXCEPT ![s] = e3]
           data == [blocks EXCEPT ![s][1] = tag]
           gone == [files |-> files, hbfs_table |-> hbfs_table, again |-> TRUE, data |-> data]
           errs == <<[files |-> files, hbfs_table |-> V(e1), again |-> FALSE, data |-> blocks],
                     gone, gone>>
<1>1. s \in FileSlots /\ ~files[s].used
  BY FreeFound DEF fs_create_symlink
<1>2. births \in 0 .. MaxBirths /\ births < MaxBirths /\ births' = births + 1 /\ MaxBirths \in Nat
  BY TypesAre, SlotsAre DEF fs_create_symlink
<1>3. e1 \in EntryType /\ e1.used = TRUE /\ e1.type = 0 /\ e1.size = 0 /\ e1.tag = tag
      /\ tag \in 1 .. MaxBirths
  <2>1. 0 \in 0 .. 2
    OBVIOUS
  <2> HIDE DEF s
  <2>2. NewFile(name, 0) \in EntryType
        /\ NewFile(name, 0).type = 0 /\ NewFile(name, 0).size = 0
        /\ NewFile(name, 0).tag = births + 1 /\ NewFile(name, 0).tag \in 1 .. MaxBirths
    BY <1>2, <2>1, NewFileIs
  <2>3. NewFile(name, 0).used = TRUE
    BY DEF NewFile
  <2> QED BY <2>2, <2>3
<1>4. files \in Tables /\ hbfs_table \in Tables /\ blocks \in Rows /\ disk \in Tables
  BY TypesAre
<1> HIDE DEF e1, s, tag
<1>5. e2 \in EntryType /\ e2.used = TRUE /\ e2.type = 0 /\ e2.size = 1 /\ e2.tag = tag
  BY <1>3, SlotsAre DEF EntryType
<1> HIDE DEF e2
<1>6. e3 \in EntryType /\ e3.used = TRUE /\ e3.type = 2 /\ e3.size = 1 /\ e3.tag = tag
  BY <1>5 DEF EntryType
<1>7. ASSUME NEW e \in EntryType
      PROVE  /\ V(e) \in Tables /\ V(e)[s] = e
             /\ \A r \in FileSlots \ {s} : V(e)[r] = hbfs_table[r]
  BY <1>1, <1>4 DEF Tables
<1>8. after \in Tables /\ after[s] = e3 /\ \A r \in FileSlots \ {s} : after[r] = files[r]
  BY <1>1, <1>4, <1>6 DEF Tables
<1>9. data \in Rows /\ data[s][1] = tag /\ \A r \in FileSlots \ {s} : data[r] = blocks[r]
  BY <1>1, <1>3, <1>4, SlotsAre DEF Rows
<1>10. /\ \/ /\ files' = after
             /\ IF backend = "hbfs"
                THEN hbfs_table' = Last(versions) /\ disk' = hbfs_sync_table(versions)
                     /\ blocks' = data
                ELSE UNCHANGED <<hbfs_table, disk, blocks>>
             /\ due' = due \cup {births + 1}
             /\ UNCHANGED <<backend, formatted, opened, failed>>
          \/ /\ backend = "hbfs"
             /\ \E i \in DOMAIN versions, k \in {0} \cup Sectors :
                  Mounts(Written(versions, i, k), IF i = 1 THEN blocks ELSE data)
             /\ UNCHANGED <<formatted, due, failed>>
          \/ /\ backend = "hbfs" /\ UNCHANGED due /\ FailWhile(versions, errs)
  <2> DEFINE empty == [files EXCEPT ![s] = e1]
             sized == [empty EXCEPT ![s].size = 1]
             last == [sized EXCEPT ![s].type = 2]
             stages == <<empty, sized, last>>
             vs == [i \in 1 .. 3 |-> Updated(hbfs_table, stages[i], s)]
  <2>1. sized = [files EXCEPT ![s] = e2]
    BY <1>1, <1>4 DEF e2, Tables
  <2>2. last = after
    BY <1>1, <1>4, <2>1 DEF Tables
  <2>3. empty[s] = e1 /\ sized[s] = e2 /\ last[s] = e3
    BY <1>1, <1>4, <1>8, <2>1, <2>2 DEF Tables
  <2> HIDE DEF e3, empty, sized, last
  <2>4. vs[1] = V(e1) /\ vs[2] = V(e2) /\ vs[3] = V(e3)
    <3>1. stages[1] = empty /\ stages[2] = sized /\ stages[3] = last
      OBVIOUS
    <3> HIDE DEF stages
    <3>2. /\ vs[1] = Updated(hbfs_table, empty, s) /\ vs[2] = Updated(hbfs_table, sized, s)
          /\ vs[3] = Updated(hbfs_table, last, s)
      BY <3>1
    <3> HIDE DEF vs
    <3> QED BY <2>3, <3>2 DEF Updated
  <2>5. vs = versions
    <3>1. vs = [i \in 1 .. 3 |-> vs[i]]
      OBVIOUS
    <3> HIDE DEF vs, V
    <3>2. \A i \in 1 .. 3 : vs[i] = versions[i]
      BY <2>4
    <3>3. versions = [i \in 1 .. 3 |-> versions[i]]
      OBVIOUS
    <3> QED BY <3>1, <3>2, <3>3
  <2> QED BY <2>2, <2>4, <2>5 DEF fs_create_symlink, e1, s, tag, empty, sized, last
<1> HIDE DEF e3, V, after, data, versions, gone, errs
<1>11. births' \in 0 .. MaxBirths
  BY <1>2
<1>12. /\ versions \in Seq(Tables) /\ versions # <<>> /\ DOMAIN versions = 1 .. 3
       /\ versions[1] = V(e1) /\ versions[2] = V(e2) /\ versions[3] = V(e3)
       /\ Last(versions) = V(e3)
  BY <1>3, <1>5, <1>6, <1>7 DEF versions, Last
<1>13. ASSUME backend = "hbfs"
       PROVE  /\ AllOwned(files, data) /\ AllOwned(after, data)
              /\ AllOwned(V(e1), blocks) /\ AllOwned(V(e1), data) /\ AllOwned(V(e2), data)
              /\ AllOwned(V(e3), data)
              /\ \A i \in 1 .. 3 : Alike(versions[i], files)
              /\ Alike(V(e3), after) /\ Alike(hbfs_table, files) /\ Alike(disk, files)
  <2>1. AllOwned(files, blocks) /\ AllOwned(hbfs_table, blocks) /\ Alike(hbfs_table, files)
        /\ Alike(disk, files)
    BY <1>13 DEF HbfsInv, DiskTold
  <2>2. Owned(e1, blocks[s]) /\ Owned(e1, data[s])
    BY <1>3 DEF Owned
  <2>3. Owned(e2, data[s]) /\ Owned(e3, data[s])
    <3>1. \A b \in 1 .. 1 : b = 1
      OBVIOUS
    <3> QED BY <1>5, <1>6, <1>9, <3>1 DEF Owned
  <2>4. AllOwned(files, data)
    BY <1>1, <1>9, <2>1 DEF AllOwned, Owned
  <2>5. AllOwned(after, data)
    BY <1>1, <1>8, <1>9, <2>1, <2>3 DEF AllOwned
  <2>6. AllOwned(V(e1), blocks)
    BY <1>1, <1>3, <1>7, <2>1, <2>2 DEF AllOwned
  <2>7. ASSUME NEW e \in {e1, e2, e3}
        PROVE  AllOwned(V(e), data) /\ Alike(V(e), files)
    <3>1. e \in EntryType /\ Owned(e, data[s])
      BY <1>3, <1>5, <1>6, <2>2, <2>3
    <3>2. V(e)[s] = e /\ \A r \in FileSlots \ {s} : V(e)[r] = hbfs_table[r]
      BY <1>7, <3>1
    <3>3. AllOwned(V(e), data)
      BY <1>1, <1>9, <2>1, <3>1, <3>2 DEF AllOwned
    <3>4. Alike(V(e), files)
      BY <1>1, <2>1, <3>2 DEF Alike
    <3> QED BY <3>3, <3>4
  <2>8. Alike(V(e3), after)
    BY <1>1, <1>6, <1>7, <1>8, <2>1 DEF Alike
  <2>9. \A i \in 1 .. 3 : Alike(versions[i], files)
    BY <1>12, <2>7
  <2> QED BY <2>1, <2>4, <2>5, <2>6, <2>7, <2>8, <2>9
<1>14. ASSUME NEW t \in due
       PROVE  \E r \in FileSlots :
                /\ Holds(files, t, r) /\ Holds(after, t, r)
                /\ backend = "hbfs" => /\ Holds(hbfs_table, t, r) /\ Holds(disk, t, r)
                                       /\ \A i \in 1 .. 3 : Holds(versions[i], t, r)
  <2>1. PICK r \in FileSlots :
          /\ Holds(files, t, r)
          /\ backend = "hbfs" => Holds(hbfs_table, t, r) /\ Holds(disk, t, r)
    BY DEF HbfsInv, DueTold
  <2>2. r \in FileSlots \ {s}
    BY <1>1, <2>1 DEF Holds
  <2>3. after[r] = files[r]
    BY <1>8, <2>2
  <2>4. \A i \in 1 .. 3 : versions[i][r] = hbfs_table[r]
    BY <1>3, <1>5, <1>6, <1>7, <1>12, <2>2
  <2> QED BY <2>1, <2>3, <2>4 DEF Holds
<1>15. HandlesTold(after) /\ HandlesTold(files)
  <2>1. HandlesTold(files)
    BY DEF HbfsInv
  <2>2. \A p \in Openers : opened[p] # NoHandle => after[opened[p].slot] = files[opened[p].slot]
    BY <1>1, <1>8, <2>1 DEF HandlesTold
  <2> QED BY <2>1, <2>2 DEF HandlesTold
<1>16. CASE /\ files' = after
            /\ IF backend = "hbfs"
               THEN hbfs_table' = Last(versions) /\ disk' = hbfs_sync_table(versions)
                    /\ blocks' = data
               ELSE UNCHANGED <<hbfs_table, disk, blocks>>
            /\ due' = due \cup {births + 1}
            /\ UNCHANGED <<backend, formatted, opened, failed>>
  <2>1. ASSUME NEW t \in due'
        PROVE  \E r \in FileSlots : Holds(after, t, r) /\ (backend = "hbfs" => Holds(V(e3), t, r))
    <3>1. CASE t = births + 1
      BY <1>1, <1>6, <1>7, <1>8, <3>1 DEF Holds, tag
    <3>2. CASE t \in due
      BY <1>12, <1>14, <3>2
    <3> QED BY <1>16, <2>1, <3>1, <3>2
  <2>2. CASE backend = "hbfs"
    <3>1. hbfs_sync_table(versions) = V(e3)
      BY <1>12, SyncIs
    <3>2. files' = after /\ hbfs_table' = V(e3) /\ disk' = V(e3) /\ blocks' = data
          /\ backend' = backend /\ formatted' = formatted /\ opened' = opened
          /\ failed' = failed
      BY <1>12, <1>16, <2>2, <3>1
    <3>3. AllOwned(after, data) /\ AllOwned(V(e3), data) /\ Alike(V(e3), after)
      BY <1>13, <2>2
    <3>4. failed \in BOOLEAN /\ (~failed => V(e3) = after)
      BY <2>2 DEF HbfsInv, HbfsTypes, DiskTold, V, after
    <3>5. V(e3) \in Tables /\ (~failed' => V(e3) = after /\ V(e3) = after) /\ failed' \in BOOLEAN
      BY <1>6, <1>7, <3>2, <3>4
    <3>6. \A t \in due' : \E r \in FileSlots :
            Holds(after, t, r) /\ Holds(V(e3), t, r) /\ Holds(V(e3), t, r)
      BY <2>1, <2>2
    <3> QED BY <1>8, <1>9, <1>11, <1>15, <2>2, <3>2, <3>3, <3>5, <3>6, StepKeeps
  <2>3. CASE backend # "hbfs"
    <3>1. Completes(after, versions) /\ opened' = opened
      BY <1>16, <2>3 DEF Completes
    <3>2. backend = "hbfs" =>
            /\ AllOwned(after, blocks) /\ AllOwned(Last(versions), blocks)
            /\ Alike(Last(versions), after)
            /\ ~failed => Last(versions) = after
      BY <2>3
    <3>3. \A t \in due' : \E r \in FileSlots :
            Holds(after, t, r) /\ (backend = "hbfs" => Holds(Last(versions), t, r))
      BY <2>1, <2>3
    <3> QED BY <1>8, <1>11, <1>12, <1>15, <3>1, <3>2, <3>3, CompleteKeeps
  <2> QED BY <2>2, <2>3
<1>17. CASE /\ backend = "hbfs"
            /\ \E i \in DOMAIN versions, k \in {0} \cup Sectors :
                 Mounts(Written(versions, i, k), IF i = 1 THEN blocks ELSE data)
            /\ UNCHANGED <<formatted, due, failed>>
  <2>1. PICK i \in DOMAIN versions, k \in {0} \cup Sectors :
          Mounts(Written(versions, i, k), IF i = 1 THEN blocks ELSE data)
    BY <1>17
  <2> DEFINE held == Written(versions, i, k)
             d == IF i = 1 THEN blocks ELSE data
             before == Before(versions, i)
  <2>2. held \in Tables /\ \A r \in FileSlots : held[r] \in {versions[i][r], before[r]}
    BY <1>4, <1>12, WrittenIs
  <2>3. i \in 1 .. 3 /\ before = (IF i = 1 THEN disk ELSE versions[i - 1])
    BY <1>12 DEF Before
  <2>4. Mounts(held, d) /\ d \in Rows
    BY <1>4, <1>9, <2>1
  <2> HIDE DEF held, before
  <2>5. AllOwned(versions[i], d) /\ AllOwned(before, d)
    <3>1. AllOwned(disk, blocks)
      BY <1>17 DEF HbfsInv, DiskTold
    <3>2. CASE i = 1
      BY <1>12, <1>13, <1>17, <2>3, <3>1, <3>2
    <3>3. CASE i = 2
      BY <1>12, <1>13, <1>17, <2>3, <3>3
    <3>4. CASE i = 3
      BY <1>12, <1>13, <1>17, <2>3, <3>4
    <3> QED BY <2>3, <3>2, <3>3, <3>4
  <2>6. AllOwned(held, d)
    BY <2>2, <2>5 DEF AllOwned
  <2>7. ASSUME NEW t \in due'
        PROVE  \E r \in FileSlots : Holds(held, t, r)
    <3>1. PICK r \in FileSlots : Holds(disk, t, r) /\ \A j \in 1 .. 3 : Holds(versions[j], t, r)
      BY <1>14, <1>17, <2>7
    <3>2. Holds(before, t, r) /\ Holds(versions[i], t, r)
      BY <2>3, <3>1
    <3> QED BY <2>2, <3>1, <3>2 DEF Holds
  <2>8. formatted' = TRUE /\ failed' \in BOOLEAN
    BY <1>17 DEF HbfsInv, HbfsTypes
  <2> HIDE DEF d
  <2> QED BY <1>11, <2>2, <2>4, <2>6, <2>7, <2>8, MountKeeps
<1>18. CASE backend = "hbfs" /\ UNCHANGED due /\ FailWhile(versions, errs)
  <2>1. ~failed /\ hbfs_table = files
    BY <1>18 DEF FailWhile, HbfsInv, DiskTold
  <2>2. DOMAIN errs = 1 .. 3
    BY DEF errs
  <2>3. AllOwned(disk, blocks)
    BY <1>18 DEF HbfsInv, DiskTold
  <2>4. ASSUME NEW i \in DOMAIN errs
        PROVE  /\ ErrTold(errs[i], versions[i], Before(versions, i))
               /\ \A t \in due' : ErrKeeps(errs[i], versions[i], Before(versions, i), t)
    <3> DEFINE tab == IF i = 1 THEN V(e1) ELSE hbfs_table
               d == IF i = 1 THEN blocks ELSE data
               before == IF i = 1 THEN disk ELSE versions[i - 1]
    <3>1. errs[i].files = files /\ errs[i].hbfs_table = tab /\ errs[i].data = d
      BY <2>2, <2>4 DEF errs, gone
    <3>2. i \in 1 .. 3 /\ Before(versions, i) = before
      BY <2>2, <2>4 DEF Before
    <3>3. tab \in Tables /\ d \in Rows /\ files \in Tables
      BY <1>3, <1>4, <1>7, <1>9
    <3>4. AllOwned(files, d) /\ AllOwned(tab, d)
      BY <1>13, <1>18, <2>1 DEF HbfsInv, DiskTold
    <3>5. AllOwned(versions[i], d) /\ AllOwned(before, d)
      <4>1. CASE i = 1
        BY <1>12, <1>13, <1>18, <2>3, <4>1
      <4>2. CASE i = 2
        BY <1>12, <1>13, <1>18, <4>2
      <4>3. CASE i = 3
        BY <1>12, <1>13, <1>18, <4>3
      <4> QED BY <3>2, <4>1, <4>2, <4>3
    <3>6. Alike(tab, files) /\ Alike(versions[i], files) /\ Alike(before, files)
      <4>1. \A j \in 1 .. 3 : Alike(versions[j], files)
        BY <1>13, <1>18
      <4>2. Alike(hbfs_table, files) /\ Alike(disk, files)
        BY <1>13, <1>18
      <4>3. Alike(V(e1), files)
        BY <1>12, <4>1
      <4>4. i # 1 => i - 1 \in 1 .. 3
        BY <3>2
      <4> QED BY <3>2, <4>1, <4>2, <4>3, <4>4
    <3>7. ASSUME NEW t \in due'
          PROVE  \E r \in FileSlots :
                   Holds(files, t, r) /\ Holds(tab, t, r) /\ Holds(versions[i], t, r) /\ Holds(before, t, r)
      <4>1. PICK r \in FileSlots :
              /\ Holds(files, t, r) /\ Holds(hbfs_table, t, r) /\ Holds(disk, t, r)
              /\ \A j \in 1 .. 3 : Holds(versions[j], t, r)
        BY <1>14, <1>18, <3>7
      <4>2. Holds(V(e1), t, r)
        BY <1>12, <4>1
      <4>3. i # 1 => i - 1 \in 1 .. 3
        BY <3>2
      <4> QED BY <3>2, <4>1, <4>2, <4>3
    <3> HIDE DEF tab, d, before
    <3>8. ErrTold(errs[i], versions[i], before)
      BY <1>15, <3>1, <3>3, <3>4, <3>5, <3>6 DEF ErrTold
    <3>9. \A t \in due' : ErrKeeps(errs[i], versions[i], before, t)
      BY <3>1, <3>7 DEF ErrKeeps
    <3> QED BY <3>2, <3>8, <3>9
  <2>5. DOMAIN errs \subseteq DOMAIN versions
    BY <1>12, <2>2
  <2> QED BY <1>11, <1>12, <1>18, <2>4, <2>5, FailKeeps
<1> QED BY <1>10, <1>16, <1>17, <1>18

\* A write of a row's sectors, and the entries that stay true of it.
Rewritten(row, tag, offset, n) ==
  [b \in 1 .. MaxBlocks |-> IF b \in offset + 1 .. offset + n THEN tag ELSE row[b]]

LEMMA RewrittenOwned ==
  ASSUME NEW e \in EntryType, NEW row, Owned(e, row), NEW tag, e.used => e.tag = tag,
         NEW offset, NEW n
  PROVE  Owned(e, Rewritten(row, tag, offset, n))
<1>1. e.size \in 0 .. MaxBlocks
  BY DEF EntryType
<1>2. \A b \in 1 .. e.size : b \in 1 .. MaxBlocks
  BY <1>1, SlotsAre
<1> QED BY <1>2 DEF Owned, Rewritten

LEMMA WriteKeeps ==
  ASSUME HbfsInv, NEW p \in Openers, NEW offset \in 0 .. MaxBlocks - 1, NEW count \in 1 .. MaxBlocks,
         Write(p, offset, count)
  PROVE  HbfsInv'
<1> DEFINE s == opened[p].slot
           tag == files[s].tag
           end == offset + count
           e == [files[s] EXCEPT !.size = end]
           grown == [files EXCEPT ![s] = e]
           tab == [hbfs_table EXCEPT ![s] = e]
           versions == <<tab>>
           Data(n) == [blocks EXCEPT ![s] = Rewritten(blocks[s], tag, offset, n)]
           grows == end > files[s].size
<1>1. /\ s \in FileSlots /\ files[s].used /\ files[s].type = 0 /\ offset <= files[s].size
      /\ end <= MaxBlocks /\ births' = births /\ due' = due
  BY OpenedIs DEF Write
<1>2. /\ files \in Tables /\ hbfs_table \in Tables /\ disk \in Tables /\ blocks \in Rows
      /\ births' \in 0 .. MaxBirths /\ failed \in BOOLEAN /\ formatted \in BOOLEAN
  BY <1>1 DEF HbfsInv, HbfsTypes
<1>3. files[s] \in EntryType /\ files[s].size \in 0 .. MaxBlocks /\ tag \in 0 .. MaxBirths
  BY <1>1, <1>2 DEF Tables, EntryType
<1>4. end \in 0 .. MaxBlocks /\ MaxBlocks \in Nat
  BY <1>1, SlotsAre
<1>5. IF backend = "hbfs" THEN hbfs_write_data(s, offset, count)
      ELSE /\ files' = [files EXCEPT ![s].size = IF @ < end THEN end ELSE @]
           /\ UNCHANGED <<backend, hbfs_table, disk, blocks, formatted, opened, failed>>
  BY DEF Write
<1>6. [files EXCEPT ![s].size = end] = grown
  OBVIOUS
<1>7. \A n : [blocks EXCEPT ![s] = [b \in 1 .. MaxBlocks |->
                                     IF b \in offset + 1 .. offset + n THEN tag ELSE @[b]]] = Data(n)
  BY DEF Rewritten
<1> HIDE DEF s
<1>8. e \in EntryType /\ e.used = files[s].used /\ e.type = 0 /\ e.tag = tag /\ e.size = end
  BY <1>1, <1>3, <1>4 DEF EntryType
<1>9. /\ grown \in Tables /\ grown[s] = e /\ \A r \in FileSlots \ {s} : grown[r] = files[r]
      /\ tab \in Tables /\ tab[s] = e /\ \A r \in FileSlots \ {s} : tab[r] = hbfs_table[r]
  BY <1>1, <1>2, <1>8 DEF Tables
<1>10. Updated(hbfs_table, grown, s) = tab
  BY <1>9 DEF Updated
<1>11. ASSUME NEW n
       PROVE  /\ Data(n) \in Rows /\ Data(n)[s] = Rewritten(blocks[s], tag, offset, n)
              /\ \A r \in FileSlots \ {s} : Data(n)[r] = blocks[r]
  <2>1. Rewritten(blocks[s], tag, offset, n) \in [1 .. MaxBlocks -> 0 .. MaxBirths]
    <3>1. blocks[s] \in [1 .. MaxBlocks -> 0 .. MaxBirths]
      BY <1>1, <1>2 DEF Rows
    <3> DEFINE row == blocks[s]
    <3> HIDE DEF row, tag
    <3>2. \A b \in 1 .. MaxBlocks :
            (IF b \in offset + 1 .. offset + n THEN tag ELSE row[b]) \in 0 .. MaxBirths
      BY <1>3, <3>1 DEF row
    <3> QED BY <3>2 DEF Rewritten, row
  <2> QED BY <1>1, <1>2, <2>1 DEF Rows
<1> HIDE DEF e, grown, tab, Data
<1>12. versions \in Seq(Tables) /\ versions # <<>> /\ DOMAIN versions = {1} /\ versions[1] = tab
       /\ Last(versions) = tab
  BY <1>9 DEF Last
<1>13. HandlesTold(files) /\ HandlesTold(grown)
  <2>1. HandlesTold(files)
    BY DEF HbfsInv
  <2>2. \A r \in FileSlots : files[r].used /\ files[r].type = 0 =>
          grown[r].used /\ grown[r].type = 0 /\ grown[r].tag = files[r].tag
    BY <1>8, <1>9
  <2> QED BY <2>1, <2>2 DEF HandlesTold
<1>14. ASSUME NEW t \in due'
       PROVE  \E r \in FileSlots :
                /\ Holds(files, t, r) /\ Holds(grown, t, r)
                /\ backend = "hbfs" => Holds(hbfs_table, t, r) /\ Holds(disk, t, r) /\ Holds(tab, t, r)
  <2>1. PICK r \in FileSlots :
          /\ Holds(files, t, r)
          /\ backend = "hbfs" => Holds(hbfs_table, t, r) /\ Holds(disk, t, r)
    BY <1>1 DEF HbfsInv, DueTold
  <2>2. Holds(grown, t, r)
    BY <1>8, <1>9, <2>1 DEF Holds
  <2>3. backend = "hbfs" => Holds(tab, t, r)
    BY <1>8, <1>9, <2>1 DEF Holds
  <2> QED BY <2>1, <2>2, <2>3
<1>15. CASE backend # "hbfs"
  <2> DEFINE size == IF files[s].size < end THEN end ELSE files[s].size
             f == [files[s] EXCEPT !.size = size]
             after == [files EXCEPT ![s] = f]
  <2>1. files' = after /\ UNCHANGED <<backend, hbfs_table, disk, blocks, formatted, opened, failed>>
    BY <1>5, <1>15
  <2>2. size \in 0 .. MaxBlocks
    BY <1>3, <1>4
  <2> HIDE DEF size
  <2>3. f \in EntryType /\ f.used = files[s].used /\ f.type = files[s].type /\ f.tag = files[s].tag
    BY <1>3, <2>2 DEF EntryType
  <2> HIDE DEF f
  <2>4. after \in Tables /\ \A r \in FileSlots : after[r] = IF r = s THEN f ELSE files[r]
    BY <1>1, <1>2, <2>3 DEF Tables
  <2> HIDE DEF after
  <2>5. HandlesTold(after)
    BY <1>13, <2>3, <2>4 DEF HandlesTold
  <2>6. \A t \in due' : \E r \in FileSlots :
          /\ Holds(after, t, r)
          /\ backend = "hbfs" => Holds(Last(versions), t, r)
    BY <1>14, <1>15, <2>3, <2>4 DEF Holds
  <2>7. Completes(after, versions) /\ opened' = opened
    BY <1>15, <2>1 DEF Completes
  <2>8. backend = "hbfs" =>
          /\ AllOwned(after, blocks) /\ AllOwned(Last(versions), blocks)
          /\ Alike(Last(versions), after)
          /\ ~failed => Last(versions) = after
    BY <1>15
  <2> HIDE DEF versions
  <2> QED BY <1>2, <1>12, <2>4, <2>5, <2>6, <2>7, <2>8, CompleteKeeps
<1>16. CASE backend = "hbfs"
  <2> HIDE DEF versions, tag, end, grows
  <2>1. /\ AllOwned(files, blocks) /\ AllOwned(hbfs_table, blocks) /\ AllOwned(disk, blocks)
        /\ Alike(hbfs_table, files) /\ Alike(disk, files)
        /\ ~failed => hbfs_table = files /\ disk = files
    BY <1>16 DEF HbfsInv, DiskTold
  <2>2. ASSUME NEW n, NEW list \in {files, hbfs_table, disk}
        PROVE  AllOwned(list, Data(n))
    <3>1. list \in Tables /\ AllOwned(list, blocks) /\ (list[s].used => list[s].tag = tag)
      BY <1>1, <1>2, <2>1 DEF Alike, tag
    <3>2. list[s] \in EntryType /\ Owned(list[s], blocks[s])
      BY <1>1, <3>1 DEF Tables, AllOwned
    <3>3. Owned(list[s], Rewritten(blocks[s], tag, offset, n))
      BY <3>1, <3>2, RewrittenOwned
    <3> QED BY <1>1, <1>11, <3>1, <3>3 DEF AllOwned
  <2>3. Owned(e, Data(count)[s])
    <3>1. Owned(files[s], blocks[s])
      BY <1>1, <2>1 DEF AllOwned
    <3>2. ASSUME NEW b \in 1 .. end, tag # 0
          PROVE  Rewritten(blocks[s], tag, offset, count)[b] = tag
      <4>1. b \in 1 .. MaxBlocks
        BY <1>4
      <4>2. b \in 1 .. files[s].size \/ b \in offset + 1 .. offset + count
        BY <1>1, <1>3, <4>1 DEF end
      <4>3. b \in 1 .. files[s].size => blocks[s][b] = tag
        BY <1>1, <3>1, <3>2 DEF Owned, tag
      <4> QED BY <4>1, <4>2, <4>3 DEF Rewritten
    <3> QED BY <1>8, <1>11, <3>2 DEF Owned
  <2>4. AllOwned(grown, Data(count)) /\ AllOwned(tab, Data(count))
    <3>1. AllOwned(files, Data(count)) /\ AllOwned(hbfs_table, Data(count))
      BY <2>2
    <3> QED BY <1>9, <2>3, <3>1 DEF AllOwned
  <2>5. Alike(tab, grown) /\ Alike(disk, grown)
    BY <1>1, <1>8, <1>9, <2>1 DEF Alike, tag
  <2>6. ~failed => tab = grown
    BY <2>1 DEF tab, grown
  <2>7. \/ /\ blocks' = Data(count)
           /\ IF grows THEN files' = grown /\ hbfs_table' = tab /\ disk' = hbfs_sync_table(versions)
                       ELSE UNCHANGED <<files, hbfs_table, disk>>
           /\ UNCHANGED <<backend, formatted, opened, failed>>
        \/ /\ UNCHANGED <<formatted, failed>>
           /\ \/ \E n \in 0 .. count : Mounts(disk, Data(n))
              \/ \E k \in Sectors : Mounts(Written(versions, 1, k), Data(count))
        \/ /\ failed' = TRUE
           /\ UNCHANGED <<backend, formatted, opened>>
           /\ \/ \E n \in 0 .. count - 1 : blocks' = Data(n) /\ UNCHANGED <<files, hbfs_table, disk>>
              \/ /\ blocks' = Data(count) /\ files' = grown /\ hbfs_table' = tab
                 /\ \E k \in {0} \cup Sectors : disk' = Written(versions, 1, k)
    <3>1. hbfs_write_data(s, offset, count)
      BY <1>5, <1>16
    <3>2. <<Updated(hbfs_table, grown, s)>> = versions
      BY <1>10 DEF versions
    <3> USE DEF tag, end, grows
    <3> QED BY <1>6, <1>7, <1>12, <3>1, <3>2 DEF hbfs_write_data
  <2>8. ASSUME NEW k
        PROVE  /\ Written(versions, 1, k) \in Tables
               /\ \A r \in FileSlots : Written(versions, 1, k)[r] \in {tab[r], disk[r]}
    <3>1. 1 \in DOMAIN versions
      BY <1>12
    <3>2. /\ Written(versions, 1, k) \in Tables
          /\ \A r \in FileSlots :
               Written(versions, 1, k)[r] \in {versions[1][r], Before(versions, 1)[r]}
      BY <1>2, <1>12, <3>1, WrittenIs
    <3> QED BY <1>12, <3>2 DEF Before
  <2>9. ASSUME NEW held, \A r \in FileSlots : held[r] \in {tab[r], disk[r]}
        PROVE  /\ AllOwned(held, Data(count)) /\ Alike(held, grown)
               /\ \A t, r : r \in FileSlots /\ Holds(tab, t, r) /\ Holds(disk, t, r) => Holds(held, t, r)
    <3>1. AllOwned(tab, Data(count)) /\ AllOwned(disk, Data(count))
      BY <2>2, <2>4
    <3>2. AllOwned(held, Data(count))
      BY <2>9, <3>1 DEF AllOwned
    <3>3. Alike(held, grown)
      BY <2>5, <2>9 DEF Alike
    <3> QED BY <2>9, <3>2, <3>3 DEF Holds
  <2>10. formatted = TRUE
    BY <1>2, <1>16 DEF HbfsInv
  <2>11. ASSUME NEW n, blocks' = Data(n), UNCHANGED <<files, hbfs_table, disk>>,
                UNCHANGED <<backend, formatted, opened>>, failed' \in BOOLEAN,
                ~failed' => ~failed
         PROVE  HbfsInv'
    <3>1. \A t \in due' : \E r \in FileSlots :
            Holds(files, t, r) /\ Holds(hbfs_table, t, r) /\ Holds(disk, t, r)
      BY <1>14, <1>16
    <3>2. AllOwned(files, Data(n)) /\ AllOwned(hbfs_table, Data(n)) /\ AllOwned(disk, Data(n))
      BY <2>2
    <3>3. ~failed' => hbfs_table = files /\ disk = files
      BY <2>1, <2>11
    <3>4. Data(n) \in Rows
      BY <1>11
    <3>5. files' = files /\ hbfs_table' = hbfs_table /\ disk' = disk /\ backend' = backend
          /\ formatted' = formatted /\ opened' = opened
      BY <2>11
    <3> QED BY <1>2, <1>13, <1>16, <2>1, <2>11, <3>1, <3>2, <3>3, <3>4, <3>5, StepKeeps
  <2>12. ASSUME NEW d \in Tables, \A r \in FileSlots : d[r] \in {tab[r], disk[r]},
                blocks' = Data(count), files' = grown, hbfs_table' = tab, disk' = d,
                UNCHANGED <<backend, formatted, opened>>, failed' \in BOOLEAN,
                ~failed' => ~failed /\ d = tab
         PROVE  HbfsInv'
    <3>1. /\ AllOwned(d, Data(count)) /\ Alike(d, grown)
          /\ \A t, r : r \in FileSlots /\ Holds(tab, t, r) /\ Holds(disk, t, r) => Holds(d, t, r)
      BY <2>9, <2>12
    <3>2. \A t \in due' : \E r \in FileSlots :
            Holds(grown, t, r) /\ Holds(tab, t, r) /\ Holds(d, t, r)
      BY <1>14, <1>16, <3>1
    <3>3. ~failed' => tab = grown /\ d = grown
      BY <2>6, <2>12
    <3>4. Data(count) \in Rows
      BY <1>11
    <3>5. backend' = backend /\ formatted' = formatted /\ opened' = opened
      BY <2>12
    <3> QED BY <1>2, <1>9, <1>13, <1>16, <2>4, <2>5, <2>12, <3>1, <3>2, <3>3, <3>4, <3>5, StepKeeps
  <2>13. CASE /\ blocks' = Data(count)
              /\ IF grows THEN files' = grown /\ hbfs_table' = tab
                               /\ disk' = hbfs_sync_table(versions)
                          ELSE UNCHANGED <<files, hbfs_table, disk>>
              /\ UNCHANGED <<backend, formatted, opened, failed>>
    <3>1. failed' = failed /\ UNCHANGED <<backend, formatted, opened>>
      BY <2>13
    <3>2. CASE ~grows
      BY <1>2, <2>11, <2>13, <3>1, <3>2
    <3>3. CASE grows
      <4>1. disk' = tab
        BY <1>12, <2>13, <3>3, SyncIs
      <4> QED BY <1>2, <1>9, <2>12, <2>13, <3>1, <3>3, <4>1
    <3> QED BY <3>2, <3>3
  <2>14. CASE /\ UNCHANGED <<formatted, failed>>
              /\ \/ \E n \in 0 .. count : Mounts(disk, Data(n))
                 \/ \E k \in Sectors : Mounts(Written(versions, 1, k), Data(count))
    <3>1. formatted' = TRUE /\ failed' \in BOOLEAN
      BY <1>2, <2>10, <2>14
    <3>2. ASSUME NEW n, Mounts(disk, Data(n))
          PROVE  HbfsInv'
      <4>1. AllOwned(disk, Data(n)) /\ Data(n) \in Rows
        BY <1>11, <2>2
      <4>2. \A t \in due' : \E r \in FileSlots : Holds(disk, t, r)
        BY <1>14, <1>16
      <4> QED BY <1>2, <3>1, <3>2, <4>1, <4>2, MountKeeps
    <3>3. ASSUME NEW k, Mounts(Written(versions, 1, k), Data(count))
          PROVE  HbfsInv'
      <4> DEFINE held == Written(versions, 1, k)
      <4>1. held \in Tables /\ \A r \in FileSlots : held[r] \in {tab[r], disk[r]}
        BY <2>8
      <4>2. Mounts(held, Data(count)) /\ Data(count) \in Rows
        BY <1>11, <3>3
      <4> HIDE DEF held
      <4>3. /\ AllOwned(held, Data(count))
            /\ \A t, r : r \in FileSlots /\ Holds(tab, t, r) /\ Holds(disk, t, r) => Holds(held, t, r)
        BY <2>9, <4>1
      <4>4. \A t \in due' : \E r \in FileSlots : Holds(held, t, r)
        BY <1>14, <1>16, <4>3
      <4> QED BY <1>2, <3>1, <4>1, <4>2, <4>3, <4>4, MountKeeps
    <3> QED BY <2>14, <3>2, <3>3
  <2>15. CASE /\ failed' = TRUE
              /\ UNCHANGED <<backend, formatted, opened>>
              /\ \/ \E n \in 0 .. count - 1 : blocks' = Data(n) /\ UNCHANGED <<files, hbfs_table, disk>>
                 \/ /\ blocks' = Data(count) /\ files' = grown /\ hbfs_table' = tab
                    /\ \E k \in {0} \cup Sectors : disk' = Written(versions, 1, k)
    <3>1. failed' \in BOOLEAN /\ failed'
      BY <2>15
    <3>2. CASE \E n \in 0 .. count - 1 : blocks' = Data(n) /\ UNCHANGED <<files, hbfs_table, disk>>
      BY <2>11, <2>15, <3>1, <3>2
    <3>3. CASE /\ blocks' = Data(count) /\ files' = grown /\ hbfs_table' = tab
               /\ \E k \in {0} \cup Sectors : disk' = Written(versions, 1, k)
      <4>1. PICK k \in {0} \cup Sectors : disk' = Written(versions, 1, k)
        BY <3>3
      <4>2. disk' \in Tables /\ \A r \in FileSlots : disk'[r] \in {tab[r], disk[r]}
        BY <2>8, <4>1
      <4> QED BY <2>12, <2>15, <3>1, <3>3, <4>2
    <3> QED BY <2>15, <3>2, <3>3
  <2> QED BY <2>7, <2>13, <2>14, <2>15
<1> QED BY <1>15, <1>16
-----------------------------------------------------------------------------
(* Renaming                                                                *)

Moved(name, old, new) == new \o SubSeq(name, Len(old) + 1, Len(name))

LEMMA MovedIs ==
  ASSUME NEW S, NEW name \in Seq(S), NEW old \in Seq(S), NEW new \in Seq(S)
  PROVE  Moved(name, old, new) \in Seq(S)
<1>1. Len(old) \in Nat /\ Len(name) \in Nat
  BY LenProperties
<1>2. SubSeq(name, Len(old) + 1, Len(name)) \in Seq(S)
  <2>1. \A i \in Len(old) + 1 .. Len(name) : name[i] \in S
    BY <1>1
  <2> QED BY <1>1, <2>1, SubSeqProperties
<1> QED BY <1>2, ConcatProperties DEF Moved

\* An entry of the tree under its new name.
RenamesTo(x, e, old, new) ==
  /\ Kin(x, e)
  /\ e.name = IF x.used /\ InTree(x.name, old) THEN Moved(x.name, old, new) ELSE x.name

LEMMA RenamedIs ==
  ASSUME NEW list \in Tables, NEW old \in Seq(Word), NEW new \in Seq(Word), NEW r \in FileSlots
  PROVE  LET e == Renamed(list, old, new)[r] IN
         /\ e \in EntryType /\ Kin(list[r], e)
         /\ RenamesTo(list[r], e, old, new)
         /\ e = [list[r] EXCEPT !.name = e.name]
<1> DEFINE x == list[r]
           m == Moved(x.name, old, new)
           e == Renamed(list, old, new)[r]
<1>1. x \in EntryType
  BY DEF Tables
<1>2. x.name \in Seq(Word)
  BY <1>1 DEF EntryType, Word
<1>3. m \in Seq(Word)
  BY <1>2, MovedIs
<1>4. e = IF x.used /\ InTree(x.name, old) THEN [x EXCEPT !.name = m] ELSE x
  BY DEF Renamed, Moved
<1> HIDE DEF x, m, e
<1>5. [x EXCEPT !.name = m] \in EntryType /\ [x EXCEPT !.name = m].name = m
      /\ Kin(x, [x EXCEPT !.name = m]) /\ x = [x EXCEPT !.name = x.name]
  BY <1>1, <1>3 DEF EntryType, Word, Kin
<1>6. e \in EntryType /\ Kin(x, e) /\ e = [x EXCEPT !.name = e.name]
      /\ e.name = IF x.used /\ InTree(x.name, old) THEN m ELSE x.name
  BY <1>1, <1>4, <1>5, KinSelf
<1>7. RenamesTo(x, e, old, new)
  BY <1>6 DEF RenamesTo, m
<1> QED BY <1>6, <1>7 DEF x, e

LEMMA RenamedTable ==
  ASSUME NEW list \in Tables, NEW old \in Seq(Word), NEW new \in Seq(Word)
  PROVE  Renamed(list, old, new) \in Tables
<1>1. \A r \in FileSlots : Renamed(list, old, new)[r] \in EntryType
  BY RenamedIs
<1>2. Renamed(list, old, new) = [r \in FileSlots |-> Renamed(list, old, new)[r]]
  BY DEF Renamed
<1> QED BY <1>1, <1>2 DEF Tables

\* What a rename makes of the files and of the table, and what it syncs.
RenameBase(s, target) == IF target = s THEN files ELSE [files EXCEPT ![target] = Free]
RenameWithout(s, target) ==
  IF target = s THEN hbfs_table ELSE [hbfs_table EXCEPT ![target] = Free]
RenameAfter(s, base, old, new) ==
  IF files[s].type = 1 THEN Renamed(base, old, new) ELSE [base EXCEPT ![s].name = new]
RenameTab(s, base, without, after) ==
  IF files[s].type = 1
  THEN [r \in FileSlots |-> IF after[r].name = base[r].name THEN without[r]
                            ELSE [without[r] EXCEPT !.name = after[r].name]]
  ELSE Updated(without, after, s)
RenameVersions(s, target, without, tab) ==
  (IF target = s THEN <<>> ELSE <<without>>)
    \o (IF files[s].type = 1 THEN <<tab>> ELSE <<tab, tab>>)
RenameErrs(s, target, base, without, after, tab) ==
  LET err == IF files[s].type = 1
             THEN [files |-> base, hbfs_table |-> without, again |-> TRUE, data |-> blocks]
             ELSE [files |-> after, hbfs_table |-> tab, again |-> FALSE, data |-> blocks]
      removed == [files |-> base, hbfs_table |-> without, again |-> FALSE, data |-> blocks]
  IN  IF target = s THEN <<err>> ELSE <<removed, err>>

LEMMA Consed ==
  ASSUME NEW S, NEW a \in S, NEW b \in S
  PROVE  <<a>> \o <<b>> = <<a, b>> /\ <<a>> \o <<b, b>> = <<a, b, b>>
<1>1. ASSUME NEW t \in Seq(S), NEW d \in Seq(S), Len(d) = Len(t) + 1, d[1] = a,
             \A i \in 1 .. Len(t) : d[i + 1] = t[i]
      PROVE  <<a>> \o t = d
  <2> DEFINE c == <<a>> \o t
  <2>1. <<a>> \in Seq(S) /\ t \in Seq(S) /\ Len(<<a>>) = 1 /\ <<a>>[1] = a /\ Len(t) \in Nat
    OBVIOUS
  <2>2. c \in Seq(S) /\ Len(c) = 1 + Len(t)
        /\ \A i \in 1 .. 1 + Len(t) : c[i] = IF i <= 1 THEN <<a>>[i] ELSE t[i - 1]
    BY <2>1, ConcatProperties
  <2> HIDE DEF c
  <2>3. ASSUME NEW i \in 1 .. Len(c)
        PROVE  c[i] = d[i]
    <3>1. CASE i = 1
      BY <1>1, <2>1, <2>2, <3>1
    <3>2. CASE i # 1
      <4>1. i - 1 \in 1 .. Len(t) /\ (i - 1) + 1 = i /\ ~ i <= 1
        BY <2>1, <2>2, <3>2
      <4> QED BY <1>1, <2>2, <2>3, <4>1
    <3> QED BY <3>1, <3>2
  <2>4. Len(c) = Len(d)
    BY <1>1, <2>1, <2>2
  <2>5. c = d
    BY <1>1, <2>2, <2>3, <2>4, SeqEqual
  <2> QED BY <2>5 DEF c
<1>2. <<a>> \o <<b>> = <<a, b>>
  <2> DEFINE d == <<a, b>>
             t == <<b>>
  <2>1. d \in Seq(S) /\ Len(d) = Len(t) + 1 /\ d[1] = a /\ t \in Seq(S)
        /\ \A i \in 1 .. Len(t) : d[i + 1] = t[i]
    OBVIOUS
  <2> HIDE DEF d, t
  <2>2. <<a>> \o t = d
    BY <1>1, <2>1
  <2> QED BY <2>2 DEF d, t
<1>3. <<a>> \o <<b, b>> = <<a, b, b>>
  <2> DEFINE d == <<a, b, b>>
             t == <<b, b>>
  <2>1. d \in Seq(S) /\ Len(d) = Len(t) + 1 /\ d[1] = a /\ t \in Seq(S)
        /\ \A i \in 1 .. Len(t) : d[i + 1] = t[i]
    OBVIOUS
  <2> HIDE DEF d, t
  <2>2. <<a>> \o t = d
    BY <1>1, <2>1
  <2> QED BY <2>2 DEF d, t
<1> QED BY <1>2, <1>3

LEMMA RenameVersionsAre ==
  ASSUME NEW s, NEW target, NEW without \in Tables, NEW tab \in Tables
  PROVE  LET versions == RenameVersions(s, target, without, tab) IN
         /\ versions \in Seq(Tables) /\ versions # <<>> /\ Last(versions) = tab
         /\ 1 \in DOMAIN versions /\ (target # s => 2 \in DOMAIN versions)
         /\ \A i \in DOMAIN versions : versions[i] \in {without, tab}
         /\ versions[1] = IF target = s THEN tab ELSE without
         /\ \A i \in DOMAIN versions : i # 1 => versions[i] = tab
<1> DEFINE versions == RenameVersions(s, target, without, tab)
<1>1. CASE target = s /\ files[s].type = 1
  <2>1. versions = <<tab>>
    BY <1>1 DEF RenameVersions
  <2> QED BY <1>1, <2>1 DEF Last
<1>2. CASE target = s /\ files[s].type # 1
  <2>1. versions = <<tab, tab>>
    BY <1>2 DEF RenameVersions
  <2> QED BY <1>2, <2>1 DEF Last
<1>3. CASE target # s /\ files[s].type = 1
  <2>1. versions = <<without, tab>>
    BY <1>3, Consed DEF RenameVersions
  <2> QED BY <1>3, <2>1 DEF Last
<1>4. CASE target # s /\ files[s].type # 1
  <2>1. versions = <<without, tab, tab>>
    BY <1>4, Consed DEF RenameVersions
  <2> QED BY <1>4, <2>1 DEF Last
<1> QED BY <1>1, <1>2, <1>3, <1>4

\* A rename, its parts named.
LEMMA RenameIs ==
  ASSUME HbfsInv, NEW old \in Paths, NEW new \in Paths, posix_rename(old, new)
  PROVE  LET s == fs_find_file(old)
             target == IF Exists(new) THEN fs_find_file(new) ELSE s
             base == RenameBase(s, target)
             without == RenameWithout(s, target)
             after == RenameAfter(s, base, old, new)
             tab == RenameTab(s, base, without, after)
             versions == RenameVersions(s, target, without, tab)
         IN  /\ s \in FileSlots /\ files[s].used /\ files[s].name = old
             /\ target \in FileSlots /\ files[target].used /\ old # new
             /\ target # s => ~IsOpen(target) /\ Children(target) = {} /\ files[target].name = new
             /\ \A r \in FileSlots : base[r].used => base[r].name # new
             /\ files[s].type = 1 => ~Conflict(base, old, new) /\ ~InTree(new, old)
             /\ MovesUp \/ Children(s) = {} \/ ~InTree(old, new)
             /\ births' = births
             /\ due' = IF target = s THEN due ELSE due \ {files[target].tag}
             /\ \/ Completes(after, versions) /\ UNCHANGED opened
                \/ backend = "hbfs" /\ CutWhile("rename", versions)
                \/ /\ backend = "hbfs"
                   /\ FailWhile(versions, RenameErrs(s, target, base, without, after, tab))
<1>1. Exists(old)
  BY DEF posix_rename
<1>2. fs_find_file(old) \in FileSlots /\ files[fs_find_file(old)].used
      /\ files[fs_find_file(old)].name = old
  BY <1>1, Found
<1>3. Exists(new) => fs_find_file(new) \in FileSlots /\ files[fs_find_file(new)].used
                     /\ files[fs_find_file(new)].name = new
  BY Found
<1> QED BY <1>2, <1>3 DEF posix_rename, RenameBase, RenameWithout, RenameAfter, RenameTab,
                          RenameVersions, RenameErrs

LEMMA RenameTables ==
  ASSUME HbfsInv, NEW old \in Paths, NEW new \in Paths, NEW s \in FileSlots,
         NEW target \in FileSlots, files[s].used
  PROVE  LET T == IF target = s THEN {} ELSE {target}
             base == RenameBase(s, target)
             without == RenameWithout(s, target)
             after == RenameAfter(s, base, old, new)
             tab == RenameTab(s, base, without, after)
         IN  /\ base \in Tables /\ FromFiles(base, T) /\ without \in Tables /\ FromTables(without, T)
             /\ after \in Tables /\ FromFiles(after, T) /\ tab \in Tables /\ FromTables(tab, T)
             /\ backend = "hbfs" /\ ~failed => without = base /\ tab = after
<1> DEFINE T == IF target = s THEN {} ELSE {target}
           base == RenameBase(s, target)
           without == RenameWithout(s, target)
           after == RenameAfter(s, base, old, new)
           tab == RenameTab(s, base, without, after)
<1>1. old \in Seq(Word) /\ new \in Seq(Word)
  BY PathsAreWords
<1>2. files \in Tables /\ hbfs_table \in Tables
  BY TypesAre
<1>3. base \in Tables /\ without \in Tables /\ base[s] = files[s]
      /\ \A r \in FileSlots : IF r \in T THEN base[r] = Free /\ without[r] = Free
                              ELSE base[r] = files[r] /\ without[r] = hbfs_table[r]
  BY <1>2, FreeIs DEF RenameBase, RenameWithout, Tables
<1>4. FromFiles(base, T) /\ FromTables(without, T)
  BY <1>3, FreeIs, KinSelf DEF FromFiles, FromTables
<1>5. backend = "hbfs" /\ ~failed => without = base
  BY DEF RenameBase, RenameWithout, HbfsInv, DiskTold
<1> HIDE DEF base, without
<1>6. after \in Tables /\ (\A r \in FileSlots : Kin(base[r], after[r]))
      /\ \A r \in FileSlots : after[r] = [base[r] EXCEPT !.name = after[r].name]
  <2>1. CASE files[s].type = 1
    <3>1. after = Renamed(base, old, new)
      BY <2>1 DEF RenameAfter
    <3> HIDE DEF after
    <3>2. after \in Tables
      BY <1>1, <1>3, <3>1, RenamedTable
    <3>3. \A r \in FileSlots :
            Kin(base[r], after[r]) /\ after[r] = [base[r] EXCEPT !.name = after[r].name]
      BY <1>1, <1>3, <3>1, RenamedIs
    <3> QED BY <3>2, <3>3
  <2>2. CASE files[s].type # 1
    <3> DEFINE e == [base[s] EXCEPT !.name = new]
    <3>1. after = [base EXCEPT ![s] = e]
      BY <1>3, <2>2 DEF RenameAfter, Tables
    <3>2. ASSUME NEW x \in EntryType
          PROVE  x = [x EXCEPT !.name = x.name] /\ Kin(x, [x EXCEPT !.name = new])
                 /\ [x EXCEPT !.name = new] \in EntryType /\ [x EXCEPT !.name = new].name = new
      BY <1>1 DEF EntryType, Kin, Word
    <3>3. \A r \in FileSlots : base[r] \in EntryType
      BY <1>3 DEF Tables
    <3>4. e \in EntryType /\ Kin(base[s], e) /\ e.name = new
      BY <3>2, <3>3
    <3>5. after \in Tables /\ \A r \in FileSlots : after[r] = IF r = s THEN e ELSE base[r]
      BY <1>3, <3>1, <3>4 DEF Tables
    <3> HIDE DEF after
    <3>6. \A r \in FileSlots : after[r] = [base[r] EXCEPT !.name = after[r].name]
      BY <3>2, <3>3, <3>4, <3>5
    <3>7. \A r \in FileSlots : Kin(base[r], after[r])
      <4> HIDE DEF e
      <4> QED BY <3>4, <3>5, KinSelf
    <3> QED BY <3>5, <3>6, <3>7
  <2> QED BY <2>1, <2>2
<1> HIDE DEF after
<1>7. FromFiles(after, T)
  BY <1>3, <1>6, FreeIs DEF FromFiles, Kin
<1>8. \A r \in FileSlots : after[r].name \in Seq(Word)
  BY <1>6 DEF Tables, EntryType, Word
<1>9. tab \in Tables /\ FromTables(tab, T)
  <2>1. CASE files[s].type = 1
    <3>1. ASSUME NEW x \in EntryType, NEW name \in Seq(Word)
          PROVE  [x EXCEPT !.name = name] \in EntryType /\ Kin(x, [x EXCEPT !.name = name])
      BY <3>1 DEF EntryType, Kin, Word
    <3>2. \A r \in FileSlots : tab[r] = IF after[r].name = base[r].name THEN without[r]
                                        ELSE [without[r] EXCEPT !.name = after[r].name]
      BY <2>1 DEF RenameTab
    <3>3. tab = [r \in FileSlots |-> tab[r]]
      BY <2>1 DEF RenameTab
    <3> HIDE DEF tab
    <3>4. \A r \in FileSlots : without[r] \in EntryType
      BY <1>3 DEF Tables
    <3>5. ASSUME NEW r \in FileSlots
          PROVE  tab[r] \in EntryType /\ Kin(without[r], tab[r])
      <4> DEFINE x == without[r]
                 name == after[r].name
      <4>1. x \in EntryType /\ name \in Seq(Word)
        BY <1>8, <3>4, <3>5
      <4>2. tab[r] = x \/ tab[r] = [x EXCEPT !.name = name]
        BY <3>2, <3>5
      <4> HIDE DEF x, name
      <4>3. tab[r] \in EntryType /\ Kin(x, tab[r])
        BY <3>1, <4>1, <4>2, KinSelf
      <4> QED BY <4>1, <4>3 DEF x
    <3>6. tab \in Tables
      BY <3>3, <3>5 DEF Tables
    <3>7. FromTables(tab, T)
      BY <1>3, <3>5, FreeIs DEF FromTables, Kin
    <3> QED BY <3>6, <3>7
  <2>2. CASE files[s].type # 1
    <3>1. tab = [without EXCEPT ![s] = after[s]]
      BY <2>2 DEF RenameTab, Updated
    <3> HIDE DEF tab
    <3>2. tab \in Tables /\ \A r \in FileSlots : tab[r] = IF r = s THEN after[s] ELSE without[r]
      BY <1>3, <1>6, <3>1 DEF Tables
    <3>3. Kin(files[s], tab[s])
      BY <1>3, <1>6, <3>2
    <3>4. FromTables(tab, T)
      BY <1>4, <3>2, <3>3 DEF FromTables
    <3> QED BY <3>2, <3>4
  <2> QED BY <2>1, <2>2
<1>10. ASSUME backend = "hbfs", ~failed
       PROVE  tab = after
  <2>1. without = base
    BY <1>5, <1>10
  <2>2. CASE files[s].type = 1
    <3>1. \A r \in FileSlots : tab[r] = IF after[r].name = base[r].name THEN base[r]
                                        ELSE [base[r] EXCEPT !.name = after[r].name]
      BY <2>1, <2>2 DEF RenameTab
    <3> HIDE DEF tab
    <3>2. \A r \in FileSlots : base[r] \in EntryType
      BY <1>3 DEF Tables
    <3>3. \A x \in EntryType : x = [x EXCEPT !.name = x.name]
      BY DEF EntryType
    <3>4. ASSUME NEW r \in FileSlots
          PROVE  tab[r] = after[r]
      <4> DEFINE x == base[r]
                 name == after[r].name
      <4>1. x = [x EXCEPT !.name = x.name] /\ after[r] = [x EXCEPT !.name = name]
        BY <1>6, <3>2, <3>3
      <4>2. tab[r] = IF name = x.name THEN x ELSE [x EXCEPT !.name = name]
        BY <3>1
      <4> HIDE DEF x, name
      <4> QED BY <4>1, <4>2
    <3> QED BY <1>6, <1>9, <3>4 DEF Tables
  <2>3. CASE files[s].type # 1
    <3>1. tab = [base EXCEPT ![s] = after[s]]
      BY <2>1, <2>3 DEF RenameTab, Updated
    <3>2. \A r \in FileSlots \ {s} : after[r] = base[r]
      <4>1. after = [base EXCEPT ![s].name = new]
        BY <2>3 DEF after, RenameAfter
      <4> QED BY <1>3, <4>1 DEF Tables
    <3> HIDE DEF tab
    <3> QED BY <1>3, <1>6, <3>1, <3>2 DEF Tables
  <2> QED BY <2>2, <2>3
<1> HIDE DEF tab, T
<1> QED BY <1>3, <1>4, <1>5, <1>6, <1>7, <1>9, <1>10 DEF base, without, after, tab, T

LEMMA RenameKeeps ==
  ASSUME HbfsInv, NEW old \in Paths, NEW new \in Paths, posix_rename(old, new)
  PROVE  HbfsInv'
<1> DEFINE s == fs_find_file(old)
           target == IF Exists(new) THEN fs_find_file(new) ELSE s
           T == IF target = s THEN {} ELSE {target}
           base == RenameBase(s, target)
           without == RenameWithout(s, target)
           after == RenameAfter(s, base, old, new)
           tab == RenameTab(s, base, without, after)
           versions == RenameVersions(s, target, without, tab)
           errs == RenameErrs(s, target, base, without, after, tab)
<1>1. /\ s \in FileSlots /\ files[s].used /\ target \in FileSlots /\ files[target].used
      /\ target # s => ~IsOpen(target)
      /\ births' = births
      /\ due' = IF target = s THEN due ELSE due \ {files[target].tag}
      /\ \/ Completes(after, versions) /\ UNCHANGED opened
         \/ backend = "hbfs" /\ CutWhile("rename", versions)
         \/ backend = "hbfs" /\ FailWhile(versions, errs)
  BY RenameIs
<1> HIDE DEF s, target
<1>2. /\ base \in Tables /\ FromFiles(base, T) /\ without \in Tables /\ FromTables(without, T)
      /\ after \in Tables /\ FromFiles(after, T) /\ tab \in Tables /\ FromTables(tab, T)
      /\ backend = "hbfs" /\ ~failed => without = base /\ tab = after
  BY <1>1, RenameTables
<1> HIDE DEF base, without, after, tab
<1>3. /\ versions \in Seq(Tables) /\ versions # <<>> /\ Last(versions) = tab
      /\ 1 \in DOMAIN versions /\ (target # s => 2 \in DOMAIN versions)
      /\ \A i \in DOMAIN versions : versions[i] \in {without, tab}
  BY <1>2, RenameVersionsAre
<1>4. /\ DOMAIN errs \subseteq DOMAIN versions
      /\ \A i \in DOMAIN errs :
           errs[i].files \in {base, after} /\ errs[i].hbfs_table \in {without, tab}
           /\ errs[i].data = blocks
  <2>1. DOMAIN errs \subseteq DOMAIN versions
    <3>1. DOMAIN errs = IF target = s THEN {1} ELSE {1, 2}
      BY DEF RenameErrs
    <3> HIDE DEF errs, versions
    <3> QED BY <1>3, <3>1
  <2>2. CASE files[s].type = 1
    BY <2>1, <2>2 DEF RenameErrs
  <2>3. CASE files[s].type # 1
    BY <2>1, <2>3 DEF RenameErrs
  <2> QED BY <2>1, <2>2, <2>3
<1> HIDE DEF versions, errs
<1>5. Spares(T)
  BY <1>1 DEF Spares, Holds
<1>6. \A p \in Openers : opened[p].slot \notin T
  BY <1>1 DEF IsOpen
<1>7. births' \in 0 .. MaxBirths
  BY <1>1, TypesAre
<1>8. \A i \in DOMAIN versions : FromTables(versions[i], T)
  BY <1>2, <1>3
<1>9. ErrsFrom(errs, T)
  BY <1>2, <1>4 DEF ErrsFrom
<1> HIDE DEF T
<1>10. CASE Completes(after, versions) /\ UNCHANGED opened
  <2>1. FromTables(Last(versions), T) /\ (backend = "hbfs" /\ ~failed => Last(versions) = after)
    BY <1>2, <1>3
  <2> QED BY <1>2, <1>3, <1>5, <1>6, <1>7, <1>10, <2>1, CompleteFollows
<1>11. CASE backend = "hbfs" /\ CutWhile("rename", versions)
  BY <1>3, <1>5, <1>7, <1>8, <1>11, CutFollows
<1>12. CASE backend = "hbfs" /\ FailWhile(versions, errs)
  BY <1>3, <1>4, <1>5, <1>6, <1>7, <1>8, <1>9, <1>12, FailFollows
<1> QED BY <1>1, <1>10, <1>11, <1>12
-----------------------------------------------------------------------------
(* The specification                                                       *)

LEMMA InitTold == HbfsInit => HbfsInv
<1> SUFFICES ASSUME HbfsInit PROVE HbfsInv
  OBVIOUS
<1>1. Free \in EntryType /\ Former \in EntryType
  <2>1. Free \in EntryType /\ MaxBlocks \in 0 .. MaxBlocks
    BY SlotsAre, FreeIs
  <2>2. [Free EXCEPT !.used = TRUE, !.size = MaxBlocks] \in EntryType
    <3> DEFINE x == Free
    <3>1. x \in EntryType
      BY <2>1
    <3> HIDE DEF x
    <3>2. [x EXCEPT !.used = TRUE, !.size = MaxBlocks] \in EntryType
      BY <2>1, <3>1 DEF EntryType
    <3> QED BY <3>2 DEF x
  <2> QED BY <2>1, <2>2 DEF Former
<1>2. /\ files \in Tables /\ hbfs_table \in Tables /\ disk \in Tables
      /\ disk = [s \in FileSlots |-> Former]
  BY <1>1 DEF HbfsInit, Tables
<1>3. blocks \in Rows
  BY SlotsAre DEF HbfsInit, Rows
<1>4. opened \in [Openers -> [slot : FileSlots \cup {0}, tag : 0 .. MaxBirths]]
  BY SlotsAre DEF HbfsInit, NoHandle
<1>5. births \in 0 .. MaxBirths /\ backend = "ram" /\ formatted = FALSE /\ failed = FALSE /\ due = {}
  BY SlotsAre DEF HbfsInit
<1>6. HbfsTypes
  BY <1>2, <1>3, <1>4, <1>5 DEF HbfsTypes
<1>7. HandlesTold(files)
  BY DEF HbfsInit, HandlesTold
<1>8. DueTold /\ DiskTold
  BY <1>2, <1>5 DEF DueTold, DiskTold
<1> QED BY <1>5, <1>6, <1>7, <1>8 DEF HbfsInv

LEMMA NextKeeps ==
  ASSUME ForeignUnlinks = FALSE, HbfsInv, [HbfsNext]_hbfsVars
  PROVE  HbfsInv'
<1>1. ASSUME NEW name \in Paths, NEW type \in {0, 1}, Create(name, type)
      PROVE  HbfsInv'
  BY <1>1, CreateKeeps
<1>2. ASSUME NEW name \in Paths, fs_create_symlink(name)
      PROVE  HbfsInv'
  BY <1>2, SymlinkKeeps
<1>3. ASSUME NEW p \in Openers, NEW offset \in 0 .. MaxBlocks - 1, NEW count \in 1 .. MaxBlocks,
             Write(p, offset, count)
      PROVE  HbfsInv'
  BY <1>3, WriteKeeps
<1>4. ASSUME NEW p \in Openers, fs_truncate_file(p)
      PROVE  HbfsInv'
  BY <1>4, TruncateKeeps
<1>5. ASSUME NEW p \in Openers, NEW name \in Paths, unlink(p, name)
      PROVE  HbfsInv'
  BY <1>5, UnlinkKeeps
<1>6. ASSUME NEW name \in Paths, rmdir(name)
      PROVE  HbfsInv'
  BY <1>6, RmdirKeeps
<1>7. ASSUME NEW old \in Paths, NEW new \in Paths, posix_rename(old, new)
      PROVE  HbfsInv'
  BY <1>7, RenameKeeps
<1>8. ASSUME hbfs_format_range
      PROVE  HbfsInv'
  BY <1>8, FormatKeeps
<1>9. ASSUME NEW p \in Openers, NEW name \in Paths, open(p, name)
      PROVE  HbfsInv'
  BY <1>9, OpenKeeps
<1>10. ASSUME NEW p \in Openers, hbfs_close(p)
       PROVE  HbfsInv'
  BY <1>10, CloseKeeps
<1>11. CASE UNCHANGED hbfsVars
  <2>1. births' \in 0 .. MaxBirths
        /\ opened' \in [Openers -> [slot : FileSlots \cup {0}, tag : 0 .. MaxBirths]]
    BY <1>11, TypesAre DEF hbfsVars
  <2>2. HandlesTold(files)'
    BY <1>11 DEF hbfsVars, HbfsInv, HandlesTold
  <2>3. /\ formatted' = formatted /\ backend' = backend /\ failed' = failed /\ due' = due
        /\ files' = files /\ hbfs_table' = hbfs_table /\ disk' = disk /\ blocks' = blocks
    BY <1>11 DEF hbfsVars
  <2> QED BY <2>1, <2>2, <2>3, RunKeeps
<1> QED BY <1>1, <1>2, <1>3, <1>4, <1>5, <1>6, <1>7, <1>8, <1>9, <1>10, <1>11 DEF HbfsNext

LEMMA InvTells ==
  ASSUME HbfsInv
  PROVE  HbfsTypeOK /\ TableFollowsFiles /\ NoFileLost /\ BytesAreOwn /\ HandlesKeepFile
<1>1. HbfsTypeOK
  BY DEF HbfsInv, HbfsTypes, HbfsTypeOK, Tables
<1>2. TableFollowsFiles
  BY DEF HbfsInv, DiskTold, TableFollowsFiles
<1>3. NoFileLost
  BY DEF HbfsInv, DueTold, Holds, NoFileLost
<1>4. BytesAreOwn
  BY DEF HbfsInv, DiskTold, AllOwned, Owned, BytesAreOwn
<1>5. HandlesKeepFile
  BY DEF HbfsInv, HandlesTold, HandlesKeepFile
<1> QED BY <1>1, <1>2, <1>3, <1>4, <1>5

\* Whatever was on the disk before, and wherever directories are moved: the
\* tables agree until a write fails, a file whose creation was reported stays on
\* the disk under one of its names, no entry shows sectors its file did not
\* write, and a descriptor keeps its file: across failed writes and power cuts.
THEOREM HbfsKeepsFiles ==
  ASSUME ForeignUnlinks = FALSE
  PROVE  HbfsSpec =>
           [](HbfsTypeOK /\ TableFollowsFiles /\ NoFileLost /\ BytesAreOwn /\ HandlesKeepFile)
<1>1. HbfsInit => HbfsInv
  BY InitTold
<1>2. HbfsInv /\ [HbfsNext]_hbfsVars => HbfsInv'
  BY NextKeeps
<1>3. HbfsInv => HbfsTypeOK /\ TableFollowsFiles /\ NoFileLost /\ BytesAreOwn /\ HandlesKeepFile
  BY InvTells
<1> QED BY <1>1, <1>2, <1>3, PTL DEF HbfsSpec
-----------------------------------------------------------------------------
(* Unique names                                                            *)

LEMMA TreeIs ==
  ASSUME NEW S, NEW path \in Seq(S), NEW root \in Seq(S)
  PROVE  InTree(path, root) <=>
           Len(root) <= Len(path) /\ \A i \in 1 .. Len(root) : path[i] = root[i]
<1> DEFINE n == Len(root)
           a == SubSeq(root, 1, n)
           b == SubSeq(path, 1, n)
<1>1. n \in Nat /\ Len(path) \in Nat
  OBVIOUS
<1>2. CASE n <= Len(path)
  <2>1. /\ a \in Seq(S) /\ Len(a) = n /\ \A i \in 1 .. n : a[i] = root[i]
        /\ b \in Seq(S) /\ Len(b) = n /\ \A i \in 1 .. n : b[i] = path[i]
    BY <1>1, <1>2
  <2> HIDE DEF a, b, n
  <2>2. a = b <=> \A i \in 1 .. n : a[i] = b[i]
    BY <2>1, SeqEqual
  <2>3. (\A i \in 1 .. n : a[i] = b[i]) <=> \A i \in 1 .. n : path[i] = root[i]
    BY <2>1
  <2> QED BY <1>2, <2>2, <2>3 DEF InTree, IsPrefix, a, b, n
<1>3. CASE ~ n <= Len(path)
  BY <1>3 DEF InTree, IsPrefix
<1> QED BY <1>2, <1>3

\* What m, name's new form, holds where.
HasMoved(m, name, old, new) ==
  /\ Len(m) = Len(new) + (Len(name) - Len(old))
  /\ \A i \in 1 .. Len(new) : m[i] = new[i]
  /\ \A i \in 1 .. Len(name) - Len(old) : m[Len(new) + i] = name[Len(old) + i]

LEMMA MovedAt ==
  ASSUME NEW S, NEW name \in Seq(S), NEW old \in Seq(S), NEW new \in Seq(S),
         Len(old) <= Len(name)
  PROVE  HasMoved(Moved(name, old, new), name, old, new)
<1> DEFINE u == Len(old)
           n == Len(name)
           t == SubSeq(name, u + 1, n)
           m == new \o t
<1>1. u \in Nat /\ n \in Nat /\ u <= n /\ Len(new) \in Nat
  OBVIOUS
<1>2. t \in Seq(S) /\ Len(t) = n - u /\ \A i \in 1 .. n - u : t[i] = name[u + i]
  <2>1. CASE u < n
    BY <1>1, <2>1
  <2>2. CASE u = n
    BY <1>1, <2>2
  <2> QED BY <1>1, <2>1, <2>2
<1>3. m \in Seq(S) /\ Len(m) = Len(new) + Len(t)
      /\ \A i \in 1 .. Len(new) + Len(t) : m[i] = IF i <= Len(new) THEN new[i] ELSE t[i - Len(new)]
  BY <1>2, ConcatProperties
<1>4. Moved(name, old, new) = m
  BY DEF Moved
<1> DEFINE w == Len(new)
<1>5. w \in Nat /\ Len(m) = w + (n - u)
      /\ \A i \in 1 .. w + (n - u) : m[i] = IF i <= w THEN new[i] ELSE t[i - w]
  BY <1>1, <1>2, <1>3
<1> HIDE DEF m, t, u, n, w
<1>6. \A i \in 1 .. w : m[i] = new[i]
  BY <1>1, <1>5
<1>7. ASSUME NEW i \in 1 .. n - u
      PROVE  m[w + i] = name[u + i]
  <2>1. w + i \in 1 .. w + (n - u) /\ ~ w + i <= w /\ (w + i) - w = i
    BY <1>1, <1>5, <1>7
  <2>2. m[w + i] = t[i]
    BY <1>5, <2>1
  <2> QED BY <1>2, <1>7, <2>2
<1> QED BY <1>4, <1>5, <1>6, <1>7 DEF HasMoved, u, n, w

\* Names of a tree stay apart when it moves.
LEMMA MovedApart ==
  ASSUME NEW S, NEW a \in Seq(S), NEW b \in Seq(S), NEW old \in Seq(S), NEW new \in Seq(S),
         InTree(a, old), InTree(b, old), Moved(a, old, new) = Moved(b, old, new)
  PROVE  a = b
<1> DEFINE u == Len(old)
           w == Len(new)
           x == Len(a)
           y == Len(b)
           m == Moved(a, old, new)
<1>1. u \in Nat /\ w \in Nat /\ x \in Nat /\ y \in Nat
  OBVIOUS
<1>2. u <= x /\ u <= y /\ \A i \in 1 .. u : a[i] = old[i] /\ b[i] = old[i]
  BY TreeIs
<1>3. Len(m) = w + (x - u) /\ \A i \in 1 .. x - u : m[w + i] = a[u + i]
  <2>1. Len(old) <= Len(a)
    BY <1>2
  <2>2. HasMoved(Moved(a, old, new), a, old, new)
    BY <2>1, MovedAt
  <2> QED BY <2>2 DEF HasMoved
<1>4. Len(m) = w + (y - u) /\ \A i \in 1 .. y - u : m[w + i] = b[u + i]
  <2>1. Len(old) <= Len(b)
    BY <1>2
  <2>2. HasMoved(Moved(b, old, new), b, old, new)
    BY <2>1, MovedAt
  <2> QED BY <2>2 DEF HasMoved
<1> DEFINE l == Len(m)
<1>5. l = w + (x - u) /\ l = w + (y - u)
  BY <1>3, <1>4
<1> HIDE DEF u, w, x, y, m, l
<1>6. x = y
  BY <1>1, <1>5
<1>7. ASSUME NEW i \in 1 .. x
      PROVE  a[i] = b[i]
  <2>1. CASE i \in 1 .. u
    BY <1>2, <2>1
  <2>2. CASE i \notin 1 .. u
    <3>1. i - u \in 1 .. x - u /\ u + (i - u) = i
      BY <1>1, <1>2, <1>7, <2>2
    <3>2. m[w + (i - u)] = a[u + (i - u)] /\ m[w + (i - u)] = b[u + (i - u)]
      BY <1>3, <1>4, <1>6, <3>1
    <3> QED BY <3>1, <3>2
  <2> QED BY <2>1, <2>2
<1> QED BY <1>6, <1>7, SeqEqual DEF x, y

\* A name of the tree is a moved name only if the tree moves up.
LEMMA MovedUp ==
  ASSUME NEW S, NEW a \in Seq(S), NEW b \in Seq(S), NEW old \in Seq(S), NEW new \in Seq(S),
         InTree(a, old), InTree(b, old), a = Moved(b, old, new)
  PROVE  InTree(old, new) \/ InTree(new, old)
<1> DEFINE u == Len(old)
           w == Len(new)
<1>1. u \in Nat /\ w \in Nat
  OBVIOUS
<1>2. \A i \in 1 .. u : a[i] = old[i]
  BY TreeIs
<1>3. Len(old) <= Len(b)
  BY TreeIs
<1>4. \A i \in 1 .. w : a[i] = new[i]
  <2>1. Len(old) <= Len(b)
    BY <1>3
  <2>2. HasMoved(Moved(b, old, new), b, old, new)
    BY <2>1, MovedAt
  <2> QED BY <2>2 DEF HasMoved
<1>5. CASE u <= w
  <2>1. \A i \in 1 .. u : new[i] = old[i]
    <3> HIDE DEF u, w
    <3>1. \A i \in 1 .. u : i \in 1 .. w
      BY <1>1, <1>5
    <3> QED BY <1>2, <1>4, <3>1
  <2> QED BY <1>5, <2>1, TreeIs
<1>6. CASE w <= u
  <2>1. \A i \in 1 .. w : old[i] = new[i]
    <3> HIDE DEF u, w
    <3>1. \A i \in 1 .. w : i \in 1 .. u
      BY <1>1, <1>6
    <3> QED BY <1>2, <1>4, <3>1
  <2> QED BY <1>6, <2>1, TreeIs
<1>7. u <= w \/ w <= u
  BY <1>1
<1> QED BY <1>5, <1>6, <1>7

\* No entry of m has another name than the files have, but the slot s may have
\* one that is new to the others.
Adds(m, s, name) ==
  /\ \A r \in FileSlots \ {s} : m[r].used => files[r].used /\ m[r].name = files[r].name
  /\ m[s].used => m[s].name = name \/ (files[s].used /\ m[s].name = files[s].name)
  /\ \A r \in FileSlots \ {s} : m[r].used => m[r].name # name

LEMMA UniqueAdd ==
  ASSUME Unique(files), NEW m, NEW s, NEW name, Adds(m, s, name)
  PROVE  Unique(m)
<1> SUFFICES ASSUME NEW q \in FileSlots, NEW r \in FileSlots, q # r, m[q].used, m[r].used
             PROVE  m[q].name # m[r].name
  BY DEF Unique
<1>1. CASE q # s /\ r # s
  BY <1>1 DEF Unique, Adds
<1>2. CASE q = s
  BY <1>2 DEF Unique, Adds
<1>3. CASE r = s
  BY <1>3 DEF Unique, Adds
<1> QED BY <1>1, <1>2, <1>3

LEMMA UniqueSame ==
  ASSUME Unique(files), NEW m,
         \A r \in FileSlots : m[r].used => files[r].used /\ m[r].name = files[r].name
  PROVE  Unique(m)
  BY DEF Unique

\* A call that syncs one version, in memory and on the disk.
LEMMA OneVersion ==
  ASSUME HbfsInv, ~failed', NEW kind, NEW after \in Tables, NEW tab \in Tables, NEW errs,
         backend = "hbfs" /\ ~failed => tab = after,
         \/ Completes(after, <<tab>>)
         \/ backend = "hbfs" /\ CutWhile(kind, <<tab>>)
         \/ backend = "hbfs" /\ FailWhile(<<tab>>, errs)
  PROVE  ~failed /\ \A r \in FileSlots : files'[r] \in {after[r], files[r]}
<1> DEFINE versions == <<tab>>
<1>1. versions \in Seq(Tables) /\ DOMAIN versions = {1} /\ versions[1] = tab
  OBVIOUS
<1>2. CASE Completes(after, versions)
  BY <1>2 DEF Completes
<1>3. CASE backend = "hbfs" /\ CutWhile(kind, versions)
  <2>1. failed' = failed /\ disk \in Tables /\ (~failed => disk = files)
    BY <1>3 DEF CutWhile, HbfsInv, HbfsTypes, DiskTold
  <2> HIDE DEF versions
  <2>2. PICK i \in DOMAIN versions, k \in {0} \cup Sectors :
          Mounts(Written(versions, i, k), blocks)
    BY <1>3 DEF CutWhile
  <2>3. files' = Written(versions, 1, k)
    BY <1>1, <2>2 DEF Mounts
  <2>4. \A r \in FileSlots : Written(versions, 1, k)[r] \in {tab[r], disk[r]}
    BY <1>1 DEF Written
  <2> QED BY <1>3, <2>1, <2>3, <2>4
<1>4. CASE FailWhile(versions, errs)
  BY <1>4 DEF FailWhile
<1> QED BY <1>2, <1>3, <1>4

LEMMA CreateNames ==
  ASSUME HbfsInv, NamesInv, NEW path \in Paths, NEW type \in {0, 1}, Create(path, type)
  PROVE  NamesInv'
<1> DEFINE s == FirstFreeSlot
           e == NewFile(path, type)
           after == [files EXCEPT ![s] = e]
           tab == [hbfs_table EXCEPT ![s] = e]
           errs == <<[files |-> files, hbfs_table |-> tab, again |-> FALSE, data |-> blocks]>>
<1> SUFFICES ASSUME ~failed' PROVE Unique(files')
  BY DEF NamesInv, Unique
<1>1. s \in FileSlots /\ ~files[s].used
  BY FreeFound DEF Create
<1>2. births \in 0 .. MaxBirths /\ births < MaxBirths
  BY TypesAre DEF Create
<1>3. e \in EntryType /\ e.used = TRUE /\ e.name = path
  <2>1. type \in 0 .. 2
    OBVIOUS
  <2>2. NewFile(path, type) \in EntryType /\ NewFile(path, type).name = path
    BY <1>2, <2>1, NewFileIs
  <2>3. NewFile(path, type).used = TRUE
    BY DEF NewFile
  <2> QED BY <2>2, <2>3
<1>4. files \in Tables /\ hbfs_table \in Tables
  BY TypesAre
<1>5. after \in Tables /\ tab \in Tables /\ after[s] = e
      /\ \A r \in FileSlots \ {s} : after[r] = files[r]
  BY <1>1, <1>3, <1>4, PutIs
<1>6. Updated(hbfs_table, after, s) = tab
  BY <1>5 DEF Updated
<1>7. \/ Completes(after, <<tab>>)
      \/ backend = "hbfs" /\ CutWhile("create", <<tab>>)
      \/ backend = "hbfs" /\ FailWhile(<<tab>>, errs)
  BY <1>6 DEF Create
<1>8. backend = "hbfs" /\ ~failed => tab = after
  BY DEF HbfsInv, DiskTold
<1>9. \A r \in FileSlots : files[r].used => files[r].name # path
  BY DEF Create, Exists, Used
<1> HIDE DEF s, e, after, tab, errs
<1>10. ~failed /\ \A r \in FileSlots : files'[r] \in {after[r], files[r]}
  BY <1>5, <1>7, <1>8, OneVersion
<1>11. Unique(files)
  BY <1>10 DEF NamesInv
<1>12. Adds(files', s, path)
  BY <1>1, <1>3, <1>5, <1>9, <1>10 DEF Adds
<1> QED BY <1>11, <1>12, UniqueAdd

LEMMA SymlinkNames ==
  ASSUME HbfsInv, NamesInv, NEW path \in Paths, fs_create_symlink(path)
  PROVE  NamesInv'
<1> DEFINE s == FirstFreeSlot
           e == NewFile(path, 0)
           empty == [files EXCEPT ![s] = e]
           sized == [empty EXCEPT ![s].size = 1]
           after == [sized EXCEPT ![s].type = 2]
           stages == <<empty, sized, after>>
           versions == [i \in 1 .. 3 |-> Updated(hbfs_table, stages[i], s)]
<1> SUFFICES ASSUME ~failed' PROVE Unique(files')
  BY DEF NamesInv, Unique
<1>1. s \in FileSlots /\ ~files[s].used
  BY FreeFound DEF fs_create_symlink
<1>2. births \in 0 .. MaxBirths /\ births < MaxBirths
  BY TypesAre DEF fs_create_symlink
<1>3. files \in Tables /\ hbfs_table \in Tables
  BY TypesAre
<1>4. e \in EntryType /\ e.name = path
  <2>1. 0 \in 0 .. 2
    OBVIOUS
  <2>2. NewFile(path, 0) \in EntryType /\ NewFile(path, 0).name = path
    BY <1>2, <2>1, NewFileIs
  <2> QED BY <2>2
<1>5. \/ files' = after /\ failed' = failed
      \/ /\ backend = "hbfs" /\ failed' = failed
         /\ \E i \in 1 .. 3 : \E k : files' = Written(versions, i, k)
      \/ failed'
  BY DEF fs_create_symlink, Mounts, FailWhile
<1>6. \A r \in FileSlots : files[r].used => files[r].name # path
  BY DEF fs_create_symlink, Exists, Used
<1> HIDE DEF s, e
<1>7. \A x \in EntryType : [x EXCEPT !.size = 1].name = x.name /\ [x EXCEPT !.type = 2].name = x.name
  BY DEF EntryType
<1>8. /\ empty[s].name = path /\ sized[s].name = path /\ after[s].name = path
      /\ \A r \in FileSlots \ {s} : after[r] = files[r]
  <2>1. empty = [empty EXCEPT ![s] = e] /\ empty[s] = e /\ DOMAIN empty = FileSlots
        /\ \A r \in FileSlots \ {s} : empty[r] = files[r]
    BY <1>1, <1>3 DEF Tables
  <2> HIDE DEF empty
  <2>2. sized[s] = [e EXCEPT !.size = 1] /\ DOMAIN sized = FileSlots
        /\ \A r \in FileSlots \ {s} : sized[r] = files[r]
    BY <1>1, <2>1
  <2> HIDE DEF sized
  <2>3. after[s] = [sized[s] EXCEPT !.type = 2] /\ \A r \in FileSlots \ {s} : after[r] = files[r]
    BY <1>1, <2>2
  <2> HIDE DEF after
  <2>4. [e EXCEPT !.size = 1] \in EntryType
    BY <1>4, SlotsAre DEF EntryType
  <2> QED BY <1>4, <1>7, <2>1, <2>2, <2>3, <2>4
<1> HIDE DEF empty, sized, after
<1>9. \A i \in 1 .. 3 : stages[i][s].name = path
  BY <1>8
<1> HIDE DEF stages
<1>10. \A i \in 1 .. 3 : versions[i][s] = stages[i][s]
                         /\ \A r \in FileSlots \ {s} : versions[i][r] = hbfs_table[r]
  BY <1>1, <1>3 DEF Updated, Tables
<1> HIDE DEF versions
<1>11. ASSUME ~failed, files' = after
       PROVE  Unique(files')
  <2>1. Unique(files)
    BY <1>11 DEF NamesInv
  <2>2. Adds(files', s, path)
    BY <1>6, <1>8, <1>11 DEF Adds
  <2> QED BY <2>1, <2>2, UniqueAdd
<1>12. ASSUME ~failed, backend = "hbfs", NEW i \in 1 .. 3, NEW k, files' = Written(versions, i, k)
       PROVE  Unique(files')
  <2>1. Unique(files) /\ hbfs_table = files /\ disk = files
    BY <1>12 DEF NamesInv, HbfsInv, DiskTold
  <2>2. \A r \in FileSlots :
          \/ files'[r] = files[r]
          \/ \E j \in 1 .. 3 : files'[r] = versions[j][r]
    <3>1. i # 1 => i - 1 \in 1 .. 3
      OBVIOUS
    <3> QED BY <1>12, <2>1, <3>1 DEF Written
  <2>3. Adds(files', s, path)
    BY <1>1, <1>6, <1>9, <1>10, <2>1, <2>2 DEF Adds
  <2> QED BY <2>1, <2>3, UniqueAdd
<1> QED BY <1>5, <1>11, <1>12

\* A call that empties, shortens or removes files.
LEMMA OneEntryNames ==
  ASSUME HbfsInv, NamesInv, NEW s \in FileSlots, NEW e \in EntryType, NEW kind,
         e.used => files[s].used /\ e.name = files[s].name,
         LET after == [files EXCEPT ![s] = e]
             versions == <<Updated(hbfs_table, after, s)>>
         IN  \/ Completes(after, versions) /\ UNCHANGED opened
             \/ backend = "hbfs" /\ CutWhile(kind, versions)
             \/ backend = "hbfs" /\ FailWhile(versions, <<[files |-> after, hbfs_table |-> versions[1],
                                                          again |-> FALSE, data |-> blocks]>>)
  PROVE  NamesInv'
<1> DEFINE after == [files EXCEPT ![s] = e]
           tab == [hbfs_table EXCEPT ![s] = e]
           errs == <<[files |-> after, hbfs_table |-> tab, again |-> FALSE, data |-> blocks]>>
<1> SUFFICES ASSUME ~failed' PROVE Unique(files')
  BY DEF NamesInv, Unique
<1>1. files \in Tables /\ hbfs_table \in Tables
  BY TypesAre
<1>2. after \in Tables /\ tab \in Tables /\ \A r \in FileSlots : after[r] = IF r = s THEN e ELSE files[r]
  BY <1>1 DEF Tables
<1>3. Updated(hbfs_table, after, s) = tab
  BY <1>2 DEF Updated
<1>4. \/ Completes(after, <<tab>>)
      \/ backend = "hbfs" /\ CutWhile(kind, <<tab>>)
      \/ backend = "hbfs" /\ FailWhile(<<tab>>, errs)
  BY <1>3
<1>5. backend = "hbfs" /\ ~failed => tab = after
  BY DEF HbfsInv, DiskTold
<1> HIDE DEF after, tab, errs
<1>6. ~failed /\ \A r \in FileSlots : files'[r] \in {after[r], files[r]}
  BY <1>2, <1>4, <1>5, OneVersion
<1>7. Unique(files)
  BY <1>6 DEF NamesInv
<1>8. \A r \in FileSlots : files'[r].used => files[r].used /\ files'[r].name = files[r].name
  BY <1>2, <1>6
<1> QED BY <1>7, <1>8, UniqueSame

LEMMA DeleteNames ==
  ASSUME HbfsInv, NamesInv, NEW s \in FileSlots, fs_delete_file(s)
  PROVE  NamesInv'
<1> DEFINE after == [files EXCEPT ![s] = Free]
           versions == <<Updated(hbfs_table, after, s)>>
<1>1. \/ Completes(after, versions) /\ UNCHANGED opened
      \/ backend = "hbfs" /\ CutWhile("delete", versions)
      \/ backend = "hbfs" /\ FailWhile(versions, <<[files |-> after, hbfs_table |-> versions[1],
                                                   again |-> FALSE, data |-> blocks]>>)
  BY DEF fs_delete_file
<1> QED BY <1>1, FreeIs, OneEntryNames

LEMMA RemoveNames ==
  ASSUME HbfsInv, NamesInv, NEW name \in Paths, rmdir(name) \/ \E p \in Openers : unlink(p, name)
  PROVE  NamesInv'
<1>1. Exists(name) /\ fs_delete_file(fs_find_file(name))
  BY DEF rmdir, unlink, IsDir
<1>2. fs_find_file(name) \in FileSlots
  BY <1>1, Found
<1> QED BY <1>1, <1>2, DeleteNames

LEMMA TruncateNames ==
  ASSUME HbfsInv, NamesInv, NEW p \in Openers, fs_truncate_file(p)
  PROVE  NamesInv'
<1> DEFINE s == opened[p].slot
           e == [files[s] EXCEPT !.size = 0]
           after == [files EXCEPT ![s] = e]
           versions == <<Updated(hbfs_table, after, s)>>
<1>1. s \in FileSlots /\ files \in Tables /\ files[s].used
  BY OpenedIs, TypesAre DEF fs_truncate_file
<1>2. files[s] \in EntryType
  BY <1>1 DEF Tables
<1>3. e \in EntryType /\ e.name = files[s].name
  BY <1>2, SlotsAre DEF EntryType
<1>4. [files EXCEPT ![s].size = 0] = after
  OBVIOUS
<1>5. \/ Completes(after, versions) /\ UNCHANGED opened
      \/ backend = "hbfs" /\ CutWhile("write", versions)
      \/ backend = "hbfs" /\ FailWhile(versions, <<[files |-> after, hbfs_table |-> versions[1],
                                                   again |-> FALSE, data |-> blocks]>>)
  BY <1>4 DEF fs_truncate_file
<1> HIDE DEF e, s
<1> QED BY <1>1, <1>3, <1>5, OneEntryNames

LEMMA WriteNames ==
  ASSUME HbfsInv, NamesInv, NEW p \in Openers, NEW offset \in 0 .. MaxBlocks - 1,
         NEW count \in 1 .. MaxBlocks, Write(p, offset, count)
  PROVE  NamesInv'
<1> DEFINE s == opened[p].slot
           grown == [files EXCEPT ![s].size = offset + count]
           versions == <<Updated(hbfs_table, grown, s)>>
<1> SUFFICES ASSUME ~failed' PROVE Unique(files')
  BY DEF NamesInv, Unique
<1>1. s \in FileSlots
  BY OpenedIs DEF Write
<1>2. files \in Tables /\ hbfs_table \in Tables
  BY TypesAre
<1>3. ~failed => Unique(files) /\ (backend = "hbfs" => hbfs_table = files /\ disk = files)
  BY DEF NamesInv, HbfsInv, DiskTold
<1>4. ASSUME NEW x \in EntryType, NEW size
      PROVE  [x EXCEPT !.size = size].used = x.used /\ [x EXCEPT !.size = size].name = x.name
  BY <1>4 DEF EntryType
<1>5. ASSUME NEW m, NEW size, m = [files EXCEPT ![s].size = size]
      PROVE  \A r \in FileSlots : m[r].used = files[r].used /\ m[r].name = files[r].name
  <2>1. \A r \in FileSlots : m[r] = IF r = s THEN [files[s] EXCEPT !.size = size] ELSE files[r]
    BY <1>2, <1>5 DEF Tables
  <2> DEFINE x == files[s]
             y == [x EXCEPT !.size = size]
  <2>2. x \in EntryType
    BY <1>1, <1>2 DEF Tables
  <2>3. y.used = x.used /\ y.name = x.name
    BY <1>4, <2>2
  <2>4. \A r \in FileSlots : m[r] = IF r = s THEN y ELSE files[r]
    BY <2>1
  <2> HIDE DEF y
  <2> QED BY <2>3, <2>4
<1>6. \A r \in FileSlots : grown[r].used = files[r].used /\ grown[r].name = files[r].name
  BY <1>5
<1>7. ASSUME ~failed, backend = "hbfs"
      PROVE  versions[1] = [files EXCEPT ![s] = grown[s]] /\ disk = files
  BY <1>3, <1>7 DEF Updated
<1>8. CASE backend = "hbfs"
  <2>1. hbfs_write_data(s, offset, count)
    BY <1>8 DEF Write
  <2> DEFINE Data(n) == [blocks EXCEPT ![s] =
                           [b \in 1 .. MaxBlocks |->
                              IF b \in offset + 1 .. offset + n THEN files[s].tag ELSE @[b]]]
  <2>2. \/ (files' = grown \/ files' = files) /\ failed' = failed
        \/ /\ failed' = failed
           /\ \/ \E n \in 0 .. count : Mounts(disk, Data(n))
              \/ \E k \in Sectors : Mounts(Written(versions, 1, k), Data(count))
        \/ failed'
    <3> HIDE DEF grown, versions, Data
    <3> QED BY <2>1 DEF hbfs_write_data, grown, versions, Data
  <2> HIDE DEF Data
  <2>3. ~failed /\ \/ files' = files
                   \/ files' = grown
                   \/ files' = disk
                   \/ \E k : files' = Written(versions, 1, k)
    <3> HIDE DEF grown, versions
    <3> QED BY <2>2 DEF Mounts
  <2> HIDE DEF grown
  <2>4. \A k : \A r \in FileSlots : Written(versions, 1, k)[r] \in {versions[1][r], disk[r]}
    BY DEF Written
  <2> HIDE DEF versions
  <2>5. \A r \in FileSlots : files'[r] \in {files[r], grown[r]}
    <3> SUFFICES ASSUME NEW r \in FileSlots PROVE files'[r] \in {files[r], grown[r]}
      OBVIOUS
    <3>1. versions[1][r] \in {files[r], grown[r]} /\ disk[r] = files[r]
      BY <1>1, <1>2, <1>7, <1>8, <2>3 DEF Tables
    <3> QED BY <2>4, <2>3, <3>1
  <2>6. \A r \in FileSlots : files'[r].used => files[r].used /\ files'[r].name = files[r].name
    BY <1>6, <2>5
  <2> QED BY <1>3, <2>3, <2>6, UniqueSame
<1>9. CASE backend # "hbfs"
  <2> DEFINE size == IF files[s].size < offset + count THEN offset + count ELSE files[s].size
  <2>1. files' = [files EXCEPT ![s].size = size] /\ failed' = failed
    BY <1>9 DEF Write
  <2> HIDE DEF size
  <2>2. \A r \in FileSlots : files'[r].used = files[r].used /\ files'[r].name = files[r].name
    BY <1>5, <2>1
  <2> QED BY <1>3, <2>1, <2>2, UniqueSame
<1> QED BY <1>8, <1>9

\* A tree between its old and its new names: no name is taken twice, unless the
\* tree moves up and has more than one file.
LEMMA TreeUnique ==
  ASSUME NEW base \in Tables, Unique(base), NEW old \in Seq(Word), NEW new \in Seq(Word), NEW m,
         \A r \in FileSlots : m[r] \in {base[r], Renamed(base, old, new)[r]},
         ~Conflict(base, old, new), ~InTree(new, old),
         InTree(old, new) =>
           \A q, r \in FileSlots :
             base[q].used /\ InTree(base[q].name, old) /\ base[r].used /\ InTree(base[r].name, old)
             => q = r
  PROVE  Unique(m)
<1> DEFINE name(r) == base[r].name
           moved(r) == Moved(name(r), old, new)
           inside(r) == base[r].used /\ InTree(name(r), old)
<1>1. ASSUME NEW r \in FileSlots
      PROVE  /\ m[r].used = base[r].used
             /\ m[r].used => m[r].name = name(r) \/ (inside(r) /\ m[r].name = moved(r))
             /\ inside(r) => Renamed(base, old, new)[r].name = moved(r)
             /\ name(r) \in Seq(Word)
  <2> DEFINE e == Renamed(base, old, new)[r]
  <2>1. RenamesTo(base[r], e, old, new)
    BY RenamedIs
  <2>2. m[r] = base[r] \/ m[r] = e
    OBVIOUS
  <2>3. name(r) \in Seq(Word)
    BY DEF Tables, EntryType, Word
  <2> HIDE DEF e
  <2>4. e.used = base[r].used
    BY <2>1 DEF Kin, RenamesTo
  <2>5. e.name = IF inside(r) THEN moved(r) ELSE name(r)
    BY <2>1 DEF RenamesTo
  <2>6. m[r].used = base[r].used
    BY <2>2, <2>4
  <2>7. m[r].name = name(r) \/ (inside(r) /\ m[r].name = moved(r))
    BY <2>2, <2>5
  <2>8. inside(r) => Renamed(base, old, new)[r].name = moved(r)
    BY <2>5 DEF e
  <2> QED BY <2>3, <2>6, <2>7, <2>8
<1>2. ASSUME NEW q \in FileSlots, NEW r \in FileSlots, q # r, inside(q), base[r].used
      PROVE  moved(q) # name(r)
  <2>1. CASE inside(r)
    <3> SUFFICES ASSUME name(r) = moved(q) PROVE FALSE
      OBVIOUS
    <3>1. name(q) \in Seq(Word) /\ name(r) \in Seq(Word)
      BY <1>1
    <3>2. InTree(name(r), old) /\ InTree(name(q), old)
      BY <1>2, <2>1
    <3>3. InTree(old, new) \/ InTree(new, old)
      BY <3>1, <3>2, MovedUp
    <3> QED BY <1>2, <2>1, <3>3
  <2>2. CASE ~inside(r)
    <3>1. ~InTree(base[r].name, old)
      BY <1>2, <2>2
    <3>2. base[q].used /\ InTree(base[q].name, old) /\ Renamed(base, old, new)[q].name = moved(q)
      BY <1>1, <1>2
    <3> QED BY <1>2, <3>1, <3>2 DEF Conflict
  <2> QED BY <2>1, <2>2
<1>3. ASSUME NEW q \in FileSlots, NEW r \in FileSlots, q # r, inside(q), inside(r)
      PROVE  moved(q) # moved(r)
  <2> SUFFICES ASSUME moved(q) = moved(r) PROVE FALSE
    OBVIOUS
  <2>1. name(q) \in Seq(Word) /\ name(r) \in Seq(Word)
    BY <1>1
  <2>2. InTree(name(q), old) /\ InTree(name(r), old)
    BY <1>3
  <2>3. name(q) = name(r)
    BY <2>1, <2>2, MovedApart
  <2> QED BY <1>3, <2>3 DEF Unique
<1>4. ASSUME NEW q \in FileSlots, NEW r \in FileSlots, q # r, base[q].used, base[r].used
      PROVE  name(q) # name(r)
  BY <1>4 DEF Unique
<1> HIDE DEF name, moved, inside
<1>5. ASSUME NEW q \in FileSlots, NEW r \in FileSlots, q # r, m[q].used, m[r].used
      PROVE  m[q].name # m[r].name
  <2>1. base[q].used /\ base[r].used
    BY <1>1, <1>5
  <2>2. /\ m[q].name = name(q) \/ (inside(q) /\ m[q].name = moved(q))
        /\ m[r].name = name(r) \/ (inside(r) /\ m[r].name = moved(r))
    BY <1>1, <1>5
  <2>3. /\ name(q) # name(r) /\ (inside(q) => moved(q) # name(r))
        /\ inside(r) => moved(r) # name(q)
        /\ inside(q) /\ inside(r) => moved(q) # moved(r)
    BY <1>2, <1>3, <1>4, <1>5, <2>1
  <2> QED BY <2>2, <2>3
<1> QED BY <1>5 DEF Unique

LEMMA RenameNames ==
  ASSUME MovesUp = FALSE, HbfsInv, NamesInv, NEW old \in Paths, NEW new \in Paths,
         posix_rename(old, new)
  PROVE  NamesInv'
<1> DEFINE s == fs_find_file(old)
           target == IF Exists(new) THEN fs_find_file(new) ELSE s
           base == RenameBase(s, target)
           without == RenameWithout(s, target)
           after == RenameAfter(s, base, old, new)
           tab == RenameTab(s, base, without, after)
           versions == RenameVersions(s, target, without, tab)
           errs == RenameErrs(s, target, base, without, after, tab)
<1> SUFFICES ASSUME ~failed' PROVE Unique(files')
  BY DEF NamesInv, Unique
<1>1. /\ s \in FileSlots /\ files[s].used /\ files[s].name = old /\ target \in FileSlots
      /\ files[target].used /\ (\A r \in FileSlots : base[r].used => base[r].name # new)
      /\ files[s].type = 1 => ~Conflict(base, old, new) /\ ~InTree(new, old)
      /\ Children(s) = {} \/ ~InTree(old, new)
      /\ \/ Completes(after, versions) /\ UNCHANGED opened
         \/ backend = "hbfs" /\ CutWhile("rename", versions)
         \/ backend = "hbfs" /\ FailWhile(versions, errs)
  BY RenameIs
<1> HIDE DEF s, target
<1>2. /\ base \in Tables /\ without \in Tables /\ after \in Tables /\ tab \in Tables
      /\ backend = "hbfs" /\ ~failed => without = base /\ tab = after
  <2>1. s \in FileSlots /\ target \in FileSlots /\ files[s].used
    BY <1>1
  <2> QED BY <2>1, RenameTables
<1>3. \A r \in FileSlots : base[r] = files[r] \/ base[r] = Free
  BY <1>1, TypesAre DEF RenameBase, Tables
<1>4. target = s => base = files
  BY DEF RenameBase
<1> HIDE DEF base, without, after, tab
<1>5. /\ versions \in Seq(Tables) /\ 1 \in DOMAIN versions
      /\ versions[1] = IF target = s THEN tab ELSE without
      /\ \A i \in DOMAIN versions : versions[i] \in {without, tab}
      /\ \A i \in DOMAIN versions : i # 1 => versions[i] = tab
  BY <1>2, RenameVersionsAre
<1> HIDE DEF versions, errs
<1>6. ~failed
  BY <1>1 DEF Completes, CutWhile, FailWhile
<1>7. Unique(files) /\ (backend = "hbfs" => disk = files /\ without = base /\ tab = after)
  BY <1>2, <1>6 DEF NamesInv, HbfsInv, DiskTold
<1>8. \/ \A r \in FileSlots : files'[r] \in {base[r], files[r]}
      \/ \A r \in FileSlots : files'[r] \in {base[r], after[r]}
  <2>1. CASE files' = after
    BY <2>1
  <2>2. CASE backend = "hbfs" /\ CutWhile("rename", versions)
    <3>1. PICK i \in DOMAIN versions, k \in {0} \cup Sectors : files' = Written(versions, i, k)
      BY <2>2 DEF CutWhile, Mounts
    <3>2. \A r \in FileSlots : files'[r] \in {versions[i][r], Before(versions, i)[r]}
      BY <3>1 DEF Written, Before
    <3>3. CASE i = 1 /\ target = s
      BY <1>4, <1>5, <1>7, <2>2, <3>2, <3>3 DEF Before
    <3>4. CASE i = 1 /\ target # s
      BY <1>5, <1>7, <2>2, <3>2, <3>4 DEF Before
    <3>5. CASE i # 1
      <4>1. i - 1 \in DOMAIN versions /\ Before(versions, i) = versions[i - 1]
        BY <1>5, <3>5 DEF Before
      <4>2. versions[i] \in {base, after} /\ Before(versions, i) \in {base, after}
        BY <1>5, <1>7, <2>2, <4>1
      <4> QED BY <3>2, <4>2
    <3> QED BY <3>3, <3>4, <3>5
  <2> QED BY <1>1, <2>1, <2>2 DEF Completes, FailWhile
<1>9. \A r \in FileSlots : base[r].used => files[r].used /\ base[r].name = files[r].name
  BY <1>3, FreeIs
<1>10. CASE \A r \in FileSlots : files'[r] \in {base[r], files[r]}
  <2>1. \A r \in FileSlots : files'[r].used => files[r].used /\ files'[r].name = files[r].name
    BY <1>9, <1>10
  <2> QED BY <1>7, <2>1, UniqueSame
<1>11. CASE \A r \in FileSlots : files'[r] \in {base[r], after[r]}
  <2>1. CASE files[s].type = 1
    <3>1. after = Renamed(base, old, new)
      BY <2>1 DEF after, RenameAfter
    <3>2. old \in Seq(Word) /\ new \in Seq(Word)
      BY PathsAreWords
    <3>3. Unique(base)
      BY <1>7, <1>9, UniqueSame
    <3>4. ASSUME InTree(old, new), NEW r \in FileSlots, base[r].used, InTree(base[r].name, old)
          PROVE  r = s
      BY <1>1, <1>9, <3>4 DEF Children
    <3>5. \A r \in FileSlots : files'[r] \in {base[r], Renamed(base, old, new)[r]}
      BY <1>11, <3>1
    <3>6. ~Conflict(base, old, new) /\ ~InTree(new, old)
      BY <1>1, <2>1
    <3>7. InTree(old, new) =>
            \A q, r \in FileSlots :
              base[q].used /\ InTree(base[q].name, old) /\ base[r].used /\ InTree(base[r].name, old)
              => q = r
      BY <3>4
    <3> QED BY <1>2, <3>2, <3>3, <3>5, <3>6, <3>7, TreeUnique
  <2>2. CASE files[s].type # 1
    <3>1. after = [base EXCEPT ![s].name = new]
      BY <2>2 DEF after, RenameAfter
    <3>2. \A r \in FileSlots : base[r] \in EntryType
      BY <1>2 DEF Tables
    <3>3. \A x \in EntryType : [x EXCEPT !.name = new].name = new
      BY DEF EntryType
    <3>4. after[s].name = new /\ \A r \in FileSlots \ {s} : after[r] = base[r]
      <4>1. after[s] = [base[s] EXCEPT !.name = new] /\ \A r \in FileSlots \ {s} : after[r] = base[r]
        BY <1>1, <1>2, <3>1 DEF Tables
      <4> QED BY <1>1, <3>2, <3>3, <4>1
    <3>5. \A r \in FileSlots \ {s} : files'[r] = base[r]
      BY <1>11, <3>4
    <3>6. files'[s] = base[s] \/ files'[s].name = new
      BY <1>1, <1>11, <3>4
    <3>7. Adds(files', s, new)
      BY <1>1, <1>9, <3>5, <3>6 DEF Adds
    <3> QED BY <1>7, <3>7, UniqueAdd
  <2> QED BY <2>1, <2>2
<1> QED BY <1>8, <1>10, <1>11

\* A disk that was never used holds nothing that a format could leave behind.
LEMMA FormatNames ==
  ASSUME BlankDisk = TRUE, HbfsInv, hbfs_format_range
  PROVE  NamesInv'
<1> DEFINE blank == [s \in FileSlots |-> Free]
           versions == <<blank>>
<1>1. disk = [s \in FileSlots |-> Free]
  BY DEF hbfs_format_range, HbfsInv, DiskTold, Former
<1>2. \E held \in {blank} \cup {Written(versions, 1, k) : k \in {0} \cup Sectors} : files' = held
  BY DEF hbfs_format_range, Mounts
<1>3. \A k : \A r \in FileSlots : Written(versions, 1, k)[r] = Free
  BY <1>1 DEF Written
<1>4. \A r \in FileSlots : files'[r] = Free
  BY <1>2, <1>3
<1> QED BY <1>4, FreeIs DEF NamesInv, Unique

LEMMA InitNames == HbfsInit => NamesInv
  BY FreeIs DEF HbfsInit, NamesInv, Unique

LEMMA NextNames ==
  ASSUME BlankDisk = TRUE, MovesUp = FALSE, HbfsInv, NamesInv, [HbfsNext]_hbfsVars
  PROVE  NamesInv'
<1>1. ASSUME NEW name \in Paths, NEW type \in {0, 1}, Create(name, type)
      PROVE  NamesInv'
  BY <1>1, CreateNames
<1>2. ASSUME NEW name \in Paths, fs_create_symlink(name)
      PROVE  NamesInv'
  BY <1>2, SymlinkNames
<1>3. ASSUME NEW p \in Openers, NEW offset \in 0 .. MaxBlocks - 1, NEW count \in 1 .. MaxBlocks,
             Write(p, offset, count)
      PROVE  NamesInv'
  BY <1>3, WriteNames
<1>4. ASSUME NEW p \in Openers, fs_truncate_file(p)
      PROVE  NamesInv'
  BY <1>4, TruncateNames
<1>5. ASSUME NEW p \in Openers, NEW name \in Paths, unlink(p, name)
      PROVE  NamesInv'
  BY <1>5, RemoveNames
<1>6. ASSUME NEW name \in Paths, rmdir(name)
      PROVE  NamesInv'
  BY <1>6, RemoveNames
<1>7. ASSUME NEW old \in Paths, NEW new \in Paths, posix_rename(old, new)
      PROVE  NamesInv'
  BY <1>7, RenameNames
<1>8. ASSUME hbfs_format_range
      PROVE  NamesInv'
  BY <1>8, FormatNames
<1>9. ASSUME files' = files, failed' = failed
      PROVE  NamesInv'
  BY <1>9 DEF NamesInv, Unique
<1>10. ASSUME NEW p \in Openers, NEW name \in Paths, open(p, name)
       PROVE  NamesInv'
  BY <1>9, <1>10 DEF open
<1>11. ASSUME NEW p \in Openers, hbfs_close(p)
       PROVE  NamesInv'
  BY <1>9, <1>11 DEF hbfs_close
<1>12. CASE UNCHANGED hbfsVars
  BY <1>9, <1>12 DEF hbfsVars
<1> QED BY <1>1, <1>2, <1>3, <1>4, <1>5, <1>6, <1>7, <1>8, <1>10, <1>11, <1>12 DEF HbfsNext

LEMMA NamesTold == ASSUME HbfsInv, NamesInv PROVE NamesUnique
<1>1. ~failed /\ formatted => disk = files
  BY DEF HbfsInv, DiskTold
<1>2. ~failed => Unique(files)
  BY DEF NamesInv
<1> QED BY <1>1, <1>2 DEF NamesUnique, Unique

\* On a disk that was new when it was formatted, and as long as no directory is
\* moved up to the path of a missing parent, no two files ever have one name, in
\* memory or on the disk, wherever the power went, until a write fails; with the
\* theorem above this is all of HbfsSafe.
THEOREM HbfsIsSafe ==
  ASSUME ForeignUnlinks = FALSE, BlankDisk = TRUE, MovesUp = FALSE
  PROVE  HbfsSpec => []HbfsSafe
<1>1. HbfsInit => HbfsInv /\ NamesInv
  BY InitTold, InitNames
<1>2. HbfsInv /\ NamesInv /\ [HbfsNext]_hbfsVars => (HbfsInv /\ NamesInv)'
  BY NextKeeps, NextNames
<1>3. HbfsInv /\ NamesInv => HbfsSafe
  BY InvTells, NamesTold DEF HbfsSafe
<1> QED BY <1>1, <1>2, <1>3, PTL DEF HbfsSpec
=============================================================================
