------------------------------ MODULE Inotify ------------------------------
(***************************************************************************)
(* One inotify instance of linux_compat.c: its watches, which name paths,  *)
(* its ring of events, and the calls of vfs.c that report changes to it.   *)
(* Instances do not share anything, so one stands for all.                 *)
(*                                                                         *)
(* A path is a sequence of names; node maps a path to the identity of what *)
(* it names.  A reader keeps, per watch of a directory, the names it       *)
(* believes are there (ghost mirror): it applies the events it reads, and  *)
(* looks again when it reads that events were lost.                        *)
(***************************************************************************)
EXTENDS Naturals, Sequences, SequencesExt, FiniteSets

CONSTANTS
  NodePaths,    \* the paths of the tree, the root <<>> among them
  FirstTree,    \* the paths that exist at the start, in a sequence
  DirPaths,     \* the paths that name directories
  WatchCount,   \* LINUX_INOTIFY_WATCHES
  EventCount,   \* LINUX_INOTIFY_EVENTS
  MaskForms,    \* the masks programs ask for, as sets of event names
  MaxWatch,     \* bound: watch descriptors handed out
  MaxNode,      \* bound: identities of files and directories
  MaxMoves      \* bound: renames, each with a cookie of its own

VARIABLES
  node,         \* path -> identity, 0 if nothing has that name
  ino_watches,      \* slot->watches
  queue,        \* slot->events, oldest first
  overflow,     \* slot->overflow_pending
  next_wd,      \* slot->next_descriptor
  next_node,    \* identities handed out
  cookie,       \* inotify_next_cookie
  mirror,       \* ghost: per descriptor, the names its reader believes in
  gone          \* ghost: the descriptors whose end the reader was told

inotifyVars == <<node, ino_watches, queue, overflow, next_wd, next_node, cookie, mirror, gone>>

NoInotifyWatch == [used |-> FALSE, wd |-> 0, isDir |-> FALSE, mask |-> {}, path |-> <<>>, id |-> 0]
InotifySlots == 1 .. WatchCount
IsNode(path) == node[path] # 0
ParentOf(path) == Front(path)
Entries(tree, dir) ==
  {Last(p) : p \in {q \in NodePaths \ {<<>>} : tree[q] # 0 /\ ParentOf(q) = dir}}
Listed == {"CREATE", "DELETE", "MOVED_FROM", "MOVED_TO"} \* what a mirror needs

InotifyInit ==
  /\ node = [p \in NodePaths |-> Cardinality({i \in DOMAIN FirstTree :
                                   \E j \in DOMAIN FirstTree : FirstTree[j] = p /\ i <= j})]
  /\ ino_watches = [w \in InotifySlots |-> NoInotifyWatch]
  /\ queue = <<>> /\ overflow = FALSE
  /\ next_wd = 1
  /\ next_node = Len(FirstTree)
  /\ cookie = 0
  /\ mirror = [d \in 1 .. MaxWatch |-> {}]
  /\ gone = {}
-----------------------------------------------------------------------------
(* The ring.  st is [watches, queue, overflow] in the middle of a call.    *)

Event(wd, mask, c, name) == [wd |-> wd, mask |-> mask, cookie |-> c, name |-> name]

\* Mutant: an event is merged with any equal one in the ring.
QueueMergesAny(st, event) ==
  IF \E i \in DOMAIN st.queue : st.queue[i] = event THEN st
  ELSE IF Len(st.queue) >= EventCount THEN [st EXCEPT !.overflow = TRUE]
  ELSE [st EXCEPT !.queue = Append(@, event)]

\* An event equal to the newest one is merged with it; one too many is lost.
inotify_queue(st, event) ==
  IF st.queue # <<>> /\ Last(st.queue) = event THEN st
  ELSE IF Len(st.queue) >= EventCount THEN [st EXCEPT !.overflow = TRUE]
  ELSE [st EXCEPT !.queue = Append(@, event)]

\* The end of a watch is an event of its own.
Dropped(st, w) ==
  [inotify_queue(st, Event(st.ino_watches[w].wd, "IGNORED", 0, ""))
     EXCEPT !.ino_watches[w] = NoInotifyWatch]

\* A call visits the watches in the order of their slots.
Visited(st, Visit(_, _)) == FoldLeft(Visit, st, [w \in InotifySlots |-> w])
Now == [ino_watches |-> ino_watches, queue |-> queue, overflow |-> overflow]
Set(st) == /\ ino_watches' = st.ino_watches /\ queue' = st.queue /\ overflow' = st.overflow
-----------------------------------------------------------------------------
(* What the calls of vfs.c report *)

\* A watch of the path gets the event, one of its directory gets it with the
\* name; a one-shot watch and one of a deleted file end with it.
NotifyWatch(st, w, path, mask) ==
  LET watch == st.ino_watches[w]
      exact == watch.path = path
      atDir == watch.isDir /\ path # <<>> /\ watch.path = ParentOf(path)
      told == IF exact THEN mask ELSE IF mask = "DELETE_SELF" THEN "DELETE" ELSE mask
      sent == inotify_queue(st, Event(watch.wd, told, 0, IF exact THEN "" ELSE Last(path)))
  IN  IF ~watch.used \/ ~(exact \/ atDir) \/ told \notin watch.mask THEN st
      ELSE IF "ONESHOT" \in watch.mask \/ told = "DELETE_SELF" THEN Dropped(sent, w)
      ELSE sent

linux_compat_inotify_notify(st, path, mask) ==
  Visited(st, LAMBDA s, w : NotifyWatch(s, w, path, mask))

\* InotifySlots of a file that a rename replaces end, whatever their mask.
ReplaceWatch(st, w, path) ==
  LET watch == st.ino_watches[w]
  IN  IF ~watch.used \/ watch.path # path THEN st
      ELSE Dropped(IF "DELETE_SELF" \in watch.mask
                   THEN inotify_queue(st, Event(watch.wd, "DELETE_SELF", 0, "")) ELSE st, w)

linux_compat_inotify_replace_target(st, path) ==
  Visited(st, LAMBDA s, w : ReplaceWatch(s, w, path))

Moved(path, old, new) == new \o SubSeq(path, Len(old) + 1, Len(path))

\* One half of a move as a directory's watch sees it.
MoveHalf(st, w, dir, mask, c, name) ==
  LET watch == st.ino_watches[w]
      sent == inotify_queue(st, Event(watch.wd, mask, c, name))
  IN  IF ~watch.used \/ ~watch.isDir \/ watch.path # dir \/ mask \notin watch.mask THEN st
      ELSE IF "ONESHOT" \in watch.mask THEN Dropped(sent, w) ELSE sent

\* The watch of what moved is told, then follows it, and so do the watches
\* below a moved directory; the two directories' watches see their halves.
MoveWatch(st, w, old, new, isDir, c) ==
  LET watch == st.ino_watches[w]
      exact == watch.path = old
      self == IF exact /\ "MOVE_SELF" \in watch.mask
              THEN inotify_queue(st, Event(watch.wd, "MOVE_SELF", 0, "")) ELSE st
      follows == exact \/ (isDir /\ IsPrefix(old, watch.path))
      moved == IF follows THEN [self EXCEPT !.ino_watches[w].path = Moved(@, old, new)] ELSE self
  IN  IF ~watch.used THEN st
      ELSE IF exact /\ {"ONESHOT", "MOVE_SELF"} \subseteq watch.mask THEN Dropped(self, w)
      ELSE MoveHalf(MoveHalf(moved, w, ParentOf(old), "MOVED_FROM", c, Last(old)),
                    w, ParentOf(new), "MOVED_TO", c, Last(new))

linux_compat_inotify_move(st, old, new, isDir, c) ==
  Visited(st, LAMBDA s, w : MoveWatch(s, w, old, new, isDir, c))
-----------------------------------------------------------------------------
(* vfs_create and vfs_mkdir, vfs_write, vfs_unlink and vfs_rmdir, vfs_rename *)

vfs_create(path) ==
  /\ ~IsNode(path) /\ next_node < MaxNode
  /\ node' = [node EXCEPT ![path] = next_node + 1]
  /\ next_node' = next_node + 1
  /\ Set(linux_compat_inotify_notify(Now, path, "CREATE"))
  /\ UNCHANGED <<next_wd, cookie, mirror, gone>>

vfs_write(path) ==
  /\ IsNode(path) /\ path \notin DirPaths
  /\ Set(linux_compat_inotify_notify(Now, path, "MODIFY"))
  /\ UNCHANGED <<node, next_wd, next_node, cookie, mirror, gone>>

\* rmdir refuses a directory with entries.
vfs_unlink(path) ==
  /\ IsNode(path) /\ path # <<>>
  /\ Entries(node, path) = {}
  /\ node' = [node EXCEPT ![path] = 0]
  /\ Set(linux_compat_inotify_notify(Now, path, "DELETE_SELF"))
  /\ UNCHANGED <<next_wd, next_node, cookie, mirror, gone>>

\* A target is removed and its watches end before the source is renamed.
vfs_rename(old, new) ==
  LET isDir == old \in DirPaths
      tree == [p \in NodePaths |->
                 IF IsPrefix(new, p)
                 THEN (IF Moved(p, new, old) \in NodePaths THEN node[Moved(p, new, old)] ELSE 0)
                 ELSE IF IsPrefix(old, p) THEN 0 ELSE node[p]]
  IN  /\ IsNode(old) /\ old # <<>> /\ new # <<>> /\ old # new
      /\ (new \in DirPaths) = isDir
      /\ ParentOf(new) \in NodePaths /\ IsNode(ParentOf(new))
      /\ Entries(node, new) = {}
      /\ cookie < MaxMoves
      /\ cookie' = cookie + 1
      /\ node' = tree
      /\ Set(linux_compat_inotify_move(
               IF IsNode(new) THEN linux_compat_inotify_replace_target(Now, new) ELSE Now,
               old, new, isDir, cookie + 1))
      /\ UNCHANGED <<next_wd, next_node, mirror, gone>>
-----------------------------------------------------------------------------
(* inotify_add_watch, inotify_rm_watch, read *)

FreeWatches == {w \in InotifySlots : ~ino_watches[w].used}
OfPath(path) == {w \in InotifySlots : ino_watches[w].used /\ ino_watches[w].path = path}

\* A new mask replaces the old one or, with IN_MASK_ADD, joins it.  Readers ask
\* for it when they have read the watch's events.
linux_compat_inotify_add_watch(path, mask) ==
  /\ IsNode(path)
  /\ IF OfPath(path) # {}
     THEN LET w == CHOOSE v \in OfPath(path) : \A u \in OfPath(path) : v <= u
          IN  /\ \A i \in DOMAIN queue : queue[i].wd # ino_watches[w].wd
              /\ \E m \in {mask, mask \cup ino_watches[w].mask} :
                   ino_watches' = [ino_watches EXCEPT ![w].mask = m]
              /\ mirror' = [mirror EXCEPT ![ino_watches[w].wd] = Entries(node, path)]
              /\ UNCHANGED next_wd
     ELSE LET w == CHOOSE v \in FreeWatches : \A u \in FreeWatches : v <= u
          IN  /\ FreeWatches # {} /\ next_wd <= MaxWatch
              /\ next_wd' = next_wd + 1
              /\ ino_watches' = [ino_watches EXCEPT ![w] =
                   [used |-> TRUE, wd |-> next_wd, isDir |-> path \in DirPaths,
                    mask |-> mask, path |-> path, id |-> node[path]]]
              /\ mirror' = [mirror EXCEPT ![next_wd] = Entries(node, path)]
  /\ UNCHANGED <<node, queue, overflow, next_node, cookie, gone>>

linux_compat_inotify_rm_watch(w) ==
  /\ ino_watches[w].used
  /\ Set(Dropped(Now, w))
  /\ UNCHANGED <<node, next_wd, next_node, cookie, mirror, gone>>

Applied(names, event) ==
  CASE event.mask \in {"CREATE", "MOVED_TO"} -> names \cup {event.name}
    [] event.mask \in {"DELETE", "MOVED_FROM"} -> names \ {event.name}
    [] OTHER -> names

\* The overflow record is read when the ring is empty; the reader then looks
\* at its directories again.
inotify_read ==
  \/ /\ queue # <<>>
     /\ queue' = Tail(queue)
     /\ mirror' = [mirror EXCEPT ![Head(queue).wd] = Applied(@, Head(queue))]
     /\ gone' = IF Head(queue).mask = "IGNORED" THEN gone \cup {Head(queue).wd} ELSE gone
     /\ UNCHANGED <<node, ino_watches, overflow, next_wd, next_node, cookie>>
  \/ /\ queue = <<>> /\ overflow
     /\ overflow' = FALSE
     /\ mirror' = [d \in 1 .. MaxWatch |->
                     UNION {Entries(node, ino_watches[w].path) :
                            w \in {v \in InotifySlots :
                                     ino_watches[v].used /\ ino_watches[v].wd = d}}]
     /\ gone' = {d \in 1 .. next_wd - 1 : \A w \in InotifySlots : ino_watches[w].wd # d}
     /\ UNCHANGED <<node, ino_watches, queue, next_wd, next_node, cookie>>

InotifyNext ==
  \/ \E path \in NodePaths : \/ vfs_create(path) \/ vfs_write(path) \/ vfs_unlink(path)
  \/ \E old, new \in NodePaths : vfs_rename(old, new)
  \/ \E path \in NodePaths, mask \in MaskForms : linux_compat_inotify_add_watch(path, mask)
  \/ \E w \in InotifySlots : linux_compat_inotify_rm_watch(w)
  \/ inotify_read

InotifySpec == InotifyInit /\ [][InotifyNext]_inotifyVars
-----------------------------------------------------------------------------
(* Properties *)

InotifyTypeOK ==
  /\ node \in [NodePaths -> 0 .. MaxNode]
  /\ \A w \in InotifySlots : /\ ino_watches[w].path \in NodePaths
                             /\ ino_watches[w].wd \in 0 .. MaxWatch
  /\ Len(queue) <= EventCount

\* A reader that lists a directory when it starts to watch it and applies every
\* event knows its names: merging equal events, renames of the directory itself
\* and of what it holds, and replaced targets lose nothing but what an overflow
\* record announces.
MirrorAgrees ==
  ~overflow => \A w \in InotifySlots :
    ino_watches[w].used /\ ino_watches[w].isDir /\ Listed \subseteq ino_watches[w].mask =>
      FoldLeft(Applied, mirror[ino_watches[w].wd],
               SelectSeq(queue, LAMBDA e : e.wd = ino_watches[w].wd))
        = Entries(node, ino_watches[w].path)

\* A watch names the file it was added for, through renames of the file and of
\* its directories, until it ends.
WatchesFollowFiles ==
  \A w \in InotifySlots : ino_watches[w].used /\ "DELETE_SELF" \in ino_watches[w].mask =>
    node[ino_watches[w].path] = ino_watches[w].id

\* The end of a watch is told to its reader, or an overflow is.
EndIsTold ==
  \A d \in 1 .. next_wd - 1 :
    \/ \E w \in InotifySlots : ino_watches[w].used /\ ino_watches[w].wd = d
    \/ d \in gone \/ overflow
    \/ \E i \in DOMAIN queue : queue[i].wd = d /\ queue[i].mask = "IGNORED"

InotifySafe == InotifyTypeOK /\ MirrorAgrees /\ WatchesFollowFiles /\ EndIsTold

\* A watch of a deleted file ends with IN_IGNORED, whatever events it asked for
\* (inotify_replace_target ends them so; vfs_unlink's notification does not).
DeletedFilesEndWatches ==
  \A w \in InotifySlots : ino_watches[w].used => node[ino_watches[w].path] = ino_watches[w].id
=============================================================================
