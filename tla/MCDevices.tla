------------------------------ MODULE MCDevices ------------------------------
(***************************************************************************)
(* File systems, drivers, and the desktop.  They share no state: focus,    *)
(* chosen at the start, is the one that moves, so a run explores the sum   *)
(* of their state spaces.                                                  *)
(***************************************************************************)
EXTENDS Hbfs, Fat32, Ext2, Drivers, Desktop

VARIABLE focus

MCPaths == {<<"d">>, <<"e">>, <<"d", "x">>}
\* "d" is a directory; of the other names "x", "g" and "h" are in it.
MCExtParent == [n \in ExtNames |-> IF n = "x" THEN "d" ELSE Root]
MCFatParent == [n \in FatNames |-> IF n \in {"g", "h"} THEN "d" ELSE Top]
MCShort == [n \in FatNames |-> n]

\* No FAT32 or ext2 volume is corrupted or loses what was reported as written.
VolumesSafe ==
  /\ focus = "fat32" => Fat32Safe
  /\ focus = "ext2" => Ext2Safe

DevicesInit ==
  /\ focus \in {"files", "fat32", "ext2", "xhci", "storage", "pointer", "ring", "wm", "windows"}
  /\ HbfsInit /\ Fat32Init /\ Ext2Init /\ XhciInit /\ StorageInit
  /\ PointerInit /\ RingInit /\ WmInit /\ WinInit

DevicesNext ==
  /\ UNCHANGED focus
  /\ \/ /\ focus = "files" /\ HbfsNext
        /\ UNCHANGED <<fatVars, ext2Vars, xhciVars, storageVars, pointerVars, ringVars,
                       wmVars, winVars>>
     \/ /\ focus = "fat32" /\ Fat32Next
        /\ UNCHANGED <<hbfsVars, ext2Vars, xhciVars, storageVars, pointerVars, ringVars,
                       wmVars, winVars>>
     \/ /\ focus = "ext2" /\ Ext2Next
        /\ UNCHANGED <<hbfsVars, fatVars, xhciVars, storageVars, pointerVars, ringVars,
                       wmVars, winVars>>
     \/ /\ focus = "xhci" /\ XhciNext
        /\ UNCHANGED <<hbfsVars, fatVars, ext2Vars, storageVars, pointerVars, ringVars,
                       wmVars, winVars>>
     \/ /\ focus = "storage" /\ StorageNext
        /\ UNCHANGED <<hbfsVars, fatVars, ext2Vars, xhciVars, pointerVars, ringVars,
                       wmVars, winVars>>
     \/ /\ focus = "pointer" /\ PointerNext
        /\ UNCHANGED <<hbfsVars, fatVars, ext2Vars, xhciVars, storageVars, ringVars,
                       wmVars, winVars>>
     \/ /\ focus = "ring" /\ RingNext
        /\ UNCHANGED <<hbfsVars, fatVars, ext2Vars, xhciVars, storageVars, pointerVars,
                       wmVars, winVars>>
     \/ /\ focus = "wm" /\ WmNext
        /\ UNCHANGED <<hbfsVars, fatVars, ext2Vars, xhciVars, storageVars, pointerVars,
                       ringVars, winVars>>
     \/ /\ focus = "windows" /\ WinNext
        /\ UNCHANGED <<hbfsVars, fatVars, ext2Vars, xhciVars, storageVars, pointerVars,
                       ringVars, wmVars>>

devicesVars == <<focus, hbfsVars, fatVars, ext2Vars, xhciVars, storageVars, pointerVars,
  ringVars, wmVars, winVars>>
DevicesSpec == DevicesInit /\ [][DevicesNext]_devicesVars

\* States differ in the component that moves.
Moving ==
  CASE focus = "files" -> <<focus, hbfsVars>>
    [] focus = "fat32" -> <<focus, fatVars>>
    [] focus = "ext2" -> <<focus, ext2Vars>>
    [] focus = "xhci" -> <<focus, xhciVars>>
    [] focus = "storage" -> <<focus, storageVars>>
    [] focus = "pointer" -> <<focus, pointerVars>>
    [] focus = "ring" -> <<focus, ringVars>>
    [] focus = "wm" -> <<focus, wmVars>>
    [] focus = "windows" -> <<focus, winVars>>
=============================================================================
