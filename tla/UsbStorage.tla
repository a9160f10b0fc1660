----------------------------- MODULE UsbStorage -----------------------------
(***************************************************************************)
(* Sectors on a USB stick (usb_msc.c, over xhci_bulk_transfer_packet).  A  *)
(* command is a wrapper sent OUT, its data OUT or IN, and a status read IN.*)
(* Each endpoint has a queue of transfers and one completion, which belongs*)
(* to whoever looks at it next.  A transfer that takes too long is given   *)
(* up: it stays in its queue, over a buffer that has been freed.           *)
(***************************************************************************)
EXTENDS Integers, Sequences

CONSTANTS
  Storers,     \* tasks that read and write sectors
  Lbas,        \* sectors
  Data,        \* what a sector may hold
  MaxCommands, \* commands issued
  MaxTimeouts   \* transfers given up

VARIABLES
  storing, \* task -> [pc, op, lba, value, tag, got]
  bulkPipes,   \* "out", "in" -> transfers posted, in order
  done,    \* "out", "in" -> [set, ok, residue]: ep_has_data, ep_transfer_residue
  inbuf,   \* task -> what its IN buffer holds
  tag,     \* dev->tag
  stick,   \* the device: [phase, op, lba, tag, status, residue]
  medium,  \* sector -> what it holds
  expected, \* sector -> what was last written with success; Unknown since a write began
  succeeded, \* the answer just given: [op, lba, value], or NoAnswer
  abandoned  \* transfers given up

storageVars ==
  <<storing, bulkPipes, done, inbuf, tag, stick, medium, expected, succeeded, abandoned>>

CbwLength == 31
CswLength == 13
SectorLength == 512
Garbage == "garbage"
Unknown == "unknown"
Nobody == "nobody"

ASSUME UsbStorageAssumption ==
  /\ MaxCommands \in Nat /\ MaxTimeouts \in Nat
  /\ Nobody \notin Storers /\ Lbas # {}

NoAnswer == [op |-> "none"]
Pipes == {"out", "in"}
Resting == [pc |-> "rest", op |-> "none", lba |-> "none", value |-> Garbage,
            tag |-> 0, got |-> Garbage]
NotDone == [set |-> FALSE, ok |-> FALSE, residue |-> 0]
Zeroes == [kind |-> "zeroes"]

Packet(kind, len, body) == [kind |-> kind, len |-> len, body |-> body]
Sector(v) == Packet("sector", SectorLength, v)

(***************************************************************************)
(* The driver.                                                             *)
(***************************************************************************)
\* The wait of a transfer is over: its buffer is freed, and what is still
\* posted over it belongs to nobody.
Disowned(t, x) == IF x.of = t THEN [x EXCEPT !.of = Nobody] ELSE x
Freed(t) ==
  [e \in Pipes |-> [i \in DOMAIN bulkPipes[e] |-> Disowned(t, bulkPipes[e][i])]]

\* xhci_bulk_transfer_packet, up to its wait, after the wait on pipe "last":
\* the completions of both are cleared.
PostTransfer(t, last, e, packet) ==
  /\ bulkPipes' = [Freed(t) EXCEPT ![e] = Append(@, [of |-> t, packet |-> packet])]
  /\ done' = [done EXCEPT ![last] = NotDone, ![e] = NotDone]
  /\ inbuf' = IF e = "in" THEN [inbuf EXCEPT ![t] = Zeroes] ELSE inbuf

\* Its result: bytes moved, or -1.
DataMoved(e, len) ==
  IF ~done[e].ok THEN -1 ELSE IF done[e].residue <= len THEN len - done[e].residue ELSE 0

EndCommand(t, answer) ==
  /\ storing' = [storing EXCEPT ![t] = Resting]
  /\ succeeded' = answer
  /\ bulkPipes' = Freed(t)

\* msc_read_sector, msc_write_sector: the command goes out.
msc_do_command(t, op, l, v) ==
  /\ storing[t].pc = "rest" /\ tag < MaxCommands
  /\ tag' = tag + 1
  /\ PostTransfer(t, "out", "out", Packet("cbw", CbwLength, [op |-> op, lba |-> l, tag |-> tag + 1]))
  /\ storing' = [storing EXCEPT ![t] = [pc |-> "cbw", op |-> op, lba |-> l, value |-> v,
                                        tag |-> tag + 1, got |-> Garbage]]
  /\ expected' = IF op = "write" THEN [expected EXCEPT ![l] = Unknown] ELSE expected
  /\ succeeded' = NoAnswer
  /\ UNCHANGED <<stick, medium, abandoned>>

DataPipe(s) == IF s.op = "read" THEN "in" ELSE "out"

\* The wrapper is out: the data.
SendData(t) ==
  LET s == storing[t] IN
  /\ s.pc = "cbw" /\ done["out"].set
  /\ IF DataMoved("out", CbwLength) # CbwLength
       THEN EndCommand(t, NoAnswer) /\ done' = [done EXCEPT !["out"] = NotDone]
            /\ UNCHANGED inbuf
       ELSE /\ PostTransfer(t, "out", DataPipe(s),
                            Sector(IF s.op = "read" THEN Garbage ELSE s.value))
            /\ storing' = [storing EXCEPT ![t].pc = "data"] /\ succeeded' = NoAnswer
  /\ UNCHANGED <<tag, stick, medium, expected, abandoned>>

\* The data are through: the status.
AskStatus(t) ==
  LET s == storing[t]
      e == DataPipe(s) IN
  /\ s.pc = "data" /\ done[e].set
  /\ IF DataMoved(e, SectorLength) < 0
       THEN EndCommand(t, NoAnswer) /\ done' = [done EXCEPT ![e] = NotDone]
            /\ UNCHANGED inbuf
       ELSE /\ PostTransfer(t, e, "in", Packet("csw", CswLength, 0))
            /\ storing' = [storing EXCEPT
                 ![t] = [@ EXCEPT !.pc = "csw",
                           !.got = [bytes |-> DataMoved(e, SectorLength), packet |-> inbuf[t]]]]
            /\ succeeded' = NoAnswer
  /\ UNCHANGED <<tag, stick, medium, expected, abandoned>>

\* What must hold of the status for the command to have succeeded.
TagIsOurs(csw, t) == csw.body.tag = storing[t].tag
StatusIsGood(t) ==
  LET csw == inbuf[t] IN
  /\ csw.kind = "csw"
  /\ TagIsOurs(csw, t)
  /\ csw.body.residue <= SectorLength
  /\ csw.body.status = 0
  /\ storing[t].got.bytes = SectorLength - csw.body.residue

GetStatus(t) ==
  LET s == storing[t] IN
  /\ s.pc = "csw" /\ done["in"].set
  /\ done' = [done EXCEPT !["in"] = NotDone]
  \* a read or a write asks for the whole sector
  /\ IF DataMoved("in", CswLength) = CswLength /\ StatusIsGood(t) /\ s.got.bytes = SectorLength
       THEN /\ EndCommand(t, [op |-> s.op, lba |-> s.lba,
                              value |-> IF s.op = "write" THEN s.value
                                        ELSE IF s.got.packet.kind = "sector" THEN s.got.packet.body
                                        ELSE Garbage])
            /\ expected' = IF s.op = "write" THEN [expected EXCEPT ![s.lba] = s.value] ELSE expected
       ELSE EndCommand(t, NoAnswer) /\ UNCHANGED expected
  /\ UNCHANGED <<inbuf, tag, stick, medium, abandoned>>

\* The deadline of the wait: the transfer stays posted and nobody owns it.
GiveUp(t) ==
  /\ storing[t].pc # "rest" /\ abandoned < MaxTimeouts
  /\ LET e == IF storing[t].pc = "cbw" THEN "out"
              ELSE IF storing[t].pc = "csw" THEN "in" ELSE DataPipe(storing[t]) IN
     ~done[e].set
  /\ abandoned' = abandoned + 1
  /\ EndCommand(t, NoAnswer)
  /\ UNCHANGED <<done, inbuf, tag, stick, medium, expected>>

(***************************************************************************)
(* The stick.  What it takes from a freed buffer may be what was there or  *)
(* anything.  A packet that is no command stalls it for good: the driver   *)
(* never resets it.                                                        *)
(***************************************************************************)
Fetched(x) == {x.packet} \cup (IF x.of = Nobody THEN {[x.packet EXCEPT !.kind = Garbage]} ELSE {})

TakeOut(ok) ==
  /\ bulkPipes' = [bulkPipes EXCEPT !["out"] = Tail(@)]
  /\ done' = [done EXCEPT !["out"] = [set |-> TRUE, ok |-> ok, residue |-> 0]]

StickTakesCommand ==
  /\ stick.phase = "command" /\ bulkPipes["out"] # <<>>
  /\ \E p \in Fetched(Head(bulkPipes["out"])) :
       IF p.kind = "cbw"
         THEN /\ TakeOut(TRUE)
              /\ stick' = [phase |-> IF p.body.op = "read" THEN "in" ELSE "out", op |-> p.body.op,
                           lba |-> p.body.lba, tag |-> p.body.tag, status |-> 0, residue |-> 0]
         ELSE TakeOut(FALSE) /\ stick' = [stick EXCEPT !.phase = "stalled"]
  /\ succeeded' = NoAnswer
  /\ UNCHANGED <<storing, inbuf, tag, medium, expected, abandoned>>

\* A packet shorter than the sector ends the data; the write may fail.
StickTakesData ==
  /\ stick.phase = "out" /\ bulkPipes["out"] # <<>>
  /\ TakeOut(TRUE)
  /\ \E p \in Fetched(Head(bulkPipes["out"])), failed \in BOOLEAN :
       /\ stick' = [stick EXCEPT !.phase = "status", !.status = IF failed THEN 1 ELSE 0,
                                 !.residue = SectorLength - p.len]
       /\ medium' = IF failed THEN medium
                    ELSE [medium EXCEPT
                            ![stick.lba] = IF p.kind = "sector" THEN p.body ELSE Garbage]
  /\ succeeded' = NoAnswer
  /\ UNCHANGED <<storing, inbuf, tag, expected, abandoned>>

\* A packet that does not fit the buffer ends its transfer with an error.
GiveIn(p) ==
  LET x == Head(bulkPipes["in"]) IN
  /\ bulkPipes' = [bulkPipes EXCEPT !["in"] = Tail(@)]
  /\ done' = [done EXCEPT !["in"] = 
       [set |-> TRUE, ok |-> p.len <= x.packet.len,
        residue |-> IF p.len <= x.packet.len THEN x.packet.len - p.len ELSE 0]]
  /\ inbuf' = IF x.of # Nobody /\ p.len <= x.packet.len THEN [inbuf EXCEPT ![x.of] = p] ELSE inbuf

StickGivesData ==
  /\ stick.phase = "in" /\ bulkPipes["in"] # <<>>
  /\ \E failed \in BOOLEAN :
       /\ GiveIn(Sector(IF failed THEN Garbage ELSE medium[stick.lba]))
       /\ stick' = [stick EXCEPT !.phase = "status", !.status = IF failed THEN 1 ELSE 0]
  /\ succeeded' = NoAnswer
  /\ UNCHANGED <<storing, tag, medium, expected, abandoned>>
StickGivesStatus ==
  /\ stick.phase = "status" /\ bulkPipes["in"] # <<>>
  /\ GiveIn(Packet("csw", CswLength,
                   [tag |-> stick.tag, status |-> stick.status, residue |-> stick.residue]))
  /\ stick' = [stick EXCEPT !.phase = "command"]
  /\ succeeded' = NoAnswer
  /\ UNCHANGED <<storing, tag, medium, expected, abandoned>>

StorageInit ==
  /\ storing = [t \in Storers |-> Resting]
  /\ bulkPipes = [e \in Pipes |-> <<>>]
  /\ done = [e \in Pipes |-> NotDone]
  /\ inbuf = [t \in Storers |-> Zeroes]
  /\ tag = 0
  /\ stick = [phase |-> "command", op |-> "read", lba |-> CHOOSE l \in Lbas : TRUE, tag |-> 0,
              status |-> 0, residue |-> 0]
  /\ medium \in [Lbas -> {CHOOSE v \in Data : TRUE}]
  /\ expected = medium
  /\ succeeded = NoAnswer /\ abandoned = 0

StorageNext ==
  \/ \E t \in Storers :
       \/ \E l \in Lbas : msc_do_command(t, "read", l, Garbage)
       \/ \E l \in Lbas, v \in Data : msc_do_command(t, "write", l, v)
       \/ SendData(t) \/ AskStatus(t) \/ GetStatus(t) \/ GiveUp(t)
  \/ StickTakesCommand \/ StickTakesData \/ StickGivesData \/ StickGivesStatus

StorageSpec == StorageInit /\ [][StorageNext]_storageVars

(***************************************************************************)
(* Properties.                                                             *)
(***************************************************************************)
StorageTypeOK ==
  /\ \A t \in Storers : storing[t].pc \in {"rest", "cbw", "data", "csw"}
  /\ stick.phase \in {"command", "out", "in", "status", "stalled"}
  /\ tag \in 0 .. MaxCommands /\ abandoned \in 0 .. MaxTimeouts

\* What a command answers with success has happened: the sector that was read
\* holds the value returned, the one that was written the value given.
SuccessIsTrue == succeeded # NoAnswer => medium[succeeded.lba] = succeeded.value

\* A sector holds what was last written with success, until another write of
\* it begins; commands to other sectors, and transfers given up, leave it.
MediumHoldsData == \A l \in Lbas : expected[l] # Unknown => medium[l] = expected[l]

StorageSafe == StorageTypeOK /\ SuccessIsTrue /\ MediumHoldsData
=============================================================================
