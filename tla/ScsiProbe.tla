----------------------------- MODULE ScsiProbe ------------------------------
(***************************************************************************)
(* kprobe-scsi.c: two probes compare what is written to and read from the  *)
(* sectors of one file with what the file should hold. Everything is       *)
(* counted in sectors. A sector that is right holds its position in the    *)
(* file.                                                                   *)
(***************************************************************************)
EXTENDS Integers, Sequences, SequencesExt

CONSTANTS
  Cmd,             \* scsi commands in flight
  Sector,          \* of the disks
  sec_range_arr    \* the file's ranges of sectors, in the order of the file

Size(r) == sec_range_arr[r].max - sec_range_arr[r].min + 1

\* The sectors of the file, in the order of the file.
File ==
  FlattenSeq([r \in DOMAIN sec_range_arr |->
                [k \in 1..Size(r) |-> sec_range_arr[r].min + k - 1]])

ScsiAssumption ==
  /\ Sector \subseteq Nat
  /\ sec_range_arr \in Seq([min : Nat, max : Nat])
  /\ \A r \in DOMAIN sec_range_arr : sec_range_arr[r].min <= sec_range_arr[r].max
  /\ File \in Seq(Sector)
  /\ IsInjective(File)

VARIABLES
  mod,       \* the next step of kprobe_init or kprobe_exit, "in" or "out"
  file,      \* file is open
  expect,    \* how much of expect_buf has been read; the rest is zero
  planted,   \* the probes of this load: "write", "read"
  lost,      \* what earlier loads failed to do or undo
  cmd,       \* the commands in flight
  oops

scsiVars == <<mod, file, expect, planted, lost, cmd, oops>>
moduleVars == <<mod, file, expect, planted, lost>>

Init ==
  /\ mod = "out"
  /\ file = FALSE
  /\ expect = 0
  /\ planted = {}
  /\ lost = {}
  /\ cmd = [c \in {} |-> 0]
  /\ oops = FALSE

-----------------------------------------------------------------------------
(* kprobe_init and kprobe_exit *)

Load ==
  /\ mod = "out"
  /\ mod' = "read"
  /\ file' = FALSE
  /\ expect' = 0
  /\ UNCHANGED <<planted, lost, cmd, oops>>

\* read_expect_data: filp_open or kernel_read fail, and the load with them.
ReadFails ==
  /\ mod = "read"
  /\ mod' = "out"
  /\ UNCHANGED <<file, expect, planted, lost, cmd, oops>>

\* Mutation: the buffer is one sector too small for what is read.
ReadTooMuch ==
  /\ mod = "read"
  /\ file' = TRUE
  /\ expect' \in 1..Len(File) + 1
  /\ lost' = IF expect' < Len(File) THEN lost \cup {"data"} ELSE lost
  /\ mod' = "plant write"
  /\ UNCHANGED <<planted, cmd, oops>>

\* kernel_read may read less than the file has.
ReadExpectData ==
  /\ mod = "read"
  /\ file' = TRUE
  /\ expect' \in 1..Len(File)
  /\ lost' = IF expect' < Len(File) THEN lost \cup {"data"} ELSE lost
  /\ mod' = "plant write"
  /\ UNCHANGED <<planted, cmd, oops>>

Plant(from, probe, then) ==
  /\ mod = from
  /\ planted' = planted \cup {probe}
  /\ mod' = then
  /\ UNCHANGED <<file, expect, lost, cmd, oops>>

PlantWrite == Plant("plant write", "write", "plant read")

PlantRead == Plant("plant read", "read", "in")

\* register_kprobe(&write_kp) fails: nothing closes the file.
PlantWriteFails ==
  /\ mod = "plant write"
  /\ mod' = "out"
  /\ lost' = lost \cup {"file"}
  /\ UNCHANGED <<file, expect, planted, cmd, oops>>

\* register_kprobe(&read_kp) fails: nothing removes write_kp either, and the
\* module goes without it.
PlantReadFails ==
  /\ mod = "plant read"
  /\ mod' = "out"
  /\ planted' = {}
  /\ lost' = lost \cup {"file", "probe"}
  /\ UNCHANGED <<file, expect, cmd, oops>>

Unload ==
  /\ mod = "in"
  /\ mod' = "unplant write"
  /\ UNCHANGED <<file, expect, planted, lost, cmd, oops>>

Handler == [write |-> "write_handler_pre", read |-> "read_handler_pre"]

\* unregister_kprobe waits for handlers that run.
Unplant(from, probe, then) ==
  /\ mod = from
  /\ \A c \in DOMAIN cmd : cmd[c].at # Handler[probe]
  /\ planted' = planted \ {probe}
  /\ mod' = then
  /\ UNCHANGED <<file, expect, lost, cmd, oops>>

UnplantWrite == Unplant("unplant write", "write", "unplant read")

\* Mutation: only the first probe is unregistered.
ReadStays ==
  /\ mod = "unplant read"
  /\ mod' = "close"
  /\ UNCHANGED <<file, expect, planted, lost, cmd, oops>>

UnplantRead == Unplant("unplant read", "read", "close")

Close ==
  /\ mod = "close"
  /\ file' = FALSE
  /\ mod' = "out"
  /\ UNCHANGED <<expect, planted, lost, cmd, oops>>

-----------------------------------------------------------------------------
(* Commands, and the handlers *)

Position(s) == CHOOSE p \in DOMAIN File : File[p] = s

Zero == 0
Foreign == -1

\* What the k'th sector of a command holds.
Data(command, k) ==
  LET s == command.sec + k IN
  IF command.disk = "sda" /\ s \in ToSet(File) \ command.wrong
    THEN Position(s)
    ELSE Foreign

Set(c, command) ==
  cmd' = [d \in DOMAIN cmd \cup {c} |-> IF d = c THEN command ELSE cmd[d]]

\* The driver issues a command: a write, a read or something else, to the
\* disk, to the 27th disk, or to another one.
Issue(c) ==
  /\ c \notin DOMAIN cmd
  /\ \E op \in {"write", "read", "other"}, disk \in {"sda", "sdaa", "sdb"},
        sec \in Sector, len \in 1..2 :
       /\ sec + len - 1 \in Sector
       /\ \E wrong \in SUBSET (ToSet(File) \cap (sec..sec + len - 1)) :
            Set(c, [op |-> op, disk |-> disk, sec |-> sec, len |-> len,
                    wrong |-> wrong, at |-> "issued", report |-> "none"])
  /\ UNCHANGED <<moduleVars, oops>>

\* scsi_dispatch_cmd is reached. A probe of a module that has gone is fatal.
Dispatch(c) ==
  /\ cmd[c].at = "issued"
  /\ Set(c, [cmd[c] EXCEPT !.at = IF "write" \in planted THEN "write_handler_pre"
                                  ELSE "queued"])
  /\ oops' = ("probe" \in lost)
  /\ UNCHANGED moduleVars

\* sec lies in the r'th range, and in none before it.
InRange(r, sec) == sec_range_arr[r].min <= sec /\ sec <= sec_range_arr[r].max

\* Mutation: the last sector of a range belongs to the next one.
ExpectOffsetShort(r, sec) ==
  LET offset[q \in 1..r] ==
        IF q = 1 THEN 0 ELSE offset[q - 1] + Size(q - 1) - 1
  IN offset[r] + sec - sec_range_arr[r].min

\* expect_offset: what the ranges before the r'th hold, and what lies before
\* sec in that one.
ExpectOffset(r, sec) ==
  LET offset[q \in 1..r] ==   \* at the begin of the q'th range
        IF q = 1 THEN 0 ELSE offset[q - 1] + Size(q - 1)
  IN offset[r] + sec - sec_range_arr[r].min

\* expect_buf[offset]: any value behind its end.
ExpectBuf(offset) ==
  IF offset < expect THEN {offset + 1}
  ELSE IF offset < Len(File) THEN {Zero}
  ELSE {Zero, Foreign}

\* strncmp(disk_name, DEV_NAME, 3)
IsDev(disk) == disk \in {"sda", "sdaa"}

\* memcmp
MemCmp(command, r) ==
  {\E k \in 0..command.len - 1 : buf[k] # Data(command, k) :
     buf \in {b \in [0..command.len - 1 -> 0..Len(File) \cup {Foreign}] :
                \A k \in 0..command.len - 1 :
                  b[k] \in ExpectBuf(ExpectOffset(r, command.sec) + k)}}

\* scsi_is_write or scsi_is_read: one of the five operation codes of each
IsTransfer(op) == op \in {"write", "read"}

\* check_scsi_data: what it reports. kmalloc may fail.
CheckScsiData(command) ==
  LET ranges == {r \in DOMAIN sec_range_arr : InRange(r, command.sec)} IN
  IF ~IsTransfer(command.op) \/ ~IsDev(command.disk) \/ ranges = {}
    THEN {"none"}
    ELSE {"none"} \cup
         {IF differs THEN "error" ELSE "equal" :
            differs \in MemCmp(command, CHOOSE r \in ranges : \A q \in ranges : r <= q)}

\* A handler whose module has gone is fatal.
NoHandler(c) ==
  /\ cmd[c].at = "write_handler_pre"
  /\ "probe" \in lost
  /\ oops' = TRUE
  /\ UNCHANGED <<moduleVars, cmd>>

\* scsi_dispatch_cmd_check: a command that scsi_dispatch_cmd will refuse is
\* not looked at. If its device is blocked it is issued again later, else
\* it is done, with an error.
Refuse(c) ==
  /\ cmd[c].at = "write_handler_pre"
  /\ "probe" \notin lost
  /\ \E at \in {"issued", "queued"} : Set(c, [cmd[c] EXCEPT !.at = at])
  /\ UNCHANGED <<moduleVars, oops>>

\* write_handler_pre: what does not go to the device is not looked at.
WriteHandlerPre(c) ==
  /\ cmd[c].at = "write_handler_pre"
  /\ "probe" \notin lost
  /\ \E report \in IF cmd[c].op = "read" THEN {"none"} ELSE CheckScsiData(cmd[c]) :
       Set(c, [cmd[c] EXCEPT !.at = "queued", !.report = report])
  /\ UNCHANGED <<moduleVars, oops>>

\* scsi_finish_command is reached.
Finish(c) ==
  /\ cmd[c].at = "queued"
  /\ Set(c, [cmd[c] EXCEPT !.at = IF "read" \in planted THEN "read_handler_pre"
                                  ELSE "finished"])
  /\ UNCHANGED <<moduleVars, oops>>

\* read_handler_pre
ReadHandlerPre(c) ==
  /\ cmd[c].at = "read_handler_pre"
  /\ IF cmd[c].op = "read"
       THEN \E report \in CheckScsiData(cmd[c]) :
              Set(c, [cmd[c] EXCEPT !.at = "finished", !.report = report])
       ELSE Set(c, [cmd[c] EXCEPT !.at = "finished"])
  /\ UNCHANGED <<moduleVars, oops>>

Complete(c) ==
  /\ cmd[c].at = "finished"
  /\ cmd' = [d \in DOMAIN cmd \ {c} |-> cmd[d]]
  /\ UNCHANGED <<moduleVars, oops>>

Next ==
  /\ ~oops
  /\ \/ Load \/ ReadFails \/ ReadExpectData
     \/ PlantWrite \/ PlantWriteFails \/ PlantRead \/ PlantReadFails
     \/ Unload \/ UnplantWrite \/ UnplantRead \/ Close
     \/ \E c \in Cmd : Issue(c)
     \/ \E c \in DOMAIN cmd :
          \/ Dispatch(c) \/ NoHandler(c) \/ Refuse(c) \/ WriteHandlerPre(c)
          \/ Finish(c) \/ ReadHandlerPre(c) \/ Complete(c)

-----------------------------------------------------------------------------

Command ==
  [op : {"write", "read", "other"}, disk : {"sda", "sdaa", "sdb"}, sec : Sector,
   len : 1..2, wrong : SUBSET Sector,
   at : {"issued", "write_handler_pre", "queued", "read_handler_pre", "finished"},
   report : {"none", "error", "equal"}]

TypeOK ==
  /\ planted \subseteq {"write", "read"}
  /\ lost \subseteq {"data", "file", "probe"}
  /\ expect \in 0..Len(File)
  /\ DOMAIN cmd \subseteq Cmd
  /\ \A c \in DOMAIN cmd : cmd[c] \in Command

(* No handler runs, and no probe stays planted, without the module it is   *)
(* in and the data it compares with, unless an earlier load could not      *)
(* plant its second probe; the file is open as long as the module is in.   *)
Runs(probe) ==
  probe \in planted \/ \E c \in DOMAIN cmd : cmd[c].at = Handler[probe]

Planting == [write |-> "plant write", read |-> "plant read"]

ProbeHasCode ==
  /\ "probe" \notin lost =>
       \A probe \in {"write", "read"} : Runs(probe) =>
         /\ mod \notin {"out", "read", Planting[probe], "close"}
         /\ file
         /\ expect > 0
  /\ oops => "probe" \in lost

(* A difference is reported if and only if the data checked are wrong, for *)
(* a command whose sectors follow one another in the file, within a range  *)
(* or from one into the next, once the expected data have been read in     *)
(* full. Left out are a command that leaves the file, or goes on in        *)
(* another place of it, whose sectors are compared with what they should   *)
(* not hold or with what is behind expect_buf, and the disk "sdaa", which  *)
(* strncmp takes for sda: of both, data that are right are reported.       *)
WithinFile(command) ==
  /\ command.disk = "sda"
  /\ \A k \in 0..command.len - 1 :
       /\ command.sec + k \in ToSet(File)
       /\ Position(command.sec + k) = Position(command.sec) + k

RightReport(command) ==
  /\ WithinFile(command) =>
       /\ command.report = "error" => command.wrong # {}
       /\ command.report = "equal" => command.wrong = {}
  /\ command.disk = "sdb" => command.report = "none"

ReportsOnlyWrongData ==
  "data" \notin lost => \A c \in DOMAIN cmd : RightReport(cmd[c])

-----------------------------------------------------------------------------
(* Why no handler loses its code, and why what it reports is right: the    *)
(* inductive invariant                                                     *)

\* Where init and exit are says which probes are planted.
PlantedAt ==
  /\ mod \in {"out", "read", "plant write", "close"} => planted = {}
  /\ mod = "plant read" => planted = {"write"}
  /\ mod \in {"in", "unplant write"} => planted = {"write", "read"}
  /\ mod = "unplant read" => planted = {"read"}

\* A handler runs on behalf of a probe that is planted, or of one that a load
\* has left behind.
HandlersPlanted ==
  \A c \in DOMAIN cmd, probe \in {"write", "read"} :
    cmd[c].at = Handler[probe] =>
      probe \in planted \/ (probe = "write" /\ "probe" \in lost)

\* The file is open and its data are there from the time they are read.
DataStay == mod \notin {"out", "read"} => file /\ expect > 0

\* All of them, unless a load has read too little.
DataComplete == mod \notin {"out", "read"} /\ "data" \notin lost => expect = Len(File)

\* What is wrong with a command is wrong with its sectors.
OwnSectors(command) ==
  command.wrong \subseteq command.sec..command.sec + command.len - 1

WrongWithin == \A c \in DOMAIN cmd : OwnSectors(cmd[c])

IInv ==
  /\ TypeOK
  /\ PlantedAt
  /\ HandlersPlanted
  /\ DataStay
  /\ DataComplete
  /\ WrongWithin
  /\ ReportsOnlyWrongData
  /\ oops => "probe" \in lost
=============================================================================
