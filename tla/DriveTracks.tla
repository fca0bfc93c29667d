---------------------------- MODULE DriveTracks ----------------------------
(***************************************************************************)
(* The surface of a 1541 between the drive and the firmware                *)
(* (devices/drives.rs, c64-bridge drive.rs).  The firmware keeps the       *)
(* disk's GCR in DDR and points the param RAM at it; the drive works on a  *)
(* copy of each half-track, and what it writes is noted after each run and *)
(* carried into DDR with the DIRTY bits at the next sync.                  *)
(*                                                                         *)
(* External: the drive itself (TRX64) - head, write mode, its own dirty    *)
(* marks - and the firmware's drive task (docs/hw/11): write-back, mount,  *)
(* reset, power.  A surface is the set of writes it holds, -n those disk n *)
(* was loaded with.                                                        *)
(***************************************************************************)
EXTENDS Integers, Sequences, SequencesExt, FiniteSetsExt

CONSTANTS
    HalfTrack,    \* those of side 0 in use
    Busy,         \* WRITE_BUSY_CLOCKS in ticks
    MaxWrites,    \* bounds: writes of the drive,
    MaxSwitches   \* mounts, resets and power switches

VARIABLES
    drive,    \* the drive, its DriveSlot, its DriveRegs and the surfaces in DDR
    task,     \* the firmware's drive task and the image file of disk n
    made,     \* what each write was made on (history)
    switches

vars == << drive, task, made, switches >>

TrackOf(h) == h \div 2
Track   == {TrackOf(h) : h \in HalfTrack}
None    == -1                            \* no half-track
Dummy   == -1                            \* the firmware's dummy track
Torn    == -2                            \* a surface of one old and one new word
Surface(h) == IF h % 2 = 0 THEN TrackOf(h) ELSE Dummy

----------------------------------------------------------------------------
(* DriveSlot.                                                               *)

(* A reset's edges: TRX64 rebuilds the rotation, the surface stays; released, *)
(* the head is on track 1.                                                   *)
Update(d) ==
    LET reset == d.resetReg \/ d.c64Reset
    IN  CASE reset /\ ~d.reset -> [d EXCEPT !.reset = TRUE, !.writing = FALSE, !.gcrDirty = FALSE, !.mark = None]
          [] ~reset /\ d.reset -> [d EXCEPT !.reset = FALSE, !.head = 0, !.lastHead = 0, !.lastMark = None]
          [] OTHER -> d

WrittenNoStep(d) ==                                                  \* a mutant
    (IF d.writing \/ d.gcrDirty THEN {d.head, d.mark} ELSE {}) \cup (IF d.mark # d.lastMark THEN {d.mark} ELSE {})

(* What a run may have written: under the head, where TRX64 marked it, or     *)
(* where the head stepped off.                                              *)
Written(d) ==
    (IF d.writing \/ d.gcrDirty THEN {d.head, d.mark} ELSE {})
      \cup (IF d.mark # d.lastMark THEN {d.mark} ELSE {})
      \cup (IF d.head # d.lastHead THEN {d.lastHead} ELSE {})

AfterRun(d) ==
    [d EXCEPT !.written = @ \cup (Written(d) \cap HalfTrack), !.gcrDirty = FALSE, !.lastHead = d.head, !.lastMark = d.mark]

----------------------------------------------------------------------------
(* DriveRegs.                                                               *)

Writable(d) == d.inserted /\ d.lit

Refreshed(d) ==
    [d EXCEPT !.busy = IF d.power /\ d.writing THEN Busy ELSE @]

Handed(d) ==
    [d EXCEPT !.stale = {}, !.disk = [h \in HalfTrack |-> IF h \in d.stale THEN d.ddr[d.params[h]] ELSE @[h]]]

(* One written half-track: into DDR with its DIRTY bit, or back to what the   *)
(* disk holds                                                               *)
Carried(d, h) ==
    LET at     == d.params[h]
        marked == d.ddr[at] # d.disk[h] \/ (d.power /\ d.writing /\ d.head = h)
    IN  IF ~Writable(d) THEN [d EXCEPT !.disk[h] = d.ddr[at]]
        ELSE [d EXCEPT !.ddr[at] = d.disk[h], !.any = @ \/ marked, !.dirty = IF marked THEN @ \cup {TrackOf(h)} ELSE @]

SyncDisk(d) ==
    LET ready == Refreshed(Handed(d))
    IN  FoldLeft(Carried, [ready EXCEPT !.written = {}], SetToSortSeq(ready.written, <))

(* Writes of the registers *)
WriteParam(d, h, surface) == [d EXCEPT !.params[h] = surface, !.stale = @ \cup {h}]
ClearAny(d)      == [SyncDisk(d) EXCEPT !.any = FALSE]
ClearDirty(d, t) == [SyncDisk(d) EXCEPT !.dirty = @ \ {t}]
SetReset(d, on)  == Update([d EXCEPT !.resetReg = on, !.busy = IF on THEN 0 ELSE @])

(* The tick, a millisecond on *)
Tick ==
    /\ drive' = SyncDisk([drive EXCEPT !.busy = IF @ > 0 THEN @ - 1 ELSE 0])
    /\ task' = IF task.pc = "wait" THEN [task EXCEPT !.pc = "map", !.at = 0] ELSE task
    /\ UNCHANGED << made, switches >>

----------------------------------------------------------------------------
(* The drive: a run with at most one step of the head, and in write mode a    *)
(* write where it starts or where it ends.  Then what the bridge notes.      *)

Wrote(d, new)   == IF new = {} THEN d ELSE [d EXCEPT !.disk[d.head] = @ \cup new, !.gcrDirty = TRUE, !.mark = d.head]
Stepped(d, h)   == IF h = d.head THEN d ELSE [d EXCEPT !.head = h, !.gcrDirty = FALSE]
Made(h) == [disk |-> task.disk, at |-> h,
            on |-> IF task.pc = "insert" \/ h \in drive.stale THEN "gap" ELSE IF Writable(drive) THEN "disk" ELSE "air"]

Run(h, before, after, writing) ==
    /\ drive.power /\ ~drive.reset
    /\ drive' = AfterRun(Wrote(Stepped(Wrote([drive EXCEPT !.writing = writing], before), h), after))
    /\ UNCHANGED << task, switches >>

DriveReads == \E h \in HalfTrack : Run(h, {}, {}, FALSE) /\ UNCHANGED made

DriveWrites ==
    /\ Len(made) < MaxWrites /\ drive.lit
    /\ \E h \in HalfTrack, writing \in BOOLEAN :
         \/ Run(h, {Len(made) + 1}, {}, writing) /\ made' = Append(made, Made(drive.head))
         \/ Run(h, {}, {Len(made) + 1}, writing) /\ made' = Append(made, Made(h))

----------------------------------------------------------------------------
(* The firmware's drive task, one access a step.                             *)

Task(at) == task.pc = at /\ UNCHANGED made
Stays    == UNCHANGED switches
Switch   == switches < MaxSwitches /\ switches' = switches + 1
Goes(pc) == task' = [task EXCEPT !.pc = pc]

(* The next of the tracks or half-tracks, or on *)
Following(range, pc) ==
    LET later == {i \in range : i > task.at}
    IN  IF later # {} THEN [task EXCEPT !.at = Min(later), !.pc = pc[1]] ELSE [task EXCEPT !.at = 0, !.pc = pc[2]]

Poll ==
    /\ Task("idle") /\ Stays /\ drive.power
    /\ drive' = SyncDisk(drive)
    /\ IF drive'.any \/ task.skipped THEN Goes("clear") ELSE UNCHANGED task

Clear ==
    /\ Task("clear") /\ Stays
    /\ drive' = ClearAny(drive)
    /\ task' = [task EXCEPT !.pc = "scan", !.at = 0, !.skipped = FALSE, !.forgot = FALSE]

Scan ==
    /\ Task("scan") /\ Stays
    /\ drive' = SyncDisk(drive)
    /\ task' = IF task.at \in drive'.dirty THEN [task EXCEPT !.pc = "look"] ELSE Following(Track, << "scan", "idle" >>)

(* STATUS and TRACK *)
Look ==
    /\ Task("look") /\ Stays
    /\ drive' = Refreshed(drive)
    /\ task' = IF drive'.busy = 0 \/ TrackOf(drive'.head) # task.at THEN [task EXCEPT !.pc = "ack"]
               ELSE [Following(Track, << "scan", "idle" >>) EXCEPT !.skipped = TRUE]

Ack == Task("ack") /\ Stays /\ drive' = ClearDirty(drive, task.at) /\ Goes("save")

Save ==
    /\ Task("save") /\ Stays /\ UNCHANGED drive
    /\ task' = [Following(Track, << "scan", "idle" >>) EXCEPT !.file[task.at] = drive.ddr[task.at]]

(* check_if_save_needed, which a changed disk stops; remove_disk, the load,   *)
(* insert_disk: dark, wait, params, light, inserted                          *)
Mount ==
    /\ Task("idle") /\ Switch
    /\ drive' = SyncDisk(drive)
    /\ IF drive'.any THEN UNCHANGED task ELSE Goes("eject")

Eject ==
    /\ Task("eject") /\ Stays
    /\ drive' = Update([drive EXCEPT !.inserted = FALSE])
    /\ task' = [task EXCEPT !.pc = "unmap", !.at = 0]

(* One word, then the other *)
Map(pc, surface, next) ==
    /\ Task(pc) /\ Stays
    /\ IF drive.params[task.at] # Torn /\ drive.params[task.at] # surface
       THEN drive' = WriteParam(drive, task.at, Torn) /\ UNCHANGED task
       ELSE /\ drive' = WriteParam(IF pc = "map" THEN ClearDirty(drive, TrackOf(task.at)) ELSE drive, task.at, surface)
            /\ task' = Following(HalfTrack, << pc, next >>)

Load ==
    /\ Task("load") /\ Stays
    /\ drive' = [drive EXCEPT !.ddr = [s \in DOMAIN @ |-> IF s \in Track THEN {-(task.disk + 1)} ELSE @[s]]]
    /\ task' = [task EXCEPT !.pc = "dark", !.disk = @ + 1, !.file = [t \in Track |-> {-(task.disk + 1)}]]

Dark   == Task("dark") /\ Stays /\ drive' = Update([drive EXCEPT !.lit = FALSE]) /\ Goes("wait")
Light  == Task("light") /\ Stays /\ drive' = Update([drive EXCEPT !.lit = TRUE]) /\ Goes("insert")
Insert == Task("insert") /\ Stays /\ drive' = Update([drive EXCEPT !.inserted = TRUE]) /\ Goes("idle")

ResetDrive  == Task("idle") /\ Switch /\ drive' = SetReset(drive, TRUE) /\ Goes("release")
ReleaseDrive == Task("release") /\ Stays /\ drive' = SetReset(drive, FALSE) /\ Goes("idle")

(* drive_power: a reset, and DIRTY forgotten *)
PowerOff ==
    /\ Task("idle") /\ Switch /\ drive.power /\ UNCHANGED task
    /\ drive' = Update([drive EXCEPT !.power = FALSE, !.writing = FALSE, !.gcrDirty = FALSE, !.mark = None])

PowerOn   == Task("idle") /\ Stays /\ ~drive.power /\ drive' = SetReset([drive EXCEPT !.power = TRUE], TRUE) /\ Goes("on")
PoweredOn == Task("on") /\ Stays /\ drive' = SetReset(drive, FALSE) /\ Goes("forget")
Forget ==
    /\ Task("forget") /\ Stays
    /\ drive' = ClearAny(drive)
    /\ task' = [task EXCEPT !.pc = "idle", !.forgot = TRUE]

(* The C64's reset, which the drive follows *)
C64Reset ==
    /\ (drive.c64Reset \/ switches < MaxSwitches)
    /\ drive' = Update([drive EXCEPT !.c64Reset = ~@])
    /\ switches' = IF drive.c64Reset THEN switches ELSE switches + 1
    /\ UNCHANGED << task, made >>

----------------------------------------------------------------------------
Init ==
    /\ drive = [head |-> 0, writing |-> FALSE, gcrDirty |-> FALSE, mark |-> None,
                disk |-> [h \in HalfTrack |-> IF Surface(h) = Dummy THEN {} ELSE {-1}],
                written |-> {}, lastHead |-> 0, lastMark |-> None, reset |-> FALSE,
                power |-> TRUE, resetReg |-> FALSE, c64Reset |-> FALSE, lit |-> TRUE, inserted |-> TRUE,
                params |-> [h \in HalfTrack |-> Surface(h)], stale |-> {}, dirty |-> {}, any |-> FALSE, busy |-> 0,
                ddr |-> [s \in Track \cup {Dummy, Torn} |-> IF s \in Track THEN {-1} ELSE {}]]
    /\ task = [pc |-> "idle", at |-> 0, skipped |-> FALSE, forgot |-> FALSE, disk |-> 1, file |-> [t \in Track |-> {-1}]]
    /\ made = << >>
    /\ switches = 0

Next ==
    \/ DriveReads \/ DriveWrites \/ Tick \/ C64Reset
    \/ Poll \/ Clear \/ Scan \/ Look \/ Ack \/ Save
    \/ Mount \/ Eject \/ Map("unmap", Dummy, "load") \/ Load \/ Dark \/ Map("map", Surface(task.at), "light") \/ Light \/ Insert
    \/ ResetDrive \/ ReleaseDrive \/ PowerOff \/ PowerOn \/ PoweredOn \/ Forget

Spec == Init /\ [][Next]_vars

----------------------------------------------------------------------------
(* Properties.                                                              *)

Mounted == task.pc \notin {"unmap", "load", "dark", "wait", "map", "light", "insert"}

(* The drive's copy of a half-track is the disk, but for what the next sync   *)
(* carries, and holds all that was written on it since it was mounted.       *)
CopyKept ==
    /\ \A h \in HalfTrack \ (drive.stale \cup drive.written) :
         drive.params[h] \in Track => drive.disk[h] = drive.ddr[drive.params[h]]
    /\ Mounted => \A w \in DOMAIN made : made[w].disk = task.disk /\ made[w].on = "disk" => w \in drive.disk[made[w].at]

(* What the image file lacks has its DIRTY bit, and the task will come to     *)
(* look at the bit, unless it forgot it at power-on.                         *)
ImageFollows ==
    Mounted =>
      /\ \A t \in Track : drive.ddr[t] # task.file[t] => t \in drive.dirty \/ (task.pc = "save" /\ task.at = t)
      /\ \A t \in drive.dirty :
           \/ drive.any \/ task.skipped \/ task.forgot
           \/ task.pc = "clear" \/ (task.pc \in {"scan", "look", "ack", "save"} /\ task.at <= t)

(* Only what was written on the disk in the drive reaches it, on its own      *)
(* track, and nothing is written where no surface is.                        *)
OwnDisk ==
    /\ drive.ddr[Torn] = {}
    /\ \A t \in Track : \A w \in drive.ddr[t] :
         w > 0 => made[w].disk = task.disk /\ made[w].on # "air" /\ TrackOf(made[w].at) = t

(* What the DOS writes reaches the image of the disk it was written on. *)
DiskKept == CopyKept /\ ImageFollows /\ OwnDisk
=============================================================================
