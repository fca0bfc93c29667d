------------------------------- MODULE UsbDir -------------------------------
(***************************************************************************)
(* One --usb-dir stick: a host directory served to the guest as a FAT      *)
(* image.  Three actors share it:                                          *)
(*   - the emulation thread (ue2emu/src/usbdir.rs), which runs the guest   *)
(*     one slice at a time and polls the stick between two slices;         *)
(*   - the worker thread (ue2-vfat/src/worker.rs), which owns the volume   *)
(*     (ue2-vfat/src/volume.rs) and syncs and rebuilds it;                 *)
(*   - the user, who edits the host directory, sends usb-sync and          *)
(*     usb-replug, quits, and may kill the program at any point.           *)
(* The content of the volume is abstracted to the set of guest writes it   *)
(* holds: writes are numbered in order, and the question is where each one *)
(* is (an image file, the host, a file kept aside) and what the next run   *)
(* does with it.  How one sync applies a plan to the host path by path is  *)
(* module UsbDirSync; here a sync has an outcome and moves writes.         *)
(***************************************************************************)
EXTENDS Integers, Sequences

CONSTANTS
    Image,          \* names of image files in the work directory
    NoImage,        \* "no image": nothing was ever built
    MaxWrites,      \* bound: guest writes in a behaviour
    MaxEdits,       \* bound: edits of the host directory in a behaviour
    MaxRequests,    \* bound: usb-sync and usb-replug commands in a behaviour
    MaxRuns,        \* bound: starts of the program in a behaviour
    ReadOnlyModes,  \* how a run may open the stick: TRUE is ",ro"
    Faults          \* which operations may fail (FaultKind)

FaultKind == { "marker", "snapshot", "parse", "guard", "io", "incomplete",
               "discard", "build", "save", "open", "scan", "nofit" }

ASSUME UsbDirAssumption ==
    /\ NoImage \notin Image
    /\ MaxWrites \in Nat /\ MaxEdits \in Nat /\ MaxRequests \in Nat /\ MaxRuns \in Nat
    /\ ReadOnlyModes \subseteq BOOLEAN
    /\ Faults \subseteq FaultKind

VARIABLES
    (* what survives a crash: the work directory and the host directory *)
    files,       \* image files present under an image-<n>.img name
    holds,       \* holds[i]: guest writes in image i
    manifest,    \* the image the saved manifest describes
    marker,      \* the `unsynced` marker file exists (DirPort::marked while running)
    aside,       \* guest writes in discarded-*.img and unsynced-*.img files
    onHost,      \* guest writes that reached the host directory
    hostDiff,    \* the host differs from the manifest's host side
    (* the emulation thread *)
    pc,          \* where the program is: starting, in a slice, in a poll, stopping
    readOnly,    \* DirSpec::read_only
    attached,    \* DirPort::image, whose open file backs the stick
    writes,      \* the CountingBackend's counter, continued over the runs
    seen,        \* DirPort::seen
    synced,      \* DirPort::synced; NeverSynced stands for u64::MAX
    failed,      \* DirPort::failed; NotFailed stands for None
    failedParse, \* DirPort::failed_parse
    blocked,     \* DirPort::blocked
    hostChanged, \* DirPort::host_changed is Some
    job,         \* DirPort::job
    queue,       \* UsbDirs::queue
    stopping,    \* UsbDirs::stopping
    quiet,       \* which quiet times have passed since DirPort::last_write
    plug,        \* the stick on its hub port: "in", "out", or "due" (plug-in pending)
    (* the channels, and the snapshot file between the two threads *)
    request, reply, notice, event, snap,
    (* the worker thread *)
    wpc,         \* stage of the replug it is working on
    newImage,    \* the image being built
    old,         \* the image the manifest described before the build
    announced,   \* HostWatch::announced
    hold,        \* HostWatch::hold: "none", "same", or "stale" (the host differs from it)
    checkAt,     \* a host check is due
    newDiff,     \* the host changed since the build in progress scanned it
    (* bounds and history *)
    edits, requests, runs,
    slice,       \* writes whose marker is not on disk yet
    unchanged    \* a replug failed and nothing changed since

work     == << files, holds, manifest, aside >>
port     == << synced, failed, failedParse, blocked >>
watch    == << announced, hold, checkAt >>
channel  == << request, reply, snap >>
vars     == << work, marker, onHost, hostDiff, pc, readOnly, attached, writes, seen, port,
               hostChanged, job, queue, stopping, quiet, plug, channel, notice, event,
               wpc, newImage, old, watch, newDiff, edits, requests, runs, slice, unchanged >>

NeverSynced == -1
NotFailed   == -1
Write       == 1 .. MaxWrites
None        == [kind |-> "none"]
SyncError   == { "parse", "guard", "io", "incomplete" }
Outcome     == {"ok"} \cup SyncError
Request     == [kind: {"sync"}, force: BOOLEAN]
                 \cup [kind: {"replug"}, discard: BOOLEAN, sync: BOOLEAN]
Reply       == [kind: {"synced"}, result: Outcome]
                 \cup [kind: {"replugged"}, built: BOOLEAN, result: Outcome]
Idle        == [kind |-> "idle"]
Job         == {Idle} \cup [kind: {"sync"}, at: 0 .. MaxWrites, explicit: BOOLEAN]
                 \cup [kind: {"rebuild"}, at: 0 .. MaxWrites, sync: BOOLEAN, explicit: BOOLEAN]
                 \cup [kind: {"plugging"}, explicit: BOOLEAN]
Command     == [kind: {"sync"}, force: BOOLEAN, started: BOOLEAN, late: BOOLEAN]
                 \cup [kind: {"replug"}, discard: BOOLEAN, started: BOOLEAN, late: BOOLEAN]
Starting    == { "keep", "clean", "build", "save" }
Polling     == { "commands", "request", "poll", "reply", "plugged", "pump", "auto", "end" }
Stopping    == { "finish", "halt", "last", "exit" }

(* DirPort::dirty, quiet_emulated and quiet. *)
Dirty         == ~readOnly /\ writes # synced
QuietEmulated == quiet \in {"emulated", "both"}
Quiet         == quiet = "both"

TypeStore ==
    /\ files \subseteq Image /\ holds \in [Image -> SUBSET Write]
    /\ manifest \in Image \cup {NoImage} /\ attached \in Image \cup {NoImage}
    /\ newImage \in Image \cup {NoImage} /\ old \in Image \cup {NoImage}
    /\ aside \subseteq Write /\ onHost \subseteq Write
    /\ snap \subseteq Write /\ slice \subseteq Write

TypeFlags ==
    /\ marker \in BOOLEAN /\ hostDiff \in BOOLEAN /\ readOnly \in BOOLEAN
    /\ failedParse \in BOOLEAN /\ blocked \in BOOLEAN
    /\ hostChanged \in BOOLEAN /\ stopping \in BOOLEAN
    /\ notice \in BOOLEAN /\ event \in BOOLEAN
    /\ announced \in BOOLEAN /\ checkAt \in BOOLEAN
    /\ newDiff \in BOOLEAN /\ unchanged \in BOOLEAN

TypeCounts ==
    /\ writes \in 0 .. MaxWrites /\ seen \in 0 .. MaxWrites
    /\ synced \in {NeverSynced} \cup 0 .. MaxWrites
    /\ failed \in {NotFailed} \cup 0 .. MaxWrites
    /\ edits \in 0 .. MaxEdits /\ requests \in 0 .. MaxRequests /\ runs \in 0 .. MaxRuns

TypeStages ==
    /\ pc \in {"down", "run"} \cup Starting \cup Polling \cup Stopping
    /\ quiet \in {"busy", "emulated", "both"} /\ plug \in {"in", "out", "due"}
    /\ wpc \in {"idle", "build", "save", "open"} /\ hold \in {"none", "same", "stale"}

TypeMessages ==
    /\ job \in Job /\ queue \in Seq(Command)
    /\ request \in Request \cup {None} /\ reply \in Reply \cup {None}

TypeOK == TypeStore /\ TypeFlags /\ TypeCounts /\ TypeStages /\ TypeMessages

-----------------------------------------------------------------------------
Init ==
    /\ files = {} /\ holds = [i \in Image |-> {}] /\ manifest = NoImage /\ marker = FALSE
    /\ aside = {} /\ onHost = {} /\ hostDiff = FALSE
    /\ pc = "down" /\ readOnly = FALSE /\ attached = NoImage
    /\ writes = 0 /\ seen = 0 /\ synced = 0
    /\ failed = NotFailed /\ failedParse = FALSE /\ blocked = FALSE
    /\ hostChanged = FALSE /\ job = Idle /\ queue = << >>
    /\ stopping = FALSE /\ quiet = "both" /\ plug = "in"
    /\ request = None /\ reply = None /\ notice = FALSE /\ event = FALSE /\ snap = {}
    /\ wpc = "idle" /\ newImage = NoImage /\ old = NoImage
    /\ announced = FALSE /\ hold = "none" /\ checkAt = FALSE /\ newDiff = FALSE
    /\ unchanged = FALSE
    /\ edits = 0 /\ requests = 0 /\ runs = 0 /\ slice = {}

-----------------------------------------------------------------------------
(* DirVolume::prepare, one file operation at a time: the program can be     *)
(* killed between any two.  A prepare that fails ends the program, which is *)
(* Kill.                                                                    *)

(* Mutant: a resumed image is taken for a synced one. *)
AttachSynced(i, lastSynced) ==
    /\ attached' = i /\ synced' = writes /\ seen' = writes /\ pc' = "run"

Attach(i, lastSynced) ==
    /\ attached' = i /\ synced' = lastSynced /\ seen' = writes /\ pc' = "run"

Start ==
    /\ pc = "down" /\ runs < MaxRuns
    /\ runs' = runs + 1
    /\ readOnly' \in ReadOnlyModes
    /\ \/ /\ marker /\ manifest \in files /\ ~readOnly'
          /\ Attach(manifest, NeverSynced)
       \/ /\ ~(marker /\ manifest \in files /\ ~readOnly')
          /\ pc' = IF marker THEN "keep" ELSE "clean"
          /\ UNCHANGED << attached, synced, seen >>
    /\ UNCHANGED << work, marker, onHost, hostDiff, writes, failed, failedParse, blocked,
                    hostChanged, job, queue, stopping, quiet, plug, channel, notice, event,
                    wpc, newImage, old, watch, newDiff, edits, requests, slice, unchanged >>

PrepareUnchanged ==
    UNCHANGED << onHost, readOnly, writes, failed, failedParse, blocked, hostChanged, job,
                 queue, stopping, quiet, plug, channel, notice, event, wpc, old, watch,
                 edits, requests, runs, slice, unchanged >>

PrepareKeep ==
    /\ pc = "keep"
    /\ \/ \E i \in files :
            /\ files' = files \ {i} /\ aside' = aside \cup holds[i]
            /\ UNCHANGED << pc, marker >>
       \/ /\ files = {}
          /\ marker' = FALSE /\ pc' = "clean"
          /\ UNCHANGED << files, aside >>
    /\ UNCHANGED << holds, manifest, hostDiff, attached, synced, seen, newImage, newDiff >>
    /\ PrepareUnchanged

PrepareClean ==
    /\ pc = "clean"
    /\ \/ \E i \in files : files' = files \ {i} /\ pc' = pc
       \/ files = {} /\ pc' = "build" /\ files' = files
    /\ UNCHANGED << holds, manifest, aside, marker, hostDiff, attached, synced, seen,
                    newImage, newDiff >>
    /\ PrepareUnchanged

(* DirVolume::build takes the first free number above the manifest's: a name *)
(* that neither a file nor the manifest nor the attached image has.          *)
FreeImage == Image \ (files \cup {manifest, attached})

PrepareBuild ==
    /\ pc = "build"
    /\ \E i \in FreeImage :
         /\ newImage' = i /\ files' = files \cup {i} /\ holds' = [holds EXCEPT ![i] = {}]
    /\ newDiff' = FALSE /\ pc' = "save"
    /\ UNCHANGED << manifest, aside, marker, hostDiff, attached, synced, seen >>
    /\ PrepareUnchanged

PrepareSave ==
    /\ pc = "save"
    /\ manifest' = newImage /\ hostDiff' = newDiff
    /\ newImage' = NoImage /\ newDiff' = FALSE
    /\ Attach(newImage, writes)
    /\ UNCHANGED << files, holds, aside, marker >>
    /\ PrepareUnchanged

-----------------------------------------------------------------------------
(* The run slice: the guest writes, the clocks advance, the hub plugs in.   *)

SliceUnchanged ==
    UNCHANGED << files, manifest, marker, onHost, hostDiff, pc, readOnly, attached, seen, port,
                 hostChanged, job, stopping, channel, notice, event, wpc, newImage, old,
                 watch, newDiff, edits, requests, runs, unchanged >>

(* After a discard whose rebuild failed, the open file is the discarded one. *)
GuestWrite ==
    /\ pc = "run" /\ plug = "in" /\ ~readOnly /\ writes < MaxWrites
    /\ writes' = writes + 1
    /\ holds' = IF attached \in files
                THEN [holds EXCEPT ![attached] = @ \cup {writes + 1}] ELSE holds
    /\ aside' = IF attached \in files THEN aside ELSE aside \cup {writes + 1}
    /\ slice' = slice \cup {writes + 1}
    /\ UNCHANGED << queue, quiet, plug >>
    /\ SliceUnchanged

(* QUIET_MS emulated, then QUIET_WALL wall clock, without a guest write; and *)
(* EXPLICIT_WAIT_MS emulated since a request was queued.                     *)
TimePasses ==
    /\ pc = "run"
    /\ \/ /\ quiet # "both"
          /\ quiet' = IF quiet = "busy" THEN "emulated" ELSE "both"
          /\ UNCHANGED queue
       \/ /\ \E k \in DOMAIN queue : ~queue[k].late
          /\ queue' = [k \in DOMAIN queue |-> [queue[k] EXCEPT !.late = TRUE]]
          /\ UNCHANGED quiet
    /\ UNCHANGED << holds, aside, writes, slice, plug >>
    /\ SliceUnchanged

(* Mutant: an unplug does not cancel a plug-in that is due. *)
HubPlugEager ==
    /\ pc = "run" /\ plug # "in"
    /\ plug' = "in"
    /\ UNCHANGED << holds, aside, writes, slice, queue, quiet >>
    /\ SliceUnchanged

(* UsbHost::plug_in_due: the driver acknowledged the unplug, or 5 s passed. *)
HubPlug ==
    /\ pc = "run" /\ plug = "due"
    /\ plug' = "in"
    /\ UNCHANGED << holds, aside, writes, slice, queue, quiet >>
    /\ SliceUnchanged

Goto(from, to) ==
    /\ pc = from /\ pc' = to
    /\ UNCHANGED << work, marker, onHost, hostDiff, readOnly, attached, writes, seen, port,
                    hostChanged, job, queue, stopping, quiet, plug, channel, notice, event,
                    wpc, newImage, old, watch, newDiff, edits, requests, runs, slice, unchanged >>

EndSlice == Goto("run", "commands")

-----------------------------------------------------------------------------
(* DirPort::mark: nothing to do when the marker is as asked; a failed file  *)
(* operation leaves it for the next attempt.                                *)
Mark(unsynced) ==
    \/ marker' = unsynced
    \/ "marker" \in Faults /\ marker' = marker

(* DirPort::take_snapshot copies the file the port knows as its image. *)
CanSnapshot  == attached \in files
SnapshotFails == ~CanSnapshot \/ "snapshot" \in Faults

(* Mutant: the write count a sync will have synced is off by one. *)
StartSyncOffByOne(force, explicit) ==
    /\ CanSnapshot
    /\ snap' = holds[attached]
    /\ request' = [kind |-> "sync", force |-> force]
    /\ job' = [kind |-> "sync", at |-> writes + 1, explicit |-> explicit]

(* DirPort::start_sync; its failure changes nothing here. *)
StartSync(force, explicit) ==
    /\ CanSnapshot
    /\ snap' = holds[attached]
    /\ request' = [kind |-> "sync", force |-> force]
    /\ job' = [kind |-> "sync", at |-> writes, explicit |-> explicit]

(* DirPort::start_replug: unplug at once, snapshot if there is something to *)
(* sync, hand over to the worker, and forget the pending host change.       *)
StartReplug(discard, explicit) ==
    LET sync == Dirty /\ ~discard
    IN  /\ sync => CanSnapshot
        /\ snap' = IF sync THEN holds[attached] ELSE {}
        /\ request' = [kind |-> "replug", discard |-> discard, sync |-> sync]
        /\ job' = [kind |-> "rebuild", at |-> writes, sync |-> sync, explicit |-> explicit]
        /\ plug' = "out" /\ hostChanged' = FALSE

(* Its snapshot failed: plug back in (set_connected(true) after an unplug   *)
(* leaves a plug-in pending) and report.                                    *)
ReplugFails(discard) == Dirty /\ ~discard /\ SnapshotFails /\ plug' = "due"

(* Mutant: a command does not wait for the job at work. *)
MayStartBusy ==
    /\ queue # << >> /\ ~Head(queue).started
    /\ readOnly \/ QuietEmulated \/ Head(queue).late

(* UsbDirs::pump for the head command, when the port is idle and the guest  *)
(* quiet or the wait over.  A command that cannot start is answered.        *)
MayStart ==
    /\ queue # << >> /\ ~Head(queue).started /\ job = Idle
    /\ readOnly \/ QuietEmulated \/ Head(queue).late

Started   == queue' = << [Head(queue) EXCEPT !.started = TRUE] >> \o Tail(queue)
Answered  == queue' = Tail(queue)

PumpHead ==
    LET c == Head(queue)
    IN  \/ /\ c.kind = "sync" /\ readOnly
           /\ Answered /\ UNCHANGED << snap, request, job, plug, hostChanged >>
        \/ /\ c.kind = "sync" /\ ~readOnly
           /\ StartSync(c.force, TRUE) /\ Started /\ UNCHANGED << plug, hostChanged >>
        \/ /\ c.kind = "sync" /\ ~readOnly /\ SnapshotFails
           /\ Answered /\ UNCHANGED << snap, request, job, plug, hostChanged >>
        \/ /\ c.kind = "replug"
           /\ StartReplug(c.discard, TRUE) /\ Started
        \/ /\ c.kind = "replug" /\ ReplugFails(c.discard)
           /\ Answered /\ UNCHANGED << snap, request, job, hostChanged >>

ThreadUnchanged ==
    UNCHANGED << work, onHost, hostDiff, readOnly, writes, stopping, wpc, newImage, old,
                 watch, event, newDiff, edits, runs >>

PumpUnchanged ==
    /\ ThreadUnchanged
    /\ UNCHANGED << marker, attached, seen, port, quiet, reply, notice, requests, slice >>

(* UsbDirs::request, from apply_commands: queue it; poll's pump, or         *)
(* PumpCommand at once, starts it.                                          *)
UserRequest ==
    /\ pc = "commands" /\ requests < MaxRequests
    /\ requests' = requests + 1
    /\ \E c \in Command :
         /\ ~c.started /\ ~c.late
         /\ queue' = Append(queue, c)
    /\ pc' = "request"
    /\ ThreadUnchanged
    /\ UNCHANGED << marker, attached, seen, port, hostChanged, job, quiet, plug, channel,
                    notice, slice, unchanged >>

Pump ==
    /\ \/ /\ pc \in {"request", "pump"} /\ MayStart
          /\ PumpHead
          /\ unchanged' = (unchanged /\ ~(job'.kind = "rebuild"))
          /\ pc' = pc
       \/ /\ pc \in {"request", "pump"} /\ ~MayStart
          /\ pc' = IF pc = "pump" THEN "auto" ELSE "commands"
          /\ UNCHANGED << snap, request, job, plug, hostChanged, queue, unchanged >>
    /\ PumpUnchanged

EndCommands == Goto("commands", "poll")

(* UsbDirs::poll, up to the notices: note new writes, mark a dirty stick,   *)
(* drain the worker's notices.                                              *)
PollBegin ==
    /\ pc = "poll" /\ pc' = "reply"
    /\ seen' = writes
    /\ quiet' = IF writes # seen THEN "busy" ELSE quiet
    /\ \/ /\ Dirty /\ Mark(TRUE)
          /\ slice' = IF marker' THEN {} ELSE slice
       \/ /\ ~Dirty /\ slice' = {} /\ UNCHANGED marker
    /\ hostChanged' = (hostChanged \/ notice) /\ notice' = FALSE
    /\ ThreadUnchanged
    /\ UNCHANGED << attached, port, job, queue, plug, channel, requests, unchanged >>

(* DirPort::note_sync_error. *)
NoteSyncError(e, at) ==
    /\ blocked'     = IF e = "guard" THEN TRUE ELSE blocked
    /\ failed'      = IF e = "guard" THEN failed ELSE at
    /\ failedParse' = IF e = "guard" THEN failedParse ELSE e = "parse"
    /\ synced'      = synced

(* Mutant: what the guest wrote during the sync counts as synced. *)
NoteSyncedNow(at) ==
    /\ synced' = writes /\ failed' = NotFailed /\ failedParse' = FALSE /\ blocked' = FALSE

NoteSynced(at) ==
    /\ synced' = at /\ failed' = NotFailed /\ failedParse' = FALSE /\ blocked' = FALSE

(* Mutant: the part is done, its command stays at the head. *)
FinishPartStuck(explicit) ==
    queue' = IF explicit /\ queue # << >> /\ Head(queue).started
             THEN << [Head(queue) EXCEPT !.started = FALSE] >> \o Tail(queue) ELSE queue

(* UsbDirs::finish_part: the explicit part of the head command is done. *)
FinishPart(explicit) ==
    queue' = IF explicit /\ queue # << >> /\ Head(queue).started THEN Tail(queue) ELSE queue

(* Mutant: the marker goes although the guest wrote during the sync. *)
OnSyncedUnmarks ==
    /\ reply.kind = "synced" /\ job.kind = "sync"
    /\ \/ reply.result = "ok" /\ NoteSynced(job.at) /\ Mark(FALSE)
       \/ reply.result # "ok" /\ NoteSyncError(reply.result, job.at) /\ UNCHANGED marker
    /\ job' = Idle
    /\ FinishPart(job.explicit)
    /\ UNCHANGED << attached, seen, plug, newImage >>

(* DirPort::on_reply. *)
OnSynced ==
    /\ reply.kind = "synced" /\ job.kind = "sync"
    /\ \/ /\ reply.result = "ok"
          /\ NoteSynced(job.at)
          /\ \/ writes = job.at /\ Mark(FALSE)
             \/ writes # job.at /\ UNCHANGED marker
       \/ /\ reply.result # "ok"
          /\ NoteSyncError(reply.result, job.at) /\ UNCHANGED marker
    /\ job' = Idle
    /\ FinishPart(job.explicit)
    /\ UNCHANGED << attached, seen, plug, newImage >>

OnReplugged ==
    /\ reply.kind = "replugged" /\ job.kind = "rebuild"
    /\ \/ /\ reply.built
          /\ attached' = newImage /\ newImage' = NoImage
          /\ synced' = writes /\ seen' = writes
          /\ failed'      = IF job.sync THEN NotFailed ELSE failed
          /\ failedParse' = (failedParse /\ ~job.sync)
          /\ blocked'     = (blocked /\ ~job.sync)
          /\ Mark(FALSE)
       \/ /\ ~reply.built
          /\ \/ reply.result # "ok" /\ NoteSyncError(reply.result, job.at)
             \/ reply.result = "ok" /\ job.sync /\ NoteSynced(job.at)
             \/ reply.result = "ok" /\ ~job.sync /\ UNCHANGED port
          /\ \/ Dirty' /\ UNCHANGED marker
             \/ ~Dirty' /\ Mark(FALSE)
          /\ UNCHANGED << attached, seen, newImage >>
    /\ plug' = "due"
    /\ job' = [kind |-> "plugging", explicit |-> job.explicit]
    /\ UNCHANGED queue

OnReply ==
    /\ reply # None
    /\ UNCHANGED << work, onHost, hostDiff, readOnly, writes, stopping, wpc, old, watch, event,
                    newDiff, edits, runs, hostChanged, quiet, request, snap, notice, requests,
                    slice, unchanged >>
    /\ reply' = None
    /\ OnSynced \/ OnReplugged

PollReply ==
    /\ pc = "reply" /\ pc' = "plugged"
    /\ \/ OnReply
       \/ /\ reply = None
          /\ UNCHANGED << work, marker, onHost, hostDiff, readOnly, attached, writes, seen,
                          port, hostChanged, job, queue, stopping, quiet, plug, channel,
                          notice, event, wpc, newImage, old, watch, newDiff, edits, requests,
                          runs, slice, unchanged >>

PollPlugged ==
    /\ pc = "plugged" /\ pc' = "pump"
    /\ \/ job.kind = "plugging" /\ plug = "in" /\ job' = Idle /\ FinishPart(job.explicit)
       \/ ~(job.kind = "plugging" /\ plug = "in") /\ UNCHANGED << job, queue >>
    /\ PumpUnchanged
    /\ UNCHANGED << hostChanged, plug, request, snap, unchanged >>

(* The automatic part of poll.  `wanted`: an explicit command waits for this *)
(* port.  An image that did not parse at this write count is not tried.      *)
Unparsable == failedParse /\ failed = writes

Free      == ~stopping /\ job = Idle /\ queue = << >> /\ Quiet
MayReplug == Free /\ hostChanged /\ ~Unparsable /\ ~blocked
MaySync   == /\ Free /\ Dirty /\ ~blocked /\ failed # writes
             /\ ~(hostChanged /\ (Unparsable \/ ~blocked))

Automatic ==
    /\ pc = "auto" /\ pc' = "end"
    /\ \/ /\ MayReplug
          /\ StartReplug(FALSE, FALSE) /\ UNCHANGED failed
       \/ /\ MayReplug /\ ReplugFails(FALSE)
          /\ hostChanged' = FALSE
          /\ UNCHANGED << failed, snap, request, job >>
       \/ /\ MaySync
          /\ StartSync(FALSE, FALSE) /\ UNCHANGED << failed, plug, hostChanged >>
       \/ /\ MaySync /\ SnapshotFails
          /\ failed' = writes
          /\ UNCHANGED << snap, request, job, plug, hostChanged >>
       \/ /\ ~MayReplug /\ ~MaySync
          /\ UNCHANGED << failed, snap, request, job, plug, hostChanged >>
    /\ ThreadUnchanged
    /\ UNCHANGED << marker, attached, seen, synced, failedParse, blocked, queue, quiet, reply,
                    notice, requests, slice, unchanged >>

-----------------------------------------------------------------------------
(* The end of a slice: go on, or stop.  A quit keeps the machine running     *)
(* while a guest write is recent (UsbDirs::writing), at most                 *)
(* EXPLICIT_WAIT_MS; a firmware halt stops at once.                          *)
Continue == ~stopping /\ Goto("end", "run")

Quit ==
    /\ pc = "end" /\ stopping' = TRUE
    /\ \/ pc' = IF Dirty /\ ~QuietEmulated THEN "run" ELSE "finish"
       \/ stopping /\ pc' = "finish"
    /\ UNCHANGED << work, marker, onHost, hostDiff, readOnly, attached, writes, seen, port,
                    hostChanged, job, queue, quiet, plug, channel, notice, event, wpc,
                    newImage, old, watch, newDiff, edits, requests, runs, slice, unchanged >>

Halt == Goto("end", "halt")

(* UsbDirs::finish: answer the queue, wait for a running job, then, after a  *)
(* quit, sync what is still dirty.                                          *)
AnswerAll ==
    /\ pc \in {"finish", "halt"} /\ queue # << >> /\ queue' = << >>
    /\ PumpUnchanged
    /\ UNCHANGED << pc, hostChanged, job, plug, request, snap, unchanged >>

(* Mutant: a stick that waits for its plug-in is waited for. *)
WaitingForPlug == job # Idle

Waiting == job.kind \in {"sync", "rebuild"}

FinishReply ==
    /\ pc \in {"finish", "halt", "last"} /\ queue = << >> /\ Waiting
    /\ OnReply
    /\ pc' = IF pc = "last" THEN "exit" ELSE pc

FinishSync ==
    /\ pc \in {"finish", "halt"} /\ queue = << >> /\ ~Waiting
    /\ \/ /\ pc = "finish" /\ Dirty
          /\ StartSync(FALSE, TRUE) /\ pc' = "last"
       \/ /\ pc = "finish" /\ Dirty /\ SnapshotFails
          /\ pc' = "exit" /\ UNCHANGED << snap, request, job >>
       \/ /\ pc = "halt" \/ ~Dirty
          /\ pc' = "exit" /\ UNCHANGED << snap, request, job >>
    /\ PumpUnchanged
    /\ UNCHANGED << hostChanged, queue, plug, unchanged >>

Down ==
    /\ pc' = "down" /\ readOnly' = FALSE /\ attached' = NoImage
    /\ seen' = writes /\ synced' = writes
    /\ failed' = NotFailed /\ failedParse' = FALSE /\ blocked' = FALSE
    /\ hostChanged' = FALSE /\ job' = Idle /\ queue' = << >>
    /\ stopping' = FALSE /\ quiet' = "both" /\ plug' = "in"
    /\ request' = None /\ reply' = None /\ notice' = FALSE /\ event' = FALSE /\ snap' = {}
    /\ wpc' = "idle" /\ newImage' = NoImage /\ old' = NoImage
    /\ announced' = FALSE /\ hold' = "none" /\ checkAt' = FALSE /\ newDiff' = FALSE
    /\ slice' = {} /\ unchanged' = FALSE
    /\ UNCHANGED << writes, edits, requests, runs >>

(* Worker::shutdown: the worker has no request left. *)
Exit ==
    /\ pc = "exit" /\ request = None
    /\ Down
    /\ UNCHANGED << work, marker, onHost, hostDiff >>

-----------------------------------------------------------------------------
(* The worker.  A step is one operation of the volume with its reply.        *)

WorkerUnchanged ==
    UNCHANGED << marker, pc, readOnly, attached, writes, seen, port, hostChanged, job, queue,
                 stopping, quiet, plug, edits, requests, runs, slice >>

WHostEvent ==
    /\ event /\ wpc = "idle"
    /\ event' = FALSE /\ checkAt' = TRUE
    /\ UNCHANGED << work, onHost, hostDiff, channel, notice, wpc, newImage, old, announced,
                    hold, newDiff, unchanged >>
    /\ WorkerUnchanged

(* The debounce ran out: HostWatch::check, then compare the host with the    *)
(* manifest, then announce a difference that a rebuild could bring over.     *)
Compares == ~announced /\ (hold = "same" => "scan" \in Faults)

WCheck ==
    /\ checkAt /\ wpc = "idle"
    /\ checkAt' = FALSE
    /\ \/ /\ announced \/ hold = "same"
          /\ UNCHANGED << announced, hold, notice, unchanged >>
       \/ /\ Compares /\ (hostDiff => "scan" \in Faults)
          /\ hold' = "none" /\ unchanged' = FALSE /\ UNCHANGED << announced, notice >>
       \/ /\ Compares /\ hostDiff
          /\ hold' = "none" /\ announced' = TRUE /\ notice' = TRUE
          /\ unchanged' = (unchanged /\ hold # "same")
       \/ /\ Compares /\ hostDiff /\ "nofit" \in Faults
          /\ hold' = "same" \/ ("scan" \in Faults /\ hold' = "none")
          /\ UNCHANGED << announced, notice, unchanged >>
    /\ UNCHANGED << work, onHost, hostDiff, channel, event, wpc, newImage, old, newDiff >>
    /\ WorkerUnchanged

(* Mutant: a path that cannot be written is skipped, the sync succeeds. *)
VolumeSyncSkips(force, result) ==
    /\ result = "ok"
    /\ \E part \in SUBSET snap : onHost' = onHost \cup part
    /\ hostDiff' \in {hostDiff, hostDiff \/ onHost' # onHost}
    /\ event' = (event \/ onHost' # onHost)

(* DirVolume::sync of the snapshot: all of it reaches the host, or nothing   *)
(* (it does not parse, or the guard refuses it), or a part.  Both-changed    *)
(* files leave a difference between host and manifest.                       *)
VolumeSync(force, result) ==
    /\ \/ result = "ok" /\ onHost' = onHost \cup snap
       \/ /\ result \in Faults \cap {"parse", "guard"}
          /\ result = "guard" => ~force
          /\ UNCHANGED onHost
       \/ /\ result \in Faults \cap {"io", "incomplete"}
          /\ \E part \in SUBSET snap : onHost' = onHost \cup part
    /\ hostDiff' \in {hostDiff, hostDiff \/ onHost' # onHost}
    /\ event' = (event \/ onHost' # onHost)

(* Mutants: a sync or rebuild leaves the change announced; a failed replug   *)
(* leaves the host unwatched.                                                *)
WatchResetKeeps == announced' = announced /\ hold' = "none" /\ checkAt' = TRUE
WatchHoldNot    == announced' = FALSE /\ checkAt' = FALSE /\ hold' = "none" /\ unchanged' = TRUE

(* HostWatch::reset with the next check, and HostWatch::hold without one. *)
WatchReset == announced' = FALSE /\ hold' = "none" /\ checkAt' = TRUE
WatchHold  ==
    /\ announced' = FALSE /\ checkAt' = FALSE
    /\ \/ hold' = "same" /\ unchanged' = TRUE
       \/ "scan" \in Faults /\ hold' = "none" /\ unchanged' = FALSE

(* A partial sync is itself a change of the host: a hold is no longer on its *)
(* present state.                                                            *)
WatchAfterSync(result) ==
    \/ result = "ok" /\ WatchReset /\ unchanged' = FALSE
    \/ /\ result # "ok" /\ UNCHANGED << announced, checkAt >>
       /\ hold' = IF hold = "same" /\ onHost' # onHost THEN "stale" ELSE hold
       /\ unchanged' = (unchanged /\ onHost' = onHost)

WSync ==
    /\ request.kind = "sync" /\ wpc = "idle"
    /\ \E result \in Outcome :
         /\ VolumeSync(request.force, result)
         /\ reply' = [kind |-> "synced", result |-> result]
         /\ WatchAfterSync(result)
    /\ request' = None /\ snap' = {}
    /\ UNCHANGED << work, notice, wpc, newImage, old, newDiff >>
    /\ WorkerUnchanged

ReplugFailed(result) ==
    /\ reply' = [kind |-> "replugged", built |-> FALSE, result |-> result]
    /\ request' = None /\ wpc' = "idle" /\ newImage' = NoImage /\ snap' = {}
    /\ WatchHold

ReplugGoesOn(stage) ==
    /\ wpc' = stage
    /\ UNCHANGED << reply, request, watch, unchanged >>

(* The first part of worker.rs replug: keep the old image aside, or sync it. *)
WReplug ==
    /\ request.kind = "replug" /\ wpc = "idle"
    /\ \/ /\ request.discard
          /\ files' = files \ {manifest}
          /\ aside' = IF manifest \in files THEN aside \cup holds[manifest] ELSE aside
          /\ ReplugGoesOn("build")
          /\ UNCHANGED << onHost, hostDiff, event, snap, newImage >>
       \/ /\ request.discard /\ "discard" \in Faults
          /\ ReplugFailed("ok")
          /\ UNCHANGED << files, aside, onHost, hostDiff, event >>
       \/ /\ ~request.discard /\ request.sync
          /\ \E result \in Outcome :
               /\ VolumeSync(FALSE, result)
               /\ \/ result = "ok" /\ ReplugGoesOn("build") /\ snap' = {} /\ UNCHANGED newImage
                  \/ result # "ok" /\ ReplugFailed(result)
          /\ UNCHANGED << files, aside >>
       \/ /\ ~request.discard /\ ~request.sync
          /\ ReplugGoesOn("build")
          /\ UNCHANGED << files, aside, onHost, hostDiff, event, snap, newImage >>
    /\ UNCHANGED << holds, manifest, notice, old, newDiff >>
    /\ WorkerUnchanged

(* DirVolume::build: scan the host into a new image file, then save the      *)
(* manifest that describes it.                                               *)
WBuild ==
    /\ wpc = "build"
    /\ old' = manifest
    /\ \/ /\ \E i \in FreeImage :
               newImage' = i /\ files' = files \cup {i} /\ holds' = [holds EXCEPT ![i] = {}]
          /\ newDiff' = FALSE
          /\ ReplugGoesOn("save") /\ UNCHANGED snap
       \/ /\ "build" \in Faults
          /\ ReplugFailed("ok")
          /\ UNCHANGED << files, holds, newDiff >>
    /\ UNCHANGED << manifest, aside, onHost, hostDiff, notice, event >>
    /\ WorkerUnchanged

WSave ==
    /\ wpc = "save"
    /\ \/ /\ manifest' = newImage /\ hostDiff' = newDiff /\ newDiff' = FALSE
          /\ ReplugGoesOn("open") /\ UNCHANGED << snap, newImage >>
       \/ /\ "save" \in Faults
          /\ ReplugFailed("ok")
          /\ UNCHANGED << manifest, hostDiff, newDiff >>
    /\ UNCHANGED << files, holds, aside, onHost, notice, event, old >>
    /\ WorkerUnchanged

(* The new image is opened; only then is the old file removed. *)
WOpen ==
    /\ wpc = "open"
    /\ \/ /\ files' = IF request.discard THEN files ELSE files \ ({old} \ {manifest})
          /\ reply' = [kind |-> "replugged", built |-> TRUE, result |-> "ok"]
          /\ request' = None /\ wpc' = "idle" /\ snap' = {}
          /\ WatchReset
          /\ UNCHANGED << newImage, unchanged >>
       \/ /\ "open" \in Faults
          /\ ReplugFailed("ok") /\ UNCHANGED files
    /\ old' = NoImage
    /\ UNCHANGED << holds, manifest, aside, onHost, hostDiff, notice, event, newDiff >>
    /\ WorkerUnchanged

-----------------------------------------------------------------------------
(* The user edits the host directory; the watcher reports it. *)
HostEdit ==
    /\ edits < MaxEdits
    /\ edits' = edits + 1
    /\ hostDiff' = TRUE /\ newDiff' = ("save" \in {wpc, pc})
    /\ event' = (pc \notin {"down"} \cup Starting)
    /\ hold' = IF hold = "same" THEN "stale" ELSE hold
    /\ unchanged' = FALSE
    /\ UNCHANGED << work, marker, onHost, pc, readOnly, attached, writes, seen, port,
                    hostChanged, job, queue, stopping, quiet, plug, channel, notice, wpc,
                    newImage, old, announced, checkAt, requests, runs, slice >>

(* SIGKILL, Ctrl-C, a power cut of the host's process: a sync that was at    *)
(* work leaves a part of what it had to write.                               *)
Kill ==
    /\ pc # "down"
    /\ \/ UNCHANGED onHost
       \/ /\ \/ request.kind = "sync"
             \/ request.kind = "replug" /\ request.sync /\ wpc = "idle"
          /\ \E part \in SUBSET snap : onHost' = onHost \cup part
    /\ Down
    /\ UNCHANGED << work, marker, hostDiff >>

Prepare == PrepareKeep \/ PrepareClean \/ PrepareBuild \/ PrepareSave
Poll    == PollBegin \/ PollReply \/ PollPlugged \/ Pump \/ Automatic
Finish  == AnswerAll \/ FinishReply \/ FinishSync \/ Exit
Worker  == WHostEvent \/ WCheck \/ WSync \/ WReplug \/ WBuild \/ WSave \/ WOpen
User    == Start \/ UserRequest \/ Quit \/ HostEdit \/ Kill \/ Halt

Next ==
    \/ Prepare \/ GuestWrite \/ TimePasses \/ HubPlug \/ EndSlice \/ EndCommands
    \/ Poll \/ Continue \/ Finish \/ Worker \/ User

Spec == Init /\ [][Next]_vars

(***************************************************************************)
(* Fairness.  The emulation thread and the worker keep running; every slice *)
(* advances the emulated clock and takes wall time, so a deadline passes    *)
(* after finitely many slices (strong fairness: TimePasses is enabled only  *)
(* inside a slice).  Nothing is assumed of the guest or of the user.        *)
(***************************************************************************)
Thread == Prepare \/ EndSlice \/ EndCommands \/ Poll \/ Continue \/ Finish
            \/ (stopping /\ Quit)
Volume == WSync \/ WReplug \/ WBuild \/ WSave \/ WOpen

FairSpec ==
    /\ Spec
    /\ WF_vars(Thread) /\ SF_vars(TimePasses) /\ SF_vars(HubPlug)
    /\ WF_vars(Volume) /\ WF_vars(WHostEvent) /\ WF_vars(WCheck)

-----------------------------------------------------------------------------
(***************************************************************************)
(* Properties.                                                             *)
(***************************************************************************)

(* Guest writes that left the image, and guest writes the next start finds   *)
(* again: with the marker, prepare resumes the manifest's image or keeps it  *)
(* aside.                                                                    *)
Out       == onHost \cup aside
Resumable == IF marker /\ manifest \in files THEN holds[manifest] ELSE {}

Fate == [w \in Write |->
            IF w > writes THEN "unwritten"
            ELSE IF w \in Out THEN "out"
            ELSE IF w \in Resumable THEN "kept"
            ELSE IF w \in slice THEN "pending"
            ELSE "lost"]

Data == INSTANCE GuestData WITH Write <- Write, fate <- Fate

(* A guest write is only ever lost by a kill in the slice that made it: the  *)
(* marker, the order of prepare, of a rebuild and of finish, and the rule    *)
(* that a failed or partial sync keeps the image, together keep it.          *)
GuestDataKept == Data!Spec

(* The worker compares a snapshot with the manifest of the image it was     *)
(* copied from: with another image's manifest every path that differs       *)
(* between the two hosts scans would be planned as a guest change.           *)
SyncsItsOwnImage ==
    (\/ request.kind = "sync"
     \/ request.kind = "replug" /\ request.sync /\ wpc = "idle")
        => manifest = attached

(* A stick that is not dirty has nothing left in its image: every write it   *)
(* holds is on the host, or is kept aside.  finish and start_replug take     *)
(* `not dirty' for leave to drop the image.                                  *)
CleanIsSynced ==
    pc \in {"run"} \cup Polling \cup Stopping /\ attached \in files /\ ~readOnly /\ synced = writes
        => holds[attached] \subseteq onHost \cup aside

(* The guest never sees its medium change: images are built, removed and    *)
(* swapped only while the stick is out of its port.                          *)
SwapsUnplugged ==
    (wpc # "idle" \/ job.kind = "rebuild") => plug = "out"

(* Once the notices sent before a replug failed are used up, none follows    *)
(* while nothing changes, so the automatic retries end.                      *)
HeldStaysQuiet ==
    [][ unchanged /\ unchanged' /\ ~notice /\ ~hostChanged => ~notice' /\ ~hostChanged' ]_vars

Up == pc \in {"run"} \cup Polling

(* "Host changes still reach the guest", when nothing fails: a difference    *)
(* the worker has been told of, by the watcher or by a sync or rebuild of    *)
(* its own, does not last while the program runs.                            *)
ReportedChangeArrives ==
    (hostDiff /\ Up /\ (event \/ checkAt \/ announced)) ~> (~hostDiff \/ ~Up \/ stopping)

(* With nothing failing, what the guest writes reaches the host.             *)
GuestDataArrives ==
    \A w \in Write : (w <= writes /\ Up) ~> (w \in onHost \cup aside \/ ~Up \/ stopping)

(* Every usb-sync and usb-replug is answered, whatever fails.                *)
CommandsAnswered == queue # << >> ~> queue = << >>

(* A quit ends the program, whatever fails.                                  *)
QuitEnds == stopping ~> pc = "down"
=============================================================================
