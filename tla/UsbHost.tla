------------------------------ MODULE UsbHost ------------------------------
(***************************************************************************)
(* The USB host of the board (ue2-core devices/usb/mod.rs): pipes in the   *)
(* shared RAM, the scan that runs whole transfers on them, the report FIFO *)
(* and its interrupt, with three devices behind it: the hub's status and   *)
(* control endpoints (device.rs, hub.rs), a stick that speaks Bulk-Only    *)
(* Transport (storage.rs) and a keyboard (keyboard.rs).                    *)
(*                                                                         *)
(* The firmware is external, as docs/hw/09-usb.md F2-F8 and H5-H16 tell    *)
(* it: an interrupt handler, the input task, the hub driver's task and the *)
(* disk driver, which share control pipe 0 under a mutex.  Ports, children *)
(* and their removal are in UsbHub: here the hub driver handles a change   *)
(* of the one port in a single step.  Time is counted in frames.           *)
(***************************************************************************)
EXTENDS Integers, Sequences, FiniteSets, FiniteSetsExt, SequencesExt

CONSTANTS
    FifoLen,      \* FIFO_ENTRIES
    HubInterval,  \* frames between attempts of the hub's status pipe
    KeyInterval,  \* and of the keyboard's
    BulkTimeout,  \* frames the disk driver lets a bulk transfer be refused
    Chunks,       \* transfers in the data stage of a read or a write
    QueueLimit,   \* QUEUE_LIMIT
    Address,      \* addresses the firmware gives the stick
    Medium,       \* media that are put in the stick
    MaxEvents     \* bound: disk commands, unplugs and key changes in a behaviour

ASSUME UsbHostAssumption ==
    /\ FifoLen \in Nat /\ FifoLen > 1
    /\ {HubInterval, KeyInterval, BulkTimeout, Chunks, QueueLimit} \subseteq Nat \ {0}
    /\ MaxEvents \in Nat
    /\ IsFiniteSet(Address) /\ {"none", "hub", "hub_ep1", "keyboard"} \cap Address = {}
    /\ IsFiniteSet(Medium) /\ Medium # {} /\ "none" \notin Medium

VARIABLES
    usb,     \* Usb: link, pipes, FIFO, next scan, the ITU edge, and the devices
    media,   \* what each medium holds: the last write that reached it
    \* the firmware
    isr,     \* the interrupt handler runs
    input,   \* words it handed to the input task
    sem,     \* completion of control pipe 0
    holder,  \* owner of the USB mutex
    waiting, \* the owner waits for pipe 0
    hub,     \* hub driver: pc, irq_data, the stick's address
    disk,    \* disk driver: its command, and how the last one ended
    shown,   \* the last keyboard report it decoded
    spent    \* history: events so far

firmware == << isr, input, sem, holder, waiting, hub, disk, shown >>
vars     == << usb, media, firmware, spent >>

Pipe    == 0 .. 2           \* control and bulk, hub status, keyboard
None    == "none"
Idle    == -1               \* no scan is due
NoData  == -1
Error   == -2               \* the sense of a failed read or write
Attach  == 15               \* FIFO word 0xFFF1
Bytes   == [kind |-> "bytes"]  \* an OUT packet that is no command
Dead    == [command |-> FALSE, paused |-> FALSE, abort |-> FALSE, to |-> None, op |-> None, data |-> NoData,
            since |-> 0, started |-> Idle, timeout |-> 0, result |-> None]

----------------------------------------------------------------------------
(* Pipes, FIFO and schedule.                                                *)

Active(u, n) == u.pipe[n].command /\ ~u.pipe[n].paused
Interval(n)  == << 0, HubInterval, KeyInterval >>[n + 1]
FifoFull(u)  == Len(u.fifo) = FifoLen - 1

(* Bram::push: a push onto a full ring would make it look empty. *)
Push(u, word) == [u EXCEPT !.fifo = IF FifoFull(u) THEN << >> ELSE Append(@, word), !.irq = TRUE]

(* Mutant: a pipe that waited long enough is tried at once. *)
WaitNoLatency(u, n) == Max({0, Max({Interval(n), 1}) - u.pipe[n].since})

(* When a pipe may be tried, in frames from now; at most once per frame and   *)
(* not before SCAN_LATENCY.                                                   *)
Wait(u, n) == Max({1, Max({Interval(n), 1}) - u.pipe[n].since})

(* Usb::reschedule. *)
Reschedule(u) ==
    LET due == { n \in Pipe : Active(u, n) }
    IN  [u EXCEPT !.scanIn = IF u.link # "running" \/ FifoFull(u) \/ due = {}
                             THEN Idle ELSE Min({ Wait(u, n) : n \in due })]

(* Bram::nak: report an abort or a timeout, else try again. *)
NakReport(p) ==
    CASE p.abort                                         -> "aborted"
      [] ~p.abort /\ p.timeout # 0 /\ p.started >= p.timeout -> "timeout"
      [] OTHER                                           -> "nak"

----------------------------------------------------------------------------
(* The devices.  An operator gives the ways a device may answer: its reply,   *)
(* the data of an IN transfer, and the state it is left in.                   *)

Reply(u, m, reply, data) == [usb |-> u, media |-> m, reply |-> reply, data |-> data]

(* Device::setup, input and output on endpoint 0, for a request with IN data. *)
Control(u, m, op) ==
    CASE op = "setup"                    -> {Reply([u EXCEPT !.ep0 = "data_in"], m, "ack", NoData)}
      [] op = "in" /\ u.ep0 = "data_in"  -> {Reply(u, m, "data", NoData)}
      [] op = "out" /\ u.ep0 = "data_in" -> {Reply([u EXCEPT !.ep0 = "idle"], m, "ack", NoData)}
      [] OTHER                           -> {Reply([u EXCEPT !.ep0 = "stall"], m, "stall", NoData)}

(* Hub::input: the status endpoint answers only when a port changed. *)
HubStatus(u, m) == {Reply(u, m, IF u.port.change THEN "data" ELSE "nak", NoData)}

(* Keyboard::input: the oldest unread report.  The repeats of the current state *)
(* after the idle time are left out.                                          *)
KeyReport(u, m) ==
    IF u.kbd.queue # << >>
    THEN {Reply([u EXCEPT !.kbd.queue = Tail(@)], m, "data", Head(u.kbd.queue))}
    ELSE {Reply(u, m, "nak", NoData)}

(* Mutant: the oldest report stays and the newest is lost. *)
EnqueueDropNewest(queue, report) == IF Len(queue) = QueueLimit THEN queue ELSE Append(queue, report)

(* Keyboard::key: of too many unread reports the oldest goes. *)
Enqueue(queue, report) ==
    Append(IF Len(queue) = QueueLimit THEN Tail(queue) ELSE queue, report)

(* Storage::finish: the SCSI command against the medium, which may fail. *)
Finish(u, m, cmd) ==
    LET medium  == u.port.medium
        result(ok, data, sense, written) ==
            [csw |-> [kind |-> "csw", ok |-> ok], data |-> data, sense |-> sense, media |-> written]
        failed  == result(FALSE, NoData, Error, m)
    IN  CASE cmd.kind = "write" -> {result(TRUE, NoData, u.store.sense, [m EXCEPT ![medium] = cmd.id]), failed}
          [] cmd.kind = "read"  -> {result(TRUE, m[medium], u.store.sense, m), failed}
          [] cmd.kind = "sense" -> {result(TRUE, u.store.sense, NoData, m)}

DataTransfers(cmd) == IF cmd.kind = "sense" THEN 1 ELSE Chunks

Goes(u, phase, sense) == [u EXCEPT !.store = [phase |-> phase, sense |-> sense]]

(* Storage::output.  The acknowledgement of a command also tells which medium  *)
(* took it, for the history in disk.on.                                       *)
StoreOutput(u, m, data) ==
    LET phase == u.store.phase
        sense == u.store.sense
    IN  CASE phase.at = "command" /\ data.kind = "write" ->
                 {Reply(Goes(u, [at |-> "data_out", cmd |-> data, got |-> 0], sense), m, "ack", u.port.medium)}
          [] phase.at = "command" /\ data.kind \in {"read", "sense"} ->
                 { Reply(Goes(u, [at |-> "data_in", data |-> f.data, left |-> DataTransfers(data), csw |-> f.csw], f.sense),
                         m, "ack", u.port.medium) : f \in Finish(u, m, data) }
          [] phase.at = "data_out" /\ phase.got + 1 < Chunks ->
                 {Reply(Goes(u, [phase EXCEPT !.got = @ + 1], sense), m, "ack", NoData)}
          [] phase.at = "data_out" /\ phase.got + 1 = Chunks ->
                 { Reply(Goes(u, [at |-> "status", csw |-> f.csw], f.sense), f.media, "ack", NoData)
                   : f \in Finish(u, m, phase.cmd) }
          [] OTHER -> {Reply(u, m, "stall", NoData)}

(* Storage::input. *)
StoreInput(u, m) ==
    LET phase == u.store.phase
        sense == u.store.sense
        block == [kind |-> "data", value |-> phase.data]
    IN  CASE phase.at = "data_in" /\ phase.left = 1 ->
                 {Reply(Goes(u, [at |-> "status", csw |-> phase.csw], sense), m, "data", block)}
          [] phase.at = "data_in" /\ phase.left # 1 ->
                 {Reply(Goes(u, [phase EXCEPT !.left = @ - 1], sense), m, "data", block)}
          [] phase.at = "status" -> {Reply(Goes(u, [at |-> "command"], sense), m, "data", phase.csw)}
          [] OTHER               -> {Reply(u, m, "nak", NoData)}

(* Mutant: the phase of an interrupted command survives. *)
StoreResetSense(store) == [store EXCEPT !.sense = NoData]

(* Storage::reset. *)
StoreReset(store) == [phase |-> [at |-> "command"], sense |-> NoData]

(* Device::find: the stick answers its address behind its enabled port, once   *)
(* configured; nobody answers for it otherwise.                               *)
Answers(u, m, p) ==
    CASE p.to = "hub"      -> Control(u, m, p.op)
      [] p.to = "hub_ep1"  -> HubStatus(u, m)
      [] p.to = "keyboard" -> KeyReport(u, m)
      [] p.to \in Address /\ u.port.in /\ u.port.enabled /\ u.port.address = p.to ->
             IF p.op = "out" THEN StoreOutput(u, m, p.data) ELSE StoreInput(u, m)
      [] OTHER             -> {Reply(u, m, "error", NoData)}

----------------------------------------------------------------------------
(* The scan.                                                                *)

(* A pipe the scan tries: check_pipes' conditions. *)
Passes(u, n) == Active(u, n) /\ u.pipe[n].since >= Interval(n) /\ ~FifoFull(u)

(* The report of a transfer: the result, the FIFO word, PAUSED. *)
Reported(u, n, result, data) ==
    Push([u EXCEPT !.pipe[n].result = result, !.pipe[n].data = data, !.pipe[n].paused = TRUE], n)

Stamped(u, n) == [u EXCEPT !.pipe[n].since = 0, !.pipe[n].started = IF @ = Idle THEN 0 ELSE @]

(* What comes of answer a: a refusal is reported only at the end.             *)
Outcome(a, n, p) ==
    LET result == IF a.reply = "nak" THEN NakReport(p) ELSE a.reply
        data   == IF a.reply = "nak" THEN NoData ELSE a.data
    IN  << IF result = "nak" THEN a.usb ELSE Reported(a.usb, n, result, data), a.media >>

(* One attempt on pipe n: states << usb, media >> it may lead to.             *)
Attempt(u, m, n) ==
    LET t == Stamped(u, n)
    IN  { Outcome(a, n, t.pipe[n]) : a \in Answers(t, m, t.pipe[n]) }

ScanPipe(s, n) == IF Passes(s[1], n) THEN Attempt(s[1], s[2], n) ELSE {s}

(* Usb::scan: every pipe in order, each with what the one before left. *)
Scan(u, m) ==
    UNION { UNION { ScanPipe(s1, 2) : s1 \in ScanPipe(s0, 1) } : s0 \in ScanPipe(<< u, m >>, 0) }

(* The tick's own check: other events tick the device too. *)
Due(u) == u.scanIn = 0

(* Usb::tick with the link running. *)
Tick(u, m) == IF Due(u) THEN { << Reschedule(s[1]), s[2] >> : s \in Scan(u, m) } ELSE {<< u, m >>}

----------------------------------------------------------------------------
Event == spent < MaxEvents /\ spent' = spent + 1

(* Usb::new, with a stick on its port. *)
Init ==
    /\ LET m == CHOOSE m \in Medium : TRUE
       IN usb = [ link |-> "held", pipe |-> [n \in Pipe |-> Dead], fifo |-> << >>, scanIn |-> Idle, irq |-> FALSE,
                 ep0 |-> "idle",
                 port |-> [in |-> TRUE, powered |-> FALSE, enabled |-> FALSE, change |-> FALSE,
                           address |-> None, medium |-> m],
                 store |-> [phase |-> [at |-> "command"], sense |-> NoData],
                 kbd |-> [report |-> 0, queue |-> << >>, told |-> TRUE] ]
    /\ media = [m \in Medium |-> 0]
    /\ isr = FALSE /\ input = << >> /\ sem = FALSE /\ holder = None /\ waiting = FALSE
    /\ hub = [pc |-> "start", changed |-> FALSE, child |-> None]
    /\ disk = [pc |-> "idle", cmd |-> None, to |-> None, left |-> 0, data |-> NoData, on |-> None, pulled |-> FALSE, end |-> None]
    /\ shown = 0
    /\ spent = 0

----------------------------------------------------------------------------
(* Time, and the host side.                                                 *)

(* A pipe's clocks; they stop where nothing more can come of them. *)
Aged(p, interval) ==
    [p EXCEPT !.since = Min({@ + 1, interval}), !.started = IF @ = Idle THEN Idle ELSE Min({@ + 1, p.timeout})]

(* A frame passes.  A scan that is due comes first; the driver's next          *)
(* instructions after it resumed the status pipe take less than a frame.      *)
Frame ==
    /\ usb.link = "running" /\ ~Due(usb) /\ hub.pc # "clear"
    /\ usb' = [usb EXCEPT
           !.scanIn = IF @ = Idle THEN Idle ELSE @ - 1,
           !.pipe = [n \in Pipe |-> Aged(usb.pipe[n], Interval(n))]]
    /\ UNCHANGED << media, firmware, spent >>

ScanTick ==
    /\ usb.link = "running" /\ Due(usb)
    /\ \E s \in Tick(usb, media) : usb' = s[1] /\ media' = s[2]
    /\ UNCHANGED << firmware, spent >>

(* Hub::reset with its devices: keys stay held, unread reports do not. *)
RootReset(u) ==
    [u EXCEPT !.ep0 = "idle",
              !.port = [u.port EXCEPT !.powered = FALSE, !.enabled = FALSE, !.change = FALSE, !.address = None],
              !.store = StoreReset(@),
              !.kbd = [u.kbd EXCEPT !.queue = << >>, !.told = FALSE]]

(* Usb::tick in Link::Attaching and in Link::Resetting. *)
Attached ==
    /\ usb.link = "attaching"
    /\ usb' = Push([usb EXCEPT !.link = "attached"], Attach)
    /\ UNCHANGED << media, firmware, spent >>
BusResetEnds ==
    /\ usb.link = "resetting"
    /\ usb' = Reschedule([RootReset(usb) EXCEPT !.link = "running"])
    /\ UNCHANGED << media, firmware, spent >>

(* Usb::set_connected(port, false), seen by a command that is on its way. *)
PlugOut ==
    /\ usb.port.in /\ Event
    /\ usb' = [usb EXCEPT !.port = [usb.port EXCEPT !.in = FALSE, !.enabled = FALSE, !.change = @ \/ usb.port.powered]]
    /\ disk' = [disk EXCEPT !.pulled = TRUE]
    /\ UNCHANGED << media, isr, input, sem, holder, waiting, hub, shown >>

(* plug_in_due in the device's tick, after the driver handled the unplug, with  *)
(* the medium replace_backend put in meanwhile.                               *)
PlugIn ==
    /\ ~usb.port.in /\ ~usb.port.change
    /\ \E m \in Medium :
         LET u == [usb EXCEPT !.port = [usb.port EXCEPT !.in = TRUE, !.change = usb.port.powered, !.medium = m],
                              !.store = IF m = usb.port.medium THEN @ ELSE StoreReset(@)]
         IN  \E s \in Tick(u, media) : usb' = s[1] /\ media' = s[2]
    /\ UNCHANGED << firmware, spent >>

(* Usb::key: the keyboard's state changes. *)
Key ==
    /\ Event
    /\ LET report == usb.kbd.report + 1
       IN  usb' = [usb EXCEPT !.kbd = [report |-> report, queue |-> Enqueue(@.queue, report), told |-> TRUE]]
    /\ UNCHANGED << media, firmware >>

----------------------------------------------------------------------------
(* The firmware: interrupt handler and input task.                          *)

(* The dispatcher clears the edge, then the handler drains the FIFO; its TAIL  *)
(* write after every word makes the nano look again.  It leaves when HEAD and  *)
(* TAIL are equal: a push after that has its own edge.                        *)
IsrEnter ==
    /\ usb.irq /\ ~isr
    /\ usb' = [usb EXCEPT !.irq = FALSE] /\ isr' = (usb.fifo # << >>)
    /\ UNCHANGED << media, input, sem, holder, waiting, hub, disk, shown, spent >>
IsrPop ==
    /\ isr
    /\ LET word == Head(usb.fifo)
       IN  IF word = 0 THEN sem' = TRUE /\ UNCHANGED input
                       ELSE input' = Append(input, word) /\ UNCHANGED sem
    /\ usb' = Reschedule([usb EXCEPT !.fifo = Tail(@)])
    /\ isr' = (Len(usb.fifo) > 1)
    /\ UNCHANGED << media, holder, waiting, hub, disk, shown, spent >>

(* resume_input_pipe: the buffer again, the clock of its timeout, PAUSED off. *)
Resumed(u, n) == Reschedule([u EXCEPT !.pipe[n].paused = FALSE, !.pipe[n].started = Idle])

InputTask ==
    /\ input # << >> /\ input' = Tail(input)
    /\ CASE Head(input) = Attach -> \* attach_root: DO_RESET
              /\ usb' = [usb EXCEPT !.link = "resetting", !.scanIn = Idle] /\ UNCHANGED << hub, shown >>
         [] Head(input) = 1 ->      \* the hub's callback keeps the bitmap for its task
              /\ hub' = [hub EXCEPT !.changed = TRUE] /\ UNCHANGED << usb, shown >>
         [] Head(input) = 2 ->      \* the keyboard's callback
              /\ shown' = usb.pipe[2].data /\ usb' = Resumed(usb, 2) /\ UNCHANGED hub
    /\ UNCHANGED << media, isr, sem, holder, waiting, disk, spent >>

----------------------------------------------------------------------------
(* The firmware: transfers on pipe 0, one owner at a time.                  *)

(* The registers of a pipe, COMMAND last. *)
Request(to, op, data, timeout, since) ==
    [Dead EXCEPT !.command = TRUE, !.to = to, !.op = op, !.data = data, !.timeout = timeout, !.since = since]

Take(t) == holder = None /\ holder' = t
Transfer(to, op, data, timeout) ==
    Reschedule([usb EXCEPT !.pipe[0] = Request(to, op, data, timeout, usb.pipe[0].since)])

(* NANO_START: set_run(true). *)
Start ==
    /\ hub.pc = "start"
    /\ usb' = [RootReset(usb) EXCEPT !.link = "attaching", !.pipe[0].command = FALSE]
    /\ hub' = [hub EXCEPT !.pc = "boot"]
    /\ UNCHANGED << media, isr, input, sem, holder, waiting, disk, shown, spent >>

(* The driver sees USTAT_OPERATIONAL and installs hub and keyboard: ports       *)
(* powered, two automatic pipes opened and resumed.                           *)
Install ==
    /\ hub.pc = "boot" /\ usb.link = "running"
    /\ usb' = Reschedule([usb EXCEPT
           !.port = [usb.port EXCEPT !.powered = TRUE, !.change = usb.port.in],
           !.pipe = [usb.pipe EXCEPT ![1] = Request("hub_ep1", "in", NoData, 0, 0),
                                     ![2] = Request("keyboard", "in", NoData, 0, 0)]])
    /\ hub' = [hub EXCEPT !.pc = "poll"]
    /\ UNCHANGED << media, isr, input, sem, holder, waiting, disk, shown, spent >>

(* poll, handle_irqdata: the port's status in one control exchange. *)
HubPoll ==
    /\ hub.pc = "poll" /\ hub.changed
    /\ Take("hub") /\ waiting' = TRUE
    /\ usb' = Transfer("hub", "setup", NoData, 0)
    /\ hub' = [hub EXCEPT !.pc = "setup"]
    /\ UNCHANGED << media, isr, input, sem, disk, shown, spent >>
HubStage ==
    /\ holder = "hub" /\ waiting /\ sem /\ sem' = FALSE
    /\ CASE hub.pc = "setup"  -> /\ usb' = Transfer("hub", "in", NoData, 0) /\ hub' = [hub EXCEPT !.pc = "data"]
                                 /\ UNCHANGED << holder, waiting >>
         [] hub.pc = "data"   -> /\ usb' = Transfer("hub", "out", Bytes, 0) /\ hub' = [hub EXCEPT !.pc = "status"]
                                 /\ UNCHANGED << holder, waiting >>
         [] hub.pc = "status" -> /\ UNCHANGED usb /\ hub' = [hub EXCEPT !.pc = "act"]
                                 /\ holder' = None /\ waiting' = FALSE
    /\ UNCHANGED << media, isr, input, disk, shown, spent >>

(* The change is acknowledged; a new stick's port is reset, the stick gets an   *)
(* address, one that was pulled is removed.                                   *)
HubAct ==
    /\ hub.pc = "act"
    /\ IF usb.port.in
       THEN \E a \in Address :
              /\ usb' = [usb EXCEPT !.port = [usb.port EXCEPT !.change = FALSE, !.enabled = TRUE, !.address = a],
                                    !.store = StoreReset(@)]
              /\ hub' = [hub EXCEPT !.pc = "resume", !.child = a]
       ELSE /\ usb' = [usb EXCEPT !.port.change = FALSE]
            /\ hub' = [hub EXCEPT !.pc = "resume", !.child = None]
    /\ UNCHANGED << media, isr, input, sem, holder, waiting, disk, shown, spent >>

(* The status pipe is resumed first, irq_data cleared after it. *)
HubResume ==
    /\ hub.pc = "resume"
    /\ usb' = Resumed(usb, 1) /\ hub' = [hub EXCEPT !.pc = "clear"]
    /\ UNCHANGED << media, isr, input, sem, holder, waiting, disk, shown, spent >>
HubClear ==
    /\ hub.pc = "clear"
    /\ hub' = [hub EXCEPT !.pc = "poll", !.changed = FALSE]
    /\ UNCHANGED << usb, media, isr, input, sem, holder, waiting, disk, shown, spent >>

----------------------------------------------------------------------------
(* The firmware: the disk driver, one command at a time.                    *)

DiskStart(kind) ==
    /\ disk.pc = "idle" /\ hub.child # None /\ Event
    /\ disk' = [ pc |-> "cbw", cmd |-> [kind |-> kind, id |-> spent + 1], to |-> hub.child,
                 left |-> Chunks, data |-> NoData, on |-> None, pulled |-> ~usb.port.enabled, end |-> None ]
    /\ UNCHANGED << usb, media, isr, input, sem, holder, waiting, hub, shown >>

(* The transfer a stage needs. *)
DiskTransfer ==
    /\ disk.pc # "idle" /\ Take("disk") /\ waiting' = TRUE
    /\ usb' = CASE disk.pc = "cbw"  -> Transfer(disk.to, "out", disk.cmd, BulkTimeout)
                [] disk.pc = "data" -> IF disk.cmd.kind = "write"
                                       THEN Transfer(disk.to, "out", Bytes, BulkTimeout)
                                       ELSE Transfer(disk.to, "in", NoData, BulkTimeout)
                [] disk.pc = "csw"  -> Transfer(disk.to, "in", NoData, BulkTimeout)
    /\ UNCHANGED << media, isr, input, sem, hub, disk, shown, spent >>

(* complete_command gives up waiting and asks for an abort. *)
DiskAbort ==
    /\ holder = "disk" /\ waiting /\ Active(usb, 0) /\ ~usb.pipe[0].abort /\ usb.pipe[0].started >= BulkTimeout
    /\ usb' = Reschedule([usb EXCEPT !.pipe[0].abort = TRUE])
    /\ UNCHANGED << media, firmware, spent >>

Ended(d, how) == [d EXCEPT !.pc = "idle", !.end = how]

(* What the driver makes of a finished transfer.  A failed status is followed   *)
(* by REQUEST SENSE; any other failure ends the command.                      *)
Heard(d, p) ==
    CASE d.pc = "cbw" /\ p.result = "ack" ->
             [d EXCEPT !.pc = "data", !.on = IF @ = None THEN p.data ELSE @]
      [] d.pc = "data" /\ p.result = (IF d.cmd.kind = "write" THEN "ack" ELSE "data") ->
             [d EXCEPT !.pc = IF d.left = 1 THEN "csw" ELSE "data", !.left = @ - 1,
                       !.data = IF d.cmd.kind = "write" THEN @ ELSE p.data.value]
      [] d.pc = "csw" /\ p.result = "data" /\ p.data.kind = "csw" ->
             IF d.cmd.kind = "sense" THEN Ended(d, "failed")
             ELSE IF p.data.ok THEN Ended(d, "done")
             ELSE [d EXCEPT !.pc = "cbw", !.cmd.kind = "sense", !.left = 1]
      [] OTHER -> Ended(d, "broken")

DiskStage ==
    /\ holder = "disk" /\ waiting /\ sem /\ sem' = FALSE /\ waiting' = FALSE /\ holder' = None
    /\ disk' = Heard(disk, usb.pipe[0])
    /\ UNCHANGED << usb, media, isr, input, hub, shown, spent >>

Isr      == IsrEnter \/ IsrPop
HubTask  == Start \/ Install \/ HubPoll \/ HubStage \/ HubAct \/ HubResume \/ HubClear
DiskTask == DiskTransfer \/ DiskAbort \/ DiskStage
Machine  == Frame \/ ScanTick \/ Attached \/ BusResetEnds
Host     == PlugOut \/ PlugIn \/ Key

Next == Machine \/ Host \/ Isr \/ InputTask \/ HubTask \/ DiskTask
        \/ \E kind \in {"read", "write"} : DiskStart(kind)

Spec     == Init /\ [][Next]_vars
Fairness == WF_vars(Machine) /\ WF_vars(Isr) /\ WF_vars(InputTask) /\ WF_vars(HubTask)
            /\ WF_vars(DiskTransfer \/ DiskStage) /\ WF_vars(PlugIn)
FairSpec == Spec /\ Fairness

----------------------------------------------------------------------------
(* Properties.                                                              *)

WordsOf(n)  == Cardinality({ i \in DOMAIN usb.fifo : usb.fifo[i] = n })
               + Cardinality({ i \in DOMAIN input : input[i] = n })
HubHandling == hub.pc \in {"setup", "data", "status", "act", "resume"} \/ (hub.pc = "poll" /\ hub.changed)
(* Places where a finished transfer of a pipe still is on its way to the task. *)
OnItsWay(n) == WordsOf(n) + (IF (n = 0 /\ sem) \/ (n = 1 /\ HubHandling) THEN 1 ELSE 0)

(* No report is lost or doubled on its way through the FIFO, the interrupt      *)
(* handler and the queue, though the FIFO fills up, other pipes report at any   *)
(* moment and the hub driver forgets its bitmap after it resumed the pipe: a    *)
(* pipe in use is either with the nano or owes its task exactly one report, and *)
(* unread words always have their interrupt.                                  *)
NoReportLost ==
    /\ usb.link = "running" => \A n \in Pipe :
         IF (n = 0 /\ ~waiting) \/ ~usb.pipe[n].command
         THEN OnItsWay(n) = 0 /\ ~Active(usb, n)
         ELSE OnItsWay(n) = IF usb.pipe[n].paused THEN 1 ELSE 0
    /\ usb.fifo # << >> => usb.irq \/ isr
    /\ Len(usb.fifo) < FifoLen
    /\ (Cardinality({ n \in Pipe : Active(usb, n) }) > 0 /\ usb.link = "running" /\ ~FifoFull(usb))
         => usb.scanIn # Idle

(* What the disk driver is told is what happened, though the stick is pulled    *)
(* between command, data and status, another medium goes in and gets the same   *)
(* address: a write it believes done is on the medium that took the command, a  *)
(* read brought that medium's data, nothing but the status refuses a command of *)
(* a stick that stayed in, and the reason it then asks for is that failure's.   *)
CommandsHonest ==
    disk.pc = "idle" /\ disk.end # None =>
        /\ disk.end = "done" => IF disk.cmd.kind = "write" THEN media[disk.on] = disk.cmd.id
                                                           ELSE disk.data = media[disk.on]
        /\ disk.end = "broken" => disk.pulled
        /\ disk.end = "failed" => disk.data = Error \/ disk.pulled

(* Key changes reach the driver in the order they were made. *)
KeysInOrder ==
    LET unread == (IF OnItsWay(2) = 1 THEN << usb.pipe[2].data >> ELSE << >>) \o usb.kbd.queue
    IN  /\ \A i \in 1 .. Len(unread) - 1 : unread[i] < unread[i + 1]
        /\ unread # << >> => shown <= Head(unread) /\ Last(unread) = usb.kbd.report

UsbHostInvariant == NoReportLost /\ KeysInOrder

(* In the end the firmware knows what is so: every disk command ends, the       *)
(* driver's child is there exactly when the stick is in, and the keyboard's     *)
(* last change has been decoded, unless a bus reset took it.                  *)
Settles ==
    /\ []<>(disk.pc = "idle")
    /\ <>[](hub.pc = "poll" /\ (hub.child # None <=> usb.port.in))
    /\ <>[](usb.kbd.told => shown = usb.kbd.report)
=============================================================================
