-------------------------------- MODULE Rmii --------------------------------
(***************************************************************************)
(* The Ethernet MAC (ue2-core devices/rmii.rs): buffer ids go round from   *)
(* the free ring to a received frame, to the firmware and back, while the  *)
(* emulation thread hands over frames between any two accesses of the      *)
(* firmware (net::pump).  The firmware's driver is not in this repository; *)
(* it is modelled from docs/hw/08-network-rmii.md: its interrupt handler,  *)
(* its task, and lwIP, which frees buffers in any order.                   *)
(***************************************************************************)
EXTENDS Naturals, Sequences

CONSTANTS
    RingLen,    \* RING_LEN
    Buffers,    \* buffers of the driver's pool
    TxLimit,    \* TX_QUEUE_LIMIT
    MaxFrames,  \* bound: frames from the host
    MaxSends,   \* bound: frames of the guest
    MaxUnplugs  \* bound: times the cable is pulled

ASSUME RmiiAssumption ==
    /\ {RingLen, Buffers, TxLimit, MaxFrames, MaxSends, MaxUnplugs} \subseteq Nat
    /\ 0 < Buffers /\ Buffers < RingLen

NoId   == RingLen + Buffers     \* None, 0xFF
Id     == 0 .. Buffers - 1
Slot   == 0 .. RingLen - 1
RxLine == 5
TxLine == 6

VARIABLES
    mac,        \* struct Rmii
    ram,        \* the frame in each buffer
    level,      \* IrqState::level
    link,       \* Phy::link
    task, put,  \* the driver's task; the buffers initRx has put into the free ring
    isr,        \* its interrupt handler
    mask,       \* the handler's interrupt is enabled
    queue,      \* frames from the handler to the task
    owned,      \* frames lwIP has
    frames, sends, unplugs, \* counters of the bounds
    taken, onWire           \* frames the handler has passed on; frames the host has got

driver == << task, put, isr, mask, queue, owned >>
counters == << frames, sends, unplugs >>
vars == << mac, ram, level, link, driver, counters, taken, onWire >>

-----------------------------------------------------------------------------
(* struct Ring. *)
NewRing(empty) == [slots |-> [i \in Slot |-> empty], head |-> 0, tail |-> 0]

Succ(i)        == (i + 1) % RingLen
IsFull(r)      == Succ(r.head) = r.tail
IsEmpty(r)     == r.head = r.tail
Push(r, entry) == [r EXCEPT !.slots[r.head] = entry, !.head = Succ(@)]
Oldest(r)      == r.slots[r.tail]
Pop(r)         == [r EXCEPT !.tail = Succ(@)]
Clear(r)       == [r EXCEPT !.head = 0, !.tail = 0]
Length(r)      == (r.head + RingLen - r.tail) % RingLen
Entries(r)     == [i \in 1 .. Length(r) |-> r.slots[(r.tail + i - 1) % RingLen]]

NoFrame == [id |-> 0, size |-> 0]

(* Rmii::new.                                                               *)
PowerOn ==
    [ rxEnable |-> FALSE, held |-> NoId, free |-> NewRing(0), used |-> NewRing(NoFrame),
      usedValid |-> FALSE, popped |-> NoFrame, txIrq |-> FALSE, toHost |-> << >> ]

Present(m) ==
    IF m.usedValid \/ IsEmpty(m.used) THEN m
    ELSE [m EXCEPT !.popped = Oldest(m.used), !.usedValid = TRUE, !.used = Pop(@)]

Lines(m) == (IF m.usedValid THEN {RxLine} ELSE {}) \cup (IF m.txIrq THEN {TxLine} ELSE {})

(* Rmii::write8, after the register's own effect.                           *)
Write(m) == mac' = Present(m) /\ level' = Lines(Present(m))

Disabled(m) == [m EXCEPT !.rxEnable = FALSE, !.held = NoId]

(* Mutant: only the free side.                                              *)
ResetFree(m) == [m EXCEPT !.free = Clear(@)]

Reset(m)    == [m EXCEPT !.free = Clear(@), !.used = Clear(@)]
Acked(m)    == IF m.usedValid THEN [m EXCEPT !.usedValid = FALSE, !.popped.id = NoId] ELSE m
FreePut(m, id) == IF IsFull(m.free) THEN m ELSE [m EXCEPT !.free = Push(@, id)]

(* Mutant: the newest frame makes room.                                     *)
TransmitShift(m, frame) ==
    [m EXCEPT !.txIrq = TRUE,
              !.toHost = IF Len(@) < TxLimit THEN Append(@, frame) ELSE Append(Tail(@), frame)]

Transmit(m, frame) ==
    [m EXCEPT !.txIrq = TRUE, !.toHost = IF Len(@) < TxLimit THEN Append(@, frame) ELSE @]

-----------------------------------------------------------------------------
(* Rmii::receive.                                                           *)
HasBuffer(m) == m.held # NoId \/ ~IsEmpty(m.free)
Buffer(m)    == IF m.held # NoId THEN m.held ELSE Oldest(m.free)
Allocated(m) == IF m.held # NoId THEN [m EXCEPT !.held = NoId] ELSE [m EXCEPT !.free = Pop(@)]

Drop(m) ==
    /\ ~m.rxEnable \/ ~HasBuffer(m)
    /\ mac' = m /\ UNCHANGED << ram, level >>

(* A frame that is too long or not for this MAC.                            *)
Reject(m) ==
    /\ m.rxEnable /\ HasBuffer(m)
    /\ mac' = [Allocated(m) EXCEPT !.held = Buffer(m)]
    /\ UNCHANGED << ram, level >>

(* Mutant: the line follows the next access of the firmware.                *)
AcceptSilent(m, frame) ==
    /\ m.rxEnable /\ HasBuffer(m)
    /\ ram' = [ram EXCEPT ![Buffer(m)] = frame]
    /\ mac' = Present([Allocated(m) EXCEPT !.used = Push(@, [id |-> Buffer(m), size |-> frame])])
    /\ UNCHANGED level

Accept(m, frame) ==
    /\ m.rxEnable /\ HasBuffer(m)
    /\ ram' = [ram EXCEPT ![Buffer(m)] = frame]
    /\ Write([Allocated(m) EXCEPT !.used = Push(@, [id |-> Buffer(m), size |-> frame])])

(* Rmii::exchange: the guest's frames go out, then one of the host comes in; *)
(* several in one call are several steps.                                   *)
Exchange ==
    LET m == [mac EXCEPT !.toHost = << >>]
    IN  /\ onWire' = onWire \o mac.toHost
        /\ \/ /\ mac.toHost # << >> /\ mac' = m
              /\ UNCHANGED << ram, level, frames >>
           \/ /\ frames < MaxFrames /\ frames' = frames + 1
              /\ Drop(m) \/ Reject(m) \/ Accept(m, frames')
        /\ UNCHANGED << link, driver, sends, unplugs, taken >>

(* Phy::set_link.                                                           *)
SetLink ==
    /\ link => unplugs < MaxUnplugs
    /\ link' = ~link
    /\ unplugs' = IF link THEN unplugs + 1 ELSE unplugs
    /\ UNCHANGED << mac, ram, level, driver, frames, sends, taken, onWire >>

-----------------------------------------------------------------------------
(* The driver's interrupt handler: one step per register access; the task    *)
(* does not run meanwhile.                                                  *)
Idle == [at |-> "idle", id |-> NoId, size |-> 0]

Handler(from, to) ==
    /\ isr.at = from /\ isr' = to
    /\ UNCHANGED << ram, link, task, put, mask, owned, counters, onWire >>

Interrupt ==
    /\ mask /\ RxLine \in level
    /\ Handler("idle", [isr EXCEPT !.at = "valid"])
    /\ UNCHANGED << mac, level, queue, taken >>

ReadValid ==
    /\ Handler("valid", IF mac.usedValid THEN [isr EXCEPT !.at = "size"] ELSE Idle)
    /\ UNCHANGED << mac, level, queue, taken >>

ReadSize ==
    /\ Handler("size", [isr EXCEPT !.at = "id", !.size = mac.popped.size])
    /\ UNCHANGED << mac, level, queue, taken >>

ReadId ==
    /\ Handler("id", [isr EXCEPT !.at = "pop", !.id = mac.popped.id])
    /\ UNCHANGED << mac, level, queue, taken >>

(* The write of ALLOC_POP and the send to the task's queue, which has room   *)
(* for all buffers.                                                         *)
AllocPop ==
    /\ Handler("pop", Idle)
    /\ Write(Acked(mac))
    /\ queue' = Append(queue, [id |-> isr.id, size |-> isr.size])
    /\ taken' = Append(taken, isr.size)

-----------------------------------------------------------------------------
(* The driver's task.                                                       *)
Task(from, to) ==
    /\ isr.at = "idle" /\ task = from /\ task' = to
    /\ UNCHANGED << ram, link, isr, counters, taken, onWire >>

(* RmiiInterface::initRx, one step per register write.  Assumption: lwIP has *)
(* given back its buffers when the link comes up again; the driver does not *)
(* ask.                                                                     *)
LinkUp ==
    /\ link /\ owned = {}
    /\ Task("down", "reset") /\ Write(Disabled(mac)) /\ UNCHANGED << mask, queue, owned, put >>

FreeReset ==
    /\ Task("reset", "pop") /\ Write(Reset(mac)) /\ UNCHANGED << mask, queue, owned, put >>

PopStale ==
    /\ Task("pop", "reset2") /\ Write(Acked(mac)) /\ UNCHANGED << mask, queue, owned, put >>

ResetAgain ==
    /\ Task("reset2", "put") /\ Write(Reset(mac)) /\ put' = 0 /\ UNCHANGED << mask, queue, owned >>

PutBuffer ==
    /\ put < Buffers
    /\ Task("put", "put") /\ Write(FreePut(mac, put)) /\ put' = put + 1 /\ UNCHANGED << mask, queue, owned >>

EnableRx ==
    /\ put = Buffers
    /\ Task("put", "irq") /\ Write([mac EXCEPT !.rxEnable = TRUE])
    /\ UNCHANGED << mask, queue, owned, put >>

EnableIrq ==
    /\ Task("irq", "run") /\ mask' = TRUE
    /\ UNCHANGED << mac, level, queue, owned, put >>

(* deinitRx, after a time without a frame.  Assumption: no frame comes in    *)
(* between that and the end of deinitRx, whose two writes are one step.     *)
LinkDown ==
    /\ ~link /\ queue = << >>
    /\ Task("run", "down") /\ Write(Disabled(mac)) /\ mask' = FALSE /\ UNCHANGED << queue, owned, put >>

(* input_packet: the frame goes to lwIP.                                    *)
InputPacket ==
    /\ queue # << >>
    /\ Task("run", "run")
    /\ queue' = Tail(queue) /\ owned' = owned \cup {Head(queue)}
    /\ UNCHANGED << mac, level, mask, put >>

(* free_buffer, in whatever task frees the pbuf.                            *)
FreeBuffer ==
    /\ isr.at = "idle"
    /\ \E f \in owned : owned' = owned \ {f} /\ Write(FreePut(mac, f.id))
    /\ UNCHANGED << ram, link, task, isr, mask, queue, put, counters, taken, onWire >>

(* output_packet.                                                           *)
OutputPacket ==
    /\ isr.at = "idle" /\ task = "run" /\ sends < MaxSends
    /\ sends' = sends + 1
    /\ Write(Transmit(mac, sends'))
    /\ UNCHANGED << ram, link, driver, frames, unplugs, taken, onWire >>

-----------------------------------------------------------------------------
Init ==
    /\ mac = PowerOn /\ ram = [id \in Id |-> 0] /\ level = {}
    /\ link = TRUE
    /\ task = "down" /\ put = 0 /\ isr = Idle /\ mask = FALSE /\ queue = << >> /\ owned = {}
    /\ frames = 0 /\ sends = 0 /\ unplugs = 0
    /\ taken = << >> /\ onWire = << >>

HandlerStep == Interrupt \/ ReadValid \/ ReadSize \/ ReadId \/ AllocPop
InitRx      == LinkUp \/ FreeReset \/ PopStale \/ ResetAgain \/ PutBuffer \/ EnableRx \/ EnableIrq
TaskStep    == InitRx \/ LinkDown \/ InputPacket

Next == Exchange \/ SetLink \/ HandlerStep \/ TaskStep \/ FreeBuffer \/ OutputPacket
Spec == Init /\ [][Next]_vars

(* The firmware runs, and lwIP frees what it has.                           *)
FairSpec == Spec /\ WF_vars(HandlerStep) /\ WF_vars(TaskStep) /\ WF_vars(FreeBuffer)

-----------------------------------------------------------------------------
RingOf(Entry) == [slots : [Slot -> Entry], head : Slot, tail : Slot]
FrameType == [id : Id \cup {NoId}, size : Nat]
Taken     == [id : Id, size : Nat]

MacType ==
    [ rxEnable : BOOLEAN, held : Id \cup {NoId}, free : RingOf(Id), used : RingOf(Taken),
      usedValid : BOOLEAN, popped : FrameType, txIrq : BOOLEAN, toHost : Seq(Nat) ]

TypeOK ==
    /\ mac \in MacType
    /\ ram \in [Id -> Nat] /\ level \subseteq {RxLine, TxLine} /\ link \in BOOLEAN
    /\ task \in {"down", "reset", "pop", "reset2", "put", "irq", "run"} /\ put \in 0 .. Buffers
    /\ isr \in [at : {"idle", "valid", "size", "id", "pop"}, id : Id \cup {NoId}, size : Nat]
    /\ mask \in BOOLEAN /\ queue \in Seq(Taken) /\ owned \subseteq Taken
    /\ frames \in 0 .. MaxFrames /\ sends \in 0 .. MaxSends /\ unplugs \in 0 .. MaxUnplugs
    /\ taken \in Seq(Nat) /\ onWire \in Seq(Nat)

(* Where a buffer can be.                                                   *)
Stands(r)  == {i \in Slot : IF r.tail <= r.head THEN r.tail <= i /\ i < r.head ELSE r.tail <= i \/ i < r.head}
InFree     == {mac.free.slots[i] : i \in Stands(mac.free)}
InUsed     == {mac.used.slots[i] : i \in Stands(mac.used)}
Presented  == IF mac.usedValid THEN {mac.popped} ELSE {}
InQueue    == {queue[i] : i \in 1 .. Len(queue)}
Received   == InUsed \cup Presented \cup InQueue \cup owned
Held       == {mac.held} \ {NoId}

(* No two frames share a buffer, no buffer is free while it holds a frame,   *)
(* and while the interface runs none is lost: each of them is free, in hand *)
(* or holds a frame that was received.                                      *)
BuffersApart ==
    /\ \A i, j \in Stands(mac.free) : mac.free.slots[i] = mac.free.slots[j] => i = j
    /\ \A f, g \in Received : f.id = g.id => f = g
    /\ \A i, j \in Stands(mac.used) : mac.used.slots[i] = mac.used.slots[j] => i = j
    /\ \A i, j \in 1 .. Len(queue) : queue[i] = queue[j] => i = j
    /\ InUsed \cap (Presented \cup InQueue \cup owned) = {}
    /\ Presented \cap (InQueue \cup owned) = {} /\ InQueue \cap owned = {}
    /\ InFree \cap Held = {} /\ (InFree \cup Held) \cap {f.id : f \in Received} = {}
    /\ task \in {"irq", "run"} => InFree \cup Held \cup {f.id : f \in Received} = Id

(* A frame stays in its buffer until lwIP has freed it, and the size that    *)
(* goes with the buffer is that of the frame in it.                         *)
FramesIntact == \A f \in Received : ram[f.id] = f.size

(* docs/hw/08-network-rmii.md H5: the line is up exactly while a frame is    *)
(* presented, between any two accesses, so the handler always finds one and *)
(* no frame waits without an interrupt.                                     *)
LineIsExact ==
    /\ RxLine \in level <=> mac.usedValid
    /\ isr.at # "idle" => mac.usedValid
    /\ ~mac.usedValid => IsEmpty(mac.used)

(* initRx finds the receiver off and no frame on its way to lwIP, and each of *)
(* its steps leaves the rings as the next one needs them.                   *)
InitInOrder ==
    /\ mac.rxEnable <=> task \in {"irq", "run"}
    /\ mask <=> task = "run"
    /\ ~mac.rxEnable => mac.held = NoId
    /\ task # "run" => isr.at = "idle" /\ queue = << >>
    /\ task \notin {"down", "run"} => owned = {}
    /\ task \in {"pop", "reset2"} => IsEmpty(mac.free)
    /\ task \in {"pop", "reset2", "put"} => IsEmpty(mac.used)
    /\ task \in {"reset2", "put"} => ~mac.usedValid
    /\ task = "put" => InFree = 0 .. put - 1

(* What the handler has read is still what the MAC presents.                *)
HandlerInOrder ==
    /\ mac.usedValid => mac.popped.id \in Id
    /\ isr.at \in {"id", "pop"} => isr.size = mac.popped.size
    /\ isr.at = "pop" => isr.id = mac.popped.id

(* What the driver and the MAC rely on between any two of their accesses.    *)
RmiiInvariant ==
    TypeOK /\ BuffersApart /\ FramesIntact /\ LineIsExact /\ InitInOrder /\ HandlerInOrder

(* Frames reach the driver, and the guest's the host, in their order and     *)
(* each once; only what waits while the receiver is off is thrown away.     *)
Waiting ==
    LET later == Entries(mac.used)
    IN  (IF mac.usedValid THEN << mac.popped.size >> ELSE << >>) \o [i \in 1 .. Len(later) |-> later[i].size]

FromHost == INSTANCE FrameQueue WITH waiting <- Waiting, passed <- taken, up <- mac.rxEnable
ToHost   == INSTANCE FrameQueue WITH waiting <- mac.toHost, passed <- onWire, up <- TRUE
FramesInOrder == FromHost!Spec /\ ToHost!Spec

(* A frame that was accepted reaches the driver, unless the receiver is      *)
(* switched off; and while it is on, buffers do not run out for good.       *)
HandedOn ==
    /\ \A f \in 1 .. MaxFrames :
         (\E i \in 1 .. Len(Waiting) : Waiting[i] = f) ~> ((\E i \in 1 .. Len(taken) : taken[i] = f) \/ task # "run")
    /\ task = "run" ~> HasBuffer(mac) \/ task # "run"
=============================================================================
