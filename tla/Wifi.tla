-------------------------------- MODULE Wifi --------------------------------
(***************************************************************************)
(* The DMA UART to the ESP32 (devices/wifi.rs): whole frames between RAM   *)
(* and the module, two receive addresses (one latched, one pending), the   *)
(* level interrupt, the module's mode and its boot loader's banner, and    *)
(* with --trx-io the rocker's events, which never reach RAM.               *)
(*                                                                         *)
(* The firmware's driver is external, as the tests and docs/hw/04 have it: *)
(* an interrupt handler, one access a step, and tasks, which it preempts.  *)
(* A frame's length is its number.  Time is counted in REPLY_DELAY.        *)
(***************************************************************************)
EXTENDS Naturals, Sequences, SequencesExt

CONSTANTS
    RxBuffers,    \* receive buffers of the driver's pool
    TxBuffers,
    Hold,         \* ESP_EVENT_HOLD
    MaxSends      \* bound: what tasks and host start

VARIABLES
    uart,     \* Wifi, the frames still inside the ESP32, RAM and the interrupt line
    wifi,     \* the driver: buffer pools and queues, its handler, its task
    owed,     \* frames the module sent and the driver has not got, in order (history)
    sends

vars == << uart, wifi, owed, sends >>

None  == 0
Modes == {"run", "off", "boot"}
RxBuf == 1 .. RxBuffers

----------------------------------------------------------------------------
(* The UART.                                                                *)

Sources(u) ==
    u.en \cap ({"tx"} \cup (IF u.lenValid THEN {"rx"} ELSE {}) \cup (IF u.pending = None THEN {"buf"} ELSE {}))

HeadDue(u) == u.out # << >> /\ Head(u.out).wait = 0

(* The events at the head go to the holds of EspButtons. *)
Diverted(u) ==
    LET first == SelectInSeq(u.out, LAMBDA f : ~f.event \/ f.wait > 0)
        gone  == IF first = 0 THEN Len(u.out) ELSE first - 1
    IN  IF ~u.events \/ gone = 0 THEN u
        ELSE [u EXCEPT !.out = SubSeq(@, gone + 1, Len(@)), !.held = Hold]

Latched(u) ==
    IF u.active = None /\ u.pending # None /\ (u.events => HeadDue(u))
    THEN [u EXCEPT !.active = u.pending, !.pending = None]
    ELSE u

Landed(u) ==
    [u EXCEPT !.ram[u.active] = Head(u.out).id, !.len = Head(u.out).id, !.lenValid = TRUE,
              !.at = u.active, !.active = None, !.out = Tail(@)]

CanLandOver(u) == u.active # None /\ HeadDue(u)                    \* a mutant
CanLand(u) == ~u.lenValid /\ u.active # None /\ HeadDue(u)

(* service_rx: a second frame waits for the pop of the first. *)
ServiceRx(u) ==
    LET ready == Latched(Diverted(u))
    IN  IF CanLand(ready) THEN Latched(Diverted(Landed(ready))) ELSE ready

(* What every write and every tick ends with *)
Serviced(u) == LET s == ServiceRx(u) IN [s EXCEPT !.level = Sources(s) # {}]

NextEvent(u) ==
    /\ u.out # << >>
    /\ \/ u.events /\ Head(u.out).event
       \/ u.events /\ u.active = None /\ u.pending # None
       \/ ~u.lenValid /\ u.active # None

Due(u) == NextEvent(u) /\ Head(u.out).wait = 0

Frame(id, wait, event) == [id |-> id, wait |-> wait, event |-> event]

SoftReset(u) == [u EXCEPT !.en = {}, !.pending = None, !.active = None, !.lenValid = FALSE]

(* flow_changed; n numbers the banner should it become a frame. *)
FlowChanged(u, mode, slip, n) ==
    LET moved == IF mode = u.mode THEN u ELSE [u EXCEPT !.out = << >>, !.ascii = (mode = "boot" /\ ~slip)]
        cut   == slip /\ ~u.slip /\ moved.ascii
    IN  [moved EXCEPT !.mode = mode, !.slip = slip, !.ascii = @ /\ ~cut,
                      !.out = IF cut THEN Append(@, Frame(n, 0, FALSE)) ELSE @]

(* The boot loader answers everything, the control module all but a packet to send. *)
Answers(u, kind) == u.mode = "boot" \/ kind # "packet"

Transmit(u, req) == IF Answers(u, req.kind) THEN [u EXCEPT !.out = Append(@, Frame(req.id, 1, FALSE))] ELSE u

NewUart(events) ==
    [events |-> events, mode |-> "boot", slip |-> FALSE, ascii |-> FALSE, en |-> {}, pending |-> None, active |-> None,
     at |-> None, len |-> 0, lenValid |-> FALSE, out |-> << >>, held |-> 0, ram |-> [b \in RxBuf |-> 0], level |-> FALSE]

----------------------------------------------------------------------------
(* The driver.                                                              *)

NewDriver ==
    [freeTx |-> TxBuffers, freeRx |-> [i \in RxBuf |-> i], queue |-> << >>, received |-> {}, rxBufs |-> << >>,
     sending |-> FALSE, isr |-> << >>, pc |-> "off"]

Init ==
    /\ \E events \in BOOLEAN : uart = NewUart(events)
    /\ wifi = NewDriver
    /\ owed = << >>
    /\ sends = 0

(* The frames of a module that restarts or a receiver that is reset are lost. *)
LandedId(u) == IF u.lenValid THEN << u.ram[u.at] >> ELSE << >>
DataIds(u)  == LET data == SelectSeq(u.out, LAMBDA f : ~f.event) IN [i \in DOMAIN data |-> data[i].id]

Isr(rest) == [wifi EXCEPT !.isr = rest \o Tail(@)]

IsrEnter ==
    /\ ~Due(uart) /\ wifi.isr = << >> /\ uart.level
    /\ wifi' = [wifi EXCEPT !.isr = << "status" >>]
    /\ UNCHANGED << uart, owed, sends >>

(* One access of DmaUartInterrupt. *)
IsrStatus ==
    /\ wifi' = [wifi EXCEPT !.isr =
                  IF Sources(uart) = {} THEN << >>
                  ELSE SelectSeq(<< "buf", "tx", "rx" >>, LAMBDA s : s \in Sources(uart)) \o << "status" >>]
    /\ UNCHANGED << uart, owed >>

IsrBuf ==
    /\ IF wifi.freeRx = << >>
       THEN uart' = Serviced([uart EXCEPT !.en = @ \ {"buf"}]) /\ wifi' = Isr(<< >>)
       ELSE /\ uart' = Serviced([uart EXCEPT !.pending = Head(wifi.freeRx)])
            /\ wifi' = [Isr(<< "rxen" >>) EXCEPT !.freeRx = Tail(@), !.rxBufs = Append(@, Head(wifi.freeRx))]
    /\ UNCHANGED owed

IsrRxEn ==
    /\ uart' = Serviced([uart EXCEPT !.en = @ \cup {"rx"}])
    /\ wifi' = Isr(<< >>)
    /\ UNCHANGED owed

IsrTx ==
    \/ /\ wifi.sending
       /\ uart' = Serviced([uart EXCEPT !.en = @ \cup {"buf"}])
       /\ wifi' = [Isr(<< >>) EXCEPT !.sending = FALSE, !.freeTx = @ + 1]
       /\ UNCHANGED owed
    \/ /\ ~wifi.sending /\ wifi.queue # << >>
       /\ LET req == Head(wifi.queue)
          IN  /\ uart' = Serviced(Transmit(uart, req))
              /\ owed' = IF Answers(uart, req.kind) THEN Append(owed, req.id) ELSE owed
       /\ wifi' = [Isr(<< >>) EXCEPT !.sending = TRUE, !.queue = Tail(@)]
    \/ /\ ~wifi.sending /\ wifi.queue = << >>
       /\ uart' = Serviced([uart EXCEPT !.en = @ \ {"tx"}])
       /\ wifi' = Isr(<< >>)
       /\ UNCHANGED owed

IsrRx ==
    /\ wifi' = IF wifi.rxBufs = << >> THEN Isr(<< "pop" >>)
               ELSE [Isr(<< "pop" >>) EXCEPT !.rxBufs = Tail(@),
                       !.received = @ \cup {[buf |-> Head(wifi.rxBufs), len |-> uart.len, id |-> Head(owed)]}]
    /\ owed' = Tail(owed)
    /\ UNCHANGED uart

IsrPop ==
    /\ uart' = Serviced([uart EXCEPT !.lenValid = FALSE])
    /\ wifi' = Isr(<< >>)
    /\ UNCHANGED owed

IsrStep ==
    /\ ~Due(uart) /\ wifi.isr # << >> /\ UNCHANGED sends
    /\ CASE Head(wifi.isr) = "status" -> IsrStatus
         [] Head(wifi.isr) = "buf"    -> IsrBuf
         [] Head(wifi.isr) = "rxen"   -> IsrRxEn
         [] Head(wifi.isr) = "tx"     -> IsrTx
         [] Head(wifi.isr) = "rx"     -> IsrRx
         [] Head(wifi.isr) = "pop"    -> IsrPop

(* A task's step: it does not run while the line is up. *)
Task(at) == ~Due(uart) /\ wifi.isr = << >> /\ ~uart.level /\ wifi.pc = at
Starts == sends < MaxSends /\ sends' = sends + 1

(* GetBuffer and TransmitPacket, the enable *)
Request ==
    /\ Task("idle") /\ Starts /\ wifi.freeTx > 0
    /\ \E kind \in {"rpc", "packet"} :
         wifi' = [wifi EXCEPT !.freeTx = @ - 1, !.queue = Append(@, [kind |-> kind, id |-> sends + 1]), !.pc = "txen"]
    /\ UNCHANGED << uart, owed >>

Enable(at, source) ==
    /\ Task(at)
    /\ uart' = Serviced([uart EXCEPT !.en = @ \cup {source}])
    /\ wifi' = [wifi EXCEPT !.pc = "idle"]
    /\ UNCHANGED << owed, sends >>

(* FreeBuffer, by whoever waited for the reply *)
FreeBuffer ==
    /\ Task("idle")
    /\ \E r \in wifi.received :
         wifi' = [wifi EXCEPT !.received = @ \ {r}, !.freeRx = Append(@, r.buf), !.pc = "bufen"]
    /\ UNCHANGED << uart, owed, sends >>

(* A write of flowctrl, with or without the reset strobe *)
Flow(reset, mode, slip) ==
    LET after == FlowChanged(IF reset THEN SoftReset(uart) ELSE uart, mode, slip, sends + 1)
    IN  uart' = Serviced(after) /\ owed' = LandedId(after) \o DataIds(after)

(* The constructor, then wifi_command_init, which ClearRxBuffer begins *)
Constructor ==
    /\ Task("off") /\ Flow(TRUE, "run", FALSE)
    /\ wifi' = [wifi EXCEPT !.pc = "clear"] /\ UNCHANGED sends

CommandInit ==
    /\ Task("idle") /\ Starts /\ wifi.received = {}
    /\ Flow(TRUE, uart.mode, uart.slip)
    /\ wifi' = [wifi EXCEPT !.pc = "clear"]

ClearRxBuffer ==
    /\ Task("clear") /\ Flow(TRUE, uart.mode, uart.slip)
    /\ wifi' = [NewDriver EXCEPT !.sending = wifi.sending, !.pc = "slip"] /\ UNCHANGED sends

EnableSlip ==
    /\ Task("slip") /\ Flow(FALSE, uart.mode, TRUE)
    /\ wifi' = [wifi EXCEPT !.pc = "enable"] /\ UNCHANGED sends

EnableIrq ==
    /\ Task("enable")
    /\ uart' = Serviced([uart EXCEPT !.en = @ \cup {"rx", "buf"}])
    /\ wifi' = [wifi EXCEPT !.pc = "idle"]
    /\ UNCHANGED << owed, sends >>

(* ModuleCtrl and EnableSlip of the updater: the module restarts, or its      *)
(* banner is cut into a frame.                                                *)
Updater ==
    /\ Task("idle") /\ Starts
    /\ \E mode \in Modes, slip \in BOOLEAN : (mode = uart.mode \/ slip = uart.slip) /\ Flow(FALSE, mode, slip)
    /\ UNCHANGED wifi

----------------------------------------------------------------------------
(* The machine and the host.                                                *)

(* The tick at next_event, before the next instruction *)
Tick == Due(uart) /\ uart' = Serviced(uart) /\ UNCHANGED << wifi, owed, sends >>

(* Time passes up to the next deadline. *)
Pass ==
    /\ ~Due(uart) /\ (uart.held > 0 \/ \E i \in DOMAIN uart.out : uart.out[i].wait > 0)
    /\ uart' = [uart EXCEPT !.held = IF @ > 0 THEN @ - 1 ELSE 0,
                            !.out = [i \in DOMAIN @ |-> [@[i] EXCEPT !.wait = IF @ > 0 THEN @ - 1 ELSE 0]]]
    /\ UNCHANGED << wifi, owed, sends >>

(* A gesture on the rocker, which only --trx-io passes on *)
RockerPressed ==
    /\ uart.events /\ ~Due(uart) /\ Starts
    /\ uart' = [uart EXCEPT !.out = Append(@, Frame(sends + 1, 0, TRUE))]
    /\ UNCHANGED << wifi, owed >>

(* Wifi::reset with the machine: RAM and the holds stay. *)
Reset ==
    /\ Starts /\ wifi.pc # "off"
    /\ uart' = [NewUart(uart.events) EXCEPT !.held = uart.held, !.ram = uart.ram]
    /\ wifi' = NewDriver
    /\ owed' = << >>

Next ==
    \/ IsrEnter \/ IsrStep
    \/ Request \/ Enable("txen", "tx") \/ FreeBuffer \/ Enable("bufen", "buf")
    \/ Constructor \/ CommandInit \/ ClearRxBuffer \/ EnableSlip \/ EnableIrq \/ Updater
    \/ Tick \/ Pass \/ RockerPressed \/ Reset

Spec == Init /\ [][Next]_vars

----------------------------------------------------------------------------
(* Properties.                                                              *)

One(b) == IF b = None THEN << >> ELSE << b >>
Taken  == wifi.isr # << >> /\ Head(wifi.isr) = "pop"     \* read, not yet popped

(* The handler knows which buffer a frame is in only by the order in which it *)
(* armed them (docs/hw/04 H11): it must be the UART's order, and each buffer  *)
(* the driver has got holds the next frame the module sent, with its length,  *)
(* whatever landed meanwhile.                                                 *)
BuffersInOrder ==
    /\ wifi.pc \notin {"off", "clear"} =>
         wifi.rxBufs = (IF uart.lenValid /\ ~Taken THEN << uart.at >> ELSE << >>) \o One(uart.active) \o One(uart.pending)
    /\ owed = (IF Taken THEN << >> ELSE LandedId(uart)) \o DataIds(uart)
    /\ \A r \in wifi.received : r.len = r.id /\ uart.ram[r.buf] = r.id

(* The line is what the handler's status read shows, and nothing the receiver *)
(* could do waits past its deadline.                                          *)
NothingLate ==
    /\ uart.level = (Sources(uart) # {})
    /\ ~Due(uart) => ServiceRx(uart) = uart

(* With the line down and no task at work, a frame waits only while every     *)
(* buffer is with a task, and no request waits at all.                        *)
NothingStuck ==
    wifi.pc = "idle" /\ wifi.isr = << >> /\ ~uart.level /\ ~Due(uart) =>
      /\ HeadDue(uart) => wifi.freeRx = << >> /\ wifi.rxBufs = << >>
      /\ wifi.queue = << >> /\ ~wifi.sending

(* Every frame of the module reaches the driver, once, whole and in order,    *)
(* unless the module or the receiver was reset; the rocker's events never.    *)
WifiDelivers == BuffersInOrder /\ NothingLate /\ NothingStuck
=============================================================================
