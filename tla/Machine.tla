------------------------------ MODULE Machine ------------------------------
(***************************************************************************)
(* The machine loop of ue2-core (machine.rs, Machine::run): one iteration  *)
(* ticks the devices that are due, takes an interrupt or executes one      *)
(* instruction, advances the emulated clock, and may fast-forward an idle  *)
(* loop.  A machine is one record, as Machine is one struct, and an        *)
(* iteration is a function of it; module IdleSkip runs two of them.        *)
(*                                                                         *)
(* The CPU has one register x; memory is one word.  Two devices have       *)
(* events: the ITU with its periodic interrupt timer, and one that writes  *)
(* DDR when it is due (a C64 cartridge, the WiFi UART), here `dma'.        *)
(***************************************************************************)
EXTENDS Integers

CONSTANTS
    Values,         \* the register and the word are in 0 .. Values - 1
    ClocksPerInsn,  \* MachineConfig::clocks_per_insn
    StallClocks,    \* IoCtx::stall of an access to a C64 window
    Period,         \* irq_timer_reload() + 1
    DmaDelay,       \* from the register write to the DMA
    Handler         \* mtvec

ASSUME MachineAssumption ==
    {Values, ClocksPerInsn, StallClocks, Period, DmaDelay, Handler} \subseteq Nat \ {0}

Never == -1         \* u64::MAX: no event is scheduled
Due(event, now) == event # Never /\ event <= now
Word  == 0 .. Values - 1

(* Interrupt sources of the low byte; those of the high byte are level      *)
(* sources like NetSource.  Edge sources latch a flag.                      *)
TimerSource == 0
UsbSource   == 2
NetSource   == 5
Source      == {TimerSource, UsbSource, NetSource}
EdgeMask    == {TimerSource, UsbSource}

Op == { "nop", "load", "store", "inc", "beqz", "j", "mret", "di", "ei",
        "count", "window", "clear", "timerOn", "timerOff", "dma" }
Insn == [op : Op, to : Nat]

-----------------------------------------------------------------------------
(* irq.rs: IrqState. *)
Pulse(irq, source) ==
    [irq EXCEPT !.flags = @ \cup (({source} \cap EdgeMask) \ irq.level)]

SetLevel(irq, source, on) ==
    IF on THEN [Pulse(irq, source) EXCEPT !.level = @ \cup {source}]
          ELSE [irq EXCEPT !.level = @ \ {source}]

Active(irq) == (irq.flags \cup (irq.level \ EdgeMask)) \cap irq.mask
Line(irq)   == irq.global /\ Active(irq) # {}

-----------------------------------------------------------------------------
(* Mutant: a late pulse restarts the period. *)
SyncLate(m) ==
    IF ~Due(m.pulse, m.now) THEN m
    ELSE [m EXCEPT !.irq = Pulse(@, TimerSource), !.pulse = m.now + Period]

(* itu.rs: the interrupt timer.  Pulses a late caller missed merge into one  *)
(* flag; the phase is kept.                                                 *)
Sync(m) ==
    IF ~Due(m.pulse, m.now) THEN m
    ELSE [m EXCEPT !.irq = Pulse(@, TimerSource),
                   !.pulse = m.now + Period - ((m.now - m.pulse) % Period)]

(* Itu::irq_timer_cnt and write_irq_timer_en: enabling restarts the phase, a *)
(* write while enabled keeps it.                                            *)
Count(m) == IF m.pulse # Never THEN m.pulse - 1 - m.now ELSE m.frozen

TimerEnable(m, on) ==
    LET count == IF m.enabled THEN Count(m) ELSE Period - 1
        next  == m.now + count + 1
    IN  [m EXCEPT !.enabled = on, !.frozen = count,
                  !.pulse = IF on THEN next ELSE Never,
                  !.phase = IF on /\ ~m.enabled THEN next % Period ELSE @]

-----------------------------------------------------------------------------
(* bus.rs: SystemBus. *)
Earlier(s, t)   == IF t = Never \/ (s # Never /\ s <= t) THEN s ELSE t
NextDeadline(m) == Earlier(m.pulse, m.dma)

DmaTick(m) ==
    IF ~Due(m.dma, m.now) THEN m
    ELSE [m EXCEPT !.ram = (@ + 1) % Values, !.dma = Never, !.irq = Pulse(@, UsbSource)]

TickDue(m) == DmaTick(Sync([m EXCEPT !.dirty = TRUE]))

(* io_read8, io_write8. *)
Touch(m) == [m EXCEPT !.touched = TRUE, !.dirty = TRUE]

Store(m, value) == [m EXCEPT !.ram = value, !.dirty = TRUE]

-----------------------------------------------------------------------------
(* rv32: Cpu::step.                                                         *)
Trap(m) ==
    [m EXCEPT !.csr = [mie |-> FALSE, mpie |-> m.csr.mie, mepc |-> m.pc],
              !.pc = Handler, !.exit = "interrupt"]

Mret(m) ==
    [m EXCEPT !.csr.mie = m.csr.mpie, !.csr.mpie = TRUE, !.pc = m.csr.mepc]

(* An access to the ITU sees a timer pulse that is due.                     *)
IoAccess(m, op) ==
    LET s == Sync(Touch(m))
    IN  CASE op = "count"    -> [s EXCEPT !.x = Count(s) % Values]
          [] op = "window"   -> [Touch(m) EXCEPT !.stall = @ + StallClocks]
          [] op = "clear"    -> [s EXCEPT !.irq.flags = {}]
          [] op = "timerOn"  -> TimerEnable(s, TRUE)
          [] op = "timerOff" -> TimerEnable(s, FALSE)
          [] op = "dma"      -> [Touch(m) EXCEPT !.dma = m.now + DmaDelay]

Execute(m, insn) ==
    LET n == [m EXCEPT !.pc = @ + 1]
    IN  CASE insn.op = "nop"   -> n
          [] insn.op = "load"  -> [n EXCEPT !.x = m.ram]
          [] insn.op = "store" -> Store(n, m.x)
          [] insn.op = "inc"   -> [n EXCEPT !.x = (@ + 1) % Values]
          [] insn.op = "beqz"  -> [n EXCEPT !.pc = IF m.x = 0 THEN insn.to ELSE @]
          [] insn.op = "j"     -> [n EXCEPT !.pc = insn.to]
          [] insn.op = "mret"  -> Mret(m)
          [] insn.op = "di"    -> [n EXCEPT !.csr.mie = FALSE]
          [] insn.op = "ei"    -> [n EXCEPT !.csr.mie = TRUE]
          [] OTHER             -> IoAccess(n, insn.op)

CpuStep(m, code) ==
    IF m.meip /\ m.csr.mie
      THEN Trap(m)
      ELSE Execute([m EXCEPT !.insns = @ + 1, !.exit = "stepped"], code[m.pc])

-----------------------------------------------------------------------------
(* machine.rs. *)
PreStep(m) ==
    LET ticked == IF ~Due(m.deadline, m.now) THEN m
                  ELSE LET t == TickDue(m) IN [t EXCEPT !.deadline = NextDeadline(t)]
    IN  [ticked EXCEPT !.meip = Line(ticked.irq)]

(* Mutant: an event scheduled by a register write is not looked at. *)
PostStepStale(m) ==
    [m EXCEPT !.now = @ + ClocksPerInsn + m.stall, !.stall = 0, !.touched = FALSE]

PostStep(m) ==
    LET later == [m EXCEPT !.now = @ + ClocksPerInsn + m.stall, !.stall = 0, !.touched = FALSE]
    IN  IF m.touched THEN [later EXCEPT !.deadline = NextDeadline(m)] ELSE later

(* Mutant: what happened since the last arrival is not asked. *)
FixedPointUnclean(m) ==
    m.insns - m.slot.insns = m.slot.period /\ m.x = m.slot.x /\ m.csr = m.slot.csr

(* Machine::idle_arrival: the loop has reached a fixed point.               *)
FixedPoint(m) ==
    /\ ~m.dirty
    /\ m.irqs = m.slot.irqs
    /\ m.insns - m.slot.insns = m.slot.period
    /\ m.x = m.slot.x
    /\ m.csr = m.slot.csr

NewSlot(m) ==
    [head |-> m.pc, insns |-> m.insns, irqs |-> m.irqs, x |-> m.x, csr |-> m.csr, period |-> 0]

(* Mutant: passes up to the deadline, whatever is left of the budget. *)
PassesUnbudgeted(m, period) ==
    IF m.now < m.deadline THEN (m.deadline - m.now) \div (period * ClocksPerInsn) ELSE 0

(* Whole passes that neither outrun the budget nor reach past the deadline. *)
Passes(m, period) ==
    LET budget == m.left \div period
        clocks == IF m.now < m.deadline THEN m.deadline - m.now ELSE 0
        passes == clocks \div (period * ClocksPerInsn)
    IN  IF m.deadline = Never \/ budget <= passes THEN budget ELSE passes

Skip(m, period) ==
    LET skipped == Passes(m, period) * period
    IN  [m EXCEPT !.left = @ - skipped, !.now = @ + skipped * ClocksPerInsn,
                  !.idleInsns = @ + skipped]

(* Mutant: the period of the arrival before is not kept. *)
IdleArrivalNew(m) == [m EXCEPT !.dirty = FALSE, !.slot = NewSlot(m)]

IdleArrival(m) ==
    LET period  == m.insns - m.slot.insns
        seen    == [m EXCEPT !.dirty = FALSE]
        watched == [seen EXCEPT !.slot.insns = m.insns, !.slot.irqs = m.irqs, !.slot.period = period]
    IN  IF m.slot.head # m.pc THEN [seen EXCEPT !.slot = NewSlot(m)]
        ELSE IF FixedPoint(m) THEN Skip(watched, period)
        ELSE [watched EXCEPT !.slot.x = m.x, !.slot.csr = m.csr]

(* The fields of a machine. *)
Csr    == [mie : BOOLEAN, mpie : BOOLEAN, mepc : Nat]
Irq    == [global : BOOLEAN, mask : SUBSET Source, flags : SUBSET EdgeMask, level : SUBSET Source]
Slot   == [head : Nat, insns : Nat, irqs : Nat, x : Word, csr : Csr, period : Nat]
Event  == Nat \cup {Never}
State  ==
    [ pc : Nat, x : Word, csr : Csr, meip : BOOLEAN, insns : Nat, exit : {"stepped", "interrupt"},
      ram : Word, now : Nat, dirty : BOOLEAN, touched : BOOLEAN, stall : Nat, irq : Irq,
      enabled : BOOLEAN, frozen : Nat, pulse : Event, phase : Nat, dma : Event,
      deadline : Event, irqs : Nat, idleInsns : Nat, left : Nat, slot : Slot ]

(* One iteration of Machine::run, with the idle skip or without.            *)
Iterate(m, code, skip) ==
    LET s == PostStep(CpuStep(PreStep([m EXCEPT !.left = @ - 1]), code))
    IN  IF s.exit = "interrupt" THEN [s EXCEPT !.irqs = @ + 1]
        ELSE IF skip /\ s.pc <= m.pc THEN IdleArrival(s)
        ELSE s

BeginRun(m, budget) == [m EXCEPT !.left = budget, !.dirty = TRUE]

(* Machine::from_parts; the firmware has enabled every source.              *)
Boot ==
    [ pc |-> 1, x |-> 0, csr |-> [mie |-> TRUE, mpie |-> FALSE, mepc |-> 1], meip |-> FALSE,
      insns |-> 0, exit |-> "stepped",
      ram |-> 0, now |-> 0, dirty |-> TRUE, touched |-> FALSE, stall |-> 0,
      irq |-> [global |-> TRUE, mask |-> Source, flags |-> {}, level |-> {}],
      enabled |-> FALSE, frozen |-> 0, pulse |-> Never, phase |-> 0, dma |-> Never,
      deadline |-> Never, irqs |-> 0, idleInsns |-> 0, left |-> 0,
      slot |-> [head |-> 0, insns |-> 0, irqs |-> 0, x |-> 0,
                csr |-> [mie |-> TRUE, mpie |-> FALSE, mepc |-> 1], period |-> 0] ]
=============================================================================
