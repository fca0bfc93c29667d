------------------------------ MODULE IdleSkip ------------------------------
(***************************************************************************)
(* "After a skip, time, registers, RAM and every device are exactly where  *)
(* they would have been had the instructions run" (docs/specs/             *)
(* S19-idle-skip.md).  Two machines run the same firmware, one with the    *)
(* idle skip and one without; the host gives both the same slices and the  *)
(* same input between slices.  The one without is the specification.       *)
(***************************************************************************)
EXTENDS Machine, Sequences

CONSTANTS
    Firmware,   \* the programs: sequences of instructions, the handler among them
    Budgets,    \* max_insns of a slice
    MaxSlices   \* bound: slices in a behaviour

(* A program does not run out of its memory.                                *)
ASSUME FirmwareAssumption ==
    /\ MaxSlices \in Nat /\ Budgets \subseteq Nat
    /\ \A f \in Firmware :
         /\ f \in Seq(Insn) /\ {1, Handler} \subseteq DOMAIN f
         /\ \A pc \in DOMAIN f :
              /\ f[pc].op \in {"j", "beqz"} => f[pc].to \in DOMAIN f
              /\ f[pc].op \notin {"j", "mret"} => pc + 1 \in DOMAIN f

VARIABLES
    code,       \* the firmware
    fast, slow, \* the machine with the skip, and the one without
    slices,     \* slices begun
    began       \* instructions fast had executed when the slice began

vars == << code, fast, slow, slices, began >>

Init ==
    /\ code \in Firmware
    /\ fast = Boot /\ slow = Boot
    /\ slices = 0 /\ began = 0

(* Between two slices the host may write DDR (USB, the network pump, a       *)
(* command), move an interrupt level (Rmii::exchange), or give input that    *)
(* schedules a device event (Machine::input recomputes the deadline).        *)
HostInput == {"nothing", "ram", "up", "down", "event"}

Given(m, input) ==
    CASE input = "nothing" -> m
      [] input = "ram"     -> [m EXCEPT !.ram = (@ + 1) % Values]
      [] input = "up"      -> [m EXCEPT !.irq = SetLevel(@, NetSource, TRUE)]
      [] input = "down"    -> [m EXCEPT !.irq = SetLevel(@, NetSource, FALSE)]
      [] input = "event"   -> LET s == [m EXCEPT !.dma = m.now + DmaDelay]
                              IN  [s EXCEPT !.deadline = NextDeadline(s)]

BeginSlice ==
    /\ fast.left = 0 /\ slow.left = 0 /\ slices < MaxSlices
    /\ \E input \in HostInput, budget \in Budgets :
         /\ fast' = BeginRun(Given(fast, input), budget)
         /\ slow' = BeginRun(Given(slow, input), budget)
    /\ slices' = slices + 1 /\ began' = fast.insns
    /\ UNCHANGED code

FastStep ==
    /\ fast.left > 0 /\ slow.left = fast.left
    /\ fast' = Iterate(fast, code, TRUE)
    /\ UNCHANGED << code, slow, slices, began >>

SlowStep ==
    /\ slow.left > fast.left
    /\ slow' = Iterate(slow, code, FALSE)
    /\ UNCHANGED << code, fast, slices, began >>

Next == BeginSlice \/ FastStep \/ SlowStep
Spec == Init /\ [][Next]_vars

-----------------------------------------------------------------------------
(* The type invariant of both machines.                                     *)
MachineType(m) ==
    /\ m \in State
    /\ m.pc \in DOMAIN code /\ m.csr.mepc \in DOMAIN code
    /\ m.enabled <=> m.pulse # Never
    /\ m.frozen < Period /\ m.phase < Period
    /\ m.stall = 0 /\ ~m.touched

TypeOK == /\ MachineType(fast) /\ MachineType(slow)
          /\ slices \in 0 .. MaxSlices /\ began \in Nat

(* What the program, a device or the host can see of a machine; of the      *)
(* instructions only how many have passed.                                  *)
Visible(m) ==
    [m EXCEPT !.insns = @ + m.idleInsns, !.idleInsns = 0, !.dirty = FALSE, !.slot = Boot.slot]

(* The idle skip changes nothing: whenever both machines have used the same  *)
(* budget, they are in the same state at the same time.                     *)
SkipIsExact == fast.left = slow.left => Visible(fast) = Visible(slow)

(* No device event is passed by: the deadline the loop compares with is      *)
(* recomputed wherever it can change, and no skip goes past it, so an event  *)
(* is at most one instruction late.                                         *)
InTime(m) ==
    \A event \in {m.pulse, m.dma} \ {Never} : m.now < event + ClocksPerInsn + StallClocks
DevicesInTime == InTime(fast) /\ InTime(slow)

(* The timer keeps the phase its enabling gave it, however late a tick or an *)
(* access delivers its pulses.                                              *)
Phase(m)  == m.pulse # Never => m.pulse % Period = m.phase
PhaseKept == Phase(fast) /\ Phase(slow)

(* A loop that only reads is skipped: with no event and no interrupt, a      *)
(* slice executes no more than four passes of it.                           *)
ReadsOnly ==
    \A pc \in 1 .. Handler - 1 :
        code[pc].op \in {"nop", "load", "beqz", "j"} /\ (code[pc].to \in 1 .. pc => pc = Handler - 1)

IdleIsSkipped ==
    ReadsOnly /\ fast.irqs = 0 /\ NextDeadline(fast) = Never
        => fast.insns - began <= 4 * (Handler - 1)

(* The inductive invariant of DevicesInTime and PhaseKept: the deadline in   *)
(* use is the earliest event, and the timer is at most a period ahead.       *)
Timed(m) ==
    /\ m.deadline = NextDeadline(m)
    /\ m.pulse # Never => m.pulse <= m.now + Period
    /\ m.slot.insns <= m.insns
    /\ InTime(m) /\ Phase(m)

IdleSkipInvariant == TypeOK /\ Timed(fast) /\ Timed(slow)
=============================================================================
