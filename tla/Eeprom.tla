------------------------------- MODULE Eeprom -------------------------------
(***************************************************************************)
(* The serial EEPROM of a GMOD2 cartridge (cart_eeprom.rs): a microwire    *)
(* state machine behind three pins the C64 writes, and the window through  *)
(* which the firmware reads the memory, writes it and clears the dirty     *)
(* flag.                                                                   *)
(*                                                                         *)
(* An instruction is a start bit, two opcode bits and AddrBits of address  *)
(* (10 in the chip), the upper two of which say which of four instructions *)
(* an opcode 00 is; a word is two bytes of one bit each (of eight).        *)
(***************************************************************************)
EXTENDS Naturals, Sequences

CONSTANTS
    AddrBits,
    MaxSelects    \* bound: times the chip is selected

VARIABLE ee       \* the chip; wire, ref and unsaved say what the pins meant (history)

Words == 2 ^ AddrBits
Last  == 2 * Words - 1
Bit   == {0, 1}
InstrBits == AddrBits + 2
Ones == << 1, 1 >>                        \* data_word 0xFFFF: << high byte, low byte >>

AddressBits(i) == i % Words
OpcodeOf(i)    == i \div Words
Extended(i)    == AddressBits(i) \div (Words \div 4)

Write == 1
Read  == 2
Collects(i) == OpcodeOf(i) = Write \/ (OpcodeOf(i) = 0 /\ Extended(i) = 1)

(* A byte reaches the memory when writing is enabled. *)
Put(e, b) ==
    IF e.wen THEN [e EXCEPT !.mem = [@ EXCEPT ![e.addr] = b], !.dirty = TRUE] ELSE e

To(e, state) == [e EXCEPT !.state = state]

Idled(e) == [e EXCEPT !.count = InstrBits - 1, !.out = 1, !.word = Ones, !.state = IF e.sel THEN "Selected" ELSE "Idle"]

Instruction(e) ==
    [e EXCEPT !.instr = (2 * @ + e.din) % (4 * Words), !.state = IF e.count = 0 THEN "Decode" ELSE @,
              !.count = IF @ = 0 THEN @ ELSE @ - 1]

Decode(e) ==
    IF Collects(e.instr) THEN [To(e, "CollectData") EXCEPT !.count = 1]
    ELSE IF OpcodeOf(e.instr) = Read
         THEN [To(e, "Reading") EXCEPT !.count = 1, !.addr = 2 * AddressBits(e.instr), !.load = TRUE]
         ELSE [To(e, "WaitDeselect") EXCEPT !.count = 1]

CollectData(e) ==
    [e EXCEPT !.word = << @[2], e.din >>, !.state = IF e.count = 0 THEN "WaitDeselect" ELSE @,
              !.count = IF @ = 0 THEN @ ELSE @ - 1]

Execute(e) ==
    LET x == [e EXCEPT !.out = 0]
    IN  CASE OpcodeOf(e.instr) \in {1, 3} ->
               Put([To(x, "Write2") EXCEPT !.addr = 2 * AddressBits(e.instr)], e.word[1])
          [] OpcodeOf(e.instr) = 0 /\ Extended(e.instr) = 3 -> [To(x, "Idle") EXCEPT !.wen = TRUE]
          [] OpcodeOf(e.instr) = 0 /\ Extended(e.instr) = 0 -> [To(x, "Idle") EXCEPT !.wen = FALSE]
          [] OpcodeOf(e.instr) = 0 /\ Extended(e.instr) \in {1, 2} -> [To(x, "Fill") EXCEPT !.addr = 0]
          [] OpcodeOf(e.instr) = Read -> To(x, "Idle")

(* The address goes up in the clock that writes. *)
Fill(e) ==
    IF e.addr = Last THEN Put(To(e, "Idle"), e.word[2])
    ELSE Put([e EXCEPT !.addr = @ + 1], e.word[(e.addr % 2) + 1])

Reading(e) ==
    [e EXCEPT !.out = e.word[2 - e.count], !.load = e.count = 0,
              !.addr = IF e.count = 0 THEN (@ + 1) % (Last + 1) ELSE @,
              !.count = IF @ = 0 THEN @ ELSE @ - 1]

(* The byte a read asked for is in before the next edge can shift it out. *)
Loaded(e) ==
    IF e.load /\ e.state = "Reading" THEN [e EXCEPT !.word = << @[1], e.mem[e.addr] >>, !.count = 0, !.load = FALSE]
    ELSE [e EXCEPT !.load = FALSE]

SpoilsNever(e, rising) == FALSE    \* a mutant

(* One clock too many, even in the write that deselects the chip. *)
Spoils(e, rising) == e.state = "WaitDeselect" /\ rising

Stepped(e, rising) ==
    CASE e.state = "Idle" -> Idled(e)
      [] Spoils(e, rising) -> To(e, "Error")
      [] e.state = "WaitDeselect" /\ ~Spoils(e, rising) /\ ~e.sel -> To(e, "Execute")
      [] e.state \in {"Selected", "Instruction", "CollectData", "Error", "Reading"} /\ ~e.sel -> To(e, "Idle")
      [] e.state = "Selected" /\ e.sel /\ rising -> To(e, IF e.din = 1 THEN "Instruction" ELSE "Error")
      [] e.state = "Instruction" /\ e.sel /\ rising -> Instruction(e)
      [] e.state = "CollectData" /\ e.sel /\ rising -> CollectData(e)
      [] e.state = "Reading" /\ e.sel /\ rising -> Reading(e)
      [] e.state = "Decode" -> Decode(e)
      [] e.state = "Execute" -> Execute(e)
      [] e.state = "Fill" -> Fill(e)
      [] e.state = "Write2" -> Put([To(e, "Idle") EXCEPT !.addr = 2 * (@ \div 2) + 1], e.word[2])
      [] OTHER -> e

Step(e, rising) == Stepped(Loaded(e), rising)

Waits(e, before) == e.state \notin {"Decode", "Execute", "Fill", "Write2"} /\ ~e.load /\ e.state = before

(* The machine steps until it waits; the bound of the loop is the code's. *)
Settle(e) ==
    LET after[k \in 1 .. 4 * (Last + 1)] ==
            IF k = 1 THEN [chip |-> Step(e, FALSE), before |-> e.state]
            ELSE LET s == after[k - 1]
                 IN  IF Waits(s.chip, s.before) THEN s
                     ELSE [chip |-> Step(s.chip, FALSE), before |-> s.chip.state]
    IN  after[4 * (Last + 1)].chip

----------------------------------------------------------------------------
(* What the pins mean: the bits clocked in since the chip was selected.     *)

Number(bits) ==
    LET n[k \in 0 .. Len(bits)] == IF k = 0 THEN 0 ELSE 2 * n[k - 1] + bits[k] IN n[Len(bits)]

InstrOf(w) == Number(SubSeq(w, 2, 1 + InstrBits))

(* The wire holds exactly an instruction and the data it takes. *)
Complete(w) ==
    /\ Len(w) > InstrBits /\ w[1] = 1 /\ OpcodeOf(InstrOf(w)) # Read
    /\ Len(w) = 1 + InstrBits + IF Collects(InstrOf(w)) THEN 2 ELSE 0

WordOf(w) == IF Collects(InstrOf(w)) THEN SubSeq(w, 2 + InstrBits, 3 + InstrBits) ELSE Ones

(* A word goes high byte first; the fills begin at address 1, high and low  *)
(* byte changed places, and write the last byte twice.                      *)
Means(r, w) ==
    IF ~Complete(w) THEN r
    ELSE LET i == InstrOf(w)
             d == WordOf(w)
         IN  CASE OpcodeOf(i) = 0 /\ Extended(i) = 3 -> [r EXCEPT !.wen = TRUE]
               [] OpcodeOf(i) = 0 /\ Extended(i) = 0 -> [r EXCEPT !.wen = FALSE]
               [] OpcodeOf(i) \in {1, 3} /\ r.wen ->
                    [r EXCEPT !.mem = [@ EXCEPT ![2 * AddressBits(i)] = d[1], ![2 * AddressBits(i) + 1] = d[2]]]
               [] OpcodeOf(i) = 0 /\ Extended(i) \in {1, 2} /\ r.wen ->
                    [r EXCEPT !.mem = [a \in 0 .. Last |-> IF a = 0 THEN @[0]
                                                           ELSE IF a % 2 = 1 /\ a # Last THEN d[1] ELSE d[2]]]
               [] OTHER -> r

(* What DO shows after the bits w: a read streams the memory. *)
Shown(r, w) ==
    LET k == Len(w) - 1 - InstrBits
    IN  IF k > 0 /\ w[1] = 1 /\ OpcodeOf(InstrOf(w)) = Read
        THEN r.mem[(2 * AddressBits(InstrOf(w)) + k - 1) % (Last + 1)] ELSE 1

----------------------------------------------------------------------------

Blank == [a \in 0 .. Last |-> 1]

Init ==
    ee = [mem |-> Blank, dirty |-> FALSE, state |-> "Idle", count |-> 0, instr |-> 0, word |-> Ones, wen |-> FALSE, addr |-> 0,
          out |-> 1, sel |-> FALSE, clk |-> FALSE, din |-> 0, load |-> FALSE,
          wire |-> << >>, ref |-> [mem |-> Blank, wen |-> FALSE], unsaved |-> FALSE, selects |-> 0]

(* The meaning of a pin change.  An edge counts while the chip stays        *)
(* selected; one in the write that deselects it spoils the instruction.     *)
Noted(e, sel, rising, din) ==
    LET r == IF e.sel /\ ~sel /\ ~rising THEN Means(e.ref, e.wire) ELSE e.ref
    IN  [e EXCEPT !.wire = CASE ~sel -> << >> [] sel /\ e.sel /\ rising -> Append(@, din) [] OTHER -> @,
                  !.ref = r, !.selects = IF sel /\ ~e.sel THEN @ + 1 ELSE @,
                  !.unsaved = @ \/ r.mem # e.ref.mem]

SetPins(sel, clk, din) ==
    /\ << sel, clk, din >> # << ee.sel, ee.clk, ee.din >>
    /\ ee' = Settle(Step([Noted(ee, sel, clk /\ ~ee.clk, din) EXCEPT !.sel = sel, !.clk = clk, !.din = din],
                         clk /\ ~ee.clk))

(* The firmware's window. *)
IoWrite(a, b) == ee' = [ee EXCEPT !.mem = [@ EXCEPT ![a] = b], !.ref.mem = [@ EXCEPT ![a] = b]]

ClearDirty == ee' = [ee EXCEPT !.dirty = FALSE, !.unsaved = FALSE]

Next ==
    \/ /\ ee.selects < MaxSelects \/ ee.sel
       /\ Len(ee.wire) < 1 + InstrBits + 4
       /\ \E sel, clk \in BOOLEAN, din \in Bit : SetPins(sel, clk, din)
    \/ ee.selects < MaxSelects /\ ~ee.sel /\ IoWrite(Last, 0)
    \/ ee.dirty /\ ClearDirty

Spec == Init /\ [][Next]_ee

----------------------------------------------------------------------------
(* Whatever the C64 does to the pins, the memory and the write enable       *)
(* change only by complete instructions, at the deselect, each by what its  *)
(* bits say; a read streams the memory from its address; and the dirty flag *)
(* is up whenever the memory changed since the firmware last took it.       *)
PinsMean ==
    /\ ee.mem = ee.ref.mem /\ ee.wen = ee.ref.wen
    /\ ee.sel => ee.out = Shown(ee.ref, ee.wire)
    /\ ee.unsaved => ee.dirty
=============================================================================
