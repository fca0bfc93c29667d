------------------------------ MODULE CartBus ------------------------------
(***************************************************************************)
(* The cartridges and the PLA (c64-bridge cart.rs, slot.rs, lib.rs).       *)
(* Two cartridges, the internal one and one in the expansion port, pull    *)
(* EXROM and GAME.  TRX64 re-runs its PLA after a write to $DE00-$DFFF     *)
(* only; the bridge has to end a run wherever the lines change behind it:  *)
(* after a read, at the Epyx timeout, when the freezer switches the        *)
(* cartridge in.                                                           *)
(*                                                                         *)
(* An instruction is one bus access and one cycle.  Banks, memories and    *)
(* data are left out.  External: TRX64's run and its PLA, the 6510's       *)
(* program, the firmware.                                                  *)
(***************************************************************************)
EXTENDS Integers

CONSTANTS
    CartType,     \* modelled values of C64_CARTRIDGE_TYPE: logic + 32 * variant
    PortCart,     \* the types of the expansion port's cartridges
    IoAddr,       \* offsets from $DE00 the program accesses,
    IoValue,      \* and bytes it writes
    Sharing,      \* sets of windows, for C64_BUS_INTERNAL and EXTERNAL
    EpyxCycles,
    AdvanceCycles, \* cycles of an advance
    MaxSettings   \* bound: what the firmware and the host do

VARIABLES
    carts,    \* the two CartLogics
    bus,      \* Slot, TRX64's PLA and port lines
    cpu,      \* run_cpu
    settings

vars == << carts, bus, cpu, settings >>

Side == {"int", "ext"}
Bit(n, i)   == (n \div 2^i) % 2 = 1
Num(b)      == IF b THEN 1 ELSE 0
With0(m, b) == 2 * (m \div 2) + Num(b)          \* mode with its bit 0,
With01(m, n) == 4 * (m \div 4) + n              \* with its bits 1:0

Name == [n \in 0..31 |->
    CASE n = 1 -> "normal" [] n = 2 -> "epyx" [] n = 4 -> "westermann" [] n = 5 -> "sbasic" [] n = 6 -> "bbasic"
      [] n = 7 -> "blackbox v3" [] n = 8 -> "ocean 8k" [] n = 9 -> "ocean 16k" [] n = 10 -> "system 3" [] n = 11 -> "supergames"
      [] n = 12 -> "blackbox v8" [] n = 13 -> "zaxxon" [] n = 14 -> "blackbox v9" [] n = 15 -> "megabyter" [] n = 16 -> "pagefox"
      [] n = 17 -> "easyflash" [] n = 24 -> "fc" [] n = 25 -> "fc3" [] n = 26 -> "ss5" [] n = 27 -> "action" [] n = 28 -> "kcs"
      [] n = 31 -> "georam" [] OTHER -> "none"]

Logic(c)   == Name[c.type % 32]
Var(c, i)  == Bit(c.type \div 32, i)
Freezer(c) == Logic(c) \in {"fc", "fc3", "ss5", "action", "kcs"}

----------------------------------------------------------------------------
(* CartLogic.                                                               *)

(* What follows from the registers on every clock *)
Settle(c) ==
    LET en     == CASE Logic(c) = "none" -> FALSE
                    [] Logic(c) = "ocean 8k" -> ~Bit(c.mode, 0)
                    [] Logic(c) = "supergames" /\ c.mode % 4 = 3 -> FALSE
                    [] OTHER -> c.en
        freeze == IF ~Freezer(c) \/ (c.freeze = "button" /\ ~c.button) THEN "idle" ELSE c.freeze
    IN  [c EXCEPT !.en = en, !.freeze = freeze, !.mode = IF Logic(c) = "kcs" /\ c.freeze = "active" THEN 2 ELSE @]

Configure(c, type, en) ==
    Settle([c EXCEPT !.type = type, !.mode = 0, !.en = en, !.hold = FALSE, !.age = 0, !.out = FALSE, !.held = FALSE])

Unfreeze(c) == IF c.freeze = "active" THEN [c EXCEPT !.freeze = "button"] ELSE c
Kill(c)     == Settle(Unfreeze([c EXCEPT !.en = FALSE, !.hold = FALSE]))

SetButton(c, down) ==
    Settle([c EXCEPT !.button = down, !.freeze = IF down /\ ~c.button /\ @ = "idle" /\ Freezer(c) THEN "triggered" ELSE @])

EnterFreeze(c) ==
    IF c.freeze # "triggered" THEN c
    ELSE Settle([c EXCEPT !.freeze = "active", !.mode = 0, !.en = TRUE, !.hold = TRUE])

(* << EXROM, GAME >> of the logic, TRUE when released, its Epyx capacitor     *)
(* charged or not                                                           *)
Out(c, charged) ==
    LET m(i)  == Bit(c.mode, i)
        v(i)  == Var(c, i)
        act   == c.freeze = "active"
        logic == Logic(c)
    IN  CASE logic = "normal"      -> << v(0), v(1) >>
          [] logic = "epyx"        -> << charged, TRUE >>
          [] logic = "westermann"  -> << ~v(1) /\ m(0), m(0) >>
          [] logic = "sbasic"      -> << FALSE, ~m(0) >>
          [] logic = "bbasic"      -> << ~m(0), ~m(0) >>
          [] logic \in {"blackbox v3", "ocean 8k", "system 3"} -> << m(0), TRUE >>
          [] logic \in {"ocean 16k", "zaxxon"} -> << FALSE, FALSE >>
          [] logic = "megabyter"   -> << m(1), IF v(0) THEN m(0) ELSE ~m(0) >>
          [] logic = "supergames"  -> << m(0), m(0) >>
          [] logic = "blackbox v8" -> << m(0), m(1) >>
          [] logic = "blackbox v9" -> << ~m(0), m(1) >>
          [] logic = "pagefox"     -> << m(2), m(2) >>
          [] logic = "easyflash"   -> << ~m(1), ~m(0) /\ m(2) >>
          [] logic \in {"fc", "fc3", "action"} /\ act -> << TRUE, FALSE >>
          [] logic = "fc3"         -> << m(1), m(0) >>
          [] logic = "fc"          -> << m(0), m(0) >>
          [] logic = "action"      -> IF c.mode % 8 = 6 /\ v(1) THEN << FALSE, FALSE >> ELSE << m(1), ~m(0) >>
          [] logic = "ss5"         -> << ~m(1), m(0) >>
          [] logic = "kcs"         -> << m(1), m(0) >>
          [] OTHER -> << TRUE, TRUE >>

LinesOf(c, charged) == LET o == Out(c, charged) IN << ~c.en \/ o[1], ~c.en \/ o[2] >>

Freezing(c) == c.freeze \in {"triggered", "active"}
Nmi(c) == Freezer(c) /\ (Freezing(c) \/ (Logic(c) = "fc3" /\ c.hold))
Irq(c) == Logic(c) \in {"action", "ss5"} /\ Freezing(c)

(* A read of $DE00 + a *)
IoRead(c, a) ==
    LET io1   == a < 256
        logic == Logic(c)
        mode  == CASE logic = "westermann" -> IF ~io1 THEN With0(c.mode, TRUE) ELSE IF Var(c, 0) THEN With0(c.mode, FALSE) ELSE c.mode
                   [] logic \in {"sbasic", "system 3"} /\ io1 -> With0(c.mode, FALSE)
                   [] logic = "bbasic" /\ io1 -> With0(c.mode, TRUE)
                   [] logic = "blackbox v9" /\ io1 -> With01(c.mode, (2 * (a % 2)) + Num(~Bit(a, 6)))
                   [] logic = "kcs" /\ io1 -> 1 + 2 * Num(Bit(a, 1))
                   [] logic = "fc" -> With0(c.mode, io1)
                   [] OTHER -> c.mode
        d     == [c EXCEPT !.mode = mode]
    IN  Settle(CASE logic = "epyx" /\ io1 -> [d EXCEPT !.age = 0, !.out = FALSE]
                 [] logic = "fc" \/ (logic = "kcs" /\ a >= 384) -> Unfreeze(d)
                 [] OTHER -> d)

(* A write: the mode, *)
IoMode(c, a, v) ==
    LET io1   == a < 256
        logic == Logic(c)
    IN  CASE logic = "sbasic" /\ io1 -> With0(c.mode, TRUE)
          [] logic \in {"bbasic", "system 3"} /\ io1 -> With0(c.mode, FALSE)
          [] logic \in {"blackbox v3", "fc"} -> With0(c.mode, io1)
          [] logic = "ocean 8k" /\ io1 /\ (c.type \div 32) % 4 = 1 -> With0(c.mode, Bit(v, 7))
          [] logic = "ocean 8k" /\ io1 /\ (c.type \div 32) % 4 = 2 -> With01(c.mode, 2 * Num(Bit(v, 7)) + Num(Bit(v, 6)))
          [] logic = "megabyter" /\ io1 /\ Bit(a, 1) -> With01(c.mode, v % 4)
          [] logic = "supergames" /\ ~io1 /\ ~Bit(c.mode, 1) -> With01(c.mode, (v \div 4) % 4)
          [] logic = "blackbox v8" /\ ~io1 -> With01(c.mode, v % 4)
          [] logic = "blackbox v9" /\ io1 -> With01(c.mode, (2 * (a % 2)) + Num(~Bit(a, 6)))
          [] logic = "pagefox" /\ io1 /\ Bit(a, 7) -> (v \div 4) % 8
          [] logic = "easyflash" /\ io1 /\ c.en /\ a % 16 = 2 -> v % 8
          [] logic = "kcs" /\ io1 /\ Bit(a, 7) -> 0
          [] logic = "kcs" /\ io1 /\ c.mode = 0 -> 6
          [] logic = "kcs" /\ io1 /\ c.mode \in {2, 7} -> Num(Bit(a, 1))
          [] OTHER -> c.mode

(* and what the freezers' registers hold besides *)
IoWrite(c, a, v) ==
    LET logic  == Logic(c)
        set    == [c EXCEPT !.mode = IoMode(c, a, v)]
        action == a < 256 /\ (~Var(c, 0) \/ a = 0)
    IN  Settle(
          CASE logic = "normal" /\ a = 511 /\ v \div 64 = 1 -> [c EXCEPT !.en = FALSE]
            [] logic = "fc" -> Unfreeze(set)
            [] logic = "fc3" /\ a = 511 /\ c.en ->
                 Unfreeze([c EXCEPT !.mode = 2 * Num(Bit(v, 4)) + Num(Bit(v, 5)), !.en = ~Bit(v, 7), !.hold = ~Bit(v, 6)])
            [] logic = "action" /\ c.en /\ action ->
                 LET d == [c EXCEPT !.mode = 4 * Num(Bit(v, 5)) + (v % 4), !.en = ~Bit(v, 2)]
                 IN  IF Bit(v, 6) THEN Unfreeze(d) ELSE d
            [] logic = "ss5" /\ a < 256 /\ c.en ->
                 LET d == [c EXCEPT !.mode = 4 * Num(Bit(v, 3)) + (v % 4), !.en = ~Bit(v, 3)]
                 IN  IF Bit(v, 0) THEN d ELSE Unfreeze(d)
            [] OTHER -> set)

(* An access sets the logic's clock; one of ROML, too, discharges the Epyx *)
Clocked(c) == [c EXCEPT !.out = c.age >= EpyxCycles]
RomRead(c) == IF Logic(c) = "epyx" THEN [Clocked(c) EXCEPT !.age = 0, !.out = FALSE] ELSE Clocked(c)

WatchIoNoKcs(c) ==   \* a mutant
    (c.en /\ Logic(c) \in {"westermann", "sbasic", "bbasic", "blackbox v9", "fc"}) \/ Logic(c) = "epyx"

WatchIo(c) == (c.en /\ Logic(c) \in {"westermann", "sbasic", "bbasic", "blackbox v9", "kcs", "fc"}) \/ Logic(c) = "epyx"

----------------------------------------------------------------------------
(* Slot: the wired AND of the sides that serve ROM, under a forced ULTIMAX.   *)

Wired(b, lines) ==
    IF b.ultimax THEN << TRUE, FALSE >>
    ELSE << \A s \in Side : "rom" \in b.share[s] => lines[s][1], \A s \in Side : "rom" \in b.share[s] => lines[s][2] >>

Lines(cs, b)   == Wired(b, [s \in Side |-> LinesOf(cs[s], cs[s].out)])
OnBoard(cs, b) == Wired(b, [s \in Side |-> LinesOf(cs[s], cs[s].age >= EpyxCycles)])

Window(a)       == IF a < 256 THEN "io1" ELSE "io2"
ReadAt(cs, b, a) == [s \in Side |-> IF Window(a) \in b.share[s] THEN IoRead(Clocked(cs[s]), a) ELSE cs[s]]
WriteAt(cs, b, a, v) ==
    [s \in Side |-> IF Window(a) \in b.share[s] \/ (s = "ext" /\ b.bridge) THEN IoWrite(Clocked(cs[s]), a, v) ELSE cs[s]]
RomAt(cs, b)    == [s \in Side |-> IF "rom" \in b.share[s] THEN RomRead(cs[s]) ELSE cs[s]]
RomWrittenAt(cs, b) == [s \in Side |-> IF "rom" \in b.share[s] THEN Clocked(cs[s]) ELSE cs[s]]
ClockedAll(cs)  == [s \in Side |-> Clocked(cs[s])]

(* The bridge *)
UpdatePla(cs, b)       == [b EXCEPT !.pla = Lines(cs, b), !.shown = Lines(cs, b)]
ApplyInterrupts(cs, b) ==
    [b EXCEPT !.nmi = \E s \in Side : "irq" \in b.share[s] /\ Nmi(cs[s]), !.irq = \E s \in Side : "irq" \in b.share[s] /\ Irq(cs[s])]
CartChanged(cs, b)     == IF b.attached THEN ApplyInterrupts(cs, UpdatePla(cs, b)) ELSE b
InstallCart(cs, b)     == UpdatePla(cs, [b EXCEPT !.attached = b.ultimax \/ \E s \in Side : cs[s].type % 32 # 0])
Installed(cs, b)       == ApplyInterrupts(cs, InstallCart(cs, b))

(* TRX64 after an access: its PLA follows writes only *)
Consumed(cs, b) == IF b.attached THEN [b EXCEPT !.pla = Lines(cs, b)] ELSE b
RomMapped       == bus.pla # << TRUE, TRUE >>

----------------------------------------------------------------------------
(* run_cpu: runs until the slice is over.                                    *)

Minimum(set) == CHOOSE n \in set : \A k \in set : n <= k

Advance ==
    /\ cpu.pc = "between" /\ ~bus.stopped /\ ~bus.reset
    /\ cpu' = [cpu EXCEPT !.pc = "loop", !.left = AdvanceCycles, !.taken = FALSE]
    /\ UNCHANGED << carts, bus, settings >>

(* One run: the hints, and the freezer switched in before its NMI *)
StartRun ==
    LET clocked == ClockedAll(carts)
        pending == bus.attached /\ carts["int"].freeze = "triggered"
        ends    == {cpu.left} \cup {EpyxCycles - clocked[s].age : s \in {s \in Side : Logic(carts[s]) = "epyx" /\ ~clocked[s].out}}
    IN  /\ cpu.pc = "loop" /\ cpu.left > 0
        /\ \E due \in BOOLEAN :
             /\ due => pending
             /\ carts' = IF ~bus.attached THEN carts ELSE IF due THEN [clocked EXCEPT !["int"] = EnterFreeze(@)] ELSE clocked
             /\ bus' = IF due THEN CartChanged(carts', bus) ELSE bus
             /\ cpu' = [cpu EXCEPT !.pc = "run", !.end = IF bus.attached THEN Minimum(ends) ELSE cpu.left, !.one = pending, !.due = due,
                                   !.watch = bus.attached /\ \E s \in Side : WatchIo(clocked[s])]
        /\ UNCHANGED settings

EndSlice ==
    /\ cpu.pc = "loop" /\ cpu.left = 0
    /\ cpu' = [cpu EXCEPT !.pc = "between"]
    /\ UNCHANGED << carts, bus, settings >>

(* An instruction, its access made: the observer's stop, the end of the run   *)
(* and what the bridge does after it                                        *)
Retired(cs, b, io, vector) ==
    LET aged  == [s \in Side |-> [cs[s] EXCEPT !.age = IF @ < EpyxCycles THEN @ + 1 ELSE @]]
        watch == cpu.watch /\ io
        seen  == IF watch THEN [b EXCEPT !.shown = Lines(cs, b)] ELSE b
        over  == cpu.end = 1 \/ cpu.one \/ (watch /\ Lines(cs, b) # b.shown)
        late  == IF vector THEN [aged EXCEPT !["int"] = EnterFreeze(@)] ELSE aged
    IN  /\ cpu.pc = "run" /\ (cpu.due => vector)
        /\ carts' = IF over /\ b.attached THEN [s \in Side |-> [Clocked(late[s]) EXCEPT !.held = FALSE]] ELSE aged
        /\ bus' = IF over THEN CartChanged(carts', seen) ELSE seen
        /\ cpu' = [cpu EXCEPT !.left = @ - 1, !.end = @ - 1, !.pc = IF over THEN "loop" ELSE "run", !.taken = vector]
        /\ UNCHANGED settings

ReadIo     == \E a \in IoAddr : LET cs == ReadAt(carts, bus, a) IN Retired(IF bus.attached THEN cs ELSE carts, bus, TRUE, FALSE)
WriteIo    == \E a \in IoAddr, v \in IoValue :
                LET cs == IF bus.attached THEN WriteAt(carts, bus, a, v) ELSE carts IN Retired(cs, Consumed(cs, bus), TRUE, FALSE)
ReadRom    == RomMapped /\ Retired(RomAt(carts, bus), bus, FALSE, FALSE)
WriteRom   == RomMapped /\ Retired(RomWrittenAt(carts, bus), bus, FALSE, FALSE)
Interrupt  == Retired(carts, bus, FALSE, TRUE)
OtherInsn  == Retired(carts, bus, FALSE, FALSE)

----------------------------------------------------------------------------
(* Between runs: the firmware's registers, DMA, the host, the stopped C64.    *)

Setting == cpu.pc = "between" /\ settings < MaxSettings /\ settings' = settings + 1 /\ UNCHANGED cpu
Free    == cpu.pc = "between" /\ UNCHANGED << cpu, settings >>
IntCart(c) == carts' = [carts EXCEPT !["int"] = c]

(* C64_CARTRIDGE_KILL: the type forced, or the cartridge off *)
SetCart  == Setting /\ ~bus.reset /\ \E t \in CartType : IntCart(Configure(carts["int"], t, FALSE)) /\ bus' = Installed(carts', bus)
KillCart == Setting /\ IntCart(Kill(carts["int"])) /\ bus' = CartChanged(carts', bus)

SetFreezeButton ==
    /\ Setting /\ IntCart(SetButton(carts["int"], ~carts["int"].button)) /\ bus' = CartChanged(carts', bus)

(* The reset line: it holds the port's cartridge; its release takes the type,  *)
(* and TRX64's warm reset both cartridges'                                   *)
AssertReset ==
    /\ Setting /\ ~bus.reset
    /\ carts' = [carts EXCEPT !["ext"] = Configure(@, @.type, TRUE)]
    /\ bus' = UpdatePla(carts', [bus EXCEPT !.reset = TRUE])

ReleaseReset ==
    /\ Free /\ bus.reset
    /\ \E t \in CartType :
         LET cs == [carts EXCEPT !["int"] = Configure(@, t, TRUE)]
         IN  /\ carts' = [s \in Side |-> Configure(cs[s], cs[s].type, TRUE)]
             /\ bus' = Consumed(carts', [ApplyInterrupts(carts', InstallCart(cs, bus)) EXCEPT !.reset = FALSE])

SetUltimax  == Setting /\ UNCHANGED carts /\ bus' = InstallCart(carts, [bus EXCEPT !.ultimax = ~@])
SetStopped  == Setting /\ UNCHANGED carts /\ bus' = [bus EXCEPT !.stopped = ~@]
CoreConfig  == Setting /\ UNCHANGED carts /\ \E s \in Side : \E on \in Sharing \ {bus.share[s]} : bus' = Installed(carts, [bus EXCEPT !.share[s] = on])
CoreBridge  == Setting /\ UNCHANGED carts /\ bus' = Installed(carts, [bus EXCEPT !.bridge = ~@])

InsertCart ==
    /\ Setting /\ \E t \in PortCart : carts' = [carts EXCEPT !["ext"] = Configure([@ EXCEPT !.freeze = "idle"], t, TRUE)]
    /\ bus' = Installed(carts', bus)

EjectCart ==
    /\ Setting /\ carts["ext"].type # 0
    /\ carts' = [carts EXCEPT !["ext"] = Configure(@, 0, FALSE)]
    /\ bus' = InstallCart(carts', bus)

(* run_held: the capacitors hold their charge, the logics' clock stands *)
RunHeld ==
    /\ Free /\ bus.stopped /\ ~bus.reset /\ UNCHANGED bus
    /\ \E s \in Side : Logic(carts[s]) = "epyx" /\ ~carts[s].held
    /\ carts' = [s \in Side |-> IF Logic(carts[s]) # "epyx" THEN carts[s] ELSE [carts[s] EXCEPT !.held = TRUE, !.out = FALSE]]

(* A DMA access of the firmware *)
DmaRead  == Free /\ ~bus.reset /\ \E a \in IoAddr : carts' = (IF bus.attached THEN ReadAt(carts, bus, a) ELSE carts) /\ bus' = CartChanged(carts', bus)
DmaWrite == Free /\ ~bus.reset /\ \E a \in IoAddr, v \in IoValue :
                carts' = (IF bus.attached THEN WriteAt(carts, bus, a, v) ELSE carts) /\ bus' = CartChanged(carts', bus)
DmaRom   == Free /\ ~bus.reset /\ RomMapped /\ carts' \in {RomAt(carts, bus), RomWrittenAt(carts, bus)} /\ bus' = CartChanged(carts', bus)
DmaRam   == Free /\ UNCHANGED carts /\ bus' = CartChanged(carts, bus)

----------------------------------------------------------------------------
Empty == [type |-> 0, mode |-> 0, en |-> FALSE, hold |-> FALSE, freeze |-> "idle", button |-> FALSE, age |-> 0, out |-> FALSE, held |-> FALSE]

Init ==
    /\ carts = [s \in Side |-> Empty]
    /\ bus = [share |-> [s \in Side |-> {"rom", "io1", "io2", "irq"}], bridge |-> FALSE, ultimax |-> FALSE, attached |-> FALSE,
              pla |-> << TRUE, TRUE >>, shown |-> << TRUE, TRUE >>, nmi |-> FALSE, irq |-> FALSE, stopped |-> FALSE, reset |-> FALSE]
    /\ cpu = [pc |-> "between", left |-> 0, end |-> 0, watch |-> FALSE, one |-> FALSE, due |-> FALSE, taken |-> FALSE]
    /\ settings = 0

Next ==
    \/ Advance \/ StartRun \/ EndSlice \/ ReadIo \/ WriteIo \/ ReadRom \/ WriteRom \/ Interrupt \/ OtherInsn
    \/ SetCart \/ KillCart \/ SetFreezeButton \/ AssertReset \/ ReleaseReset \/ SetUltimax \/ SetStopped \/ CoreConfig \/ CoreBridge
    \/ InsertCart \/ EjectCart \/ RunHeld \/ DmaRead \/ DmaWrite \/ DmaRom \/ DmaRam

Spec == Init /\ [][Next]_vars

----------------------------------------------------------------------------
(* Properties.                                                              *)

(* No instruction runs under a PLA that is not what the cartridges pull now,  *)
(* but in the run after an Epyx was held and with an Epyx beside another.     *)
PlaIsCurrent ==
    LET epyx == {s \in Side : Logic(carts[s]) = "epyx"}
    IN  cpu.pc = "run" =>
          \/ bus.pla = OnBoard(carts, bus)
          \/ \E s \in epyx : carts[s].held \/ \E other \in Side \ {s} : carts[other].type # 0

(* No interrupt passes a freezer that waits for it. *)
FreezeEntered == cpu.pc = "loop" /\ cpu.taken => carts["int"].freeze # "triggered"

(* The 6510 always sees the cartridges. *)
CartsSeen == PlaIsCurrent /\ FreezeEntered
=============================================================================
