------------------------------ MODULE C64Port ------------------------------
(***************************************************************************)
(* The C64 port (ue2-core devices/c64.rs): the firmware's cart registers   *)
(* and DMA window, the reset line and its three sources, the swappable     *)
(* core, and, with --trx-io, the TRX block's writes that act on the C64    *)
(* (devices/trx.rs), the freeze session and the debug block, with the      *)
(* engine bridge behind them (C64Hold).                                    *)
(*                                                                         *)
(* The state is one record: the port's own fields, the link shared with    *)
(* the TRX block (frz, ops, posHold, halted, ses, dbg), the backend be and *)
(* the chip registers.  Each handler is an operator on it, in the order of *)
(* the code.  A register access finds the C64 run up to its clock; Tick    *)
(* lets one unit of time pass.                                             *)
(***************************************************************************)
EXTENDS FreezeSession, C64Hold

CONSTANTS
    Stretch,   \* PORT_RESET_STRETCH in units of Tick
    Types,     \* cartridge types, 0 is none
    MaxSteps   \* bound: writes and events in a behaviour

VARIABLES
    trx,    \* --trx-io
    c,      \* the port, the link and the C64
    esp,    \* the ESP32's EVENT_RESET holds the C64 now (EspButtons::reset)
    steps   \* history: writes and events so far

vars == << trx, c, esp, steps >>

----------------------------------------------------------------------------
(* Lines                                                                    *)

OwnReset(s)  == "reset" \in s.mode \/ s.esp
ResetHeld(s) == OwnReset(s) \/ s.stretch > 0

Lines(s) == [frz |-> s.frz, stop |-> s.stop, ultimax |-> "ultimax" \in s.mode, reset |-> ResetHeld(s),
             owner |-> s.dbg.own, dbgStop |-> Holds(s.dbg), dbgHold |-> s.dbg.hold, dbgRel |-> FALSE]

Halted(s) == PausedBy(Lines(s)) \/ s.posHold \/ Holds(s.dbg)

(* The backend hears of a line that changed. *)
NotTold == [stopped |-> FALSE, paused |-> FALSE, muted |-> FALSE]

Tell(b, told, now) ==
    LET stopped == IF now.stopped # told.stopped THEN [b EXCEPT !.stopped = now.stopped] ELSE b
        paused  == IF now.paused # told.paused THEN SetPaused(stopped, now.paused) ELSE stopped
    IN  IF now.muted # told.muted THEN [paused EXCEPT !.muted = now.muted] ELSE paused

SessionStep(s, lines) ==
    LET r == Step(s.ses, s.chips, lines) IN [s EXCEPT !.ses = r.ses, !.chips = r.chips]

(* What the backend is to hear, trx_apply.  The 6510 does not stop for a      *)
(* debugger that owns the machine.                                            *)
ToldNow(s, lines, stopped) ==
    [stopped |-> stopped, paused |-> PausedBy(lines), muted |-> Halted(s) \/ s.stop]

Hear(s, now) ==
    SessionStep([s EXCEPT !.told = now, !.be = Tell(@, s.told, now), !.dbgSeen = Holds(s.dbg), !.halted = Halted(s)],
                Lines(s))

(* Mutant: the 6510 stays stopped when the debugger takes the machine. *)
TrxApplyNoOwner(s) == Hear(s, ToldNow(s, Lines(s), s.stop))

(* trx_apply: the 6510's stop, the pause and the mute go to the backend when  *)
(* they differ from what it was last told; then the session follows.          *)
TrxApply(s) == Hear(s, ToldNow(s, Lines(s), s.stop /\ ~s.dbg.own))

TrxUpdate(s) == IF trx THEN TrxApply(s) ELSE s

(* reset_changed: our own reset let go starts the stretch; when the line      *)
(* changed, a session ends first, and a release takes the cartridge.          *)
ResetChanged(s, before) ==
    LET own == OwnReset(s)
        t   == [s EXCEPT !.stretch = IF own THEN 0 ELSE IF trx /\ s.own /\ ~s.absent THEN Stretch ELSE @, !.own = own]
        r   == IF trx /\ ~before THEN ResetSession(t.ses, t.chips) ELSE [ses |-> t.ses, chips |-> t.chips]
    IN  IF ResetHeld(t) = before THEN t
        ELSE [t EXCEPT !.ses = r.ses, !.chips = r.chips,
                       !.be = SetReset(IF before THEN [@ EXCEPT !.type = t.type] ELSE @, ~before)]

----------------------------------------------------------------------------
(* The debugger, and the writes of the C64's clock.                         *)

(* trx_events and trx_dbg_follow after the C64 ran: a position hit or a hold  *)
(* that changed moves the lines.                                              *)
Followed(s, hit) ==
    LET t == [s EXCEPT !.posHold = @ \/ hit]
    IN  IF hit \/ Holds(t.dbg) # t.dbgSeen THEN TrxUpdate(t) ELSE t

With(s, r) == [s EXCEPT !.be = r.be, !.dbg = r.dbg]

(* trx_dbg_release: the debugger's session ends before RUN or a step. *)
DbgRelease(s) == SessionStep(s, [Lines(s) EXCEPT !.dbgRel = TRUE])

(* Dbg::write and trx_dbg_op: what the port does before the backend is told. *)
DbgAct(s, op) ==
    CASE op.reg = "owner" -> {[s EXCEPT !.dbg.own = op.on]}
      [] op.reg = "unit"  -> {[s EXCEPT !.dbg.armed = op.on]}
      [] op.reg = "run"   -> {[DbgRelease(s) EXCEPT !.dbg = Released(@)]}
      [] op.reg = "pause" -> {IF op.at = "cb" /\ s.halted THEN [s EXCEPT !.dbg.hold = TRUE]
                              ELSE [s EXCEPT !.dbg.pend = @ \cup {op.at}]}
      [] op.reg = "step"  ->
           IF ~s.halted \/ s.dbg.step THEN {s}
           ELSE LET t == TrxUpdate([DbgRelease(s) EXCEPT !.dbg = Stepping(@)])
                IN  { With(t, r) : r \in DbgRunStep(t.be, t.dbg) }

(* trx_op; the lines follow every op. *)
Acted(s, op) ==
    CASE op.reg = "gate" -> {[s EXCEPT !.frz = op.on]}
      [] op.reg = "pos"  ->
           {[s EXCEPT !.posHold = @ /\ ~op.release,
                      !.be = IF op.release THEN ReleasePos(SetStopPos(@, op.on)) ELSE SetStopPos(@, op.on)]}
      [] OTHER           -> UNION { { With(t, r) : r \in DbgChanged(t.be, t.dbg) } : t \in DbgAct(s, op) }

TrxOp(s, op) == { TrxUpdate(t) : t \in Acted(s, op) }

(* trx_sync up to the C64's own clock: the block's writes, the lines.         *)
Synced(s) ==
    IF ~trx \/ s.absent THEN {s}
    ELSE { TrxUpdate(t) : t \in IF s.ops = << >> THEN {s} ELSE TrxOp([s EXCEPT !.ops = << >>], Head(s.ops)) }

(* and on to a later clock *)
SyncedOn(s) ==
    IF s.absent THEN {s}
    ELSE UNION { { Followed(With(t, r), r.hit) : r \in AdvanceTo(t.be, t.dbg) } : t \in Synced(s) }

----------------------------------------------------------------------------
(* The ticks                                                                *)

FollowEsp(s) ==
    IF esp = s.esp \/ s.absent THEN s
    ELSE TrxUpdate(ResetChanged([s EXCEPT !.esp = esp], ResetHeld(s)))

(* A unit of the stretch has passed; at its end the port's RESET goes up. *)
FollowPort(s) ==
    IF s.stretch = 0 \/ s.absent THEN s
    ELSE IF s.stretch > 1 THEN [s EXCEPT !.stretch = @ - 1]
    ELSE TrxUpdate(ResetChanged([s EXCEPT !.stretch = 0], ResetHeld(s)))

Ticked(s) == { FollowPort(FollowEsp(t)) : t \in SyncedOn(s) }

(* next_event asks for a tick before the firmware's next instruction: a write *)
(* of the C64's clock, an edge of the ESP32's hold.                           *)
Due == ~c.absent /\ (c.ops # << >> \/ esp # c.esp)

Tick ==
    /\ ~c.absent
    /\ c' \in Ticked(c)
    /\ UNCHANGED << trx, esp, steps >>

----------------------------------------------------------------------------
(* The firmware's accesses                                                  *)

(* One of the bounded steps of a behaviour. *)
Spend == steps < MaxSteps /\ steps' = steps + 1 /\ UNCHANGED trx

Accessing == Spend /\ ~Due /\ UNCHANGED esp

(* C64_MODE: bit 2 asserts the reset, else bit 3 releases it, else the        *)
(* others are set.                                                            *)
ModeWritten(s, w) ==
    LET mode == CASE w = "reset"   -> s.mode \cup {"reset"}
                  [] w = "unreset" -> s.mode \ {"reset"}
                  [] w = "ultimax" -> s.mode \cup {"ultimax"}
                  [] w = "normal"  -> s.mode \ {"ultimax"}
        t    == ResetChanged([s EXCEPT !.mode = mode], ResetHeld(s))
    IN  TrxUpdate([t EXCEPT !.be.ultimax = "ultimax" \in mode])

WriteMode(s) == \E w \in {"reset", "unreset", "ultimax", "normal"} : c' = ModeWritten(s, w)

(* C64_STOP: with --trx-io trx_apply stops the 6510. *)
StopWritten(s, on) ==
    TrxUpdate([s EXCEPT !.stop = on, !.be = IF trx THEN @ ELSE [@ EXCEPT !.stopped = on, !.muted = on]])

WriteStop(s) == \E on \in BOOLEAN : c' = StopWritten(s, on)

(* C64_CARTRIDGE_TYPE: while the reset is held the cartridge logic takes it.  *)
TypeWritten(s, t) == [s EXCEPT !.type = t, !.be.type = IF ResetHeld(s) THEN t ELSE @]

WriteType(s) == \E t \in Types : c' = TypeWritten(s, t)

(* C64_CARTRIDGE_KILL: the kill strobe, the force strobe. *)
WriteKill(s) == \E force \in BOOLEAN : c' = [s EXCEPT !.be.type = IF force THEN s.type ELSE Killed]

(* C64_REU_ENABLE and the latch behind it. *)
WriteReu(s) == \E on \in BOOLEAN : c' = [s EXCEPT !.reu = on, !.be.reu = on]

(* The DMA window at an I/O register: the session answers, or a bus cycle. *)
WindowWritten(s, reg, val) ==
    LET r == SessionWrite(s.ses, s.chips, reg, val)
    IN  Followed(IF trx /\ s.ses.active THEN [s EXCEPT !.ses = r.ses, !.chips = r.chips]
                 ELSE [s EXCEPT !.chips[reg] = val], FALSE)

WriteWindow(s) == \E reg \in Register, val \in Value : ~c.absent /\ c' = WindowWritten(s, reg, val)

(* An access first brings the block's writes to the C64. *)
Access ==
    /\ Accessing
    /\ \E s \in Synced(c) :
           WriteMode(s) \/ WriteStop(s) \/ WriteType(s) \/ WriteKill(s) \/ WriteReu(s) \/ WriteWindow(s)

(* The TRX block: what acts on the C64 is queued for the port (sys_commit);   *)
(* FRZ reads back at once.                                                    *)
Ops == [reg : {"gate", "owner", "unit"}, on : BOOLEAN]
       \cup [reg : {"pos"}, on : BOOLEAN, release : BOOLEAN]
       \cup [reg : {"run", "step"}]
       \cup [reg : {"pause"}, at : {"ib", "cb"}]

WriteTrx ==
    \E op \in Ops :
        /\ trx /\ ~c.absent
        /\ Accessing
        /\ c' = [c EXCEPT !.ops = Append(@, op), !.frz = IF op.reg = "gate" THEN op.on ELSE @]

Ctrl(mode, bits) ==
    [mode |-> mode, sidefx |-> "sidefx" \in bits, proto |-> "proto" \in bits,
     abort |-> "abort" \in bits, discard |-> "discard" \in bits]

Ctrls == {Ctrl(mode, {}) : mode \in Modes} \cup {Ctrl(1, {bit}) : bit \in {"sidefx", "proto", "abort", "discard"}}

WriteCtrlReg ==
    \E v \in Ctrls :
        /\ trx /\ ~c.absent
        /\ Accessing
        /\ c' = [c EXCEPT !.ses = WriteCtrl(@, v)]

----------------------------------------------------------------------------
(* The host and the ESP32                                                   *)

(* EspButtons::event, and the end of the hold. *)
EspEvent == trx /\ Spend /\ esp' = ~esp /\ UNCHANGED c

(* set_core_absent: the C64 stops; the decoupler puts the latches back to     *)
(* power-up with the reset held.                                              *)
CoreGone(s, decouple) ==
    LET t == [s EXCEPT !.absent = TRUE, !.stretch = 0]
    IN  IF decouple THEN [t EXCEPT !.mode = {"reset"}, !.stop = FALSE, !.type = 0, !.reu = FALSE] ELSE t

CoreAbsent ==
    \E decouple \in BOOLEAN :
        /\ trx /\ ~c.absent
        /\ Spend
        /\ \E s \in Synced(c) : c' = CoreGone(s, decouple)
        /\ UNCHANGED esp

(* The block and the chips after power-up. *)
PoweredUp(s) ==
    [s EXCEPT !.frz = FALSE, !.ops = << >>, !.posHold = FALSE, !.dbgSeen = FALSE, !.halted = FALSE, !.told = NotTold,
              !.ses = NewSession, !.dbg = NewDbg, !.absent = FALSE, !.own = FALSE, !.stretch = 0,
              !.chips = [r \in Register |-> CHOOSE v \in Value : TRUE], !.be = NewBackend]

(* core_present and power_up: the block is reset, and the new C64 is handed   *)
(* the registers, which kept what the firmware wrote.                         *)
CoreLoaded(s) ==
    LET t == PoweredUp(s)
    IN  TrxUpdate([t EXCEPT !.be = [@ EXCEPT !.reu = t.reu, !.type = t.type, !.reset = ResetHeld(t),
                                             !.ultimax = "ultimax" \in t.mode]])

CorePresent ==
    /\ c.absent
    /\ c' = CoreLoaded(c)
    /\ UNCHANGED << trx, esp, steps >>

----------------------------------------------------------------------------
Fresh ==
    [mode |-> {}, stop |-> FALSE, type |-> 0, reu |-> FALSE, esp |-> FALSE, stretch |-> 0, own |-> FALSE,
     absent |-> FALSE, told |-> NotTold, dbgSeen |-> FALSE, frz |-> FALSE, ops |-> << >>, posHold |-> FALSE,
     halted |-> FALSE, ses |-> NewSession, dbg |-> NewDbg, be |-> NewBackend,
     chips |-> [r \in Register |-> CHOOSE v \in Value : TRUE]]

(* The machine the app has just frozen: stop, Ultimax, the gate.  Three       *)
(* accesses from Fresh, spared here.                                          *)
Frozen == TrxApply([ModeWritten(StopWritten(Fresh, TRUE), "ultimax") EXCEPT !.frz = TRUE])

Init ==
    /\ trx \in BOOLEAN
    /\ c \in {Fresh} \cup {Frozen : t \in {x \in {1} : trx}}
    /\ esp = FALSE
    /\ steps = 0

Next ==
    \/ Tick \/ Access \/ WriteTrx \/ WriteCtrlReg \/ EspEvent \/ CoreAbsent \/ CorePresent

Spec == Init /\ [][Next]_vars

----------------------------------------------------------------------------
(* Properties                                                               *)

(* Between two accesses the engine holds exactly what the registers, the      *)
(* block and the debugger ask for: nothing told once and forgotten, over the  *)
(* caches of trx_apply, both resets and a new core.                           *)
BackendFollows ==
    c.ops = << >> /\ ~c.absent =>
        /\ c.be.reset = ResetHeld(c)
        /\ c.be.ultimax = ("ultimax" \in c.mode)
        /\ c.be.reu = c.reu
        /\ c.be.stopped = (c.stop /\ ~(trx /\ c.dbg.own))
        /\ c.be.paused = (trx /\ PausedBy(Lines(c)))
        /\ c.be.muted = (c.stop \/ Halted(c))
        /\ c.be.posHold = c.posHold
        /\ c.be.dbgHeld = Holds(c.dbg)

(* A C64 that stood still goes on from where it is: it does not run the time  *)
(* it stood for.                                                              *)
NoCatchUp == ~Stands(c.be) => "stood" \notin c.be.lag

(* The engine does what the port asks of it, in its lines and in its time.    *)
EngineFollows == BackendFollows /\ NoCatchUp

(* What the window shows of a plain register *)
View(s) == IF s.ses.active /\ s.ses.overlay[Plain] # None THEN s.ses.overlay[Plain] ELSE s.chips[Plain]

(* The freeze session is invisible to the firmware: what the window shows of  *)
(* a listed register changes by a write to it, never by the session's end,    *)
(* whichever of pause, stop, mode, debugger or reset ends it.                 *)
SessionTransparent ==
    [][ \/ View(c') = View(c)
        \/ (\E s \in Synced(c) : WriteWindow(s)) \/ WriteCtrlReg \/ CorePresent
        \/ c.ses.active /\ (~c.ses.listed \/ c.ses.dropped) ]_vars
=============================================================================
