--------------------------- MODULE FreezeSession ---------------------------
(***************************************************************************)
(* The freeze session of the TRX block (ue2-core devices/trx_session.rs):  *)
(* while the C64 stands, the firmware's writes to I/O chips go into an     *)
(* overlay and a commit list; the list runs as real bus cycles when the    *)
(* session ends.  Two registers stand for the chips: Plain, listed once    *)
(* and written with its last value, and Strobe, listed with every write.   *)
(*                                                                         *)
(* Operators only: C64Port holds the state.  `lines' is a record of what   *)
(* the session sees of the machine (Lines); a session is a record, the     *)
(* chips a function from Register.                                         *)
(***************************************************************************)
EXTENDS Integers, Sequences, SequencesExt

CONSTANTS
    Value,    \* what a register holds
    ListMax   \* LIST_MAX: entries of the commit list

Plain    == "plain"
Strobe   == "strobe"
Register == {Plain, Strobe}
None     == "none"

Modes == 0 .. 2     \* SH_MODE: never, with Ultimax, with every pause

NoOverlay == [r \in Register |-> None]

NewSession == [mode |-> 1, sidefx |-> FALSE, proto |-> FALSE, active |-> FALSE, dbg |-> FALSE, block |-> FALSE,
               overlay |-> NoOverlay, list |-> << >>, listed |-> FALSE, dropped |-> FALSE]

(* The machine pause: C64_STOP under FRZ, unless the debugger owns the        *)
(* machine or the reset is held.                                              *)
PausedBy(lines) == lines.frz /\ lines.stop /\ ~lines.owner /\ ~lines.reset

Cond(ses, lines) ==
    \/ ses.mode = 1 /\ lines.frz /\ lines.stop /\ lines.ultimax
    \/ ses.mode = 2 /\ PausedBy(lines)

CondDbg(ses, lines) == ses.mode # 0 /\ lines.dbgStop

Keep(ses, lines) ==
    IF ses.dbg
    THEN ses.mode # 0 /\ lines.dbgHold /\ ~lines.dbgRel
    ELSE \/ ses.mode = 1 /\ lines.frz /\ lines.stop
         \/ ses.mode = 2 /\ PausedBy(lines)

Closed(ses) == [ses EXCEPT !.active = FALSE, !.proto = FALSE]

DropList(ses) == [ses EXCEPT !.overlay = NoOverlay, !.list = << >>, !.listed = FALSE]

(* The list as real writes: a plain entry writes the overlay's byte if the    *)
(* chip differs, a strobe the value it was listed with.                       *)
Committed(ses, chips) ==
    FoldLeft(LAMBDA c, e : [c EXCEPT ![e.reg] = IF e.reg = Plain THEN ses.overlay[Plain] ELSE e.val], chips, ses.list)

(* Mutant: the overlay of plain registers is not consulted. *)
EndFirstValue(ses, chips, drop) ==
    LET closed == [Closed(ses) EXCEPT !.block = @ \/ ses.dbg]
    IN  IF drop \/ ses.list = << >>
        THEN [ses |-> DropList(closed), chips |-> chips]
        ELSE [ses   |-> [DropList(closed) EXCEPT !.block = TRUE],
              chips |-> FoldLeft(LAMBDA c, e : [c EXCEPT ![e.reg] = e.val], chips, ses.list)]

(* Session::end.  The debugger's session, and one that committed, block a new *)
(* one until the stop is gone.                                                *)
End(ses, chips, drop) ==
    LET closed == [Closed(ses) EXCEPT !.block = @ \/ ses.dbg]
    IN  IF drop \/ ses.list = << >>
        THEN [ses |-> DropList(closed), chips |-> chips]
        ELSE [ses |-> [DropList(closed) EXCEPT !.block = TRUE], chips |-> Committed(ses, chips)]

(* Session::step: a session whose condition fell ends, the block clears, and  *)
(* a session starts where its condition holds.                                *)
Fell(ses, chips, lines) ==
    IF ses.active /\ ~Keep(ses, lines) THEN End(ses, chips, ses.mode = 0) ELSE [ses |-> ses, chips |-> chips]

Unblocked(ses, lines) ==
    [ses EXCEPT !.block = @ /\ ~((~lines.stop \/ lines.owner) /\ ~PausedBy(lines) /\ ~lines.dbgStop)]

Started(ses, lines) ==
    IF ~ses.active /\ ~ses.block /\ (Cond(ses, lines) \/ CondDbg(ses, lines)) /\ ~lines.reset
    THEN [ses EXCEPT !.active = TRUE, !.dbg = ~Cond(ses, lines)]
    ELSE ses

Step(ses, chips, lines) ==
    LET e == Fell(ses, chips, lines) IN [e EXCEPT !.ses = Started(Unblocked(@, lines), lines)]

(* Session::write_ctrl; v.abort and v.discard are strobes. *)
WriteCtrl(ses, v) ==
    LET set  == [ses EXCEPT !.mode = v.mode, !.sidefx = v.sidefx, !.proto = v.proto]
        left == IF v.discard THEN [set EXCEPT !.list = << >>, !.listed = FALSE] ELSE set
    IN  IF left.active /\ (v.abort \/ left.mode = 0)
        THEN [DropList(Closed(left)) EXCEPT !.block = @ \/ v.abort \/ left.dbg]
        ELSE left

(* Session::reset: the overlay's VIC registers are written for real, the      *)
(* rest of the list is dropped.                                               *)
ResetSession(ses, chips) ==
    IF ~ses.active THEN [ses |-> ses, chips |-> chips]
    ELSE [ses   |-> [DropList(Closed(ses)) EXCEPT !.block = TRUE],
          chips |-> IF ses.overlay[Plain] = None THEN chips ELSE [chips EXCEPT ![Plain] = ses.overlay[Plain]]]

(* Session::list_write. *)
ListWrite(ses, reg, val) ==
    IF ses.proto \/ (reg = Plain /\ ses.listed) THEN ses
    ELSE LET room == Len(ses.list) < ListMax
             s    == IF room THEN [ses EXCEPT !.list = Append(@, [reg |-> reg, val |-> val])]
                             ELSE [ses EXCEPT !.dropped = TRUE]
         IN  [s EXCEPT !.listed = @ \/ reg = Plain]

(* Session::write to an I/O register: a real cycle with SIDEFX, else the      *)
(* list and the overlay.                                                      *)
SessionWrite(ses, chips, reg, val) ==
    IF ses.sidefx THEN [ses |-> ses, chips |-> [chips EXCEPT ![reg] = val]]
    ELSE [ses |-> [ListWrite(ses, reg, val) EXCEPT !.overlay[reg] = val], chips |-> chips]
=============================================================================
