------------------------------ MODULE C64Hold ------------------------------
(***************************************************************************)
(* What the C64 engine bridge holds of the machine's lines and its clock   *)
(* (c64-bridge lib.rs, engine_tap.rs, dbg_run.rs): operators on a backend  *)
(* record and on the debug block's model.                                  *)
(*                                                                         *)
(* The bridge counts the cycles the emulator's clock asks for from an      *)
(* anchor.  `lag' holds why the C64 is behind that count: "stood" while it *)
(* stood still, "uci" while it waited for the firmware.  Taking a new      *)
(* anchor forgets the lag; running makes it up.                            *)
(***************************************************************************)
EXTENDS Integers, FiniteSets

Killed == -1     \* no type: the kill strobe

NewBackend == [reset |-> FALSE, stopped |-> FALSE, paused |-> FALSE, muted |-> FALSE, ultimax |-> FALSE,
               type |-> 0, reu |-> FALSE, posArm |-> FALSE, posHold |-> FALSE, dbgHeld |-> FALSE,
               uci |-> FALSE, lag |-> {}]

NewDbg == [own |-> FALSE, hold |-> FALSE, step |-> FALSE, pend |-> {}, armed |-> FALSE]

(* Dbg::holds *)
Holds(d) == d.hold /\ ~d.step

Stands(b)  == b.paused \/ b.posHold \/ b.dbgHeld
CpuRuns(b) == ~b.stopped /\ ~b.reset

Reanchored(b) == IF Stands(b) THEN b ELSE [b EXCEPT !.lag = {}]

SetPaused(b, on) == IF on = b.paused THEN b ELSE Reanchored([b EXCEPT !.paused = on])

(* A release warm-resets the C64 and anchors its clock now. *)
SetReset(b, on) == [b EXCEPT !.reset = on, !.uci = FALSE, !.lag = IF on THEN @ ELSE {}]

SetStopPos(b, arm) == [b EXCEPT !.posArm = arm]

ReleasePos(b) == IF b.posHold THEN Reanchored([b EXCEPT !.posHold = FALSE]) ELSE b

(* dbg_sync: the hold follows the model; a release anchors the clock. *)
DbgSync(b, d) ==
    LET now == [b EXCEPT !.dbgHeld = Holds(d)]
    IN  IF b.dbgHeld /\ ~Holds(d) THEN Reanchored(now) ELSE now

(* Dbg::stop; a pause takes its requests back. *)
Stopped(d, why) == [d EXCEPT !.hold = TRUE, !.step = FALSE, !.pend = IF why = "pause" THEN {} ELSE @]

(* Dbg::release and Dbg::start_step *)
Released(d) == [d EXCEPT !.hold = FALSE, !.step = FALSE, !.pend = {}]
Stepping(d) == [d EXCEPT !.hold = TRUE, !.step = TRUE]

(* Why the boundary the C64 stands on may stop it, dbg_boundary: a unit, the  *)
(* bitmap or the comparator, the end of a step, a pause.  PAUSE_IB waits for  *)
(* an instruction the 6510 fetches, PAUSE_CB for nothing.                     *)
Stops(b, d) ==
    { why \in {"unit", "step", "pause"} :
        \/ why = "unit" /\ d.armed
        \/ why = "step" /\ d.step
        \/ why = "pause" /\ ("cb" \in d.pend \/ ("ib" \in d.pend /\ CpuRuns(b))) }

(* Whether it may also be passed: an edge source need not hit here.  *)
Passes(d) == "cb" \notin d.pend

(* The outcomes of looking at the boundary: the model after it. *)
Boundary(b, d) ==
    IF b.dbgHeld THEN {d}
    ELSE { Stopped(d, why) : why \in Stops(b, d) } \cup IF Passes(d) THEN {d} ELSE {}

(* dbg_changed: the configuration is taken; a pause stops at once where the   *)
(* C64 stands between two instructions.                                       *)
DbgChanged(b, d) ==
    LET s == DbgSync(b, d)
    IN  { [be |-> DbgSync(s, e), dbg |-> e] :
            e \in IF s.dbgHeld \/ s.paused \/ s.posHold THEN {d} ELSE Boundary(s, d) }

(* run_to with a target ahead: the chips alone while the 6510 is held, nothing *)
(* while it waits for the firmware.  A stop on the way leaves the rest.        *)
Run(b, d) ==
    IF b.uci THEN {[be |-> [b EXCEPT !.lag = @ \cup {"uci"}], dbg |-> d, hit |-> FALSE]}
    ELSE LET ran == [b EXCEPT !.lag = {}]
         IN  { [be |-> IF Holds(e) THEN [DbgSync(ran, e) EXCEPT !.lag = {"stood"}] ELSE ran, dbg |-> e, hit |-> FALSE] :
                 e \in Boundary(ran, d) }
             \cup { [be |-> [ran EXCEPT !.posHold = TRUE, !.posArm = FALSE, !.lag = {"stood"}], dbg |-> d, hit |-> TRUE] :
                      x \in {y \in {1} : b.posArm} }
             \cup { [be |-> [ran EXCEPT !.uci = TRUE], dbg |-> d, hit |-> FALSE] :
                      x \in {y \in {1} : CpuRuns(b) /\ Passes(d)} }

(* advance_to: a wait for the firmware ends when it answered, took too long,  *)
(* or the 6510 is held; a C64 that stands runs nothing.                       *)
AdvanceTo(b, d) ==
    UNION { LET w == [b EXCEPT !.uci = u]
            IN  IF Stands(w) THEN {[be |-> [w EXCEPT !.lag = @ \cup {"stood"}], dbg |-> d, hit |-> FALSE]} ELSE Run(w, d) :
              u \in IF b.uci /\ CpuRuns(b) THEN BOOLEAN ELSE {FALSE} }

(* dbg_run_step: the step runs now, unless the C64 is paused; one that cannot *)
(* end here looks at its boundary once more and is left to the running        *)
(* machine.                                                                   *)
DbgRunStep(b, d) ==
    LET s == DbgSync(b, d)
    IN  IF ~d.step \/ s.paused \/ s.posHold THEN {[be |-> s, dbg |-> d]}
        ELSE UNION { { [be |-> DbgSync(r.be, e), dbg |-> e] : e \in Boundary(r.be, r.dbg) } :
                       r \in { q \in Run(s, d) : ~q.hit } }
=============================================================================
