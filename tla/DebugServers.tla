---------------------------- MODULE DebugServers ----------------------------
(***************************************************************************)
(* Run control of the emulation thread (ue2emu runner.rs) by clients that  *)
(* know nothing of each other: the GDB stub on the firmware's CPU (gdb.rs),*)
(* the monitor's verbs on both CPUs (monitor/run.rs, queued as commands),  *)
(* and the VICE server on the C64 (vice.rs).                               *)
(*                                                                         *)
(* A turn of the loop is Slice, Commands, VicePoll and NoteStop; a turn of *)
(* a held machine VicePoll and Commands.  Clients act between any two of   *)
(* them.  The firmware is a loop over CodeLen instructions, the C64 a set  *)
(* of addresses it may pass when it runs.                                  *)
(***************************************************************************)
EXTENDS Integers, Sequences, FiniteSets, SequencesExt

CONSTANTS
    CodeLen,      \* the firmware's loop has this many instructions
    SliceInsns,   \* SLICE_INSNS
    Address,      \* where the C64 can be stopped
    MaxMessages   \* bound: what the clients do in a behaviour

VARIABLES
    left,    \* what is left of the turn: "commands", "vice", "stop"; "ended" by a kill
    fw,      \* Machine: pc, breakpoints, the stop being resumed, how the slice ended
    gdb,     \* GdbServer: connection, link of the session, hold, action, packets received
    mon,     \* the monitor: firmware_held, lines queued
    c64,     \* C64_STOP and OWNER, absent core; of the core attached: its number, gate, hit
    vice,    \* ViceServer: connection, client, requests, checkpoints, next number, armed, announced_stop
    told,    \* history: where GDB was told it stands, the client told STOPPED, the core armed
    sent     \* history: what the clients did

vars == << left, fw, gdb, mon, c64, vice, told, sent >>

None == "none"
Far  == -1      \* no address, no client, no core

----------------------------------------------------------------------------
(* The machine                                                              *)

(* Machine::run: a breakpoint is looked at before the instruction, except the *)
(* stop being resumed.                                                        *)
Run(f, n) ==
    LET after[k \in 0 .. n] ==
            IF k = 0 THEN [f EXCEPT !.exit = "budget"]
            ELSE LET s == after[k - 1]
                 IN  IF s.exit = "breakpoint" THEN s
                     ELSE IF s.pc \in s.bps /\ s.resume # s.pc THEN [s EXCEPT !.exit = "breakpoint", !.resume = s.pc]
                     ELSE [s EXCEPT !.pc = (@ + 1) % CodeLen, !.resume = Far]
    IN  after[n]

(* While the firmware runs it may write C64_STOP or OWNER, and a C64 that     *)
(* runs may meet its gate.                                                    *)
C64Ran(c) ==
    IF c.absent THEN {c}
    ELSE {c, [c EXCEPT !.stop = ~@], [c EXCEPT !.owner = ~@]}
         \cup { [c EXCEPT !.hit = at] : at \in IF c.stop /\ ~c.owner THEN {} ELSE c.gate }

Stands == fw' = [fw EXCEPT !.exit = "budget"] /\ UNCHANGED c64
Ran    == fw' = Run(fw, SliceInsns) /\ c64' \in C64Ran(c64)

----------------------------------------------------------------------------
(* The GDB stub                                                             *)

(* A packet; resumes set the action. *)
Fed(s, p) ==
    CASE p.op = "continue"  -> [s EXCEPT !.g.link = "running", !.g.action = "continue"]
      [] p.op = "step"      -> [s EXCEPT !.g.link = "running", !.g.action = "step"]
      [] p.op = "interrupt" -> [s EXCEPT !.g.link = "idle"]
      [] p.op \in {"detach", "kill"} -> [s EXCEPT !.g.link = p.op]
      [] p.op = "insert"    -> [s EXCEPT !.f.bps = @ \cup {p.at}]
      [] p.op = "remove"    -> [s EXCEPT !.f.bps = @ \ {p.at}]

Disconnected(g) == g.link \in {"detach", "kill"}

(* What the reader thread queued, in order; the rest after a detach is dropped. *)
FedAll(g, f) ==
    [FoldLeft(LAMBDA s, p : IF Disconnected(s.g) THEN s ELSE Fed(s, p), [g |-> g, f |-> f], g.rx) EXCEPT !.g.rx = << >>]

NoSession(g) == [g EXCEPT !.link = None, !.conn = None]

(* Mutant: the action runs whatever the stub's state. *)
PumpRuns(g) ==
    LET s == FedAll(g, fw)
    IN  /\ fw' = Run(s.f, SliceInsns)
        /\ gdb' = s.g
        /\ told' = [told EXCEPT !.gdb = IF s.g.link = "idle" THEN fw'.pc ELSE Far]
        /\ c64' \in C64Ran(c64)

(* Session::pump and what slice does with its end: the input first, then the  *)
(* resume action; a step and a breakpoint stop the target.  The first resume  *)
(* that reaches the end of a pump releases the hold for good, a detach too; a *)
(* connection that closes leaves it as it is.                                 *)
Pump(g) ==
    LET s    == FedAll(g, fw)
        lost == g.conn = "closed" /\ ~Disconnected(s.g)
        step == s.g.action = "step"
        end  == Run(s.f, IF step THEN 1 ELSE SliceInsns)
        stop == step \/ end.exit = "breakpoint"
    IN  \/ /\ lost \/ Disconnected(s.g)
           /\ fw' = [s.f EXCEPT !.exit = "budget"]
           /\ gdb' = [NoSession(s.g) EXCEPT !.hold = @ /\ lost]
           /\ told' = [told EXCEPT !.gdb = Far]
           /\ UNCHANGED c64
        \/ /\ ~lost /\ s.g.link = "idle"
           /\ fw' = [s.f EXCEPT !.exit = "budget"]
           /\ gdb' = s.g
           /\ told' = [told EXCEPT !.gdb = s.f.pc]
           /\ UNCHANGED c64
        \/ /\ ~lost /\ s.g.link = "running"
           /\ fw' = [end EXCEPT !.exit = "budget"]
           /\ gdb' = [s.g EXCEPT !.link = IF stop THEN "idle" ELSE "running", !.hold = @ /\ stop]
           /\ told' = [told EXCEPT !.gdb = IF stop THEN end.pc ELSE Far]
           /\ c64' \in C64Ran(c64)

(* GdbServer::slice; a debugger that connects stops the machine where it is. *)
GdbSlice ==
    IF gdb.link = None /\ gdb.conn # None THEN Pump([gdb EXCEPT !.link = "idle"])
    ELSE IF gdb.link # None THEN Pump(gdb)
    ELSE (IF gdb.hold THEN Stands ELSE Ran) /\ UNCHANGED << gdb, told >>

----------------------------------------------------------------------------
(* The loop                                                                 *)

Slice ==
    /\ left = << >> /\ ~mon.held
    /\ GdbSlice
    /\ left' = IF gdb.conn # None /\ FedAll(gdb, fw).g.link = "kill" THEN << "ended" >> ELSE << "commands", "vice", "stop" >>
    /\ UNCHANGED << mon, vice, sent >>

(* A held machine: the VICE server and the commands are served, nothing else. *)
HeldTurn ==
    /\ left = << >> /\ mon.held
    /\ left' = << "vice", "commands" >>
    /\ UNCHANGED << fw, gdb, mon, c64, vice, told, sent >>

InPhase(p) == left # << >> /\ Head(left) = p

(* monitor::exec: no verb runs while the core is absent; verbs that move the  *)
(* C64 are trxmon's while OWNER is set.                                       *)
Serves(line) == ~c64.absent /\ ~(line \in {"c64 halt", "c64 go"} /\ c64.owner)

(* fw halt and fw go; fw step runs the machine whoever else holds it.  *)
Firmware(line, rest) ==
    \/ line = "fw halt" /\ mon' = [rest EXCEPT !.held = TRUE] /\ UNCHANGED << fw, c64 >>
    \/ line = "fw go" /\ mon' = [rest EXCEPT !.held = FALSE] /\ UNCHANGED << fw, c64 >>
    \/ /\ line = "fw step"
       /\ LET end == Run(fw, 1)
          IN  /\ fw' = [end EXCEPT !.exit = fw.exit]
              /\ mon' = [rest EXCEPT !.held = @ \/ end.exit = "breakpoint"]
       /\ c64' \in C64Ran(c64)

(* c64 halt and c64 go: set_stop. *)
C64Verb(line, rest) ==
    /\ line \in {"c64 halt", "c64 go"}
    /\ c64' = [c64 EXCEPT !.stop = line = "c64 halt"]
    /\ mon' = rest
    /\ UNCHANGED fw

(* core absent and core present; the new core has no gate. *)
Core(line, rest) ==
    /\ \/ line = "core absent" /\ c64' = [c64 EXCEPT !.absent = TRUE]
       \/ line = "core present" /\ c64' = IF c64.absent THEN [c64 EXCEPT !.absent = FALSE, !.owner = FALSE, !.core = @ + 1,
                                                                        !.gate = {}, !.hit = Far]
                                                        ELSE c64
    /\ mon' = rest
    /\ UNCHANGED fw

(* apply_commands takes the queue until it is empty. *)
Commands ==
    /\ InPhase("commands")
    /\ IF mon.lines = << >>
       THEN left' = Tail(left) /\ UNCHANGED << fw, mon, c64 >>
       ELSE LET line == Head(mon.lines)
                rest == [mon EXCEPT !.lines = Tail(@)]
            IN  /\ UNCHANGED left
                /\ \/ Serves(line) /\ (Firmware(line, rest) \/ C64Verb(line, rest))
                   \/ Core(line, rest)
                   \/ ~Serves(line) /\ line \notin {"core absent", "core present"} /\ mon' = rest /\ UNCHANGED << fw, c64 >>
    /\ UNCHANGED << gdb, vice, told, sent >>

(* A breakpoint no debugger took holds the firmware: note_stop. *)
NoteStop ==
    /\ InPhase("stop")
    /\ left' = << >>
    /\ mon' = [mon EXCEPT !.held = @ \/ fw.exit = "breakpoint"]
    /\ fw' = [fw EXCEPT !.exit = "budget"]
    /\ UNCHANGED << gdb, c64, vice, told, sent >>

----------------------------------------------------------------------------
(* The VICE server                                                          *)

(* s holds the server v, the C64 c and what the clients were told t. *)

(* Writing C64_STOP reaches nothing while the core is absent. *)
Halt(s, on) == [s EXCEPT !.c.stop = IF s.c.absent THEN @ ELSE on]

AnnounceStop(s) == [s EXCEPT !.v.announced = TRUE, !.t.stopped = s.v.client]

(* Mutant: the next client inherits the stop. *)
DropClientKeepsStop(s) == [s EXCEPT !.v.client = Far, !.v.conn = None, !.v.rx = << >>]

DropClient(s) == [s EXCEPT !.v.client = Far, !.v.conn = None, !.v.rx = << >>, !.v.announced = FALSE]

Enabled(v) == { v.cps[i].at : i \in { j \in DOMAIN v.cps : v.cps[j].on } }

(* arm, where the machine does not carry the current set *)
Armed(s) ==
    IF s.v.armed THEN s ELSE [s EXCEPT !.v.armed = TRUE, !.c.gate = Enabled(s.v), !.t.armed = s.c.core]

(* The first enabled checkpoint at a hit: its info, then the stop; a temporary *)
(* one is removed.                                                             *)
Hit(s) ==
    LET taken == [s EXCEPT !.c.hit = Far]
        hits  == { i \in DOMAIN s.v.cps : s.v.cps[i].on /\ s.v.cps[i].at = s.c.hit }
        first == CHOOSE i \in hits : \A j \in hits : i <= j
        halts == IF s.v.cps[first].kind = "trace" THEN taken ELSE AnnounceStop(Halt(taken, TRUE))
    IN  IF s.c.hit = Far \/ hits = {} THEN taken
        ELSE IF s.v.cps[first].kind = "temporary" THEN [halts EXCEPT !.v.cps = RemoveAt(@, first)] ELSE halts

(* checkpoint_toggle, checkpoint_delete and checkpoint_set *)
Toggled(v, r) ==
    [v EXCEPT !.cps = [i \in DOMAIN @ |-> IF @[i].n = r.n THEN [@[i] EXCEPT !.on = r.on] ELSE @[i]],
              !.armed = @ /\ \A i \in DOMAIN v.cps : v.cps[i].n # r.n]
Deleted(v, r) ==
    [v EXCEPT !.cps = SelectSeq(@, LAMBDA k : k.n # r.n), !.armed = @ /\ \A i \in DOMAIN v.cps : v.cps[i].n # r.n]
Added(v, r) ==
    [v EXCEPT !.cps = Append(@, [n |-> v.next, at |-> r.at, kind |-> r.kind, on |-> TRUE]), !.next = @ + 1, !.armed = FALSE]

(* One request; what runs the C64 is refused while OWNER is set.  ADVANCE      *)
(* leaves a C64 that ran running.                                              *)
Dispatch(s, r) ==
    CASE s.v.client = Far \/ (r.op \in {"advance", "exit"} /\ s.c.owner) -> s
      [] OTHER ->
         CASE r.op = "set"     -> [s EXCEPT !.v = Added(@, r)]
           [] r.op = "delete"  -> [s EXCEPT !.v = Deleted(@, r)]
           [] r.op = "toggle"  -> [s EXCEPT !.v = Toggled(@, r)]
           [] r.op = "advance" -> AnnounceStop(s)
           [] r.op = "exit"    -> [Halt(s, FALSE) EXCEPT !.v.announced = FALSE]
           [] r.op = "quit"    -> DropClient(Halt(s, FALSE))

(* ViceServer::poll.  A connection found closed is dropped with what it sent. *)
Polled(s) ==
    IF s.v.conn = None
    THEN [s EXCEPT !.v.cps = << >>, !.c.gate = IF s.v.cps = << >> THEN @ ELSE {}]
    ELSE LET client == IF s.v.client = Far THEN [s EXCEPT !.v.client = s.v.clients] ELSE s
             met    == Hit(Armed(client))
         IN  IF s.v.conn = "closed" THEN DropClient(met)
             ELSE FoldLeft(Dispatch, [met EXCEPT !.v.rx = << >>], s.v.rx)

VicePoll ==
    /\ InPhase("vice")
    /\ left' = Tail(left)
    /\ LET s == Polled([v |-> vice, c |-> c64, t |-> told])
       IN  vice' = s.v /\ c64' = s.c /\ told' = s.t
    /\ UNCHANGED << fw, gdb, mon, sent >>

----------------------------------------------------------------------------
(* The clients                                                              *)

Acts == sent < MaxMessages /\ sent' = sent + 1 /\ left # << "ended" >>

GdbConnect ==
    /\ Acts /\ gdb.conn = None
    /\ gdb' = [gdb EXCEPT !.conn = "open", !.rx = << >>]
    /\ UNCHANGED << left, fw, mon, c64, vice, told >>

Packets == [op : {"continue", "step", "detach", "kill"}] \cup [op : {"insert", "remove"}, at : 0 .. CodeLen - 1]

(* GDB sends nothing but an interrupt to a target that runs. *)
Resumed == gdb.link = "running" \/ \E i \in DOMAIN gdb.rx : gdb.rx[i].op \in {"continue", "step"}

GdbSend ==
    /\ Acts /\ gdb.conn = "open"
    /\ \E p \in IF Resumed THEN [op : {"interrupt"}] ELSE Packets : gdb' = [gdb EXCEPT !.rx = Append(@, p)]
    /\ UNCHANGED << left, fw, mon, c64, vice, told >>

GdbClose ==
    /\ Acts /\ gdb.conn = "open"
    /\ gdb' = [gdb EXCEPT !.conn = "closed"]
    /\ UNCHANGED << left, fw, mon, c64, vice, told >>

MonitorLine ==
    /\ Acts
    /\ \E line \in {"fw halt", "fw go", "fw step", "c64 halt", "c64 go", "core absent", "core present"} :
           mon' = [mon EXCEPT !.lines = Append(@, line)]
    /\ UNCHANGED << left, fw, gdb, c64, vice, told >>

ViceConnect ==
    /\ Acts /\ vice.conn = None
    /\ vice' = [vice EXCEPT !.conn = "open", !.clients = @ + 1, !.rx = << >>]
    /\ UNCHANGED << left, fw, gdb, mon, c64, told >>

Requests ==
    [op : {"set"}, at : Address, kind : {"stop", "temporary", "trace"}] \cup [op : {"delete"}, n : 1 .. 2]
    \cup [op : {"toggle"}, n : 1 .. 2, on : BOOLEAN] \cup [op : {"advance", "exit", "quit"}]

ViceSend ==
    /\ Acts /\ vice.conn = "open"
    /\ \E r \in Requests : vice' = [vice EXCEPT !.rx = Append(@, r)]
    /\ UNCHANGED << left, fw, gdb, mon, c64, told >>

ViceClose ==
    /\ Acts /\ vice.conn = "open"
    /\ vice' = [vice EXCEPT !.conn = "closed"]
    /\ UNCHANGED << left, fw, gdb, mon, c64, told >>

----------------------------------------------------------------------------
Init ==
    /\ left = << >>
    /\ fw = [pc |-> 0, bps |-> {}, resume |-> Far, exit |-> "budget"]
    /\ gdb = [conn |-> None, link |-> None, hold |-> TRUE, action |-> "continue", rx |-> << >>]
    /\ mon = [held |-> FALSE, lines |-> << >>]
    /\ c64 = [stop |-> FALSE, owner |-> FALSE, absent |-> FALSE, core |-> 0, gate |-> {}, hit |-> Far]
    /\ vice = [conn |-> None, client |-> Far, clients |-> 0, rx |-> << >>, cps |-> << >>, next |-> 1, armed |-> FALSE,
               announced |-> FALSE]
    /\ told = [gdb |-> Far, stopped |-> Far, armed |-> Far]
    /\ sent = 0

Next ==
    \/ Slice \/ HeldTurn \/ Commands \/ VicePoll \/ NoteStop
    \/ GdbConnect \/ GdbSend \/ GdbClose \/ MonitorLine \/ ViceConnect \/ ViceSend \/ ViceClose

Spec == Init /\ [][Next]_vars

----------------------------------------------------------------------------
(* Properties                                                               *)

Stepping == InPhase("commands") /\ mon.lines # << >> /\ Head(mon.lines) = "fw step"

(* The firmware moves only as its debuggers asked: by the monitor's step, or  *)
(* while the monitor does not hold it and either GDB resumed it, or there is  *)
(* no session and the reset hold was released.  A debugger that was told the  *)
(* target stands does not lose it to a slice, a command or another client.    *)
MovesAsAsked ==
    [][ fw'.pc # fw.pc =>
          \/ Stepping
          \/ /\ ~mon.held
             /\ \/ gdb.conn = None /\ ~gdb.hold
                \/ gdb.conn # None /\ told.gdb = Far /\ gdb.link = "running"
                \/ \E i \in DOMAIN gdb.rx : gdb.rx[i].op \in {"continue", "step"} ]_vars

(* The VICE server keeps its word: while it believes its checkpoints armed,   *)
(* and the core they were armed on is still attached, the C64's gate has every *)
(* enabled one; and a client that will be told RESUMED is the one that was     *)
(* told STOPPED.                                                               *)
ViceKeepsItsWord ==
    /\ vice.armed /\ told.armed = c64.core => Enabled(vice) \subseteq c64.gate
    /\ vice.announced => vice.client # Far /\ told.stopped = vice.client
=============================================================================
