------------------------------- MODULE Wd177x -------------------------------
(***************************************************************************)
(* The floppy controller of a 1581 (wd177x.rs): the drive's CPU on one     *)
(* side, the firmware with its command FIFO and DMA on the other, and time *)
(* (write delay, stepper).  A sector has SectorLen bytes.  The CPU's       *)
(* program and the firmware's service are external: the DOS polls BUSY and *)
(* DRQ, the firmware takes one entry at a time and sets up its DMA.        *)
(***************************************************************************)
EXTENDS Naturals, Sequences

CONSTANTS
    SectorLen,
    FifoDepth,      \* FIFO_DEPTH
    LastTrack,      \* MAX_TRACK
    MaxForced       \* bound: Force Interrupts and drive resets

VARIABLES
    wd,       \* Wd177x
    ddr,      \* the firmware's sector buffer
    d81,     \* the sector of the D81
    dos,      \* the 1581's DOS: command under way, bytes moved
    serving   \* the entry the firmware serves

fdcVars == << wd, ddr, d81, dos, serving >>

DiskByte == {0, 1}

WdReset(w) ==
    [w EXCEPT !.wv = FALSE, !.rv = FALSE, !.cmd = "none", !.busy = FALSE, !.drq = FALSE, !.mode = 0, !.delay = FALSE,
              !.completion = FALSE, !.goto = 0, !.fifo = << >>, !.cur = 0]

Push(w) ==
    IF Len(w.fifo) < FifoDepth THEN [w EXCEPT !.fifo = Append(@, [cmd |-> w.cmd, done |-> w.completion])]
    ELSE [w EXCEPT !.dropped = TRUE]

(* The DMA machine runs until it waits: for a byte to be taken or given, or *)
(* for time.  m is the buffer; a write is the pair of both.                 *)
Settle(w, m) ==
    CASE w.delay -> [w |-> w, m |-> m]
      [] ~w.delay /\ w.mode = 1 /\ w.rv -> [w |-> w, m |-> m]
      [] ~w.delay /\ w.mode = 1 /\ ~w.rv /\ w.len = 0 -> [w |-> [w EXCEPT !.busy = FALSE, !.mode = 0], m |-> m]
      [] ~w.delay /\ w.mode = 1 /\ ~w.rv /\ w.len > 0 ->
           [w |-> [w EXCEPT !.data = m[w.addr], !.rv = TRUE, !.drq = TRUE, !.len = @ - 1, !.addr = @ + 1], m |-> m]
      [] ~w.delay /\ w.mode = 2 /\ ~w.wv -> [w |-> [w EXCEPT !.drq = TRUE], m |-> m]
      [] ~w.delay /\ w.mode = 2 /\ w.wv /\ w.len > 1 ->
           [w |-> [w EXCEPT !.drq = TRUE, !.wv = FALSE, !.len = @ - 1, !.addr = @ + 1], m |-> [m EXCEPT ![w.addr] = w.data]]
      [] ~w.delay /\ w.mode = 2 /\ w.wv /\ w.len = 1 ->
           [w |-> Push([w EXCEPT !.drq = FALSE, !.wv = FALSE, !.len = 0, !.addr = @ + 1, !.mode = 3, !.delay = TRUE,
                                 !.completion = TRUE]),
            m |-> [m EXCEPT ![w.addr] = w.data]]
      [] ~w.delay /\ w.mode = 0 -> [w |-> [w EXCEPT !.drq = FALSE, !.wv = FALSE], m |-> m]
      [] ~w.delay /\ w.mode = 3 -> [w |-> w, m |-> m]

Settled(s) == wd' = s.w /\ ddr' = s.m

StoredKeepsDone(w, c) ==    \* a mutant: the flag of the last completion stays
    IF w.busy /\ c # "force" THEN w ELSE [Push([w EXCEPT !.cmd = c, !.busy = TRUE]) EXCEPT !.wv = FALSE]

(* The CPU stores a command: only a Force Interrupt is taken while busy. *)
Stored(w, c) ==
    IF w.busy /\ c # "force" THEN w
    ELSE [Push([w EXCEPT !.cmd = c, !.busy = TRUE, !.completion = FALSE]) EXCEPT !.wv = FALSE]

----------------------------------------------------------------------------
(* The 1581's CPU.                                                          *)

Free == [do |-> "none", moved |-> << >>, forced |-> FALSE, count |-> 0]

Init ==
    /\ wd = [busy |-> FALSE, drq |-> FALSE, cmd |-> "none", data |-> 0, wv |-> FALSE, rv |-> FALSE, completion |-> FALSE,
             fifo |-> << >>, mode |-> 0, delay |-> FALSE, addr |-> 1, len |-> 0, goto |-> 0, cur |-> 0, dropped |-> FALSE]
    /\ d81 \in [1 .. SectorLen -> DiskByte] /\ ddr = [i \in 1 .. SectorLen |-> 0]
    /\ dos = Free /\ serving = "none"

(* A transfer was cut short: until the controller is quiet again and the    *)
(* data register read, what the CPU sees is no command's answer.            *)
Quiet == ~wd.busy /\ wd.fifo = << >> /\ wd.mode = 0 /\ ~wd.delay /\ ~wd.rv /\ serving = "none"

CpuCommand(c) ==
    /\ dos.do = "none" /\ ~wd.busy
    /\ Settled(Settle(Stored([wd EXCEPT !.dropped = @ /\ ~Quiet], c), ddr))
    /\ dos' = [dos EXCEPT !.do = c, !.moved = << >>, !.forced = @ /\ ~Quiet]
    /\ UNCHANGED << d81, serving >>

CpuForce ==
    /\ dos.count < MaxForced
    /\ Settled(Settle(Stored(wd, "force"), ddr))
    /\ dos' = [dos EXCEPT !.do = "force", !.forced = TRUE, !.count = @ + 1]
    /\ UNCHANGED << d81, serving >>

(* A read of the data register. *)
Taken(w) == [w EXCEPT !.drq = @ /\ ~w.rv, !.rv = FALSE]

CpuTake ==
    /\ dos.do = "read" /\ wd.busy /\ wd.drq /\ Len(dos.moved) =< SectorLen
    /\ Settled(Settle(Taken(wd), ddr))
    /\ dos' = [dos EXCEPT !.moved = Append(@, wd.data)]
    /\ UNCHANGED << d81, serving >>

CpuGive(b) ==
    /\ dos.do = "write" /\ wd.busy /\ wd.drq /\ Len(dos.moved) =< SectorLen
    /\ Settled(Settle([wd EXCEPT !.data = b, !.wv = TRUE], ddr))
    /\ dos' = [dos EXCEPT !.moved = Append(@, b)]
    /\ UNCHANGED << d81, serving >>

(* The DOS sees BUSY gone; after a Force Interrupt it reads the data register. *)
CpuDone ==
    /\ dos.do # "none" /\ ~wd.busy
    /\ dos' = [dos EXCEPT !.do = "none"]
    /\ Settled(IF dos.do = "force" THEN Settle(Taken(wd), ddr) ELSE [w |-> wd, m |-> ddr])
    /\ UNCHANGED << d81, serving >>

----------------------------------------------------------------------------
(* The firmware: pop an entry, serve it.                                    *)

FwTake ==
    /\ serving = "none" /\ wd.fifo # << >>
    /\ serving' = IF Head(wd.fifo).done THEN "done" ELSE Head(wd.fifo).cmd
    /\ Settled(Settle([wd EXCEPT !.fifo = Tail(@)], ddr))
    /\ UNCHANGED << d81, dos >>

Begin(mode) == [wd EXCEPT !.addr = 1, !.len = SectorLen, !.mode = mode]

FwServe ==
    /\ serving # "none"
    /\ CASE serving = "read"  -> Settled(Settle(Begin(1), d81))
         [] serving = "write" -> Settled(Settle(Begin(2), ddr))
         [] serving = "done"  -> Settled(Settle([wd EXCEPT !.mode = 0], ddr))
         [] serving = "force" -> Settled(Settle([wd EXCEPT !.mode = 0, !.busy = FALSE], ddr))
         [] serving = "seek"  -> \E t \in 0 .. LastTrack : Settled(Settle([wd EXCEPT !.goto = t], ddr))
         [] serving = "seeking" -> wd.cur = wd.goto /\ Settled(Settle([wd EXCEPT !.busy = FALSE], ddr))
    /\ d81' = IF serving = "done" THEN ddr ELSE d81
    /\ serving' = IF serving = "seek" THEN "seeking" ELSE "none"
    /\ UNCHANGED dos

(* Time: the write delay runs out, the head steps. *)
RunTo ==
    /\ \/ wd.delay /\ wd' = [wd EXCEPT !.delay = FALSE, !.busy = FALSE]
       \/ wd.cur < wd.goto /\ wd' = [wd EXCEPT !.cur = @ + 1]
       \/ wd.cur > wd.goto /\ wd' = [wd EXCEPT !.cur = @ - 1]
    /\ UNCHANGED << ddr, d81, dos, serving >>

(* The drive's reset line; the firmware keeps what it popped. *)
DriveReset ==
    /\ dos.count < MaxForced
    /\ wd' = WdReset(wd)
    /\ dos' = [Free EXCEPT !.forced = TRUE, !.count = dos.count + 1]
    /\ UNCHANGED << ddr, d81, serving >>

Next ==
    \/ \E c \in {"read", "write", "seek"} : CpuCommand(c)
    \/ \E b \in DiskByte : CpuGive(b)
    \/ CpuForce \/ CpuTake \/ CpuDone \/ FwTake \/ FwServe \/ RunTo \/ DriveReset

Spec == Init /\ [][Next]_fdcVars

----------------------------------------------------------------------------
(* Every transfer moves the sector: a read hands the CPU its bytes in order *)
(* and BUSY falls when it has them all; a write reaches the D81 whole,     *)
(* even when the CPU is already at its next command; no command and no      *)
(* completion is lost and BUSY never stands with nobody at work; a seek     *)
(* ends on its track.  Cut short by a Force Interrupt or a reset, nothing   *)
(* is promised until the controller is quiet.                               *)
SectorsMove ==
    ~dos.forced =>
      /\ ~wd.dropped
      /\ dos.do = "read" => \A i \in DOMAIN dos.moved : dos.moved[i] = d81[i]
      /\ dos.do = "read" /\ ~wd.busy => Len(dos.moved) = SectorLen
      /\ dos.do = "write" /\ ~wd.busy => dos.moved = ddr \/ dos.moved = d81
      /\ dos.do = "seek" /\ ~wd.busy => wd.cur = wd.goto
      /\ Quiet /\ dos.do = "write" => dos.moved = d81
      /\ wd.fifo = << >> /\ serving = "none" /\ wd.mode \notin {1, 2} /\ ~wd.delay => ~wd.busy
=============================================================================
