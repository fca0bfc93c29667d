------------------------------- MODULE SdCard -------------------------------
(***************************************************************************)
(* The SD card over SPI (devices/sdcard.rs) and a driver that talks to it  *)
(* a byte at a time: initialisation, single and streamed reads, single and *)
(* multiple writes, registers, and a machine reset at any byte.            *)
(*                                                                         *)
(* The bytes are the card's own numbers.  A command frame is three bytes   *)
(* here (command, address, CRC) for six, a block one data byte and one CRC *)
(* byte for 512 and two.  The data bytes look like a command and like a    *)
(* token.  The driver holds the card selected and sends no CMD13, CMD16,   *)
(* ACMD23 or CMD59.                                                        *)
(***************************************************************************)
EXTENDS Naturals, Sequences

CONSTANT CardSectors     \* sectors of the image

VARIABLES
    card,     \* Card
    image,    \* the file: sector -> data byte
    drv,      \* the driver
    kept      \* what the driver was told the image holds (history)

DataByte == {81, 254}
Lba == 0 .. CardSectors

NoByte == 255
Idle == [name |-> "Command", multi |-> FALSE, n |-> 0]
Phase(name, multi, n) == [name |-> name, multi |-> multi, n |-> n]
IsCommand(b) == b \in 64 .. 127

NewCard == [idle |-> TRUE, app |-> FALSE, phase |-> Idle, cmd |-> 0, arg |-> 0, lba |-> 0, streaming |-> FALSE,
            byte |-> 0, out |-> << >>, miso |-> NoByte, put |-> FALSE]

QueueData(c, b) == [c EXCEPT !.out = @ \o << 254, b, 0 >>]

(* The sector at lba, or an error token; io: the host could read it. *)
QueueSector(c, io) ==
    CASE c.lba >= CardSectors -> [c EXCEPT !.streaming = FALSE, !.out = Append(@, 8)]
      [] c.lba < CardSectors /\ io -> [QueueData(c, image[c.lba]) EXCEPT !.lba = @ + 1]
      [] OTHER -> [c EXCEPT !.streaming = FALSE, !.out = Append(@, 1)]

R1(c) == IF c.idle THEN 1 ELSE 0

Answers(c, bytes) == [c EXCEPT !.out = bytes]

(* The commands that need an initialised card. *)
DataCommand(c, io) ==
    CASE c.cmd \in {9, 10} -> QueueData(Answers(c, << 0 >>), c.cmd)
      [] c.cmd = 12 -> Answers(c, << NoByte, 0 >>)
      [] c.cmd \in {17, 18, 24, 25} /\ c.arg >= CardSectors -> Answers(c, << 64 >>)
      [] c.cmd = 17 /\ c.arg < CardSectors -> QueueSector([Answers(c, << 0 >>) EXCEPT !.lba = c.arg], io)
      [] c.cmd = 18 /\ c.arg < CardSectors -> [Answers(c, << 0 >>) EXCEPT !.lba = c.arg, !.streaming = TRUE]
      [] c.cmd \in {24, 25} /\ c.arg < CardSectors ->
           [Answers(c, << 0 >>) EXCEPT !.lba = c.arg, !.phase = Phase("WriteToken", c.cmd = 25, 0)]
      [] OTHER -> Answers(c, << 4 >>)

InitCommand(c, after55) ==
    c.cmd \in {0, 55} \/ (c.cmd \in {8, 58} /\ ~after55) \/ (c.cmd = 41 /\ after55)

(* The command of a complete frame; after55: CMD55 came before it. *)
Command(c, after55, io) ==
    CASE c.cmd = 0 -> [Answers(c, << 1 >>) EXCEPT !.idle = TRUE]
      [] c.cmd = 55 -> [Answers(c, << R1(c) >>) EXCEPT !.app = TRUE]
      [] c.cmd = 8 /\ ~after55 -> Answers(c, << R1(c), 0, 0, 1, 170 >>)
      [] c.cmd = 58 /\ ~after55 -> Answers(c, << R1(c), IF c.idle THEN 64 ELSE 192, 255, 128, 0 >>)
      [] c.cmd = 41 /\ after55 -> [Answers(c, << 0 >>) EXCEPT !.idle = FALSE]
      [] ~InitCommand(c, after55) /\ c.idle -> Answers(c, << 5 >>)
      [] ~InitCommand(c, after55) /\ ~c.idle -> IF after55 THEN Answers(c, << 4 >>) ELSE DataCommand(c, io)

Execute(c, io) == Command([c EXCEPT !.app = FALSE, !.streaming = FALSE], c.app, io)

(* The block is in: written to the image at once. *)
CommitWrite(c, io) ==
    [c EXCEPT !.lba = @ + 1, !.put = io /\ c.lba < CardSectors,
              !.out = Append(@, IF io /\ c.lba < CardSectors THEN 5 ELSE 13)]

StartsInData(c, b) == c.phase.name # "Frame" /\ IsCommand(b)    \* a mutant

(* Inside a data block a byte like a command is data. *)
Starts(c, b) == c.phase.name \in {"Command", "WriteToken"} /\ IsCommand(b)

Receive(c, b, io) ==
    CASE Starts(c, b) -> [c EXCEPT !.out = << >>, !.cmd = b - 64, !.phase = Phase("Frame", FALSE, 1)]
      [] ~Starts(c, b) /\ c.phase.name = "Command" -> c
      [] c.phase.name = "Frame" /\ c.phase.n = 1 -> [c EXCEPT !.arg = b, !.phase = Phase("Frame", FALSE, 2)]
      [] c.phase.name = "Frame" /\ c.phase.n = 2 -> Execute([c EXCEPT !.phase = Idle], io)
      [] ~Starts(c, b) /\ c.phase.name = "WriteToken" ->
           CASE b = (IF c.phase.multi THEN 252 ELSE 254) -> [c EXCEPT !.phase = Phase("WriteData", c.phase.multi, 0)]
             [] b = 253 /\ c.phase.multi -> [c EXCEPT !.phase = Idle]
             [] OTHER -> c
      [] ~Starts(c, b) /\ c.phase.name = "WriteData" /\ c.phase.n = 0 ->
           [c EXCEPT !.byte = b, !.phase = Phase("WriteData", c.phase.multi, 1)]
      [] ~Starts(c, b) /\ c.phase.name = "WriteData" /\ c.phase.n = 1 ->
           [CommitWrite(c, io) EXCEPT !.phase = IF c.phase.multi THEN Phase("WriteToken", TRUE, 0) ELSE Idle]

Refilled(c, io) == IF c.out = << >> /\ c.streaming /\ c.phase = Idle THEN QueueSector(c, io) ELSE c

Shifted(c) == IF c.out = << >> THEN [c EXCEPT !.miso = NoByte] ELSE [c EXCEPT !.miso = Head(c.out), !.out = Tail(@)]

Xfer(c, b, io) == Receive(Shifted(Refilled([c EXCEPT !.put = FALSE], io)), b, io)

----------------------------------------------------------------------------
(* The driver: bytes to send, then an answer to wait for.                   *)

Cmd(n, arg) == << 64 + n, arg, 149 >>

InitCommands == << 0, 8, 55, 41, 58 >>

NoOp == [op |-> "none", lba |-> 0, val |-> 81, todo |-> << >>, stage |-> "r1", cmds |-> << >>, got |-> 0, polls |-> 0,
         ready |-> FALSE, lost |-> FALSE]

Done(d) == [NoOp EXCEPT !.ready = d.ready, !.lost = d.lost]

Number(op) == CASE op = "read" -> 17 [] op = "stream" -> 18 [] op = "write" -> 24 [] op = "writes" -> 25 [] op = "csd" -> 9

Begin(op, lba, v) ==
    drv' = IF op = "init" THEN [drv EXCEPT !.op = op, !.todo = Cmd(0, 0), !.cmds = Tail(InitCommands), !.ready = FALSE]
           ELSE [drv EXCEPT !.op = op, !.lba = lba, !.val = v, !.todo = Cmd(Number(op), lba)]

SendBlock(d, v) == [d EXCEPT !.val = v, !.todo = << IF d.op = "writes" THEN 252 ELSE 254, v, 0 >>, !.stage = "resp"]

R1Heard(d, m) ==
    CASE d.op = "init" /\ d.cmds # << >> -> [d EXCEPT !.todo = Cmd(Head(d.cmds), 0), !.cmds = Tail(@),
                                                      !.lost = m # IF Len(d.cmds) = 1 THEN 0 ELSE 1]
      [] d.op = "init" /\ d.cmds = << >> -> [Done(d) EXCEPT !.ready = TRUE, !.lost = m # 0]
      [] d.op # "init" /\ m # 0 -> [Done(d) EXCEPT !.lost = ~(m = 64 /\ d.lba >= CardSectors)]
      [] d.op \in {"write", "writes"} /\ m = 0 -> SendBlock(d, d.val)
      [] OTHER -> [d EXCEPT !.stage = "token"]

Stop(d) == [d EXCEPT !.todo = Cmd(12, 0), !.stage = "stop"]

(* m came in; more: a streamed read or write goes on, with v. *)
Heard(d, m, more, v) ==
    CASE d.stage = "r1" -> R1Heard(d, m)
      [] d.stage = "token" -> IF m = 254 THEN [d EXCEPT !.stage = "data"] ELSE IF d.op = "stream" THEN Stop(d) ELSE Done(d)
      [] d.stage = "data" -> IF d.op = "csd" /\ ~more THEN Done(d) ELSE [d EXCEPT !.got = m, !.stage = "crc"]
      [] d.stage = "crc" -> IF d.op # "stream" THEN Done(d)
                            ELSE IF more THEN [d EXCEPT !.lba = @ + 1, !.stage = "token"] ELSE Stop(d)
      [] d.stage = "resp" -> CASE d.op = "write" -> Done(d)
                               [] d.op = "writes" /\ more /\ m = 5 -> SendBlock([d EXCEPT !.lba = @ + 1], v)
                               [] OTHER -> [d EXCEPT !.todo = << 253 >>, !.stage = "end"]
      [] d.stage = "stop" -> Done(d)

Sent(d) == IF Len(d.todo) = 1 /\ d.stage = "end" THEN Done(d) ELSE [d EXCEPT !.todo = Tail(@)]

(* An answer that does not belong where it came. *)
Strange(d, m) == (d.stage = "resp" /\ m \notin {5, 13}) \/ (d.stage = "token" /\ m \notin {254, 1, 8})

Waits(d, m) == m = NoByte /\ d.stage \notin {"data", "crc"}

----------------------------------------------------------------------------

Init ==
    /\ card = NewCard
    /\ image = [s \in 0 .. CardSectors - 1 |-> 254] /\ kept = image
    /\ drv = NoOp

Start ==
    /\ drv.op = "none"
    /\ \E op \in {"init"} \cup (IF drv.ready THEN {"read", "stream", "write", "writes", "csd"} ELSE {}),
          lba \in Lba, v \in DataByte : Begin(op, lba, v)
    /\ UNCHANGED << card, image, kept >>

Clocked(x) ==
    /\ card' = x
    /\ image' = IF x.put THEN [image EXCEPT ![x.lba - 1] = x.byte] ELSE image

Send ==
    /\ drv.op # "none" /\ drv.todo # << >>
    /\ \E io \in BOOLEAN : Clocked(Xfer(card, Head(drv.todo), io))
    /\ drv' = Sent(drv)
    /\ UNCHANGED kept

Poll ==
    /\ drv.op # "none" /\ drv.todo = << >>
    /\ \E io, more \in BOOLEAN, v \in DataByte : \E x \in {Xfer(card, NoByte, io)} :
          /\ Clocked(x)
          /\ drv' = IF Waits(drv, x.miso) THEN [drv EXCEPT !.polls = @ + 1]
                    ELSE [Heard(drv, x.miso, more, v) EXCEPT !.polls = 0, !.lost = @ \/ Strange(drv, x.miso)]
          /\ kept' = IF drv.stage = "resp" /\ x.miso = 5 THEN [kept EXCEPT ![drv.lba] = drv.val] ELSE kept

(* IoDevice::reset; the image keeps what was written, heard of or not. *)
Reset ==
    /\ card' = [card EXCEPT !.idle = TRUE, !.app = FALSE, !.phase = Idle, !.streaming = FALSE, !.out = << >>]
    /\ drv' = [NoOp EXCEPT !.lost = drv.lost]
    /\ kept' = image
    /\ UNCHANGED image

Next == Start \/ Send \/ Poll \/ Reset

vars == << card, image, drv, kept >>

Spec == Init /\ [][Next]_vars

----------------------------------------------------------------------------
(* The driver and the image agree: the image is what the driver was told,   *)
(* but for the block under way; what a read hands over is the sector asked  *)
(* for, streamed ones in order; a command in the right place is never       *)
(* refused but for an address past the end; and every answer comes within   *)
(* the driver's patience, whatever an earlier exchange left in the card.    *)
SdTells ==
    /\ \A s \in DOMAIN image : image[s] # kept[s] =>
          drv.op \in {"write", "writes"} /\ drv.stage = "resp" /\ s = drv.lba /\ image[s] = drv.val
    /\ drv.stage = "crc" /\ drv.op \in {"read", "stream"} => drv.got = image[drv.lba]
    /\ ~drv.lost
    /\ drv.polls < 3
=============================================================================
