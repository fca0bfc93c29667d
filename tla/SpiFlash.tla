------------------------------ MODULE SpiFlash ------------------------------
(***************************************************************************)
(* The SPI flash (devices/flash.rs): the controller's chip select, the NOR *)
(* chip behind it and the image file its array is written back to.         *)
(*                                                                         *)
(* The array has Sectors sectors of two pages of two bytes; an address     *)
(* byte spans the whole array and a byte is 0 or Ones (the erased 0xFF),   *)
(* so AND is the smaller of the two.  The 3-byte addresses are one byte    *)
(* here and the 4-byte forms two.  A firmware frame is any sequence of     *)
(* bytes.                                                                  *)
(***************************************************************************)
EXTENDS Naturals, Sequences

CONSTANTS
    Opcode,        \* the opcodes the firmware sends, among those below and "other"
    Sectors,
    MaxFrame,      \* bytes of a frame
    MaxFlashOps    \* bound of the run: accesses, write-backs and restarts

VARIABLE flash    \* the device, its image, and what the bytes of the wire mean (history)

PageSize   == 2
SectorSize == 4
Size == Sectors * SectorSize
Ones == Size - 1
Bits == {0, Ones}
Cell == 0 .. Size - 1
And(a, b) == IF a < b THEN a ELSE b
SectorOf(a) == a \div SectorSize

AddrLen(op) ==
    IF op \in {"READ", "FAST_READ", "PP", "SE"} THEN 1 ELSE IF op \in {"READ4", "PP4"} THEN 2 ELSE 0

EraseSize(op) == IF op = "SE" THEN SectorSize ELSE IF op = "CE" THEN Size ELSE 0

Erased ==
    [mem |-> [a \in Cell |-> Ones], wel |-> FALSE, armed |-> FALSE, op |-> "", count |-> 0, addr |-> 0,
     buf |-> << Ones, Ones >>, miso |-> Ones]

StartFrame(x) == [x EXCEPT !.op = "", !.count = 0, !.addr = 0]

(* Byte k after the address. *)
Data(x, k, b) ==
    CASE x.op \in {"READ", "READ4"} \/ (x.op = "FAST_READ" /\ k > 0) ->
           [x EXCEPT !.miso = x.mem[x.addr], !.addr = (@ + 1) % Size]
      [] x.op \in {"PP", "PP4"} ->
           [x EXCEPT !.miso = Ones,
                     !.buf = [i \in 1 .. PageSize |-> IF i - 1 = (x.addr + k) % PageSize THEN b
                                                      ELSE IF k = 0 THEN Ones ELSE @[i]]]
      [] OTHER -> [x EXCEPT !.miso = Ones]

Clocked(x, b) ==
    CASE x.op = "RDSR1" -> [x EXCEPT !.miso = IF x.wel THEN 1 ELSE 0]
      [] x.count < AddrLen(x.op) -> [x EXCEPT !.miso = Ones, !.addr = (@ * Size + b) % Size]
      [] OTHER -> Data(x, x.count - AddrLen(x.op), b)

Xfer(x, b) ==
    IF x.op = "" THEN [x EXCEPT !.op = b, !.miso = Ones] ELSE [Clocked(x, b) EXCEPT !.count = x.count + 1]

ProgramsAnyway(x) == x.op \in {"PP", "PP4"} /\ x.wel /\ x.count >= AddrLen(x.op)  \* a mutant: stale buffer

Programs(x) == x.op \in {"PP", "PP4"} /\ x.wel /\ x.count > AddrLen(x.op)

Erases(x) == EraseSize(x.op) > 0 /\ x.wel /\ x.count = AddrLen(x.op)

(* The bytes the frame that ends now changes. *)
Touched(x) ==
    {a \in Cell : \/ Programs(x) /\ a \div PageSize = x.addr \div PageSize
                  \/ Erases(x) /\ a \div EraseSize(x.op) = x.addr \div EraseSize(x.op)}

Executed(x, touched) ==
    [x EXCEPT !.mem = [a \in Cell |-> IF a \notin touched THEN @[a]
                                      ELSE IF Programs(x) THEN And(@[a], x.buf[(a % PageSize) + 1]) ELSE Ones],
              !.wel = IF x.op = "WREN" /\ x.count = 0 THEN TRUE
                      ELSE @ /\ touched = {} /\ ~(x.op = "WRDI" /\ x.count = 0) /\ ~(x.op = "RST" /\ x.count = 0 /\ x.armed),
              !.armed = x.op = "RSTEN" /\ x.count = 0,
              !.op = "", !.count = 0]

EndChip(x) == IF x.op = "" THEN x ELSE Executed(x, Touched(x))

----------------------------------------------------------------------------
(* The image file: sectors that changed are dirty until they are written.   *)

Modified(f, cells) ==
    IF cells = {} THEN f
    ELSE [f EXCEPT !.dirty = @ \cup {SectorOf(a) : a \in cells}, !.since = TRUE]

(* Image::flush writes the dirty sectors in order; the write at sector stop *)
(* fails (stop = Sectors: none does), and may have got some bytes out.      *)
Flushed(f, stop, torn) ==
    LET done == {s \in f.dirty : s < stop}
        hit(a) == SectorOf(a) \in done \/ (SectorOf(a) = stop /\ stop \in f.dirty /\ torn /\ a % SectorSize < PageSize)
    IN  [f EXCEPT !.file = [a \in Cell |-> IF hit(a) THEN f.chip.mem[a] ELSE @[a]],
                  !.dirty = @ \ done,
                  !.since = @ /\ f.dirty # done]

----------------------------------------------------------------------------
(* What the frames mean, from the bytes on the wire alone.                  *)

AddressOf(w) == w[1 + AddrLen(w[1])]
DataOf(w) == SubSeq(w, 2 + AddrLen(w[1]), Len(w))

(* The last byte sent for a cell of the page, or its old value. *)
Sent(w, old, a) ==
    LET ks == {k \in DOMAIN DataOf(w) : (AddressOf(w) + k - 1) % PageSize = a % PageSize}
    IN  IF ks = {} THEN old ELSE And(old, DataOf(w)[CHOOSE k \in ks : \A j \in ks : j <= k])

Means(r, w) ==
    LET alone == Len(w) = 1
    IN  CASE w = << >> -> r
          [] w[1] \in {"PP", "PP4"} /\ r.wel /\ Len(w) > 1 + AddrLen(w[1]) ->
               [r EXCEPT !.wel = FALSE, !.armed = FALSE,
                         !.mem = [a \in Cell |-> IF a \div PageSize # AddressOf(w) \div PageSize THEN @[a]
                                                 ELSE Sent(w, @[a], a)]]
          [] w[1] = "SE" /\ r.wel /\ Len(w) = 2 ->
               [r EXCEPT !.wel = FALSE, !.armed = FALSE,
                         !.mem = [a \in Cell |-> IF SectorOf(a) = SectorOf(w[2]) THEN Ones ELSE @[a]]]
          [] w[1] = "CE" /\ r.wel /\ alone -> [r EXCEPT !.wel = FALSE, !.armed = FALSE, !.mem = [a \in Cell |-> Ones]]
          [] w = << "WREN" >> -> [r EXCEPT !.wel = TRUE, !.armed = FALSE]
          [] w = << "WRDI" >> -> [r EXCEPT !.wel = FALSE, !.armed = FALSE]
          [] w = << "RSTEN" >> -> [r EXCEPT !.armed = TRUE]
          [] w = << "RST" >> -> [r EXCEPT !.wel = @ /\ ~r.armed, !.armed = FALSE]
          [] OTHER -> [r EXCEPT !.armed = FALSE]

(* What the last byte of w reads. *)
Answer(r, w) ==
    LET k == Len(w) - 2 - AddrLen(w[1])
    IN  CASE Len(w) = 1 -> Ones
          [] w[1] = "RDSR1" -> IF r.wel THEN 1 ELSE 0
          [] w[1] \in {"READ", "READ4"} /\ k >= 0 -> r.mem[(AddressOf(w) + k) % Size]
          [] w[1] = "FAST_READ" /\ k > 0 -> r.mem[(AddressOf(w) + k - 1) % Size]
          [] OTHER -> Ones

----------------------------------------------------------------------------

Init == flash = [chip |-> Erased, force |-> FALSE, level |-> TRUE, file |-> [a \in Cell |-> Ones], dirty |-> {},
                 since |-> FALSE, wire |-> << >>, ref |-> [mem |-> [a \in Cell |-> Ones], wel |-> FALSE, armed |-> FALSE],
                 want |-> Ones, ops |-> 0]

ForcedLow(f) == f.force /\ ~f.level

Clock(f, b) == [f EXCEPT !.chip = Xfer(@, b), !.wire = Append(@, b), !.want = Answer(f.ref, Append(f.wire, b))]

Open(f) == [f EXCEPT !.chip = StartFrame(@), !.wire = << >>]

EndFrame(f) ==
    [Modified(f, Touched(f.chip)) EXCEPT !.chip = EndChip(@), !.ref = Means(@, f.wire), !.wire = << >>]

(* An access to DATA; a read sends the erased byte. *)
Transfer(b) ==
    /\ Len(flash.wire) < MaxFrame
    /\ ~(flash.force /\ flash.level)
    /\ flash' = IF flash.force THEN Clock([flash EXCEPT !.ops = @ + 1], b)
                ELSE EndFrame(Clock(Open([flash EXCEPT !.ops = @ + 1]), b))

WriteCtrl(force, level) ==
    LET f == [flash EXCEPT !.force = force, !.level = level, !.ops = @ + 1]
    IN  /\ << force, level >> # << flash.force, flash.level >>
        /\ flash' = CASE ~ForcedLow(flash) /\ ForcedLow(f) -> Open(f)
                      [] ForcedLow(flash) /\ ~ForcedLow(f) -> EndFrame(f)
                      [] OTHER -> f

Reset == flash' = Open([flash EXCEPT !.force = FALSE, !.level = TRUE, !.ops = @ + 1])

(* The write-back is due FLUSH_DELAY after the oldest change. *)
Service(stop, torn) == flash.since /\ flash' = Flushed([flash EXCEPT !.ops = @ + 1], stop, torn)

(* One record of one store, whose page id is the byte 0: the page that      *)
(* carries it, else the first erased one.                                   *)
WriteSettings(v) ==
    LET pages(id) == {s \in 0 .. Sectors - 1 : flash.chip.mem[s * SectorSize] = id}
        first(ss) == CHOOSE s \in ss : \A t \in ss : s <= t
        at == SectorSize * first(IF pages(0) # {} THEN pages(0) ELSE pages(Ones))
        new == [flash.chip.mem EXCEPT ![at] = 0, ![at + 1] = v]
    IN  /\ new # flash.chip.mem
        /\ flash' = [Modified(flash, {at, at + 1}) EXCEPT !.chip.mem = new, !.ref.mem = [@ EXCEPT ![at] = 0, ![at + 1] = v],
                                                          !.ops = @ + 1]

(* The process ends, with the flush of Drop or killed, and starts again. *)
Restart(killed, stop, torn) ==
    LET f == IF killed THEN flash ELSE Flushed(flash, stop, torn)
        kept == ~killed /\ f.dirty = {}
    IN  flash' = [f EXCEPT !.chip = [Erased EXCEPT !.mem = f.file], !.force = FALSE, !.level = TRUE, !.dirty = {},
                           !.since = FALSE, !.wire = << >>, !.want = Ones, !.ops = @ + 1,
                           !.ref = [mem |-> IF kept THEN @.mem ELSE f.file, wel |-> FALSE, armed |-> FALSE]]

Next ==
    /\ flash.ops < MaxFlashOps
    /\ \/ flash.wire = << >> /\ \E op \in Opcode : Transfer(op)
       \/ flash.wire # << >> /\ \E b \in Bits : Transfer(b)
       \/ \E force, level \in BOOLEAN : WriteCtrl(force, level)
       \/ Reset
       \/ \E stop \in 0 .. Sectors, torn \in BOOLEAN : Service(stop, torn)
       \/ \E v \in Bits : WriteSettings(v)
       \/ \E killed, torn \in BOOLEAN, stop \in 0 .. Sectors : Restart(killed, stop, torn)

Spec == Init /\ [][Next]_flash

----------------------------------------------------------------------------
(* Only complete, enabled frames change the array, each by what its bytes   *)
(* mean, and every byte read is the array's (FramesMean); and the image     *)
(* loses no change: a sector whose file copy differs is dirty, a dirty      *)
(* sector has its write-back scheduled even after a failed one, and a       *)
(* machine that closed without a failed write comes up with its array.      *)
FramesMean ==
    /\ flash.chip.mem = flash.ref.mem
    /\ flash.chip.wel = flash.ref.wel
    /\ flash.chip.miso = flash.want

NoneUnsaved ==
    /\ \A a \in Cell : flash.file[a] # flash.chip.mem[a] => SectorOf(a) \in flash.dirty
    /\ flash.dirty # {} => flash.since

FlashKeeps == FramesMean /\ NoneUnsaved
=============================================================================
