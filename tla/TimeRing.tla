------------------------------ MODULE TimeRing ------------------------------
(***************************************************************************)
(* Going back in time (c64-bridge ring.rs, hwlog.rs, the transport verbs   *)
(* of ue2emu monitor/ring.rs).  TRX64's checkpoint ring takes an anchor of *)
(* the C64 at frame ends; UE2's own memories (cartridge, REU, EEPROM) are  *)
(* too large for that and go into one log of writes, old and new byte.  An *)
(* anchor holds a mark in the log, and standing on an anchor means seeking *)
(* the log to its mark.  Releasing the C64 there cuts the future off.      *)
(*                                                                         *)
(* The checkpoint ring itself is TRX64's: an ordered list of anchors, the  *)
(* oldest that is not pinned evicted when it is full.                      *)
(***************************************************************************)
EXTENDS Integers, Sequences, SequencesExt, FiniteSets

CONSTANTS
    Addr, Byte,   \* UE2's memories
    Cap,          \* cap of the log: writes it holds
    MaxEntries,   \* the checkpoint ring's entry cap
    SweepEvery,   \* SWEEP_EVERY: anchors between two sweeps
    MaxOps        \* bound: operations in a behaviour

VARIABLES
    mem,    \* the memories
    log,    \* State: recs, start, pos, id, cuts; history: high, the highest head of this log
    ring,   \* Ring: anchors, cursor, since_sweep, entry cap; history: torn, how many anchors were taken
    file,   \* a .c64rering on the host
    ops     \* history: operations so far

vars == << mem, log, ring, file, ops >>

Head0 == 0     \* the cursor at the head: no anchor

----------------------------------------------------------------------------
(* The write log                                                            *)

Top(l) == l.start + Len(l.recs)

NewLog(id) == [recs |-> << >>, start |-> 0, pos |-> 0, id |-> id, cuts |-> << >>, high |-> 0]

(* note: the oldest record goes where the cap is reached. *)
Note(l, at, old, new) ==
    LET recs == Append(l.recs, [at |-> at, old |-> old, new |-> new])
        over == IF Len(recs) > Cap THEN 1 ELSE 0
        top  == Top(l) + 1
    IN  [l EXCEPT !.recs = SubSeq(recs, 1 + over, Len(recs)), !.start = @ + over, !.pos = top,
                  !.high = IF top > @ THEN top ELSE @]

(* Mutant: a release is forgotten once the log has grown again. *)
UncoveredNoCuts(l, a) == a.id # l.id \/ a.seq < l.start \/ a.seq > Top(l)

(* uncovered: another log, older than the log, or in a future a release cut.  *)
Uncovered(l, a) ==
    \/ a.id # l.id
    \/ a.seq < l.start
    \/ a.seq > Top(l)
    \/ \E i \in a.cuts + 1 .. Len(l.cuts) : a.seq > l.cuts[i]

(* seek moves where the log covers both ends. *)
Reaches(l, a) == ~Uncovered(l, a) /\ l.pos >= l.start

(* The old bytes back, newest first, or the new ones forward. *)
Put(m, l, a) ==
    LET rec(i) == l.recs[i - l.start]
        back   == [i \in 1 .. l.pos - a.seq |-> rec(l.pos + 1 - i)]
        on     == [i \in 1 .. a.seq - l.pos |-> rec(l.pos + i)]
    IN  IF a.seq < l.pos
        THEN FoldLeft(LAMBDA n, r : [n EXCEPT ![r.at] = r.old], m, back)
        ELSE FoldLeft(LAMBDA n, r : [n EXCEPT ![r.at] = r.new], m, on)

(* cut: the records after where the memories stand go; in a torn log that was *)
(* trimmed past it the count wraps and nothing goes.                          *)
Cut(l) == [l EXCEPT !.recs = IF l.pos < l.start THEN @ ELSE SubSeq(@, 1, l.pos - l.start), !.cuts = Append(@, l.pos)]

(* trim_to *)
Trimmed(l, seq) ==
    LET n == IF seq <= l.start THEN 0 ELSE IF seq - l.start < Len(l.recs) THEN seq - l.start ELSE Len(l.recs)
    IN  [l EXCEPT !.recs = SubSeq(@, n + 1, Len(@)), !.start = @ + n]

----------------------------------------------------------------------------
(* The checkpoint ring (TRX64's)                                            *)

Numbers(as) == { as[i].n : i \in DOMAIN as }
Find(as, n) == CHOOSE i \in DOMAIN as : as[i].n = n

(* The oldest that is not pinned goes, *)
EvictedOne(as, max) ==
    LET free == { i \in DOMAIN as : ~as[i].pinned }
    IN  IF Len(as) <= max \/ free = {} THEN as
        ELSE RemoveAt(as, CHOOSE i \in free : \A j \in free : i <= j)

(* until the rest fits. *)
Evicted(as, max) == FoldLeft(LAMBDA rest, a : EvictedOne(rest, max), as, as)

----------------------------------------------------------------------------
(* The C64 runs                                                             *)

Op == ops < MaxOps /\ ops' = ops + 1

Runs == ring.cursor = Head0

(* A write of the C64 that changes a byte; unchanged ones are not logged. *)
Write ==
    /\ Op /\ Runs
    /\ \E a \in Addr, b \in Byte :
           b # mem[a] /\ mem' = [mem EXCEPT ![a] = b] /\ log' = Note(log, a, mem[a], b)
    /\ UNCHANGED << ring, file >>

(* sweep: nothing before the oldest anchor still there is wanted. *)
Swept(r, l) ==
    LET wanted == { r.anchors[i].seq : i \in { j \in DOMAIN r.anchors : r.anchors[j].side } }
    IN  IF wanted = {} THEN Trimmed(l, Top(l)) ELSE Trimmed(l, CHOOSE s \in wanted : \A t \in wanted : s <= t)

(* ring_frame: an anchor, marked in the log; the sweep when it is due. *)
Frame ==
    /\ Op /\ Runs
    /\ LET anchor == [n |-> ring.taken + 1, id |-> log.id, seq |-> Top(log), cuts |-> Len(log.cuts), pinned |-> FALSE,
                      side |-> TRUE, mem |-> mem, lost |-> FALSE]
           r      == [ring EXCEPT !.anchors = Evicted(Append(@, anchor), ring.max), !.taken = @ + 1]
           due    == ring.since + 1 >= SweepEvery
       IN  /\ ring' = [r EXCEPT !.since = IF due THEN 0 ELSE @ + 1]
           /\ log' = IF due THEN Swept(r, log) ELSE log
    /\ UNCHANGED << mem, file >>

(* ring_discard: a reset replaces the machine the anchors describe. *)
Discard ==
    /\ Op
    /\ ring' = [ring EXCEPT !.anchors = << >>, !.cursor = Head0, !.torn = FALSE]
    /\ log' = NewLog(log.id + 1)
    /\ UNCHANGED << mem, file >>

----------------------------------------------------------------------------
(* The transport                                                            *)

(* ring_goto: the memories follow where the log covers the anchor; the C64    *)
(* stands on it either way.                                                   *)
Went(a, r) ==
    /\ mem' = IF Reaches(log, a) THEN Put(mem, log, a) ELSE mem
    /\ log' = IF Reaches(log, a) THEN [log EXCEPT !.pos = a.seq] ELSE log
    /\ ring' = [r EXCEPT !.cursor = a.n]

Goto ==
    /\ Op
    /\ \E i \in DOMAIN ring.anchors : Went(ring.anchors[i], ring)
    /\ UNCHANGED file

(* ring_release: the anchors after this one go, pinned ones stay.  What TRX64 *)
(* drops when the anchor itself was evicted is not known here.                *)
Release ==
    /\ Op /\ ~Runs
    /\ LET later(a) == a.n > ring.cursor /\ ~a.pinned
       IN  \/ ring' = [ring EXCEPT !.cursor = Head0, !.anchors = SelectSeq(@, LAMBDA a : ~later(a))]
           \/ /\ ring.cursor \notin Numbers(ring.anchors)
              /\ ring' = [ring EXCEPT !.cursor = Head0]
    /\ log' = Cut(log)
    /\ UNCHANGED << mem, file >>

(* mark and unmark: the anchor the transport stands on, the newest at the head. *)
Mark ==
    /\ Op /\ ring.anchors # << >>
    /\ Runs \/ ring.cursor \in Numbers(ring.anchors)
    /\ LET i == IF Runs THEN Len(ring.anchors) ELSE Find(ring.anchors, ring.cursor)
       IN  ring' = [ring EXCEPT !.anchors[i].pinned = TRUE]
    /\ UNCHANGED << mem, log, file >>

Unmark ==
    /\ Op
    /\ \E i \in DOMAIN ring.anchors : ring.anchors[i].pinned /\ ring' = [ring EXCEPT !.anchors[i].pinned = FALSE]
    /\ UNCHANGED << mem, log, file >>

(* cadence and window: a new entry cap, also while the C64 stands. *)
Retune ==
    /\ Op
    /\ \E max \in 1 .. MaxEntries :
           max # ring.max /\ ring' = [ring EXCEPT !.max = max, !.anchors = Evicted(@, max)]
    /\ UNCHANGED << mem, log, file >>

----------------------------------------------------------------------------
(* Files                                                                    *)

(* ringdump *)
Dump == Op /\ file' = [saved |-> TRUE, anchors |-> ring.anchors] /\ UNCHANGED << mem, log, ring >>

(* ringload: the anchors of the file replace the ring's; those taken from     *)
(* this log reach it.  The C64 then stands on the file's newest.  A file      *)
(* without anchors lets go of the C64 without a cut: the log is torn where    *)
(* the C64 did not stand at the head.                                         *)
Load ==
    /\ Op /\ file.saved
    /\ LET as == [i \in DOMAIN file.anchors |-> [file.anchors[i] EXCEPT !.side = file.anchors[i].id = log.id,
                                                                     !.lost = Uncovered(log, file.anchors[i])]]
           r  == [ring EXCEPT !.anchors = as, !.cursor = Head0, !.max = MaxEntries]
       IN  IF as = << >>
           THEN ring' = [r EXCEPT !.torn = @ \/ log.pos < Top(log)] /\ UNCHANGED << mem, log >>
           ELSE Went(Last(as), r)
    /\ UNCHANGED file

----------------------------------------------------------------------------
Init ==
    /\ mem = [a \in Addr |-> CHOOSE b \in Byte : TRUE]
    /\ log = NewLog(0)
    /\ ring = [anchors |-> << >>, cursor |-> Head0, since |-> 0, max |-> MaxEntries, taken |-> 0, torn |-> FALSE]
    /\ file = [saved |-> FALSE, anchors |-> << >>]
    /\ ops = 0

Next == \/ Write \/ Frame \/ Discard \/ Goto \/ Release \/ Mark \/ Unmark \/ Retune \/ Dump \/ Load

Spec == Init /\ [][Next]_vars

----------------------------------------------------------------------------
(* Properties                                                               *)

(* A C64 that stands on an anchor the log covers has the memories the anchor  *)
(* was taken with, by any way there: back, forward, over releases that cut    *)
(* the future, over marks that survived them, over a full log, a file.  Not   *)
(* where the log was torn: see Load.                                          *)
GoneBackIsExact ==
    \A i \in DOMAIN ring.anchors :
        ring.cursor = ring.anchors[i].n /\ ~Uncovered(log, ring.anchors[i]) /\ ~ring.torn => mem = ring.anchors[i].mem

(* An anchor in the ring can be gone back to: of this log, not behind a cut,  *)
(* it is out of reach only after more writes than the log holds.              *)
NothingForgotten ==
    \A i \in DOMAIN ring.anchors :
        LET a == ring.anchors[i]
        IN  a.id = log.id /\ a.seq < log.start => a.lost \/ log.high - a.seq > Cap

(* An anchor keeps its promise: it can be gone back to, and it is the past.   *)
AnchorsHold == GoneBackIsExact /\ NothingForgotten
=============================================================================
