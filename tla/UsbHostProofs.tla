--------------------------- MODULE UsbHostProofs ---------------------------
(***************************************************************************)
(* The USB host for every FIFO, every interval, time-out and number of data *)
(* transfers, and every order of reports, keys, commands and unplugs: no    *)
(* report is lost, keys stay in order, and the disk driver is told the      *)
(* truth.                                                                   *)
(***************************************************************************)
EXTENDS UsbHost, SequenceTheorems, FiniteSetTheorems, WellFoundedInduction, TLAPS

Word    == Pipe \cup {Attach}
Cmd     == [kind : {"read", "write", "sense"}, id : Nat]
Csw     == [kind : {"csw"}, ok : BOOLEAN]
Datum   == Int \cup Medium \cup Cmd \cup Csw \cup {Bytes} \cup [kind : {"data"}, value : Int]
Result  == {None, "ack", "data", "stall", "error", "aborted", "timeout"}
PipeRec == [command : BOOLEAN, paused : BOOLEAN, abort : BOOLEAN, to : Address \cup {None, "hub", "hub_ep1", "keyboard"},
            op : {None, "setup", "in", "out"}, data : Datum, since : Nat, started : Int, timeout : Nat, result : Result]
PortRec == [in : BOOLEAN, powered : BOOLEAN, enabled : BOOLEAN, change : BOOLEAN, address : Address \cup {None},
            medium : Medium]
Phase   == [at : {"command"}] \cup [at : {"status"}, csw : Csw]
           \cup [at : {"data_out"}, cmd : [kind : {"write"}, id : Nat], got : Int] \cup [at : {"data_in"}, data : Int, left : Int, csw : Csw]
Store   == [phase : Phase, sense : Int]
Kbd     == [report : Nat, queue : Seq(Nat), told : BOOLEAN]
Usb     == [link : {"held", "attaching", "attached", "resetting", "running"}, pipe : [Pipe -> PipeRec], fifo : Seq(Word),
            scanIn : Int, irq : BOOLEAN, ep0 : {"idle", "data_in", "stall"}, port : PortRec, store : Store, kbd : Kbd]
Media   == [Medium -> Int]
HubPc   == {"start", "boot", "poll", "setup", "data", "status", "act", "resume", "clear"}
HubRec  == [pc : HubPc, changed : BOOLEAN, child : Address \cup {None}]
DiskRec == [pc : {"idle", "cbw", "data", "csw"}, cmd : Cmd \cup {None}, to : Address \cup {None}, left : Int, data : Int,
            on : Medium \cup {None}, pulled : BOOLEAN, end : {None, "done", "failed", "broken"}]

(* The firmware's state: words for the input task, and a wait has an owner.  *)
Firmware ==
    /\ isr \in BOOLEAN /\ input \in Seq({1, 2, Attach}) /\ sem \in BOOLEAN
    /\ holder \in {None, "hub", "disk"} /\ waiting \in BOOLEAN /\ (waiting <=> holder # None)
    /\ hub \in HubRec /\ disk \in DiskRec /\ shown \in Nat
TypeOK == usb \in Usb /\ media \in Media /\ Firmware /\ spent \in Nat

----------------------------------------------------------------------------
(* Reports: what pipe n owes its task is on its way exactly once.            *)

Count(s, w) == Cardinality({ i \in DOMAIN s : s[i] = w })
Handling(h) == h.pc \in {"setup", "data", "status", "act", "resume"} \/ (h.pc = "poll" /\ h.changed)
Behind(in, sm, h, n) == Count(in, n) + (IF (n = 0 /\ sm) \/ (n = 1 /\ Handling(h)) THEN 1 ELSE 0)
Owes(u, n, w) == IF u.pipe[n].command /\ (n = 0 => w) /\ u.pipe[n].paused THEN 1 ELSE 0

Reports(u, in, sm, h, w) ==
    /\ \A n \in Pipe : Count(u.fifo, n) + Behind(in, sm, h, n) = Owes(u, n, w)
    /\ Active(u, 0) => w

(* The interrupt handler comes for every word, and the ring is never full.   *)
Rings(u, i) == Len(u.fifo) < FifoLen /\ (u.fifo # << >> => u.irq \/ i) /\ (i => u.fifo # << >>)

(* A scan is due while a pipe may be tried.                                  *)
Scheduled(u) ==
    u.link = "running" /\ ~FifoFull(u) /\ (\E n \in Pipe : Active(u, n)) => u.scanIn # Idle

(* The two automatic pipes.                                                  *)
Automatic(p, to) == p.command => p.to = to /\ p.op = "in" /\ p.timeout = 0 /\ p.abort = FALSE
Opened(u) == Automatic(u.pipe[1], "hub_ep1") /\ Automatic(u.pipe[2], "keyboard")

(* A start is over before anything is on a pipe, and there is one.           *)
Boots(u, in, h) ==
    /\ Count(u.fifo, Attach) + Count(in, Attach) = IF u.link = "attached" THEN 1 ELSE 0
    /\ u.link = "held" <=> h.pc = "start"
    /\ u.link # "running" => h.pc \in {"start", "boot"}
    /\ u.link \in {"held", "attaching"} => u.fifo = << >>
    /\ IF h.pc \in {"start", "boot"}
       THEN (\A n \in Pipe : ~u.pipe[n].command) /\ ~u.port.enabled /\ ~h.changed /\ h.child = None
       ELSE u.pipe[1].command /\ u.pipe[2].command

(* Reports of keys: the one on its way, then the unread ones.                *)
KeysKept(u, s) ==
    LET q == u.kbd.queue
        p == u.pipe[2]
    IN  /\ s <= u.kbd.report
        /\ \A i \in 1 .. Len(q) : s <= q[i] /\ q[i] <= u.kbd.report
        /\ \A i, j \in 1 .. Len(q) : i < j => q[i] < q[j]
        /\ q # << >> => q[Len(q)] = u.kbd.report
        /\ p.command /\ p.paused => /\ p.data \in Nat /\ s <= p.data /\ p.data <= u.kbd.report
                                    /\ \A i \in 1 .. Len(q) : p.data < q[i]
                                    /\ q = << >> => p.data = u.kbd.report

----------------------------------------------------------------------------
(* Pipe 0 belongs to the owner of the mutex, and its transfer is the one the *)
(* owner's stage needs.                                                      *)
Asks(d, p) ==
    /\ p.to = d.to
    /\ d.pc = "cbw"  => p.op = "out" /\ p.data = d.cmd
    /\ d.pc = "data" => IF d.cmd.kind = "write" THEN p.op = "out" /\ p.data = Bytes ELSE p.op = "in"
    /\ d.pc = "csw"  => p.op = "in"

Owned(u, w, d) ==
    /\ w = "hub" => u.pipe[0].to = "hub"
    /\ w = "disk" => d.pc # "idle" /\ u.pipe[0].command /\ (Active(u, 0) => Asks(d, u.pipe[0]))

Turns ==
    /\ holder = "hub" <=> hub.pc \in {"setup", "data", "status"}
    /\ hub.pc = "clear" => ~usb.pipe[1].paused /\ usb.scanIn # 0
    /\ hub.pc \in {"start", "boot"} => disk.pc = "idle"

(* A port whose change was reported is not enabled, until the driver acted.  *)
Noticed(u, h) == u.pipe[1].command /\ u.pipe[1].paused /\ h.pc # "resume" => u.port.change
Ports(u, h) ==
    /\ u.port.change => ~u.port.enabled
    /\ u.port.enabled => u.port.in /\ u.port.address = h.child /\ h.child # None

----------------------------------------------------------------------------
(* What a driver that ended a command was told.                              *)
Honest(d, m) ==
    d.end # None =>
        /\ d.end = "done" => d.on \in Medium /\ d.cmd \in Cmd /\ IF d.cmd.kind = "write" THEN m[d.on] = d.cmd.id ELSE d.data = m[d.on]
        /\ d.end = "broken" => d.pulled
        /\ d.end = "failed" => d.data = Error \/ d.pulled

(* The stick is where the driver's next transfer will find it.               *)
AtCommand(d, u) == u.store.phase.at = "command" /\ (d.cmd.kind = "sense" => u.store.sense = Error \/ d.pulled)
AtData(d, u, m) ==
    LET ph == u.store.phase
    IN  /\ u.port.address = d.to /\ d.on \in Medium
        /\ d.cmd.kind = "write" => /\ ph.at = "data_out" /\ ph.cmd = d.cmd /\ ph.got = Chunks - d.left
                                   /\ u.port.medium = d.on
        /\ d.cmd.kind # "write" => ph.at = "data_in" /\ ph.left = d.left
        /\ d.cmd.kind = "read"  => IF ph.csw.ok THEN ph.data = m[d.on] ELSE u.store.sense = Error
        /\ d.cmd.kind = "sense" => ph.data = Error \/ d.pulled
AtStatus(d, u, m) ==
    LET ph == u.store.phase
    IN  /\ u.port.address = d.to /\ d.on \in Medium /\ ph.at = "status"
        /\ d.cmd.kind = "write" => IF ph.csw.ok THEN m[d.on] = d.cmd.id ELSE u.store.sense = Error
        /\ d.cmd.kind = "read"  => IF ph.csw.ok THEN d.data = m[d.on] ELSE u.store.sense = Error
        /\ d.cmd.kind = "sense" => d.data = Error \/ d.pulled
InStep(d, u, m) ==
    /\ d.pc = "cbw"  => AtCommand(d, u)
    /\ d.pc = "data" => AtData(d, u, m)
    /\ d.pc = "csw"  => AtStatus(d, u, m)

(* Or it was pulled under the command, and waits for a new one.              *)
Lost(d, u) == u.store.phase.at = "command" /\ d.pulled /\ d.pc # "cbw"

Sync(d, u, m) ==
    /\ d.pc = "idle" => Honest(d, m) /\ (u.port.enabled => u.store.phase.at = "command")
    /\ d.pc # "idle" =>
         /\ d.cmd \in Cmd /\ d.to \in Address
         /\ ~d.pulled => u.port.enabled /\ u.port.address = d.to
         /\ u.port.enabled => InStep(d, u, m) \/ Lost(d, u)
         /\ d.pc = "cbw" => d.left = DataTransfers(d.cmd) /\ (d.cmd.kind # "sense" => d.on = None)
         /\ d.pc = "cbw" /\ d.cmd.kind = "sense" => d.on \in Medium
         /\ d.pc = "data" => d.left >= 1

(* The driver's command once it has heard of the transfer that is finished.  *)
HeardOf(d, u, w) == IF w = "disk" /\ u.pipe[0].paused THEN Heard(d, u.pipe[0]) ELSE d

(* What a scan keeps of the device, whatever the firmware is doing.          *)
Kept(u, m) ==
    /\ u \in Usb /\ m \in Media
    /\ Reports(u, input, sem, hub, waiting) /\ Rings(u, isr) /\ Opened(u) /\ Boots(u, input, hub) /\ KeysKept(u, shown)
    /\ Noticed(u, hub) /\ Ports(u, hub) /\ Owned(u, holder, disk)
    /\ HeardOf(disk, u, holder) \in DiskRec /\ Sync(HeardOf(disk, u, holder), u, m)

HostInv == TypeOK /\ Kept(usb, media) /\ Scheduled(usb) /\ Turns

----------------------------------------------------------------------------
(* Numbers, and counting in a sequence.                                      *)

LEMMA Sizes ==
    /\ FifoLen \in Nat /\ FifoLen > 1 /\ HubInterval \in Nat /\ KeyInterval \in Nat
    /\ HubInterval > 0 /\ KeyInterval > 0
    /\ BulkTimeout \in Nat /\ Chunks \in Nat /\ Chunks > 0 /\ QueueLimit \in Nat /\ QueueLimit > 0 /\ MaxEvents \in Nat
    /\ None \notin Address /\ "hub" \notin Address /\ "hub_ep1" \notin Address /\ "keyboard" \notin Address
    /\ Medium # {} /\ None \notin Medium
  <1>1. FifoLen \in Nat /\ FifoLen > 1 /\ HubInterval \in Nat \ {0} /\ KeyInterval \in Nat \ {0} /\ BulkTimeout \in Nat \ {0}
        /\ Chunks \in Nat \ {0} /\ QueueLimit \in Nat \ {0} /\ MaxEvents \in Nat
    BY UsbHostAssumption
  <1>2. \A a \in Address : a # "none" /\ a # "hub" /\ a # "hub_ep1" /\ a # "keyboard" BY UsbHostAssumption
  <1>3. Medium # {} /\ None \notin Medium BY UsbHostAssumption DEF None
  <1>4. None \notin Address /\ "hub" \notin Address /\ "hub_ep1" \notin Address /\ "keyboard" \notin Address BY <1>2 DEF None
  <1>5. HubInterval > 0 /\ KeyInterval > 0 /\ Chunks > 0 /\ QueueLimit > 0 BY <1>1
  <1>6. HubInterval \in Nat /\ KeyInterval \in Nat /\ BulkTimeout \in Nat /\ Chunks \in Nat /\ QueueLimit \in Nat BY <1>1
  <1>7. QED BY <1>1, <1>3, <1>4, <1>5, <1>6

(* A set of numbers has a least one: of the intervals up to its members, one *)
(* contains no other.                                                       *)
LEMMA LeastOf == ASSUME NEW S \in SUBSET Nat, S # {} PROVE Min(S) \in S /\ \A n \in S : Min(S) <= n
  <1> DEFINE Upto == {0 .. n : n \in S}
  <1> DEFINE R == StrictSubsetOrdering(Nat)
  <1>1. Upto \subseteq FiniteSubsetsOf(Nat) /\ Upto # {}
    <2>1. ASSUME NEW n \in S PROVE 0 .. n \in FiniteSubsetsOf(Nat) BY FS_Interval DEF FiniteSubsetsOf
    <2>2. QED BY <2>1
  <1>2. IsWellFoundedOn(R, FiniteSubsetsOf(Nat)) BY FS_StrictSubsetOrderingWellFounded
  <1>3. \E T \in Upto : \A U \in Upto : ~(<<U, T>> \in R)
    <2> HIDE DEF Upto, R
    <2>1. QED BY <1>1, <1>2, WFMin
  <1>4. PICK x \in S : \A y \in S : ~(<<0 .. y, 0 .. x>> \in R) BY <1>3
  <1>5. ASSUME NEW y \in S PROVE x <= y
    <2>1. SUFFICES ASSUME y < x PROVE FALSE OBVIOUS
    <2>2. 0 .. y \subseteq 0 .. x /\ x \in 0 .. x /\ x \notin 0 .. y BY <2>1
    <2>3. 0 .. y \in SUBSET Nat /\ 0 .. x \in SUBSET Nat OBVIOUS
    <2>4. 0 .. y # 0 .. x BY <2>2
    <2>5. <<0 .. y, 0 .. x>> \in R BY <2>2, <2>3, <2>4 DEF StrictSubsetOrdering
    <2>6. QED BY <1>4, <2>5
  <1>6. QED BY <1>5 DEF Min

LEMMA MinTwo == ASSUME NEW a \in Int, NEW b \in Int PROVE Min({a, b}) = IF a <= b THEN a ELSE b
  <1>1. \E x \in {a, b} : \A y \in {a, b} : x =< y OBVIOUS
  <1>2. Min({a, b}) \in {a, b} /\ \A y \in {a, b} : Min({a, b}) =< y BY <1>1 DEF Min
  <1>3. QED BY <1>2
LEMMA MaxTwo == ASSUME NEW a \in Int, NEW b \in Int PROVE Max({a, b}) = IF a >= b THEN a ELSE b
  <1>1. \E x \in {a, b} : \A y \in {a, b} : x >= y OBVIOUS
  <1>2. Max({a, b}) \in {a, b} /\ \A y \in {a, b} : Max({a, b}) >= y BY <1>1 DEF Max
  <1>3. QED BY <1>2

LEMMA CountEmpty == ASSUME NEW w PROVE Count(<< >>, w) = 0
  <1>1. { i \in DOMAIN << >> : << >>[i] = w } = {} OBVIOUS
  <1>2. QED BY <1>1, FS_EmptySet DEF Count
LEMMA CountType ==
  ASSUME NEW S, NEW s \in Seq(S), NEW w
  PROVE  IsFiniteSet({ i \in DOMAIN s : s[i] = w }) /\ Count(s, w) \in Nat
  <1>1. DOMAIN s = 1 .. Len(s) /\ Len(s) \in Nat OBVIOUS
  <1>2. IsFiniteSet(1 .. Len(s)) BY <1>1, FS_Interval
  <1>3. { i \in DOMAIN s : s[i] = w } \in SUBSET (1 .. Len(s)) BY <1>1
  <1>4. IsFiniteSet({ i \in DOMAIN s : s[i] = w }) BY <1>2, <1>3, FS_Subset
  <1>5. QED BY <1>4, FS_CardinalityType DEF Count
LEMMA CountAppend ==
  ASSUME NEW S, NEW s \in Seq(S), NEW x \in S, NEW w
  PROVE  Count(Append(s, x), w) = Count(s, w) + (IF x = w THEN 1 ELSE 0)
  <1> DEFINE A == { i \in DOMAIN s : s[i] = w }
  <1> DEFINE t == Append(s, x)
  <1> DEFINE B == { i \in DOMAIN t : t[i] = w }
  <1>1. IsFiniteSet(A) /\ Count(s, w) \in Nat BY CountType
  <1>2. DOMAIN t = 1 .. Len(s) + 1 /\ DOMAIN s = 1 .. Len(s) /\ t[Len(s) + 1] = x /\ \A i \in 1 .. Len(s) : t[i] = s[i] /\ Len(s) \in Nat
    OBVIOUS
  <1>3. Len(s) + 1 \notin A BY <1>2
  <1>4. CASE x = w
    <2>1. B = A \cup {Len(s) + 1} BY <1>2, <1>4
    <2>2. Cardinality(B) = Cardinality(A) + 1 BY <1>1, <1>3, <2>1, FS_AddElement
    <2>3. QED BY <2>2, <1>4 DEF Count
  <1>5. CASE x # w
    <2>1. B = A BY <1>2, <1>5
    <2>2. Count(t, w) = Count(s, w) BY <2>1 DEF Count
    <2>3. QED BY <2>2, <1>1, <1>5
  <1>6. QED BY <1>4, <1>5
LEMMA CountTail ==
  ASSUME NEW S, NEW s \in Seq(S), s # << >>, NEW w
  PROVE  Count(s, w) = Count(Tail(s), w) + (IF Head(s) = w THEN 1 ELSE 0)
  <1> DEFINE A == { i \in DOMAIN s : s[i] = w }
  <1> DEFINE t == Tail(s)
  <1> DEFINE B == { i \in DOMAIN t : t[i] = w }
  <1> DEFINE f == [i \in B |-> i + 1]
  <1>1. IsFiniteSet(A) /\ Count(s, w) \in Nat /\ t \in Seq(S) BY CountType
  <1>2. IsFiniteSet(B) /\ Count(t, w) \in Nat BY <1>1, CountType
  <1>3. /\ Len(s) \in Nat /\ Len(s) > 0 /\ DOMAIN s = 1 .. Len(s) /\ Len(t) = Len(s) - 1 /\ DOMAIN t = 1 .. Len(s) - 1
        /\ \A i \in 1 .. Len(s) - 1 : t[i] = s[i + 1]
        /\ Head(s) = s[1]
    OBVIOUS
  <1>4. f \in Bijection(B, A \ {1})
    <2>1. f \in [B -> A \ {1}] BY <1>3
    <2>2. \A i, j \in B : f[i] = f[j] => i = j BY <1>3
    <2>3. \A k \in A \ {1} : \E i \in B : f[i] = k
      <3> SUFFICES ASSUME NEW k \in A \ {1} PROVE \E i \in B : f[i] = k
        OBVIOUS
      <3>1. k \in 1 .. Len(s) /\ k # 1 /\ s[k] = w BY <1>3
      <3>2. k - 1 \in 1 .. Len(s) - 1 /\ (k - 1) + 1 = k BY <3>1, <1>3
      <3>3. t[k - 1] = s[k] BY <3>2, <1>3
      <3>4. k - 1 \in B BY <3>1, <3>2, <3>3, <1>3
      <3>5. QED BY <3>2, <3>4
    <2> HIDE DEF f, A, B
    <2>4. DOMAIN f = B BY <2>1
    <2>5. IsInjective(f) BY <2>2, <2>4 DEF IsInjective
    <2>6. QED BY <2>1, <2>3, <2>5 DEF Bijection, Injection, Surjection
  <1>5. Cardinality(A \ {1}) = Cardinality(B) BY <1>2, <1>4, FS_Bijection DEF ExistsBijection
  <1>6. Cardinality(A \ {1}) = IF 1 \in A THEN Cardinality(A) - 1 ELSE Cardinality(A) BY <1>1, FS_RemoveElement
  <1>7. 1 \in A <=> Head(s) = w BY <1>3
  <1>8. Count(s, w) = Cardinality(A) /\ Count(t, w) = Cardinality(B) BY DEF Count
  <1> HIDE DEF A, B, t
  <1>9. QED BY <1>1, <1>2, <1>5, <1>6, <1>7, <1>8 DEF t

----------------------------------------------------------------------------
(* The parts an operation leaves alone.                                      *)

SameDevices(u, v) == v.ep0 = u.ep0 /\ v.port = u.port /\ v.store = u.store /\ v.kbd = u.kbd
(* A pipe's request, as opposed to what became of it.                        *)
SameRequest(p, q) == q.command = p.command /\ q.abort = p.abort /\ q.to = p.to /\ q.op = p.op /\ q.timeout = p.timeout

LEMMA IntervalFacts == ASSUME NEW n \in Pipe PROVE Interval(n) \in Nat
  <1>1. n = 0 \/ n = 1 \/ n = 2 BY DEF Pipe
  <1>2. Interval(0) = 0 /\ Interval(1) = HubInterval /\ Interval(2) = KeyInterval BY DEF Interval
  <1>3. HubInterval \in Nat /\ KeyInterval \in Nat BY Sizes
  <1>4. CASE n = 0 BY <1>2, <1>4
  <1>5. CASE n = 1 BY <1>2, <1>3, <1>5
  <1>6. CASE n = 2 BY <1>2, <1>3, <1>6
  <1>7. QED BY <1>1, <1>4, <1>5, <1>6

LEMMA WaitPositive == ASSUME NEW u \in Usb, NEW n \in Pipe PROVE Wait(u, n) \in Nat /\ Wait(u, n) >= 1
  <1>1. Interval(n) \in Nat BY IntervalFacts
  <1>2. u.pipe[n].since \in Nat BY DEF Usb, PipeRec
  <1>3. Max({Interval(n), 1}) \in Nat BY <1>1, MaxTwo
  <1>4. Max({Interval(n), 1}) - u.pipe[n].since \in Int BY <1>2, <1>3
  <1> DEFINE w == Max({Interval(n), 1}) - u.pipe[n].since
  <1>5. Wait(u, n) = Max({1, w}) BY DEF Wait
  <1>6. Max({1, w}) = IF 1 >= w THEN 1 ELSE w BY <1>4, MaxTwo
  <1> HIDE DEF w
  <1>7. w \in Int BY <1>4 DEF w
  <1>8. QED BY <1>5, <1>6, <1>7

LEMMA RescheduleFacts ==
  ASSUME NEW u \in Usb, NEW v, v = Reschedule(u)
  PROVE  /\ v \in Usb /\ v.link = u.link /\ v.pipe = u.pipe /\ v.fifo = u.fifo /\ v.irq = u.irq /\ SameDevices(u, v)
         /\ v.scanIn # 0 /\ Scheduled(v)
  <1> DEFINE due == { n \in Pipe : Active(u, n) }
  <1> DEFINE waits == { Wait(u, n) : n \in due }
  <1> DEFINE next == IF u.link # "running" \/ FifoFull(u) \/ due = {} THEN Idle ELSE Min(waits)
  <1>1. v = [u EXCEPT !.scanIn = next] BY DEF Reschedule
  <1>2. \A n \in due : Wait(u, n) \in Nat /\ Wait(u, n) >= 1 BY WaitPositive
  <1>3. waits \in SUBSET Nat /\ \A w \in waits : w >= 1 BY <1>2
  <1>4. due # {} => Min(waits) \in waits
    <2>1. due # {} => waits # {} OBVIOUS
    <2> HIDE DEF waits
    <2>2. QED BY <2>1, <1>3, LeastOf
  <1>5. due # {} => Min(waits) \in Int /\ Min(waits) >= 1 BY <1>3, <1>4
  <1>6. next \in Int /\ next # 0 /\ (next = Idle <=> u.link # "running" \/ FifoFull(u) \/ due = {})
    <2> HIDE DEF due, waits
    <2>1. QED BY <1>5 DEF Idle
  <1>7. due # {} <=> \E n \in Pipe : Active(u, n) OBVIOUS
  <1> HIDE DEF next, due
  <1>8. v \in Usb /\ v.link = u.link /\ v.pipe = u.pipe /\ v.fifo = u.fifo /\ v.irq = u.irq /\ SameDevices(u, v) /\ v.scanIn = next
    BY <1>1, <1>6 DEF Usb, SameDevices
  <1>9. (FifoFull(v) <=> FifoFull(u)) /\ \A n \in Pipe : Active(v, n) <=> Active(u, n) BY <1>8 DEF FifoFull, Active
  <1>10. Scheduled(v) BY <1>6, <1>7, <1>8, <1>9 DEF Scheduled
  <1>11. QED BY <1>6, <1>8, <1>10

LEMMA PushFacts ==
  ASSUME NEW u \in Usb, NEW w \in Word, ~FifoFull(u), NEW v, v = Push(u, w)
  PROVE  /\ v \in Usb /\ v.link = u.link /\ v.pipe = u.pipe /\ v.scanIn = u.scanIn /\ v.irq = TRUE /\ SameDevices(u, v)
         /\ v.fifo = Append(u.fifo, w)
  <1>1. v = [u EXCEPT !.fifo = Append(u.fifo, w), !.irq = TRUE] BY DEF Push
  <1>2. u.fifo \in Seq(Word) BY DEF Usb
  <1>3. Append(u.fifo, w) \in Seq(Word) BY <1>2
  <1>4. QED BY <1>1, <1>3 DEF Usb, SameDevices

(* The report of pipe n has been made.                                       *)
Told(u, n, result, data, v) ==
    /\ v \in Usb /\ v.link = u.link /\ v.scanIn = u.scanIn /\ v.irq = TRUE /\ SameDevices(u, v)
    /\ v.fifo = Append(u.fifo, n)
    /\ \A q \in Pipe : q # n => v.pipe[q] = u.pipe[q]
    /\ SameRequest(u.pipe[n], v.pipe[n]) /\ v.pipe[n].paused = TRUE /\ v.pipe[n].result = result /\ v.pipe[n].data = data

LEMMA ReportedFacts ==
  ASSUME NEW u \in Usb, NEW n \in Pipe, NEW result \in Result, NEW data \in Datum, ~FifoFull(u)
  PROVE  Told(u, n, result, data, Reported(u, n, result, data))
  <1> DEFINE v == Reported(u, n, result, data)
  <1> DEFINE t == [u EXCEPT !.pipe[n].result = result, !.pipe[n].data = data, !.pipe[n].paused = TRUE]
  <1> DEFINE p == [u.pipe[n] EXCEPT !.result = result, !.data = data, !.paused = TRUE]
  <1>1. u.pipe \in [Pipe -> PipeRec] /\ u.pipe[n] \in PipeRec BY DEF Usb
  <1>2. p \in PipeRec /\ SameRequest(u.pipe[n], p) /\ p.paused = TRUE /\ p.result = result /\ p.data = data
    BY <1>1 DEF PipeRec, SameRequest
  <1>3. t = [u EXCEPT !.pipe = [u.pipe EXCEPT ![n] = p]] BY <1>1 DEF Usb, PipeRec
  <1>4. [u.pipe EXCEPT ![n] = p] \in [Pipe -> PipeRec] BY <1>1, <1>2
  <1> HIDE DEF p
  <1>5. t \in Usb /\ t.link = u.link /\ t.scanIn = u.scanIn /\ SameDevices(u, t) /\ t.fifo = u.fifo /\ t.pipe = [u.pipe EXCEPT ![n] = p]
    BY <1>3, <1>4 DEF Usb, SameDevices
  <1>6. n \in Word BY DEF Word
  <1>7. v = Push(t, n) BY DEF Reported
  <1> HIDE DEF t, v
  <1>8. ~FifoFull(t) BY <1>5 DEF FifoFull
  <1>9. /\ v \in Usb /\ v.link = t.link /\ v.pipe = t.pipe /\ v.scanIn = t.scanIn /\ v.irq = TRUE /\ SameDevices(t, v)
        /\ v.fifo = Append(t.fifo, n)
    <2>1. t \in Usb BY <1>5
    <2>2. QED BY <2>1, <1>6, <1>7, <1>8, PushFacts, ZenonT(40)
  <1>10. v.pipe[n] = p /\ \A q \in Pipe : q # n => v.pipe[q] = u.pipe[q] BY <1>1, <1>5, <1>9
  <1>11. Told(u, n, result, data, v) BY <1>2, <1>5, <1>9, <1>10 DEF SameDevices, Told
  <1>12. QED BY <1>11 DEF v

(* An attempt begins: the pipe's clocks.                                     *)
LEMMA StampedFacts ==
  ASSUME NEW u \in Usb, NEW n \in Pipe,
         NEW v, v = Stamped(u, n)
  PROVE  /\ v \in Usb /\ v.link = u.link /\ v.scanIn = u.scanIn /\ v.irq = u.irq /\ SameDevices(u, v) /\ v.fifo = u.fifo
         /\ \A q \in Pipe : /\ SameRequest(u.pipe[q], v.pipe[q]) /\ v.pipe[q].paused = u.pipe[q].paused
                            /\ v.pipe[q].data = u.pipe[q].data /\ v.pipe[q].result = u.pipe[q].result
  <1> DEFINE s == IF u.pipe[n].started = Idle THEN 0 ELSE u.pipe[n].started
  <1> DEFINE p == [u.pipe[n] EXCEPT !.since = 0, !.started = s]
  <1>1. u.pipe \in [Pipe -> PipeRec] /\ u.pipe[n] \in PipeRec BY DEF Usb
  <1>2. s \in Int
    <2>1. u.pipe[n].started \in Int BY <1>1 DEF PipeRec
    <2>2. QED BY <2>1
  <1>3. v = [u EXCEPT !.pipe = [u.pipe EXCEPT ![n] = p]] BY <1>1 DEF Usb, PipeRec, Stamped
  <1> HIDE DEF s
  <1>4. p \in PipeRec /\ SameRequest(u.pipe[n], p) /\ p.paused = u.pipe[n].paused /\ p.data = u.pipe[n].data /\ p.result = u.pipe[n].result
    BY <1>1, <1>2 DEF PipeRec, SameRequest
  <1> HIDE DEF p
  <1>5. [u.pipe EXCEPT ![n] = p] \in [Pipe -> PipeRec] BY <1>1, <1>4
  <1>6. /\ v \in Usb /\ v.link = u.link /\ v.scanIn = u.scanIn /\ v.irq = u.irq /\ SameDevices(u, v) /\ v.fifo = u.fifo
        /\ v.pipe = [u.pipe EXCEPT ![n] = p]
    BY <1>3, <1>5 DEF Usb, SameDevices
  <1>7. v.pipe[n] = p /\ \A q \in Pipe : q # n => v.pipe[q] = u.pipe[q] BY <1>1, <1>6
  <1>8. QED BY <1>4, <1>6, <1>7 DEF SameRequest

----------------------------------------------------------------------------
(* What a device's answer may be.                                            *)

(* Nothing but the devices behind the host changes.                          *)
SameHost(u, v) ==
    v.link = u.link /\ v.pipe = u.pipe /\ v.fifo = u.fifo /\ v.scanIn = u.scanIn /\ v.irq = u.irq /\ v.port = u.port

LEMMA ReplyFields ==
  ASSUME NEW u, NEW m, NEW reply, NEW data, NEW a, a = Reply(u, m, reply, data)
  PROVE  a.usb = u /\ a.media = m /\ a.reply = reply /\ a.data = data
  BY DEF Reply

LEMMA ControlFacts ==
  ASSUME NEW u \in Usb, NEW m, NEW op, NEW a \in Control(u, m, op)
  PROVE  /\ a.usb \in Usb /\ SameHost(u, a.usb) /\ a.usb.store = u.store /\ a.usb.kbd = u.kbd /\ a.media = m
         /\ a.reply \in {"ack", "data", "stall"} /\ a.data = NoData
  <1>1. \E e \in {"idle", "data_in", "stall"} :
          \/ a = Reply([u EXCEPT !.ep0 = e], m, "ack", NoData)
          \/ a = Reply([u EXCEPT !.ep0 = e], m, "stall", NoData)
          \/ a = Reply(u, m, "data", NoData)
    BY DEF Control
  <1>2. \A e \in {"idle", "data_in", "stall"} :
          LET v == [u EXCEPT !.ep0 = e] IN v \in Usb /\ SameHost(u, v) /\ v.store = u.store /\ v.kbd = u.kbd
    BY DEF Usb, SameHost
  <1>3. SameHost(u, u) BY DEF SameHost
  <1>4. PICK e \in {"idle", "data_in", "stall"} :
          \/ a = Reply([u EXCEPT !.ep0 = e], m, "ack", NoData)
          \/ a = Reply([u EXCEPT !.ep0 = e], m, "stall", NoData)
          \/ a = Reply(u, m, "data", NoData)
    BY <1>1
  <1> DEFINE w == [u EXCEPT !.ep0 = e]
  <1>5. w \in Usb /\ SameHost(u, w) /\ w.store = u.store /\ w.kbd = u.kbd BY <1>2
  <1>6. (a.usb = w \/ a.usb = u) /\ a.media = m /\ a.reply \in {"ack", "data", "stall"} /\ a.data = NoData
    <2> HIDE DEF w
    <2>1. CASE a = Reply(w, m, "ack", NoData) BY <2>1 DEF Reply
    <2>2. CASE a = Reply(w, m, "stall", NoData) BY <2>2 DEF Reply
    <2>3. CASE a = Reply(u, m, "data", NoData) BY <2>3 DEF Reply
    <2>4. QED BY <1>4, <2>1, <2>2, <2>3 DEF w
  <1> HIDE DEF w
  <1>7. QED BY <1>3, <1>5, <1>6

LEMMA HubStatusFacts ==
  ASSUME NEW u \in Usb, NEW m, NEW a \in HubStatus(u, m)
  PROVE  a.usb = u /\ a.media = m /\ a.data = NoData /\ a.reply = (IF u.port.change THEN "data" ELSE "nak")
  BY DEF HubStatus, Reply

LEMMA KeyReportFacts ==
  ASSUME NEW u \in Usb, NEW m, NEW a \in KeyReport(u, m)
  PROVE  /\ a.usb \in Usb /\ SameHost(u, a.usb) /\ a.usb.store = u.store /\ a.media = m
         /\ a.usb.kbd.report = u.kbd.report
         /\ IF u.kbd.queue # << >>
            THEN a.reply = "data" /\ a.data = Head(u.kbd.queue) /\ a.data \in Nat /\ a.usb.kbd.queue = Tail(u.kbd.queue)
            ELSE a.reply = "nak" /\ a.usb = u
  <1>1. u.kbd \in Kbd /\ u.kbd.queue \in Seq(Nat) BY DEF Usb, Kbd
  <1>2. CASE u.kbd.queue # << >>
    <2> DEFINE k == [u.kbd EXCEPT !.queue = Tail(u.kbd.queue)]
    <2>1. a = Reply([u EXCEPT !.kbd = k], m, "data", Head(u.kbd.queue)) BY <1>2, <1>1 DEF KeyReport, Usb, Kbd
    <2>2. Tail(u.kbd.queue) \in Seq(Nat) /\ Head(u.kbd.queue) \in Nat BY <1>1, <1>2
    <2>3. k \in Kbd /\ k.report = u.kbd.report /\ k.queue = Tail(u.kbd.queue) BY <1>1, <2>2 DEF Kbd
    <2> HIDE DEF k
    <2>4. a.usb = [u EXCEPT !.kbd = k] /\ a.media = m /\ a.reply = "data" /\ a.data = Head(u.kbd.queue) BY <2>1 DEF Reply
    <2>5. a.usb \in Usb /\ SameHost(u, a.usb) /\ a.usb.store = u.store /\ a.usb.kbd = k BY <2>3, <2>4 DEF Usb, SameHost
    <2>6. QED BY <1>2, <2>2, <2>3, <2>4, <2>5
  <1>3. CASE u.kbd.queue = << >>
    <2>1. a.usb = u /\ a.media = m /\ a.reply = "nak" BY <1>3 DEF KeyReport, Reply
    <2>2. QED BY <1>3, <2>1 DEF SameHost
  <1>4. QED BY <1>2, <1>3

(* A command against the medium.                                             *)
Finished(u, m, cmd, f) ==
    /\ f.csw \in Csw /\ f.data \in Int /\ f.sense \in Int /\ f.media \in Media
    /\ cmd.kind = "write" => IF f.csw.ok THEN f.media = [m EXCEPT ![u.port.medium] = cmd.id] ELSE f.media = m /\ f.sense = Error
    /\ cmd.kind = "read"  => f.media = m /\ IF f.csw.ok THEN f.data = m[u.port.medium] ELSE f.sense = Error
    /\ cmd.kind = "sense" => f.media = m /\ f.data = u.store.sense

LEMMA FinishFacts ==
  ASSUME NEW u \in Usb, NEW m \in Media, NEW cmd \in Cmd, NEW f \in Finish(u, m, cmd)
  PROVE  Finished(u, m, cmd, f)
  <1>1. u.port.medium \in Medium /\ u.store.sense \in Int BY DEF Usb, PortRec, Store
  <1>2. m[u.port.medium] \in Int /\ [m EXCEPT ![u.port.medium] = cmd.id] \in Media /\ cmd.id \in Int BY <1>1 DEF Media, Cmd
  <1>3. Error \in Int /\ NoData \in Int BY DEF Error, NoData
  <1>4. cmd.kind = "write" \/ cmd.kind = "read" \/ cmd.kind = "sense" BY DEF Cmd
  <1> DEFINE good == [kind |-> "csw", ok |-> TRUE]
  <1> DEFINE bad == [kind |-> "csw", ok |-> FALSE]
  <1>5. good \in Csw /\ good.ok /\ bad \in Csw /\ ~bad.ok BY DEF Csw
  <1>6. CASE cmd.kind = "write"
    <2>1. \/ f.csw = good /\ f.data = NoData /\ f.sense = u.store.sense /\ f.media = [m EXCEPT ![u.port.medium] = cmd.id]
          \/ f.csw = bad /\ f.data = NoData /\ f.sense = Error /\ f.media = m
      <3>1. \/ f = [csw |-> good, data |-> NoData, sense |-> u.store.sense, media |-> [m EXCEPT ![u.port.medium] = cmd.id]]
            \/ f = [csw |-> bad, data |-> NoData, sense |-> Error, media |-> m]
        BY <1>6 DEF Finish
      <3> HIDE DEF good, bad
      <3>2. QED BY <3>1
    <2> HIDE DEF good, bad
    <2>2. QED BY <1>1, <1>2, <1>3, <1>5, <1>6, <2>1 DEF Finished
  <1>7. CASE cmd.kind = "read"
    <2>1. \/ f.csw = good /\ f.data = m[u.port.medium] /\ f.sense = u.store.sense /\ f.media = m
          \/ f.csw = bad /\ f.data = NoData /\ f.sense = Error /\ f.media = m
      <3>1. \/ f = [csw |-> good, data |-> m[u.port.medium], sense |-> u.store.sense, media |-> m]
            \/ f = [csw |-> bad, data |-> NoData, sense |-> Error, media |-> m]
        BY <1>7 DEF Finish
      <3> HIDE DEF good, bad
      <3>2. QED BY <3>1
    <2> HIDE DEF good, bad
    <2>2. QED BY <1>1, <1>2, <1>3, <1>5, <1>7, <2>1 DEF Finished
  <1>8. CASE cmd.kind = "sense"
    <2>1. f.csw = good /\ f.data = u.store.sense /\ f.sense = NoData /\ f.media = m BY <1>8 DEF Finish
    <2> HIDE DEF good, bad
    <2>2. QED BY <1>1, <1>2, <1>3, <1>5, <1>8, <2>1 DEF Finished
  <1>9. QED BY <1>4, <1>6, <1>7, <1>8

(* The stick goes into another phase and keeps the rest.                     *)
LEMMA PhaseFacts ==
  ASSUME NEW u \in Usb, NEW ph \in Phase, NEW s \in Int
  PROVE  /\ Goes(u, ph, s) \in Usb /\ SameHost(u, Goes(u, ph, s)) /\ Goes(u, ph, s).kbd = u.kbd
         /\ Goes(u, ph, s).store.phase = ph /\ Goes(u, ph, s).store.sense = s
  <1> DEFINE st == [phase |-> ph, sense |-> s]
  <1> DEFINE v == Goes(u, ph, s)
  <1>1. st \in Store /\ st.phase = ph /\ st.sense = s BY DEF Store
  <1> HIDE DEF st
  <1>2. v = [u EXCEPT !.store = st] BY DEF st, Goes
  <1> HIDE DEF v
  <1>3. v \in Usb /\ SameHost(u, v) /\ v.kbd = u.kbd /\ v.store = st BY <1>1, <1>2 DEF Usb, SameHost
  <1>4. QED BY <1>1, <1>3 DEF v

LEMMA DataOutFacts ==
  ASSUME NEW ph \in Phase, ph.at = "data_out", NEW g \in Int
  PROVE  /\ ph.cmd \in Cmd /\ ph.cmd.kind = "write" /\ ph.got \in Int
         /\ [ph EXCEPT !.got = g] \in Phase /\ [ph EXCEPT !.got = g].at = "data_out"
         /\ [ph EXCEPT !.got = g].cmd = ph.cmd /\ [ph EXCEPT !.got = g].got = g
  <1>1. ph \in [at : {"data_out"}, cmd : [kind : {"write"}, id : Nat], got : Int] BY DEF Phase
  <1>2. ph.cmd \in Cmd /\ ph.cmd.kind = "write" /\ ph.got \in Int BY <1>1 DEF Cmd
  <1>3. /\ [ph EXCEPT !.got = g] \in [at : {"data_out"}, cmd : [kind : {"write"}, id : Nat], got : Int]
        /\ [ph EXCEPT !.got = g].at = "data_out" /\ [ph EXCEPT !.got = g].cmd = ph.cmd /\ [ph EXCEPT !.got = g].got = g
    BY <1>1
  <1>4. QED BY <1>2, <1>3 DEF Phase
LEMMA DataInFacts ==
  ASSUME NEW ph \in Phase, ph.at = "data_in", NEW l \in Int
  PROVE  /\ ph.csw \in Csw /\ ph.data \in Int /\ ph.left \in Int
         /\ [ph EXCEPT !.left = l] \in Phase /\ [ph EXCEPT !.left = l].at = "data_in" /\ [ph EXCEPT !.left = l].csw = ph.csw
         /\ [ph EXCEPT !.left = l].data = ph.data /\ [ph EXCEPT !.left = l].left = l
  <1>1. ph \in [at : {"data_in"}, data : Int, left : Int, csw : Csw] BY DEF Phase
  <1>2. ph.csw \in Csw /\ ph.data \in Int /\ ph.left \in Int BY <1>1
  <1>3. /\ [ph EXCEPT !.left = l] \in [at : {"data_in"}, data : Int, left : Int, csw : Csw]
        /\ [ph EXCEPT !.left = l].at = "data_in" /\ [ph EXCEPT !.left = l].csw = ph.csw
        /\ [ph EXCEPT !.left = l].data = ph.data /\ [ph EXCEPT !.left = l].left = l
    BY <1>1
  <1>4. QED BY <1>2, <1>3 DEF Phase

(* What an OUT packet may do to the stick.                                   *)
Taken(u, m, data, a) ==
    LET ph == u.store.phase
        qh == a.usb.store.phase
    IN
    \/ /\ ph.at = "command" /\ data.kind = "write" /\ a.reply = "ack" /\ a.data = u.port.medium /\ a.media = m
       /\ qh.at = "data_out" /\ qh.cmd = data /\ qh.got = 0
    \/ /\ ph.at = "command" /\ data.kind \in {"read", "sense"} /\ a.reply = "ack" /\ a.data = u.port.medium /\ a.media = m
       /\ qh.at = "data_in" /\ qh.left = DataTransfers(data)
       /\ data.kind = "read"  => IF qh.csw.ok THEN qh.data = m[u.port.medium] ELSE a.usb.store.sense = Error
       /\ data.kind = "sense" => qh.data = u.store.sense
    \/ /\ ph.at = "data_out" /\ ph.got + 1 < Chunks /\ a.reply = "ack" /\ a.media = m
       /\ qh.at = "data_out" /\ qh.cmd = ph.cmd /\ qh.got = ph.got + 1
    \/ /\ ph.at = "data_out" /\ ph.got + 1 = Chunks /\ a.reply = "ack" /\ qh.at = "status"
       /\ IF qh.csw.ok THEN a.media = [m EXCEPT ![u.port.medium] = ph.cmd.id] ELSE a.media = m /\ a.usb.store.sense = Error
    \/ /\ ~(ph.at = "command" /\ data.kind \in {"write", "read", "sense"})
       /\ ~(ph.at = "data_out" /\ ph.got + 1 <= Chunks)
       /\ a.reply = "stall" /\ a.usb = u /\ a.media = m

StoreSame(u, a) ==
    /\ a.usb \in Usb /\ SameHost(u, a.usb) /\ a.usb.kbd = u.kbd /\ a.media \in Media /\ a.data \in Datum

LEMMA StoreOutputFacts ==
  ASSUME NEW u \in Usb, NEW m \in Media, NEW data \in Cmd \cup {Bytes}, NEW a \in StoreOutput(u, m, data)
  PROVE  StoreSame(u, a) /\ Taken(u, m, data, a)
  <1> DEFINE ph == u.store.phase
  <1> DEFINE s == u.store.sense
  <1> DEFINE md == u.port.medium
  <1>1. ph \in Phase /\ s \in Int /\ md \in Medium BY DEF Usb, Store, PortRec
  <1>0. Chunks \in Nat /\ Chunks > 0 BY Sizes
  <1>2. NoData \in Datum /\ md \in Datum BY <1>1 DEF Datum, NoData
  <1>3. data.kind \in {"write", "read", "sense"} => data \in Cmd BY DEF Bytes
  <1>4. SameHost(u, u) BY DEF SameHost
  <1>5. CASE ph.at = "command" /\ data.kind = "write"
    <2> DEFINE qh == [at |-> "data_out", cmd |-> data, got |-> 0]
    <2> DEFINE w == Goes(u, qh, s)
    <2>1. data \in [kind : {"write"}, id : Nat] BY <1>3, <1>5 DEF Cmd
    <2>2. qh \in Phase /\ qh.at = "data_out" /\ qh.cmd = data /\ qh.got = 0
      <3>1. qh \in [at : {"data_out"}, cmd : [kind : {"write"}, id : Nat], got : Int] BY <2>1
      <3>2. QED BY <3>1 DEF Phase
    <2>3. a = Reply(w, m, "ack", md) BY <1>5 DEF StoreOutput
    <2> HIDE DEF qh
    <2>4. w \in Usb /\ SameHost(u, w) /\ w.kbd = u.kbd /\ w.store.phase = qh BY <1>1, <2>2, PhaseFacts
    <2> HIDE DEF w
    <2>5. a.usb = w /\ a.media = m /\ a.reply = "ack" /\ a.data = md BY <2>3 DEF Reply
    <2>6. StoreSame(u, a) BY <1>2, <2>4, <2>5 DEF StoreSame
    <2>7. Taken(u, m, data, a) BY <1>5, <2>2, <2>4, <2>5 DEF Taken
    <2>8. QED BY <2>6, <2>7
  <1>6. CASE ph.at = "command" /\ data.kind \in {"read", "sense"}
    <2>1. data \in Cmd /\ data.kind # "write" /\ DataTransfers(data) \in Int BY <1>3, <1>6, <1>0 DEF DataTransfers
    <2>2. PICK f \in Finish(u, m, data) :
            a = Reply(Goes(u, [at |-> "data_in", data |-> f.data, left |-> DataTransfers(data), csw |-> f.csw], f.sense), m, "ack", md)
      BY <1>6 DEF StoreOutput
    <2>3. /\ f.csw \in Csw /\ f.data \in Int /\ f.sense \in Int
          /\ data.kind = "read"  => IF f.csw.ok THEN f.data = m[md] ELSE f.sense = Error
          /\ data.kind = "sense" => f.data = s
      <3>1. Finished(u, m, data, f) BY <2>1, FinishFacts
      <3>2. QED BY <2>1, <3>1 DEF Finished
    <2> DEFINE qh == [at |-> "data_in", data |-> f.data, left |-> DataTransfers(data), csw |-> f.csw]
    <2> DEFINE w == Goes(u, qh, f.sense)
    <2>4. qh \in Phase /\ qh.at = "data_in" /\ qh.left = DataTransfers(data) /\ qh.data = f.data /\ qh.csw = f.csw
      BY <2>1, <2>3 DEF Phase
    <2>5. a = Reply(w, m, "ack", md) BY <2>2
    <2> HIDE DEF qh
    <2>6. w \in Usb /\ SameHost(u, w) /\ w.kbd = u.kbd /\ w.store.phase = qh /\ w.store.sense = f.sense BY <2>3, <2>4, PhaseFacts
    <2> HIDE DEF w
    <2>7. a.usb = w /\ a.media = m /\ a.reply = "ack" /\ a.data = md BY <2>5 DEF Reply
    <2>8. StoreSame(u, a) BY <1>2, <2>6, <2>7 DEF StoreSame
    <2>9. Taken(u, m, data, a) BY <1>6, <2>3, <2>4, <2>6, <2>7 DEF Taken
    <2>10. QED BY <2>8, <2>9
  <1>7. CASE ph.at = "data_out" /\ ph.got + 1 < Chunks
    <2> DEFINE qh == [ph EXCEPT !.got = ph.got + 1]
    <2> DEFINE w == Goes(u, qh, s)
    <2>0. 0 \in Int OBVIOUS
    <2>1a. ph.got \in Int BY <2>0, <1>1, <1>7, DataOutFacts
    <2>1. ph.got \in Int /\ ph.got + 1 \in Int BY <2>1a
    <2>2. qh \in Phase /\ qh.at = "data_out" /\ qh.cmd = ph.cmd /\ qh.got = ph.got + 1 BY <1>1, <1>7, <2>1, DataOutFacts
    <2>9. ~(ph.got + 1 = Chunks) BY <1>0, <1>7, <2>1
    <2>3. a = Reply(w, m, "ack", NoData) BY <1>7, <2>9 DEF StoreOutput
    <2> HIDE DEF qh
    <2>4. w \in Usb /\ SameHost(u, w) /\ w.kbd = u.kbd /\ w.store.phase = qh BY <1>1, <2>2, PhaseFacts
    <2> HIDE DEF w
    <2>5. a.usb = w /\ a.media = m /\ a.reply = "ack" /\ a.data = NoData BY <2>3 DEF Reply
    <2>6. StoreSame(u, a) BY <1>2, <2>4, <2>5 DEF StoreSame
    <2>7. Taken(u, m, data, a) BY <1>7, <2>2, <2>4, <2>5 DEF Taken
    <2>8. QED BY <2>6, <2>7
  <1>8. CASE ph.at = "data_out" /\ ph.got + 1 = Chunks
    <2>1. ph.got \in Int BY <1>1, <1>8, DataOutFacts
    <2>2. ph.cmd \in Cmd /\ ph.cmd.kind = "write" BY <1>1, <1>8, DataOutFacts
    <2>3. ~(ph.got + 1 < Chunks) BY <1>0, <1>8, <2>1
    <2>4. PICK f \in Finish(u, m, ph.cmd) : a = Reply(Goes(u, [at |-> "status", csw |-> f.csw], f.sense), f.media, "ack", NoData)
      BY <1>8, <2>3 DEF StoreOutput
    <2>5. /\ f.csw \in Csw /\ f.sense \in Int /\ f.media \in Media
          /\ IF f.csw.ok THEN f.media = [m EXCEPT ![md] = ph.cmd.id] ELSE f.media = m /\ f.sense = Error
      <3>1. Finished(u, m, ph.cmd, f) BY <2>2, FinishFacts
      <3>2. QED BY <2>2, <3>1 DEF Finished
    <2> DEFINE qh == [at |-> "status", csw |-> f.csw]
    <2> DEFINE w == Goes(u, qh, f.sense)
    <2>6. qh \in Phase /\ qh.at = "status" /\ qh.csw = f.csw BY <2>5 DEF Phase
    <2>7. a = Reply(w, f.media, "ack", NoData) BY <2>4
    <2> HIDE DEF qh
    <2>8. w \in Usb /\ SameHost(u, w) /\ w.kbd = u.kbd /\ w.store.phase = qh /\ w.store.sense = f.sense BY <2>5, <2>6, PhaseFacts
    <2> HIDE DEF w
    <2>9. a.usb = w /\ a.media = f.media /\ a.reply = "ack" /\ a.data = NoData BY <2>7 DEF Reply
    <2>10. StoreSame(u, a) BY <1>2, <2>5, <2>8, <2>9 DEF StoreSame
    <2>11. Taken(u, m, data, a) BY <1>8, <2>5, <2>6, <2>8, <2>9 DEF Taken
    <2>12. QED BY <2>10, <2>11
  <1>9. CASE ~(ph.at = "command" /\ data.kind \in {"write", "read", "sense"}) /\ ~(ph.at = "data_out" /\ ph.got + 1 <= Chunks)
    <2>1. ph.at = "data_out" => ph.got \in Int BY <1>1, DataOutFacts
    <2>2. ph.at = "data_out" => ~(ph.got + 1 < Chunks) /\ ~(ph.got + 1 = Chunks) BY <1>0, <1>9, <2>1
    <2>3. a = Reply(u, m, "stall", NoData) BY <1>9, <2>2 DEF StoreOutput
    <2>4. a.usb = u /\ a.media = m /\ a.reply = "stall" /\ a.data = NoData BY <2>3 DEF Reply
    <2>5. StoreSame(u, a) BY <1>2, <1>4, <2>4 DEF StoreSame
    <2>6. Taken(u, m, data, a) BY <1>9, <2>4 DEF Taken
    <2>7. QED BY <2>5, <2>6
  <1>10. ph.at = "data_out" => ph.got \in Int BY <1>1, DataOutFacts
  <1>11. ph.at = "data_out" /\ ph.got + 1 <= Chunks => ph.got + 1 < Chunks \/ ph.got + 1 = Chunks BY <1>0, <1>10
  <1> HIDE DEF ph, s, md
  <1>12. QED BY <1>5, <1>6, <1>7, <1>8, <1>9, <1>11

(* What an IN transfer may do to it.                                         *)
Given(u, m, a) ==
    LET ph == u.store.phase
        qh == a.usb.store.phase
    IN
    \/ /\ ph.at = "data_in" /\ a.reply = "data" /\ a.data.value = ph.data /\ a.media = m
       /\ a.usb.store.sense = u.store.sense /\ qh.csw = ph.csw
       /\ IF ph.left = 1 THEN qh.at = "status" ELSE qh.at = "data_in" /\ qh.data = ph.data /\ qh.left = ph.left - 1
    \/ /\ ph.at = "status" /\ a.reply = "data" /\ a.data = ph.csw /\ a.data \in Csw /\ a.media = m
       /\ a.usb.store.sense = u.store.sense /\ qh.at = "command"
    \/ ph.at \notin {"data_in", "status"} /\ a.reply = "nak" /\ a.usb = u /\ a.media = m

LEMMA StoreInputFacts ==
  ASSUME NEW u \in Usb, NEW m \in Media, NEW a \in StoreInput(u, m)
  PROVE  StoreSame(u, a) /\ Given(u, m, a)
  <1> DEFINE ph == u.store.phase
  <1> DEFINE s == u.store.sense
  <1>1. ph \in Phase /\ s \in Int BY DEF Usb, Store
  <1>2. NoData \in Datum BY DEF Datum, NoData
  <1>3. SameHost(u, u) BY DEF SameHost
  <1>4. CASE ph.at = "data_in"
    <2> DEFINE block == [kind |-> "data", value |-> ph.data]
    <2>1. ph.csw \in Csw /\ ph.data \in Int /\ ph.left \in Int
      <3>1. 0 \in Int OBVIOUS
      <3>2. QED BY <3>1, <1>1, <1>4, DataInFacts
    <2>2. block \in Datum /\ block.value = ph.data BY <2>1 DEF Datum
    <2>3. CASE ph.left = 1
      <3> DEFINE qh == [at |-> "status", csw |-> ph.csw]
      <3> DEFINE w == Goes(u, qh, s)
      <3>1. qh \in [at : {"status"}, csw : Csw] /\ qh.at = "status" /\ qh.csw = ph.csw BY <2>1
      <3>2. qh \in Phase BY <3>1 DEF Phase
      <3>3. a = Reply(w, m, "data", block) BY <1>4, <2>3 DEF StoreInput
      <3> HIDE DEF qh, block
      <3>4. w \in Usb /\ SameHost(u, w) /\ w.kbd = u.kbd /\ w.store.phase = qh /\ w.store.sense = s BY <1>1, <3>2, PhaseFacts
      <3> HIDE DEF w
      <3>5. a.usb = w /\ a.media = m /\ a.reply = "data" /\ a.data = block BY <3>3 DEF Reply
      <3>6. StoreSame(u, a) BY <2>2, <3>4, <3>5 DEF StoreSame
      <3>7. Given(u, m, a) BY <1>4, <2>2, <2>3, <3>1, <3>4, <3>5 DEF Given
      <3>8. QED BY <3>6, <3>7
    <2>4. CASE ph.left # 1
      <3> DEFINE qh == [ph EXCEPT !.left = ph.left - 1]
      <3> DEFINE w == Goes(u, qh, s)
      <3>1. ph.left - 1 \in Int BY <2>1
      <3>2. /\ qh \in Phase /\ qh.at = "data_in" /\ qh.csw = ph.csw
            /\ qh.data = ph.data /\ qh.left = ph.left - 1
        BY <1>1, <1>4, <3>1, DataInFacts
      <3>3. a = Reply(w, m, "data", block) BY <1>4, <2>4 DEF StoreInput
      <3> HIDE DEF qh, block
      <3>4. w \in Usb /\ SameHost(u, w) /\ w.kbd = u.kbd /\ w.store.phase = qh /\ w.store.sense = s BY <1>1, <3>2, PhaseFacts
      <3> HIDE DEF w
      <3>5. a.usb = w /\ a.media = m /\ a.reply = "data" /\ a.data = block BY <3>3 DEF Reply
      <3>6. StoreSame(u, a) BY <2>2, <3>4, <3>5 DEF StoreSame
      <3>7. Given(u, m, a) BY <1>4, <2>2, <2>4, <3>2, <3>4, <3>5 DEF Given
      <3>8. QED BY <3>6, <3>7
    <2>5. QED BY <2>3, <2>4
  <1>5. CASE ph.at = "status"
    <2> DEFINE qh == [at |-> "command"]
    <2> DEFINE w == Goes(u, qh, s)
    <2>1. qh \in Phase /\ qh.at = "command" BY DEF Phase
    <2>2. ph.csw \in Csw BY <1>1, <1>5 DEF Phase
    <2>3. ph.csw \in Datum BY <2>2 DEF Datum
    <2>4. a = Reply(w, m, "data", ph.csw) BY <1>5 DEF StoreInput
    <2> HIDE DEF qh
    <2>5. w \in Usb /\ SameHost(u, w) /\ w.kbd = u.kbd /\ w.store.phase = qh /\ w.store.sense = s BY <1>1, <2>1, PhaseFacts
    <2> HIDE DEF w
    <2>6. a.usb = w /\ a.media = m /\ a.reply = "data" /\ a.data = ph.csw BY <2>4 DEF Reply
    <2>7. StoreSame(u, a) BY <2>3, <2>5, <2>6 DEF StoreSame
    <2>8. Given(u, m, a) BY <1>5, <2>1, <2>2, <2>5, <2>6 DEF Given
    <2>9. QED BY <2>7, <2>8
  <1>6. CASE ph.at \notin {"data_in", "status"}
    <2>1. a = Reply(u, m, "nak", NoData) BY <1>6 DEF StoreInput
    <2>2. a.usb = u /\ a.media = m /\ a.reply = "nak" /\ a.data = NoData BY <2>1 DEF Reply
    <2>3. StoreSame(u, a) BY <1>2, <1>3, <2>2 DEF StoreSame
    <2>4. Given(u, m, a) BY <1>6, <2>2 DEF Given
    <2>5. QED BY <2>3, <2>4
  <1>7. QED BY <1>4, <1>5, <1>6

(* Who answers.                                                              *)
LEMMA AnswersOfHub ==
  ASSUME NEW u, NEW m, NEW p, p.to = "hub" PROVE Answers(u, m, p) = Control(u, m, p.op)
  <1>1. p.to \notin Address BY Sizes
  <1>2. QED BY <1>1 DEF Answers
LEMMA AnswersOfPorts ==
  ASSUME NEW u, NEW m, NEW p, p.to = "hub_ep1" PROVE Answers(u, m, p) = HubStatus(u, m)
  <1>1. p.to \notin Address BY Sizes
  <1>2. QED BY <1>1 DEF Answers
LEMMA AnswersOfKeyboard ==
  ASSUME NEW u, NEW m, NEW p, p.to = "keyboard" PROVE Answers(u, m, p) = KeyReport(u, m)
  <1>1. p.to \notin Address BY Sizes
  <1>2. QED BY <1>1 DEF Answers
LEMMA AnswersOfStick ==
  ASSUME NEW u, NEW m, NEW p, p.to \in Address
  PROVE  IF u.port.in /\ u.port.enabled /\ u.port.address = p.to
         THEN Answers(u, m, p) = IF p.op = "out" THEN StoreOutput(u, m, p.data) ELSE StoreInput(u, m)
         ELSE Answers(u, m, p) = {Reply(u, m, "error", NoData)}
  <1>1. p.to # "hub" /\ p.to # "hub_ep1" /\ p.to # "keyboard" BY Sizes
  <1>2. QED BY <1>1 DEF Answers

----------------------------------------------------------------------------
(* One attempt.                                                              *)

(* What pipe 0 may be at work on.                                            *)
Asked(u) ==
    Active(u, 0) => LET p == u.pipe[0]
                    IN  p.to = "hub" \/ (p.to \in Address /\ (p.op = "out" => p.data \in Cmd \cup {Bytes}))

Answered(u, m, n, a) ==
    /\ a.usb \in Usb /\ SameHost(u, a.usb) /\ a.media \in Media /\ a.data \in Datum
    /\ a.reply \in {"ack", "data", "stall", "error", "nak"}
    /\ n # 2 => a.usb.kbd = u.kbd
    /\ n # 0 => a.usb.store = u.store /\ a.media = m

LEMMA AnswerFacts ==
  ASSUME NEW u \in Usb, NEW m \in Media, NEW n \in Pipe, Active(u, n), Opened(u), Asked(u),
         NEW a \in Answers(u, m, u.pipe[n])
  PROVE  /\ Answered(u, m, n, a)
         /\ n = 1 => a \in HubStatus(u, m)
         /\ n = 2 => a \in KeyReport(u, m)
  <1> DEFINE p == u.pipe[n]
  <1>1. n = 0 \/ n = 1 \/ n = 2 BY DEF Pipe
  <1>2. p.command BY DEF Active
  <1>3. SameHost(u, u) BY DEF SameHost
  <1>4. NoData \in Datum BY DEF Datum, NoData
  <1>5. CASE n = 1
    <2>1. p.to = "hub_ep1" BY <1>2, <1>5 DEF Opened, Automatic
    <2>2. a \in HubStatus(u, m) BY <2>1, AnswersOfPorts
    <2>3. a.usb = u /\ a.media = m /\ a.data = NoData /\ a.reply = (IF u.port.change THEN "data" ELSE "nak")
      BY <2>2, HubStatusFacts
    <2>4. Answered(u, m, n, a) BY <1>3, <1>4, <2>3 DEF Answered
    <2>5. QED BY <1>5, <2>2, <2>4
  <1>6. CASE n = 2
    <2>1. p.to = "keyboard" BY <1>2, <1>6 DEF Opened, Automatic
    <2>2. a \in KeyReport(u, m) BY <2>1, AnswersOfKeyboard
    <2>3. /\ a.usb \in Usb /\ SameHost(u, a.usb) /\ a.usb.store = u.store /\ a.media = m
          /\ IF u.kbd.queue # << >> THEN a.reply = "data" /\ a.data \in Nat ELSE a.reply = "nak"
      BY <2>2, KeyReportFacts
    <2>4. CASE u.kbd.queue # << >>
      <3>1. a.data \in Datum BY <2>3, <2>4 DEF Datum
      <3>2. Answered(u, m, n, a) BY <1>6, <2>3, <2>4, <3>1 DEF Answered
      <3>3. QED BY <1>6, <2>2, <3>2
    <2>5. CASE u.kbd.queue = << >>
      <3>1. a = Reply(u, m, "nak", NoData) BY <2>2, <2>5 DEF KeyReport
      <3>2. a.data = NoData BY <3>1 DEF Reply
      <3>3. Answered(u, m, n, a) BY <1>4, <1>6, <2>3, <2>5, <3>2 DEF Answered
      <3>4. QED BY <1>6, <2>2, <3>3
    <2>6. QED BY <2>4, <2>5
  <1>7. CASE n = 0 /\ p.to = "hub"
    <2>1. a \in Control(u, m, p.op) BY <1>7, AnswersOfHub
    <2>2. /\ a.usb \in Usb /\ SameHost(u, a.usb) /\ a.usb.store = u.store /\ a.usb.kbd = u.kbd /\ a.media = m
          /\ a.reply \in {"ack", "data", "stall"} /\ a.data = NoData
      BY <2>1, ControlFacts
    <2>3. Answered(u, m, n, a) BY <1>4, <2>2 DEF Answered
    <2>4. QED BY <1>7, <2>3
  <1>8. CASE n = 0 /\ p.to \in Address /\ (p.op = "out" => p.data \in Cmd \cup {Bytes})
    <2>1. CASE u.port.in /\ u.port.enabled /\ u.port.address = p.to
      <3>1. CASE p.op = "out"
        <4>1. a \in StoreOutput(u, m, p.data) BY <1>8, <2>1, <3>1, AnswersOfStick
        <4>2. StoreSame(u, a) /\ Taken(u, m, p.data, a) BY <1>8, <3>1, <4>1, StoreOutputFacts
        <4>3. a.reply \in {"ack", "stall"} BY <4>2 DEF Taken
        <4>4. Answered(u, m, n, a) BY <1>8, <4>2, <4>3 DEF Answered, StoreSame
        <4>5. QED BY <1>8, <4>4
      <3>2. CASE p.op # "out"
        <4>1. a \in StoreInput(u, m) BY <1>8, <2>1, <3>2, AnswersOfStick
        <4>2. StoreSame(u, a) /\ Given(u, m, a) BY <4>1, StoreInputFacts
        <4>3. a.reply \in {"data", "nak"} BY <4>2 DEF Given
        <4>4. Answered(u, m, n, a) BY <1>8, <4>2, <4>3 DEF Answered, StoreSame
        <4>5. QED BY <1>8, <4>4
      <3>3. QED BY <3>1, <3>2
    <2>2. CASE ~(u.port.in /\ u.port.enabled /\ u.port.address = p.to)
      <3>1. a = Reply(u, m, "error", NoData) BY <1>8, <2>2, AnswersOfStick
      <3>2. a.usb = u /\ a.media = m /\ a.reply = "error" /\ a.data = NoData BY <3>1 DEF Reply
      <3>3. Answered(u, m, n, a) BY <1>3, <1>4, <3>2 DEF Answered
      <3>4. QED BY <1>8, <3>3
    <2>3. QED BY <2>1, <2>2
  <1>9. n = 0 => p.to = "hub" \/ (p.to \in Address /\ (p.op = "out" => p.data \in Cmd \cup {Bytes})) BY DEF Asked
  <1>10. QED BY <1>1, <1>5, <1>6, <1>7, <1>8, <1>9

LEMMA NakFacts ==
  ASSUME NEW p
  PROVE  /\ NakReport(p) \in {"aborted", "timeout", "nak"}
         /\ p.abort = FALSE /\ p.timeout = 0 => NakReport(p) = "nak"
  BY DEF NakReport

(* What an attempt that was answered with a leaves: the pipe is refused and   *)
(* stays as it was, or its report is in the FIFO.                            *)
Tried(u, m, n, a, s) ==
    LET v == s[1]
        p == v.pipe[n]
    IN  /\ v \in Usb /\ s[2] = a.media /\ a.media \in Media
        /\ v.link = u.link /\ v.scanIn = u.scanIn /\ v.port = u.port /\ v.store = a.usb.store /\ v.kbd = a.usb.kbd
        /\ \A q \in Pipe : SameRequest(u.pipe[q], v.pipe[q])
        /\ \A q \in Pipe : q # n => v.pipe[q].paused = u.pipe[q].paused /\ v.pipe[q].data = u.pipe[q].data
                                    /\ v.pipe[q].result = u.pipe[q].result
        /\ \/ a.reply = "nak" /\ v.fifo = u.fifo /\ v.irq = u.irq /\ p.paused = u.pipe[n].paused /\ p.data = u.pipe[n].data
           \/ /\ v.fifo = Append(u.fifo, n) /\ v.irq = TRUE /\ p.paused = TRUE
              /\ IF a.reply = "nak" THEN n = 0 /\ p.result \in {"aborted", "timeout"}
                                    ELSE p.result = a.reply /\ p.data = a.data

LEMMA AttemptFacts ==
  ASSUME NEW u \in Usb, NEW m \in Media, NEW n \in Pipe, Passes(u, n), Opened(u), Asked(u), NEW s \in Attempt(u, m, n)
  PROVE  \E a \in Answers(Stamped(u, n), m, Stamped(u, n).pipe[n]) :
            Answered(Stamped(u, n), m, n, a) /\ Tried(u, m, n, a, s)
  <1> DEFINE t == Stamped(u, n)
  <1> DEFINE p == t.pipe[n]
  <1>1. /\ t \in Usb /\ t.link = u.link /\ t.scanIn = u.scanIn /\ t.irq = u.irq /\ SameDevices(u, t) /\ t.fifo = u.fifo
        /\ \A q \in Pipe : /\ SameRequest(u.pipe[q], t.pipe[q]) /\ t.pipe[q].paused = u.pipe[q].paused
                           /\ t.pipe[q].data = u.pipe[q].data /\ t.pipe[q].result = u.pipe[q].result
    BY StampedFacts
  <1>2. PICK a \in Answers(t, m, p) : s = Outcome(a, n, p) BY DEF Attempt
  <1> HIDE DEF t
  <1>3. 0 \in Pipe /\ 1 \in Pipe /\ 2 \in Pipe BY DEF Pipe
  <1>4. Active(u, n) /\ ~FifoFull(u) BY DEF Passes
  <1>5. Active(t, n) /\ (Active(t, 0) => Active(u, 0)) BY <1>1, <1>3, <1>4 DEF Active, SameRequest
  <1>6. Opened(t)
    <2>1. SameRequest(u.pipe[1], t.pipe[1]) /\ SameRequest(u.pipe[2], t.pipe[2]) BY <1>1, <1>3
    <2>2. QED BY <2>1 DEF Opened, Automatic, SameRequest
  <1>7. Asked(t)
    <2>1. SameRequest(u.pipe[0], t.pipe[0]) /\ t.pipe[0].data = u.pipe[0].data BY <1>1, <1>3
    <2>2. QED BY <2>1, <1>5 DEF Asked, SameRequest
  <1>8. Answered(t, m, n, a) BY <1>1, <1>2, <1>5, <1>6, <1>7, AnswerFacts
  <1>9. /\ a.usb \in Usb /\ a.usb.link = u.link /\ a.usb.pipe = t.pipe /\ a.usb.fifo = u.fifo /\ a.usb.scanIn = u.scanIn
        /\ a.usb.irq = u.irq /\ a.usb.port = u.port /\ a.media \in Media /\ a.data \in Datum
        /\ a.reply \in {"ack", "data", "stall", "error", "nak"}
    BY <1>1, <1>8 DEF Answered, SameHost, SameDevices
  <1> DEFINE result == IF a.reply = "nak" THEN NakReport(p) ELSE a.reply
  <1> DEFINE data == IF a.reply = "nak" THEN NoData ELSE a.data
  <1>10. NakReport(p) \in {"aborted", "timeout", "nak"} /\ (p.abort = FALSE /\ p.timeout = 0 => NakReport(p) = "nak") BY NakFacts
  <1>11. s = << IF result = "nak" THEN a.usb ELSE Reported(a.usb, n, result, data), a.media >> BY <1>2 DEF Outcome
  <1>12. CASE result = "nak"
    <2>1. s[1] = a.usb /\ s[2] = a.media BY <1>11, <1>12
    <2>2. a.reply = "nak" BY <1>12
    <2> HIDE DEF p
    <2>3. Tried(u, m, n, a, s) BY <1>1, <1>9, <2>1, <2>2 DEF Tried
    <2>4. QED BY <1>2, <1>8, <2>3 DEF t, p
  <1>13. CASE result # "nak"
    <2>1. s[1] = Reported(a.usb, n, result, data) /\ s[2] = a.media BY <1>11, <1>13
    <2>2. result \in Result BY <1>9, <1>10, <1>13 DEF Result
    <2>3. data \in Datum BY <1>9 DEF Datum, NoData
    <2>4. ~FifoFull(a.usb) BY <1>4, <1>9 DEF FifoFull
    <2>5. a.reply = "nak" => n = 0 /\ result \in {"aborted", "timeout"}
      <3>1. SUFFICES ASSUME a.reply = "nak" PROVE n = 0 /\ result \in {"aborted", "timeout"} OBVIOUS
      <3>2. result = NakReport(p) BY <3>1
      <3>3. n = 1 \/ n = 2 => p.abort = FALSE /\ p.timeout = 0 BY <1>5, <1>6 DEF Opened, Automatic, Active
      <3> HIDE DEF p
      <3>4. ~(n = 1 \/ n = 2) BY <1>10, <1>13, <3>2, <3>3
      <3>5. QED BY <1>10, <1>13, <3>2, <3>4 DEF Pipe
    <2>6. (a.reply # "nak" => result = a.reply /\ data = a.data) OBVIOUS
    <2> DEFINE v == Reported(a.usb, n, result, data)
    <2> HIDE DEF p, result, data
    <2>v. v = Reported(a.usb, n, result, data) OBVIOUS
    <2> HIDE DEF v
    <2>7. /\ v \in Usb /\ v.link = a.usb.link /\ v.scanIn = a.usb.scanIn /\ v.irq = TRUE /\ SameDevices(a.usb, v)
          /\ v.fifo = Append(a.usb.fifo, n)
          /\ \A q \in Pipe : q # n => v.pipe[q] = a.usb.pipe[q]
          /\ SameRequest(a.usb.pipe[n], v.pipe[n]) /\ v.pipe[n].paused = TRUE /\ v.pipe[n].result = result /\ v.pipe[n].data = data
      <3>1. a.usb \in Usb BY <1>9
      <3>2. Told(a.usb, n, result, data, v) BY <2>2, <2>3, <2>4, <2>v, <3>1, ReportedFacts
      <3>3. QED BY <3>2 DEF Told
    <2>8. s[1] = v BY <2>1 DEF v
    <2>9. \A q \in Pipe : SameRequest(u.pipe[q], v.pipe[q]) BY <1>1, <1>9, <2>7 DEF SameRequest
    <2>10. \A q \in Pipe : q # n => v.pipe[q].paused = u.pipe[q].paused /\ v.pipe[q].data = u.pipe[q].data
                                    /\ v.pipe[q].result = u.pipe[q].result
      BY <1>1, <1>9, <2>7
    <2>11. v.link = u.link /\ v.scanIn = u.scanIn /\ v.port = u.port /\ v.store = a.usb.store /\ v.kbd = a.usb.kbd
           /\ v.fifo = Append(u.fifo, n)
      BY <1>9, <2>7 DEF SameDevices
    <2>12. IF a.reply = "nak" THEN n = 0 /\ v.pipe[n].result \in {"aborted", "timeout"}
                              ELSE v.pipe[n].result = a.reply /\ v.pipe[n].data = a.data
      BY <2>5, <2>6, <2>7
    <2>13. Tried(u, m, n, a, s) BY <1>9, <2>1, <2>7, <2>8, <2>9, <2>10, <2>11, <2>12 DEF Tried
    <2>14. QED BY <1>2, <1>8, <2>13 DEF t, p
  <1>14. QED BY <1>12, <1>13 DEF t

(* Reports over an attempt: its own report is one more, in the FIFO.          *)
LEMMA TriedReports ==
  ASSUME NEW u \in Usb, NEW m, NEW n \in Pipe, Passes(u, n), NEW a, NEW s, Tried(u, m, n, a, s),
         NEW in \in Seq(Word), NEW sm \in BOOLEAN, NEW h, NEW w \in BOOLEAN, NEW i \in BOOLEAN,
         Reports(u, in, sm, h, w), Rings(u, i), Opened(u), Boots(u, in, h)
  PROVE  Reports(s[1], in, sm, h, w) /\ Rings(s[1], i) /\ Opened(s[1]) /\ Boots(s[1], in, h)
  <1> DEFINE v == s[1]
  <1>1. /\ v \in Usb /\ v.link = u.link /\ v.port = u.port
        /\ \A q \in Pipe : SameRequest(u.pipe[q], v.pipe[q])
        /\ \A q \in Pipe : q # n => v.pipe[q].paused = u.pipe[q].paused
        /\ \/ v.fifo = u.fifo /\ v.irq = u.irq /\ v.pipe[n].paused = u.pipe[n].paused
           \/ v.fifo = Append(u.fifo, n) /\ v.irq = TRUE /\ v.pipe[n].paused = TRUE
    BY DEF Tried
  <1> HIDE DEF v
  <1>2. 0 \in Pipe /\ 1 \in Pipe /\ 2 \in Pipe /\ Attach \notin Pipe /\ n \in Word BY DEF Pipe, Attach, Word
  <1>3. Active(u, n) /\ ~FifoFull(u) BY DEF Passes
  <1>4. u.pipe[n].command /\ ~u.pipe[n].paused BY <1>3 DEF Active
  <1>5. u.fifo \in Seq(Word) /\ \A q \in Pipe : u.pipe[q].paused \in BOOLEAN BY DEF Usb, PipeRec
  <1>6. \A q \in Pipe : v.pipe[q].command = u.pipe[q].command BY <1>1 DEF SameRequest
  <1>7. u.link = "running" BY <1>4 DEF Boots
  <1>8. \A q \in Pipe : Count(v.fifo, q) + Behind(in, sm, h, q) = Owes(v, q, w)
    <2> SUFFICES ASSUME NEW q \in Pipe PROVE Count(v.fifo, q) + Behind(in, sm, h, q) = Owes(v, q, w)
      OBVIOUS
    <2>1. Count(u.fifo, q) + Behind(in, sm, h, q) = Owes(u, q, w) BY DEF Reports
    <2>2. Count(u.fifo, q) \in Nat BY <1>5, CountType
    <2>3. Behind(in, sm, h, q) \in Nat
      <3>1. Count(in, q) \in Nat BY CountType
      <3>2. QED BY <3>1 DEF Behind
    <2>4. CASE v.pipe[q].paused = u.pipe[q].paused /\ v.fifo = u.fifo
      BY <2>1, <2>4, <1>6 DEF Owes
    <2>5. CASE v.fifo = Append(u.fifo, n) /\ v.pipe[n].paused = TRUE
      <3>1. Count(v.fifo, q) = Count(u.fifo, q) + (IF n = q THEN 1 ELSE 0) BY <1>2, <1>5, <2>5, CountAppend
      <3>2. CASE q = n
        <4>1. n = 0 => w BY <1>3 DEF Reports
        <4>2. Owes(u, q, w) = 0 BY <1>4, <3>2 DEF Owes
        <4>3. Owes(v, q, w) = 1 BY <1>4, <1>6, <2>5, <3>2, <4>1 DEF Owes
        <4>4. QED BY <2>1, <2>2, <2>3, <3>1, <3>2, <4>2, <4>3
      <3>3. CASE q # n
        <4>1. Owes(v, q, w) = Owes(u, q, w) BY <1>1, <1>6, <3>3 DEF Owes
        <4>2. QED BY <2>1, <2>2, <3>1, <3>3, <4>1
      <3>4. QED BY <3>2, <3>3
    <2>6. QED BY <1>1, <2>4, <2>5
  <1>9. Active(v, 0) => w
    <2>1. Active(v, 0) => Active(u, 0) BY <1>1, <1>2, <1>3, <1>6 DEF Active
    <2>2. QED BY <2>1 DEF Reports
  <1>10. Reports(v, in, sm, h, w) BY <1>8, <1>9 DEF Reports
  <1>11. Rings(v, i)
    <2>1. FifoLen \in Nat BY Sizes
    <2>2. Len(u.fifo) \in Nat /\ Len(u.fifo) # FifoLen - 1 /\ Len(u.fifo) < FifoLen BY <1>3, <1>5 DEF FifoFull, Rings
    <2>3. CASE v.fifo = u.fifo /\ v.irq = u.irq BY <2>3 DEF Rings
    <2>4. CASE v.fifo = Append(u.fifo, n) /\ v.irq = TRUE
      <3>1. Len(v.fifo) = Len(u.fifo) + 1 BY <1>2, <1>5, <2>4
      <3>3. v.fifo # << >>
        <4>1. Len(v.fifo) # 0 BY <2>2, <3>1
        <4>2. QED BY <4>1
      <3>2. QED BY <2>1, <2>2, <2>4, <3>1, <3>3 DEF Rings
    <2>5. QED BY <1>1, <2>3, <2>4
  <1>12. Opened(v)
    <2>1. SameRequest(u.pipe[1], v.pipe[1]) /\ SameRequest(u.pipe[2], v.pipe[2]) BY <1>1, <1>2
    <2>2. QED BY <2>1 DEF Opened, Automatic, SameRequest
  <1>13. Boots(v, in, h)
    <2>1. Count(v.fifo, Attach) = Count(u.fifo, Attach)
      <3>1. CASE v.fifo = u.fifo BY <3>1
      <3>2. CASE v.fifo = Append(u.fifo, n)
        <4>1. Count(v.fifo, Attach) = Count(u.fifo, Attach) + (IF n = Attach THEN 1 ELSE 0) BY <1>2, <1>5, <3>2, CountAppend
        <4>2. n # Attach BY <1>2
        <4>3. Count(u.fifo, Attach) \in Nat BY <1>5, CountType
        <4>4. QED BY <4>1, <4>2, <4>3
      <3>3. QED BY <1>1, <3>1, <3>2
    <2>2. QED BY <1>1, <1>2, <1>6, <1>7, <2>1 DEF Boots
  <1>14. QED BY <1>10, <1>11, <1>12, <1>13 DEF v

(* Keys over an attempt: the oldest unread report goes on its way.            *)
LEMMA TriedKeys ==
  ASSUME NEW u \in Usb, NEW m, NEW n \in Pipe, NEW t \in Usb, t.kbd = u.kbd, Active(u, n),
         NEW a, Answered(t, m, n, a), n = 2 => a \in KeyReport(t, m),
         NEW s, Tried(u, m, n, a, s), NEW sh \in Nat, KeysKept(u, sh)
  PROVE  KeysKept(s[1], sh)
  <1> DEFINE v == s[1]
  <1>1. 2 \in Pipe BY DEF Pipe
  <1>2. v.pipe[2].command = u.pipe[2].command /\ v.kbd = a.usb.kbd BY <1>1 DEF Tried, SameRequest
  <1>3. u.kbd.report \in Nat /\ u.kbd.queue \in Seq(Nat) BY DEF Usb, Kbd
  <1>4. CASE n # 2
    <2>1. v.pipe[2].paused = u.pipe[2].paused /\ v.pipe[2].data = u.pipe[2].data BY <1>1, <1>4 DEF Tried
    <2>2. v.kbd = u.kbd BY <1>2, <1>4 DEF Answered
    <2> HIDE DEF v
    <2>3. KeysKept(v, sh) BY <1>2, <2>1, <2>2 DEF KeysKept
    <2>4. QED BY <2>3 DEF v
  <1>5. CASE n = 2
    <2>1. ~u.pipe[2].paused BY <1>5 DEF Active
    <2>2. /\ a.usb.kbd.report = u.kbd.report
          /\ IF u.kbd.queue # << >>
             THEN a.reply = "data" /\ a.data = Head(u.kbd.queue) /\ a.data \in Nat /\ a.usb.kbd.queue = Tail(u.kbd.queue)
             ELSE a.reply = "nak" /\ a.usb = t
      BY <1>5, KeyReportFacts
    <2>3. CASE u.kbd.queue = << >>
      <3>1. v.kbd = u.kbd BY <1>2, <2>2, <2>3
      <3>2. ~v.pipe[2].paused BY <1>5, <2>1, <2>2, <2>3 DEF Tried
      <3> HIDE DEF v
      <3>3. KeysKept(v, sh) BY <3>1, <3>2 DEF KeysKept
      <3>4. QED BY <3>3 DEF v
    <2>4. CASE u.kbd.queue # << >>
      <3> DEFINE q == u.kbd.queue
      <3> DEFINE r == Tail(q)
      <3>1. /\ v.kbd.report = u.kbd.report /\ v.kbd.queue = r
            /\ (v.pipe[2].paused => v.pipe[2].data = q[1])
        <4>1. v.pipe[2].paused => v.pipe[2].data = a.data BY <1>5, <2>1, <2>2, <2>4 DEF Tried
        <4>2. QED BY <1>2, <1>3, <2>2, <2>4, <4>1
      <3>2. /\ q \in Seq(Nat) /\ Len(q) \in Nat /\ Len(q) >= 1 /\ Len(r) = Len(q) - 1 /\ r \in Seq(Nat)
            /\ \A i \in 1 .. Len(r) : r[i] = q[i + 1]
            /\ \A i \in 1 .. Len(q) : q[i] \in Nat
        BY <1>3, <2>4
      <3>3. /\ sh <= u.kbd.report
            /\ \A i \in 1 .. Len(q) : sh <= q[i] /\ q[i] <= u.kbd.report
            /\ \A i, j \in 1 .. Len(q) : i < j => q[i] < q[j]
            /\ q[Len(q)] = u.kbd.report
        BY <2>4 DEF KeysKept
      <3> HIDE DEF v, q
      <3>4. \A i \in 1 .. Len(r) : i + 1 \in 1 .. Len(q) /\ 1 < i + 1 BY <3>2
      <3>5. \A i \in 1 .. Len(r) : sh <= r[i] /\ r[i] <= u.kbd.report BY <3>2, <3>3, <3>4
      <3>6. \A i, j \in 1 .. Len(r) : i < j => r[i] < r[j] BY <3>2, <3>3, <3>4
      <3>7. r # << >> => r[Len(r)] = u.kbd.report
        <4>1. r # << >> => Len(r) \in 1 .. Len(r) /\ Len(r) + 1 = Len(q) BY <3>2
        <4>2. QED BY <3>2, <3>3, <4>1
      <3>8. 1 \in 1 .. Len(q) BY <3>2
      <3>9. \A i \in 1 .. Len(r) : q[1] < r[i] BY <3>2, <3>3, <3>4, <3>8
      <3>10. r = << >> => q[1] = u.kbd.report
        <4> HIDE DEF r
        <4>0. r = << >> => Len(r) = 0 OBVIOUS
        <4>1. r = << >> => Len(q) = 1 BY <3>2, <4>0
        <4>2. QED BY <3>3, <4>1
      <3>11. q[1] \in Nat /\ sh <= q[1] /\ q[1] <= u.kbd.report BY <3>2, <3>3, <3>8
      <3> HIDE DEF r
      <3>12. KeysKept(v, sh) BY <3>1, <3>3, <3>5, <3>6, <3>7, <3>9, <3>10, <3>11 DEF KeysKept
      <3>13. QED BY <3>12 DEF v
    <2>5. QED BY <2>3, <2>4
  <1>6. QED BY <1>4, <1>5

(* A change of the port is reported only when there is one.                   *)
LEMMA TriedPorts ==
  ASSUME NEW u \in Usb, NEW m, NEW n \in Pipe, NEW t \in Usb, t.port = u.port, Active(u, n),
         NEW a, n = 1 => a \in HubStatus(t, m),
         NEW s, Tried(u, m, n, a, s), NEW h, Noticed(u, h), Ports(u, h)
  PROVE  Noticed(s[1], h) /\ Ports(s[1], h)
  <1> DEFINE v == s[1]
  <1>1. 1 \in Pipe BY DEF Pipe
  <1>2. v.pipe[1].command = u.pipe[1].command /\ v.port = u.port BY <1>1 DEF Tried, SameRequest
  <1>3. v.pipe[1].paused => u.pipe[1].paused \/ u.port.change
    <2>1. CASE n # 1 BY <1>1, <2>1 DEF Tried
    <2>2. CASE n = 1
      <3>1. a.reply = (IF u.port.change THEN "data" ELSE "nak") BY <2>2, HubStatusFacts
      <3>2. CASE u.port.change BY <3>2
      <3>3. CASE ~u.port.change
        <4>1. a.reply = "nak" BY <3>1, <3>3
        <4>2. v.pipe[1].paused = u.pipe[1].paused BY <2>2, <4>1 DEF Tried
        <4>3. QED BY <4>2
      <3>4. QED BY <3>2, <3>3
    <2>3. QED BY <2>1, <2>2
  <1> HIDE DEF v
  <1>4. Noticed(v, h) BY <1>2, <1>3 DEF Noticed
  <1>5. Ports(v, h) BY <1>2 DEF Ports
  <1>6. QED BY <1>4, <1>5 DEF v

(* What the disk driver hears.                                               *)
SameCommand(d, e) == e.cmd = d.cmd /\ e.to = d.to /\ e.pulled = d.pulled

LEMMA HeardCommand ==
  ASSUME NEW d \in DiskRec, NEW p, d.pc = "cbw", p.result = "ack", p.data \in Medium
  PROVE  LET e == Heard(d, p)
         IN  /\ e \in DiskRec /\ SameCommand(d, e) /\ e.pc = "data" /\ e.left = d.left
             /\ e.on = (IF d.on = None THEN p.data ELSE d.on)
  <1> DEFINE on == IF d.on = None THEN p.data ELSE d.on
  <1> DEFINE e == [d EXCEPT !.pc = "data", !.on = on]
  <1>1. Heard(d, p) = e BY DEF Heard, DiskRec
  <1>2. on \in Medium \cup {None} BY DEF DiskRec
  <1> HIDE DEF on
  <1>3. e \in DiskRec /\ SameCommand(d, e) /\ e.pc = "data" /\ e.left = d.left /\ e.on = on BY <1>2 DEF DiskRec, SameCommand
  <1> HIDE DEF e
  <1>4. QED BY <1>1, <1>3 DEF on

LEMMA HeardData ==
  ASSUME NEW d \in DiskRec, NEW p, d.pc = "data", d.cmd \in Cmd,
         IF d.cmd.kind = "write" THEN p.result = "ack" ELSE p.result = "data" /\ p.data.value \in Int
  PROVE  LET e == Heard(d, p)
         IN  /\ e \in DiskRec /\ SameCommand(d, e) /\ e.pc = (IF d.left = 1 THEN "csw" ELSE "data") /\ e.left = d.left - 1
             /\ e.on = d.on /\ (d.cmd.kind # "write" => e.data = p.data.value)
  <1> DEFINE pc == IF d.left = 1 THEN "csw" ELSE "data"
  <1> DEFINE data == IF d.cmd.kind = "write" THEN d.data ELSE p.data.value
  <1> DEFINE e == [d EXCEPT !.pc = pc, !.left = d.left - 1, !.data = data]
  <1>1. Heard(d, p) = e BY DEF Heard, DiskRec
  <1>2. pc \in {"csw", "data"} /\ data \in Int /\ d.left - 1 \in Int BY DEF DiskRec
  <1>3. d.cmd.kind # "write" => data = p.data.value OBVIOUS
  <1> HIDE DEF pc, data
  <1>4. e \in DiskRec /\ SameCommand(d, e) /\ e.pc = pc /\ e.left = d.left - 1 /\ e.on = d.on /\ e.data = data
    BY <1>2 DEF DiskRec, SameCommand
  <1> HIDE DEF e
  <1>5. QED BY <1>1, <1>3, <1>4 DEF pc

LEMMA EndedFacts ==
  ASSUME NEW d \in DiskRec, NEW how \in {"done", "failed", "broken"}
  PROVE  LET e == Ended(d, how)
         IN  e \in DiskRec /\ SameCommand(d, e) /\ e.pc = "idle" /\ e.end = how /\ e.on = d.on /\ e.data = d.data
  BY DEF Ended, DiskRec, SameCommand

LEMMA HeardStatus ==
  ASSUME NEW d \in DiskRec, NEW p, d.pc = "csw", d.cmd \in Cmd, p.result = "data", p.data \in Csw
  PROVE  LET e == Heard(d, p)
         IN  /\ e \in DiskRec
             /\ \/ d.cmd.kind = "sense" /\ e = Ended(d, "failed")
                \/ d.cmd.kind # "sense" /\ p.data.ok /\ e = Ended(d, "done")
                \/ /\ d.cmd.kind # "sense" /\ ~p.data.ok /\ e.pc = "cbw" /\ e.cmd \in Cmd /\ e.cmd.kind = "sense"
                   /\ e.to = d.to /\ e.pulled = d.pulled /\ e.left = 1 /\ e.on = d.on
  <1> DEFINE cmd == [d.cmd EXCEPT !.kind = "sense"]
  <1> DEFINE e == [d EXCEPT !.pc = "cbw", !.cmd = cmd, !.left = 1]
  <1>1. p.data.kind = "csw" /\ p.data.ok \in BOOLEAN BY DEF Csw
  <1>2. CASE d.cmd.kind = "sense"
    <2>1. Heard(d, p) = Ended(d, "failed") BY <1>1, <1>2 DEF Heard
    <2>2. QED BY <1>2, <2>1, EndedFacts
  <1>3. CASE d.cmd.kind # "sense" /\ p.data.ok
    <2>1. Heard(d, p) = Ended(d, "done") BY <1>1, <1>3 DEF Heard
    <2>2. QED BY <1>3, <2>1, EndedFacts
  <1>4. CASE d.cmd.kind # "sense" /\ ~p.data.ok
    <2>1. Heard(d, p) = [d EXCEPT !.pc = "cbw", !.cmd.kind = "sense", !.left = 1] BY <1>1, <1>4 DEF Heard
    <2>2. Heard(d, p) = e BY <2>1 DEF DiskRec
    <2>3. cmd \in Cmd /\ cmd.kind = "sense" BY DEF Cmd
    <2> HIDE DEF cmd
    <2>6. cmd \in Cmd \cup {None} BY <2>3
    <2>7. e \in DiskRec
      <3> DEFINE e1 == [d EXCEPT !.pc = "cbw"]
      <3> DEFINE e2 == [e1 EXCEPT !.cmd = cmd]
      <3>1. e1 \in DiskRec BY DEF DiskRec
      <3> HIDE DEF e1
      <3>2. e2 \in DiskRec BY <2>6, <3>1 DEF DiskRec
      <3>3. e = [e2 EXCEPT !.left = 1] BY DEF e1
      <3> HIDE DEF e2, e
      <3>4. [e2 EXCEPT !.left = 1] \in DiskRec BY <3>2 DEF DiskRec
      <3>5. QED BY <3>3, <3>4
    <2>4. e \in DiskRec /\ e.pc = "cbw" /\ e.cmd = cmd /\ e.to = d.to /\ e.pulled = d.pulled /\ e.left = 1 /\ e.on = d.on
      BY <2>7 DEF DiskRec
    <2> HIDE DEF e
    <2>5. QED BY <1>4, <2>2, <2>3, <2>4
  <1>5. QED BY <1>2, <1>3, <1>4

LEMMA HeardBroken ==
  ASSUME NEW d, NEW p,
         \/ p.result \notin {"ack", "data"}
         \/ d.pc = "cbw" /\ p.result # "ack"
         \/ d.pc = "data" /\ d.cmd.kind = "write" /\ p.result # "ack"
         \/ d.pc = "data" /\ d.cmd.kind # "write" /\ p.result # "data"
         \/ d.pc = "csw" /\ p.result # "data"
  PROVE  Heard(d, p) = Ended(d, "broken")
  BY DEF Heard

LEMMA HeardSame ==
  ASSUME NEW d, NEW p, NEW q, q.result = p.result, q.data = p.data PROVE Heard(d, q) = Heard(d, p)
  BY DEF Heard
LEMMA SyncSame ==
  ASSUME NEW d, NEW u, NEW v, v.port = u.port, v.store = u.store, NEW m PROVE Sync(d, v, m) <=> Sync(d, u, m)
  BY DEF Sync, Honest, InStep, AtCommand, AtData, AtStatus, Lost

(* A driver that gives up was told the truth when the stick was pulled.       *)
LEMMA BrokenIsHonest ==
  ASSUME NEW d \in DiskRec, NEW p, Heard(d, p) = Ended(d, "broken"), NEW u, NEW m,
         d.pulled, u.port.enabled => u.store.phase.at = "command"
  PROVE  Heard(d, p) \in DiskRec /\ Sync(Heard(d, p), u, m)
  <1> DEFINE e == Ended(d, "broken")
  <1>1. e \in DiskRec /\ SameCommand(d, e) /\ e.pc = "idle" /\ e.end = "broken" BY EndedFacts
  <1> HIDE DEF e
  <1>2. e.pulled BY <1>1 DEF SameCommand
  <1>3. Honest(e, m) BY <1>1, <1>2 DEF Honest, None
  <1>4. Sync(e, u, m) BY <1>1, <1>3 DEF Sync
  <1>5. QED BY <1>1, <1>4 DEF e

(* A transfer to the stick, in step with the driver or lost.                  *)
LEMMA StickTakes ==
  ASSUME NEW d \in DiskRec, NEW t \in Usb, NEW m \in Media, Sync(d, t, m), d.pc # "idle", t.port.enabled, t.port.address = d.to,
         NEW q, q.op = "out", Asks(d, q), NEW a, StoreSame(t, a), Taken(t, m, q.data, a),
         NEW p, p.result = a.reply, p.data = a.data
  PROVE  Heard(d, p) \in DiskRec /\ Sync(Heard(d, p), a.usb, a.media)
  <1> DEFINE e == Heard(d, p)
  <1> DEFINE ph == t.store.phase
  <1> DEFINE qh == a.usb.store.phase
  <1> DEFINE v == a.usb
  <1>1. /\ d.cmd \in Cmd /\ d.to \in Address /\ (~d.pulled => t.port.enabled /\ t.port.address = d.to)
        /\ InStep(d, t, m) \/ Lost(d, t)
        /\ (d.pc = "cbw" => d.left = DataTransfers(d.cmd) /\ (d.cmd.kind # "sense" => d.on = None))
        /\ (d.pc = "cbw" /\ d.cmd.kind = "sense" => d.on \in Medium) /\ (d.pc = "data" => d.left >= 1)
    BY DEF Sync
  <1>2. d.cmd.kind \in {"write", "read", "sense"} /\ d.cmd.id \in Nat BY <1>1 DEF Cmd
  <1>3. v \in Usb /\ v.port = t.port /\ t.port.medium \in Medium /\ a.media \in Media BY DEF StoreSame, SameHost, Usb, PortRec
  <1>4. d.left \in Int /\ d.pc \in {"cbw", "data", "csw"} BY DEF DiskRec
  <1>5. Chunks \in Nat /\ Chunks > 0 BY Sizes
  <1>6. d.pc # "csw" BY <1>1 DEF Asks, DiskRec
  <1>7. CASE Lost(d, t)
    <2>1. ph.at = "command" /\ d.pulled /\ d.pc = "data" BY <1>4, <1>6, <1>7 DEF Lost
    <2>2. q.data = Bytes /\ d.cmd.kind = "write" BY <2>1 DEF Asks
    <2>3. q.data.kind = "bytes" BY <2>2 DEF Bytes
    <2>4. a.reply = "stall" /\ a.usb = t /\ a.media = m BY <2>1, <2>3 DEF Taken
    <2>5. Heard(d, p) = Ended(d, "broken") BY <2>4, HeardBroken
    <2>6. QED BY <2>1, <2>4, <2>5, BrokenIsHonest
  <1>8. CASE InStep(d, t, m) /\ d.pc = "cbw"
    <2>1. ph.at = "command" /\ (d.cmd.kind = "sense" => t.store.sense = Error \/ d.pulled) BY <1>8 DEF InStep, AtCommand
    <2>2. q.data = d.cmd BY <1>8 DEF Asks
    <2>3. a.reply = "ack" /\ a.data = t.port.medium /\ a.media = m
          /\ (d.cmd.kind = "write" => qh.at = "data_out" /\ qh.cmd = d.cmd /\ qh.got = 0)
          /\ (d.cmd.kind # "write" => qh.at = "data_in" /\ qh.left = DataTransfers(d.cmd))
          /\ (d.cmd.kind = "read" => IF qh.csw.ok THEN qh.data = m[t.port.medium] ELSE v.store.sense = Error)
          /\ (d.cmd.kind = "sense" => qh.data = t.store.sense)
      BY <1>2, <2>1, <2>2 DEF Taken
    <2>4. /\ e \in DiskRec /\ SameCommand(d, e) /\ e.pc = "data" /\ e.left = d.left
          /\ e.on = (IF d.on = None THEN p.data ELSE d.on)
      BY <1>3, <1>8, <2>3, HeardCommand
    <2> HIDE DEF e, ph, qh
    <2>5. e.on \in Medium /\ (d.cmd.kind # "sense" => e.on = t.port.medium)
      <3>1. p.data = t.port.medium BY <2>3
      <3>2. d.cmd.kind # "sense" => e.on = t.port.medium BY <1>1, <1>8, <2>4, <3>1
      <3>3. d.cmd.kind = "sense" => e.on \in Medium BY <1>1, <1>3, <1>8, <2>4, <3>1
      <3>4. QED BY <1>3, <3>2, <3>3
    <2>6. e.left \in Int /\ e.left >= 1 /\ (d.cmd.kind # "sense" => e.left = Chunks)
      <3>1. d.left = IF d.cmd.kind = "sense" THEN 1 ELSE Chunks BY <1>1, <1>8 DEF DataTransfers
      <3>2. QED BY <1>5, <2>4, <3>1
    <2>7. AtData(e, v, a.media)
      <3>1. v.port.address = d.to BY <1>3
      <3>2. e.cmd = d.cmd /\ e.to = d.to /\ e.pulled = d.pulled BY <2>4 DEF SameCommand
      <3>3. d.cmd.kind = "write" => qh.got = Chunks - e.left /\ v.port.medium = e.on BY <1>3, <1>5, <2>3, <2>5, <2>6
      <3>4. d.cmd.kind # "write" => qh.left = e.left BY <1>1, <1>8, <2>3, <2>4
      <3>5. d.cmd.kind = "read" => IF qh.csw.ok THEN qh.data = a.media[e.on] ELSE v.store.sense = Error BY <2>3, <2>5
      <3>6. d.cmd.kind = "sense" => qh.data = Error \/ d.pulled BY <2>1, <2>3
      <3>7. QED BY <2>3, <2>5, <3>1, <3>2, <3>3, <3>4, <3>5, <3>6 DEF AtData, qh
    <2>8. InStep(e, v, a.media) BY <2>4, <2>7 DEF InStep
    <2>9. Sync(e, v, a.media) BY <1>1, <1>3, <2>4, <2>6, <2>8 DEF Sync, SameCommand
    <2>10. QED BY <2>4, <2>9 DEF e
  <1>9. CASE InStep(d, t, m) /\ d.pc = "data"
    <2>1. d.cmd.kind = "write" /\ q.data = Bytes BY <1>1, <1>9 DEF Asks
    <2>2. q.data.kind = "bytes" BY <2>1 DEF Bytes
    <2>3. ph.at = "data_out" /\ ph.cmd = d.cmd /\ ph.got = Chunks - d.left /\ t.port.medium = d.on /\ d.on \in Medium
      BY <1>9, <2>1 DEF InStep, AtData
    <2>4. d.left >= 1 BY <1>1, <1>9
    <2> HIDE DEF e
    <2>5. CASE d.left = 1
      <3>1. ph.got + 1 = Chunks BY <1>4, <1>5, <2>3, <2>5
      <3>2. ~(ph.got + 1 < Chunks) /\ ph.got + 1 <= Chunks BY <1>5, <3>1
      <3>3. /\ a.reply = "ack" /\ qh.at = "status"
            /\ IF qh.csw.ok THEN a.media = [m EXCEPT ![t.port.medium] = ph.cmd.id] ELSE a.media = m /\ v.store.sense = Error
        BY <2>3, <3>2 DEF Taken
      <3>4. /\ e \in DiskRec /\ SameCommand(d, e) /\ e.pc = "csw" /\ e.on = d.on
        BY <1>1, <1>9, <2>1, <2>5, <3>3, HeardData DEF e
      <3>5. qh.csw.ok => a.media[d.on] = d.cmd.id BY <2>3, <3>3 DEF Media
      <3>6. v.port.address = d.to /\ e.cmd = d.cmd /\ e.to = d.to BY <1>3, <3>4 DEF SameCommand
      <3> HIDE DEF v
      <3>7. qh.at = "status" /\ qh = v.store.phase BY <3>3 DEF v
      <3>8. ~qh.csw.ok => v.store.sense = Error BY <3>3 DEF v
      <3> HIDE DEF qh
      <3>9. AtStatus(e, v, a.media) BY <2>1, <2>3, <3>4, <3>5, <3>6, <3>7, <3>8 DEF AtStatus
      <3>10. InStep(e, v, a.media) BY <3>4, <3>9 DEF InStep
      <3>11. v.port = t.port BY <1>3 DEF v
      <3>12. Sync(e, v, a.media) BY <1>1, <3>4, <3>10, <3>11 DEF Sync, SameCommand
      <3>13. QED BY <3>4, <3>12 DEF e, v
    <2>6. CASE d.left # 1
      <3>1. ph.got + 1 < Chunks BY <1>4, <1>5, <2>3, <2>4, <2>6
      <3>2. ~(ph.got + 1 = Chunks) /\ ph.got + 1 <= Chunks BY <1>4, <1>5, <2>3, <3>1
      <3>3. a.reply = "ack" /\ a.media = m /\ qh.at = "data_out" /\ qh.cmd = ph.cmd /\ qh.got = ph.got + 1
        BY <2>3, <3>2 DEF Taken
      <3>4. e \in DiskRec /\ SameCommand(d, e) /\ e.pc = "data" /\ e.left = d.left - 1 /\ e.on = d.on
        BY <1>1, <1>9, <2>1, <2>6, <3>3, HeardData DEF e
      <3>5. qh.got = Chunks - e.left /\ e.left >= 1 BY <1>4, <1>5, <2>3, <2>4, <2>6, <3>3, <3>4
      <3>6. v.port.address = d.to /\ v.port.medium = d.on /\ e.cmd = d.cmd /\ e.to = d.to BY <1>3, <2>3, <3>4 DEF SameCommand
      <3>7. AtData(e, v, a.media) BY <2>1, <2>3, <3>3, <3>4, <3>5, <3>6 DEF AtData
      <3>8. InStep(e, v, a.media) BY <3>4, <3>7 DEF InStep
      <3>9. Sync(e, v, a.media) BY <1>1, <1>3, <3>4, <3>5, <3>8 DEF Sync, SameCommand
      <3>10. QED BY <3>4, <3>9 DEF e
    <2>7. QED BY <2>5, <2>6
  <1>10. QED BY <1>1, <1>4, <1>6, <1>7, <1>8, <1>9

LEMMA StickGives ==
  ASSUME NEW d \in DiskRec, NEW t \in Usb, NEW m \in Media, Sync(d, t, m), d.pc # "idle", t.port.enabled, t.port.address = d.to,
         NEW q, q.op # "out", Asks(d, q), NEW a, StoreSame(t, a), Given(t, m, a),
         NEW p, IF a.reply = "nak" THEN p.result \in {"aborted", "timeout"} ELSE p.result = a.reply /\ p.data = a.data
  PROVE  Heard(d, p) \in DiskRec /\ Sync(Heard(d, p), a.usb, a.media)
  <1> DEFINE e == Heard(d, p)
  <1> DEFINE ph == t.store.phase
  <1> DEFINE qh == a.usb.store.phase
  <1> DEFINE v == a.usb
  <1>1. /\ d.cmd \in Cmd /\ d.to \in Address /\ (~d.pulled => t.port.enabled /\ t.port.address = d.to)
        /\ InStep(d, t, m) \/ Lost(d, t)
        /\ (d.pc = "data" => d.left >= 1)
    BY DEF Sync
  <1>2. d.cmd.kind \in {"write", "read", "sense"} /\ d.cmd.id \in Nat BY <1>1 DEF Cmd
  <1>3. v \in Usb /\ v.port = t.port /\ t.port.medium \in Medium /\ a.media \in Media BY DEF StoreSame, SameHost, Usb, PortRec
  <1>4. d.left \in Int /\ d.pc \in {"cbw", "data", "csw"} BY DEF DiskRec
  <1>5. Chunks \in Nat /\ Chunks > 0 BY Sizes
  <1>6. d.pc # "cbw" /\ (d.pc = "data" => d.cmd.kind # "write") BY <1>1 DEF Asks
  <1>7. ph \in Phase BY DEF Usb, Store
  <1>8. CASE Lost(d, t)
    <2>1. ph.at = "command" /\ d.pulled BY <1>8 DEF Lost
    <2>2. a.reply = "nak" /\ a.usb = t /\ a.media = m BY <2>1 DEF Given
    <2>3. Heard(d, p) = Ended(d, "broken") BY <2>2, HeardBroken
    <2>4. QED BY <2>1, <2>2, <2>3, BrokenIsHonest
  <1>9. CASE InStep(d, t, m) /\ d.pc = "data"
    <2>1. /\ d.on \in Medium /\ ph.at = "data_in" /\ ph.left = d.left
          /\ (d.cmd.kind = "read"  => IF ph.csw.ok THEN ph.data = m[d.on] ELSE t.store.sense = Error)
          /\ (d.cmd.kind = "sense" => ph.data = Error \/ d.pulled)
      BY <1>6, <1>9 DEF InStep, AtData
    <2>2. /\ a.reply = "data" /\ a.data.value = ph.data /\ a.media = m /\ v.store.sense = t.store.sense /\ qh.csw = ph.csw
          /\ IF ph.left = 1 THEN qh.at = "status" ELSE qh.at = "data_in" /\ qh.data = ph.data /\ qh.left = ph.left - 1
      BY <2>1 DEF Given
    <2>3. ph.data \in Int
      <3>1. 0 \in Int OBVIOUS
      <3>2. QED BY <1>7, <2>1, <3>1, DataInFacts
    <2>4. p.result = "data" /\ p.data.value = ph.data BY <2>2
    <2>5. /\ e \in DiskRec /\ SameCommand(d, e) /\ e.pc = (IF d.left = 1 THEN "csw" ELSE "data") /\ e.left = d.left - 1
          /\ e.on = d.on /\ e.data = ph.data
      BY <1>1, <1>6, <1>9, <2>3, <2>4, HeardData
    <2>6. v.port.address = d.to /\ e.cmd = d.cmd /\ e.to = d.to /\ e.pulled = d.pulled BY <1>3, <2>5 DEF SameCommand
    <2> HIDE DEF e
    <2>7. CASE d.left = 1
      <3>1. e.pc = "csw" /\ qh.at = "status" BY <2>1, <2>2, <2>5, <2>7
      <3>2. AtStatus(e, v, a.media) BY <1>6, <1>9, <2>1, <2>2, <2>5, <2>6, <3>1 DEF AtStatus
      <3>3. InStep(e, v, a.media) BY <3>1, <3>2 DEF InStep
      <3>4. Sync(e, v, a.media) BY <1>1, <1>3, <2>6, <3>1, <3>3 DEF Sync
      <3>5. QED BY <2>5, <3>4 DEF e
    <2>8. CASE d.left # 1
      <3>1. e.pc = "data" /\ qh.at = "data_in" /\ qh.left = e.left BY <2>1, <2>2, <2>5, <2>8
      <3>2. e.left >= 1 BY <1>1, <1>4, <1>9, <2>5, <2>8
      <3>3. AtData(e, v, a.media) BY <1>6, <1>9, <2>1, <2>2, <2>5, <2>6, <3>1 DEF AtData
      <3>4. InStep(e, v, a.media) BY <3>1, <3>3 DEF InStep
      <3>5. Sync(e, v, a.media) BY <1>1, <1>3, <2>6, <3>1, <3>2, <3>4 DEF Sync
      <3>6. QED BY <2>5, <3>5 DEF e
    <2>9. QED BY <2>7, <2>8
  <1>10. CASE InStep(d, t, m) /\ d.pc = "csw"
    <2>1. /\ d.on \in Medium /\ ph.at = "status"
          /\ (d.cmd.kind = "write" => IF ph.csw.ok THEN m[d.on] = d.cmd.id ELSE t.store.sense = Error)
          /\ (d.cmd.kind = "read"  => IF ph.csw.ok THEN d.data = m[d.on] ELSE t.store.sense = Error)
          /\ (d.cmd.kind = "sense" => d.data = Error \/ d.pulled)
      BY <1>10 DEF InStep, AtStatus
    <2>2. a.reply = "data" /\ a.data = ph.csw /\ a.data \in Csw /\ a.media = m /\ v.store.sense = t.store.sense /\ qh.at = "command"
      BY <2>1 DEF Given
    <2>3. p.result = "data" /\ p.data = ph.csw /\ p.data \in Csw BY <2>2
    <2>4. /\ e \in DiskRec
          /\ \/ d.cmd.kind = "sense" /\ e = Ended(d, "failed")
             \/ d.cmd.kind # "sense" /\ p.data.ok /\ e = Ended(d, "done")
             \/ /\ d.cmd.kind # "sense" /\ ~p.data.ok /\ e.pc = "cbw" /\ e.cmd \in Cmd /\ e.cmd.kind = "sense"
                /\ e.to = d.to /\ e.pulled = d.pulled /\ e.left = 1 /\ e.on = d.on
      BY <1>1, <1>10, <2>3, HeardStatus
    <2> HIDE DEF e
    <2>5. CASE d.cmd.kind = "sense" /\ e = Ended(d, "failed")
      <3>1. SameCommand(d, e) /\ e.pc = "idle" /\ e.end = "failed" /\ e.data = d.data BY <2>5, EndedFacts
      <3>2. Honest(e, a.media) BY <2>1, <2>5, <3>1 DEF Honest, SameCommand, None
      <3>3. Sync(e, v, a.media) BY <2>2, <3>1, <3>2 DEF Sync
      <3>4. QED BY <2>4, <3>3 DEF e
    <2>6. CASE d.cmd.kind # "sense" /\ p.data.ok /\ e = Ended(d, "done")
      <3>1. SameCommand(d, e) /\ e.pc = "idle" /\ e.end = "done" /\ e.on = d.on /\ e.data = d.data BY <2>6, EndedFacts
      <3>2. IF d.cmd.kind = "write" THEN m[d.on] = d.cmd.id ELSE d.data = m[d.on] BY <1>2, <2>1, <2>3, <2>6
      <3>3. Honest(e, a.media) BY <1>1, <2>1, <2>2, <3>1, <3>2 DEF Honest, SameCommand, None
      <3>4. Sync(e, v, a.media) BY <2>2, <3>1, <3>3 DEF Sync
      <3>5. QED BY <2>4, <3>4 DEF e
    <2>7. CASE /\ d.cmd.kind # "sense" /\ ~p.data.ok /\ e.pc = "cbw" /\ e.cmd \in Cmd /\ e.cmd.kind = "sense"
               /\ e.to = d.to /\ e.pulled = d.pulled /\ e.left = 1 /\ e.on = d.on
      <3>1. v.store.sense = Error BY <1>2, <2>1, <2>2, <2>3, <2>7
      <3>2. AtCommand(e, v) BY <2>2, <3>1 DEF AtCommand
      <3>3. InStep(e, v, a.media) BY <2>7, <3>2 DEF InStep
      <3>4. e.left = DataTransfers(e.cmd) BY <2>7 DEF DataTransfers
      <3>5. Sync(e, v, a.media) BY <1>1, <1>3, <2>1, <2>7, <3>3, <3>4 DEF Sync
      <3>6. QED BY <2>4, <3>5 DEF e
    <2>8. QED BY <2>4, <2>5, <2>6, <2>7
  <1>11. QED BY <1>1, <1>4, <1>6, <1>8, <1>9, <1>10

(* Nobody answers: the stick left under the command.                         *)
LEMMA StickGone ==
  ASSUME NEW d \in DiskRec, NEW t \in Usb, NEW m \in Media, Sync(d, t, m), d.pc # "idle",
         ~(t.port.in /\ t.port.enabled /\ t.port.address = d.to), t.port.enabled => t.port.in,
         NEW p, p.result = "error"
  PROVE  Heard(d, p) \in DiskRec /\ Sync(Heard(d, p), t, m)
  <1>1. d.pulled BY DEF Sync
  <1>2. t.port.enabled => t.store.phase.at = "command"
    <2>1. SUFFICES ASSUME t.port.enabled PROVE t.store.phase.at = "command" OBVIOUS
    <2>2. t.port.address # d.to BY <2>1
    <2>3. InStep(d, t, m) \/ Lost(d, t) BY <2>1 DEF Sync
    <2>4. d.pc \in {"cbw", "data", "csw"} BY DEF DiskRec
    <2>5. QED BY <2>2, <2>3, <2>4 DEF InStep, AtCommand, AtData, AtStatus, Lost
  <1>3. Heard(d, p) = Ended(d, "broken") BY HeardBroken
  <1>4. QED BY <1>1, <1>2, <1>3, BrokenIsHonest

(* The driver over an attempt: what it will hear is what happened.            *)
LEMMA TriedDisk ==
  ASSUME NEW u \in Usb, NEW m \in Media, NEW n \in Pipe, NEW t \in Usb, SameDevices(u, t), Active(u, n),
         SameRequest(u.pipe[n], t.pipe[n]), t.pipe[n].data = u.pipe[n].data,
         NEW a \in Answers(t, m, t.pipe[n]), Answered(t, m, n, a), NEW s, Tried(u, m, n, a, s),
         NEW d \in DiskRec, NEW w \in {None, "hub", "disk"}, Active(u, 0) => w # None, Owned(u, w, d), NEW h, Ports(u, h),
         HeardOf(d, u, w) \in DiskRec, Sync(HeardOf(d, u, w), u, m)
  PROVE  Owned(s[1], w, d) /\ HeardOf(d, s[1], w) \in DiskRec /\ Sync(HeardOf(d, s[1], w), s[1], s[2])
  <1> DEFINE v == s[1]
  <1> DEFINE p == u.pipe[0]
  <1> DEFINE q == v.pipe[0]
  <1>1. 0 \in Pipe BY DEF Pipe
  <1>2. /\ v.port = u.port /\ v.store = a.usb.store /\ s[2] = a.media /\ SameRequest(p, q)
        /\ (0 # n => q.paused = p.paused /\ q.data = p.data /\ q.result = p.result)
    BY <1>1 DEF Tried
  <1>3. t.port = u.port /\ t.store = u.store /\ a.usb.port = u.port BY DEF SameDevices, Answered, SameHost
  <1>4. CASE n # 0
    <2>1. q.paused = p.paused /\ q.data = p.data /\ q.result = p.result BY <1>2, <1>4
    <2>2. v.store = u.store /\ s[2] = m BY <1>2, <1>3, <1>4 DEF Answered
    <2>3. Owned(v, w, d)
      <3>1. Active(v, 0) => Active(u, 0) BY <1>2, <2>1 DEF Active, SameRequest
      <3>2. Asks(d, p) => Asks(d, q) BY <1>2, <2>1 DEF Asks, SameRequest
      <3>3. q.to = p.to /\ q.command = p.command BY <1>2 DEF SameRequest
      <3>4. QED BY <3>1, <3>2, <3>3 DEF Owned
    <2>4. HeardOf(d, v, w) = HeardOf(d, u, w)
      <3>1. Heard(d, q) = Heard(d, p) BY <2>1, HeardSame
      <3>2. QED BY <2>1, <3>1 DEF HeardOf
    <2> DEFINE e == HeardOf(d, u, w)
    <2> HIDE DEF v, e
    <2>5. Sync(e, v, m) BY <1>2, <2>2, SyncSame DEF e
    <2>6. QED BY <2>2, <2>3, <2>4, <2>5 DEF e, v
  <1>5. CASE n = 0
    <2>1. p.command /\ ~p.paused /\ Active(u, 0) /\ w # None BY <1>5 DEF Active
    <2>2. HeardOf(d, u, w) = d BY <2>1 DEF HeardOf
    <2>3. Sync(d, u, m) BY <2>2
    <2>4. CASE w = "hub"
      <3>1. p.to = "hub" /\ q.to = "hub" BY <1>2, <2>4 DEF Owned, SameRequest
      <3>2. Owned(v, w, d) BY <2>4, <3>1 DEF Owned
      <3>3. a \in Control(t, m, t.pipe[0].op)
        <4>1. t.pipe[0].to = "hub" BY <1>5, <3>1 DEF SameRequest
        <4>2. QED BY <1>5, <4>1, AnswersOfHub
      <3>4. a.usb.store = t.store /\ a.media = m BY <3>3, ControlFacts
      <3>5. HeardOf(d, v, w) = d BY <2>4 DEF HeardOf
      <3>6. v.store = u.store /\ s[2] = m BY <1>2, <1>3, <3>4
      <3> HIDE DEF v
      <3>7. Sync(d, v, m) BY <1>2, <2>3, <3>6, SyncSame
      <3>8. QED BY <3>2, <3>5, <3>6, <3>7 DEF v
    <2>5. CASE w = "disk"
      <3>1. d.pc # "idle" /\ Asks(d, p) /\ p.to = d.to BY <2>1, <2>5 DEF Owned, Asks
      <3>2. d.to \in Address /\ d.cmd \in Cmd /\ d.pc \in {"cbw", "data", "csw"} BY <2>3, <3>1 DEF Sync, DiskRec
      <3> DEFINE r == t.pipe[0]
      <3>3. r.to = p.to /\ r.op = p.op /\ r.data = p.data BY <1>5 DEF SameRequest
      <3>4. Asks(d, r) BY <3>1, <3>3 DEF Asks
      <3>5. Sync(d, t, m) BY <1>3, <2>3, SyncSame
      <3>6. \/ a.reply = "nak" /\ q.paused = p.paused /\ q.data = p.data
            \/ /\ q.paused = TRUE
               /\ IF a.reply = "nak" THEN q.result \in {"aborted", "timeout"} ELSE q.result = a.reply /\ q.data = a.data
        BY <1>5 DEF Tried
      <3>7. Owned(v, w, d)
        <4>1. Active(v, 0) => q.data = p.data BY <2>1, <3>6 DEF Active
        <4>2. q.command /\ (q.data = p.data => Asks(d, q)) BY <1>2, <2>1, <3>1 DEF Asks, SameRequest
        <4>3. QED BY <2>5, <3>1, <4>1, <4>2 DEF Owned
      <3> HIDE DEF v, q
      <3>8. ASSUME q.paused = TRUE, Heard(d, q) \in DiskRec /\ Sync(Heard(d, q), a.usb, a.media)
            PROVE  HeardOf(d, v, w) \in DiskRec /\ Sync(HeardOf(d, v, w), v, s[2])
        <4>1. HeardOf(d, v, w) = Heard(d, q) BY <2>5, <3>8 DEF HeardOf, q
        <4> DEFINE e == Heard(d, q)
        <4> HIDE DEF e
        <4>2. v.port = a.usb.port /\ v.store = a.usb.store /\ s[2] = a.media BY <1>2, <1>3 DEF v
        <4>3. Sync(e, a.usb, a.media) BY <3>8 DEF e
        <4>4. Sync(e, v, a.media) BY <4>2, <4>3, SyncSame
        <4>5. QED BY <3>8, <4>1, <4>2, <4>4 DEF e
      <3>9. CASE t.port.in /\ t.port.enabled /\ t.port.address = d.to
        <4>1. CASE r.op = "out"
          <5>1. r.data \in Cmd \cup {Bytes} BY <3>2, <3>4, <4>1 DEF Asks
          <5>2. r.to \in Address /\ t.port.address = r.to BY <3>1, <3>2, <3>3, <3>9
          <5>3. a \in StoreOutput(t, m, r.data) BY <1>5, <3>9, <4>1, <5>2, AnswersOfStick
          <5>4. StoreSame(t, a) /\ Taken(t, m, r.data, a) BY <5>1, <5>3, StoreOutputFacts
          <5>5. a.reply # "nak" BY <5>4 DEF Taken
          <5>6. q.paused = TRUE /\ q.result = a.reply /\ q.data = a.data BY <3>6, <5>5
          <5> HIDE DEF r
          <5>7. Heard(d, q) \in DiskRec /\ Sync(Heard(d, q), a.usb, a.media)
            BY <3>1, <3>4, <3>5, <3>9, <4>1, <5>4, <5>6, StickTakes
          <5>8. QED BY <3>7, <3>8, <5>6, <5>7 DEF v
        <4>2. CASE r.op # "out"
          <5>1. r.to \in Address /\ t.port.address = r.to BY <3>1, <3>2, <3>3, <3>9
          <5>2. a \in StoreInput(t, m) BY <1>5, <3>9, <4>2, <5>1, AnswersOfStick
          <5>3. StoreSame(t, a) /\ Given(t, m, a) BY <5>2, StoreInputFacts
          <5> HIDE DEF r
          <5>4. CASE q.paused = TRUE
            <6>1. IF a.reply = "nak" THEN q.result \in {"aborted", "timeout"} ELSE q.result = a.reply /\ q.data = a.data
              BY <2>1, <3>6, <5>4 DEF q
            <6>2. Heard(d, q) \in DiskRec /\ Sync(Heard(d, q), a.usb, a.media)
              BY <3>1, <3>4, <3>5, <3>9, <4>2, <5>3, <6>1, StickGives
            <6>3. QED BY <3>7, <3>8, <5>4, <6>2 DEF v
          <5>5. CASE ~q.paused
            <6>1. a.reply = "nak" BY <3>6, <5>5
            <6>2. a.usb = t /\ a.media = m BY <5>3, <6>1 DEF Given, Csw
            <6>3. HeardOf(d, v, w) = d BY <5>5 DEF HeardOf, q
            <6>4. v.store = u.store /\ s[2] = m /\ v.port = u.port BY <1>2, <1>3, <6>2 DEF v
            <6>5. Sync(d, v, m) BY <2>3, <6>4, SyncSame
            <6>6. QED BY <3>7, <6>3, <6>4, <6>5 DEF v
          <5>6. q.paused = TRUE \/ ~q.paused BY <2>1, <3>6 DEF q
          <5>7. QED BY <5>4, <5>5, <5>6
        <4>3. QED BY <4>1, <4>2
      <3>10. CASE ~(t.port.in /\ t.port.enabled /\ t.port.address = d.to)
        <4>1. r.to \in Address /\ r.to = d.to BY <3>1, <3>2, <3>3
        <4>2. a = Reply(t, m, "error", NoData) BY <1>5, <3>10, <4>1, AnswersOfStick
        <4>3. a.usb = t /\ a.media = m /\ a.reply = "error" BY <4>2, ReplyFields
        <4>4. q.paused = TRUE /\ q.result = "error" BY <3>6, <4>3
        <4>5. t.port.enabled => t.port.in BY <1>3 DEF Ports
        <4> HIDE DEF r
        <4>6. Heard(d, q) \in DiskRec /\ Sync(Heard(d, q), t, m) BY <3>1, <3>5, <3>10, <4>4, <4>5, StickGone
        <4>7. QED BY <3>7, <3>8, <4>3, <4>4, <4>6 DEF v
      <3>11. QED BY <3>9, <3>10
    <2>6. QED BY <2>1, <2>4, <2>5
  <1>6. QED BY <1>4, <1>5

----------------------------------------------------------------------------
(* The scan.                                                                 *)

LEMMA InputWords == ASSUME Firmware PROVE input \in Seq(Word)
  <1>1. {1, 2, Attach} \subseteq Word BY DEF Word, Pipe
  <1>2. input \in Seq({1, 2, Attach}) BY DEF Firmware
  <1>3. QED BY <1>1, <1>2

LEMMA KeptAsked == ASSUME Firmware, NEW u, NEW m, Kept(u, m) PROVE Asked(u) /\ (Active(u, 0) => holder # None)
  <1>1. Active(u, 0) => holder \in {"hub", "disk"} BY DEF Kept, Reports, Firmware
  <1>2. CASE Active(u, 0) /\ holder = "hub" BY <1>2 DEF Kept, Owned, Asked, None
  <1>3. CASE Active(u, 0) /\ holder = "disk"
    <2>1. disk.pc # "idle" /\ Asks(disk, u.pipe[0]) BY <1>3 DEF Kept, Owned
    <2>2. HeardOf(disk, u, holder) = disk BY <1>3 DEF HeardOf, Active
    <2>3. disk.cmd \in Cmd /\ disk.to \in Address BY <2>1, <2>2 DEF Kept, Sync
    <2>4. disk.pc \in {"cbw", "data", "csw"} BY <2>1 DEF Firmware, DiskRec
    <2>5. u.pipe[0].op = "out" => u.pipe[0].data \in Cmd \cup {Bytes} BY <2>1, <2>3, <2>4 DEF Asks
    <2>6. u.pipe[0].to \in Address BY <2>1, <2>3 DEF Asks
    <2>7. Asked(u) BY <2>5, <2>6 DEF Asked
    <2>8. QED BY <1>3, <2>7, <1>1 DEF None
  <1>4. CASE ~Active(u, 0) BY <1>4 DEF Asked
  <1>5. QED BY <1>1, <1>2, <1>3, <1>4 DEF None

LEMMA ScanPipeKeeps ==
  ASSUME Firmware, NEW u, NEW m, Kept(u, m), NEW n \in Pipe, NEW s \in ScanPipe(<< u, m >>, n)
  PROVE  Kept(s[1], s[2]) /\ s = << s[1], s[2] >>
  <1>1. CASE ~Passes(u, n)
    <2>1. s = << u, m >> BY <1>1 DEF ScanPipe
    <2>2. s[1] = u /\ s[2] = m BY <2>1
    <2>3. QED BY <2>1, <2>2
  <1>2. CASE Passes(u, n)
    <2>0. u \in Usb /\ m \in Media /\ Opened(u) BY DEF Kept
    <2>1. s \in Attempt(u, m, n) BY <1>2 DEF ScanPipe
    <2>2. Asked(u) /\ (Active(u, 0) => holder # None) BY KeptAsked
    <2>3. s = << s[1], s[2] >> BY <2>1 DEF Attempt, Outcome
    <2> DEFINE t == Stamped(u, n)
    <2>4. /\ t \in Usb /\ SameDevices(u, t) /\ SameRequest(u.pipe[n], t.pipe[n]) /\ t.pipe[n].data = u.pipe[n].data
      BY <2>0, StampedFacts
    <2>5. \E a \in Answers(t, m, t.pipe[n]) : Answered(t, m, n, a) /\ Tried(u, m, n, a, s)
      BY <1>2, <2>0, <2>1, <2>2, AttemptFacts
    <2> HIDE DEF t
    <2>6. PICK a \in Answers(t, m, t.pipe[n]) : Answered(t, m, n, a) /\ Tried(u, m, n, a, s) BY <2>5
    <2>7. Active(u, n) BY <1>2 DEF Passes
    <2>8. (n = 1 => a \in HubStatus(t, m)) /\ (n = 2 => a \in KeyReport(t, m))
      <3>1. u.pipe[n].command BY <2>7 DEF Active
      <3>2. n = 1 => t.pipe[n].to = "hub_ep1" BY <2>0, <2>4, <3>1 DEF Opened, Automatic, SameRequest
      <3>3. n = 2 => t.pipe[n].to = "keyboard" BY <2>0, <2>4, <3>1 DEF Opened, Automatic, SameRequest
      <3>4. n = 1 => a \in HubStatus(t, m) BY <2>6, <3>2, AnswersOfPorts
      <3>5. n = 2 => a \in KeyReport(t, m) BY <2>6, <3>3, AnswersOfKeyboard
      <3>6. QED BY <3>4, <3>5
    <2>9. t.kbd = u.kbd /\ t.port = u.port BY <2>4 DEF SameDevices
    <2>10. s[1] \in Usb /\ s[2] \in Media BY <2>6 DEF Tried
    <2>11. Reports(s[1], input, sem, hub, waiting) /\ Rings(s[1], isr) /\ Opened(s[1]) /\ Boots(s[1], input, hub)
      <3>1. /\ Reports(u, input, sem, hub, waiting) /\ Rings(u, isr) /\ Boots(u, input, hub)
            /\ input \in Seq(Word) /\ sem \in BOOLEAN /\ waiting \in BOOLEAN /\ isr \in BOOLEAN
        BY InputWords DEF Kept, Firmware
      <3>2. QED BY <1>2, <2>0, <2>6, <3>1, TriedReports
    <2>12. KeysKept(s[1], shown)
      <3>1. KeysKept(u, shown) /\ shown \in Nat BY DEF Kept, Firmware
      <3>2. QED BY <2>0, <2>4, <2>6, <2>7, <2>8, <2>9, <3>1, TriedKeys
    <2>13. Noticed(s[1], hub) /\ Ports(s[1], hub)
      <3>1. Noticed(u, hub) /\ Ports(u, hub) BY DEF Kept
      <3>2. QED BY <2>0, <2>4, <2>6, <2>7, <2>8, <2>9, <3>1, TriedPorts
    <2>14. Owned(s[1], holder, disk) /\ HeardOf(disk, s[1], holder) \in DiskRec /\ Sync(HeardOf(disk, s[1], holder), s[1], s[2])
      <3>1. /\ disk \in DiskRec /\ holder \in {None, "hub", "disk"} /\ Owned(u, holder, disk) /\ Ports(u, hub)
            /\ HeardOf(disk, u, holder) \in DiskRec /\ Sync(HeardOf(disk, u, holder), u, m)
        BY DEF Kept, Firmware
      <3>2. QED BY <2>0, <2>2, <2>4, <2>6, <2>7, <3>1, TriedDisk
    <2>15. Kept(s[1], s[2]) BY <2>10, <2>11, <2>12, <2>13, <2>14 DEF Kept
    <2>16. QED BY <2>3, <2>15
  <1>3. QED BY <1>1, <1>2

(* The driver hears the same from a device that looks the same.               *)
LEMMA KeptHeard ==
  ASSUME NEW u, NEW m, Kept(u, m), NEW v, v.port = u.port, v.store = u.store,
         v.pipe[0].paused = u.pipe[0].paused, v.pipe[0].result = u.pipe[0].result, v.pipe[0].data = u.pipe[0].data
  PROVE  HeardOf(disk, v, holder) \in DiskRec /\ Sync(HeardOf(disk, v, holder), v, m)
  <1>1. HeardOf(disk, v, holder) = HeardOf(disk, u, holder) BY HeardSame DEF HeardOf
  <1> DEFINE e == HeardOf(disk, u, holder)
  <1>2. e \in DiskRec /\ Sync(e, u, m) BY DEF Kept
  <1> HIDE DEF e
  <1>3. Sync(e, v, m) BY <1>2, SyncSame
  <1>4. QED BY <1>1, <1>2, <1>3 DEF e

LEMMA RescheduleKeeps ==
  ASSUME NEW u, NEW m, Kept(u, m)
  PROVE  Kept(Reschedule(u), m) /\ Reschedule(u).scanIn # 0 /\ Scheduled(Reschedule(u)) /\ Reschedule(u).pipe = u.pipe
  <1> DEFINE v == Reschedule(u)
  <1>1. u \in Usb BY DEF Kept
  <1>2. /\ v \in Usb /\ v.link = u.link /\ v.pipe = u.pipe /\ v.fifo = u.fifo /\ v.irq = u.irq /\ SameDevices(u, v)
        /\ v.scanIn # 0 /\ Scheduled(v)
    BY <1>1, RescheduleFacts
  <1> HIDE DEF v
  <1>3. v.port = u.port /\ v.store = u.store /\ v.kbd = u.kbd BY <1>2 DEF SameDevices
  <1>4. Reports(v, input, sem, hub, waiting) BY <1>2 DEF Kept, Reports, Owes, Active
  <1>5. Rings(v, isr) BY <1>2 DEF Kept, Rings
  <1>6. Opened(v) BY <1>2 DEF Kept, Opened
  <1>7. Boots(v, input, hub) BY <1>2, <1>3 DEF Kept, Boots
  <1>8. KeysKept(v, shown) BY <1>2, <1>3 DEF Kept, KeysKept
  <1>9. Noticed(v, hub) /\ Ports(v, hub) BY <1>2, <1>3 DEF Kept, Noticed, Ports
  <1>10. Owned(v, holder, disk) BY <1>2 DEF Kept, Owned, Active
  <1>11. HeardOf(disk, v, holder) \in DiskRec /\ Sync(HeardOf(disk, v, holder), v, m) BY <1>2, <1>3, KeptHeard
  <1>12. m \in Media BY DEF Kept
  <1>13. Kept(v, m) BY <1>2, <1>4, <1>5, <1>6, <1>7, <1>8, <1>9, <1>10, <1>11, <1>12 DEF Kept
  <1>14. QED BY <1>2, <1>13 DEF v

LEMMA TickKeeps ==
  ASSUME Firmware, NEW u, NEW m, Kept(u, m), NEW s \in Tick(u, m)
  PROVE  Kept(s[1], s[2]) /\ (Due(u) => s[1].scanIn # 0 /\ Scheduled(s[1])) /\ (~Due(u) => s = << u, m >>)
  <1>1. CASE ~Due(u)
    <2>1. s = << u, m >> BY <1>1 DEF Tick
    <2>2. s[1] = u /\ s[2] = m BY <2>1
    <2>3. QED BY <1>1, <2>1, <2>2
  <1>2. CASE Due(u)
    <2>0. 0 \in Pipe /\ 1 \in Pipe /\ 2 \in Pipe BY DEF Pipe
    <2>1. PICK s3 \in Scan(u, m) : s = << Reschedule(s3[1]), s3[2] >> BY <1>2 DEF Tick
    <2>2. PICK s0 \in ScanPipe(<< u, m >>, 0) : s3 \in UNION { ScanPipe(s1, 2) : s1 \in ScanPipe(s0, 1) } BY <2>1 DEF Scan
    <2>3. PICK s1 \in ScanPipe(s0, 1) : s3 \in ScanPipe(s1, 2) BY <2>2
    <2>4. Kept(s0[1], s0[2]) /\ s0 = << s0[1], s0[2] >> BY <2>0, <2>2, ScanPipeKeeps
    <2>5. Kept(s1[1], s1[2]) /\ s1 = << s1[1], s1[2] >>
      <3>1. s1 \in ScanPipe(<< s0[1], s0[2] >>, 1) BY <2>3, <2>4
      <3>2. QED BY <2>0, <2>4, <3>1, ScanPipeKeeps
    <2>6. Kept(s3[1], s3[2])
      <3>1. s3 \in ScanPipe(<< s1[1], s1[2] >>, 2) BY <2>3, <2>5
      <3>2. QED BY <2>0, <2>5, <3>1, ScanPipeKeeps
    <2>7. s[1] = Reschedule(s3[1]) /\ s[2] = s3[2] BY <2>1
    <2>8. QED BY <1>2, <2>6, <2>7, RescheduleKeeps
  <1>3. QED BY <1>1, <1>2

----------------------------------------------------------------------------
(* Steps of the device and of the host: the firmware stands still.            *)

LEMMA DeviceStep ==
  ASSUME HostInv, UNCHANGED firmware, spent' \in Nat, Kept(usb', media'), Scheduled(usb'),
         hub.pc = "clear" => ~usb'.pipe[1].paused /\ usb'.scanIn # 0
  PROVE  HostInv'
  <1>1. /\ isr' = isr /\ input' = input /\ sem' = sem /\ holder' = holder /\ waiting' = waiting /\ hub' = hub /\ disk' = disk
        /\ shown' = shown
    BY DEF firmware
  <1>2. usb' \in Usb /\ media' \in Media BY DEF Kept
  <1>3. Firmware' BY <1>1 DEF HostInv, TypeOK, Firmware
  <1>4. TypeOK' BY <1>2, <1>3 DEF TypeOK
  <1>5. Kept(usb, media)' BY <1>1 DEF Kept
  <1>6. Turns' BY <1>1 DEF HostInv, Turns
  <1>7. QED BY <1>4, <1>5, <1>6 DEF HostInv

LEMMA ScanTickKeeps == ASSUME HostInv, ScanTick PROVE HostInv'
  <1>1. PICK s \in Tick(usb, media) : usb' = s[1] /\ media' = s[2] BY DEF ScanTick
  <1>2. Due(usb) /\ UNCHANGED firmware /\ spent' = spent BY DEF ScanTick
  <1>3. Firmware /\ Kept(usb, media) /\ spent \in Nat BY DEF HostInv, TypeOK
  <1>4. Kept(usb', media') /\ Scheduled(usb') BY <1>1, <1>2, <1>3, TickKeeps
  <1>5. hub.pc # "clear" BY <1>2 DEF HostInv, Turns, Due
  <1>6. QED BY <1>2, <1>3, <1>4, <1>5, DeviceStep

(* A port that is not enabled tells the driver nothing.                      *)
LEMMA SyncOff ==
  ASSUME NEW d, NEW u, NEW v, ~u.port.enabled, ~v.port.enabled, NEW m, Sync(d, u, m) PROVE Sync(d, v, m)
  BY DEF Sync

LEMMA PlugInKeeps == ASSUME HostInv, PlugIn PROVE HostInv'
  <1>0. Firmware /\ Kept(usb, media) /\ spent \in Nat /\ Scheduled(usb) BY DEF HostInv, TypeOK
  <1> DEFINE plugged(k) == [usb EXCEPT !.port = [usb.port EXCEPT !.in = TRUE, !.change = usb.port.powered, !.medium = k],
                                       !.store = IF k = usb.port.medium THEN @ ELSE StoreReset(@)]
  <1>1. PICK k \in Medium : \E s \in Tick(plugged(k), media) : usb' = s[1] /\ media' = s[2] BY DEF PlugIn
  <1> DEFINE u == plugged(k)
  <1> DEFINE port == [usb.port EXCEPT !.in = TRUE, !.change = usb.port.powered, !.medium = k]
  <1> DEFINE store == IF k = usb.port.medium THEN usb.store ELSE StoreReset(usb.store)
  <1>2. PICK s \in Tick(u, media) : usb' = s[1] /\ media' = s[2] BY <1>1
  <1>3. ~usb.port.in /\ ~usb.port.change /\ UNCHANGED firmware /\ spent' = spent BY DEF PlugIn
  <1>4. usb \in Usb /\ usb.port \in PortRec /\ usb.store \in Store BY <1>0 DEF Kept, Usb
  <1>5. port \in PortRec /\ port.in = TRUE /\ port.enabled = usb.port.enabled BY <1>4 DEF PortRec
  <1>6. store \in Store
    <2>1. StoreReset(usb.store) \in Store BY DEF StoreReset, Store, Phase, NoData
    <2>2. QED BY <1>4, <2>1
  <1>7. u = [usb EXCEPT !.port = port, !.store = store] BY <1>4 DEF Usb
  <1> HIDE DEF u, port, store
  <1>8. /\ u \in Usb /\ u.link = usb.link /\ u.pipe = usb.pipe /\ u.fifo = usb.fifo /\ u.irq = usb.irq /\ u.scanIn = usb.scanIn
        /\ u.kbd = usb.kbd /\ u.port = port
    BY <1>4, <1>5, <1>6, <1>7 DEF Usb
  <1>9. ~usb.port.enabled /\ ~u.port.enabled BY <1>0, <1>3, <1>5, <1>8 DEF Kept, Ports
  <1>10. Kept(u, media)
    <2>1. Reports(u, input, sem, hub, waiting) BY <1>0, <1>8 DEF Kept, Reports, Owes, Active
    <2>2. Rings(u, isr) BY <1>0, <1>8 DEF Kept, Rings
    <2>3. Opened(u) BY <1>0, <1>8 DEF Kept, Opened
    <2>4. Boots(u, input, hub) BY <1>0, <1>8, <1>9 DEF Kept, Boots
    <2>5. KeysKept(u, shown) BY <1>0, <1>8 DEF Kept, KeysKept
    <2>6. Noticed(u, hub) BY <1>0, <1>3, <1>8 DEF Kept, Noticed
    <2>7. Ports(u, hub) BY <1>9 DEF Ports
    <2>8. Owned(u, holder, disk) BY <1>0, <1>8 DEF Kept, Owned, Active
    <2>9. HeardOf(disk, u, holder) = HeardOf(disk, usb, holder) BY <1>8 DEF HeardOf
    <2> DEFINE e == HeardOf(disk, usb, holder)
    <2>10. e \in DiskRec /\ Sync(e, usb, media) /\ media \in Media BY <1>0 DEF Kept
    <2> HIDE DEF e
    <2>11. Sync(e, u, media) BY <1>9, <2>10, SyncOff
    <2>12. HeardOf(disk, u, holder) \in DiskRec /\ Sync(HeardOf(disk, u, holder), u, media) BY <2>9, <2>10, <2>11 DEF e
    <2>13. QED BY <1>8, <2>1, <2>2, <2>3, <2>4, <2>5, <2>6, <2>7, <2>8, <2>10, <2>12 DEF Kept
  <1>11. Scheduled(u) BY <1>0, <1>8 DEF Scheduled, FifoFull, Active
  <1>12. Kept(usb', media') /\ (Due(u) => usb'.scanIn # 0 /\ Scheduled(usb')) /\ (~Due(u) => usb' = u /\ media' = media)
    BY <1>0, <1>2, <1>10, TickKeeps
  <1>13. Scheduled(usb') BY <1>11, <1>12
  <1>14. hub.pc = "clear" => ~usb'.pipe[1].paused /\ usb'.scanIn # 0
    <2>1. hub.pc = "clear" => ~usb.pipe[1].paused /\ usb.scanIn # 0 BY DEF HostInv, Turns
    <2>2. QED BY <1>8, <1>12, <2>1 DEF Due
  <1>15. QED BY <1>0, <1>3, <1>12, <1>13, <1>14, DeviceStep

(* The clocks of a pipe.                                                     *)
LEMMA AgedFacts ==
  ASSUME NEW p \in PipeRec, NEW k \in Nat
  PROVE  /\ Aged(p, k) \in PipeRec /\ SameRequest(p, Aged(p, k)) /\ Aged(p, k).paused = p.paused /\ Aged(p, k).data = p.data
         /\ Aged(p, k).result = p.result
  <1> DEFINE since == Min({p.since + 1, k})
  <1> DEFINE started == IF p.started = Idle THEN Idle ELSE Min({p.started + 1, p.timeout})
  <1>1. p.since \in Nat /\ p.started \in Int /\ p.timeout \in Nat BY DEF PipeRec
  <1>2. since \in Nat
    <2>1. since = IF p.since + 1 <= k THEN p.since + 1 ELSE k BY <1>1, MinTwo
    <2> HIDE DEF since
    <2>2. QED BY <1>1, <2>1
  <1>3. started \in Int
    <2> DEFINE x == Min({p.started + 1, p.timeout})
    <2>1. x = IF p.started + 1 <= p.timeout THEN p.started + 1 ELSE p.timeout BY <1>1, MinTwo
    <2> HIDE DEF x
    <2>2. x \in Int BY <1>1, <2>1
    <2>3. QED BY <2>2 DEF Idle, x
  <1>4. Aged(p, k) = [p EXCEPT !.since = since, !.started = started] BY DEF Aged, PipeRec
  <1> HIDE DEF since, started
  <1>5. QED BY <1>2, <1>3, <1>4 DEF PipeRec, SameRequest

LEMMA FrameKeeps == ASSUME HostInv, Frame PROVE HostInv'
  <1>0. Kept(usb, media) /\ spent \in Nat /\ Scheduled(usb) BY DEF HostInv, TypeOK
  <1> DEFINE pipe == [n \in Pipe |-> Aged(usb.pipe[n], Interval(n))]
  <1> DEFINE next == IF usb.scanIn = Idle THEN Idle ELSE usb.scanIn - 1
  <1> DEFINE u == usb'
  <1>1. /\ ~Due(usb) /\ hub.pc # "clear" /\ media' = media /\ UNCHANGED firmware /\ spent' = spent
        /\ u = [usb EXCEPT !.scanIn = next, !.pipe = pipe]
    BY <1>0 DEF Frame, Kept, Usb
  <1>2. usb \in Usb /\ usb.scanIn \in Int /\ usb.scanIn # 0 /\ \A n \in Pipe : usb.pipe[n] \in PipeRec BY <1>0, <1>1 DEF Kept, Usb, Due
  <1>3. next \in Int /\ (usb.scanIn # Idle => next # Idle) BY <1>2 DEF Idle
  <1>4. \A n \in Pipe : /\ pipe[n] \in PipeRec /\ SameRequest(usb.pipe[n], pipe[n]) /\ pipe[n].paused = usb.pipe[n].paused
                        /\ pipe[n].data = usb.pipe[n].data /\ pipe[n].result = usb.pipe[n].result
    BY <1>2, IntervalFacts, AgedFacts
  <1>5. pipe \in [Pipe -> PipeRec] BY <1>4
  <1> HIDE DEF pipe, next
  <1>6. /\ u \in Usb /\ u.link = usb.link /\ u.fifo = usb.fifo /\ u.irq = usb.irq /\ u.scanIn = next /\ u.pipe = pipe
        /\ u.kbd = usb.kbd /\ u.port = usb.port /\ u.store = usb.store
    BY <1>1, <1>2, <1>3, <1>5 DEF Usb
  <1> HIDE DEF u
  <1>7. \A n \in Pipe : /\ u.pipe[n].command = usb.pipe[n].command /\ u.pipe[n].abort = usb.pipe[n].abort /\ u.pipe[n].to = usb.pipe[n].to
                        /\ u.pipe[n].op = usb.pipe[n].op /\ u.pipe[n].timeout = usb.pipe[n].timeout
                        /\ u.pipe[n].paused = usb.pipe[n].paused
                        /\ u.pipe[n].data = usb.pipe[n].data /\ u.pipe[n].result = usb.pipe[n].result
    BY <1>4, <1>6 DEF SameRequest
  <1>8. 0 \in Pipe /\ 1 \in Pipe /\ 2 \in Pipe BY DEF Pipe
  <1>9. \A n \in Pipe : Active(u, n) <=> Active(usb, n) BY <1>7 DEF Active
  <1>10. Kept(u, media)
    <2>1. Reports(u, input, sem, hub, waiting)
      <3>1. \A n \in Pipe : Owes(u, n, waiting) = Owes(usb, n, waiting) BY <1>7 DEF Owes
      <3>2. QED BY <1>0, <1>6, <1>8, <1>9, <3>1 DEF Kept, Reports
    <2>2. Rings(u, isr) BY <1>0, <1>6 DEF Kept, Rings
    <2>3. Opened(u) BY <1>0, <1>7, <1>8 DEF Kept, Opened, Automatic
    <2>4. Boots(u, input, hub) BY <1>0, <1>6, <1>7, <1>8 DEF Kept, Boots
    <2>5. KeysKept(u, shown) BY <1>0, <1>6, <1>7, <1>8 DEF Kept, KeysKept
    <2>6. Noticed(u, hub) BY <1>0, <1>6, <1>7, <1>8 DEF Kept, Noticed
    <2>7. Ports(u, hub) BY <1>0, <1>6 DEF Kept, Ports
    <2>8. Owned(u, holder, disk) BY <1>0, <1>7, <1>8, <1>9 DEF Kept, Owned, Asks
    <2>9. HeardOf(disk, u, holder) \in DiskRec /\ Sync(HeardOf(disk, u, holder), u, media) BY <1>0, <1>6, <1>7, <1>8, KeptHeard
    <2>10. media \in Media BY <1>0 DEF Kept
    <2>11. QED BY <1>6, <2>1, <2>2, <2>3, <2>4, <2>5, <2>6, <2>7, <2>8, <2>9, <2>10 DEF Kept
  <1>11. Scheduled(u) BY <1>0, <1>3, <1>6, <1>9 DEF Scheduled, FifoFull
  <1>12. Kept(usb', media') /\ Scheduled(usb') BY <1>1, <1>10, <1>11 DEF u
  <1>13. QED BY <1>0, <1>1, <1>12, DeviceStep

LEMMA AttachedKeeps == ASSUME HostInv, Attached PROVE HostInv'
  <1>0. Kept(usb, media) /\ spent \in Nat /\ Firmware BY DEF HostInv, TypeOK
  <1> DEFINE t == [usb EXCEPT !.link = "attached"]
  <1> DEFINE u == usb'
  <1>1. /\ usb.link = "attaching" /\ u = Push(t, Attach) /\ media' = media /\ UNCHANGED firmware /\ spent' = spent
    BY DEF Attached
  <1>2. usb \in Usb /\ usb.fifo = << >> BY <1>0, <1>1 DEF Kept, Boots
  <1>3. /\ t \in Usb /\ t.link = "attached" /\ t.pipe = usb.pipe /\ t.fifo = << >> /\ t.scanIn = usb.scanIn /\ t.port = usb.port
        /\ t.store = usb.store /\ t.kbd = usb.kbd
    BY <1>2 DEF Usb
  <1>4. Attach \in Word /\ Attach \notin Pipe BY DEF Attach, Word, Pipe
  <1> HIDE DEF t, u
  <1>5. ~FifoFull(t)
    <2>1. FifoLen \in Nat /\ FifoLen > 1 BY Sizes
    <2>2. QED BY <1>3, <2>1 DEF FifoFull
  <1>6. u \in Usb /\ u.link = t.link /\ u.pipe = t.pipe /\ u.scanIn = t.scanIn /\ u.irq = TRUE /\ SameDevices(t, u)
        /\ u.fifo = Append(t.fifo, Attach)
    BY <1>1, <1>3, <1>4, <1>5, PushFacts
  <1>7. u.link = "attached" /\ u.pipe = usb.pipe /\ u.port = usb.port /\ u.store = usb.store /\ u.kbd = usb.kbd
        /\ u.fifo = Append(<< >>, Attach)
    BY <1>3, <1>6 DEF SameDevices
  <1>8. Len(u.fifo) = 1 /\ u.fifo # << >> BY <1>7
  <1>9. \A w : Count(u.fifo, w) = IF w = Attach THEN 1 ELSE 0
    <2>1. << >> \in Seq(Word) OBVIOUS
    <2> DEFINE none == << >>
    <2> HIDE DEF none
    <2>2. none \in Seq(Word) /\ u.fifo = Append(none, Attach) BY <1>7, <2>1 DEF none
    <2>3. \A w : Count(u.fifo, w) = Count(none, w) + (IF Attach = w THEN 1 ELSE 0) BY <1>4, <2>2, CountAppend
    <2>4. \A w : Count(none, w) = 0 BY CountEmpty DEF none
    <2>5. QED BY <2>3, <2>4
  <1>10. Kept(u, media)
    <2>1. Reports(u, input, sem, hub, waiting)
      <3>1. \A n \in Pipe : Count(u.fifo, n) = 0 BY <1>4, <1>9
      <3>2. \A n \in Pipe : Count(usb.fifo, n) = 0 BY <1>2, CountEmpty
      <3>3. \A n \in Pipe : Owes(u, n, waiting) = Owes(usb, n, waiting) BY <1>7 DEF Owes
      <3>4. QED BY <1>0, <1>7, <3>1, <3>2, <3>3 DEF Kept, Reports, Active
    <2>2. Rings(u, isr)
      <3>1. FifoLen \in Nat /\ FifoLen > 1 BY Sizes
      <3>2. QED BY <1>6, <1>8, <3>1 DEF Rings
    <2>3. Opened(u) BY <1>0, <1>7 DEF Kept, Opened
    <2>4. Boots(u, input, hub)
      <3>1. Count(usb.fifo, Attach) = 0 BY <1>2, CountEmpty
      <3>2. Count(input, Attach) \in Nat BY <1>0, InputWords, CountType
      <3>3. Count(input, Attach) = 0 BY <1>0, <1>1, <3>1, <3>2 DEF Kept, Boots
      <3>4. hub.pc # "start" /\ hub.pc \in {"start", "boot"} BY <1>0, <1>1 DEF Kept, Boots
      <3>5. QED BY <1>0, <1>7, <1>9, <3>3, <3>4 DEF Kept, Boots
    <2>5. KeysKept(u, shown) BY <1>0, <1>7 DEF Kept, KeysKept
    <2>6. Noticed(u, hub) BY <1>0, <1>7 DEF Kept, Noticed
    <2>7. Ports(u, hub) BY <1>0, <1>7 DEF Kept, Ports
    <2>8. Owned(u, holder, disk) BY <1>0, <1>7 DEF Kept, Owned, Active
    <2>9. HeardOf(disk, u, holder) \in DiskRec /\ Sync(HeardOf(disk, u, holder), u, media) BY <1>0, <1>7, KeptHeard
    <2>10. media \in Media BY <1>0 DEF Kept
    <2>11. QED BY <1>6, <2>1, <2>2, <2>3, <2>4, <2>5, <2>6, <2>7, <2>8, <2>9, <2>10 DEF Kept
  <1>11. Scheduled(u) BY <1>7 DEF Scheduled
  <1>12. Kept(usb', media') /\ Scheduled(usb') BY <1>1, <1>10, <1>11 DEF u
  <1>13. hub.pc # "clear" BY <1>0, <1>1 DEF Kept, Boots
  <1>14. QED BY <1>0, <1>1, <1>12, <1>13, DeviceStep

LEMMA StoreResetFacts == ASSUME NEW x PROVE StoreReset(x) \in Store /\ StoreReset(x).phase.at = "command"
  <1>1. [at |-> "command"] \in Phase BY DEF Phase
  <1>2. QED BY <1>1 DEF StoreReset, Store, NoData

LEMMA RootResetFacts ==
  ASSUME NEW u \in Usb, NEW v, v = RootReset(u)
  PROVE  /\ v \in Usb /\ v.link = u.link /\ v.pipe = u.pipe /\ v.fifo = u.fifo /\ v.scanIn = u.scanIn /\ v.irq = u.irq
         /\ v.port.enabled = FALSE /\ v.port.change = FALSE /\ v.kbd.queue = << >> /\ v.kbd.report = u.kbd.report
  <1> DEFINE port == [u.port EXCEPT !.powered = FALSE, !.enabled = FALSE, !.change = FALSE, !.address = None]
  <1> DEFINE kbd == [u.kbd EXCEPT !.queue = << >>, !.told = FALSE]
  <1> DEFINE store == StoreReset(u.store)
  <1>1. u.port \in PortRec /\ u.kbd \in Kbd BY DEF Usb
  <1>2. port \in PortRec /\ port.enabled = FALSE /\ port.change = FALSE BY <1>1 DEF PortRec
  <1>3. kbd \in Kbd /\ kbd.queue = << >> /\ kbd.report = u.kbd.report
    <2>1. << >> \in Seq(Nat) OBVIOUS
    <2> DEFINE none == << >>
    <2> DEFINE k == [u.kbd EXCEPT !.queue = none, !.told = FALSE]
    <2> HIDE DEF none
    <2>2. k \in Kbd /\ k.queue = none /\ k.report = u.kbd.report
      <3>1. none \in Seq(Nat) BY <2>1 DEF none
      <3>2. QED BY <1>1, <3>1 DEF Kbd
    <2>3. k = kbd BY DEF none
    <2>4. QED BY <2>2, <2>3 DEF none
  <1>4. store \in Store BY StoreResetFacts
  <1>5. v = [u EXCEPT !.ep0 = "idle", !.port = port, !.store = store, !.kbd = kbd] BY DEF RootReset, Usb
  <1> HIDE DEF port, kbd, store
  <1>6. v \in Usb /\ v.link = u.link /\ v.pipe = u.pipe /\ v.fifo = u.fifo /\ v.scanIn = u.scanIn /\ v.irq = u.irq
        /\ v.port = port /\ v.kbd = kbd
    BY <1>2, <1>3, <1>4, <1>5 DEF Usb
  <1>7. QED BY <1>2, <1>3, <1>6

(* No pipe is in use before the driver installs the devices.                 *)
LEMMA BeforeInstall ==
  ASSUME HostInv, hub.pc \in {"start", "boot"}
  PROVE  /\ \A n \in Pipe : ~usb.pipe[n].command /\ Count(usb.fifo, n) = 0 /\ Count(input, n) = 0
         /\ ~sem /\ holder = None /\ disk.pc = "idle" /\ ~usb.port.enabled /\ hub.changed = FALSE /\ hub.child = None
         /\ HeardOf(disk, usb, holder) = disk /\ Honest(disk, media)
  <1>0. Kept(usb, media) /\ Firmware /\ Turns BY DEF HostInv, TypeOK
  <1>1. (\A n \in Pipe : ~usb.pipe[n].command) /\ ~usb.port.enabled /\ ~hub.changed /\ hub.child = None BY <1>0 DEF Kept, Boots
  <1>2. \A n \in Pipe : Count(usb.fifo, n) = 0 /\ Behind(input, sem, hub, n) = 0
    <2> SUFFICES ASSUME NEW n \in Pipe PROVE Count(usb.fifo, n) = 0 /\ Behind(input, sem, hub, n) = 0
      OBVIOUS
    <2>1. Owes(usb, n, waiting) = 0 BY <1>1 DEF Owes
    <2>2. Count(usb.fifo, n) + Behind(input, sem, hub, n) = 0 BY <1>0, <2>1 DEF Kept, Reports
    <2>3. usb.fifo \in Seq(Word) BY <1>0 DEF Kept, Usb
    <2>4. Count(usb.fifo, n) \in Nat BY <2>3, CountType
    <2>5. Count(input, n) \in Nat BY <1>0, InputWords, CountType
    <2>6. Behind(input, sem, hub, n) \in Nat BY <2>5 DEF Behind
    <2>7. QED BY <2>2, <2>4, <2>6
  <1>3. \A n \in Pipe : Count(input, n) = 0
    <2> SUFFICES ASSUME NEW n \in Pipe PROVE Count(input, n) = 0
      OBVIOUS
    <2>1. Count(input, n) \in Nat BY <1>0, InputWords, CountType
    <2>2. QED BY <1>2, <2>1 DEF Behind
  <1>4. ~sem
    <2>1. 0 \in Pipe BY DEF Pipe
    <2>2. QED BY <1>2, <1>3, <2>1 DEF Behind
  <1>5. holder = None
    <2>1. holder # "disk"
      <3>1. holder = "disk" => usb.pipe[0].command BY <1>0 DEF Kept, Owned
      <3>2. 0 \in Pipe BY DEF Pipe
      <3>3. QED BY <1>1, <3>1, <3>2
    <2>2. holder # "hub" BY <1>0 DEF Turns
    <2>3. QED BY <1>0, <2>1, <2>2 DEF Firmware
  <1>6. disk.pc = "idle" BY <1>0 DEF Turns
  <1>7. HeardOf(disk, usb, holder) = disk BY <1>5 DEF HeardOf, None
  <1>8. Honest(disk, media) BY <1>0, <1>6, <1>7 DEF Kept, Sync
  <1>9. hub.changed = FALSE BY <1>0, <1>1 DEF Firmware, HubRec
  <1>10. QED BY <1>1, <1>2, <1>3, <1>4, <1>5, <1>6, <1>7, <1>8, <1>9

LEMMA BusResetEndsKeeps == ASSUME HostInv, BusResetEnds PROVE HostInv'
  <1>0. Kept(usb, media) /\ spent \in Nat /\ Firmware BY DEF HostInv, TypeOK
  <1> DEFINE r == RootReset(usb)
  <1> DEFINE t == [r EXCEPT !.link = "running"]
  <1>1. usb.link = "resetting" /\ usb' = Reschedule(t) /\ media' = media /\ UNCHANGED firmware /\ spent' = spent
    BY DEF BusResetEnds
  <1>2. usb \in Usb BY <1>0 DEF Kept
  <1>3. /\ r \in Usb /\ r.link = usb.link /\ r.pipe = usb.pipe /\ r.fifo = usb.fifo /\ r.irq = usb.irq
        /\ r.port.enabled = FALSE /\ r.port.change = FALSE /\ r.kbd.queue = << >> /\ r.kbd.report = usb.kbd.report
    BY <1>2, RootResetFacts
  <1> HIDE DEF r
  <1>4. /\ t \in Usb /\ t.link = "running" /\ t.pipe = usb.pipe /\ t.fifo = usb.fifo /\ t.irq = usb.irq
        /\ t.port.enabled = FALSE /\ t.port.change = FALSE /\ t.kbd.queue = << >> /\ t.kbd.report = usb.kbd.report
    BY <1>3 DEF Usb
  <1>5. hub.pc \in {"start", "boot"} /\ hub.pc # "start" BY <1>0, <1>1 DEF Kept, Boots
  <1>6. /\ \A n \in Pipe : ~usb.pipe[n].command
        /\ holder = None /\ disk.pc = "idle" /\ ~usb.port.enabled /\ HeardOf(disk, usb, holder) = disk /\ Honest(disk, media)
    BY <1>5, BeforeInstall
  <1> HIDE DEF t
  <1>7. 1 \in Pipe /\ 2 \in Pipe BY DEF Pipe
  <1>8. Kept(t, media)
    <2>1. Reports(t, input, sem, hub, waiting) BY <1>0, <1>4 DEF Kept, Reports, Owes, Active
    <2>2. Rings(t, isr) BY <1>0, <1>4 DEF Kept, Rings
    <2>3. Opened(t) BY <1>4, <1>6, <1>7 DEF Opened, Automatic
    <2>4. Boots(t, input, hub) BY <1>0, <1>1, <1>4, <1>5, <1>6 DEF Kept, Boots
    <2>5. KeysKept(t, shown)
      <3>1. ~t.pipe[2].command BY <1>4, <1>6, <1>7
      <3>2. Len(t.kbd.queue) = 0 BY <1>4
      <3>3. shown <= t.kbd.report BY <1>0, <1>4 DEF Kept, KeysKept
      <3>4. \A i : i \notin 1 .. Len(t.kbd.queue) BY <3>2
      <3>5. QED BY <1>4, <3>1, <3>3, <3>4 DEF KeysKept
    <2>6. Noticed(t, hub) BY <1>4, <1>6, <1>7 DEF Noticed
    <2>7. Ports(t, hub) BY <1>4 DEF Ports
    <2>8. Owned(t, holder, disk) BY <1>6 DEF Owned, None
    <2>9. HeardOf(disk, t, holder) = disk BY <1>6 DEF HeardOf, None
    <2>10. Sync(disk, t, media) BY <1>4, <1>6 DEF Sync
    <2>11. disk \in DiskRec /\ media \in Media BY <1>0 DEF Kept, Firmware
    <2>12. QED BY <1>4, <2>1, <2>2, <2>3, <2>4, <2>5, <2>6, <2>7, <2>8, <2>9, <2>10, <2>11 DEF Kept
  <1>9. Kept(usb', media') /\ Scheduled(usb') BY <1>1, <1>8, RescheduleKeeps
  <1>10. hub.pc # "clear" BY <1>5
  <1>11. QED BY <1>0, <1>1, <1>9, <1>10, DeviceStep

LEMMA DiskAbortKeeps == ASSUME HostInv, DiskAbort PROVE HostInv'
  <1>0. Kept(usb, media) /\ spent \in Nat /\ Turns BY DEF HostInv, TypeOK
  <1> DEFINE p == [usb.pipe[0] EXCEPT !.abort = TRUE]
  <1> DEFINE t == [usb EXCEPT !.pipe = [usb.pipe EXCEPT ![0] = p]]
  <1>1. usb \in Usb /\ usb.pipe \in [Pipe -> PipeRec] /\ 0 \in Pipe /\ 1 \in Pipe /\ 2 \in Pipe BY <1>0 DEF Kept, Usb, Pipe
  <1>2. usb' = Reschedule(t) /\ media' = media /\ UNCHANGED firmware /\ spent' = spent
    <2>1. t = [usb EXCEPT !.pipe[0].abort = TRUE] BY <1>1 DEF Usb, PipeRec
    <2>2. QED BY <2>1 DEF DiskAbort
  <1>3. /\ p \in PipeRec /\ p.command = usb.pipe[0].command /\ p.paused = usb.pipe[0].paused /\ p.to = usb.pipe[0].to
        /\ p.op = usb.pipe[0].op /\ p.data = usb.pipe[0].data /\ p.result = usb.pipe[0].result
    <2> DEFINE o == usb.pipe[0]
    <2> HIDE DEF o
    <2>1. o \in PipeRec BY <1>1 DEF o
    <2>2. [o EXCEPT !.abort = TRUE] \in PipeRec BY <2>1 DEF PipeRec
    <2> DEFINE x == [o EXCEPT !.abort = TRUE]
    <2>3. x.command = o.command /\ x.paused = o.paused /\ x.to = o.to /\ x.op = o.op /\ x.data = o.data /\ x.result = o.result
      BY <2>1 DEF PipeRec
    <2>4. QED BY <2>2, <2>3 DEF o
  <1> HIDE DEF p
  <1>4. [usb.pipe EXCEPT ![0] = p] \in [Pipe -> PipeRec] BY <1>1, <1>3
  <1>5. /\ t \in Usb /\ t.link = usb.link /\ t.fifo = usb.fifo /\ t.irq = usb.irq /\ t.kbd = usb.kbd /\ t.port = usb.port
        /\ t.store = usb.store /\ t.pipe = [usb.pipe EXCEPT ![0] = p]
    BY <1>1, <1>4 DEF Usb
  <1> HIDE DEF t
  <1>6. t.pipe[0] = p /\ t.pipe[1] = usb.pipe[1] /\ t.pipe[2] = usb.pipe[2] BY <1>1, <1>5
  <1>7. \A n \in Pipe : t.pipe[n].command = usb.pipe[n].command /\ t.pipe[n].paused = usb.pipe[n].paused
                        /\ t.pipe[n].data = usb.pipe[n].data
    BY <1>3, <1>6 DEF Pipe
  <1>8. Active(t, 0) <=> Active(usb, 0) BY <1>1, <1>7 DEF Active
  <1>9. Kept(t, media)
    <2>1. Reports(t, input, sem, hub, waiting)
      <3>1. \A n \in Pipe : Owes(t, n, waiting) = Owes(usb, n, waiting) BY <1>7 DEF Owes
      <3>2. QED BY <1>0, <1>5, <1>8, <3>1 DEF Kept, Reports
    <2>2. Rings(t, isr) BY <1>0, <1>5 DEF Kept, Rings
    <2>3. Opened(t) BY <1>0, <1>6 DEF Kept, Opened
    <2>4. Boots(t, input, hub) BY <1>0, <1>5, <1>1, <1>7 DEF Kept, Boots
    <2>5. KeysKept(t, shown) BY <1>0, <1>5, <1>6 DEF Kept, KeysKept
    <2>6. Noticed(t, hub) BY <1>0, <1>5, <1>6 DEF Kept, Noticed
    <2>7. Ports(t, hub) BY <1>0, <1>5 DEF Kept, Ports
    <2>8. Owned(t, holder, disk) BY <1>0, <1>3, <1>6, <1>8 DEF Kept, Owned, Asks
    <2>9. HeardOf(disk, t, holder) \in DiskRec /\ Sync(HeardOf(disk, t, holder), t, media) BY <1>0, <1>3, <1>5, <1>6, KeptHeard
    <2>10. media \in Media BY <1>0 DEF Kept
    <2>11. QED BY <1>5, <2>1, <2>2, <2>3, <2>4, <2>5, <2>6, <2>7, <2>8, <2>9, <2>10 DEF Kept
  <1>10. Kept(usb', media') /\ Scheduled(usb') BY <1>2, <1>9, RescheduleKeeps
  <1>11. hub.pc = "clear" => ~usb'.pipe[1].paused /\ usb'.scanIn # 0
    <2>1. usb'.pipe = t.pipe /\ usb'.scanIn # 0 BY <1>2, <1>9, RescheduleKeeps
    <2>2. QED BY <1>0, <1>6, <2>1 DEF Turns
  <1>12. QED BY <1>0, <1>2, <1>10, <1>11, DeviceStep

(* The newest report is last; at most the oldest one is gone.                 *)
LEMMA EnqueueFacts ==
  ASSUME NEW q \in Seq(Nat), NEW r \in Nat
  PROVE  /\ Enqueue(q, r) \in Seq(Nat) /\ Len(Enqueue(q, r)) >= 1 /\ Enqueue(q, r)[Len(Enqueue(q, r))] = r
         /\ \E k \in {0, 1} : \A i \in 1 .. Len(Enqueue(q, r)) - 1 : i + k \in 1 .. Len(q) /\ Enqueue(q, r)[i] = q[i + k]
  <1> DEFINE t == Tail(q)
  <1>1. CASE Len(q) = QueueLimit
    <2> DEFINE e == Append(t, r)
    <2>1. Enqueue(q, r) = e BY <1>1 DEF Enqueue
    <2>2. Len(q) \in Nat /\ Len(q) >= 1
      <3>1. QueueLimit \in Nat /\ QueueLimit > 0 BY Sizes
      <3>2. QED BY <1>1, <3>1
    <2>3. q # << >> BY <2>2
    <2>4. t \in Seq(Nat) /\ Len(t) = Len(q) - 1 /\ \A i \in 1 .. Len(t) : t[i] = q[i + 1] BY <2>3
    <2> HIDE DEF t
    <2>5. e \in Seq(Nat) /\ Len(e) = Len(t) + 1 /\ e[Len(e)] = r /\ \A i \in 1 .. Len(t) : e[i] = t[i] BY <2>4
    <2> HIDE DEF e
    <2>6. \A i \in 1 .. Len(e) - 1 : i + 1 \in 1 .. Len(q) /\ e[i] = q[i + 1] BY <2>2, <2>4, <2>5
    <2>7. QED BY <2>1, <2>2, <2>4, <2>5, <2>6
  <1>2. CASE Len(q) # QueueLimit
    <2> DEFINE e == Append(q, r)
    <2>1. Enqueue(q, r) = e BY <1>2 DEF Enqueue
    <2>2. e \in Seq(Nat) /\ Len(e) = Len(q) + 1 /\ Len(q) \in Nat /\ e[Len(e)] = r /\ \A i \in 1 .. Len(q) : e[i] = q[i] OBVIOUS
    <2> HIDE DEF e
    <2>3. \A i \in 1 .. Len(e) - 1 : i + 0 \in 1 .. Len(q) /\ e[i] = q[i + 0] BY <2>2
    <2>4. QED BY <2>1, <2>2, <2>3
  <1>3. QED BY <1>1, <1>2

LEMMA KeyKeeps == ASSUME HostInv, Key PROVE HostInv'
  <1>0. Kept(usb, media) /\ spent \in Nat /\ Turns /\ Firmware /\ Scheduled(usb) BY DEF HostInv, TypeOK
  <1> DEFINE r == usb.kbd.report + 1
  <1> DEFINE q == usb.kbd.queue
  <1> DEFINE e == Enqueue(q, r)
  <1> DEFINE kbd == [report |-> r, queue |-> e, told |-> TRUE]
  <1> DEFINE u == usb'
  <1>1. u = [usb EXCEPT !.kbd = kbd] /\ media' = media /\ UNCHANGED firmware /\ spent' = spent + 1 BY DEF Key, Event
  <1>2. usb \in Usb /\ q \in Seq(Nat) /\ usb.kbd.report \in Nat BY <1>0 DEF Kept, Usb, Kbd
  <1>3. r \in Nat BY <1>2
  <1> HIDE DEF r, q
  <1>4. e \in Seq(Nat) /\ Len(e) >= 1 /\ e[Len(e)] = r BY <1>2, <1>3, EnqueueFacts
  <1>5. PICK k \in {0, 1} : \A i \in 1 .. Len(e) - 1 : i + k \in 1 .. Len(q) /\ e[i] = q[i + k] BY <1>2, <1>3, EnqueueFacts
  <1> HIDE DEF e
  <1>6. kbd \in Kbd /\ kbd.report = r /\ kbd.queue = e BY <1>3, <1>4 DEF Kbd
  <1> HIDE DEF kbd
  <1>7. /\ u \in Usb /\ u.link = usb.link /\ u.pipe = usb.pipe /\ u.fifo = usb.fifo /\ u.irq = usb.irq /\ u.scanIn = usb.scanIn
        /\ u.port = usb.port /\ u.store = usb.store /\ u.kbd = kbd
    BY <1>1, <1>2, <1>6 DEF Usb
  <1> HIDE DEF u
  <1>8. KeysKept(u, shown)
    <2> DEFINE p == u.pipe[2]
    <2>1. /\ shown <= usb.kbd.report
          /\ \A i \in 1 .. Len(q) : shown <= q[i] /\ q[i] <= usb.kbd.report
          /\ \A i, j \in 1 .. Len(q) : i < j => q[i] < q[j]
          /\ p.command /\ p.paused => /\ p.data \in Nat /\ shown <= p.data /\ p.data <= usb.kbd.report
                                      /\ \A i \in 1 .. Len(q) : p.data < q[i]
      BY <1>0, <1>7 DEF Kept, KeysKept, q
    <2>2. shown \in Nat BY <1>0 DEF Firmware
    <2>3. usb.kbd.report < r /\ r = usb.kbd.report + 1 BY <1>2 DEF r
    <2>4. Len(e) \in Nat /\ \A i \in 1 .. Len(e) : e[i] \in Nat BY <1>4
    <2>5. \A i \in 1 .. Len(q) : q[i] \in Nat BY <1>2
    <2>6. \A i \in 1 .. Len(e) : (i \in 1 .. Len(e) - 1 /\ e[i] <= usb.kbd.report) \/ (i = Len(e) /\ e[i] = r)
      BY <1>4, <1>5, <2>1, <2>4
    <2>7. \A i \in 1 .. Len(e) : shown <= e[i] /\ e[i] <= r
      <3> SUFFICES ASSUME NEW i \in 1 .. Len(e) PROVE shown <= e[i] /\ e[i] <= r
        OBVIOUS
      <3>1. CASE i = Len(e) BY <1>2, <1>3, <1>4, <2>1, <2>2, <2>3, <3>1
      <3>2. CASE i \in 1 .. Len(e) - 1
        <4>1. i + k \in 1 .. Len(q) /\ e[i] = q[i + k] BY <1>5, <3>2
        <4>2. q[i + k] \in Nat /\ shown <= q[i + k] /\ q[i + k] <= usb.kbd.report BY <2>1, <2>5, <4>1
        <4>3. QED BY <1>2, <1>3, <2>2, <2>3, <4>1, <4>2
      <3>3. QED BY <2>6, <3>1, <3>2
    <2>8. \A i, j \in 1 .. Len(e) : i < j => e[i] < e[j]
      <3> SUFFICES ASSUME NEW i \in 1 .. Len(e), NEW j \in 1 .. Len(e), i < j PROVE e[i] < e[j]
        OBVIOUS
      <3>1. i \in 1 .. Len(e) - 1 /\ i + k \in 1 .. Len(q) /\ e[i] = q[i + k] BY <1>5, <2>4
      <3>2. CASE j = Len(e)
        <4>1. q[i + k] \in Nat /\ q[i + k] <= usb.kbd.report BY <2>1, <2>5, <3>1
        <4>2. e[j] = r BY <1>4, <3>2
        <4>3. QED BY <1>2, <1>3, <2>3, <3>1, <4>1, <4>2
      <3>3. CASE j \in 1 .. Len(e) - 1
        <4>1. j + k \in 1 .. Len(q) /\ e[j] = q[j + k] BY <1>5, <3>3
        <4>2. i + k < j + k OBVIOUS
        <4>3. QED BY <2>1, <3>1, <4>1, <4>2
      <3>4. QED BY <2>6, <3>2, <3>3
    <2>9. p.command /\ p.paused => \A i \in 1 .. Len(e) : p.data < e[i]
      <3> SUFFICES ASSUME p.command /\ p.paused, NEW i \in 1 .. Len(e) PROVE p.data < e[i]
        OBVIOUS
      <3>0. p.data \in Nat /\ p.data <= usb.kbd.report BY <2>1
      <3>1. CASE i = Len(e) BY <1>2, <1>3, <1>4, <2>3, <3>0, <3>1
      <3>2. CASE i \in 1 .. Len(e) - 1
        <4>1. i + k \in 1 .. Len(q) /\ e[i] = q[i + k] BY <1>5, <3>2
        <4>2. QED BY <2>1, <4>1
      <3>3. QED BY <2>6, <3>1, <3>2
    <2>10. p.command /\ p.paused => p.data \in Nat /\ shown <= p.data /\ p.data <= r BY <1>2, <1>3, <2>1, <2>3
    <2>11. shown <= r BY <1>2, <1>3, <2>1, <2>2, <2>3
    <2>12. e # << >> BY <1>4
    <2>13. u.kbd.queue = e /\ u.kbd.report = r BY <1>6, <1>7
    <2>14. QED BY <1>4, <2>7, <2>8, <2>9, <2>10, <2>11, <2>12, <2>13 DEF KeysKept
  <1>9. Kept(u, media)
    <2>1. Reports(u, input, sem, hub, waiting) BY <1>0, <1>7 DEF Kept, Reports, Owes, Active
    <2>2. Rings(u, isr) BY <1>0, <1>7 DEF Kept, Rings
    <2>3. Opened(u) BY <1>0, <1>7 DEF Kept, Opened
    <2>4. Boots(u, input, hub) BY <1>0, <1>7 DEF Kept, Boots
    <2>5. Noticed(u, hub) BY <1>0, <1>7 DEF Kept, Noticed
    <2>6. Ports(u, hub) BY <1>0, <1>7 DEF Kept, Ports
    <2>7. Owned(u, holder, disk) BY <1>0, <1>7 DEF Kept, Owned, Active
    <2>8. HeardOf(disk, u, holder) \in DiskRec /\ Sync(HeardOf(disk, u, holder), u, media) BY <1>0, <1>7, KeptHeard
    <2>9. media \in Media BY <1>0 DEF Kept
    <2>10. QED BY <1>7, <1>8, <2>1, <2>2, <2>3, <2>4, <2>5, <2>6, <2>7, <2>8, <2>9 DEF Kept
  <1>10. Scheduled(u) BY <1>0, <1>7 DEF Scheduled, FifoFull, Active
  <1>11. Kept(usb', media') /\ Scheduled(usb') /\ spent' \in Nat BY <1>0, <1>1, <1>9, <1>10 DEF u
  <1>12. hub.pc = "clear" => ~usb'.pipe[1].paused /\ usb'.scanIn # 0 BY <1>0, <1>7 DEF Turns, u
  <1>13. QED BY <1>1, <1>11, <1>12, DeviceStep

----------------------------------------------------------------------------
(* The stick is pulled.                                                      *)

(* The same command, of a stick that is now known to be gone.                 *)
Pulled(d, e) ==
    /\ e.pc = d.pc /\ e.cmd = d.cmd /\ e.to = d.to /\ e.left = d.left /\ e.data = d.data /\ e.on = d.on /\ e.end = d.end
    /\ e.pulled = TRUE /\ e \in DiskRec

LEMMA PulledFacts == ASSUME NEW d \in DiskRec PROVE Pulled(d, [d EXCEPT !.pulled = TRUE])
  BY DEF DiskRec, Pulled

LEMMA EndedPulled ==
  ASSUME NEW d \in DiskRec, NEW e, Pulled(d, e), NEW how \in {"done", "failed", "broken"} PROVE Pulled(Ended(d, how), Ended(e, how))
  <1>1. e \in DiskRec BY DEF Pulled
  <1>2. /\ Ended(d, how).pc = "idle" /\ Ended(d, how).cmd = d.cmd /\ Ended(d, how).to = d.to /\ Ended(d, how).left = d.left
        /\ Ended(d, how).data = d.data /\ Ended(d, how).on = d.on /\ Ended(d, how).end = how
    BY DEF Ended, DiskRec
  <1>3. /\ Ended(e, how).pc = "idle" /\ Ended(e, how).cmd = e.cmd /\ Ended(e, how).to = e.to /\ Ended(e, how).left = e.left
        /\ Ended(e, how).data = e.data /\ Ended(e, how).on = e.on /\ Ended(e, how).end = how
        /\ Ended(e, how).pulled = e.pulled /\ Ended(e, how) \in DiskRec
    BY <1>1 DEF Ended, DiskRec
  <1>4. QED BY <1>2, <1>3 DEF Pulled

LEMMA HeardPulled ==
  ASSUME NEW d \in DiskRec, NEW e, Pulled(d, e), NEW p, Heard(d, p) \in DiskRec
  PROVE  Pulled(Heard(d, p), Heard(e, p))
  <1>1. e \in DiskRec /\ e.pc = d.pc /\ e.cmd = d.cmd /\ e.left = d.left /\ e.on = d.on /\ e.data = d.data BY DEF Pulled
  <1>2. CASE d.pc = "cbw" /\ p.result = "ack"
    <2> DEFINE on == IF d.on = None THEN p.data ELSE d.on
    <2> DEFINE x == [d EXCEPT !.pc = "data", !.on = on]
    <2> DEFINE y == [e EXCEPT !.pc = "data", !.on = on]
    <2>1. Heard(d, p) = x BY <1>2 DEF Heard, DiskRec
    <2>2. Heard(e, p) = y BY <1>1, <1>2 DEF Heard, DiskRec
    <2> HIDE DEF on
    <2>3. x.pc = "data" /\ x.cmd = d.cmd /\ x.to = d.to /\ x.left = d.left /\ x.data = d.data /\ x.on = on /\ x.end = d.end
      BY DEF DiskRec
    <2>4. x \in DiskRec BY <2>1
    <2>5. on \in Medium \cup {None}
      <3>1. x.on \in Medium \cup {None}
        <4> HIDE DEF x
        <4>1. QED BY <2>4 DEF DiskRec
      <3>2. QED BY <2>3, <3>1
    <2>6. /\ y.pc = "data" /\ y.cmd = e.cmd /\ y.to = e.to /\ y.left = e.left /\ y.data = e.data /\ y.on = on /\ y.end = e.end
          /\ y.pulled = e.pulled /\ y \in DiskRec
      BY <1>1, <2>5 DEF DiskRec
    <2> HIDE DEF x, y
    <2>7. QED BY <2>1, <2>2, <2>3, <2>6 DEF Pulled
  <1>3. CASE d.pc = "data" /\ p.result = (IF d.cmd.kind = "write" THEN "ack" ELSE "data")
    <2> DEFINE pc == IF d.left = 1 THEN "csw" ELSE "data"
    <2> DEFINE data == IF d.cmd.kind = "write" THEN d.data ELSE p.data.value
    <2> DEFINE left == d.left - 1
    <2> DEFINE x == [d EXCEPT !.pc = pc, !.left = left, !.data = data]
    <2> DEFINE y == [e EXCEPT !.pc = pc, !.left = left, !.data = data]
    <2>1. Heard(d, p) = x BY <1>3 DEF Heard, DiskRec
    <2>2. Heard(e, p) = y BY <1>1, <1>3 DEF Heard, DiskRec
    <2>3. pc \in {"csw", "data"} /\ left \in Int BY DEF DiskRec
    <2> HIDE DEF pc, data, left
    <2>4. x.pc = pc /\ x.cmd = d.cmd /\ x.to = d.to /\ x.left = left /\ x.data = data /\ x.on = d.on /\ x.end = d.end
      BY DEF DiskRec
    <2>5. data \in Int
      <3>1. x \in DiskRec BY <2>1
      <3>2. x.data \in Int
        <4> HIDE DEF x
        <4>1. QED BY <3>1 DEF DiskRec
      <3>3. QED BY <2>4, <3>2
    <2>6. /\ y.pc = pc /\ y.cmd = e.cmd /\ y.to = e.to /\ y.left = left /\ y.data = data /\ y.on = e.on /\ y.end = e.end
          /\ y.pulled = e.pulled
      BY <1>1 DEF DiskRec
    <2>7. y \in DiskRec BY <1>1, <2>3, <2>5 DEF DiskRec
    <2> HIDE DEF x, y
    <2>8. QED BY <2>1, <2>2, <2>4, <2>6, <2>7 DEF Pulled
  <1>4. CASE d.pc = "csw" /\ p.result = "data" /\ p.data.kind = "csw"
    <2>1. CASE d.cmd.kind = "sense"
      <3>1. Heard(d, p) = Ended(d, "failed") /\ Heard(e, p) = Ended(e, "failed") BY <1>1, <1>4, <2>1 DEF Heard
      <3>2. QED BY <3>1, EndedPulled
    <2>2. CASE d.cmd.kind # "sense" /\ p.data.ok
      <3>1. Heard(d, p) = Ended(d, "done") /\ Heard(e, p) = Ended(e, "done") BY <1>1, <1>4, <2>2 DEF Heard
      <3>2. QED BY <3>1, EndedPulled
    <2>3. CASE d.cmd.kind # "sense" /\ ~p.data.ok
      <3> DEFINE cmd == [d.cmd EXCEPT !.kind = "sense"]
      <3> DEFINE x == [d EXCEPT !.pc = "cbw", !.cmd = cmd, !.left = 1]
      <3> DEFINE y == [e EXCEPT !.pc = "cbw", !.cmd = cmd, !.left = 1]
      <3>1. Heard(d, p) = x
        <4>1. Heard(d, p) = [d EXCEPT !.pc = "cbw", !.cmd.kind = "sense", !.left = 1] BY <1>4, <2>3 DEF Heard
        <4>2. QED BY <4>1 DEF DiskRec
      <3>2. Heard(e, p) = y
        <4>1. Heard(e, p) = [e EXCEPT !.pc = "cbw", !.cmd.kind = "sense", !.left = 1] BY <1>1, <1>4, <2>3 DEF Heard
        <4>2. QED BY <1>1, <4>1 DEF DiskRec
      <3> HIDE DEF cmd
      <3>3. x.pc = "cbw" /\ x.cmd = cmd /\ x.to = d.to /\ x.left = 1 /\ x.data = d.data /\ x.on = d.on /\ x.end = d.end
        BY DEF DiskRec
      <3>4. cmd \in Cmd \cup {None}
        <4>1. x \in DiskRec BY <3>1
        <4>2. x.cmd \in Cmd \cup {None}
          <5> HIDE DEF x
          <5>1. QED BY <4>1 DEF DiskRec
        <4>3. QED BY <3>3, <4>2
      <3>5. /\ y.pc = "cbw" /\ y.cmd = cmd /\ y.to = e.to /\ y.left = 1 /\ y.data = e.data /\ y.on = e.on /\ y.end = e.end
            /\ y.pulled = e.pulled
        BY <1>1 DEF DiskRec
      <3>6. y \in DiskRec
        <4> DEFINE e1 == [e EXCEPT !.pc = "cbw"]
        <4> DEFINE e2 == [e1 EXCEPT !.cmd = cmd]
        <4>1. e1 \in DiskRec BY <1>1 DEF DiskRec
        <4> HIDE DEF e1
        <4>2. e2 \in DiskRec BY <3>4, <4>1 DEF DiskRec
        <4>3. y = [e2 EXCEPT !.left = 1] BY DEF e1
        <4> HIDE DEF e2, y
        <4>4. [e2 EXCEPT !.left = 1] \in DiskRec BY <4>2 DEF DiskRec
        <4>5. QED BY <4>3, <4>4
      <3> HIDE DEF x, y
      <3>7. QED BY <3>1, <3>2, <3>3, <3>5, <3>6 DEF Pulled
    <2>4. QED BY <2>1, <2>2, <2>3
  <1>5. CASE /\ ~(d.pc = "cbw" /\ p.result = "ack")
             /\ ~(d.pc = "data" /\ p.result = (IF d.cmd.kind = "write" THEN "ack" ELSE "data"))
             /\ ~(d.pc = "csw" /\ p.result = "data" /\ p.data.kind = "csw")
    <2>1. Heard(d, p) = Ended(d, "broken") BY <1>5 DEF Heard
    <2>2. Heard(e, p) = Ended(e, "broken") BY <1>1, <1>5 DEF Heard
    <2>3. QED BY <2>1, <2>2, EndedPulled
  <1>6. QED BY <1>2, <1>3, <1>4, <1>5

LEMMA PulledSync ==
  ASSUME NEW d \in DiskRec, NEW e, Pulled(d, e), NEW u, NEW v, ~v.port.enabled, NEW m, Sync(d, u, m)
  PROVE  Sync(e, v, m)
  <1>1. d.pc = "idle" => Honest(d, m) /\ Honest(e, m) BY DEF Sync, Honest, Pulled
  <1>2. QED BY <1>1 DEF Sync, Pulled

LEMMA PlugOutKeeps == ASSUME HostInv, PlugOut PROVE HostInv'
  <1>0. Kept(usb, media) /\ spent \in Nat /\ Turns /\ Firmware /\ Scheduled(usb) BY DEF HostInv, TypeOK
  <1> DEFINE port == [usb.port EXCEPT !.in = FALSE, !.enabled = FALSE, !.change = usb.port.change \/ usb.port.powered]
  <1> DEFINE u == usb'
  <1> DEFINE d == disk'
  <1>1. /\ u = [usb EXCEPT !.port = port] /\ d = [disk EXCEPT !.pulled = TRUE] /\ media' = media /\ isr' = isr /\ input' = input
        /\ sem' = sem /\ holder' = holder /\ waiting' = waiting /\ hub' = hub /\ shown' = shown /\ spent' = spent + 1
    <2>1. usb.port \in PortRec BY <1>0 DEF Kept, Usb
    <2>2. [usb.port EXCEPT !.in = FALSE, !.enabled = FALSE, !.change = @ \/ usb.port.powered] = port BY <2>1 DEF PortRec
    <2> HIDE DEF port
    <2>3. QED BY <2>2 DEF PlugOut, Event
  <1>2. usb \in Usb /\ usb.port \in PortRec /\ disk \in DiskRec /\ media \in Media BY <1>0 DEF Kept, Usb, Firmware
  <1>3. port \in PortRec /\ port.enabled = FALSE /\ (usb.port.change => port.change) BY <1>2 DEF PortRec
  <1>4. Pulled(disk, d) BY <1>1, <1>2, PulledFacts
  <1> HIDE DEF port, d
  <1>5. /\ u \in Usb /\ u.link = usb.link /\ u.pipe = usb.pipe /\ u.fifo = usb.fifo /\ u.irq = usb.irq /\ u.scanIn = usb.scanIn
        /\ u.port = port /\ u.store = usb.store /\ u.kbd = usb.kbd
    BY <1>1, <1>2, <1>3 DEF Usb
  <1> HIDE DEF u
  <1>6. d \in DiskRec /\ d.pc = disk.pc /\ d.cmd = disk.cmd /\ d.to = disk.to BY <1>4 DEF Pulled
  <1>7. HeardOf(d, u, holder) \in DiskRec /\ Sync(HeardOf(d, u, holder), u, media)
    <2> DEFINE h == HeardOf(disk, usb, holder)
    <2> DEFINE g == HeardOf(d, u, holder)
    <2>1. h \in DiskRec /\ Sync(h, usb, media) BY <1>0 DEF Kept
    <2>2. Pulled(h, g)
      <3>1. CASE holder = "disk" /\ usb.pipe[0].paused
        <4> DEFINE p == usb.pipe[0]
        <4> HIDE DEF p
        <4>1. h = Heard(disk, p) /\ g = Heard(d, p) BY <1>5, <3>1 DEF HeardOf, p
        <4>2. Heard(disk, p) \in DiskRec BY <2>1, <4>1
        <4> HIDE DEF h, g
        <4>3. QED BY <1>2, <1>4, <4>1, <4>2, HeardPulled
      <3>2. CASE ~(holder = "disk" /\ usb.pipe[0].paused) BY <1>4, <1>5, <3>2 DEF HeardOf
      <3>3. QED BY <3>1, <3>2
    <2> HIDE DEF h, g
    <2>3. ~u.port.enabled BY <1>3, <1>5
    <2>4. g \in DiskRec /\ Sync(g, u, media) BY <2>1, <2>2, <2>3, PulledSync DEF Pulled
    <2>5. QED BY <2>4 DEF g
  <1>8. Kept(usb, media)'
    <2>1. Reports(u, input, sem, hub, waiting) BY <1>0, <1>5 DEF Kept, Reports, Owes, Active
    <2>2. Rings(u, isr) BY <1>0, <1>5 DEF Kept, Rings
    <2>3. Opened(u) BY <1>0, <1>5 DEF Kept, Opened
    <2>4. Boots(u, input, hub) BY <1>0, <1>3, <1>5 DEF Kept, Boots
    <2>5. KeysKept(u, shown) BY <1>0, <1>5 DEF Kept, KeysKept
    <2>6. Noticed(u, hub) BY <1>0, <1>3, <1>5 DEF Kept, Noticed
    <2>7. Ports(u, hub) BY <1>3, <1>5 DEF Ports
    <2>8. Owned(u, holder, d) BY <1>0, <1>5, <1>6 DEF Kept, Owned, Active, Asks
    <2>9. media' = media /\ isr' = isr /\ input' = input /\ sem' = sem /\ holder' = holder /\ waiting' = waiting /\ hub' = hub
          /\ shown' = shown /\ usb' = u /\ disk' = d
      BY <1>1 DEF u, d
    <2>10. QED BY <1>2, <1>5, <1>7, <2>1, <2>2, <2>3, <2>4, <2>5, <2>6, <2>7, <2>8, <2>9 DEF Kept
  <1>9. Scheduled(u) BY <1>0, <1>5 DEF Scheduled, FifoFull, Active
  <1>10. Firmware' BY <1>0, <1>1, <1>6 DEF Firmware, d
  <1>11. TypeOK' BY <1>0, <1>1, <1>2, <1>5, <1>10 DEF TypeOK, u
  <1>12. Turns' BY <1>0, <1>1, <1>5, <1>6 DEF Turns, u, d
  <1>13. QED BY <1>8, <1>9, <1>11, <1>12 DEF HostInv, u

----------------------------------------------------------------------------
(* The interrupt handler.                                                    *)

(* Behind the FIFO a pipe's word is in the input, or known to its task.       *)
LEMMA BehindFacts ==
  ASSUME NEW in \in Seq(Word), NEW sm, NEW h, NEW n
  PROVE  Behind(in, sm, h, n) \in Nat /\ Count(in, n) \in Nat
  <1>1. Count(in, n) \in Nat BY CountType
  <1>2. QED BY <1>1 DEF Behind

(* A firmware step that leaves the device's own state alone.                  *)
SameButQueues(u, v) == v.pipe = u.pipe /\ v.link = u.link /\ v.port = u.port /\ v.store = u.store /\ v.kbd = u.kbd

LEMMA IsrEnterKeeps == ASSUME HostInv, IsrEnter PROVE HostInv'
  <1>0. Kept(usb, media) /\ spent \in Nat /\ Turns /\ Firmware /\ Scheduled(usb) BY DEF HostInv, TypeOK
  <1> DEFINE u == usb'
  <1>1. /\ u = [usb EXCEPT !.irq = FALSE] /\ isr' = (usb.fifo # << >>) /\ media' = media /\ input' = input
        /\ sem' = sem /\ holder' = holder /\ waiting' = waiting /\ hub' = hub /\ disk' = disk /\ shown' = shown /\ spent' = spent
    BY DEF IsrEnter
  <1>2. usb \in Usb /\ media \in Media BY <1>0 DEF Kept
  <1>3. u \in Usb /\ SameButQueues(usb, u) /\ u.fifo = usb.fifo /\ u.scanIn = usb.scanIn BY <1>1, <1>2 DEF Usb, SameButQueues
  <1> HIDE DEF u
  <1>4. u.pipe = usb.pipe /\ u.link = usb.link /\ u.port = usb.port /\ u.store = usb.store /\ u.kbd = usb.kbd BY <1>3 DEF SameButQueues
  <1>5. Kept(usb, media)'
    <2>1. Reports(u, input, sem, hub, waiting) BY <1>0, <1>3, <1>4 DEF Kept, Reports, Owes, Active
    <2>2. Rings(u, isr') BY <1>0, <1>1, <1>3 DEF Kept, Rings
    <2>3. Opened(u) BY <1>0, <1>4 DEF Kept, Opened
    <2>4. Boots(u, input, hub) BY <1>0, <1>3, <1>4 DEF Kept, Boots
    <2>5. KeysKept(u, shown) BY <1>0, <1>4 DEF Kept, KeysKept
    <2>6. Noticed(u, hub) /\ Ports(u, hub) BY <1>0, <1>4 DEF Kept, Noticed, Ports
    <2>7. Owned(u, holder, disk) BY <1>0, <1>4 DEF Kept, Owned, Active
    <2>8. HeardOf(disk, u, holder) \in DiskRec /\ Sync(HeardOf(disk, u, holder), u, media) BY <1>0, <1>4, KeptHeard
    <2>9. QED BY <1>1, <1>2, <1>3, <2>1, <2>2, <2>3, <2>4, <2>5, <2>6, <2>7, <2>8 DEF Kept, u
  <1>6. Scheduled(u) BY <1>0, <1>3, <1>4 DEF Scheduled, FifoFull, Active
  <1>7. TypeOK' BY <1>0, <1>1, <1>2, <1>3 DEF TypeOK, Firmware, u
  <1>8. Turns' BY <1>0, <1>1, <1>3, <1>4 DEF Turns, u
  <1>9. QED BY <1>5, <1>6, <1>7, <1>8 DEF HostInv, u

LEMMA IsrPopKeeps == ASSUME HostInv, IsrPop PROVE HostInv'
  <1>0. Kept(usb, media) /\ spent \in Nat /\ Turns /\ Firmware BY DEF HostInv, TypeOK
  <1> DEFINE f == usb.fifo
  <1> DEFINE g == Tail(f)
  <1> DEFINE w == Head(f)
  <1> DEFINE t == [usb EXCEPT !.fifo = g]
  <1> DEFINE u == usb'
  <1>1. /\ isr /\ u = Reschedule(t) /\ isr' = (Len(f) > 1) /\ media' = media
        /\ holder' = holder /\ waiting' = waiting /\ hub' = hub /\ disk' = disk /\ shown' = shown /\ spent' = spent
        /\ (w = 0 => sem' = TRUE /\ input' = input) /\ (w # 0 => input' = Append(input, w) /\ sem' = sem)
    BY DEF IsrPop
  <1>2. usb \in Usb /\ media \in Media /\ f \in Seq(Word) /\ f # << >> BY <1>0, <1>1 DEF Kept, Usb, Rings
  <1>3. g \in Seq(Word) /\ w \in Word /\ Len(f) \in Nat /\ Len(f) >= 1 /\ Len(g) = Len(f) - 1 BY <1>2
  <1>4. \A x : Count(f, x) = Count(g, x) + (IF w = x THEN 1 ELSE 0) BY <1>2, CountTail
  <1>5. \A x : Count(f, x) \in Nat /\ Count(g, x) \in Nat BY <1>2, <1>3, CountType
  <1> HIDE DEF f, g, w
  <1>6. t \in Usb /\ SameButQueues(usb, t) /\ t.fifo = g /\ t.irq = usb.irq BY <1>2, <1>3 DEF Usb, SameButQueues
  <1> HIDE DEF t, u
  <1>7. /\ u \in Usb /\ u.link = t.link /\ u.pipe = t.pipe /\ u.fifo = t.fifo /\ u.irq = t.irq /\ SameDevices(t, u)
        /\ u.scanIn # 0 /\ Scheduled(u)
    BY <1>1, <1>6, RescheduleFacts
  <1>8. /\ u.pipe = usb.pipe /\ u.link = usb.link /\ u.port = usb.port /\ u.store = usb.store /\ u.kbd = usb.kbd /\ u.fifo = g
        /\ u.irq = usb.irq
    BY <1>6, <1>7 DEF SameButQueues, SameDevices
  <1>9. input \in Seq(Word) /\ sem \in BOOLEAN BY <1>0, InputWords DEF Firmware
  <1>10. w # 0 => w \in {1, 2, Attach} BY <1>3 DEF Word, Pipe
  <1>11. input' \in Seq({1, 2, Attach})
    <2>1. input \in Seq({1, 2, Attach}) BY <1>0 DEF Firmware
    <2>2. CASE w = 0 BY <1>1, <2>1, <2>2
    <2>3. CASE w # 0
      <3>1. Append(input, w) \in Seq({1, 2, Attach}) BY <1>10, <2>1, <2>3
      <3>2. QED BY <1>1, <2>3, <3>1
    <2>4. QED BY <2>2, <2>3
  <1>12. \A x : Count(input', x) = Count(input, x) + (IF w # 0 /\ w = x THEN 1 ELSE 0)
    <2> SUFFICES ASSUME NEW x PROVE Count(input', x) = Count(input, x) + (IF w # 0 /\ w = x THEN 1 ELSE 0)
      OBVIOUS
    <2>1. Count(input, x) \in Nat BY <1>9, CountType
    <2>2. CASE w = 0 BY <1>1, <2>1, <2>2
    <2>3. CASE w # 0
      <3>1. Count(Append(input, w), x) = Count(input, x) + (IF w = x THEN 1 ELSE 0) BY <1>3, <1>9, CountAppend
      <3>2. QED BY <1>1, <2>3, <3>1
    <2>4. QED BY <2>2, <2>3
  <1>13. Reports(u, input', sem', hub, waiting)
    <2>1. ASSUME NEW n \in Pipe PROVE Count(u.fifo, n) + Behind(input', sem', hub, n) = Owes(u, n, waiting)
      <3>1. Count(f, n) + Behind(input, sem, hub, n) = Owes(usb, n, waiting) BY <1>0 DEF Kept, Reports, f
      <3>2. Owes(u, n, waiting) = Owes(usb, n, waiting) /\ Owes(usb, n, waiting) \in {0, 1} BY <1>8 DEF Owes
      <3>3. Behind(input, sem, hub, n) \in Nat /\ Count(input, n) \in Nat BY <1>9, BehindFacts
      <3>4. Count(f, n) = Count(g, n) + (IF w = n THEN 1 ELSE 0) /\ Count(f, n) \in Nat /\ Count(g, n) \in Nat BY <1>4, <1>5
      <3>5. Count(input', n) = Count(input, n) + (IF w # 0 /\ w = n THEN 1 ELSE 0) BY <1>12
      <3>6. CASE w # n
        <4>1. Count(input', n) = Count(input, n) BY <3>3, <3>5, <3>6
        <4>2. n = 0 => sem' = sem BY <1>1, <3>6
        <4>3. Behind(input', sem', hub, n) = Behind(input, sem, hub, n) BY <4>1, <4>2 DEF Behind
        <4>4. Count(f, n) = Count(g, n) BY <3>4, <3>6
        <4>5. QED BY <1>8, <3>1, <3>2, <4>3, <4>4
      <3>7. CASE w = n /\ n # 0
        <4>1. Count(input', n) = Count(input, n) + 1 BY <3>5, <3>7
        <4>2. Behind(input', sem', hub, n) = Behind(input, sem, hub, n) + 1 BY <3>3, <3>7, <4>1 DEF Behind
        <4>3. Count(f, n) = Count(g, n) + 1 BY <3>4, <3>7
        <4>4. QED BY <1>8, <3>1, <3>2, <3>3, <3>4, <4>2, <4>3
      <3>8. CASE w = n /\ n = 0
        <4>1. Count(input', n) = Count(input, n) /\ sem' = TRUE BY <1>1, <3>3, <3>5, <3>8
        <4>2. Count(f, n) = Count(g, n) + 1 BY <3>4, <3>8
        <4>3. Behind(input, sem, hub, n) = 0 BY <3>1, <3>2, <3>3, <3>4, <4>2
        <4>4. Count(input, n) = 0 BY <3>3, <4>3 DEF Behind
        <4>5. Behind(input', sem', hub, n) = 1 BY <3>8, <4>1, <4>4 DEF Behind
        <4>6. QED BY <1>8, <3>1, <3>2, <3>4, <4>2, <4>3, <4>5
      <3>9. QED BY <3>6, <3>7, <3>8
    <2>2. Active(u, 0) => waiting BY <1>0, <1>8 DEF Kept, Reports, Active
    <2>3. QED BY <2>1, <2>2 DEF Reports
  <1>14. Rings(u, isr')
    <2>1. Len(f) < FifoLen /\ FifoLen \in Nat BY <1>0, Sizes DEF Kept, Rings, f
    <2>2. g # << >> <=> Len(f) > 1
      <3>1. g # << >> <=> Len(g) > 0 BY <1>3
      <3>2. QED BY <1>3, <3>1
    <2>3. isr' <=> Len(f) > 1 BY <1>1
    <2>4. Len(g) < FifoLen BY <1>3, <2>1
    <2>5. QED BY <1>8, <2>2, <2>3, <2>4 DEF Rings
  <1>15. Boots(u, input', hub)
    <2>1. Attach # 0 BY DEF Attach
    <2>2. Count(input, Attach) \in Nat BY <1>9, CountType
    <2>3. Count(g, Attach) + Count(input', Attach) = Count(f, Attach) + Count(input, Attach)
      <3>1. Count(input', Attach) = Count(input, Attach) + (IF w = Attach THEN 1 ELSE 0) BY <1>12, <2>1, <2>2
      <3>2. Count(f, Attach) = Count(g, Attach) + (IF w = Attach THEN 1 ELSE 0) /\ Count(g, Attach) \in Nat BY <1>4, <1>5
      <3>3. QED BY <2>2, <3>1, <3>2
    <2>4. usb.link \notin {"held", "attaching"} BY <1>0, <1>2 DEF Kept, Boots, f
    <2>5. QED BY <1>0, <1>8, <2>3, <2>4 DEF Kept, Boots, f
  <1>16. Kept(usb, media)'
    <2>1. Opened(u) BY <1>0, <1>8 DEF Kept, Opened
    <2>2. KeysKept(u, shown) BY <1>0, <1>8 DEF Kept, KeysKept
    <2>3. Noticed(u, hub) /\ Ports(u, hub) BY <1>0, <1>8 DEF Kept, Noticed, Ports
    <2>4. Owned(u, holder, disk) BY <1>0, <1>8 DEF Kept, Owned, Active
    <2>5. HeardOf(disk, u, holder) \in DiskRec /\ Sync(HeardOf(disk, u, holder), u, media) BY <1>0, <1>8, KeptHeard
    <2>6. QED BY <1>1, <1>2, <1>7, <1>13, <1>14, <1>15, <2>1, <2>2, <2>3, <2>4, <2>5 DEF Kept, u
  <1>17. sem' \in BOOLEAN /\ isr' \in BOOLEAN
    <2>1. isr' = (Len(f) > 1) BY <1>1
    <2>2. sem' = TRUE \/ sem' = sem BY <1>1
    <2>3. isr' \in BOOLEAN BY <2>1
    <2>4. QED BY <1>9, <2>2, <2>3
  <1>18. Firmware' BY <1>0, <1>1, <1>11, <1>17 DEF Firmware
  <1>19. TypeOK' BY <1>0, <1>1, <1>2, <1>7, <1>18 DEF TypeOK, u
  <1>20. Turns' BY <1>0, <1>1, <1>7, <1>8 DEF Turns, u
  <1>21. QED BY <1>7, <1>16, <1>19, <1>20 DEF HostInv, u

----------------------------------------------------------------------------
(* The input task.                                                           *)

(* Pipe n is back with the nano, its request is the same.                     *)
Resumes(u, n, v) ==
    /\ v \in Usb /\ v.link = u.link /\ v.fifo = u.fifo /\ v.irq = u.irq
    /\ v.port = u.port /\ v.store = u.store /\ v.kbd = u.kbd
    /\ \A q \in Pipe : q # n => v.pipe[q] = u.pipe[q]
    /\ SameRequest(u.pipe[n], v.pipe[n]) /\ v.pipe[n].paused = FALSE
    /\ v.scanIn # 0 /\ Scheduled(v)

LEMMA ResumedFacts == ASSUME NEW u \in Usb, NEW n \in Pipe PROVE Resumes(u, n, Resumed(u, n))
  <1> DEFINE v == Resumed(u, n)
  <1> DEFINE o == u.pipe[n]
  <1> DEFINE p == [o EXCEPT !.paused = FALSE, !.started = Idle]
  <1> DEFINE t == [u EXCEPT !.pipe = [u.pipe EXCEPT ![n] = p]]
  <1>1. u.pipe \in [Pipe -> PipeRec] /\ o \in PipeRec BY DEF Usb
  <1>2. v = Reschedule(t)
    <2>1. t = [u EXCEPT !.pipe[n].paused = FALSE, !.pipe[n].started = Idle] BY <1>1 DEF Usb, PipeRec
    <2>2. QED BY <2>1 DEF Resumed
  <1>3. p \in PipeRec /\ SameRequest(o, p) /\ p.paused = FALSE
    <2> HIDE DEF o
    <2> DEFINE e == [o EXCEPT !.paused = FALSE]
    <2>1. e \in PipeRec /\ SameRequest(o, e) /\ e.paused = FALSE
      <3>1. e \in PipeRec BY <1>1 DEF PipeRec
      <3>2. SameRequest(o, e) /\ e.paused = FALSE BY <1>1 DEF PipeRec, SameRequest
      <3>3. QED BY <3>1, <3>2
    <2>2. p = [e EXCEPT !.started = Idle] BY <1>1 DEF PipeRec
    <2> HIDE DEF e
    <2>3. Idle \in Int BY DEF Idle
    <2>4. p \in PipeRec BY <2>1, <2>2, <2>3 DEF PipeRec
    <2>5. SameRequest(e, p) /\ p.paused = e.paused BY <2>1, <2>2 DEF PipeRec, SameRequest
    <2>6. QED BY <2>1, <2>4, <2>5 DEF SameRequest
  <1> HIDE DEF p
  <1>4. [u.pipe EXCEPT ![n] = p] \in [Pipe -> PipeRec] BY <1>1, <1>3
  <1>5. t \in Usb /\ t.link = u.link /\ t.fifo = u.fifo /\ t.irq = u.irq /\ SameDevices(u, t) /\ t.pipe = [u.pipe EXCEPT ![n] = p]
    BY <1>4 DEF Usb, SameDevices
  <1> HIDE DEF t, v
  <1>6. v \in Usb /\ v.link = t.link /\ v.pipe = t.pipe /\ v.fifo = t.fifo /\ v.irq = t.irq /\ SameDevices(t, v)
        /\ v.scanIn # 0 /\ Scheduled(v)
    BY <1>2, <1>5, RescheduleFacts
  <1>7. v.pipe[n] = p /\ \A q \in Pipe : q # n => v.pipe[q] = u.pipe[q] BY <1>1, <1>5, <1>6
  <1>8. Resumes(u, n, v) BY <1>3, <1>5, <1>6, <1>7 DEF Resumes, SameDevices
  <1>9. QED BY <1>8 DEF v

LEMMA InputFacts ==
  ASSUME HostInv, input # << >>
  PROVE  /\ Head(input) \in {1, 2, Attach} /\ Tail(input) \in Seq({1, 2, Attach}) /\ Tail(input) \in Seq(Word)
         /\ \A x : Count(input, x) = Count(Tail(input), x) + (IF Head(input) = x THEN 1 ELSE 0) /\ Count(Tail(input), x) \in Nat
                   /\ Count(usb.fifo, x) \in Nat
  <1>1. input \in Seq({1, 2, Attach}) /\ input \in Seq(Word) /\ usb \in Usb BY InputWords DEF HostInv, TypeOK, Firmware
  <1>2. Head(input) \in {1, 2, Attach} /\ Tail(input) \in Seq({1, 2, Attach}) /\ Tail(input) \in Seq(Word) BY <1>1
  <1>3. \A x : Count(input, x) = Count(Tail(input), x) + (IF Head(input) = x THEN 1 ELSE 0) BY <1>1, CountTail
  <1>4. \A x : Count(Tail(input), x) \in Nat BY <1>2, CountType
  <1>5. \A x : Count(usb.fifo, x) \in Nat
    <2>1. usb.fifo \in Seq(Word) BY <1>1 DEF Usb
    <2>2. QED BY <2>1, CountType
  <1>6. QED BY <1>2, <1>3, <1>4, <1>5

(* A word of a pipe is the one report the pipe owes.                         *)
LEMMA WordOwed ==
  ASSUME HostInv, input # << >>, NEW n \in {1, 2}, Head(input) = n
  PROVE  /\ usb.pipe[n].command /\ usb.pipe[n].paused /\ Count(usb.fifo, n) = 0 /\ Count(Tail(input), n) = 0
         /\ (n = 1 => ~Handling(hub)) /\ hub.pc \notin {"start", "boot"}
  <1>1. Kept(usb, media) BY DEF HostInv
  <1>2. n \in Pipe /\ n # 0 BY DEF Pipe
  <1>3. Count(usb.fifo, n) + Behind(input, sem, hub, n) = Owes(usb, n, waiting) BY <1>1, <1>2 DEF Kept, Reports
  <1>4. Count(input, n) = Count(Tail(input), n) + 1 /\ Count(Tail(input), n) \in Nat /\ Count(usb.fifo, n) \in Nat BY InputFacts
  <1>5. Owes(usb, n, waiting) \in {0, 1} BY DEF Owes
  <1>6. Behind(input, sem, hub, n) = Count(input, n) + (IF n = 1 /\ Handling(hub) THEN 1 ELSE 0) BY <1>2 DEF Behind
  <1>7. /\ Owes(usb, n, waiting) = 1 /\ Count(usb.fifo, n) = 0 /\ Count(Tail(input), n) = 0 /\ (n = 1 => ~Handling(hub))
    <2>1. CASE n = 1 /\ Handling(hub) BY <1>3, <1>4, <1>5, <1>6, <2>1
    <2>2. CASE ~(n = 1 /\ Handling(hub)) BY <1>3, <1>4, <1>5, <1>6, <2>2
    <2>3. QED BY <2>1, <2>2
  <1>8. usb.pipe[n].command /\ usb.pipe[n].paused BY <1>7 DEF Owes
  <1>9. hub.pc \notin {"start", "boot"} BY <1>2, <1>8, BeforeInstall
  <1>10. QED BY <1>7, <1>8, <1>9

LEMMA AttachRootKeeps == ASSUME HostInv, InputTask, Head(input) = Attach PROVE HostInv'
  <1>0. Kept(usb, media) /\ spent \in Nat /\ Turns /\ Firmware BY DEF HostInv, TypeOK
  <1> DEFINE g == Tail(input)
  <1> DEFINE u == usb'
  <1>1. /\ input # << >> /\ input' = g /\ u = [usb EXCEPT !.link = "resetting", !.scanIn = Idle] /\ hub' = hub /\ shown' = shown
        /\ media' = media /\ isr' = isr /\ sem' = sem /\ holder' = holder /\ waiting' = waiting /\ disk' = disk /\ spent' = spent
    <2>1. input # << >> /\ input' = g /\ UNCHANGED << media, isr, sem, holder, waiting, disk, spent >> BY DEF InputTask
    <2>2. usb' = [usb EXCEPT !.link = "resetting", !.scanIn = Idle] /\ UNCHANGED << hub, shown >>
      <3>1. Attach # 1 /\ Attach # 2 BY DEF Attach
      <3>2. QED BY <3>1 DEF InputTask
    <2>3. QED BY <2>1, <2>2
  <1>2. usb \in Usb /\ media \in Media BY <1>0 DEF Kept
  <1>3. /\ u \in Usb /\ u.link = "resetting" /\ u.pipe = usb.pipe /\ u.fifo = usb.fifo /\ u.irq = usb.irq /\ u.port = usb.port
        /\ u.store = usb.store /\ u.kbd = usb.kbd
    <2> DEFINE e == [usb EXCEPT !.link = "resetting"]
    <2>1. /\ e \in Usb /\ e.link = "resetting" /\ e.pipe = usb.pipe /\ e.fifo = usb.fifo /\ e.irq = usb.irq /\ e.port = usb.port
          /\ e.store = usb.store /\ e.kbd = usb.kbd
      BY <1>2 DEF Usb
    <2>2. u = [e EXCEPT !.scanIn = Idle] BY <1>1, <1>2 DEF Usb
    <2>3. Idle \in Int BY DEF Idle
    <2> HIDE DEF e, u
    <2>4. /\ u \in Usb /\ u.link = e.link /\ u.pipe = e.pipe /\ u.fifo = e.fifo /\ u.irq = e.irq /\ u.port = e.port
          /\ u.store = e.store /\ u.kbd = e.kbd
      BY <2>1, <2>2, <2>3 DEF Usb
    <2>5. QED BY <2>1, <2>4
  <1>4. g \in Seq({1, 2, Attach}) /\ \A x : Count(input, x) = Count(g, x) + (IF Attach = x THEN 1 ELSE 0)
                                            /\ Count(g, x) \in Nat /\ Count(usb.fifo, x) \in Nat
    BY <1>1, InputFacts
  <1> HIDE DEF u, g
  <1>5. usb.link = "attached" /\ Count(usb.fifo, Attach) + Count(g, Attach) = 0
    <2>1. Count(usb.fifo, Attach) + Count(input, Attach) = IF usb.link = "attached" THEN 1 ELSE 0 BY <1>0 DEF Kept, Boots
    <2>2. Count(input, Attach) = Count(g, Attach) + 1 BY <1>4
    <2>3. QED BY <1>4, <2>1, <2>2
  <1>6. hub.pc \in {"start", "boot"} /\ hub.pc # "start" BY <1>0, <1>5 DEF Kept, Boots
  <1>7. Kept(usb, media)'
    <2>1. Reports(u, input', sem, hub, waiting)
      <3>1. ASSUME NEW n \in Pipe PROVE Behind(input', sem, hub, n) = Behind(input, sem, hub, n)
        <4>1. n # Attach BY DEF Pipe, Attach
        <4>2. Count(input', n) = Count(input, n) BY <1>1, <1>4, <4>1
        <4>3. QED BY <4>2 DEF Behind
      <3>2. QED BY <1>0, <1>3, <3>1 DEF Kept, Reports, Owes, Active
    <2>2. Rings(u, isr) BY <1>0, <1>3 DEF Kept, Rings
    <2>3. Opened(u) BY <1>0, <1>3 DEF Kept, Opened
    <2>4. Boots(u, input', hub) BY <1>0, <1>1, <1>3, <1>5, <1>6 DEF Kept, Boots
    <2>5. KeysKept(u, shown) BY <1>0, <1>3 DEF Kept, KeysKept
    <2>6. Noticed(u, hub) /\ Ports(u, hub) BY <1>0, <1>3 DEF Kept, Noticed, Ports
    <2>7. Owned(u, holder, disk) BY <1>0, <1>3 DEF Kept, Owned, Active
    <2>8. HeardOf(disk, u, holder) \in DiskRec /\ Sync(HeardOf(disk, u, holder), u, media) BY <1>0, <1>3, KeptHeard
    <2>9. QED BY <1>1, <1>2, <1>3, <2>1, <2>2, <2>3, <2>4, <2>5, <2>6, <2>7, <2>8 DEF Kept, u
  <1>8. Scheduled(u) BY <1>3 DEF Scheduled
  <1>9. Firmware' BY <1>0, <1>1, <1>4 DEF Firmware
  <1>10. TypeOK' BY <1>0, <1>1, <1>2, <1>3, <1>9 DEF TypeOK, u
  <1>11. Turns' BY <1>0, <1>1, <1>6 DEF Turns
  <1>12. QED BY <1>7, <1>8, <1>10, <1>11 DEF HostInv, u

LEMMA HubCallbackKeeps == ASSUME HostInv, InputTask, Head(input) = 1 PROVE HostInv'
  <1>0. Kept(usb, media) /\ spent \in Nat /\ Turns /\ Firmware BY DEF HostInv, TypeOK
  <1> DEFINE g == Tail(input)
  <1>1. /\ input # << >> /\ input' = g /\ usb' = usb /\ hub' = [hub EXCEPT !.changed = TRUE] /\ shown' = shown
        /\ media' = media /\ isr' = isr /\ sem' = sem /\ holder' = holder /\ waiting' = waiting /\ disk' = disk /\ spent' = spent
    <2>1. input # << >> /\ input' = g /\ UNCHANGED << media, isr, sem, holder, waiting, disk, spent >> BY DEF InputTask
    <2>2. hub' = [hub EXCEPT !.changed = TRUE] /\ UNCHANGED << usb, shown >>
      <3>1. Attach # 1 /\ 1 # 2 BY DEF Attach
      <3>2. QED BY <3>1 DEF InputTask
    <2>3. QED BY <2>1, <2>2
  <1>2. g \in Seq({1, 2, Attach}) /\ \A x : Count(input, x) = Count(g, x) + (IF 1 = x THEN 1 ELSE 0) /\ Count(g, x) \in Nat
    BY <1>1, InputFacts
  <1>3. usb.pipe[1].command /\ usb.pipe[1].paused /\ ~Handling(hub) /\ hub.pc \notin {"start", "boot"} BY <1>1, WordOwed
  <1>4. hub.pc # "clear" BY <1>0, <1>3 DEF Turns
  <1>5. hub \in HubRec BY <1>0 DEF Firmware
  <1>6. hub.pc = "poll" /\ ~hub.changed BY <1>3, <1>4, <1>5 DEF Handling, HubRec, HubPc
  <1>7. hub' \in HubRec /\ hub'.pc = "poll" /\ hub'.changed = TRUE /\ hub'.child = hub.child BY <1>1, <1>5, <1>6 DEF HubRec
  <1>8. Handling(hub') BY <1>7 DEF Handling
  <1> HIDE DEF g
  <1>9. Kept(usb, media)'
    <2>1. Reports(usb, input', sem, hub', waiting)
      <3>1. ASSUME NEW n \in Pipe PROVE Behind(input', sem, hub', n) = Behind(input, sem, hub, n)
        <4>1. CASE n = 1
          <5>1. Count(input, 1) = Count(g, 1) + 1 /\ Count(g, 1) \in Nat BY <1>2
          <5>2. QED BY <1>1, <1>3, <1>8, <4>1, <5>1 DEF Behind
        <4>2. CASE n # 1
          <5>1. Count(input', n) = Count(input, n) BY <1>1, <1>2, <4>2
          <5>2. QED BY <4>2, <5>1 DEF Behind
        <4>3. QED BY <4>1, <4>2
      <3>2. QED BY <1>0, <3>1 DEF Kept, Reports
    <2>2. Boots(usb, input', hub')
      <3>1. Count(input', Attach) = Count(input, Attach)
        <4>1. Attach # 1 BY DEF Attach
        <4>2. QED BY <1>1, <1>2, <4>1
      <3>2. QED BY <1>0, <1>6, <1>7, <3>1 DEF Kept, Boots
    <2>3. Noticed(usb, hub') /\ Ports(usb, hub') BY <1>0, <1>6, <1>7 DEF Kept, Noticed, Ports
    <2>4. QED BY <1>0, <1>1, <2>1, <2>2, <2>3 DEF Kept
  <1>10. Firmware' BY <1>0, <1>1, <1>2, <1>7 DEF Firmware
  <1>11. TypeOK' BY <1>0, <1>1, <1>10 DEF TypeOK, Kept
  <1>12. Turns' BY <1>0, <1>1, <1>6, <1>7 DEF Turns
  <1>13. Scheduled(usb)' BY <1>1 DEF HostInv
  <1>14. QED BY <1>9, <1>11, <1>12, <1>13 DEF HostInv

LEMMA KeyCallbackKeeps == ASSUME HostInv, InputTask, Head(input) = 2 PROVE HostInv'
  <1>0. Kept(usb, media) /\ spent \in Nat /\ Turns /\ Firmware BY DEF HostInv, TypeOK
  <1> DEFINE g == Tail(input)
  <1> DEFINE u == usb'
  <1> DEFINE read == usb.pipe[2].data
  <1>1. /\ input # << >> /\ input' = g /\ u = Resumed(usb, 2) /\ hub' = hub /\ shown' = read
        /\ media' = media /\ isr' = isr /\ sem' = sem /\ holder' = holder /\ waiting' = waiting /\ disk' = disk /\ spent' = spent
    <2>1. input # << >> /\ input' = g /\ UNCHANGED << media, isr, sem, holder, waiting, disk, spent >> BY DEF InputTask
    <2>2. shown' = usb.pipe[2].data /\ usb' = Resumed(usb, 2) /\ UNCHANGED hub
      <3>1. Attach # 2 /\ 2 # 1 BY DEF Attach
      <3>2. QED BY <3>1 DEF InputTask
    <2>3. QED BY <2>1, <2>2
  <1>2. usb \in Usb /\ media \in Media /\ 2 \in Pipe /\ 1 \in Pipe /\ 0 \in Pipe BY <1>0 DEF Kept, Pipe
  <1>3. Resumes(usb, 2, u) BY <1>1, <1>2, ResumedFacts
  <1> HIDE DEF u, read
  <1>4. /\ u \in Usb /\ u.link = usb.link /\ u.fifo = usb.fifo /\ u.irq = usb.irq /\ u.port = usb.port /\ u.store = usb.store
        /\ u.kbd = usb.kbd /\ u.pipe[0] = usb.pipe[0] /\ u.pipe[1] = usb.pipe[1] /\ SameRequest(usb.pipe[2], u.pipe[2])
        /\ u.pipe[2].paused = FALSE /\ u.scanIn # 0 /\ Scheduled(u)
    BY <1>2, <1>3 DEF Resumes
  <1>5. g \in Seq({1, 2, Attach}) /\ \A x : Count(input, x) = Count(g, x) + (IF 2 = x THEN 1 ELSE 0) /\ Count(g, x) \in Nat
    BY <1>1, InputFacts
  <1>6. usb.pipe[2].command /\ usb.pipe[2].paused /\ Count(usb.fifo, 2) = 0 /\ Count(g, 2) = 0 BY <1>1, WordOwed
  <1> HIDE DEF g
  <1>7. read \in Nat BY <1>0, <1>6 DEF Kept, KeysKept, read
  <1>8. u.pipe[2].command = usb.pipe[2].command BY <1>4 DEF SameRequest
  <1>9. Kept(usb, media)'
    <2>1. Reports(u, input', sem, hub, waiting)
      <3>1. ASSUME NEW n \in Pipe PROVE Count(u.fifo, n) + Behind(input', sem, hub, n) = Owes(u, n, waiting)
        <4>1. CASE n = 2
          <5>1. Owes(u, 2, waiting) = 0 BY <1>4 DEF Owes
          <5>2. Behind(input', sem, hub, 2) = 0 BY <1>1, <1>6 DEF Behind
          <5>3. QED BY <1>4, <1>6, <4>1, <5>1, <5>2
        <4>2. CASE n # 2
          <5>1. u.pipe[n] = usb.pipe[n] BY <1>4, <4>2 DEF Pipe
          <5>2. Count(input', n) = Count(input, n) BY <1>1, <1>5, <4>2
          <5>3. Behind(input', sem, hub, n) = Behind(input, sem, hub, n) BY <5>2 DEF Behind
          <5>4. Owes(u, n, waiting) = Owes(usb, n, waiting) BY <5>1 DEF Owes
          <5>5. Count(usb.fifo, n) + Behind(input, sem, hub, n) = Owes(usb, n, waiting) BY <1>0 DEF Kept, Reports
          <5>6. QED BY <1>4, <5>3, <5>4, <5>5
        <4>3. QED BY <4>1, <4>2
      <3>2. Active(u, 0) => waiting BY <1>0, <1>4 DEF Kept, Reports, Active
      <3>3. QED BY <3>1, <3>2 DEF Reports
    <2>2. Rings(u, isr) BY <1>0, <1>4 DEF Kept, Rings
    <2>3. Opened(u) BY <1>0, <1>4 DEF Kept, Opened, Automatic, SameRequest
    <2>4. Boots(u, input', hub)
      <3>1. Count(input', Attach) = Count(input, Attach)
        <4>1. Attach # 2 BY DEF Attach
        <4>2. QED BY <1>1, <1>5, <4>1
      <3>2. \A n \in Pipe : u.pipe[n].command = usb.pipe[n].command BY <1>4, <1>8 DEF Pipe
      <3>3. QED BY <1>0, <1>2, <1>4, <3>1, <3>2 DEF Kept, Boots
    <2>5. KeysKept(u, read)
      <3>1. KeysKept(usb, shown) BY <1>0 DEF Kept
      <3>2. usb.kbd \in Kbd BY <1>2 DEF Usb
      <3>3. /\ read <= u.kbd.report
            /\ \A i \in 1 .. Len(u.kbd.queue) : read < u.kbd.queue[i] /\ u.kbd.queue[i] <= u.kbd.report
            /\ \A i, j \in 1 .. Len(u.kbd.queue) : i < j => u.kbd.queue[i] < u.kbd.queue[j]
            /\ u.kbd.queue # << >> => u.kbd.queue[Len(u.kbd.queue)] = u.kbd.report
        BY <1>4, <1>6, <3>1 DEF KeysKept, read
      <3>4. \A i \in 1 .. Len(u.kbd.queue) : read <= u.kbd.queue[i]
        <4>1. \A i \in 1 .. Len(u.kbd.queue) : u.kbd.queue[i] \in Nat BY <1>4, <3>2 DEF Kbd
        <4>2. QED BY <1>7, <3>3, <4>1
      <3>5. QED BY <1>4, <3>3, <3>4 DEF KeysKept
    <2>6. Noticed(u, hub) /\ Ports(u, hub) BY <1>0, <1>4 DEF Kept, Noticed, Ports
    <2>7. Owned(u, holder, disk) BY <1>0, <1>4 DEF Kept, Owned, Active
    <2>8. HeardOf(disk, u, holder) \in DiskRec /\ Sync(HeardOf(disk, u, holder), u, media) BY <1>0, <1>4, KeptHeard
    <2>9. QED BY <1>1, <1>2, <1>4, <2>1, <2>2, <2>3, <2>4, <2>5, <2>6, <2>7, <2>8 DEF Kept, u
  <1>10. Firmware' BY <1>0, <1>1, <1>5, <1>7 DEF Firmware
  <1>11. TypeOK' BY <1>0, <1>1, <1>2, <1>4, <1>10 DEF TypeOK, u
  <1>12. Turns' BY <1>0, <1>1, <1>4 DEF Turns, u
  <1>13. QED BY <1>4, <1>9, <1>11, <1>12 DEF HostInv, u

LEMMA InputTaskKeeps == ASSUME HostInv, InputTask PROVE HostInv'
  <1>1. input # << >> BY DEF InputTask
  <1>2. Head(input) = 1 \/ Head(input) = 2 \/ Head(input) = Attach BY <1>1, InputFacts
  <1>3. QED BY <1>2, AttachRootKeeps, HubCallbackKeeps, KeyCallbackKeeps

----------------------------------------------------------------------------
(* The hub driver.                                                           *)

(* A request the firmware writes into a pipe.                                *)
Requested(p, to, op, data, timeout) ==
    /\ p \in PipeRec /\ p.command = TRUE /\ p.paused = FALSE /\ p.abort = FALSE /\ p.to = to /\ p.op = op
    /\ p.data = data /\ p.timeout = timeout

LEMMA RequestFacts ==
  ASSUME NEW to \in Address \cup {"hub", "hub_ep1", "keyboard"}, NEW op \in {"setup", "in", "out"}, NEW data \in Datum,
         NEW timeout \in Nat, NEW since \in Nat
  PROVE  Requested(Request(to, op, data, timeout, since), to, op, data, timeout)
  <1> DEFINE e1 == [Dead EXCEPT !.command = TRUE]
  <1> DEFINE e2 == [e1 EXCEPT !.to = to]
  <1> DEFINE e3 == [e2 EXCEPT !.op = op]
  <1> DEFINE e4 == [e3 EXCEPT !.data = data]
  <1> DEFINE e5 == [e4 EXCEPT !.timeout = timeout]
  <1> DEFINE e6 == [e5 EXCEPT !.since = since]
  <1> DEFINE p == Request(to, op, data, timeout, since)
  <1>0. p = e6 BY DEF Request, Dead
  <1>1. Dead \in PipeRec /\ Dead.paused = FALSE /\ Dead.abort = FALSE
    <2>1. Idle \in Int /\ None \in Result /\ NoData \in Datum BY DEF Idle, Result, NoData, Datum
    <2>2. QED BY <2>1 DEF Dead, PipeRec
  <1> HIDE DEF p
  <1>2. e1 \in PipeRec /\ e1.command = TRUE /\ e1.paused = FALSE /\ e1.abort = FALSE BY <1>1 DEF PipeRec
  <1> HIDE DEF e1
  <1>3. e2 \in PipeRec /\ e2.command = TRUE /\ e2.paused = FALSE /\ e2.abort = FALSE /\ e2.to = to BY <1>2 DEF PipeRec
  <1> HIDE DEF e2
  <1>4. e3 \in PipeRec /\ e3.command = TRUE /\ e3.paused = FALSE /\ e3.abort = FALSE /\ e3.to = to /\ e3.op = op
    BY <1>3 DEF PipeRec
  <1> HIDE DEF e3
  <1>5. e4 \in PipeRec /\ e4.command = TRUE /\ e4.paused = FALSE /\ e4.abort = FALSE /\ e4.to = to /\ e4.op = op /\ e4.data = data
    BY <1>4 DEF PipeRec
  <1> HIDE DEF e4
  <1>6. /\ e5 \in PipeRec /\ e5.command = TRUE /\ e5.paused = FALSE /\ e5.abort = FALSE /\ e5.to = to /\ e5.op = op
        /\ e5.data = data /\ e5.timeout = timeout
    BY <1>5 DEF PipeRec
  <1> HIDE DEF e5
  <1>7. /\ e6 \in PipeRec /\ e6.command = TRUE /\ e6.paused = FALSE /\ e6.abort = FALSE /\ e6.to = to /\ e6.op = op
        /\ e6.data = data /\ e6.timeout = timeout
    BY <1>6 DEF PipeRec
  <1> HIDE DEF e6
  <1>8. Requested(p, to, op, data, timeout) BY <1>0, <1>7 DEF Requested
  <1>9. QED BY <1>8 DEF p

(* A new transfer on pipe 0.                                                 *)
Starts(u, to, op, data, timeout, v) ==
    /\ v \in Usb /\ v.link = u.link /\ v.fifo = u.fifo /\ v.irq = u.irq
    /\ v.port = u.port /\ v.store = u.store /\ v.kbd = u.kbd /\ v.pipe[1] = u.pipe[1] /\ v.pipe[2] = u.pipe[2]
    /\ v.pipe[0].command = TRUE /\ v.pipe[0].paused = FALSE
    /\ v.pipe[0].to = to /\ v.pipe[0].op = op /\ v.pipe[0].data = data
    /\ v.scanIn # 0 /\ Scheduled(v)

LEMMA TransferFacts ==
  ASSUME usb \in Usb, NEW to \in Address \cup {"hub"}, NEW op \in {"setup", "in", "out"}, NEW data \in Datum, NEW timeout \in Nat
  PROVE  Starts(usb, to, op, data, timeout, Transfer(to, op, data, timeout))
  <1> DEFINE v == Transfer(to, op, data, timeout)
  <1> DEFINE p == Request(to, op, data, timeout, usb.pipe[0].since)
  <1> DEFINE pipes == [usb.pipe EXCEPT ![0] = p]
  <1> DEFINE t == [usb EXCEPT !.pipe = pipes]
  <1>1. 0 \in Pipe /\ 1 \in Pipe /\ 2 \in Pipe /\ usb.pipe \in [Pipe -> PipeRec] BY DEF Pipe, Usb
  <1>2. usb.pipe[0].since \in Nat BY <1>1 DEF PipeRec
  <1>3. v = Reschedule(t)
    <2>1. t = [usb EXCEPT !.pipe[0] = p] BY <1>1 DEF Usb
    <2>2. QED BY <2>1 DEF Transfer
  <1>4. p \in PipeRec /\ p.command = TRUE /\ p.paused = FALSE /\ p.to = to /\ p.op = op /\ p.data = data
    <2>1. to \in Address \cup {"hub", "hub_ep1", "keyboard"} OBVIOUS
    <2>2. Requested(p, to, op, data, timeout) BY <1>2, <2>1, RequestFacts
    <2>3. QED BY <2>2 DEF Requested
  <1> HIDE DEF p, v
  <1>5. pipes \in [Pipe -> PipeRec] /\ pipes[0] = p /\ pipes[1] = usb.pipe[1] /\ pipes[2] = usb.pipe[2] BY <1>1, <1>4
  <1> HIDE DEF pipes
  <1>6. t \in Usb /\ t.link = usb.link /\ t.fifo = usb.fifo /\ t.irq = usb.irq /\ SameDevices(usb, t) /\ t.pipe = pipes
    BY <1>5 DEF Usb, SameDevices
  <1> HIDE DEF t
  <1>7. /\ v \in Usb /\ v.link = t.link /\ v.pipe = t.pipe /\ v.fifo = t.fifo /\ v.irq = t.irq /\ SameDevices(t, v)
        /\ v.scanIn # 0 /\ Scheduled(v)
    BY <1>3, <1>6, RescheduleFacts
  <1>8. v.pipe[0] = p /\ v.pipe[1] = usb.pipe[1] /\ v.pipe[2] = usb.pipe[2] BY <1>5, <1>6, <1>7
  <1>9. v.port = usb.port /\ v.store = usb.store /\ v.kbd = usb.kbd BY <1>6, <1>7 DEF SameDevices
  <1>10. Starts(usb, to, op, data, timeout, v) BY <1>4, <1>6, <1>7, <1>8, <1>9 DEF Starts
  <1>11. QED BY <1>10 DEF v

LEMMA StartKeeps == ASSUME HostInv, Start PROVE HostInv'
  <1>0. Kept(usb, media) /\ spent \in Nat /\ Turns /\ Firmware BY DEF HostInv, TypeOK
  <1> DEFINE u == usb'
  <1> DEFINE r == RootReset(usb)
  <1> DEFINE p == [usb.pipe[0] EXCEPT !.command = FALSE]
  <1> DEFINE pipes == [usb.pipe EXCEPT ![0] = p]
  <1>1. /\ hub.pc = "start" /\ u = [r EXCEPT !.link = "attaching", !.pipe[0].command = FALSE] /\ hub' = [hub EXCEPT !.pc = "boot"]
        /\ media' = media /\ isr' = isr /\ input' = input /\ sem' = sem /\ holder' = holder /\ waiting' = waiting /\ disk' = disk
        /\ shown' = shown /\ spent' = spent
    BY DEF Start
  <1>2. usb \in Usb /\ media \in Media /\ 0 \in Pipe /\ 1 \in Pipe /\ 2 \in Pipe /\ usb.pipe \in [Pipe -> PipeRec]
    BY <1>0 DEF Kept, Pipe, Usb
  <1>3. /\ r \in Usb /\ r.pipe = usb.pipe /\ r.fifo = usb.fifo /\ r.irq = usb.irq
        /\ r.port.enabled = FALSE /\ r.port.change = FALSE /\ r.kbd.queue = << >> /\ r.kbd.report = usb.kbd.report
    BY <1>2, RootResetFacts
  <1> HIDE DEF r
  <1>4. p \in PipeRec /\ p.command = FALSE
    <2> DEFINE o == usb.pipe[0]
    <2>1. o \in PipeRec BY <1>2
    <2> HIDE DEF o
    <2>2. [o EXCEPT !.command = FALSE] \in PipeRec /\ [o EXCEPT !.command = FALSE].command = FALSE BY <2>1 DEF PipeRec
    <2>3. QED BY <2>2 DEF o
  <1>5. u = [r EXCEPT !.link = "attaching", !.pipe = pipes] BY <1>1, <1>3 DEF Usb
  <1> HIDE DEF p
  <1>6. pipes \in [Pipe -> PipeRec] /\ pipes[0] = p /\ pipes[1] = usb.pipe[1] /\ pipes[2] = usb.pipe[2] BY <1>2, <1>4
  <1> HIDE DEF pipes, u
  <1>7. /\ u \in Usb /\ u.link = "attaching" /\ u.pipe = pipes /\ u.fifo = usb.fifo /\ u.irq = usb.irq
        /\ u.port.enabled = FALSE /\ u.port.change = FALSE /\ u.kbd.queue = << >> /\ u.kbd.report = usb.kbd.report
    <2> DEFINE e == [r EXCEPT !.link = "attaching"]
    <2>1. e \in Usb /\ e.link = "attaching" /\ e.fifo = r.fifo /\ e.irq = r.irq /\ e.port = r.port /\ e.kbd = r.kbd BY <1>3 DEF Usb
    <2>2. u = [e EXCEPT !.pipe = pipes] BY <1>3, <1>5 DEF Usb
    <2> HIDE DEF e
    <2>3. u \in Usb /\ u.link = e.link /\ u.pipe = pipes /\ u.fifo = e.fifo /\ u.irq = e.irq /\ u.port = e.port /\ u.kbd = e.kbd
      BY <1>6, <2>1, <2>2 DEF Usb
    <2>4. QED BY <1>3, <2>1, <2>3
  <1>8. /\ \A n \in Pipe : ~usb.pipe[n].command
        /\ holder = None /\ disk.pc = "idle" /\ HeardOf(disk, usb, holder) = disk /\ Honest(disk, media)
    BY <1>1, BeforeInstall
  <1>9. \A n \in Pipe : ~u.pipe[n].command BY <1>4, <1>6, <1>7, <1>8 DEF Pipe
  <1>10. hub \in HubRec BY <1>0 DEF Firmware
  <1>11. hub' \in HubRec /\ hub'.pc = "boot" /\ hub'.changed = hub.changed /\ hub'.child = hub.child BY <1>1, <1>10 DEF HubRec, HubPc
  <1>12. usb.link = "held" BY <1>0, <1>1 DEF Kept, Boots
  <1>13. Kept(usb, media)'
    <2>1. Reports(u, input, sem, hub', waiting)
      <3>1. ASSUME NEW n \in Pipe PROVE Count(u.fifo, n) + Behind(input, sem, hub', n) = Owes(u, n, waiting)
        <4>1. Owes(u, n, waiting) = 0 /\ Owes(usb, n, waiting) = 0 BY <1>8, <1>9 DEF Owes
        <4>2. ~Handling(hub') /\ ~Handling(hub) BY <1>1, <1>11 DEF Handling
        <4>3. Behind(input, sem, hub', n) = Behind(input, sem, hub, n) BY <4>2 DEF Behind
        <4>4. QED BY <1>0, <1>7, <4>1, <4>3 DEF Kept, Reports
      <3>2. ~Active(u, 0) BY <1>2, <1>9 DEF Active
      <3>3. QED BY <3>1, <3>2 DEF Reports
    <2>2. Rings(u, isr) BY <1>0, <1>7 DEF Kept, Rings
    <2>3. Opened(u) BY <1>2, <1>9 DEF Opened, Automatic
    <2>4. Boots(u, input, hub')
      <3>1. /\ Count(usb.fifo, Attach) + Count(input, Attach) = 0 /\ usb.fifo = << >> /\ hub.changed = FALSE /\ hub.child = None
        BY <1>0, <1>1, <1>12, BeforeInstall DEF Kept, Boots
      <3>2. QED BY <1>7, <1>9, <1>11, <3>1 DEF Boots
    <2>5. KeysKept(u, shown)
      <3>1. ~u.pipe[2].command BY <1>2, <1>9
      <3>2. Len(u.kbd.queue) = 0 BY <1>7
      <3>3. shown <= u.kbd.report BY <1>0, <1>7 DEF Kept, KeysKept
      <3>4. \A i : i \notin 1 .. Len(u.kbd.queue) BY <3>2
      <3>5. QED BY <1>7, <3>1, <3>3, <3>4 DEF KeysKept
    <2>6. Noticed(u, hub') /\ Ports(u, hub') BY <1>2, <1>7, <1>9 DEF Noticed, Ports
    <2>7. Owned(u, holder, disk) BY <1>8 DEF Owned, None
    <2>8. HeardOf(disk, u, holder) = disk BY <1>8 DEF HeardOf, None
    <2>9. Sync(disk, u, media) BY <1>7, <1>8 DEF Sync
    <2>10. disk \in DiskRec BY <1>0 DEF Firmware
    <2>11. QED BY <1>1, <1>2, <1>7, <2>1, <2>2, <2>3, <2>4, <2>5, <2>6, <2>7, <2>8, <2>9, <2>10 DEF Kept, u
  <1>14. Scheduled(u) BY <1>7 DEF Scheduled
  <1>15. Firmware' BY <1>0, <1>1, <1>11 DEF Firmware
  <1>16. TypeOK' BY <1>0, <1>1, <1>2, <1>7, <1>15 DEF TypeOK, u
  <1>17. Turns' BY <1>1, <1>8, <1>11 DEF Turns, None
  <1>18. QED BY <1>13, <1>14, <1>16, <1>17 DEF HostInv, u

LEMMA InstallKeeps == ASSUME HostInv, Install PROVE HostInv'
  <1>0. Kept(usb, media) /\ spent \in Nat /\ Turns /\ Firmware BY DEF HostInv, TypeOK
  <1> DEFINE u == usb'
  <1> DEFINE port == [usb.port EXCEPT !.powered = TRUE, !.change = usb.port.in]
  <1> DEFINE p1 == Request("hub_ep1", "in", NoData, 0, 0)
  <1> DEFINE p2 == Request("keyboard", "in", NoData, 0, 0)
  <1> DEFINE pipes == [usb.pipe EXCEPT ![1] = p1, ![2] = p2]
  <1> DEFINE t == [usb EXCEPT !.port = port, !.pipe = pipes]
  <1>1. /\ hub.pc = "boot" /\ usb.link = "running" /\ u = Reschedule(t) /\ hub' = [hub EXCEPT !.pc = "poll"]
        /\ media' = media /\ isr' = isr /\ input' = input /\ sem' = sem /\ holder' = holder /\ waiting' = waiting /\ disk' = disk
        /\ shown' = shown /\ spent' = spent
    BY DEF Install
  <1>2. usb \in Usb /\ media \in Media /\ 0 \in Pipe /\ 1 \in Pipe /\ 2 \in Pipe /\ usb.pipe \in [Pipe -> PipeRec] /\ usb.port \in PortRec
    BY <1>0 DEF Kept, Pipe, Usb
  <1>3. port \in PortRec /\ port.enabled = usb.port.enabled BY <1>2 DEF PortRec
  <1>4. Requested(p1, "hub_ep1", "in", NoData, 0) /\ Requested(p2, "keyboard", "in", NoData, 0)
    <2>1. NoData \in Datum /\ 0 \in Nat BY DEF NoData, Datum
    <2>2. QED BY <2>1, RequestFacts
  <1> HIDE DEF p1, p2, port, u
  <1>5. p1 \in PipeRec /\ p2 \in PipeRec /\ p1.command = TRUE /\ p1.paused = FALSE /\ p2.command = TRUE /\ p2.paused = FALSE
    BY <1>4 DEF Requested
  <1>6. pipes \in [Pipe -> PipeRec] /\ pipes[0] = usb.pipe[0] /\ pipes[1] = p1 /\ pipes[2] = p2 BY <1>2, <1>5
  <1> HIDE DEF pipes
  <1>7. /\ t \in Usb /\ t.link = usb.link /\ t.pipe = pipes /\ t.fifo = usb.fifo /\ t.irq = usb.irq /\ t.kbd = usb.kbd
        /\ t.port = port
    BY <1>2, <1>3, <1>6 DEF Usb
  <1> HIDE DEF t
  <1>8. /\ u \in Usb /\ u.link = t.link /\ u.pipe = t.pipe /\ u.fifo = t.fifo /\ u.irq = t.irq /\ SameDevices(t, u) /\ u.scanIn # 0
        /\ Scheduled(u)
    BY <1>1, <1>7, RescheduleFacts
  <1>9. /\ u.link = "running" /\ u.pipe[0] = usb.pipe[0] /\ u.pipe[1] = p1 /\ u.pipe[2] = p2 /\ u.fifo = usb.fifo /\ u.irq = usb.irq
        /\ u.kbd = usb.kbd /\ u.port = port
    BY <1>1, <1>6, <1>7, <1>8 DEF SameDevices
  <1>10. /\ \A n \in Pipe : ~usb.pipe[n].command
         /\ holder = None /\ disk.pc = "idle" /\ ~usb.port.enabled /\ HeardOf(disk, usb, holder) = disk /\ Honest(disk, media)
         /\ hub.changed = FALSE
    BY <1>1, BeforeInstall
  <1>11. hub \in HubRec BY <1>0 DEF Firmware
  <1>12. hub' \in HubRec /\ hub'.pc = "poll" /\ hub'.changed = FALSE /\ hub'.child = hub.child BY <1>1, <1>10, <1>11 DEF HubRec, HubPc
  <1>13. Kept(usb, media)'
    <2>1. Reports(u, input, sem, hub', waiting)
      <3>1. ASSUME NEW n \in Pipe PROVE Count(u.fifo, n) + Behind(input, sem, hub', n) = Owes(u, n, waiting)
        <4>1. Owes(usb, n, waiting) = 0 BY <1>10 DEF Owes
        <4>2. Owes(u, n, waiting) = 0
          <5>1. n = 0 \/ n = 1 \/ n = 2 BY DEF Pipe
          <5>2. CASE n = 0 BY <1>2, <1>9, <1>10, <5>2 DEF Owes
          <5>3. CASE n = 1 BY <1>5, <1>9, <5>3 DEF Owes
          <5>4. CASE n = 2 BY <1>5, <1>9, <5>4 DEF Owes
          <5>5. QED BY <5>1, <5>2, <5>3, <5>4
        <4>3. ~Handling(hub') /\ ~Handling(hub) BY <1>1, <1>12 DEF Handling
        <4>4. Behind(input, sem, hub', n) = Behind(input, sem, hub, n) BY <4>3 DEF Behind
        <4>5. QED BY <1>0, <1>9, <4>1, <4>2, <4>4 DEF Kept, Reports
      <3>2. ~Active(u, 0) BY <1>2, <1>9, <1>10 DEF Active
      <3>3. QED BY <3>1, <3>2 DEF Reports
    <2>2. Rings(u, isr) BY <1>0, <1>9 DEF Kept, Rings
    <2>3. Opened(u) BY <1>4, <1>9 DEF Opened, Automatic, Requested
    <2>4. Boots(u, input, hub') BY <1>0, <1>1, <1>5, <1>9, <1>12 DEF Kept, Boots
    <2>5. KeysKept(u, shown) BY <1>0, <1>5, <1>9 DEF Kept, KeysKept
    <2>6. Noticed(u, hub') BY <1>5, <1>9 DEF Noticed
    <2>7. Ports(u, hub') BY <1>3, <1>9, <1>10 DEF Ports
    <2>8. Owned(u, holder, disk) BY <1>10 DEF Owned, None
    <2>9. HeardOf(disk, u, holder) = disk BY <1>10 DEF HeardOf, None
    <2>10. Sync(disk, u, media) BY <1>3, <1>9, <1>10 DEF Sync
    <2>11. disk \in DiskRec BY <1>0 DEF Firmware
    <2>12. QED BY <1>1, <1>2, <1>8, <2>1, <2>2, <2>3, <2>4, <2>5, <2>6, <2>7, <2>8, <2>9, <2>10, <2>11 DEF Kept, u
  <1>14. Firmware' BY <1>0, <1>1, <1>12 DEF Firmware
  <1>15. TypeOK' BY <1>0, <1>1, <1>2, <1>8, <1>14 DEF TypeOK, u
  <1>16. Turns' BY <1>1, <1>10, <1>12 DEF Turns, None
  <1>17. QED BY <1>8, <1>13, <1>15, <1>16 DEF HostInv, u

LEMMA HubPollKeeps == ASSUME HostInv, HubPoll PROVE HostInv'
  <1>0. Kept(usb, media) /\ spent \in Nat /\ Turns /\ Firmware BY DEF HostInv, TypeOK
  <1> DEFINE u == usb'
  <1>1. /\ hub.pc = "poll" /\ hub.changed /\ holder = None /\ holder' = "hub" /\ waiting' = TRUE
        /\ u = Transfer("hub", "setup", NoData, 0) /\ hub' = [hub EXCEPT !.pc = "setup"]
        /\ media' = media /\ isr' = isr /\ input' = input /\ sem' = sem /\ disk' = disk /\ shown' = shown /\ spent' = spent
    BY DEF HubPoll, Take
  <1>2. usb \in Usb /\ media \in Media /\ 0 \in Pipe /\ 1 \in Pipe /\ 2 \in Pipe BY <1>0 DEF Kept, Pipe
  <1>3. Starts(usb, "hub", "setup", NoData, 0, u)
    <2>1. NoData \in Datum /\ 0 \in Nat BY DEF NoData, Datum
    <2>2. QED BY <1>1, <1>2, <2>1, TransferFacts
  <1> HIDE DEF u
  <1>4. /\ u \in Usb /\ u.link = usb.link /\ u.fifo = usb.fifo /\ u.irq = usb.irq
        /\ u.port = usb.port /\ u.store = usb.store /\ u.kbd = usb.kbd /\ u.pipe[1] = usb.pipe[1] /\ u.pipe[2] = usb.pipe[2]
        /\ u.pipe[0].paused = FALSE /\ u.pipe[0].to = "hub" /\ u.scanIn # 0 /\ Scheduled(u)
    BY <1>3 DEF Starts
  <1>5. waiting = FALSE BY <1>0, <1>1 DEF Firmware
  <1>6. HeardOf(disk, usb, holder) = disk /\ HeardOf(disk, u, "hub") = disk BY <1>1 DEF HeardOf, None
  <1>7. hub \in HubRec BY <1>0 DEF Firmware
  <1>8. hub' \in HubRec /\ hub'.pc = "setup" /\ hub'.changed = hub.changed /\ hub'.child = hub.child BY <1>1, <1>7 DEF HubRec, HubPc
  <1>9. Kept(usb, media)'
    <2>1. Reports(u, input, sem, hub', TRUE)
      <3>1. ASSUME NEW n \in Pipe PROVE Count(u.fifo, n) + Behind(input, sem, hub', n) = Owes(u, n, TRUE)
        <4>1. Handling(hub') /\ Handling(hub) BY <1>1, <1>8 DEF Handling
        <4>2. Behind(input, sem, hub', n) = Behind(input, sem, hub, n) BY <4>1 DEF Behind
        <4>3. Owes(u, n, TRUE) = Owes(usb, n, waiting)
          <5>1. CASE n = 0 BY <1>4, <1>5, <5>1 DEF Owes
          <5>2. CASE n # 0
            <6>1. u.pipe[n] = usb.pipe[n] BY <1>4, <5>2 DEF Pipe
            <6>2. QED BY <5>2, <6>1 DEF Owes
          <5>3. QED BY <5>1, <5>2
        <4>4. QED BY <1>0, <1>4, <4>2, <4>3 DEF Kept, Reports
      <3>2. QED BY <3>1 DEF Reports
    <2>2. Rings(u, isr) BY <1>0, <1>4 DEF Kept, Rings
    <2>3. Opened(u) BY <1>0, <1>4 DEF Kept, Opened
    <2>4. Boots(u, input, hub') BY <1>0, <1>1, <1>4, <1>8 DEF Kept, Boots
    <2>5. KeysKept(u, shown) BY <1>0, <1>4 DEF Kept, KeysKept
    <2>6. Noticed(u, hub') /\ Ports(u, hub') BY <1>0, <1>1, <1>4, <1>8 DEF Kept, Noticed, Ports
    <2>7. Owned(u, "hub", disk) BY <1>4 DEF Owned
    <2>8. Sync(disk, u, media) /\ disk \in DiskRec
      <3>1. Sync(disk, usb, media) /\ disk \in DiskRec BY <1>0, <1>6 DEF Kept
      <3>2. QED BY <1>4, <3>1, SyncSame
    <2>9. QED BY <1>1, <1>2, <1>4, <1>6, <2>1, <2>2, <2>3, <2>4, <2>5, <2>6, <2>7, <2>8 DEF Kept, u
  <1>10. Firmware'
    <2>1. "hub" \in {None, "hub", "disk"} /\ "hub" # None BY DEF None
    <2>2. QED BY <1>0, <1>1, <1>8, <2>1 DEF Firmware
  <1>11. TypeOK' BY <1>0, <1>1, <1>2, <1>4, <1>10 DEF TypeOK, u
  <1>12. Turns' BY <1>1, <1>8 DEF Turns
  <1>13. QED BY <1>4, <1>9, <1>11, <1>12 DEF HostInv, u

(* A completion belongs to the report pipe 0 owes; no other word is on its way. *)
LEMMA CompletionOwed ==
  ASSUME HostInv, sem
  PROVE  /\ usb.pipe[0].command /\ usb.pipe[0].paused /\ waiting /\ Count(usb.fifo, 0) = 0 /\ Count(input, 0) = 0
         /\ hub.pc \notin {"start", "boot"}
  <1>1. Kept(usb, media) /\ Firmware BY DEF HostInv, TypeOK
  <1>2. 0 \in Pipe BY DEF Pipe
  <1>3. Count(usb.fifo, 0) + Behind(input, sem, hub, 0) = Owes(usb, 0, waiting) BY <1>1, <1>2 DEF Kept, Reports
  <1>4. usb.fifo \in Seq(Word) /\ input \in Seq(Word) BY <1>1, InputWords DEF Kept, Usb
  <1>5. Count(usb.fifo, 0) \in Nat /\ Count(input, 0) \in Nat BY <1>4, CountType
  <1>6. Behind(input, sem, hub, 0) = Count(input, 0) + 1 BY DEF Behind
  <1>7. Owes(usb, 0, waiting) \in {0, 1} BY DEF Owes
  <1>8. Owes(usb, 0, waiting) = 1 /\ Count(usb.fifo, 0) = 0 /\ Count(input, 0) = 0
    <2> DEFINE b == Behind(input, sem, hub, 0)
    <2> DEFINE o == Owes(usb, 0, waiting)
    <2>1. Count(usb.fifo, 0) + b = o /\ b = Count(input, 0) + 1 /\ o \in {0, 1} BY <1>3, <1>6, <1>7
    <2> HIDE DEF b, o
    <2>2. o = 1 /\ Count(usb.fifo, 0) = 0 /\ Count(input, 0) = 0 BY <1>5, <2>1
    <2>3. QED BY <2>2 DEF o
  <1>9. usb.pipe[0].command /\ usb.pipe[0].paused /\ waiting BY <1>8 DEF Owes
  <1>10. hub.pc \notin {"start", "boot"} BY <1>2, <1>9, BeforeInstall
  <1>11. QED BY <1>8, <1>9, <1>10

(* The next transfer of the exchange with the hub.                           *)
LEMMA HubNextKeeps ==
  ASSUME HostInv, HubStage, NEW op \in {"in", "out"}, NEW data \in Datum, NEW pc \in {"data", "status"},
         usb' = Transfer("hub", op, data, 0), hub' = [hub EXCEPT !.pc = pc], UNCHANGED << holder, waiting >>,
         hub.pc \in {"setup", "data"}
  PROVE  HostInv'
  <1>0. Kept(usb, media) /\ spent \in Nat /\ Turns /\ Firmware BY DEF HostInv, TypeOK
  <1> DEFINE u == usb'
  <1>1. /\ holder = "hub" /\ waiting /\ sem /\ sem' = FALSE /\ holder' = holder /\ waiting' = waiting
        /\ media' = media /\ isr' = isr /\ input' = input /\ disk' = disk /\ shown' = shown /\ spent' = spent
    BY DEF HubStage
  <1>2. usb \in Usb /\ media \in Media /\ 0 \in Pipe /\ 1 \in Pipe /\ 2 \in Pipe BY <1>0 DEF Kept, Pipe
  <1>3. Starts(usb, "hub", op, data, 0, u) BY <1>2, TransferFacts
  <1> HIDE DEF u
  <1>4. /\ u \in Usb /\ u.link = usb.link /\ u.fifo = usb.fifo /\ u.irq = usb.irq
        /\ u.port = usb.port /\ u.store = usb.store /\ u.kbd = usb.kbd /\ u.pipe[1] = usb.pipe[1] /\ u.pipe[2] = usb.pipe[2]
        /\ u.pipe[0].paused = FALSE /\ u.pipe[0].to = "hub" /\ u.scanIn # 0 /\ Scheduled(u)
    BY <1>3 DEF Starts
  <1>5. Count(usb.fifo, 0) = 0 /\ Count(input, 0) = 0 BY <1>1, CompletionOwed
  <1>6. HeardOf(disk, usb, holder) = disk /\ HeardOf(disk, u, holder) = disk BY <1>1 DEF HeardOf
  <1>7. hub \in HubRec BY <1>0 DEF Firmware
  <1>8. hub' \in HubRec /\ hub'.pc = pc /\ hub'.changed = hub.changed /\ hub'.child = hub.child BY <1>7 DEF HubRec, HubPc
  <1>9. Kept(usb, media)'
    <2>1. Reports(u, input, FALSE, hub', waiting)
      <3>1. ASSUME NEW n \in Pipe PROVE Count(u.fifo, n) + Behind(input, FALSE, hub', n) = Owes(u, n, waiting)
        <4>1. CASE n = 0
          <5>1. Owes(u, 0, waiting) = 0 BY <1>4 DEF Owes
          <5>2. Behind(input, FALSE, hub', 0) = 0 BY <1>5 DEF Behind
          <5> DEFINE b == Behind(input, FALSE, hub', 0)
          <5>3. b = 0 BY <5>2
          <5>4. Count(u.fifo, 0) = 0 BY <1>4, <1>5
          <5> HIDE DEF b
          <5>5. Count(u.fifo, 0) + b = Owes(u, 0, waiting) BY <5>1, <5>3, <5>4
          <5>6. QED BY <4>1, <5>5 DEF b
        <4>2. CASE n # 0
          <5>1. Handling(hub') /\ Handling(hub) BY <1>8 DEF Handling
          <5>2. Behind(input, FALSE, hub', n) = Behind(input, sem, hub, n) BY <4>2, <5>1 DEF Behind
          <5>3. u.pipe[n] = usb.pipe[n] BY <1>4, <4>2 DEF Pipe
          <5>4. Owes(u, n, waiting) = Owes(usb, n, waiting) BY <5>3 DEF Owes
          <5>5. QED BY <1>0, <1>4, <5>2, <5>4 DEF Kept, Reports
        <4>3. QED BY <4>1, <4>2
      <3>2. QED BY <1>1, <3>1 DEF Reports
    <2>2. Rings(u, isr) BY <1>0, <1>4 DEF Kept, Rings
    <2>3. Opened(u) BY <1>0, <1>4 DEF Kept, Opened
    <2>4. Boots(u, input, hub') BY <1>0, <1>4, <1>8 DEF Kept, Boots
    <2>5. KeysKept(u, shown) BY <1>0, <1>4 DEF Kept, KeysKept
    <2>6. Noticed(u, hub') /\ Ports(u, hub') BY <1>0, <1>4, <1>8 DEF Kept, Noticed, Ports
    <2>7. Owned(u, holder, disk) BY <1>1, <1>4 DEF Owned
    <2>8. Sync(disk, u, media) /\ disk \in DiskRec
      <3>1. Sync(disk, usb, media) /\ disk \in DiskRec BY <1>0, <1>6 DEF Kept
      <3>2. QED BY <1>4, <3>1, SyncSame
    <2>9. QED BY <1>1, <1>2, <1>4, <1>6, <2>1, <2>2, <2>3, <2>4, <2>5, <2>6, <2>7, <2>8 DEF Kept, u
  <1>10. Firmware'
    <2>1. sem' \in BOOLEAN BY <1>1
    <2>2. QED BY <1>0, <1>1, <1>8, <2>1 DEF Firmware
  <1>11. TypeOK' BY <1>0, <1>1, <1>2, <1>4, <1>10 DEF TypeOK, u
  <1>12. Turns' BY <1>0, <1>1, <1>8 DEF Turns
  <1>13. QED BY <1>4, <1>9, <1>11, <1>12 DEF HostInv, u

LEMMA HubStageKeeps == ASSUME HostInv, HubStage PROVE HostInv'
  <1>0. Kept(usb, media) /\ spent \in Nat /\ Turns /\ Firmware BY DEF HostInv, TypeOK
  <1>1. holder = "hub" /\ waiting /\ sem /\ sem' = FALSE /\ UNCHANGED << media, isr, input, disk, shown, spent >> BY DEF HubStage
  <1>2. hub.pc \in {"setup", "data", "status"} BY <1>0, <1>1 DEF Turns
  <1>3. NoData \in Datum /\ Bytes \in Datum BY DEF NoData, Datum
  <1>4. CASE hub.pc = "setup"
    <2>1. usb' = Transfer("hub", "in", NoData, 0) /\ hub' = [hub EXCEPT !.pc = "data"] /\ UNCHANGED << holder, waiting >>
      BY <1>4 DEF HubStage
    <2>2. QED BY <1>3, <1>4, <2>1, HubNextKeeps
  <1>5. CASE hub.pc = "data"
    <2>1. usb' = Transfer("hub", "out", Bytes, 0) /\ hub' = [hub EXCEPT !.pc = "status"] /\ UNCHANGED << holder, waiting >>
      BY <1>5 DEF HubStage
    <2>2. QED BY <1>3, <1>5, <2>1, HubNextKeeps
  <1>6. CASE hub.pc = "status"
    <2>1. usb' = usb /\ hub' = [hub EXCEPT !.pc = "act"] /\ holder' = None /\ waiting' = FALSE BY <1>6 DEF HubStage
    <2>2. hub \in HubRec BY <1>0 DEF Firmware
    <2>3. hub' \in HubRec /\ hub'.pc = "act" /\ hub'.changed = hub.changed /\ hub'.child = hub.child BY <2>1, <2>2 DEF HubRec, HubPc
    <2>4. usb.pipe[0].paused /\ Count(usb.fifo, 0) = 0 /\ Count(input, 0) = 0 BY <1>1, CompletionOwed
    <2>5. HeardOf(disk, usb, holder) = disk /\ HeardOf(disk, usb, None) = disk BY <1>1 DEF HeardOf, None
    <2>6. Kept(usb, media)'
      <3>1. Reports(usb, input, FALSE, hub', FALSE)
        <4>1. ASSUME NEW n \in Pipe PROVE Count(usb.fifo, n) + Behind(input, FALSE, hub', n) = Owes(usb, n, FALSE)
          <5>1. CASE n = 0
            <6>1. Owes(usb, 0, FALSE) = 0 BY DEF Owes
            <6>2. Behind(input, FALSE, hub', 0) = 0 BY <2>4 DEF Behind
            <6> DEFINE b == Behind(input, FALSE, hub', 0)
            <6> DEFINE o == Owes(usb, 0, FALSE)
            <6>3. b = 0 /\ o = 0 BY <6>1, <6>2
            <6> HIDE DEF b, o
            <6>4. Count(usb.fifo, 0) + b = o BY <2>4, <6>3
            <6>5. QED BY <5>1, <6>4 DEF b, o
          <5>2. CASE n # 0
            <6>1. Handling(hub') /\ Handling(hub) BY <1>6, <2>3 DEF Handling
            <6>2. Behind(input, FALSE, hub', n) = Behind(input, sem, hub, n) BY <5>2, <6>1 DEF Behind
            <6>3. Owes(usb, n, FALSE) = Owes(usb, n, waiting) BY <5>2 DEF Owes
            <6>4. QED BY <1>0, <6>2, <6>3 DEF Kept, Reports
          <5>3. QED BY <5>1, <5>2
        <4>2. ~Active(usb, 0) BY <2>4 DEF Active
        <4>3. QED BY <4>1, <4>2 DEF Reports
      <3>2. Boots(usb, input, hub') BY <1>0, <1>6, <2>3 DEF Kept, Boots
      <3>3. Noticed(usb, hub') /\ Ports(usb, hub') BY <1>0, <1>6, <2>3 DEF Kept, Noticed, Ports
      <3>4. Owned(usb, None, disk) BY DEF Owned, None
      <3>5. Sync(disk, usb, media) /\ disk \in DiskRec BY <1>0, <2>5 DEF Kept
      <3>6. QED BY <1>0, <1>1, <2>1, <2>5, <3>1, <3>2, <3>3, <3>4, <3>5 DEF Kept
    <2>7. Firmware'
      <3>1. sem' \in BOOLEAN /\ waiting' \in BOOLEAN /\ (waiting' <=> holder' # None) BY <1>1, <2>1
      <3>2. holder' \in {None, "hub", "disk"} BY <2>1
      <3>3. QED BY <1>0, <1>1, <2>1, <2>3, <3>1, <3>2 DEF Firmware
    <2>8. TypeOK' BY <1>0, <1>1, <2>1, <2>7 DEF TypeOK, Kept
    <2>9. Turns' BY <2>1, <2>3 DEF Turns, None
    <2>10. Scheduled(usb)' BY <2>1 DEF HostInv
    <2>11. QED BY <2>6, <2>8, <2>9, <2>10 DEF HostInv
  <1>7. QED BY <1>2, <1>4, <1>5, <1>6

(* The driver acts on a change of a port that is not enabled: a command that   *)
(* has begun lost its stick.                                                 *)
LEMMA ActSync ==
  ASSUME NEW d, NEW u, NEW m, Sync(d, u, m), ~u.port.enabled, NEW v, v.store.phase.at = "command"
  PROVE  Sync(d, v, m)
  <1>1. d.pc # "idle" => d.pulled BY DEF Sync
  <1>2. d.pc # "idle" => InStep(d, v, m) \/ Lost(d, v)
    <2>1. CASE d.pc = "cbw"
      <3>1. d.pulled BY <1>1, <2>1
      <3>2. QED BY <2>1, <3>1 DEF InStep, AtCommand
    <2>2. CASE d.pc # "cbw" BY <1>1, <2>2 DEF Lost
    <2>3. QED BY <2>1, <2>2
  <1>3. QED BY <1>1, <1>2 DEF Sync

LEMMA HubActKeeps == ASSUME HostInv, HubAct PROVE HostInv'
  <1>0. Kept(usb, media) /\ spent \in Nat /\ Turns /\ Firmware /\ Scheduled(usb) BY DEF HostInv, TypeOK
  <1> DEFINE u == usb'
  <1>1. /\ hub.pc = "act" /\ media' = media /\ isr' = isr /\ input' = input /\ sem' = sem /\ holder' = holder /\ waiting' = waiting
        /\ disk' = disk /\ shown' = shown /\ spent' = spent
    BY DEF HubAct
  <1>2. usb \in Usb /\ media \in Media /\ 1 \in Pipe /\ usb.port \in PortRec /\ hub \in HubRec BY <1>0 DEF Kept, Pipe, Usb, Firmware
  <1>3. usb.port.change /\ ~usb.port.enabled
    <2>1. Handling(hub) BY <1>1 DEF Handling
    <2>2. Behind(input, sem, hub, 1) = Count(input, 1) + 1 BY <2>1 DEF Behind
    <2>3. Count(usb.fifo, 1) + Behind(input, sem, hub, 1) = Owes(usb, 1, waiting) BY <1>0, <1>2 DEF Kept, Reports
    <2>4. Count(input, 1) \in Nat /\ Count(usb.fifo, 1) \in Nat
      <3>1. usb.fifo \in Seq(Word) /\ input \in Seq(Word) BY <1>0, <1>2, InputWords DEF Usb
      <3>2. QED BY <3>1, CountType
    <2>5. Owes(usb, 1, waiting) # 0 BY <2>2, <2>3, <2>4
    <2>6. usb.pipe[1].command /\ usb.pipe[1].paused BY <2>5 DEF Owes
    <2>7. QED BY <1>0, <1>1, <2>6 DEF Kept, Noticed, Ports
  <1>4. /\ u \in Usb /\ u.link = usb.link /\ u.pipe = usb.pipe /\ u.fifo = usb.fifo /\ u.irq = usb.irq /\ u.kbd = usb.kbd
        /\ u.scanIn = usb.scanIn /\ u.port.change = FALSE /\ hub' \in HubRec /\ hub'.pc = "resume" /\ hub'.changed = hub.changed
        /\ (u.port.enabled => u.port.in /\ u.port.address = hub'.child /\ hub'.child # None /\ u.store.phase.at = "command")
    <2>1. CASE usb.port.in
      <3>1. PICK a \in Address :
              /\ usb' = [usb EXCEPT !.port = [usb.port EXCEPT !.change = FALSE, !.enabled = TRUE, !.address = a],
                                    !.store = StoreReset(@)]
              /\ hub' = [hub EXCEPT !.pc = "resume", !.child = a]
        BY <2>1 DEF HubAct
      <3> DEFINE port == [usb.port EXCEPT !.change = FALSE, !.enabled = TRUE, !.address = a]
      <3> DEFINE store == StoreReset(usb.store)
      <3>2. port \in PortRec /\ port.in = usb.port.in /\ port.change = FALSE /\ port.address = a BY <1>2 DEF PortRec
      <3>3. store \in Store /\ store.phase.at = "command" BY StoreResetFacts
      <3>4. u = [usb EXCEPT !.port = port, !.store = store] BY <1>2, <3>1 DEF Usb
      <3> HIDE DEF port, store, u
      <3>5. /\ u \in Usb /\ u.link = usb.link /\ u.pipe = usb.pipe /\ u.fifo = usb.fifo /\ u.irq = usb.irq /\ u.kbd = usb.kbd
            /\ u.scanIn = usb.scanIn /\ u.port = port /\ u.store = store
        BY <1>2, <3>2, <3>3, <3>4 DEF Usb
      <3>6. a # None BY Sizes
      <3>7. hub' \in HubRec /\ hub'.pc = "resume" /\ hub'.changed = hub.changed /\ hub'.child = a BY <1>2, <3>1 DEF HubRec, HubPc
      <3>8. QED BY <2>1, <3>2, <3>3, <3>5, <3>6, <3>7
    <2>2. CASE ~usb.port.in
      <3>1. usb' = [usb EXCEPT !.port.change = FALSE] /\ hub' = [hub EXCEPT !.pc = "resume", !.child = None] BY <2>2 DEF HubAct
      <3> DEFINE port == [usb.port EXCEPT !.change = FALSE]
      <3>2. port \in PortRec /\ port.change = FALSE /\ port.enabled = usb.port.enabled BY <1>2 DEF PortRec
      <3>3. u = [usb EXCEPT !.port = port] BY <1>2, <3>1 DEF Usb
      <3> HIDE DEF port, u
      <3>4. /\ u \in Usb /\ u.link = usb.link /\ u.pipe = usb.pipe /\ u.fifo = usb.fifo /\ u.irq = usb.irq /\ u.kbd = usb.kbd
            /\ u.scanIn = usb.scanIn /\ u.port = port
        BY <1>2, <3>2, <3>3 DEF Usb
      <3>5. hub' \in HubRec /\ hub'.pc = "resume" /\ hub'.changed = hub.changed BY <1>2, <3>1 DEF HubRec, HubPc
      <3>6. QED BY <1>3, <3>2, <3>4, <3>5
    <2>3. QED BY <2>1, <2>2
  <1> HIDE DEF u
  <1>5. Kept(usb, media)'
    <2>1. Reports(u, input, sem, hub', waiting)
      <3>1. Handling(hub') /\ Handling(hub) BY <1>1, <1>4 DEF Handling
      <3>2. \A n \in Pipe : Behind(input, sem, hub', n) = Behind(input, sem, hub, n) BY <3>1 DEF Behind
      <3>3. QED BY <1>0, <1>4, <3>2 DEF Kept, Reports, Owes, Active
    <2>2. Rings(u, isr) BY <1>0, <1>4 DEF Kept, Rings
    <2>3. Opened(u) BY <1>0, <1>4 DEF Kept, Opened
    <2>4. Boots(u, input, hub') BY <1>0, <1>1, <1>4 DEF Kept, Boots
    <2>5. KeysKept(u, shown) BY <1>0, <1>4 DEF Kept, KeysKept
    <2>6. Noticed(u, hub') /\ Ports(u, hub') BY <1>4 DEF Noticed, Ports
    <2>7. Owned(u, holder, disk) BY <1>0, <1>4 DEF Kept, Owned, Active
    <2>8. HeardOf(disk, u, holder) \in DiskRec /\ Sync(HeardOf(disk, u, holder), u, media)
      <3> DEFINE e == HeardOf(disk, usb, holder)
      <3>1. HeardOf(disk, u, holder) = e BY <1>4 DEF HeardOf
      <3>2. e \in DiskRec /\ Sync(e, usb, media) BY <1>0 DEF Kept
      <3> HIDE DEF e
      <3>3. CASE u.port.enabled BY <1>3, <1>4, <3>1, <3>2, <3>3, ActSync
      <3>4. CASE ~u.port.enabled BY <1>3, <3>1, <3>2, <3>4, SyncOff
      <3>5. QED BY <3>3, <3>4
    <2>9. QED BY <1>1, <1>2, <1>4, <2>1, <2>2, <2>3, <2>4, <2>5, <2>6, <2>7, <2>8 DEF Kept, u
  <1>6. Scheduled(u) BY <1>0, <1>4 DEF Scheduled, FifoFull, Active
  <1>7. Firmware' BY <1>0, <1>1, <1>4 DEF Firmware
  <1>8. TypeOK' BY <1>0, <1>1, <1>2, <1>4, <1>7 DEF TypeOK, u
  <1>9. Turns' BY <1>0, <1>1, <1>4 DEF Turns
  <1>10. QED BY <1>5, <1>6, <1>8, <1>9 DEF HostInv, u

LEMMA HubResumeKeeps == ASSUME HostInv, HubResume PROVE HostInv'
  <1>0. Kept(usb, media) /\ spent \in Nat /\ Turns /\ Firmware BY DEF HostInv, TypeOK
  <1> DEFINE u == usb'
  <1>1. /\ hub.pc = "resume" /\ u = Resumed(usb, 1) /\ hub' = [hub EXCEPT !.pc = "clear"]
        /\ media' = media /\ isr' = isr /\ input' = input /\ sem' = sem /\ holder' = holder /\ waiting' = waiting /\ disk' = disk
        /\ shown' = shown /\ spent' = spent
    BY DEF HubResume
  <1>2. usb \in Usb /\ media \in Media /\ 0 \in Pipe /\ 1 \in Pipe /\ 2 \in Pipe BY <1>0 DEF Kept, Pipe
  <1>3. Resumes(usb, 1, u) BY <1>1, <1>2, ResumedFacts
  <1> HIDE DEF u
  <1>4. /\ u \in Usb /\ u.link = usb.link /\ u.fifo = usb.fifo /\ u.irq = usb.irq /\ u.port = usb.port /\ u.store = usb.store
        /\ u.kbd = usb.kbd /\ u.pipe[0] = usb.pipe[0] /\ u.pipe[2] = usb.pipe[2] /\ SameRequest(usb.pipe[1], u.pipe[1])
        /\ u.pipe[1].paused = FALSE /\ u.scanIn # 0 /\ Scheduled(u)
    BY <1>2, <1>3 DEF Resumes
  <1>5. u.pipe[1].command = usb.pipe[1].command BY <1>4 DEF SameRequest
  <1>6. hub \in HubRec BY <1>0 DEF Firmware
  <1>7. hub' \in HubRec /\ hub'.pc = "clear" /\ hub'.changed = hub.changed /\ hub'.child = hub.child BY <1>1, <1>6 DEF HubRec, HubPc
  <1>8. Handling(hub) /\ ~Handling(hub') BY <1>1, <1>7 DEF Handling
  <1>9. Kept(usb, media)'
    <2>1. Reports(u, input, sem, hub', waiting)
      <3>1. ASSUME NEW n \in Pipe PROVE Count(u.fifo, n) + Behind(input, sem, hub', n) = Owes(u, n, waiting)
        <4>0. Count(usb.fifo, n) + Behind(input, sem, hub, n) = Owes(usb, n, waiting) BY <1>0 DEF Kept, Reports
        <4>1. CASE n = 1
          <5>1. Owes(u, 1, waiting) = 0 /\ Owes(usb, 1, waiting) \in {0, 1} BY <1>4 DEF Owes
          <5>2. Behind(input, sem, hub, 1) = Count(input, 1) + 1 BY <1>8 DEF Behind
          <5>3. Count(input, 1) \in Nat /\ Count(usb.fifo, 1) \in Nat
            <6>1. usb.fifo \in Seq(Word) /\ input \in Seq(Word) BY <1>0, <1>2, InputWords DEF Usb
            <6>2. QED BY <6>1, CountType
          <5>4. Count(input, 1) = 0 /\ Count(usb.fifo, 1) = 0 BY <4>0, <4>1, <5>1, <5>2, <5>3
          <5>5. Behind(input, sem, hub', 1) = 0 BY <1>8, <5>4 DEF Behind
          <5>6. QED BY <1>4, <4>1, <5>1, <5>4, <5>5
        <4>2. CASE n # 1
          <5>1. u.pipe[n] = usb.pipe[n] BY <1>4, <4>2 DEF Pipe
          <5>2. Behind(input, sem, hub', n) = Behind(input, sem, hub, n) BY <4>2 DEF Behind
          <5>3. Owes(u, n, waiting) = Owes(usb, n, waiting) BY <5>1 DEF Owes
          <5>4. QED BY <1>4, <4>0, <5>2, <5>3
        <4>3. QED BY <4>1, <4>2
      <3>2. Active(u, 0) => waiting BY <1>0, <1>4 DEF Kept, Reports, Active
      <3>3. QED BY <3>1, <3>2 DEF Reports
    <2>2. Rings(u, isr) BY <1>0, <1>4 DEF Kept, Rings
    <2>3. Opened(u) BY <1>0, <1>4 DEF Kept, Opened, Automatic, SameRequest
    <2>4. Boots(u, input, hub') BY <1>0, <1>1, <1>4, <1>5, <1>7 DEF Kept, Boots
    <2>5. KeysKept(u, shown) BY <1>0, <1>4 DEF Kept, KeysKept
    <2>6. Noticed(u, hub') /\ Ports(u, hub') BY <1>0, <1>4, <1>7 DEF Kept, Noticed, Ports
    <2>7. Owned(u, holder, disk) BY <1>0, <1>4 DEF Kept, Owned, Active
    <2>8. HeardOf(disk, u, holder) \in DiskRec /\ Sync(HeardOf(disk, u, holder), u, media) BY <1>0, <1>4, KeptHeard
    <2>9. QED BY <1>1, <1>2, <1>4, <2>1, <2>2, <2>3, <2>4, <2>5, <2>6, <2>7, <2>8 DEF Kept, u
  <1>10. Firmware' BY <1>0, <1>1, <1>7 DEF Firmware
  <1>11. TypeOK' BY <1>0, <1>1, <1>2, <1>4, <1>10 DEF TypeOK, u
  <1>12. Turns' BY <1>0, <1>1, <1>4, <1>7 DEF Turns, u
  <1>13. QED BY <1>4, <1>9, <1>11, <1>12 DEF HostInv, u

LEMMA HubClearKeeps == ASSUME HostInv, HubClear PROVE HostInv'
  <1>0. Kept(usb, media) /\ spent \in Nat /\ Turns /\ Firmware BY DEF HostInv, TypeOK
  <1>1. /\ hub.pc = "clear" /\ hub' = [hub EXCEPT !.pc = "poll", !.changed = FALSE] /\ usb' = usb
        /\ media' = media /\ isr' = isr /\ input' = input /\ sem' = sem /\ holder' = holder /\ waiting' = waiting /\ disk' = disk
        /\ shown' = shown /\ spent' = spent
    BY DEF HubClear
  <1>2. hub \in HubRec BY <1>0 DEF Firmware
  <1>3. hub' \in HubRec /\ hub'.pc = "poll" /\ hub'.changed = FALSE /\ hub'.child = hub.child BY <1>1, <1>2 DEF HubRec, HubPc
  <1>4. ~Handling(hub) /\ ~Handling(hub') BY <1>1, <1>3 DEF Handling
  <1>5. Kept(usb, media)'
    <2>1. Reports(usb, input, sem, hub', waiting)
      <3>1. \A n \in Pipe : Behind(input, sem, hub', n) = Behind(input, sem, hub, n) BY <1>4 DEF Behind
      <3>2. QED BY <1>0, <3>1 DEF Kept, Reports
    <2>2. Boots(usb, input, hub') BY <1>0, <1>1, <1>3 DEF Kept, Boots
    <2>3. Noticed(usb, hub') /\ Ports(usb, hub') BY <1>0, <1>1, <1>3 DEF Kept, Noticed, Ports
    <2>4. QED BY <1>0, <1>1, <2>1, <2>2, <2>3 DEF Kept
  <1>6. Firmware' BY <1>0, <1>1, <1>3 DEF Firmware
  <1>7. TypeOK' BY <1>0, <1>1, <1>6 DEF TypeOK, Kept
  <1>8. Turns' BY <1>0, <1>1, <1>3 DEF Turns
  <1>9. Scheduled(usb)' BY <1>1 DEF HostInv
  <1>10. QED BY <1>5, <1>7, <1>8, <1>9 DEF HostInv

----------------------------------------------------------------------------
(* The disk driver.                                                          *)

LEMMA DiskStartKeeps == ASSUME HostInv, NEW kind \in {"read", "write"}, DiskStart(kind) PROVE HostInv'
  <1>0. Kept(usb, media) /\ spent \in Nat /\ Turns /\ Firmware BY DEF HostInv, TypeOK
  <1> DEFINE cmd == [kind |-> kind, id |-> spent + 1]
  <1> DEFINE d == disk'
  <1>1. /\ disk.pc = "idle" /\ hub.child # None /\ spent' = spent + 1
        /\ d = [pc |-> "cbw", cmd |-> cmd, to |-> hub.child, left |-> Chunks, data |-> NoData, on |-> None,
                pulled |-> ~usb.port.enabled, end |-> None]
        /\ usb' = usb /\ media' = media /\ isr' = isr /\ input' = input /\ sem' = sem /\ holder' = holder /\ waiting' = waiting
        /\ hub' = hub /\ shown' = shown
    BY DEF DiskStart, Event
  <1>2. cmd \in Cmd /\ cmd.kind = kind BY <1>0 DEF Cmd
  <1>3. hub.child \in Address BY <1>0, <1>1 DEF Firmware, HubRec
  <1>4. Chunks \in Nat BY Sizes
  <1> DEFINE off == ~usb.port.enabled
  <1>5. off \in BOOLEAN OBVIOUS
  <1> HIDE DEF cmd, d
  <1>6. /\ d.pc = "cbw" /\ d.cmd = cmd /\ d.to = hub.child /\ d.left = Chunks /\ d.on = None /\ (d.pulled <=> off) /\ d.end = None
    <2> HIDE DEF off
    <2>1. d = [pc |-> "cbw", cmd |-> cmd, to |-> hub.child, left |-> Chunks, data |-> NoData, on |-> None, pulled |-> off, end |-> None]
      BY <1>1 DEF off
    <2>2. QED BY <2>1
  <1>7. d \in DiskRec
    <2>1. d = [pc |-> "cbw", cmd |-> cmd, to |-> hub.child, left |-> Chunks, data |-> NoData, on |-> None, pulled |-> off, end |-> None]
      BY <1>1
    <2> HIDE DEF off
    <2>2. QED BY <1>2, <1>3, <1>4, <1>5, <2>1 DEF DiskRec, NoData
  <1>8. holder # "disk" BY <1>0, <1>1 DEF Kept, Owned
  <1>9. HeardOf(disk, usb, holder) = disk /\ HeardOf(d, usb, holder) = d BY <1>8 DEF HeardOf
  <1>10. Kept(usb, media)'
    <2>1. Owned(usb, holder, d) BY <1>0, <1>8 DEF Kept, Owned
    <2>2. Sync(d, usb, media)
      <3>1. usb.port.enabled => usb.store.phase.at = "command" /\ usb.port.address = hub.child
        BY <1>0, <1>1, <1>9 DEF Kept, Sync, Ports
      <3>2. DataTransfers(d.cmd) = Chunks BY <1>2, <1>6 DEF DataTransfers
      <3>3. d.cmd.kind # "sense" BY <1>2, <1>6
      <3>4. usb.port.enabled => InStep(d, usb, media) BY <1>6, <3>1, <3>3 DEF InStep, AtCommand
      <3>5. QED BY <1>2, <1>3, <1>6, <3>1, <3>2, <3>3, <3>4 DEF Sync
    <2>3. QED BY <1>0, <1>1, <1>7, <1>9, <2>1, <2>2 DEF Kept, d
  <1>11. Firmware' BY <1>0, <1>1, <1>7 DEF Firmware, d
  <1>12. TypeOK' BY <1>0, <1>1, <1>11 DEF TypeOK, Kept
  <1>13. hub.pc \notin {"start", "boot"} BY <1>0, <1>1 DEF Kept, Boots
  <1>14. Turns' BY <1>0, <1>1, <1>13 DEF Turns
  <1>15. Scheduled(usb)' BY <1>1 DEF HostInv
  <1>16. QED BY <1>10, <1>12, <1>14, <1>15 DEF HostInv

LEMMA DiskTransferKeeps == ASSUME HostInv, DiskTransfer PROVE HostInv'
  <1>0. Kept(usb, media) /\ spent \in Nat /\ Turns /\ Firmware BY DEF HostInv, TypeOK
  <1> DEFINE u == usb'
  <1>1. /\ disk.pc # "idle" /\ holder = None /\ holder' = "disk" /\ waiting' = TRUE
        /\ media' = media /\ isr' = isr /\ input' = input /\ sem' = sem /\ hub' = hub /\ disk' = disk /\ shown' = shown /\ spent' = spent
    BY DEF DiskTransfer, Take
  <1>2. usb \in Usb /\ media \in Media /\ 0 \in Pipe /\ 1 \in Pipe /\ 2 \in Pipe /\ disk \in DiskRec BY <1>0 DEF Kept, Pipe, Firmware
  <1>3. HeardOf(disk, usb, holder) = disk BY <1>1 DEF HeardOf, None
  <1>4. disk.cmd \in Cmd /\ disk.to \in Address /\ Sync(disk, usb, media) BY <1>0, <1>1, <1>3 DEF Kept, Sync
  <1> DEFINE Stage(op, data) ==
        /\ disk.pc = "cbw"  => op = "out" /\ data = disk.cmd
        /\ disk.pc = "data" => IF disk.cmd.kind = "write" THEN op = "out" /\ data = Bytes ELSE op = "in"
        /\ disk.pc = "csw"  => op = "in"
  <1>5. \E op \in {"in", "out"}, data \in Datum : u = Transfer(disk.to, op, data, BulkTimeout) /\ Stage(op, data)
    <2>1. NoData \in Datum /\ Bytes \in Datum /\ disk.cmd \in Datum BY <1>4 DEF NoData, Datum
    <2>2. disk.pc \in {"cbw", "data", "csw"} BY <1>1, <1>2 DEF DiskRec
    <2> HIDE DEF u
    <2>3. CASE disk.pc = "cbw"
      <3>1. u = Transfer(disk.to, "out", disk.cmd, BulkTimeout) BY <2>3 DEF DiskTransfer, u
      <3>2. QED BY <2>1, <2>3, <3>1
    <2>4. CASE disk.pc = "data" /\ disk.cmd.kind = "write"
      <3>1. u = Transfer(disk.to, "out", Bytes, BulkTimeout) BY <2>4 DEF DiskTransfer, u
      <3>2. QED BY <2>1, <2>4, <3>1
    <2>5. CASE disk.pc = "data" /\ disk.cmd.kind # "write"
      <3>1. u = Transfer(disk.to, "in", NoData, BulkTimeout) BY <2>5 DEF DiskTransfer, u
      <3>2. QED BY <2>1, <2>5, <3>1
    <2>6. CASE disk.pc = "csw"
      <3>1. u = Transfer(disk.to, "in", NoData, BulkTimeout) BY <2>6 DEF DiskTransfer, u
      <3>2. QED BY <2>1, <2>6, <3>1
    <2>7. QED BY <2>2, <2>3, <2>4, <2>5, <2>6
  <1>6. PICK op \in {"in", "out"}, data \in Datum : u = Transfer(disk.to, op, data, BulkTimeout) /\ Stage(op, data)
    BY <1>5
  <1>7. Starts(usb, disk.to, op, data, BulkTimeout, u)
    <2>1. BulkTimeout \in Nat /\ disk.to \in Address \cup {"hub"} /\ op \in {"setup", "in", "out"} BY <1>4, Sizes
    <2>2. Starts(usb, disk.to, op, data, BulkTimeout, Transfer(disk.to, op, data, BulkTimeout))
      BY <1>2, <2>1, TransferFacts
    <2>3. QED BY <1>6, <2>2
  <1> HIDE DEF u
  <1>8. /\ u \in Usb /\ u.link = usb.link /\ u.fifo = usb.fifo /\ u.irq = usb.irq
        /\ u.port = usb.port /\ u.store = usb.store /\ u.kbd = usb.kbd /\ u.pipe[1] = usb.pipe[1] /\ u.pipe[2] = usb.pipe[2]
        /\ u.pipe[0].command = TRUE /\ u.pipe[0].paused = FALSE /\ u.pipe[0].to = disk.to /\ u.pipe[0].op = op
        /\ u.pipe[0].data = data /\ u.scanIn # 0 /\ Scheduled(u)
    BY <1>7 DEF Starts
  <1>9. waiting = FALSE /\ hub.pc \notin {"setup", "data", "status"} BY <1>0, <1>1 DEF Firmware, Turns, None
  <1>10. hub.pc \notin {"start", "boot"} BY <1>0, <1>1 DEF Turns
  <1>11. Asks(disk, u.pipe[0]) BY <1>6, <1>8 DEF Asks
  <1>12. Kept(usb, media)'
    <2>1. Reports(u, input, sem, hub, TRUE)
      <3>1. ASSUME NEW n \in Pipe PROVE Count(u.fifo, n) + Behind(input, sem, hub, n) = Owes(u, n, TRUE)
        <4>1. Owes(u, n, TRUE) = Owes(usb, n, waiting)
          <5>1. CASE n = 0 BY <1>8, <1>9, <5>1 DEF Owes
          <5>2. CASE n # 0
            <6>1. u.pipe[n] = usb.pipe[n] BY <1>8, <5>2 DEF Pipe
            <6>2. QED BY <5>2, <6>1 DEF Owes
          <5>3. QED BY <5>1, <5>2
        <4>2. QED BY <1>0, <1>8, <4>1 DEF Kept, Reports
      <3>2. QED BY <3>1 DEF Reports
    <2>2. Rings(u, isr) BY <1>0, <1>8 DEF Kept, Rings
    <2>3. Opened(u) BY <1>0, <1>8 DEF Kept, Opened
    <2>4. Boots(u, input, hub) BY <1>0, <1>8, <1>10 DEF Kept, Boots
    <2>5. KeysKept(u, shown) BY <1>0, <1>8 DEF Kept, KeysKept
    <2>6. Noticed(u, hub) /\ Ports(u, hub) BY <1>0, <1>8 DEF Kept, Noticed, Ports
    <2>7. Owned(u, "disk", disk) BY <1>1, <1>8, <1>11 DEF Owned
    <2>8. HeardOf(disk, u, "disk") = disk BY <1>8 DEF HeardOf
    <2>9. Sync(disk, u, media) BY <1>4, <1>8, SyncSame
    <2>10. QED BY <1>1, <1>2, <1>8, <2>1, <2>2, <2>3, <2>4, <2>5, <2>6, <2>7, <2>8, <2>9 DEF Kept, u
  <1>13. Firmware'
    <2>1. "disk" \in {None, "hub", "disk"} /\ "disk" # None BY DEF None
    <2>2. QED BY <1>0, <1>1, <2>1 DEF Firmware
  <1>14. TypeOK' BY <1>0, <1>1, <1>2, <1>8, <1>13 DEF TypeOK, u
  <1>15. Turns' BY <1>1, <1>8, <1>9, <1>10, <1>0 DEF Turns, u
  <1>16. QED BY <1>8, <1>12, <1>14, <1>15 DEF HostInv, u

LEMMA DiskStageKeeps == ASSUME HostInv, DiskStage PROVE HostInv'
  <1>0. Kept(usb, media) /\ spent \in Nat /\ Turns /\ Firmware BY DEF HostInv, TypeOK
  <1> DEFINE d == disk'
  <1>1. /\ holder = "disk" /\ waiting /\ sem /\ sem' = FALSE /\ waiting' = FALSE /\ holder' = None /\ d = Heard(disk, usb.pipe[0])
        /\ usb' = usb /\ media' = media /\ isr' = isr /\ input' = input /\ hub' = hub /\ shown' = shown /\ spent' = spent
    BY DEF DiskStage
  <1>2. usb.pipe[0].paused /\ Count(usb.fifo, 0) = 0 /\ Count(input, 0) = 0 /\ hub.pc \notin {"start", "boot"} BY <1>1, CompletionOwed
  <1>3. HeardOf(disk, usb, holder) = d BY <1>1, <1>2 DEF HeardOf
  <1> HIDE DEF d
  <1>4. d \in DiskRec /\ Sync(d, usb, media) BY <1>0, <1>3 DEF Kept
  <1>5. HeardOf(d, usb, None) = d BY DEF HeardOf, None
  <1>6. Kept(usb, media)'
    <2>1. Reports(usb, input, FALSE, hub, FALSE)
      <3>1. ASSUME NEW n \in Pipe PROVE Count(usb.fifo, n) + Behind(input, FALSE, hub, n) = Owes(usb, n, FALSE)
        <4>1. CASE n = 0
          <5>1. Owes(usb, 0, FALSE) = 0 BY DEF Owes
          <5>2. Behind(input, FALSE, hub, 0) = 0 BY <1>2 DEF Behind
          <5> DEFINE b == Behind(input, FALSE, hub, 0)
          <5> DEFINE o == Owes(usb, 0, FALSE)
          <5>3. b = 0 /\ o = 0 BY <5>1, <5>2
          <5> HIDE DEF b, o
          <5>4. Count(usb.fifo, 0) + b = o BY <1>2, <5>3
          <5>5. QED BY <4>1, <5>4 DEF b, o
        <4>2. CASE n # 0
          <5>1. Behind(input, FALSE, hub, n) = Behind(input, sem, hub, n) BY <4>2 DEF Behind
          <5>2. Owes(usb, n, FALSE) = Owes(usb, n, waiting) BY <4>2 DEF Owes
          <5>3. QED BY <1>0, <5>1, <5>2 DEF Kept, Reports
        <4>3. QED BY <4>1, <4>2
      <3>2. ~Active(usb, 0) BY <1>2 DEF Active
      <3>3. QED BY <3>1, <3>2 DEF Reports
    <2>2. Owned(usb, None, d) BY DEF Owned, None
    <2>3. QED BY <1>0, <1>1, <1>4, <1>5, <2>1, <2>2 DEF Kept, d
  <1>7. Firmware'
    <2>1. sem' \in BOOLEAN /\ waiting' \in BOOLEAN /\ (waiting' <=> holder' # None) BY <1>1
    <2>2. holder' \in {None, "hub", "disk"} BY <1>1
    <2>3. QED BY <1>0, <1>1, <1>4, <2>1, <2>2 DEF Firmware, d
  <1>8. TypeOK' BY <1>0, <1>1, <1>7 DEF TypeOK, Kept
  <1>9. Turns' BY <1>0, <1>1, <1>2 DEF Turns, None
  <1>10. Scheduled(usb)' BY <1>1 DEF HostInv
  <1>11. QED BY <1>6, <1>8, <1>9, <1>10 DEF HostInv

----------------------------------------------------------------------------
(* The invariant, and what it says.                                          *)

LEMMA HostStutter == ASSUME HostInv, UNCHANGED vars PROVE HostInv'
  <1>1. /\ usb' = usb /\ media' = media /\ isr' = isr /\ input' = input /\ sem' = sem /\ holder' = holder /\ waiting' = waiting
        /\ hub' = hub /\ disk' = disk /\ shown' = shown /\ spent' = spent
    BY DEF vars, firmware
  <1>2. TypeOK' BY <1>1 DEF HostInv, TypeOK, Firmware
  <1>3. Kept(usb, media)' BY <1>1 DEF HostInv, Kept
  <1>4. Scheduled(usb)' BY <1>1 DEF HostInv
  <1>5. Turns' BY <1>1 DEF HostInv, Turns
  <1>6. QED BY <1>2, <1>3, <1>4, <1>5 DEF HostInv

LEMMA HostNext == HostInv /\ [Next]_vars => HostInv'
  <1> SUFFICES ASSUME HostInv, [Next]_vars PROVE HostInv'
    OBVIOUS
  <1>1. CASE Machine BY <1>1, FrameKeeps, ScanTickKeeps, AttachedKeeps, BusResetEndsKeeps DEF Machine
  <1>2. CASE Host BY <1>2, PlugOutKeeps, PlugInKeeps, KeyKeeps DEF Host
  <1>3. CASE Isr BY <1>3, IsrEnterKeeps, IsrPopKeeps DEF Isr
  <1>4. CASE InputTask BY <1>4, InputTaskKeeps
  <1>5. CASE HubTask
    BY <1>5, StartKeeps, InstallKeeps, HubPollKeeps, HubStageKeeps, HubActKeeps, HubResumeKeeps, HubClearKeeps DEF HubTask
  <1>6. CASE DiskTask BY <1>6, DiskTransferKeeps, DiskAbortKeeps, DiskStageKeeps DEF DiskTask
  <1>7. CASE \E kind \in {"read", "write"} : DiskStart(kind) BY <1>7, DiskStartKeeps
  <1>8. CASE UNCHANGED vars BY <1>8, HostStutter
  <1>9. QED BY <1>1, <1>2, <1>3, <1>4, <1>5, <1>6, <1>7, <1>8 DEF Next

LEMMA HostInit == Init => HostInv
  <1> SUFFICES ASSUME Init PROVE HostInv
    OBVIOUS
  <1> DEFINE m == CHOOSE m \in Medium : TRUE
  <1> DEFINE pipes == [n \in Pipe |-> Dead]
  <1> DEFINE port == [in |-> TRUE, powered |-> FALSE, enabled |-> FALSE, change |-> FALSE, address |-> None, medium |-> m]
  <1> DEFINE store == [phase |-> [at |-> "command"], sense |-> NoData]
  <1> DEFINE none == << >>
  <1> DEFINE kbd == [report |-> 0, queue |-> none, told |-> TRUE]
  <1>1. m \in Medium
    <2>1. \E x \in Medium : TRUE BY Sizes
    <2>2. QED BY <2>1
  <1>2. usb = [link |-> "held", pipe |-> pipes, fifo |-> none, scanIn |-> Idle, irq |-> FALSE, ep0 |-> "idle", port |-> port,
               store |-> store, kbd |-> kbd]
    BY DEF Init
  <1>3. Dead \in PipeRec /\ Dead.command = FALSE
    <2>1. Idle \in Int /\ None \in Result /\ NoData \in Datum BY DEF Idle, Result, NoData, Datum
    <2>2. QED BY <2>1 DEF Dead, PipeRec
  <1>4. pipes \in [Pipe -> PipeRec] /\ \A n \in Pipe : ~pipes[n].command BY <1>3
  <1> HIDE DEF m
  <1>5. port \in PortRec /\ port.enabled = FALSE /\ port.change = FALSE BY <1>1 DEF PortRec
  <1>6. store \in Store /\ store.phase.at = "command"
    <2>1. [at |-> "command"] \in Phase BY DEF Phase
    <2>2. NoData \in Int BY DEF NoData
    <2>3. QED BY <2>1, <2>2 DEF Store
  <1>7. none \in Seq(Nat) /\ none \in Seq(Word) /\ Len(none) = 0 OBVIOUS
  <1>8. \A x : Count(none, x) = 0 BY CountEmpty
  <1> HIDE DEF pipes, port, store, none
  <1>9. kbd \in Kbd /\ kbd.queue = none /\ kbd.report = 0 BY <1>7 DEF Kbd
  <1> HIDE DEF kbd
  <1>10. Idle \in Int BY DEF Idle
  <1>11. /\ usb \in Usb /\ usb.link = "held" /\ usb.pipe = pipes /\ usb.fifo = none /\ usb.port = port /\ usb.store = store
         /\ usb.kbd = kbd
    BY <1>2, <1>4, <1>5, <1>6, <1>7, <1>9, <1>10 DEF Usb
  <1>12. /\ isr = FALSE /\ input = none /\ sem = FALSE /\ holder = None /\ waiting = FALSE
         /\ hub = [pc |-> "start", changed |-> FALSE, child |-> None]
         /\ disk = [pc |-> "idle", cmd |-> None, to |-> None, left |-> 0, data |-> NoData, on |-> None, pulled |-> FALSE, end |-> None]
         /\ shown = 0 /\ spent = 0 /\ media = [x \in Medium |-> 0]
    BY DEF Init, none
  <1>13. media \in Media BY <1>12 DEF Media
  <1>14. disk \in DiskRec /\ disk.pc = "idle" /\ disk.end = None BY <1>12 DEF DiskRec, NoData
  <1>15. hub \in HubRec /\ hub.pc = "start" /\ hub.changed = FALSE /\ hub.child = None BY <1>12 DEF HubRec, HubPc
  <1>16. input \in Seq({1, 2, Attach}) BY <1>12 DEF none
  <1>17. 0 \in Pipe /\ 1 \in Pipe /\ 2 \in Pipe BY DEF Pipe
  <1>18. Firmware BY <1>12, <1>14, <1>15, <1>16 DEF Firmware
  <1>19. Kept(usb, media)
    <2>1. Reports(usb, input, sem, hub, waiting)
      <3>1. ASSUME NEW n \in Pipe PROVE Count(usb.fifo, n) + Behind(input, sem, hub, n) = Owes(usb, n, waiting)
        <4>1. Owes(usb, n, waiting) = 0 BY <1>4, <1>11 DEF Owes
        <4>2. ~Handling(hub) BY <1>15 DEF Handling
        <4>3. Behind(input, sem, hub, n) = 0 BY <1>8, <1>12, <4>2 DEF Behind
        <4>4. QED BY <1>8, <1>11, <4>1, <4>3
      <3>2. ~Active(usb, 0) BY <1>4, <1>11, <1>17 DEF Active
      <3>3. QED BY <3>1, <3>2 DEF Reports
    <2>2. Rings(usb, isr)
      <3>1. usb.fifo = << >> /\ Len(usb.fifo) = 0 BY <1>7, <1>11 DEF none
      <3>2. 0 < FifoLen BY Sizes
      <3>3. QED BY <1>12, <3>1, <3>2 DEF Rings
    <2>3. Opened(usb) BY <1>4, <1>11, <1>17 DEF Opened, Automatic
    <2>4. Boots(usb, input, hub)
      <3>1. usb.fifo = << >> /\ Count(usb.fifo, Attach) + Count(input, Attach) = 0 BY <1>8, <1>11, <1>12 DEF none
      <3>2. QED BY <1>4, <1>5, <1>11, <1>15, <3>1 DEF Boots
    <2>5. KeysKept(usb, shown)
      <3>1. usb.kbd.queue = << >> BY <1>9, <1>11 DEF none
      <3>2. Len(usb.kbd.queue) = 0 BY <1>7, <1>9, <1>11
      <3>3. \A i : i \notin 1 .. Len(usb.kbd.queue) BY <3>2
      <3>4. ~usb.pipe[2].command /\ shown <= usb.kbd.report BY <1>4, <1>9, <1>11, <1>12, <1>17
      <3>5. QED BY <3>1, <3>3, <3>4 DEF KeysKept
    <2>6. Noticed(usb, hub) /\ Ports(usb, hub) BY <1>4, <1>5, <1>11, <1>17 DEF Noticed, Ports
    <2>7. Owned(usb, holder, disk) BY <1>12 DEF Owned, None
    <2>8. HeardOf(disk, usb, holder) = disk BY <1>12 DEF HeardOf, None
    <2>9. Sync(disk, usb, media) BY <1>6, <1>11, <1>14 DEF Sync, Honest
    <2>10. QED BY <1>11, <1>13, <1>14, <2>1, <2>2, <2>3, <2>4, <2>5, <2>6, <2>7, <2>8, <2>9 DEF Kept
  <1>20. Scheduled(usb) BY <1>11 DEF Scheduled
  <1>21. Turns BY <1>12, <1>14, <1>15 DEF Turns, None
  <1>22. QED BY <1>11, <1>12, <1>13, <1>18, <1>19, <1>20, <1>21 DEF HostInv, TypeOK

LEMMA WayIsOwed == ASSUME HostInv, NEW n \in Pipe PROVE OnItsWay(n) = Owes(usb, n, waiting)
  <1>1. Count(usb.fifo, n) + Behind(input, sem, hub, n) = Owes(usb, n, waiting) BY DEF HostInv, Kept, Reports
  <1>2. usb.fifo \in Seq(Word) /\ input \in Seq(Word)
    <2>1. Firmware /\ usb \in Usb BY DEF HostInv, TypeOK
    <2>2. QED BY <2>1, InputWords DEF Usb
  <1>3. Count(usb.fifo, n) \in Nat /\ Count(input, n) \in Nat BY <1>2, CountType
  <1>4. WordsOf(n) = Count(usb.fifo, n) + Count(input, n) BY DEF WordsOf, Count
  <1>5. HubHandling <=> Handling(hub) BY DEF HubHandling, Handling
  <1> DEFINE more == IF (n = 0 /\ sem) \/ (n = 1 /\ Handling(hub)) THEN 1 ELSE 0
  <1>6. OnItsWay(n) = WordsOf(n) + more BY <1>5 DEF OnItsWay
  <1>7. Behind(input, sem, hub, n) = Count(input, n) + more BY DEF Behind
  <1>8. more \in Nat OBVIOUS
  <1> HIDE DEF more
  <1> DEFINE b == Behind(input, sem, hub, n)
  <1>9. b = Count(input, n) + more /\ Count(usb.fifo, n) + b = Owes(usb, n, waiting) BY <1>1, <1>7
  <1> HIDE DEF b
  <1>10. QED BY <1>3, <1>4, <1>6, <1>8, <1>9

LEMMA InvNoReportLost == HostInv => NoReportLost
  <1> SUFFICES ASSUME HostInv PROVE NoReportLost
    OBVIOUS
  <1>1. ASSUME NEW n \in Pipe
        PROVE  IF (n = 0 /\ ~waiting) \/ ~usb.pipe[n].command
               THEN OnItsWay(n) = 0 /\ ~Active(usb, n)
               ELSE OnItsWay(n) = IF usb.pipe[n].paused THEN 1 ELSE 0
    <2>1. OnItsWay(n) = Owes(usb, n, waiting) BY WayIsOwed
    <2>2. Active(usb, 0) => waiting BY DEF HostInv, Kept, Reports
    <2>3. Active(usb, n) => usb.pipe[n].command BY DEF Active
    <2>4. QED BY <2>1, <2>2, <2>3 DEF Owes
  <1>2. (usb.fifo # << >> => usb.irq \/ isr) /\ Len(usb.fifo) < FifoLen BY DEF HostInv, Kept, Rings
  <1>3. ASSUME Cardinality({ n \in Pipe : Active(usb, n) }) > 0, usb.link = "running", ~FifoFull(usb) PROVE usb.scanIn # Idle
    <2> DEFINE A == { n \in Pipe : Active(usb, n) }
    <2>1. Cardinality(A) > 0 BY <1>3
    <2>2. A # {} BY <2>1, FS_EmptySet
    <2>3. \E n \in Pipe : Active(usb, n) BY <2>2
    <2>4. QED BY <1>3, <2>3 DEF HostInv, Scheduled
  <1>4. QED BY <1>1, <1>2, <1>3 DEF NoReportLost

LEMMA InvKeysInOrder == HostInv => KeysInOrder
  <1> SUFFICES ASSUME HostInv PROVE KeysInOrder
    OBVIOUS
  <1>1. KeysKept(usb, shown) /\ shown \in Nat BY DEF HostInv, Kept, TypeOK, Firmware
  <1> DEFINE q == usb.kbd.queue
  <1> DEFINE p == usb.pipe[2]
  <1> DEFINE unread == (IF OnItsWay(2) = 1 THEN << p.data >> ELSE << >>) \o q
  <1> DEFINE Ordered(s) ==
        /\ \A i \in 1 .. Len(s) - 1 : s[i] < s[i + 1]
        /\ s # << >> => shown <= Head(s) /\ s[Len(s)] = usb.kbd.report
  <1>2. q \in Seq(Nat) /\ usb.kbd.report \in Nat
    <2>1. usb.kbd \in Kbd BY DEF HostInv, TypeOK, Usb
    <2>2. QED BY <2>1 DEF Kbd
  <1>3. OnItsWay(2) = 1 <=> p.command /\ p.paused
    <2>1. 2 \in Pipe /\ 2 # 0 BY DEF Pipe
    <2>2. OnItsWay(2) = Owes(usb, 2, waiting) BY <2>1, WayIsOwed
    <2>3. QED BY <2>1, <2>2 DEF Owes
  <1>4. /\ \A i \in 1 .. Len(q) : shown <= q[i]
        /\ \A i, j \in 1 .. Len(q) : i < j => q[i] < q[j]
        /\ q # << >> => q[Len(q)] = usb.kbd.report
        /\ p.command /\ p.paused => /\ p.data \in Nat /\ shown <= p.data
                                    /\ \A i \in 1 .. Len(q) : p.data < q[i]
                                    /\ q = << >> => p.data = usb.kbd.report
    BY <1>1 DEF KeysKept
  <1> HIDE DEF q
  <1>5. Ordered(unread)
    <2>1. CASE OnItsWay(2) = 1
      <3>1. /\ p.data \in Nat /\ shown <= p.data /\ (\A i \in 1 .. Len(q) : p.data < q[i]) /\ (q = << >> => p.data = usb.kbd.report)
        BY <1>3, <1>4, <2>1
      <3> DEFINE x == p.data
      <3> DEFINE one == << x >>
      <3> DEFINE s == one \o q
      <3>2. unread = s BY <2>1
      <3> HIDE DEF x, p
      <3>3. x \in Nat /\ shown <= x /\ (\A i \in 1 .. Len(q) : x < q[i]) /\ (q = << >> => x = usb.kbd.report) BY <3>1 DEF x
      <3>4. one \in Seq(Nat) /\ Len(one) = 1 /\ one[1] = x BY <3>3
      <3> HIDE DEF one
      <3>5. s \in Seq(Nat) /\ Len(s) = Len(q) + 1 /\ Len(q) \in Nat /\ s[1] = x /\ \A i \in 2 .. Len(q) + 1 : s[i] = q[i - 1]
        <4>0. Len(q) \in Nat BY <1>2
        <4>1. s \in Seq(Nat) /\ Len(s) = Len(one) + Len(q) /\ Len(q) \in Nat
          <5>1. s \in Seq(Nat) BY <1>2, <3>4, ConcatProperties
          <5>2. Len(s) = Len(one) + Len(q) BY <1>2, <3>4, ConcatProperties
          <5>3. QED BY <4>0, <5>1, <5>2
        <4>2. \A i \in 1 .. Len(one) + Len(q) : s[i] = IF i <= Len(one) THEN one[i] ELSE q[i - Len(one)] BY <1>2, <3>4, ConcatProperties
        <4>3. 1 \in 1 .. Len(one) + Len(q) /\ 1 <= Len(one) BY <3>4, <4>1
        <4>4. s[1] = one[1] BY <4>2, <4>3
        <4>5. ASSUME NEW i \in 2 .. Len(q) + 1 PROVE s[i] = q[i - 1]
          <5>1. i \in 1 .. Len(one) + Len(q) /\ ~(i <= Len(one)) /\ i - Len(one) = i - 1 BY <3>4, <4>1
          <5>2. QED BY <4>2, <5>1
        <4> HIDE DEF s
        <4>6. QED BY <3>4, <4>1, <4>4, <4>5
      <3> HIDE DEF s, unread
      <3>6. \A i \in 1 .. Len(s) - 1 : s[i] < s[i + 1]
        <4> SUFFICES ASSUME NEW i \in 1 .. Len(q) PROVE s[i] < s[i + 1]
          BY <3>5
        <4>1. i + 1 \in 2 .. Len(q) + 1 /\ (i + 1) - 1 = i BY <3>5
        <4>2. s[i + 1] = q[i] BY <3>5, <4>1
        <4>3. CASE i = 1 BY <3>3, <3>5, <4>2, <4>3
        <4>4. CASE i # 1
          <5>1. i \in 2 .. Len(q) + 1 /\ i - 1 \in 1 .. Len(q) /\ i - 1 < i BY <3>5, <4>4
          <5>2. s[i] = q[i - 1] BY <3>5, <5>1
          <5>3. q[i - 1] < q[i] BY <1>4, <5>1
          <5>4. QED BY <4>2, <5>2, <5>3
        <4>5. QED BY <4>3, <4>4
      <3>7. shown <= Head(s) BY <3>3, <3>5
      <3>8. s[Len(s)] = usb.kbd.report
        <4>1. CASE q = << >>
          <5>1. Len(q) = 0 BY <4>1
          <5>2. QED BY <3>3, <3>5, <4>1, <5>1
        <4>2. CASE q # << >>
          <5>1. Len(q) >= 1 BY <1>2, <4>2
          <5>2. Len(q) + 1 \in 2 .. Len(q) + 1 /\ (Len(q) + 1) - 1 = Len(q) BY <3>5, <5>1
          <5>3. s[Len(q) + 1] = q[Len(q)] BY <3>5, <5>2
          <5>4. QED BY <1>4, <3>5, <4>2, <5>3
        <4>3. QED BY <4>1, <4>2
      <3>9. QED BY <3>2, <3>6, <3>7, <3>8
    <2>2. CASE OnItsWay(2) # 1
      <3>1. unread = q
        <4>1. << >> \o q = q BY <1>2
        <4>2. QED BY <2>2, <4>1
      <3>2. Len(q) \in Nat /\ (q # << >> => Len(q) >= 1 /\ Head(q) = q[1]) BY <1>2
      <3>3. \A i \in 1 .. Len(q) - 1 : q[i] < q[i + 1]
        <4> SUFFICES ASSUME NEW i \in 1 .. Len(q) - 1 PROVE q[i] < q[i + 1]
          OBVIOUS
        <4>1. i \in 1 .. Len(q) /\ i + 1 \in 1 .. Len(q) /\ i < i + 1 BY <3>2
        <4>2. QED BY <1>4, <4>1
      <3>4. q # << >> => shown <= Head(q) /\ q[Len(q)] = usb.kbd.report BY <1>4, <3>2
      <3>5. Ordered(q) BY <3>3, <3>4
      <3> HIDE DEF unread, Ordered
      <3>6. QED BY <3>1, <3>5
    <2>3. QED BY <2>1, <2>2
  <1> HIDE DEF p
  <1>6. QED BY <1>5 DEF KeysInOrder, Last, q, p

LEMMA InvCommandsHonest == HostInv => CommandsHonest
  <1> SUFFICES ASSUME HostInv, disk.pc = "idle" PROVE Honest(disk, media)
    BY DEF CommandsHonest, Honest
  <1>1. Kept(usb, media) BY DEF HostInv
  <1>2. holder # "disk" BY <1>1 DEF Kept, Owned
  <1>3. HeardOf(disk, usb, holder) = disk BY <1>2 DEF HeardOf
  <1>4. QED BY <1>1, <1>3 DEF Kept, Sync

(* The pipes, the FIFO, the devices and the firmware's tasks stay together in *)
(* every behaviour (the inductive invariant).                                *)
THEOREM HostHolds == Spec => []HostInv
  <1>1. QED BY HostInit, HostNext, PTL DEF Spec

(* No report of a transfer is lost or doubled on its way to its task, a scan  *)
(* is due while a pipe may be tried, and key reports stay in order.           *)
THEOREM UsbHostHolds == Spec => []UsbHostInvariant
  <1>1. HostInv => UsbHostInvariant BY InvNoReportLost, InvKeysInOrder DEF UsbHostInvariant
  <1>2. QED BY <1>1, HostHolds, PTL

(* A disk driver that ended a command was told what happened to it.           *)
THEOREM CommandsHonestThm == Spec => []CommandsHonest
  <1>1. QED BY InvCommandsHonest, HostHolds, PTL
=============================================================================
