--------------------------- MODULE IdleSkipProofs ---------------------------
(***************************************************************************)
(* The machine loop, for every firmware, every budget and every period: no *)
(* device event is passed by, with the idle skip or without, the timer     *)
(* keeps its phase, and a machine that skips is, whenever it has used the  *)
(* same budget, where the machine that executes every instruction is.      *)
(***************************************************************************)
EXTENDS IdleSkip, TLAPS

(* What holds of a machine at every point of an iteration, and after the     *)
(* due devices have been ticked: every event is still to come.               *)
Typed(m) ==
    /\ m \in State
    /\ m.pc \in DOMAIN code /\ m.csr.mepc \in DOMAIN code
    /\ m.enabled <=> m.pulse # Never
    /\ m.frozen < Period /\ m.phase < Period
    /\ m.pulse # Never => m.pulse <= m.now + Period
    /\ Phase(m)

Ahead(m) == ~Due(m.pulse, m.now) /\ ~Due(m.dma, m.now)

(* What the devices and the CPU leave to the loop.                          *)
SameLoop(m, n) ==
    /\ n.now = m.now /\ n.deadline = m.deadline /\ n.stall = m.stall /\ n.left = m.left
    /\ n.slot = m.slot /\ n.irqs = m.irqs /\ n.idleInsns = m.idleInsns

-----------------------------------------------------------------------------
(* Arithmetic. *)
LEMMA ModBounds == ASSUME NEW n \in Int, NEW k \in Nat \ {0} PROVE n % k \in 0 .. k - 1
  OBVIOUS

(* Whole passes stay within what they were divided from.                    *)
LEMMA DivTimes == ASSUME NEW n \in Nat, NEW k \in Nat \ {0} PROVE (n \div k) \in Nat /\ (n \div k) * k <= n
  OBVIOUS

LEMMA Distinct == ASSUME NEW t \in Int, NEW k \in Nat \ {0}, k * t < k, -k < k * t PROVE t = 0
  <1>1. CASE t >= 1
    <2>1. k * t >= k * 1 BY <1>1
    <2>2. QED BY <2>1
  <1>2. CASE t <= -1
    <2>1. k * t <= k * (-1) BY <1>2
    <2>2. QED BY <2>1
  <1>3. QED BY <1>1, <1>2

(* Adding whole periods keeps the remainder.                                *)
LEMMA ModUnique ==
  ASSUME NEW n \in Int, NEW a \in Int, NEW b \in Int, NEW k \in Nat \ {0}, n = k * a + b, 0 <= b, b < k
  PROVE  n % k = b
  <1> DEFINE q == n \div k
  <1> DEFINE r == n % k
  <1>1. q \in Int /\ r \in 0 .. k - 1 /\ n = k * q + r OBVIOUS
  <1>2. k * (a - q) = r - b
    <2>1. k * (a - q) = k * a - k * q BY <1>1
    <2>2. QED BY <2>1, <1>1
  <1> HIDE DEF q, r
  <1>3. a - q = 0
    <2>1. r - b < k /\ -k < r - b BY <1>1
    <2>2. a - q \in Int BY <1>1
    <2>3. QED BY <2>1, <2>2, <1>2, Distinct
  <1>4. r = b BY <1>1, <1>2, <1>3
  <1>5. QED BY <1>4 DEF r

LEMMA PhaseStep ==
  ASSUME NEW pulse \in Nat, NEW now \in Nat, pulse <= now, NEW k \in Nat \ {0}
  PROVE  (now + k - ((now - pulse) % k)) % k = pulse % k
  <1> DEFINE d == now - pulse
  <1> DEFINE q == d \div k
  <1> DEFINE a == pulse \div k
  <1>1. d \in Nat /\ q \in Int /\ d = k * q + (d % k) /\ d % k \in 0 .. k - 1 OBVIOUS
  <1>2. a \in Int /\ pulse = k * a + (pulse % k) /\ pulse % k \in 0 .. k - 1 OBVIOUS
  <1>3. now + k - (d % k) = k * (a + q + 1) + (pulse % k)
    <2>1. now + k - (d % k) = pulse + k * q + k BY <1>1
    <2>2. k * (a + q + 1) = k * a + k * q + k BY <1>1, <1>2
    <2>3. QED BY <2>1, <2>2, <1>2
  <1>4. now + k - (d % k) \in Int BY <1>1
  <1> DEFINE n == now + k - (d % k)
  <1> DEFINE t == a + q + 1
  <1> DEFINE b == pulse % k
  <1>5. n \in Int /\ t \in Int /\ b \in Int /\ 0 <= b /\ b < k /\ n = k * t + b
    BY <1>1, <1>2, <1>3, <1>4
  <1> HIDE DEF n, t, b
  <1>6. n % k = b BY <1>5, ModUnique
  <1>7. QED BY <1>6 DEF n, b
-----------------------------------------------------------------------------
(* The devices. *)
LEMMA PulseTyped ==
  ASSUME NEW irq \in Irq, NEW source \in Source PROVE Pulse(irq, source) \in Irq
  BY DEF Irq, Pulse

LEMMA LevelTyped ==
  ASSUME NEW irq \in Irq, NEW source \in Source, NEW on \in BOOLEAN PROVE SetLevel(irq, source, on) \in Irq
  <1>1. Pulse(irq, source) \in Irq BY PulseTyped
  <1>2. QED BY <1>1 DEF SetLevel, Irq

(* Itu::sync delivers what is due; the next pulse is ahead and in phase.    *)
LEMMA SyncTyped ==
  ASSUME NEW m, Typed(m)
  PROVE  /\ Typed(Sync(m)) /\ SameLoop(m, Sync(m))
         /\ ~Due(Sync(m).pulse, m.now) /\ Sync(m).dma = m.dma
         /\ Sync(m).touched = m.touched /\ Sync(m).insns = m.insns
         /\ Sync(m).exit = m.exit
  <1>1. CASE ~Due(m.pulse, m.now)
    BY <1>1 DEF Sync, SameLoop
  <1>2. CASE Due(m.pulse, m.now)
    <2> DEFINE late == (m.now - m.pulse) % Period
    <2> DEFINE next == m.now + Period - late
    <2>1. m \in State /\ m.pulse \in Nat /\ m.now \in Nat /\ m.pulse <= m.now /\ Period \in Nat \ {0}
      BY <1>2, MachineAssumption DEF Typed, State, Event, Due, Never
    <2>2. late \in 0 .. Period - 1
      <3> DEFINE d == m.now - m.pulse
      <3>1. d \in Int BY <2>1
      <3> HIDE DEF d
      <3>2. d % Period \in 0 .. Period - 1 BY <2>1, <3>1, ModBounds
      <3>3. QED BY <3>2 DEF d
    <2>3. next % Period = m.pulse % Period
      BY <2>1, PhaseStep
    <2>4. Pulse(m.irq, TimerSource) \in Irq
      BY <2>1, PulseTyped DEF State, Source
    <2>5. Sync(m) = [m EXCEPT !.irq = Pulse(@, TimerSource), !.pulse = next]
      BY <1>2 DEF Sync
    <2> HIDE DEF late
    <2>6. next \in Nat /\ m.now < next /\ next <= m.now + Period
      BY <2>1, <2>2
    <2> HIDE DEF next
    <2>7. Sync(m) \in State
      BY ZenonT(40), <2>1, <2>4, <2>5, <2>6 DEF State, Event
    <2>8. /\ Sync(m).pulse = next /\ Sync(m).now = m.now /\ Sync(m).phase = m.phase
          /\ Sync(m).pc = m.pc /\ Sync(m).csr = m.csr /\ Sync(m).enabled = m.enabled
          /\ Sync(m).frozen = m.frozen /\ Sync(m).dma = m.dma /\ Sync(m).touched = m.touched
          /\ Sync(m).insns = m.insns /\ Sync(m).exit = m.exit
      BY <2>1, <2>5 DEF State
    <2>9. SameLoop(m, Sync(m))
      BY <2>1, <2>5 DEF State, SameLoop
    <2>10. Typed(Sync(m))
      BY <2>1, <2>3, <2>6, <2>7, <2>8 DEF Typed, Phase, Never
    <2>11. ~Due(Sync(m).pulse, m.now)
      <3>1. ~(next <= m.now) BY <2>1, <2>6
      <3>2. QED BY <3>1, <2>8 DEF Due
    <2>12. QED BY <2>8, <2>9, <2>10, <2>11
  <1>3. QED BY <1>1, <1>2

LEMMA DmaTickTyped ==
  ASSUME NEW m, Typed(m)
  PROVE  /\ Typed(DmaTick(m)) /\ SameLoop(m, DmaTick(m))
         /\ ~Due(DmaTick(m).dma, m.now) /\ DmaTick(m).pulse = m.pulse
         /\ DmaTick(m).touched = m.touched /\ DmaTick(m).insns = m.insns
  <1>1. CASE ~Due(m.dma, m.now)
    BY <1>1 DEF DmaTick, SameLoop
  <1>2. CASE Due(m.dma, m.now)
    <2> DEFINE n == [m EXCEPT !.ram = (@ + 1) % Values, !.dma = Never, !.irq = Pulse(@, UsbSource)]
    <2>1. m \in State /\ DmaTick(m) = n
      BY <1>2 DEF Typed, DmaTick
    <2>2. Pulse(m.irq, UsbSource) \in Irq
      BY <2>1, PulseTyped DEF State, Source
    <2>3. (m.ram + 1) % Values \in Word
      BY <2>1, MachineAssumption, ModBounds DEF State, Word
    <2>4. n \in State
      BY <2>1, <2>2, <2>3 DEF State, Event
    <2>5. /\ n.pulse = m.pulse /\ n.now = m.now /\ n.phase = m.phase /\ n.pc = m.pc /\ n.csr = m.csr
          /\ n.enabled = m.enabled /\ n.frozen = m.frozen /\ n.dma = Never /\ n.touched = m.touched
          /\ n.insns = m.insns /\ SameLoop(m, n)
      BY <2>1 DEF State, SameLoop
    <2> HIDE DEF n
    <2>6. Typed(n) BY <2>4, <2>5 DEF Typed, Phase
    <2>7. QED BY <2>1, <2>5, <2>6 DEF Due
  <1>3. QED BY <1>1, <1>2

LEMMA EarlierTyped ==
  ASSUME NEW s \in Event, NEW t \in Event
  PROVE  /\ Earlier(s, t) \in {s, t}
         /\ s # Never => Earlier(s, t) # Never /\ Earlier(s, t) <= s
         /\ t # Never => Earlier(s, t) # Never /\ Earlier(s, t) <= t
  BY DEF Earlier, Event, Never

LEMMA DeadlineTyped == ASSUME NEW m, m \in State PROVE NextDeadline(m) \in Event
  BY EarlierTyped DEF NextDeadline, State

(* Before its deadline a machine has no due event.                          *)
LEMMA DeadlineAhead ==
  ASSUME NEW m, m \in State, ~Due(NextDeadline(m), m.now) PROVE Ahead(m)
  <1>1. m.pulse \in Event /\ m.dma \in Event /\ m.now \in Nat BY DEF State
  <1>2. QED BY <1>1, EarlierTyped DEF NextDeadline, Ahead, Due, Event, Never

LEMMA TickDueTyped ==
  ASSUME NEW m, Typed(m)
  PROVE  /\ Typed(TickDue(m)) /\ SameLoop(m, TickDue(m)) /\ Ahead(TickDue(m))
         /\ TickDue(m).touched = m.touched /\ TickDue(m).insns = m.insns
  <1> DEFINE d == [m EXCEPT !.dirty = TRUE]
  <1>1. Typed(d) /\ SameLoop(m, d) /\ d.touched = m.touched /\ d.insns = m.insns
    BY DEF Typed, State, SameLoop, Phase
  <1>2. TickDue(m) = DmaTick(Sync(d)) BY DEF TickDue
  <1> HIDE DEF d
  <1> DEFINE s == Sync(d)
  <1>3. /\ Typed(s) /\ SameLoop(d, s) /\ ~Due(s.pulse, d.now) /\ s.touched = d.touched /\ s.insns = d.insns
    BY <1>1, SyncTyped
  <1> HIDE DEF s
  <1> DEFINE t == DmaTick(s)
  <1>4. /\ Typed(t) /\ SameLoop(s, t) /\ ~Due(t.dma, s.now) /\ t.pulse = s.pulse
        /\ t.touched = s.touched /\ t.insns = s.insns
    BY <1>3, DmaTickTyped
  <1>5. TickDue(m) = t BY <1>2 DEF s
  <1> HIDE DEF t
  <1>6. SameLoop(m, t) /\ Ahead(t) BY <1>1, <1>3, <1>4 DEF SameLoop, Ahead
  <1>7. QED BY <1>1, <1>3, <1>4, <1>5, <1>6

(* Itu::write_irq_timer_en: a restarted counter starts a phase, a rewrite   *)
(* keeps it.                                                                *)
LEMMA TimerEnableTyped ==
  ASSUME NEW m, Typed(m), ~Due(m.pulse, m.now), NEW on \in BOOLEAN
  PROVE  LET n == TimerEnable(m, on)
         IN  /\ Typed(n) /\ SameLoop(m, n) /\ ~Due(n.pulse, n.now) /\ n.dma = m.dma
             /\ n.touched = m.touched /\ n.insns = m.insns /\ n.exit = m.exit
  <1> DEFINE count == IF m.enabled THEN Count(m) ELSE Period - 1
  <1> DEFINE next == m.now + count + 1
  <1> DEFINE phase == IF on /\ ~m.enabled THEN next % Period ELSE m.phase
  <1> DEFINE pulse == IF on THEN next ELSE Never
  <1> DEFINE n == [m EXCEPT !.enabled = on, !.frozen = count, !.pulse = pulse, !.phase = phase]
  <1>1. m \in State /\ m.now \in Nat /\ m.enabled \in BOOLEAN /\ m.phase \in Nat /\ m.phase < Period
        /\ Period \in Nat \ {0} /\ (m.enabled <=> m.pulse # Never) /\ m.pulse \in Event
    BY MachineAssumption DEF Typed, State
  <1>2. m.enabled => /\ m.pulse \in Nat /\ m.now < m.pulse /\ m.pulse <= m.now + Period
                     /\ m.pulse % Period = m.phase
    BY <1>1 DEF Typed, Phase, Due, Event, Never
  <1>3. count \in 0 .. Period - 1 /\ (m.enabled => m.now + count + 1 = m.pulse)
    <2>1. CASE m.enabled
      <3>1. count = m.pulse - 1 - m.now BY <1>1, <2>1 DEF Count
      <3>2. m.pulse \in Nat /\ m.now < m.pulse /\ m.pulse <= m.now + Period BY <1>2, <2>1
      <3> HIDE DEF count
      <3>3. QED BY <1>1, <3>1, <3>2
    <2>2. CASE ~m.enabled
      <3>1. count = Period - 1 BY <2>2
      <3> HIDE DEF count
      <3>2. QED BY <1>1, <2>2, <3>1
    <2>3. QED BY <2>1, <2>2
  <1>4. TimerEnable(m, on) = n
    BY DEF TimerEnable
  <1> HIDE DEF count
  <1>5. next \in Nat /\ m.now < next /\ next <= m.now + Period /\ (m.enabled => next = m.pulse)
    BY <1>1, <1>3
  <1> HIDE DEF next
  <1>6. next % Period \in 0 .. Period - 1
    BY <1>1, <1>5, ModBounds
  <1>7. phase \in Nat /\ phase < Period /\ (on => next % Period = phase)
    BY <1>1, <1>2, <1>5, <1>6
  <1> HIDE DEF phase
  <1>8. pulse \in Event /\ (on <=> pulse # Never) /\ (pulse # Never => pulse = next)
    BY <1>5 DEF Event, Never
  <1> HIDE DEF pulse
  <1>9. n \in State
    <2>1. count \in Nat BY <1>1, <1>3
    <2>2. QED BY <1>1, <1>7, <1>8, <2>1 DEF State
  <1>10. /\ n.pulse = pulse /\ n.now = m.now /\ n.phase = phase /\ n.pc = m.pc /\ n.csr = m.csr
         /\ n.enabled = on /\ n.frozen = count /\ n.dma = m.dma /\ n.touched = m.touched
         /\ n.insns = m.insns /\ n.exit = m.exit /\ SameLoop(m, n)
    BY <1>1 DEF State, SameLoop
  <1> HIDE DEF n
  <1>11. Typed(n)
    <2>1. n.pc \in DOMAIN code /\ n.csr.mepc \in DOMAIN code
      BY <1>10 DEF Typed
    <2>2. n.enabled <=> n.pulse # Never
      BY <1>8, <1>10
    <2>3. n.frozen < Period /\ n.phase < Period
      BY <1>1, <1>3, <1>7, <1>10
    <2>4. n.pulse # Never => n.pulse <= n.now + Period
      BY <1>5, <1>8, <1>10
    <2>5. Phase(n)
      BY <1>7, <1>8, <1>10 DEF Phase
    <2>6. QED BY <1>9, <2>1, <2>2, <2>3, <2>4, <2>5 DEF Typed
  <1>12. ~Due(n.pulse, n.now)
    BY <1>1, <1>5, <1>8, <1>10 DEF Due
  <1>13. QED BY <1>4, <1>10, <1>11, <1>12

-----------------------------------------------------------------------------
(* The CPU.  What a step leaves to the loop.                                *)
Result(m, r) ==
    /\ Typed(r) /\ Ahead(r)
    /\ r.now = m.now /\ r.deadline = m.deadline /\ r.left = m.left
    /\ r.slot = m.slot /\ r.irqs = m.irqs /\ r.idleInsns = m.idleInsns
    /\ r.stall \in {0, StallClocks}

LEMMA TouchTyped ==
  ASSUME NEW m, Typed(m)
  PROVE  LET t == Touch(m)
         IN  /\ Typed(t) /\ SameLoop(m, t) /\ t.pulse = m.pulse /\ t.dma = m.dma
             /\ t.touched /\ t.insns = m.insns /\ t.exit = m.exit
  BY DEF Touch, Typed, State, SameLoop, Phase

(* Every register access touches the bus, so that the loop recomputes the    *)
(* deadline, and schedules events in the future only.                       *)
LEMMA IoAccessTyped ==
  ASSUME NEW m, Typed(m), Ahead(m), m.stall = 0,
         NEW op \in {"count", "window", "clear", "timerOn", "timerOff", "dma"}
  PROVE  LET r == IoAccess(m, op)
         IN  Result(m, r) /\ r.touched /\ r.insns = m.insns /\ r.exit = m.exit
  <1> DEFINE t == Touch(m)
  <1>1. /\ Typed(t) /\ SameLoop(m, t) /\ t.pulse = m.pulse /\ t.dma = m.dma
        /\ t.touched /\ t.insns = m.insns /\ t.exit = m.exit
    BY TouchTyped
  <1>2. IoAccess(m, op) =
          LET s == Sync(t)
          IN  CASE op = "count"    -> [s EXCEPT !.x = Count(s) % Values]
                [] op = "window"   -> [t EXCEPT !.stall = @ + StallClocks]
                [] op = "clear"    -> [s EXCEPT !.irq.flags = {}]
                [] op = "timerOn"  -> TimerEnable(s, TRUE)
                [] op = "timerOff" -> TimerEnable(s, FALSE)
                [] op = "dma"      -> [t EXCEPT !.dma = m.now + DmaDelay]
    BY DEF IoAccess
  <1> HIDE DEF t
  <1> DEFINE s == Sync(t)
  <1>3. /\ Typed(s) /\ SameLoop(t, s) /\ ~Due(s.pulse, s.now) /\ s.dma = t.dma
        /\ s.touched = t.touched /\ s.insns = t.insns /\ s.exit = t.exit
    BY <1>1, SyncTyped DEF SameLoop
  <1> HIDE DEF s
  <1>4. /\ SameLoop(m, s) /\ Ahead(s) /\ s.touched /\ s.insns = m.insns /\ s.exit = m.exit
        /\ s.stall = 0
    BY <1>1, <1>3 DEF SameLoop, Ahead
  <1>5. Ahead(t) /\ t.stall = 0 /\ t.now = m.now BY <1>1 DEF SameLoop, Ahead
  <1>6. s \in State /\ t \in State BY <1>1, <1>3 DEF Typed
  <1>7. CASE op = "count"
    <2> DEFINE c == Count(s) % Values
    <2> DEFINE r == [s EXCEPT !.x = c]
    <2>1. Count(s) \in Int
      <3>1. s.pulse \in Event /\ s.now \in Nat /\ s.frozen \in Nat BY <1>6 DEF State
      <3>2. QED BY <3>1 DEF Count, Event, Never
    <2>2. c \in Word BY <2>1, ModBounds, MachineAssumption DEF Word
    <2>3. IoAccess(m, op) = r BY <1>2, <1>7 DEF s
    <2> HIDE DEF c
    <2>4. r \in State BY <1>6, <2>2 DEF State
    <2>5. Typed(r) /\ SameLoop(s, r) /\ Ahead(r) /\ r.touched = s.touched /\ r.insns = s.insns /\ r.exit = s.exit
      BY <1>3, <1>4, <1>6, <2>4 DEF Typed, State, SameLoop, Phase, Ahead
    <2> HIDE DEF r
    <2>6. QED BY <1>4, <2>3, <2>5 DEF Result, SameLoop
  <1>8. CASE op = "window"
    <2> DEFINE r == [t EXCEPT !.stall = @ + StallClocks]
    <2>1. IoAccess(m, op) = r BY <1>2, <1>8
    <2>2. r \in State BY <1>6, MachineAssumption DEF State
    <2>3. /\ Typed(r) /\ Ahead(r) /\ r.touched = t.touched /\ r.insns = t.insns /\ r.exit = t.exit
          /\ r.now = t.now /\ r.deadline = t.deadline /\ r.left = t.left
          /\ r.slot = t.slot /\ r.irqs = t.irqs /\ r.idleInsns = t.idleInsns
      BY <1>1, <1>5, <1>6, <2>2 DEF Typed, State, Phase, Ahead
    <2>4. r.stall = StallClocks BY <1>5, <1>6, MachineAssumption DEF State
    <2> HIDE DEF r
    <2>5. QED BY <1>1, <2>1, <2>3, <2>4 DEF Result, SameLoop
  <1>9. CASE op = "clear"
    <2> DEFINE r == [s EXCEPT !.irq.flags = {}]
    <2>1. IoAccess(m, op) = r BY <1>2, <1>9 DEF s
    <2>2. [s.irq EXCEPT !.flags = {}] \in Irq
      <3>1. s.irq \in Irq BY <1>6 DEF State
      <3>2. QED BY <3>1 DEF Irq
    <2>3. r = [s EXCEPT !.irq = [s.irq EXCEPT !.flags = {}]] OBVIOUS
    <2> DEFINE irq == [s.irq EXCEPT !.flags = {}]
    <2> HIDE DEF irq
    <2>4. irq \in Irq /\ r = [s EXCEPT !.irq = irq] BY <2>2, <2>3 DEF irq
    <2>5. r \in State BY <1>6, <2>4 DEF State
    <2>6. Typed(r) /\ SameLoop(s, r) /\ Ahead(r) /\ r.touched = s.touched /\ r.insns = s.insns /\ r.exit = s.exit
      BY <1>3, <1>4, <1>6, <2>4, <2>5 DEF Typed, State, SameLoop, Phase, Ahead
    <2> HIDE DEF r
    <2>7. QED BY <1>4, <2>1, <2>6 DEF Result, SameLoop
  <1>10. CASE op \in {"timerOn", "timerOff"}
    <2>1. PICK on \in BOOLEAN : IoAccess(m, op) = TimerEnable(s, on)
      BY <1>2, <1>10 DEF s
    <2> DEFINE r == TimerEnable(s, on)
    <2>2. /\ Typed(r) /\ SameLoop(s, r) /\ ~Due(r.pulse, r.now) /\ r.dma = s.dma
          /\ r.touched = s.touched /\ r.insns = s.insns /\ r.exit = s.exit
      BY <1>3, TimerEnableTyped
    <2> HIDE DEF r
    <2>3. Ahead(r) BY <1>4, <2>2 DEF Ahead, SameLoop
    <2>4. IoAccess(m, op) = r BY <2>1 DEF r
    <2>5. QED BY <1>4, <2>2, <2>3, <2>4 DEF Result, SameLoop
  <1>11. CASE op = "dma"
    <2> DEFINE r == [t EXCEPT !.dma = m.now + DmaDelay]
    <2>1. IoAccess(m, op) = r BY <1>2, <1>11
    <2>2. m.now + DmaDelay \in Nat /\ m.now < m.now + DmaDelay
      BY <1>5, <1>6, MachineAssumption DEF State
    <2>3. r \in State BY <1>6, <2>2 DEF State, Event
    <2>4. /\ Typed(r) /\ SameLoop(t, r) /\ r.touched = t.touched /\ r.insns = t.insns /\ r.exit = t.exit
          /\ r.pulse = t.pulse /\ r.dma = m.now + DmaDelay
      BY <1>1, <1>6, <2>3 DEF Typed, State, SameLoop, Phase
    <2> HIDE DEF r
    <2>5. Ahead(r)
      <3>1. ~Due(r.pulse, r.now) BY <1>5, <2>4 DEF SameLoop, Ahead
      <3>2. r.now = m.now BY <1>5, <2>4 DEF SameLoop
      <3>3. ~Due(r.dma, r.now)
        <4>1. m.now \in Nat BY <1>5, <1>6 DEF State
        <4>2. ~(r.dma <= r.now) BY <2>2, <2>4, <3>2, <4>1, MachineAssumption
        <4>3. QED BY <4>2 DEF Due
      <3>4. QED BY <3>1, <3>3 DEF Ahead
    <2>6. QED BY <1>1, <1>5, <2>1, <2>4, <2>5 DEF Result, SameLoop
  <1>12. QED BY <1>7, <1>8, <1>9, <1>10, <1>11

(* An instruction that is no register access leaves the devices alone.      *)
Computed(m, r) ==
    /\ Result(m, r) /\ r.touched = m.touched /\ r.insns = m.insns /\ r.exit = m.exit
    /\ r.pulse = m.pulse /\ r.dma = m.dma

LEMMA ComputedTyped ==
  ASSUME NEW m, Typed(m), Ahead(m), m.stall = 0,
         NEW pc \in DOMAIN code, pc \in Nat, NEW x \in Word, NEW ram \in Word, NEW dirty \in BOOLEAN,
         NEW csr \in Csr, csr.mepc \in DOMAIN code
  PROVE  Computed(m, [m EXCEPT !.pc = pc, !.x = x, !.ram = ram, !.dirty = dirty, !.csr = csr])
  <1> DEFINE r == [m EXCEPT !.pc = pc, !.x = x, !.ram = ram, !.dirty = dirty, !.csr = csr]
  <1>1. m \in State BY DEF Typed
  <1>2. r \in State BY <1>1 DEF State
  <1>3. /\ r.pc = pc /\ r.csr = csr /\ r.now = m.now /\ r.deadline = m.deadline /\ r.left = m.left
        /\ r.slot = m.slot /\ r.irqs = m.irqs /\ r.idleInsns = m.idleInsns /\ r.stall = 0
        /\ r.touched = m.touched /\ r.insns = m.insns /\ r.exit = m.exit /\ r.pulse = m.pulse
        /\ r.dma = m.dma /\ r.enabled = m.enabled /\ r.frozen = m.frozen /\ r.phase = m.phase
    BY <1>1 DEF State
  <1> HIDE DEF r
  <1>4. Typed(r) BY <1>2, <1>3 DEF Typed, Phase
  <1>5. Ahead(r) BY <1>3 DEF Ahead
  <1>6. QED BY <1>3, <1>4, <1>5 DEF Computed, Result, r

LEMMA CodeTyped ==
  ASSUME code \in Firmware, NEW pc \in DOMAIN code
  PROVE  /\ pc \in Nat /\ code[pc] \in Insn /\ Handler \in DOMAIN code
         /\ code[pc].op \in {"j", "beqz"} => code[pc].to \in DOMAIN code
         /\ code[pc].op \notin {"j", "mret"} => pc + 1 \in DOMAIN code
  BY FirmwareAssumption

(* Cpu::step, without the trap.                                             *)
LEMMA ExecuteTyped ==
  ASSUME NEW m, Typed(m), Ahead(m), m.stall = 0, code \in Firmware
  PROVE  LET r == Execute(m, code[m.pc])
         IN  /\ Result(m, r) /\ r.insns = m.insns /\ r.exit = m.exit
             /\ r.touched \/ (r.pulse = m.pulse /\ r.dma = m.dma)
  <1> DEFINE insn == code[m.pc]
  <1> DEFINE r == Execute(m, insn)
  <1> DEFINE At(pc, x, ram, dirty, csr) ==
               [m EXCEPT !.pc = pc, !.x = x, !.ram = ram, !.dirty = dirty, !.csr = csr]
  <1>1. m \in State /\ m.pc \in DOMAIN code /\ m.csr.mepc \in DOMAIN code BY DEF Typed
  <1>2. /\ m.pc \in Nat /\ m.x \in Word /\ m.ram \in Word /\ m.dirty \in BOOLEAN /\ m.csr \in Csr
        /\ m.csr.mie \in BOOLEAN /\ m.csr.mpie \in BOOLEAN /\ m.csr.mepc \in Nat
    BY <1>1 DEF State, Csr
  <1>3. /\ insn.op \in Op
        /\ insn.op \in {"j", "beqz"} => insn.to \in DOMAIN code /\ insn.to \in Nat
        /\ insn.op \notin {"j", "mret"} => m.pc + 1 \in DOMAIN code /\ m.pc + 1 \in Nat
    <2>1. /\ insn \in Insn
          /\ insn.op \in {"j", "beqz"} => insn.to \in DOMAIN code
          /\ insn.op \notin {"j", "mret"} => m.pc + 1 \in DOMAIN code
      BY <1>1, CodeTyped
    <2>2. QED BY <1>2, <2>1 DEF Insn
  <1>4. SUFFICES \/ Computed(m, r)
                 \/ Result(m, r) /\ r.insns = m.insns /\ r.exit = m.exit /\ r.touched
    BY DEF Computed
  <1>5. ASSUME NEW pc \in DOMAIN code, pc \in Nat, NEW x \in Word, NEW ram \in Word,
               NEW dirty \in BOOLEAN, NEW csr \in Csr, csr.mepc \in DOMAIN code
        PROVE  Computed(m, At(pc, x, ram, dirty, csr))
    BY <1>5, ComputedTyped
  <1> HIDE DEF insn, At, r
  <1>6. CASE insn.op = "nop"
    <2>1. r = At(m.pc + 1, m.x, m.ram, m.dirty, m.csr) BY <1>1, <1>6 DEF Execute, State, At, r, insn
    <2>2. QED BY <1>1, <1>2, <1>3, <1>5, <1>6, <2>1
  <1>7. CASE insn.op = "load"
    <2>1. r = At(m.pc + 1, m.ram, m.ram, m.dirty, m.csr) BY <1>1, <1>7 DEF Execute, State, At, r, insn
    <2>2. QED BY <1>1, <1>2, <1>3, <1>5, <1>7, <2>1
  <1>8. CASE insn.op = "store"
    <2>1. r = At(m.pc + 1, m.x, m.x, TRUE, m.csr) BY <1>1, <1>8 DEF Execute, Store, State, At, r, insn
    <2>2. QED BY <1>1, <1>2, <1>3, <1>5, <1>8, <2>1
  <1>9. CASE insn.op = "inc"
    <2> DEFINE x == (m.x + 1) % Values
    <2>1. x \in Word
      <3>1. m.x + 1 \in Int BY <1>2 DEF Word
      <3>2. QED BY <3>1, ModBounds, MachineAssumption DEF Word
    <2>2. r = At(m.pc + 1, x, m.ram, m.dirty, m.csr) BY <1>1, <1>9 DEF Execute, State, At, r, insn
    <2>3. QED BY <1>1, <1>2, <1>3, <1>5, <1>9, <2>1, <2>2
  <1>10. CASE insn.op = "beqz"
    <2>1. r = At(IF m.x = 0 THEN insn.to ELSE m.pc + 1, m.x, m.ram, m.dirty, m.csr)
      BY <1>1, <1>10 DEF Execute, State, At, r, insn
    <2>2. QED BY <1>1, <1>2, <1>3, <1>5, <1>10, <2>1
  <1>11. CASE insn.op = "j"
    <2>1. r = At(insn.to, m.x, m.ram, m.dirty, m.csr) BY <1>1, <1>11 DEF Execute, State, At, r, insn
    <2>2. QED BY <1>1, <1>2, <1>3, <1>5, <1>11, <2>1
  <1>12. CASE insn.op = "mret"
    <2> DEFINE csr == [mie |-> m.csr.mpie, mpie |-> TRUE, mepc |-> m.csr.mepc]
    <2>1. csr \in Csr BY <1>2 DEF Csr
    <2>2. r = Mret(m) BY <1>12 DEF Execute, r, insn
    <2>3. Mret(m) = At(m.csr.mepc, m.x, m.ram, m.dirty, csr)
      <3>1. [[m EXCEPT !.csr.mie = m.csr.mpie] EXCEPT !.csr.mpie = TRUE].csr = csr BY <1>1, <1>2 DEF State, Csr
      <3>2. QED BY <1>1, <3>1 DEF Mret, State, At
    <2>4. QED BY <1>1, <1>2, <1>5, <2>1, <2>2, <2>3
  <1>13. CASE insn.op \in {"di", "ei"}
    <2> DEFINE csr(mie) == [mie |-> mie, mpie |-> m.csr.mpie, mepc |-> m.csr.mepc]
    <2>1. \A mie \in BOOLEAN : csr(mie) \in Csr BY <1>2 DEF Csr
    <2>2. PICK mie \in BOOLEAN : r = [m EXCEPT !.pc = @ + 1, !.csr.mie = mie]
      BY <1>13 DEF Execute, r, insn
    <2>3. [m.csr EXCEPT !.mie = mie] = csr(mie) BY <1>2 DEF Csr
    <2>4. r = At(m.pc + 1, m.x, m.ram, m.dirty, csr(mie)) BY <1>1, <2>2, <2>3 DEF State, At
    <2>5. QED BY <1>1, <1>2, <1>3, <1>5, <1>13, <2>1, <2>4
  <1>14. CASE insn.op \in {"count", "window", "clear", "timerOn", "timerOff", "dma"}
    <2> DEFINE n == At(m.pc + 1, m.x, m.ram, m.dirty, m.csr)
    <2>1. Computed(m, n) BY <1>1, <1>2, <1>3, <1>5, <1>14
    <2>2. n = [m EXCEPT !.pc = @ + 1] BY <1>1 DEF State, At
    <2>3. r = IoAccess([m EXCEPT !.pc = @ + 1], insn.op) BY <1>14 DEF Execute, r, insn
    <2>4. n.stall = 0 BY <1>1 DEF State, At
    <2> HIDE DEF n
    <2>5. Typed(n) /\ Ahead(n) /\ r = IoAccess(n, insn.op)
      BY <2>1, <2>2, <2>3 DEF Computed, Result
    <2>6. Result(n, r) /\ r.touched /\ r.insns = n.insns /\ r.exit = n.exit
      BY <1>14, <2>4, <2>5, IoAccessTyped
    <2>7. QED BY <2>1, <2>6 DEF Computed, Result
  <1>15. QED BY <1>3, <1>6, <1>7, <1>8, <1>9, <1>10, <1>11, <1>12, <1>13, <1>14 DEF Op

LEMMA TrapTyped ==
  ASSUME NEW m, Typed(m), Ahead(m), m.stall = 0, code \in Firmware
  PROVE  LET r == Trap(m)
         IN  /\ Result(m, r) /\ r.insns = m.insns /\ r.exit = "interrupt"
             /\ r.pulse = m.pulse /\ r.dma = m.dma
  <1> DEFINE csr == [mie |-> FALSE, mpie |-> m.csr.mie, mepc |-> m.pc]
  <1> DEFINE r == Trap(m)
  <1>1. m \in State /\ m.pc \in DOMAIN code /\ m.pc \in Nat /\ m.csr.mie \in BOOLEAN
    BY DEF Typed, State, Csr
  <1>2. Handler \in DOMAIN code /\ Handler \in Nat BY <1>1, CodeTyped, MachineAssumption
  <1>3. csr \in Csr /\ csr.mepc = m.pc BY <1>1 DEF Csr
  <1>4. r = [m EXCEPT !.csr = csr, !.pc = Handler, !.exit = "interrupt"] BY DEF Trap
  <1> HIDE DEF csr, r
  <1>5. r \in State BY <1>1, <1>2, <1>3, <1>4 DEF State
  <1>6. /\ r.pc = Handler /\ r.csr = csr /\ r.now = m.now /\ r.deadline = m.deadline /\ r.left = m.left
        /\ r.slot = m.slot /\ r.irqs = m.irqs /\ r.idleInsns = m.idleInsns /\ r.stall = 0
        /\ r.insns = m.insns /\ r.exit = "interrupt" /\ r.pulse = m.pulse
        /\ r.dma = m.dma /\ r.enabled = m.enabled /\ r.frozen = m.frozen /\ r.phase = m.phase
    BY <1>1, <1>4 DEF State
  <1>7. Typed(r) BY <1>1, <1>2, <1>3, <1>5, <1>6 DEF Typed, Phase
  <1>8. Ahead(r) BY <1>6 DEF Ahead
  <1>9. QED BY <1>6, <1>7, <1>8 DEF Result, r

(* A step never lowers the count of instructions; one that executes raises   *)
(* it.  It schedules no event without touching the bus.                     *)
LEMMA CpuStepTyped ==
  ASSUME NEW m, Typed(m), Ahead(m), m.stall = 0, code \in Firmware
  PROVE  LET r == CpuStep(m, code)
         IN  /\ Result(m, r) /\ m.insns <= r.insns
             /\ r.exit # "interrupt" => m.insns < r.insns
             /\ r.touched \/ (r.pulse = m.pulse /\ r.dma = m.dma)
  <1>1. m \in State /\ m.insns \in Nat BY DEF Typed, State
  <1>2. CASE m.meip /\ m.csr.mie
    BY <1>1, <1>2, TrapTyped DEF CpuStep
  <1>3. CASE ~(m.meip /\ m.csr.mie)
    <2> DEFINE k == m.insns + 1
    <2> DEFINE n == [m EXCEPT !.insns = k, !.exit = "stepped"]
    <2>1. n \in State
      <3>1. k \in Nat BY <1>1
      <3> HIDE DEF k
      <3>2. QED BY <1>1, <3>1 DEF State
    <2>2. Typed(n) /\ Ahead(n) /\ SameLoop(m, n) /\ n.insns = m.insns + 1 /\ n.exit = "stepped"
          /\ n.pulse = m.pulse /\ n.dma = m.dma /\ n.stall = 0 /\ n.pc = m.pc
      BY <1>1, <2>1 DEF Typed, State, SameLoop, Phase, Ahead
    <2>3. CpuStep(m, code) = Execute(n, code[n.pc]) BY <1>3, <2>2 DEF CpuStep
    <2> HIDE DEF n
    <2> DEFINE r == Execute(n, code[n.pc])
    <2>4. /\ Result(n, r) /\ r.insns = n.insns /\ r.exit = n.exit
          /\ r.touched \/ (r.pulse = n.pulse /\ r.dma = n.dma)
      BY <2>2, ExecuteTyped
    <2> HIDE DEF r
    <2>5. Result(m, r) BY <2>2, <2>4 DEF Result, SameLoop
    <2>6. m.insns < r.insns BY <1>1, <2>2, <2>4
    <2>7. CpuStep(m, code) = r BY <2>3 DEF r
    <2>8. QED BY <1>1, <2>2, <2>4, <2>5, <2>6, <2>7
  <1>4. QED BY <1>2, <1>3

-----------------------------------------------------------------------------
(* The loop.  What holds of a machine between two iterations.               *)
Loop(m) == MachineType(m) /\ Timed(m)

LEMMA LoopTyped == ASSUME NEW m, Loop(m) PROVE Typed(m)
  BY DEF Loop, MachineType, Timed, Typed

(* After the deadline check every event is ahead.                           *)
LEMMA PreStepTyped ==
  ASSUME NEW m, Loop(m)
  PROVE  LET p == PreStep(m)
         IN  /\ Typed(p) /\ Ahead(p) /\ p.deadline = NextDeadline(p)
             /\ p.now = m.now /\ p.left = m.left /\ p.slot = m.slot /\ p.irqs = m.irqs
             /\ p.idleInsns = m.idleInsns /\ p.stall = 0 /\ p.insns = m.insns
  <1> DEFINE ticked == IF ~Due(m.deadline, m.now) THEN m
                       ELSE LET t == TickDue(m) IN [t EXCEPT !.deadline = NextDeadline(t)]
  <1> DEFINE Same(p) == /\ p.now = m.now /\ p.left = m.left /\ p.slot = m.slot /\ p.irqs = m.irqs
                        /\ p.idleInsns = m.idleInsns /\ p.stall = 0 /\ p.insns = m.insns
  <1>1. Typed(m) /\ m \in State /\ m.deadline = NextDeadline(m) /\ m.stall = 0
    BY LoopTyped DEF Loop, Timed, MachineType
  <1>2. Typed(ticked) /\ Ahead(ticked) /\ ticked.deadline = NextDeadline(ticked) /\ Same(ticked)
    <2>1. CASE ~Due(m.deadline, m.now)
      BY <1>1, <2>1, DeadlineAhead
    <2>2. CASE Due(m.deadline, m.now)
      <3> DEFINE t == TickDue(m)
      <3>1. Typed(t) /\ SameLoop(m, t) /\ Ahead(t) /\ t.insns = m.insns
        BY <1>1, TickDueTyped
      <3>2. ticked = [t EXCEPT !.deadline = NextDeadline(t)] BY <2>2
      <3> HIDE DEF t, ticked
      <3>3. t \in State BY <3>1 DEF Typed
      <3> DEFINE d == NextDeadline(t)
      <3>4. d \in Event BY <3>3, DeadlineTyped
      <3>5. ticked.pulse = t.pulse /\ ticked.dma = t.dma /\ ticked.deadline = d
        BY <3>2, <3>3 DEF State
      <3>6. NextDeadline(ticked) = d BY <3>5 DEF NextDeadline
      <3>7. ticked = [t EXCEPT !.deadline = d] BY <3>2
      <3> HIDE DEF d
      <3>8. ticked \in State BY <3>3, <3>4, <3>7 DEF State
      <3>9. Typed(ticked) /\ Ahead(ticked)
        BY <3>1, <3>3, <3>7, <3>8 DEF Typed, State, Phase, Ahead
      <3>10. Same(ticked)
        BY <1>1, <3>1, <3>3, <3>7 DEF SameLoop, State
      <3>11. QED BY <3>5, <3>6, <3>9, <3>10
    <2>3. QED BY <2>1, <2>2
  <1> DEFINE line == Line(ticked.irq)
  <1>3. PreStep(m) = [ticked EXCEPT !.meip = line] BY DEF PreStep
  <1> HIDE DEF ticked
  <1>4. line \in BOOLEAN
    <2>1. ticked.irq.global \in BOOLEAN BY <1>2 DEF Typed, State, Irq
    <2>2. QED BY <2>1 DEF Line
  <1> HIDE DEF line
  <1> DEFINE p == [ticked EXCEPT !.meip = line]
  <1>5. ticked \in State BY <1>2 DEF Typed
  <1>6. p \in State BY <1>4, <1>5 DEF State
  <1>7. Typed(p) /\ Ahead(p) /\ p.deadline = ticked.deadline /\ p.pulse = ticked.pulse /\ p.dma = ticked.dma
        /\ SameLoop(ticked, p) /\ p.insns = ticked.insns
    BY <1>2, <1>5, <1>6 DEF Typed, State, Phase, Ahead, SameLoop
  <1> HIDE DEF p
  <1>8. p.deadline = NextDeadline(p) BY <1>2, <1>7 DEF NextDeadline
  <1>9. QED BY <1>2, <1>3, <1>7, <1>8 DEF SameLoop, p

(* An event that is ahead when the instruction starts is at most that        *)
(* instruction late when it has passed.                                     *)
LEMMA InTimeAfter ==
  ASSUME NEW m, m \in State, Ahead(m), NEW t \in Nat, t <= m.now + ClocksPerInsn + StallClocks,
         NEW n, n.now = t, n.pulse = m.pulse, n.dma = m.dma
  PROVE  InTime(n)
  <1>1. m.now \in Nat /\ m.pulse \in Event /\ m.dma \in Event BY DEF State
  <1>2. SUFFICES ASSUME NEW event \in {m.pulse, m.dma} \ {Never}
                 PROVE  t < event + ClocksPerInsn + StallClocks
    BY DEF InTime
  <1>3. event \in Nat /\ ~(event <= m.now) BY <1>1, <1>2 DEF Ahead, Due, Event
  <1>4. QED BY <1>1, <1>3, MachineAssumption

(* The clock advances by the instruction and its stall; the deadline is      *)
(* right again.                                                             *)
LEMMA PostStepTyped ==
  ASSUME NEW m, Typed(m), Ahead(m), m.stall \in {0, StallClocks}, m.slot.insns <= m.insns,
         m.touched \/ m.deadline = NextDeadline(m)
  PROVE  LET q == PostStep(m)
         IN  /\ Loop(q) /\ q.left = m.left /\ q.slot = m.slot /\ q.irqs = m.irqs
             /\ q.insns = m.insns /\ q.exit = m.exit /\ q.idleInsns = m.idleInsns
  <1> DEFINE t == m.now + ClocksPerInsn + m.stall
  <1> DEFINE d == NextDeadline(m)
  <1> DEFINE q == [m EXCEPT !.now = t, !.stall = 0, !.touched = FALSE, !.deadline = d]
  <1>1. m \in State /\ m.now \in Nat /\ m.stall \in Nat /\ m.pulse \in Event BY DEF Typed, State
  <1>2. t \in Nat /\ m.now <= t /\ t <= m.now + ClocksPerInsn + StallClocks
    BY <1>1, MachineAssumption
  <1>3. d \in Event BY <1>1, DeadlineTyped
  <1>4. PostStep(m) = q
    <2>1. CASE m.touched BY <2>1 DEF PostStep
    <2>2. CASE ~m.touched
      <3>1. m.deadline = d BY <2>2
      <3> HIDE DEF d, t
      <3>2. q = [m EXCEPT !.now = t, !.stall = 0, !.touched = FALSE] BY <1>1, <3>1 DEF State
      <3>3. QED BY <2>2, <3>2 DEF PostStep, t
    <2>3. QED BY <2>1, <2>2
  <1> HIDE DEF t
  <1>5. d = NextDeadline(q)
    <2> HIDE DEF d
    <2>1. q.pulse = m.pulse /\ q.dma = m.dma BY <1>1 DEF State
    <2>2. QED BY <2>1 DEF NextDeadline, d
  <1> HIDE DEF d
  <1>6. q \in State BY <1>1, <1>2, <1>3 DEF State
  <1>7. /\ q.pc = m.pc /\ q.csr = m.csr /\ q.enabled = m.enabled /\ q.frozen = m.frozen
        /\ q.pulse = m.pulse /\ q.dma = m.dma /\ q.phase = m.phase /\ q.now = t /\ q.stall = 0
        /\ q.touched = FALSE /\ q.deadline = d /\ q.slot = m.slot /\ q.insns = m.insns
        /\ q.left = m.left /\ q.irqs = m.irqs /\ q.exit = m.exit /\ q.idleInsns = m.idleInsns
    BY <1>1 DEF State
  <1> HIDE DEF q
  <1>8. MachineType(q) BY <1>6, <1>7 DEF MachineType, Typed
  <1>9. q.pulse # Never => q.pulse <= q.now + Period
    <2>1. SUFFICES ASSUME m.pulse # Never PROVE m.pulse <= t + Period BY <1>7
    <2>2. m.pulse <= m.now + Period /\ m.pulse \in Nat BY <1>1, <2>1 DEF Typed, Event
    <2>3. QED BY <1>1, <1>2, <2>2, MachineAssumption
  <1>10. InTime(q) BY <1>1, <1>2, <1>7, InTimeAfter
  <1>11. Phase(q) BY <1>7 DEF Typed, Phase
  <1>12. q.slot.insns <= q.insns BY <1>7
  <1>13. Timed(q) BY <1>5, <1>7, <1>9, <1>10, <1>11, <1>12 DEF Timed
  <1>14. QED BY <1>4, <1>7, <1>8, <1>13 DEF Loop

(* Machine::idle_arrival skips neither the budget nor an event.             *)
LEMMA PassesTyped ==
  ASSUME NEW m, m \in State, NEW period \in Nat \ {0}
  PROVE  LET skipped == Passes(m, period) * period
         IN  /\ skipped \in Nat /\ skipped <= m.left
             /\ m.deadline # Never /\ skipped # 0 => m.now + skipped * ClocksPerInsn <= m.deadline
  <1> DEFINE budget == m.left \div period
  <1> DEFINE clocks == IF m.now < m.deadline THEN m.deadline - m.now ELSE 0
  <1> DEFINE per == period * ClocksPerInsn
  <1> DEFINE passes == clocks \div per
  <1> DEFINE p == Passes(m, period)
  <1>1. m.left \in Nat /\ m.now \in Nat /\ m.deadline \in Event /\ ClocksPerInsn \in Nat \ {0}
    BY MachineAssumption DEF State
  <1>2. budget \in Nat /\ budget * period <= m.left BY <1>1, DivTimes
  <1>3. clocks \in Nat /\ (m.deadline # Never /\ clocks # 0 => clocks = m.deadline - m.now)
    BY <1>1 DEF Event, Never
  <1>4. per \in Nat \ {0}
    <2>1. period * ClocksPerInsn >= 1 * ClocksPerInsn BY <1>1
    <2>2. QED BY <1>1, <2>1
  <1>5. p = IF m.deadline = Never \/ budget <= passes THEN budget ELSE passes
    BY DEF Passes
  <1> HIDE DEF clocks, per
  <1>6. passes \in Nat /\ passes * per <= clocks BY <1>3, <1>4, DivTimes
  <1> HIDE DEF budget, passes
  <1>7. p \in Nat /\ p <= budget /\ (m.deadline # Never => p <= passes)
    BY <1>2, <1>5, <1>6
  <1> HIDE DEF p
  <1>8. p * period \in Nat /\ p * period <= m.left
    <2>1. p * period <= budget * period BY <1>2, <1>7
    <2>2. QED BY <1>1, <1>2, <1>7, <2>1
  <1>9. ASSUME m.deadline # Never, p * period # 0 PROVE m.now + (p * period) * ClocksPerInsn <= m.deadline
    <2>1. p >= 1
      <3>1. p # 0 BY <1>9
      <3>2. QED BY <1>7, <3>1
    <2>2. p * per <= passes * per BY <1>4, <1>6, <1>7, <1>9
    <2>3. p * per >= 1 * per BY <1>4, <1>7, <2>1
    <2>4. clocks # 0 BY <1>3, <1>4, <1>6, <1>7, <2>2, <2>3
    <2>5. (p * period) * ClocksPerInsn = p * per BY <1>1, <1>7 DEF per
    <2>6. p * per <= clocks BY <1>3, <1>4, <1>6, <1>7, <2>2
    <2>7. QED BY <1>1, <1>3, <1>4, <1>7, <1>9, <2>4, <2>5, <2>6 DEF Event
  <1>10. QED BY <1>8, <1>9 DEF p

(* The parts of the invariant that look at the events and the clock.        *)
LEMMA LoopFrame ==
  ASSUME NEW m, Loop(m), NEW n, n \in State,
         n.pc = m.pc, n.csr = m.csr, n.enabled = m.enabled, n.frozen = m.frozen, n.pulse = m.pulse,
         n.dma = m.dma, n.phase = m.phase, n.stall = m.stall, n.touched = m.touched,
         n.deadline = m.deadline, n.slot.insns <= n.insns, m.now <= n.now, InTime(n)
  PROVE  Loop(n)
  <1>1. MachineType(n) BY DEF Loop, MachineType
  <1>2. n.deadline = NextDeadline(n) BY DEF Loop, Timed, NextDeadline
  <1>3. n.pulse # Never => n.pulse <= n.now + Period
    <2>1. m.pulse \in Event /\ m.now \in Nat /\ n.now \in Nat /\ (m.pulse # Never => m.pulse <= m.now + Period)
      BY DEF Loop, MachineType, Timed, State
    <2>2. QED BY <2>1, MachineAssumption DEF Event
  <1>4. Phase(n) BY DEF Loop, Timed, Phase
  <1>5. QED BY <1>1, <1>2, <1>3, <1>4 DEF Loop, Timed

LEMMA SkipTyped ==
  ASSUME NEW m, Loop(m), NEW period \in Nat \ {0} PROVE Loop(Skip(m, period))
  <1> DEFINE skipped == Passes(m, period) * period
  <1>1. m \in State /\ m.deadline = NextDeadline(m) /\ InTime(m) /\ m.slot.insns <= m.insns
    BY DEF Loop, MachineType, Timed
  <1>2. m.left \in Nat /\ m.now \in Nat /\ m.idleInsns \in Nat /\ m.pulse \in Event /\ m.dma \in Event
        /\ ClocksPerInsn \in Nat \ {0}
    BY <1>1, MachineAssumption DEF State
  <1>3. /\ skipped \in Nat /\ skipped <= m.left
        /\ m.deadline # Never /\ skipped # 0 => m.now + skipped * ClocksPerInsn <= m.deadline
    BY <1>1, PassesTyped
  <1>4. Skip(m, period) = [m EXCEPT !.left = @ - skipped, !.now = @ + skipped * ClocksPerInsn,
                                    !.idleInsns = @ + skipped]
    BY DEF Skip
  <1> HIDE DEF skipped
  <1> DEFINE left == m.left - skipped
  <1> DEFINE now == m.now + skipped * ClocksPerInsn
  <1> DEFINE idle == m.idleInsns + skipped
  <1> DEFINE n == [m EXCEPT !.left = left, !.now = now, !.idleInsns = idle]
  <1>5. skipped * ClocksPerInsn \in Nat BY <1>2, <1>3
  <1>6. left \in Nat /\ now \in Nat /\ idle \in Nat /\ m.now <= now BY <1>2, <1>3, <1>5
  <1>7. m.deadline # Never => now = m.now \/ now <= m.deadline
    <2>1. CASE skipped = 0 BY <1>2, <2>1
    <2>2. CASE skipped # 0 BY <1>3, <2>2
    <2>3. QED BY <2>1, <2>2
  <1>8. Skip(m, period) = n BY <1>4
  <1> HIDE DEF left, now, idle
  <1>9. n \in State BY <1>1, <1>6 DEF State
  <1>10. /\ n.pc = m.pc /\ n.csr = m.csr /\ n.enabled = m.enabled /\ n.frozen = m.frozen /\ n.pulse = m.pulse
         /\ n.dma = m.dma /\ n.phase = m.phase /\ n.stall = m.stall /\ n.touched = m.touched
         /\ n.deadline = m.deadline /\ n.slot = m.slot /\ n.insns = m.insns /\ n.now = now
    BY <1>1 DEF State
  <1> HIDE DEF n
  <1>11. InTime(n)
    <2>1. SUFFICES ASSUME NEW event \in {m.pulse, m.dma} \ {Never}
                   PROVE  now < event + ClocksPerInsn + StallClocks
      BY <1>10 DEF InTime
    <2>2. event \in Nat /\ m.deadline # Never /\ m.deadline <= event
      <3>1. m.deadline = Earlier(m.pulse, m.dma) BY <1>1 DEF NextDeadline
      <3>2. /\ m.pulse # Never => Earlier(m.pulse, m.dma) # Never /\ Earlier(m.pulse, m.dma) <= m.pulse
            /\ m.dma # Never => Earlier(m.pulse, m.dma) # Never /\ Earlier(m.pulse, m.dma) <= m.dma
        BY <1>2, EarlierTyped
      <3>3. event \in Nat BY <1>2 DEF Event
      <3>4. QED BY <3>1, <3>2, <3>3
    <2>3. CASE now = m.now BY <1>1, <2>3 DEF InTime
    <2>4. CASE now <= m.deadline
      <3>1. m.deadline \in Nat BY <1>1, <2>2 DEF State, Event
      <3>2. QED BY <1>6, <2>2, <2>4, <3>1, MachineAssumption
    <2>5. QED BY <1>7, <2>2, <2>3, <2>4
  <1>12. n.slot.insns <= n.insns BY <1>1, <1>10
  <1>13. Loop(n) BY <1>6, <1>9, <1>10, <1>11, <1>12, LoopFrame
  <1>14. QED BY <1>8, <1>13

LEMMA WatchTyped ==
  ASSUME NEW m, Loop(m), NEW slot \in Slot, slot.insns <= m.insns
  PROVE  Loop([m EXCEPT !.dirty = FALSE, !.slot = slot])
  <1> DEFINE n == [m EXCEPT !.dirty = FALSE, !.slot = slot]
  <1>1. m \in State /\ InTime(m) /\ m.now \in Nat BY DEF Loop, MachineType, Timed, State
  <1>2. n \in State BY <1>1 DEF State
  <1>3. /\ n.pc = m.pc /\ n.csr = m.csr /\ n.enabled = m.enabled /\ n.frozen = m.frozen /\ n.pulse = m.pulse
        /\ n.dma = m.dma /\ n.phase = m.phase /\ n.stall = m.stall /\ n.touched = m.touched
        /\ n.deadline = m.deadline /\ n.slot = slot /\ n.insns = m.insns /\ n.now = m.now
    BY <1>1 DEF State
  <1> HIDE DEF n
  <1>4. InTime(n) BY <1>1, <1>3 DEF InTime
  <1>5. n.slot.insns <= n.insns BY <1>3
  <1>6. m.now <= n.now BY <1>1, <1>3
  <1>7. Loop(n) BY <1>2, <1>3, <1>4, <1>5, <1>6, LoopFrame
  <1>8. QED BY <1>7 DEF n

LEMMA IdleArrivalTyped ==
  ASSUME NEW m, Loop(m), m.slot.insns < m.insns PROVE Loop(IdleArrival(m))
  <1> DEFINE period == m.insns - m.slot.insns
  <1> DEFINE new == NewSlot(m)
  <1> DEFINE seen == [m.slot EXCEPT !.insns = m.insns, !.irqs = m.irqs, !.period = period]
  <1> DEFINE next == [seen EXCEPT !.x = m.x, !.csr = m.csr]
  <1> DEFINE watched == [m EXCEPT !.dirty = FALSE, !.slot = seen]
  <1>1. m \in State BY DEF Loop, MachineType
  <1>2. /\ m.slot \in Slot /\ m.slot.insns \in Nat /\ m.insns \in Nat /\ m.irqs \in Nat /\ m.x \in Word
        /\ m.csr \in Csr /\ m.pc \in Nat
    BY <1>1 DEF State, Slot
  <1>3. period \in Nat \ {0} BY <1>2
  <1>4. new \in Slot /\ new.insns = m.insns BY <1>2 DEF Slot, NewSlot
  <1>5. IdleArrival(m) = IF m.slot.head # m.pc THEN [m EXCEPT !.dirty = FALSE, !.slot = new]
                         ELSE IF FixedPoint(m) THEN Skip(watched, period)
                         ELSE [m EXCEPT !.dirty = FALSE, !.slot = next]
    <2> DEFINE clean == [m EXCEPT !.dirty = FALSE]
    <2> DEFINE w == [clean EXCEPT !.slot.insns = m.insns, !.slot.irqs = m.irqs, !.slot.period = period]
    <2> DEFINE u == [w EXCEPT !.slot.x = m.x, !.slot.csr = m.csr]
    <2>1. IdleArrival(m) = IF m.slot.head # m.pc THEN [clean EXCEPT !.slot = new]
                           ELSE IF FixedPoint(m) THEN Skip(w, period) ELSE u
      BY DEF IdleArrival
    <2> HIDE DEF period, new
    <2>2. w = watched BY <1>1, <1>2 DEF State
    <2>3. watched.slot = seen BY <1>1 DEF State
    <2>4. u = [m EXCEPT !.dirty = FALSE, !.slot = next]
      <3>1. u = [watched EXCEPT !.slot.x = m.x, !.slot.csr = m.csr] BY <2>2
      <3>2. [watched EXCEPT !.slot.x = m.x, !.slot.csr = m.csr] = [watched EXCEPT !.slot = next]
        BY <1>1, <2>3 DEF State
      <3>3. [watched EXCEPT !.slot = next] = [m EXCEPT !.dirty = FALSE, !.slot = next]
        BY <1>1 DEF State
      <3>4. QED BY <3>1, <3>2, <3>3
    <2>5. [clean EXCEPT !.slot = new] = [m EXCEPT !.dirty = FALSE, !.slot = new] BY <1>1 DEF State
    <2> HIDE DEF w, u, watched, next, clean
    <2>6. QED BY <2>1, <2>2, <2>4, <2>5
  <1> HIDE DEF period, new
  <1>6. seen \in Slot /\ seen.insns = m.insns BY <1>2, <1>3 DEF Slot
  <1> HIDE DEF seen
  <1>7. next \in Slot /\ next.insns = m.insns BY <1>2, <1>6 DEF Slot
  <1> HIDE DEF next
  <1>8. m.insns <= m.insns BY <1>2
  <1>9. Loop(watched) BY <1>6, <1>8, WatchTyped
  <1>10. Loop([m EXCEPT !.dirty = FALSE, !.slot = new]) BY <1>4, <1>8, WatchTyped
  <1>11. Loop([m EXCEPT !.dirty = FALSE, !.slot = next]) BY <1>7, <1>8, WatchTyped
  <1> HIDE DEF watched
  <1>12. Loop(Skip(watched, period)) BY <1>3, <1>9, SkipTyped
  <1>13. QED BY <1>5, <1>10, <1>11, <1>12

(* One iteration of Machine::run.                                           *)
LEMMA IterateTyped ==
  ASSUME NEW m, Loop(m), m.left > 0, code \in Firmware, NEW skip \in BOOLEAN
  PROVE  Loop(Iterate(m, code, skip))
  <1> DEFINE left == m.left - 1
  <1> DEFINE n == [m EXCEPT !.left = left]
  <1> DEFINE p == PreStep(n)
  <1> DEFINE r == CpuStep(p, code)
  <1> DEFINE q == PostStep(r)
  <1>1. m \in State /\ m.now \in Nat /\ m.left \in Nat /\ m.slot.insns <= m.insns /\ InTime(m)
    BY DEF Loop, MachineType, Timed, State
  <1>2. left \in Nat BY <1>1
  <1>3. Iterate(m, code, skip) =
          IF q.exit = "interrupt" THEN [q EXCEPT !.irqs = @ + 1]
          ELSE IF skip /\ q.pc <= m.pc THEN IdleArrival(q) ELSE q
    BY DEF Iterate
  <1> HIDE DEF left
  <1>4. Loop(n) /\ n.slot = m.slot /\ n.insns = m.insns
    <2>1. n \in State BY <1>1, <1>2 DEF State
    <2>2. /\ n.pc = m.pc /\ n.csr = m.csr /\ n.enabled = m.enabled /\ n.frozen = m.frozen /\ n.pulse = m.pulse
          /\ n.dma = m.dma /\ n.phase = m.phase /\ n.stall = m.stall /\ n.touched = m.touched
          /\ n.deadline = m.deadline /\ n.slot = m.slot /\ n.insns = m.insns /\ n.now = m.now
      BY <1>1 DEF State
    <2> HIDE DEF n
    <2>3. InTime(n) BY <1>1, <2>2 DEF InTime
    <2>4. n.slot.insns <= n.insns /\ m.now <= n.now BY <1>1, <2>2
    <2>5. QED BY <2>1, <2>2, <2>3, <2>4, LoopFrame
  <1> HIDE DEF n
  <1>5. /\ Typed(p) /\ Ahead(p) /\ p.deadline = NextDeadline(p) /\ p.slot = m.slot /\ p.stall = 0
        /\ p.insns = m.insns
    BY <1>4, PreStepTyped
  <1> HIDE DEF p
  <1>6. /\ Result(p, r) /\ p.insns <= r.insns /\ (r.exit # "interrupt" => p.insns < r.insns)
        /\ r.touched \/ (r.pulse = p.pulse /\ r.dma = p.dma)
    BY <1>5, CpuStepTyped
  <1> HIDE DEF r
  <1>7. /\ Typed(r) /\ Ahead(r) /\ r.stall \in {0, StallClocks} /\ r.slot = m.slot
        /\ r.touched \/ r.deadline = NextDeadline(r)
    BY <1>5, <1>6 DEF Result, NextDeadline
  <1>8. m.insns \in Nat /\ r.insns \in Nat /\ m.slot.insns \in Nat BY <1>1, <1>7 DEF Typed, State, Slot
  <1>9. r.slot.insns <= r.insns /\ (r.exit # "interrupt" => r.slot.insns < r.insns)
    BY <1>1, <1>5, <1>6, <1>7, <1>8
  <1>10. Loop(q) /\ q.slot = r.slot /\ q.insns = r.insns /\ q.exit = r.exit
    BY <1>7, <1>9, PostStepTyped
  <1> HIDE DEF q
  <1>11. Loop([q EXCEPT !.irqs = @ + 1])
    <2> DEFINE irqs == q.irqs + 1
    <2> DEFINE s == [q EXCEPT !.irqs = irqs]
    <2>1. q \in State /\ q.now \in Nat /\ q.irqs \in Nat /\ q.slot.insns <= q.insns /\ InTime(q)
      BY <1>10 DEF Loop, MachineType, Timed, State
    <2>2. irqs \in Nat BY <2>1
    <2> HIDE DEF irqs
    <2>3. s \in State BY <2>1, <2>2 DEF State
    <2>4. /\ s.pc = q.pc /\ s.csr = q.csr /\ s.enabled = q.enabled /\ s.frozen = q.frozen /\ s.pulse = q.pulse
          /\ s.dma = q.dma /\ s.phase = q.phase /\ s.stall = q.stall /\ s.touched = q.touched
          /\ s.deadline = q.deadline /\ s.slot = q.slot /\ s.insns = q.insns /\ s.now = q.now
      BY <2>1 DEF State
    <2> HIDE DEF s
    <2>5. InTime(s) BY <2>1, <2>4 DEF InTime
    <2>6. s.slot.insns <= s.insns /\ q.now <= s.now BY <2>1, <2>4
    <2>7. Loop(s) BY <1>10, <2>3, <2>4, <2>5, <2>6, LoopFrame
    <2>8. QED BY <2>7 DEF s, irqs
  <1>12. q.exit # "interrupt" => Loop(IdleArrival(q))
    BY <1>9, <1>10, IdleArrivalTyped
  <1>13. QED BY <1>3, <1>10, <1>11, <1>12

-----------------------------------------------------------------------------
(* The host between two slices.                                             *)
LEMMA GivenTyped ==
  ASSUME NEW m, Loop(m), NEW input \in HostInput
  PROVE  Loop(Given(m, input)) /\ Given(m, input).insns = m.insns
  <1>1. /\ m \in State /\ m.now \in Nat /\ m.slot.insns <= m.insns /\ InTime(m) /\ m.pulse \in Event
        /\ m.irq \in Irq /\ m.ram \in Word /\ m.insns \in Nat
    BY DEF Loop, MachineType, Timed, State
  <1>2. ASSUME NEW ram \in Word, NEW irq \in Irq
        PROVE  /\ Loop([m EXCEPT !.ram = ram, !.irq = irq])
               /\ [m EXCEPT !.ram = ram, !.irq = irq].insns = m.insns
    <2> DEFINE n == [m EXCEPT !.ram = ram, !.irq = irq]
    <2>1. n \in State BY <1>1 DEF State
    <2>2. /\ n.pc = m.pc /\ n.csr = m.csr /\ n.enabled = m.enabled /\ n.frozen = m.frozen /\ n.pulse = m.pulse
          /\ n.dma = m.dma /\ n.phase = m.phase /\ n.stall = m.stall /\ n.touched = m.touched
          /\ n.deadline = m.deadline /\ n.slot = m.slot /\ n.insns = m.insns /\ n.now = m.now
      BY <1>1 DEF State
    <2> HIDE DEF n
    <2>3. InTime(n) BY <1>1, <2>2 DEF InTime
    <2>4. n.slot.insns <= n.insns /\ m.now <= n.now BY <1>1, <2>2
    <2>5. Loop(n) BY <2>1, <2>2, <2>3, <2>4, LoopFrame
    <2>6. QED BY <2>2, <2>5 DEF n
  <1>3. CASE input = "nothing"
    BY <1>3 DEF Given
  <1>4. CASE input = "ram"
    <2> DEFINE ram == (m.ram + 1) % Values
    <2>1. ram \in Word
      <3>1. m.ram + 1 \in Int BY <1>1 DEF Word
      <3>2. QED BY <3>1, ModBounds, MachineAssumption DEF Word
    <2>2. Given(m, input) = [m EXCEPT !.ram = ram] BY <1>4 DEF Given
    <2> HIDE DEF ram
    <2>3. Given(m, input) = [m EXCEPT !.ram = ram, !.irq = m.irq] BY <1>1, <2>2 DEF State
    <2> DEFINE n == [m EXCEPT !.ram = ram, !.irq = m.irq]
    <2>4. Loop(n) /\ n.insns = m.insns BY <1>1, <1>2, <2>1
    <2> HIDE DEF n
    <2>5. Given(m, input) = n BY <2>3 DEF n
    <2>6. QED BY <2>4, <2>5
  <1>5. CASE input \in {"up", "down"}
    <2>1. PICK on \in BOOLEAN : Given(m, input) = [m EXCEPT !.irq = SetLevel(@, NetSource, on)]
      BY <1>5 DEF Given
    <2> DEFINE irq == SetLevel(m.irq, NetSource, on)
    <2>2. irq \in Irq BY <1>1, LevelTyped DEF Source
    <2>3. Given(m, input) = [m EXCEPT !.irq = irq] BY <2>1
    <2> HIDE DEF irq
    <2>4. Given(m, input) = [m EXCEPT !.ram = m.ram, !.irq = irq] BY <1>1, <2>3 DEF State
    <2> DEFINE n == [m EXCEPT !.ram = m.ram, !.irq = irq]
    <2>5. Loop(n) /\ n.insns = m.insns BY <1>1, <1>2, <2>2
    <2> HIDE DEF n
    <2>6. Given(m, input) = n BY <2>4 DEF n
    <2>7. QED BY <2>5, <2>6
  <1>6. CASE input = "event"
    <2> DEFINE dma == m.now + DmaDelay
    <2> DEFINE s == [m EXCEPT !.dma = dma]
    <2> DEFINE d == NextDeadline(s)
    <2> DEFINE n == [s EXCEPT !.deadline = d]
    <2>1. dma \in Nat /\ m.now < dma BY <1>1, MachineAssumption
    <2>2. Given(m, input) = n BY <1>6 DEF Given
    <2> HIDE DEF dma
    <2>3. s \in State BY <1>1, <2>1 DEF State, Event
    <2>4. d \in Event BY <2>3, DeadlineTyped
    <2>5. d = NextDeadline(n)
      <3> HIDE DEF d
      <3>1. n.pulse = s.pulse /\ n.dma = s.dma BY <2>3 DEF State
      <3>2. QED BY <3>1 DEF NextDeadline, d
    <2> HIDE DEF d
    <2>6. n \in State BY <2>3, <2>4 DEF State
    <2>7. /\ n.pc = m.pc /\ n.csr = m.csr /\ n.enabled = m.enabled /\ n.frozen = m.frozen /\ n.pulse = m.pulse
          /\ n.dma = dma /\ n.phase = m.phase /\ n.stall = m.stall /\ n.touched = m.touched
          /\ n.deadline = d /\ n.slot = m.slot /\ n.insns = m.insns /\ n.now = m.now
      BY <1>1 DEF State
    <2> HIDE DEF n
    <2>8. MachineType(n) BY <2>6, <2>7 DEF Loop, MachineType
    <2>9. InTime(n)
      <3>1. SUFFICES ASSUME NEW event \in {m.pulse, dma} \ {Never}
                     PROVE  m.now < event + ClocksPerInsn + StallClocks
        BY <2>7 DEF InTime
      <3>2. CASE event = m.pulse BY <1>1, <3>1, <3>2 DEF InTime
      <3>3. CASE event = dma BY <1>1, <2>1, <3>3, MachineAssumption
      <3>4. QED BY <3>1, <3>2, <3>3
    <2>10. Timed(n) BY <1>1, <2>5, <2>7, <2>9 DEF Loop, Timed, Phase
    <2>11. QED BY <2>2, <2>7, <2>8, <2>10 DEF Loop
  <1>7. QED BY <1>3, <1>4, <1>5, <1>6 DEF HostInput

LEMMA BeginRunTyped ==
  ASSUME NEW m, Loop(m), NEW budget \in Nat PROVE Loop(BeginRun(m, budget))
  <1> DEFINE n == [m EXCEPT !.left = budget, !.dirty = TRUE]
  <1>1. m \in State /\ m.now \in Nat /\ m.slot.insns <= m.insns /\ InTime(m)
    BY DEF Loop, MachineType, Timed, State
  <1>2. n \in State BY <1>1 DEF State
  <1>3. /\ n.pc = m.pc /\ n.csr = m.csr /\ n.enabled = m.enabled /\ n.frozen = m.frozen /\ n.pulse = m.pulse
        /\ n.dma = m.dma /\ n.phase = m.phase /\ n.stall = m.stall /\ n.touched = m.touched
        /\ n.deadline = m.deadline /\ n.slot = m.slot /\ n.insns = m.insns /\ n.now = m.now
    BY <1>1 DEF State
  <1> HIDE DEF n
  <1>4. InTime(n) BY <1>1, <1>3 DEF InTime
  <1>5. n.slot.insns <= n.insns /\ m.now <= n.now BY <1>1, <1>3
  <1>6. Loop(n) BY <1>2, <1>3, <1>4, <1>5, LoopFrame
  <1>7. QED BY <1>6 DEF n, BeginRun

(* Machine::from_parts.                                                     *)
LEMMA BootTyped == ASSUME code \in Firmware PROVE Loop(Boot)
  <1>1. 1 \in DOMAIN code BY FirmwareAssumption
  <1>2. 0 \in Word /\ 0 < Period /\ Boot.csr \in Csr /\ Boot.slot.csr \in Csr /\ Boot.irq \in Irq
    <2>1. 0 \in Word /\ 0 < Period BY MachineAssumption DEF Word
    <2>2. [mie |-> TRUE, mpie |-> FALSE, mepc |-> 1] \in Csr BY DEF Csr
    <2>3. Boot.csr \in Csr /\ Boot.slot.csr \in Csr BY <2>2 DEF Boot
    <2>4. Boot.irq = [global |-> TRUE, mask |-> Source, flags |-> {}, level |-> {}] BY DEF Boot
    <2>5. [global |-> TRUE, mask |-> Source, flags |-> {}, level |-> {}] \in Irq BY DEF Irq
    <2>6. QED BY <2>1, <2>3, <2>4, <2>5
  <1>3. Boot.slot \in Slot BY <1>2 DEF Boot, Slot
  <1>4. Boot \in State BY <1>2, <1>3 DEF Boot, State, Event
  <1>5. MachineType(Boot) BY <1>1, <1>2, <1>4 DEF MachineType, Boot
  <1>6. Timed(Boot) BY DEF Timed, Boot, NextDeadline, Earlier, InTime, Phase, Never
  <1>7. QED BY <1>5, <1>6 DEF Loop

-----------------------------------------------------------------------------
(* The two machines.                                                        *)
Inv == code \in Firmware /\ IdleSkipInvariant

LEMMA InvInit == Init => Inv
  <1>1. SUFFICES ASSUME Init PROVE Inv OBVIOUS
  <1>2. Loop(fast) /\ Loop(slow) BY <1>1, BootTyped DEF Init
  <1>3. slices \in 0 .. MaxSlices /\ began \in Nat BY <1>1, FirmwareAssumption DEF Init
  <1>4. QED BY <1>1, <1>2, <1>3 DEF Init, Inv, IdleSkipInvariant, TypeOK, Loop

LEMMA InvNext == Inv /\ [Next]_vars => Inv'
  <1>1. SUFFICES ASSUME Inv, [Next]_vars PROVE Inv' OBVIOUS
  <1>2. /\ code \in Firmware /\ Loop(fast) /\ Loop(slow) /\ slices \in 0 .. MaxSlices /\ began \in Nat
        /\ fast.insns \in Nat /\ fast.left \in Nat /\ slow.left \in Nat /\ MaxSlices \in Nat
    BY <1>1, FirmwareAssumption DEF Inv, IdleSkipInvariant, TypeOK, Loop, MachineType, State
  <1>3. SUFFICES code' = code /\ Loop(fast') /\ Loop(slow') /\ slices' \in 0 .. MaxSlices /\ began' \in Nat
    <2>1. ASSUME code' = code, NEW m, Loop(m) PROVE MachineType(m)' /\ Timed(m)'
      BY <2>1 DEF Loop, MachineType, Timed, InTime, Phase, NextDeadline
    <2>2. QED BY <1>2, <2>1 DEF Inv, IdleSkipInvariant, TypeOK, Loop, MachineType, Timed, InTime, Phase, NextDeadline
  <1>4. CASE BeginSlice
    <2>1. PICK input \in HostInput, budget \in Budgets :
            /\ fast' = BeginRun(Given(fast, input), budget)
            /\ slow' = BeginRun(Given(slow, input), budget)
      BY <1>4 DEF BeginSlice
    <2>2. budget \in Nat BY FirmwareAssumption
    <2>3. Loop(fast') /\ Loop(slow') BY <1>2, <2>1, <2>2, GivenTyped, BeginRunTyped
    <2>4. slices' \in 0 .. MaxSlices /\ began' \in Nat /\ code' = code BY <1>2, <1>4 DEF BeginSlice
    <2>5. QED BY <2>3, <2>4
  <1>5. CASE FastStep
    <2>1. Loop(fast') BY <1>2, <1>5, IterateTyped DEF FastStep
    <2>2. QED BY <1>2, <1>5, <2>1 DEF FastStep
  <1>6. CASE SlowStep
    <2>1. slow.left > 0 BY <1>2, <1>6 DEF SlowStep
    <2>2. Loop(slow') BY <1>2, <1>6, <2>1, IterateTyped DEF SlowStep
    <2>3. QED BY <1>2, <1>6, <2>2 DEF SlowStep
  <1>7. CASE UNCHANGED vars
    BY <1>2, <1>7 DEF vars
  <1>8. QED BY <1>1, <1>4, <1>5, <1>6, <1>7 DEF Next

(* The inductive invariant: both machines have their type, the deadline the  *)
(* loop compares with is the earliest event of the devices, and the timer is *)
(* at most a period ahead, in every firmware and every slicing.             *)
THEOREM InvariantThm == Spec => []IdleSkipInvariant
  <1>1. Inv => IdleSkipInvariant BY DEF Inv
  <1>2. QED BY InvInit, InvNext, <1>1, PTL DEF Spec

(* No device event is passed by: what is due is delivered before the clock   *)
(* is one instruction further, by the loop that skips and by the one that    *)
(* does not.                                                                *)
THEOREM DevicesInTimeThm == Spec => []DevicesInTime
  <1>1. Inv => DevicesInTime BY DEF Inv, IdleSkipInvariant, Timed, DevicesInTime
  <1>2. QED BY InvInit, InvNext, <1>1, PTL DEF Spec

(* The timer never loses its phase, however late its pulses are delivered.  *)
THEOREM PhaseKeptThm == Spec => []PhaseKept
  <1>1. Inv => PhaseKept BY DEF Inv, IdleSkipInvariant, Timed, PhaseKept
  <1>2. QED BY InvInit, InvNext, <1>1, PTL DEF Spec

-----------------------------------------------------------------------------
(* Two machines nobody can tell apart.                                      *)
Fields == DOMAIN Boot

Plain(m) == DOMAIN m = Fields /\ m.insns \in Nat /\ m.idleInsns \in Nat

SameCpu(a, b) ==
    /\ a.pc = b.pc /\ a.x = b.x /\ a.csr = b.csr /\ a.meip = b.meip /\ a.exit = b.exit
    /\ a.insns + a.idleInsns = b.insns + b.idleInsns

SameBoard(a, b) ==
    /\ a.ram = b.ram /\ a.irq = b.irq /\ a.enabled = b.enabled /\ a.frozen = b.frozen
    /\ a.pulse = b.pulse /\ a.phase = b.phase /\ a.dma = b.dma

SameClock(a, b) ==
    /\ a.now = b.now /\ a.deadline = b.deadline /\ a.touched = b.touched /\ a.stall = b.stall
    /\ a.irqs = b.irqs /\ a.left = b.left

Same(a, b) == SameCpu(a, b) /\ SameBoard(a, b) /\ SameClock(a, b)

LEMMA FieldsAre ==
  Fields = { "pc", "x", "csr", "meip", "insns", "exit", "ram", "now", "dirty", "touched", "stall",
             "irq", "enabled", "frozen", "pulse", "phase", "dma", "deadline", "irqs", "idleInsns",
             "left", "slot" }
  BY DEF Fields, Boot

LEMMA StatePlain == ASSUME NEW m, m \in State PROVE Plain(m)
  BY FieldsAre DEF Plain, State

(* What agrees in every field but the counters of the skip is visibly equal. *)
LEMMA SameVisible == ASSUME NEW a, NEW b, Plain(a), Plain(b), Same(a, b) PROVE Visible(a) = Visible(b)
  <1> DEFINE k == a.insns + a.idleInsns
  <1> DEFINE slot == Boot.slot
  <1> DEFINE v == [a EXCEPT !.insns = k, !.idleInsns = 0, !.dirty = FALSE, !.slot = slot]
  <1> DEFINE w == [b EXCEPT !.insns = k, !.idleInsns = 0, !.dirty = FALSE, !.slot = slot]
  <1>1. k = b.insns + b.idleInsns BY DEF Same, SameCpu
  <1>2. Visible(a) = v /\ Visible(b) = w BY <1>1 DEF Visible
  <1> HIDE DEF k, slot
  <1>3. \A f \in Fields : v[f] = w[f]
    <2>1. /\ v["pc"] = w["pc"] /\ v["x"] = w["x"] /\ v["csr"] = w["csr"] /\ v["meip"] = w["meip"]
          /\ v["exit"] = w["exit"] /\ v["insns"] = w["insns"] /\ v["idleInsns"] = w["idleInsns"]
          /\ v["dirty"] = w["dirty"] /\ v["slot"] = w["slot"]
      BY FieldsAre DEF Plain, Same, SameCpu
    <2>2. /\ v["ram"] = w["ram"] /\ v["irq"] = w["irq"] /\ v["enabled"] = w["enabled"]
          /\ v["frozen"] = w["frozen"] /\ v["pulse"] = w["pulse"] /\ v["phase"] = w["phase"]
          /\ v["dma"] = w["dma"]
      BY FieldsAre DEF Plain, Same, SameBoard
    <2>3. /\ v["now"] = w["now"] /\ v["deadline"] = w["deadline"] /\ v["touched"] = w["touched"]
          /\ v["stall"] = w["stall"] /\ v["irqs"] = w["irqs"] /\ v["left"] = w["left"]
      BY FieldsAre DEF Plain, Same, SameClock
    <2> HIDE DEF v, w
    <2>4. QED BY <2>1, <2>2, <2>3, FieldsAre
  <1>4. DOMAIN v = Fields /\ DOMAIN w = Fields BY DEF Plain
  <1>5. v = [f \in DOMAIN v |-> v[f]] /\ w = [f \in DOMAIN w |-> w[f]] OBVIOUS
  <1> HIDE DEF v, w
  <1>6. v = w BY <1>3, <1>4, <1>5
  <1>7. QED BY <1>2, <1>6

LEMMA VisibleFields ==
  ASSUME NEW m, Plain(m)
  PROVE  LET v == Visible(m)
         IN  Plain(v) /\ Same(m, v) /\ v.insns = m.insns + m.idleInsns /\ v.idleInsns = 0
  <1> DEFINE k == m.insns + m.idleInsns
  <1> DEFINE slot == Boot.slot
  <1> DEFINE v == [m EXCEPT !.insns = k, !.idleInsns = 0, !.dirty = FALSE, !.slot = slot]
  <1>1. Visible(m) = v BY DEF Visible
  <1>2. k \in Nat BY DEF Plain
  <1> HIDE DEF slot
  <1>3. v.insns = k /\ v.idleInsns = 0 /\ DOMAIN v = Fields BY FieldsAre DEF Plain
  <1>4. SameBoard(m, v) /\ SameClock(m, v) BY FieldsAre DEF Plain, SameBoard, SameClock
  <1>5. SameCpu(m, v)
    <2>1. /\ m.pc = v.pc /\ m.x = v.x /\ m.csr = v.csr /\ m.meip = v.meip /\ m.exit = v.exit
      BY FieldsAre DEF Plain
    <2> HIDE DEF v
    <2>2. m.insns + m.idleInsns = v.insns + v.idleInsns BY <1>2, <1>3
    <2>3. QED BY <2>1, <2>2 DEF SameCpu
  <1> HIDE DEF v
  <1>6. QED BY <1>1, <1>2, <1>3, <1>4, <1>5 DEF Plain, Same

LEMMA VisibleSame ==
  ASSUME NEW a, NEW b, Plain(a), Plain(b), Visible(a) = Visible(b) PROVE Same(a, b)
  <1> DEFINE v == Visible(a)
  <1> DEFINE w == Visible(b)
  <1>1. v = w /\ Same(a, v) /\ Same(b, w) /\ Plain(v) BY VisibleFields
  <1> HIDE DEF v, w
  <1>2. QED BY <1>1 DEF Plain, Same, SameCpu, SameBoard, SameClock

-----------------------------------------------------------------------------
(* Nothing but the skip looks at what the two may differ in.                *)
LEMMA SyncSame ==
  ASSUME NEW a, NEW b, Plain(a), Plain(b), Same(a, b)
  PROVE  Plain(Sync(a)) /\ Plain(Sync(b)) /\ Same(Sync(a), Sync(b))
  BY FieldsAre DEF Plain, Same, SameCpu, SameBoard, SameClock, Sync

LEMMA DmaTickSame ==
  ASSUME NEW a, NEW b, Plain(a), Plain(b), Same(a, b)
  PROVE  Plain(DmaTick(a)) /\ Plain(DmaTick(b)) /\ Same(DmaTick(a), DmaTick(b))
  BY FieldsAre DEF Plain, Same, SameCpu, SameBoard, SameClock, DmaTick

LEMMA TickDueSame ==
  ASSUME NEW a, NEW b, Plain(a), Plain(b), Same(a, b)
  PROVE  Plain(TickDue(a)) /\ Plain(TickDue(b)) /\ Same(TickDue(a), TickDue(b))
  <1> DEFINE c == [a EXCEPT !.dirty = TRUE]
  <1> DEFINE d == [b EXCEPT !.dirty = TRUE]
  <1>1. Plain(c) /\ Plain(d) /\ Same(c, d)
    BY FieldsAre DEF Plain, Same, SameCpu, SameBoard, SameClock
  <1>2. TickDue(a) = DmaTick(Sync(c)) /\ TickDue(b) = DmaTick(Sync(d)) BY DEF TickDue
  <1> HIDE DEF c, d
  <1>3. Plain(Sync(c)) /\ Plain(Sync(d)) /\ Same(Sync(c), Sync(d)) BY <1>1, SyncSame
  <1>4. QED BY <1>2, <1>3, DmaTickSame

LEMMA TimerEnableSame ==
  ASSUME NEW a, NEW b, Plain(a), Plain(b), Same(a, b), NEW on
  PROVE  /\ Plain(TimerEnable(a, on)) /\ Plain(TimerEnable(b, on))
         /\ Same(TimerEnable(a, on), TimerEnable(b, on))
  BY FieldsAre DEF Plain, Same, SameCpu, SameBoard, SameClock, TimerEnable, Count

LEMMA TouchSame ==
  ASSUME NEW a, NEW b, Plain(a), Plain(b), Same(a, b)
  PROVE  Plain(Touch(a)) /\ Plain(Touch(b)) /\ Same(Touch(a), Touch(b))
  BY FieldsAre DEF Plain, Same, SameCpu, SameBoard, SameClock, Touch

LEMMA IoAccessSame ==
  ASSUME NEW a, NEW b, Plain(a), Plain(b), Same(a, b),
         NEW op \in {"count", "window", "clear", "timerOn", "timerOff", "dma"}
  PROVE  /\ Plain(IoAccess(a, op)) /\ Plain(IoAccess(b, op))
         /\ Same(IoAccess(a, op), IoAccess(b, op))
  <1> DEFINE t == Touch(a)
  <1> DEFINE u == Touch(b)
  <1> DEFINE s == Sync(t)
  <1> DEFINE r == Sync(u)
  <1>1. Plain(t) /\ Plain(u) /\ Same(t, u) BY TouchSame
  <1>2. Plain(s) /\ Plain(r) /\ Same(s, r) BY <1>1, SyncSame
  <1>3. a.now = b.now BY DEF Same, SameClock
  <1>4. CASE op = "count"
    <2>1. IoAccess(a, op) = [s EXCEPT !.x = Count(s) % Values] BY <1>4 DEF IoAccess
    <2>2. IoAccess(b, op) = [r EXCEPT !.x = Count(r) % Values] BY <1>4 DEF IoAccess
    <2> HIDE DEF s, r
    <2>3. Count(s) = Count(r) BY <1>2 DEF Count, Same, SameBoard, SameClock
    <2>4. QED BY <1>2, <2>1, <2>2, <2>3, FieldsAre DEF Plain, Same, SameCpu, SameBoard, SameClock
  <1>5. CASE op = "window"
    <2>1. IoAccess(a, op) = [t EXCEPT !.stall = @ + StallClocks] BY <1>5 DEF IoAccess
    <2>2. IoAccess(b, op) = [u EXCEPT !.stall = @ + StallClocks] BY <1>5 DEF IoAccess
    <2> HIDE DEF t, u
    <2>3. QED BY <1>1, <2>1, <2>2, FieldsAre DEF Plain, Same, SameCpu, SameBoard, SameClock
  <1>6. CASE op = "clear"
    <2>1. IoAccess(a, op) = [s EXCEPT !.irq.flags = {}] BY <1>6 DEF IoAccess
    <2>2. IoAccess(b, op) = [r EXCEPT !.irq.flags = {}] BY <1>6 DEF IoAccess
    <2> HIDE DEF s, r
    <2>3. QED BY <1>2, <2>1, <2>2, FieldsAre DEF Plain, Same, SameCpu, SameBoard, SameClock
  <1>7. CASE op \in {"timerOn", "timerOff"}
    <2>1. PICK on \in BOOLEAN : IoAccess(a, op) = TimerEnable(s, on) /\ IoAccess(b, op) = TimerEnable(r, on)
      BY <1>7 DEF IoAccess
    <2> HIDE DEF s, r
    <2>2. QED BY <1>2, <2>1, TimerEnableSame
  <1>8. CASE op = "dma"
    <2>1. IoAccess(a, op) = [t EXCEPT !.dma = a.now + DmaDelay] BY <1>8 DEF IoAccess
    <2>2. IoAccess(b, op) = [u EXCEPT !.dma = b.now + DmaDelay] BY <1>8 DEF IoAccess
    <2> HIDE DEF t, u
    <2>3. QED BY <1>1, <1>3, <2>1, <2>2, FieldsAre DEF Plain, Same, SameCpu, SameBoard, SameClock
  <1>9. QED BY <1>4, <1>5, <1>6, <1>7, <1>8

LEMMA ExecuteSame ==
  ASSUME NEW a, NEW b, Plain(a), Plain(b), Same(a, b), NEW insn \in Insn
  PROVE  /\ Plain(Execute(a, insn)) /\ Plain(Execute(b, insn))
         /\ Same(Execute(a, insn), Execute(b, insn))
  <1> DEFINE n == [a EXCEPT !.pc = @ + 1]
  <1> DEFINE p == [b EXCEPT !.pc = @ + 1]
  <1>1. Plain(n) /\ Plain(p) /\ Same(n, p)
    BY FieldsAre DEF Plain, Same, SameCpu, SameBoard, SameClock
  <1>2. a.x = b.x /\ a.ram = b.ram BY DEF Same, SameCpu, SameBoard
  <1>3. insn.op \in Op BY DEF Insn
  <1>4. CASE insn.op \in {"count", "window", "clear", "timerOn", "timerOff", "dma"}
    <2>1. Execute(a, insn) = IoAccess(n, insn.op) /\ Execute(b, insn) = IoAccess(p, insn.op)
      BY <1>4 DEF Execute
    <2> HIDE DEF n, p
    <2>2. QED BY <1>1, <1>4, <2>1, IoAccessSame
  <1>5. CASE insn.op = "nop"
    BY <1>1, <1>5 DEF Execute
  <1>6. CASE insn.op = "load"
    BY ZenonT(40), <1>6, FieldsAre DEF Execute, Plain, Same, SameCpu, SameBoard, SameClock
  <1>7. CASE insn.op = "store"
    BY ZenonT(40), <1>7, FieldsAre DEF Execute, Store, Plain, Same, SameCpu, SameBoard, SameClock
  <1>8. CASE insn.op = "inc"
    <2> DEFINE x == (a.x + 1) % Values
    <2>1. Execute(a, insn) = [n EXCEPT !.x = (@ + 1) % Values] /\ n.x = a.x BY <1>8, FieldsAre DEF Execute, Plain
    <2>2. Execute(b, insn) = [p EXCEPT !.x = (@ + 1) % Values] /\ p.x = b.x BY <1>8, FieldsAre DEF Execute, Plain
    <2>3. Execute(a, insn) = [n EXCEPT !.x = x] /\ Execute(b, insn) = [p EXCEPT !.x = x]
      BY <1>2, <2>1, <2>2
    <2> HIDE DEF n, p, x
    <2>4. QED BY <1>1, <2>3, FieldsAre DEF Plain, Same, SameCpu, SameBoard, SameClock
  <1>9. CASE insn.op = "beqz"
    <2> DEFINE pc == IF a.x = 0 THEN insn.to ELSE a.pc + 1
    <2>1. Execute(a, insn) = [n EXCEPT !.pc = pc]
      BY <1>9, FieldsAre DEF Execute, Plain
    <2>2. Execute(b, insn) = [p EXCEPT !.pc = pc]
      BY <1>2, <1>9, FieldsAre DEF Execute, Plain, Same, SameCpu
    <2> HIDE DEF n, p, pc
    <2>3. QED BY <1>1, <2>1, <2>2, FieldsAre DEF Plain, Same, SameCpu, SameBoard, SameClock
  <1>10. CASE insn.op = "j"
    BY ZenonT(40), <1>10, FieldsAre DEF Execute, Plain, Same, SameCpu, SameBoard, SameClock
  <1>11. CASE insn.op = "mret"
    <2> DEFINE csr == [[a.csr EXCEPT !.mie = a.csr.mpie] EXCEPT !.mpie = TRUE]
    <2> DEFINE pc == a.csr.mepc
    <2>1. a.csr = b.csr BY DEF Same, SameCpu
    <2>2. Execute(a, insn) = [a EXCEPT !.csr = csr, !.pc = pc]
      BY <1>11, FieldsAre DEF Execute, Mret, Plain
    <2>3. Execute(b, insn) = [b EXCEPT !.csr = csr, !.pc = pc]
      BY <1>11, <2>1, FieldsAre DEF Execute, Mret, Plain
    <2> HIDE DEF csr, pc
    <2>4. QED BY <2>2, <2>3, FieldsAre DEF Plain, Same, SameCpu, SameBoard, SameClock
  <1>12. CASE insn.op \in {"di", "ei"}
    <2>1. PICK mie \in BOOLEAN : /\ Execute(a, insn) = [n EXCEPT !.csr.mie = mie]
                                 /\ Execute(b, insn) = [p EXCEPT !.csr.mie = mie]
      BY <1>12 DEF Execute
    <2> DEFINE csr == [a.csr EXCEPT !.mie = mie]
    <2>2. n.csr = a.csr /\ p.csr = a.csr BY FieldsAre DEF Plain, Same, SameCpu
    <2>3. Execute(a, insn) = [n EXCEPT !.csr = csr] /\ Execute(b, insn) = [p EXCEPT !.csr = csr]
      BY <2>1, <2>2
    <2> HIDE DEF n, p, csr
    <2>4. QED BY <1>1, <2>3, FieldsAre DEF Plain, Same, SameCpu, SameBoard, SameClock
  <1>13. QED BY <1>3, <1>4, <1>5, <1>6, <1>7, <1>8, <1>9, <1>10, <1>11, <1>12 DEF Op

LEMMA CpuStepSame ==
  ASSUME NEW a, NEW b, Plain(a), Plain(b), Same(a, b), code \in Firmware, a.pc \in DOMAIN code
  PROVE  /\ Plain(CpuStep(a, code)) /\ Plain(CpuStep(b, code))
         /\ Same(CpuStep(a, code), CpuStep(b, code))
  <1>1. a.pc = b.pc /\ a.meip = b.meip /\ a.csr = b.csr BY DEF Same, SameCpu
  <1>2. CASE a.meip /\ a.csr.mie
    <2>1. Plain(Trap(a)) /\ Plain(Trap(b)) /\ Same(Trap(a), Trap(b))
      BY FieldsAre DEF Trap, Plain, Same, SameCpu, SameBoard, SameClock
    <2>2. QED BY <1>1, <1>2, <2>1 DEF CpuStep
  <1>3. CASE ~(a.meip /\ a.csr.mie)
    <2> DEFINE n == [a EXCEPT !.insns = @ + 1, !.exit = "stepped"]
    <2> DEFINE p == [b EXCEPT !.insns = @ + 1, !.exit = "stepped"]
    <2>1. Plain(n) /\ Plain(p) /\ Same(n, p)
      BY FieldsAre DEF Plain, Same, SameCpu, SameBoard, SameClock
    <2>2. CpuStep(a, code) = Execute(n, code[a.pc]) /\ CpuStep(b, code) = Execute(p, code[a.pc])
      BY <1>1, <1>3 DEF CpuStep
    <2> HIDE DEF n, p
    <2>3. code[a.pc] \in Insn BY CodeTyped
    <2>4. QED BY <2>1, <2>2, <2>3, ExecuteSame
  <1>4. QED BY <1>2, <1>3

LEMMA PreStepSame ==
  ASSUME NEW a, NEW b, Plain(a), Plain(b), Same(a, b)
  PROVE  Plain(PreStep(a)) /\ Plain(PreStep(b)) /\ Same(PreStep(a), PreStep(b))
  <1> DEFINE Ticked(m) == IF ~Due(m.deadline, m.now) THEN m
                          ELSE LET t == TickDue(m) IN [t EXCEPT !.deadline = NextDeadline(t)]
  <1> DEFINE n == Ticked(a)
  <1> DEFINE p == Ticked(b)
  <1>1. Plain(n) /\ Plain(p) /\ Same(n, p)
    <2>1. a.deadline = b.deadline /\ a.now = b.now BY DEF Same, SameClock
    <2>2. CASE ~Due(a.deadline, a.now) BY <2>1, <2>2
    <2>3. CASE Due(a.deadline, a.now)
      <3> DEFINE t == TickDue(a)
      <3> DEFINE u == TickDue(b)
      <3>1. Plain(t) /\ Plain(u) /\ Same(t, u) BY TickDueSame
      <3>2. n = [t EXCEPT !.deadline = NextDeadline(t)] /\ p = [u EXCEPT !.deadline = NextDeadline(u)]
        BY <2>1, <2>3
      <3> HIDE DEF t, u, n, p
      <3>3. NextDeadline(t) = NextDeadline(u) BY <3>1 DEF NextDeadline, Same, SameBoard
      <3>4. QED BY <3>1, <3>2, <3>3, FieldsAre DEF Plain, Same, SameCpu, SameBoard, SameClock
    <2>4. QED BY <2>2, <2>3
  <1>2. PreStep(a) = [n EXCEPT !.meip = Line(n.irq)] /\ PreStep(b) = [p EXCEPT !.meip = Line(p.irq)]
    BY DEF PreStep
  <1> HIDE DEF n, p
  <1>3. QED BY <1>1, <1>2, FieldsAre DEF Plain, Same, SameCpu, SameBoard, SameClock

LEMMA PostStepSame ==
  ASSUME NEW a, NEW b, Plain(a), Plain(b), Same(a, b)
  PROVE  Plain(PostStep(a)) /\ Plain(PostStep(b)) /\ Same(PostStep(a), PostStep(b))
  <1>1. NextDeadline(a) = NextDeadline(b) BY DEF NextDeadline, Same, SameBoard
  <1>2. QED BY <1>1, FieldsAre DEF PostStep, Plain, Same, SameCpu, SameBoard, SameClock

LEMMA LeftTyped ==
  ASSUME NEW m, Loop(m), NEW left \in Nat
  PROVE  Loop([m EXCEPT !.left = left])
  <1> DEFINE n == [m EXCEPT !.left = left]
  <1>1. m \in State /\ m.now \in Nat /\ m.slot.insns <= m.insns /\ InTime(m)
    BY DEF Loop, MachineType, Timed, State
  <1>2. n \in State BY <1>1 DEF State
  <1>3. /\ n.pc = m.pc /\ n.csr = m.csr /\ n.enabled = m.enabled /\ n.frozen = m.frozen /\ n.pulse = m.pulse
        /\ n.dma = m.dma /\ n.phase = m.phase /\ n.stall = m.stall /\ n.touched = m.touched
        /\ n.deadline = m.deadline /\ n.slot = m.slot /\ n.insns = m.insns /\ n.now = m.now
    BY <1>1 DEF State
  <1> HIDE DEF n
  <1>4. InTime(n) BY <1>1, <1>3 DEF InTime
  <1>5. n.slot.insns <= n.insns /\ m.now <= n.now BY <1>1, <1>3
  <1>6. Loop(n) BY <1>1, <1>2, <1>3, <1>4, <1>5, LoopFrame
  <1>7. QED BY <1>6 DEF n

(* One iteration of Machine::run, up to the idle skip.                      *)
Step(m) == PostStep(CpuStep(PreStep([m EXCEPT !.left = @ - 1]), code))

LEMMA StepSame ==
  ASSUME NEW a, NEW b, Loop(a), Plain(b), Same(a, b), a.left > 0, code \in Firmware
  PROVE  Plain(Step(a)) /\ Plain(Step(b)) /\ Same(Step(a), Step(b))
  <1> DEFINE left == a.left - 1
  <1> DEFINE n == [a EXCEPT !.left = left]
  <1> DEFINE p == [b EXCEPT !.left = left]
  <1>1. a \in State /\ a.left \in Nat /\ b.left = a.left
    BY DEF Loop, MachineType, State, Same, SameClock
  <1>2. left \in Nat BY <1>1
  <1>3. Step(a) = PostStep(CpuStep(PreStep(n), code)) /\ Step(b) = PostStep(CpuStep(PreStep(p), code))
    BY <1>1 DEF Step
  <1>4. Plain(a) BY <1>1, StatePlain
  <1> HIDE DEF left
  <1>5. Plain(n) /\ Plain(p) /\ Same(n, p)
    BY <1>4, FieldsAre DEF Plain, Same, SameCpu, SameBoard, SameClock
  <1>6. Loop(n) BY <1>2, LeftTyped
  <1> HIDE DEF n, p
  <1>7. Plain(PreStep(n)) /\ Plain(PreStep(p)) /\ Same(PreStep(n), PreStep(p)) BY <1>5, PreStepSame
  <1>8. PreStep(n).pc \in DOMAIN code BY <1>6, PreStepTyped DEF Typed
  <1>9. /\ Plain(CpuStep(PreStep(n), code)) /\ Plain(CpuStep(PreStep(p), code))
        /\ Same(CpuStep(PreStep(n), code), CpuStep(PreStep(p), code))
    BY <1>7, <1>8, CpuStepSame
  <1>10. QED BY <1>3, <1>9, PostStepSame

(* Machine::run with the idle skip off.                                     *)
LEMMA IterateSame ==
  ASSUME NEW a, NEW b, Loop(a), Plain(b), Same(a, b), a.left > 0, code \in Firmware
  PROVE  /\ Plain(Iterate(a, code, FALSE)) /\ Plain(Iterate(b, code, FALSE))
         /\ Same(Iterate(a, code, FALSE), Iterate(b, code, FALSE))
  <1> DEFINE s == Step(a)
  <1> DEFINE t == Step(b)
  <1>1. Plain(s) /\ Plain(t) /\ Same(s, t) BY StepSame
  <1>2. Iterate(a, code, FALSE) = IF s.exit = "interrupt" THEN [s EXCEPT !.irqs = @ + 1] ELSE s
    BY DEF Iterate, Step
  <1>3. Iterate(b, code, FALSE) = IF t.exit = "interrupt" THEN [t EXCEPT !.irqs = @ + 1] ELSE t
    BY DEF Iterate, Step
  <1> HIDE DEF s, t
  <1>4. s.exit = t.exit BY <1>1 DEF Same, SameCpu
  <1>5. CASE s.exit = "interrupt"
    <2> DEFINE irqs == s.irqs + 1
    <2>1. Iterate(a, code, FALSE) = [s EXCEPT !.irqs = irqs] /\ Iterate(b, code, FALSE) = [t EXCEPT !.irqs = irqs]
      BY <1>1, <1>2, <1>3, <1>4, <1>5 DEF Same, SameClock
    <2> HIDE DEF irqs
    <2> DEFINE n == [s EXCEPT !.irqs = irqs]
    <2> DEFINE p == [t EXCEPT !.irqs = irqs]
    <2>2. Plain(n) /\ Plain(p) /\ Same(n, p)
      BY <1>1, FieldsAre DEF Plain, Same, SameCpu, SameBoard, SameClock
    <2>3. Iterate(a, code, FALSE) = n /\ Iterate(b, code, FALSE) = p BY <2>1
    <2> HIDE DEF n, p
    <2>4. QED BY <2>2, <2>3
  <1>6. CASE s.exit # "interrupt" BY <1>1, <1>2, <1>3, <1>4, <1>6
  <1>7. QED BY <1>5, <1>6

(* What the host does between two slices.                                   *)
LEMMA GivenSame ==
  ASSUME NEW a, NEW b, Plain(a), Plain(b), Same(a, b), NEW input \in HostInput
  PROVE  Plain(Given(a, input)) /\ Plain(Given(b, input)) /\ Same(Given(a, input), Given(b, input))
  <1>1. CASE input = "nothing" BY <1>1 DEF Given
  <1>2. CASE input = "ram"
    BY <1>2, FieldsAre DEF Given, Plain, Same, SameCpu, SameBoard, SameClock
  <1>3. CASE input \in {"up", "down"}
    <2>1. PICK on \in BOOLEAN : /\ Given(a, input) = [a EXCEPT !.irq = SetLevel(@, NetSource, on)]
                                /\ Given(b, input) = [b EXCEPT !.irq = SetLevel(@, NetSource, on)]
      BY <1>3 DEF Given
    <2> DEFINE irq == SetLevel(a.irq, NetSource, on)
    <2>2. a.irq = b.irq BY DEF Same, SameBoard
    <2>3. Given(a, input) = [a EXCEPT !.irq = irq] /\ Given(b, input) = [b EXCEPT !.irq = irq]
      BY <2>1, <2>2
    <2> HIDE DEF irq
    <2>4. QED BY <2>3, FieldsAre DEF Plain, Same, SameCpu, SameBoard, SameClock
  <1>4. CASE input = "event"
    <2> DEFINE dma == a.now + DmaDelay
    <2> DEFINE n == [a EXCEPT !.dma = dma]
    <2> DEFINE p == [b EXCEPT !.dma = dma]
    <2>1. a.now = b.now BY DEF Same, SameClock
    <2>2. /\ Given(a, input) = [n EXCEPT !.deadline = NextDeadline(n)]
          /\ Given(b, input) = [p EXCEPT !.deadline = NextDeadline(p)]
      BY <1>4, <2>1 DEF Given
    <2> HIDE DEF dma
    <2>3. Plain(n) /\ Plain(p) /\ Same(n, p)
      BY FieldsAre DEF Plain, Same, SameCpu, SameBoard, SameClock
    <2> HIDE DEF n, p
    <2>4. NextDeadline(n) = NextDeadline(p) BY <2>3 DEF NextDeadline, Same, SameBoard
    <2>5. QED BY <2>2, <2>3, <2>4, FieldsAre DEF Plain, Same, SameCpu, SameBoard, SameClock
  <1>5. QED BY <1>1, <1>2, <1>3, <1>4 DEF HostInput

LEMMA BeginRunSame ==
  ASSUME NEW a, NEW b, Plain(a), Plain(b), Same(a, b), NEW budget
  PROVE  /\ Plain(BeginRun(a, budget)) /\ Plain(BeginRun(b, budget))
         /\ Same(BeginRun(a, budget), BeginRun(b, budget))
  BY FieldsAre DEF BeginRun, Plain, Same, SameCpu, SameBoard, SameClock

-----------------------------------------------------------------------------
(* What a watched loop may do: instructions that neither write memory nor    *)
(* access a register, with no interrupt to take.                            *)
QuietOp == {"nop", "load", "inc", "beqz", "j", "mret", "di", "ei"}

Local == [pc : Nat, x : Word, csr : Csr]
At(m) == [pc |-> m.pc, x |-> m.x, csr |-> m.csr]

(* The state of the CPU after a quiet instruction, with ram in memory.      *)
After(prog, l, ram) ==
    LET insn == prog[l.pc]
    IN  [ pc  |-> IF insn.op = "j" \/ (insn.op = "beqz" /\ l.x = 0) THEN insn.to
                  ELSE IF insn.op = "mret" THEN l.csr.mepc ELSE l.pc + 1,
          x   |-> IF insn.op = "load" THEN ram
                  ELSE IF insn.op = "inc" THEN (l.x + 1) % Values ELSE l.x,
          csr |-> IF insn.op = "mret" THEN [mie |-> l.csr.mpie, mpie |-> TRUE, mepc |-> l.csr.mepc]
                  ELSE IF insn.op = "di" THEN [l.csr EXCEPT !.mie = FALSE]
                  ELSE IF insn.op = "ei" THEN [l.csr EXCEPT !.mie = TRUE] ELSE l.csr ]

Calm(prog, l, irq) == prog[l.pc].op \in QuietOp /\ ~(Line(irq) /\ l.csr.mie)

LEMMA ExecuteQuiet ==
  ASSUME NEW m, m \in State, code[m.pc].op \in QuietOp
  PROVE  LET l == After(code, At(m), m.ram)
         IN  Execute(m, code[m.pc]) = [m EXCEPT !.pc = l.pc, !.x = l.x, !.csr = l.csr]
  <1> DEFINE insn == code[m.pc]
  <1> DEFINE r == Execute(m, insn)
  <1> DEFINE Put(pc, x, csr) == [m EXCEPT !.pc = pc, !.x = x, !.csr = csr]
  <1> DEFINE l == After(code, At(m), m.ram)
  <1>1. /\ l.pc = IF insn.op = "j" \/ (insn.op = "beqz" /\ m.x = 0) THEN insn.to
                  ELSE IF insn.op = "mret" THEN m.csr.mepc ELSE m.pc + 1
        /\ l.x = IF insn.op = "load" THEN m.ram ELSE IF insn.op = "inc" THEN (m.x + 1) % Values ELSE m.x
        /\ l.csr = IF insn.op = "mret" THEN [mie |-> m.csr.mpie, mpie |-> TRUE, mepc |-> m.csr.mepc]
                   ELSE IF insn.op = "di" THEN [m.csr EXCEPT !.mie = FALSE]
                   ELSE IF insn.op = "ei" THEN [m.csr EXCEPT !.mie = TRUE] ELSE m.csr
    BY DEF After, At
  <1>2. m.csr \in Csr /\ m.csr.mie \in BOOLEAN /\ m.csr.mpie \in BOOLEAN /\ m.csr.mepc \in Nat BY DEF State, Csr
  <1> HIDE DEF insn, l, r, Put
  <1>3. SUFFICES r = Put(l.pc, l.x, l.csr) BY DEF r, l, Put, insn
  <1>4. CASE insn.op = "nop"
    BY <1>1, <1>4 DEF Execute, State, Put, r, insn
  <1>5. CASE insn.op = "load"
    BY <1>1, <1>5 DEF Execute, State, Put, r, insn
  <1>6. CASE insn.op = "inc"
    <2> DEFINE x == (m.x + 1) % Values
    <2>1. r = [[m EXCEPT !.pc = @ + 1] EXCEPT !.x = x] BY <1>6 DEF Execute, State, r, insn
    <2>2. l.pc = m.pc + 1 /\ l.x = x /\ l.csr = m.csr BY <1>1, <1>6
    <2> HIDE DEF x
    <2>3. QED BY <2>1, <2>2 DEF State, Put
  <1>7. CASE insn.op = "beqz"
    BY ZenonT(40), <1>1, <1>7 DEF Execute, State, Put, r, insn
  <1>8. CASE insn.op = "j"
    BY <1>1, <1>8 DEF Execute, State, Put, r, insn
  <1>9. CASE insn.op = "mret"
    <2> DEFINE csr == [mie |-> m.csr.mpie, mpie |-> TRUE, mepc |-> m.csr.mepc]
    <2>1. [[m.csr EXCEPT !.mie = m.csr.mpie] EXCEPT !.mpie = TRUE] = csr
      <3>1. [[m EXCEPT !.csr.mie = m.csr.mpie] EXCEPT !.csr.mpie = TRUE].csr = csr BY <1>2 DEF State, Csr
      <3>2. QED BY <3>1 DEF State
    <2>2. r = Mret(m) BY <1>9 DEF Execute, r, insn
    <2>3. l.pc = m.csr.mepc /\ l.x = m.x /\ l.csr = csr BY <1>1, <1>9
    <2>4. Mret(m) = [m EXCEPT !.csr = csr, !.pc = m.csr.mepc] BY <2>1 DEF Mret, State
    <2> HIDE DEF csr
    <2>5. QED BY ZenonT(40), <2>2, <2>3, <2>4 DEF State, Put
  <1>10. CASE insn.op \in {"di", "ei"}
    <2>1. PICK mie \in BOOLEAN : /\ r = [[m EXCEPT !.pc = @ + 1] EXCEPT !.csr.mie = mie]
                                 /\ l.csr = [m.csr EXCEPT !.mie = mie]
      BY <1>1, <1>10 DEF Execute, r, insn
    <2> DEFINE csr == [m.csr EXCEPT !.mie = mie]
    <2>2. l.pc = m.pc + 1 /\ l.x = m.x /\ l.csr = csr BY <1>1, <1>10, <2>1
    <2>3. r = [[m EXCEPT !.pc = @ + 1] EXCEPT !.csr = csr] BY <2>1 DEF State
    <2> HIDE DEF csr
    <2>4. QED BY <2>2, <2>3 DEF State, Put
  <1>11. insn.op \in QuietOp BY DEF insn
  <1>12. QED BY <1>4, <1>5, <1>6, <1>7, <1>8, <1>9, <1>10, <1>11 DEF QuietOp

(* Whatever is no quiet instruction marks the loop as dirty, and nothing     *)
(* but the idle skip clears the mark.                                       *)
LEMMA SyncDirty == ASSUME NEW m, DOMAIN m = Fields PROVE Sync(m).dirty = m.dirty /\ DOMAIN Sync(m) = Fields
  BY FieldsAre DEF Sync

LEMMA DmaTickDirty == ASSUME NEW m, DOMAIN m = Fields PROVE DmaTick(m).dirty = m.dirty
  BY FieldsAre DEF DmaTick

LEMMA TimerEnableDirty ==
  ASSUME NEW m, DOMAIN m = Fields, NEW on PROVE TimerEnable(m, on).dirty = m.dirty
  BY FieldsAre DEF TimerEnable

LEMMA TickDueDirty == ASSUME NEW m, DOMAIN m = Fields PROVE TickDue(m).dirty = TRUE
  <1> DEFINE d == [m EXCEPT !.dirty = TRUE]
  <1>1. DOMAIN d = Fields /\ d.dirty = TRUE BY FieldsAre
  <1>2. TickDue(m) = DmaTick(Sync(d)) BY DEF TickDue
  <1> HIDE DEF d
  <1>3. QED BY <1>1, <1>2, SyncDirty, DmaTickDirty

LEMMA IoAccessDirty ==
  ASSUME NEW m, DOMAIN m = Fields,
         NEW op \in {"count", "window", "clear", "timerOn", "timerOff", "dma"}
  PROVE  IoAccess(m, op).dirty = TRUE
  <1> DEFINE t == Touch(m)
  <1> DEFINE s == Sync(t)
  <1>1. DOMAIN t = Fields /\ t.dirty = TRUE BY FieldsAre DEF Touch
  <1>2. DOMAIN s = Fields /\ s.dirty = TRUE BY <1>1, SyncDirty
  <1>3. CASE op = "count"
    <2>1. IoAccess(m, op) = [s EXCEPT !.x = Count(s) % Values] BY <1>3 DEF IoAccess
    <2> HIDE DEF s
    <2>2. QED BY <1>2, <2>1, FieldsAre
  <1>4. CASE op = "window"
    <2>1. IoAccess(m, op) = [t EXCEPT !.stall = @ + StallClocks] BY <1>4 DEF IoAccess
    <2> HIDE DEF t
    <2>2. QED BY <1>1, <2>1, FieldsAre
  <1>5. CASE op = "clear"
    <2>1. IoAccess(m, op) = [s EXCEPT !.irq.flags = {}] BY <1>5 DEF IoAccess
    <2> HIDE DEF s
    <2>2. QED BY <1>2, <2>1, FieldsAre
  <1>6. CASE op \in {"timerOn", "timerOff"}
    <2>1. PICK on \in BOOLEAN : IoAccess(m, op) = TimerEnable(s, on) BY <1>6 DEF IoAccess
    <2> HIDE DEF s
    <2>2. QED BY <1>2, <2>1, TimerEnableDirty
  <1>7. CASE op = "dma"
    <2>1. IoAccess(m, op) = [t EXCEPT !.dma = m.now + DmaDelay] BY <1>7 DEF IoAccess
    <2> HIDE DEF t
    <2>2. QED BY <1>1, <2>1, FieldsAre
  <1>8. QED BY <1>3, <1>4, <1>5, <1>6, <1>7

LEMMA ExecuteDirty ==
  ASSUME NEW m, DOMAIN m = Fields, NEW insn \in Insn, insn.op \notin QuietOp
  PROVE  Execute(m, insn).dirty = TRUE
  <1> DEFINE n == [m EXCEPT !.pc = @ + 1]
  <1>1. DOMAIN n = Fields BY FieldsAre
  <1>2. insn.op \in Op BY DEF Insn
  <1>3. CASE insn.op = "store"
    BY <1>3, FieldsAre DEF Execute, Store
  <1>4. CASE insn.op \in {"count", "window", "clear", "timerOn", "timerOff", "dma"}
    <2>1. Execute(m, insn) = IoAccess(n, insn.op) BY <1>4 DEF Execute
    <2> HIDE DEF n
    <2>2. QED BY <1>1, <1>4, <2>1, IoAccessDirty
  <1>5. QED BY <1>2, <1>3, <1>4 DEF Op, QuietOp

(* What a quiet step does to a machine: the CPU moves, the clock advances by *)
(* one instruction, and nothing else happens.                               *)
Moves(m, v) ==
    /\ At(v) = After(code, At(m), m.ram)
    /\ v.now = m.now + ClocksPerInsn /\ v.left = m.left - 1
    /\ v.insns = m.insns + 1 /\ v.idleInsns = m.idleInsns
    /\ v.exit = "stepped" /\ v.meip = Line(m.irq)
    /\ SameBoard(m, v)
    /\ v.deadline = m.deadline /\ v.touched = m.touched /\ v.stall = m.stall /\ v.irqs = m.irqs
    /\ v.dirty = m.dirty /\ v.slot = m.slot

LEMMA PostStepFields ==
  ASSUME NEW m, m \in State
  PROVE  LET q == PostStep(m)
         IN  /\ q.pc = m.pc /\ q.x = m.x /\ q.csr = m.csr /\ q.exit = m.exit /\ q.meip = m.meip
             /\ q.insns = m.insns /\ q.idleInsns = m.idleInsns /\ q.left = m.left
             /\ SameBoard(m, q) /\ q.irqs = m.irqs /\ q.dirty = m.dirty /\ q.slot = m.slot
             /\ q.now = m.now + ClocksPerInsn + m.stall /\ q.stall = 0 /\ q.touched = FALSE
             /\ ~m.touched => q.deadline = m.deadline
  BY DEF PostStep, State, SameBoard

LEMMA QuietStep ==
  ASSUME NEW m, Loop(m), m.left > 0, code \in Firmware, Calm(code, At(m), m.irq), ~Due(m.deadline, m.now)
  PROVE  Moves(m, Step(m)) /\ Iterate(m, code, FALSE) = Step(m)
  <1> DEFINE left == m.left - 1
  <1> DEFINE line == Line(m.irq)
  <1> DEFINE k == m.insns + 1
  <1> DEFINE p == [m EXCEPT !.left = left, !.meip = line]
  <1> DEFINE c == [p EXCEPT !.insns = k, !.exit = "stepped"]
  <1> DEFINE l == After(code, At(m), m.ram)
  <1> DEFINE r == [c EXCEPT !.pc = l.pc, !.x = l.x, !.csr = l.csr]
  <1>1. m \in State /\ m.touched = FALSE /\ m.stall = 0 /\ m.left \in Nat /\ m.insns \in Nat /\ m.pc \in DOMAIN code
        /\ m.irq \in Irq /\ m.now \in Nat
    BY DEF Loop, MachineType, State
  <1>2. left \in Nat /\ k \in Nat /\ line \in BOOLEAN
    <2>1. m.irq.global \in BOOLEAN BY <1>1 DEF Irq
    <2>2. QED BY <1>1, <2>1 DEF Line
  <1>3. PreStep([m EXCEPT !.left = @ - 1]) = p
    <2> DEFINE n == [m EXCEPT !.left = left]
    <2>1. n.deadline = m.deadline /\ n.now = m.now /\ n.irq = m.irq BY <1>1 DEF State
    <2>2. n = [m EXCEPT !.left = @ - 1] BY <1>1
    <2>3. p = [n EXCEPT !.meip = line] OBVIOUS
    <2> HIDE DEF n, p
    <2>4. PreStep(n) = [n EXCEPT !.meip = Line(n.irq)] BY <2>1 DEF PreStep
    <2>5. QED BY <2>1, <2>2, <2>3, <2>4
  <1> HIDE DEF left, line, k
  <1>4. p \in State BY <1>1, <1>2 DEF State
  <1>5. c \in State BY <1>1, <1>2 DEF State
  <1>6. /\ c.left = left /\ c.meip = line /\ c.insns = k /\ c.exit = "stepped" /\ c.idleInsns = m.idleInsns
        /\ SameBoard(m, c) /\ c.deadline = m.deadline /\ c.touched = FALSE /\ c.stall = 0
        /\ c.irqs = m.irqs /\ c.now = m.now /\ c.dirty = m.dirty /\ c.slot = m.slot
        /\ c.pc = m.pc /\ c.x = m.x /\ c.csr = m.csr
    BY <1>1 DEF State, SameBoard
  <1>7. At(c) = At(m) /\ c.ram = m.ram BY <1>6 DEF At, SameBoard
  <1>8. p.meip = line /\ p.csr = m.csr /\ p.pc = m.pc /\ c = [p EXCEPT !.insns = @ + 1, !.exit = "stepped"]
    BY <1>1 DEF State, k
  <1>9. code[m.pc].op \in QuietOp /\ ~(line /\ m.csr.mie) BY DEF Calm, At, line
  <1> HIDE DEF p, c
  <1>10. CpuStep(p, code) = Execute(c, code[c.pc]) BY <1>6, <1>8, <1>9 DEF CpuStep
  <1>11. CpuStep(p, code) = r BY <1>5, <1>6, <1>7, <1>9, <1>10, ExecuteQuiet
  <1>12. Step(m) = PostStep(r) BY <1>3, <1>11 DEF Step
  <1> HIDE DEF r
  <1>13. r \in State
    <2>1. r = CpuStep(p, code) BY <1>11
    <2>2. Typed(p) /\ Ahead(p) /\ p.stall = 0
      <3> DEFINE n == [m EXCEPT !.left = left]
      <3>1. Loop(n) BY <1>2, LeftTyped
      <3>2. n = [m EXCEPT !.left = @ - 1] BY <1>1 DEF left
      <3> HIDE DEF n
      <3>3. PreStep(n) = p BY <1>3, <3>2
      <3>4. QED BY <3>1, <3>3, PreStepTyped
    <2>3. Typed(CpuStep(p, code)) BY <2>2, CpuStepTyped DEF Result
    <2>4. QED BY <2>1, <2>3 DEF Typed
  <1>14. /\ r.pc = l.pc /\ r.x = l.x /\ r.csr = l.csr
         /\ r.left = left /\ r.meip = line /\ r.insns = k /\ r.exit = "stepped" /\ r.idleInsns = m.idleInsns
         /\ SameBoard(m, r) /\ r.deadline = m.deadline /\ r.touched = FALSE /\ r.stall = 0
         /\ r.irqs = m.irqs /\ r.now = m.now /\ r.dirty = m.dirty /\ r.slot = m.slot
    <2> HIDE DEF l
    <2>1. r = [c EXCEPT !.pc = l.pc, !.x = l.x, !.csr = l.csr] BY DEF r
    <2>2. QED BY <1>5, <1>6, <2>1 DEF State, SameBoard
  <1> DEFINE q == PostStep(r)
  <1>15. /\ q.pc = l.pc /\ q.x = l.x /\ q.csr = l.csr /\ q.exit = "stepped" /\ q.meip = line
         /\ q.insns = k /\ q.idleInsns = m.idleInsns /\ q.left = left
         /\ SameBoard(m, q) /\ q.irqs = m.irqs /\ q.dirty = m.dirty /\ q.slot = m.slot
         /\ q.now = m.now + ClocksPerInsn /\ q.stall = m.stall /\ q.touched = m.touched
         /\ q.deadline = m.deadline
    <2>1. SameBoard(r, q) /\ q.now = r.now + ClocksPerInsn + r.stall BY <1>13, PostStepFields
    <2>2. SameBoard(m, q) BY <1>14, <2>1 DEF SameBoard
    <2>3. q.now = m.now + ClocksPerInsn BY <1>1, <1>14, <2>1, MachineAssumption
    <2> HIDE DEF q, l
    <2>4. q = PostStep(r) BY DEF q
    <2>5. QED BY <1>1, <1>13, <1>14, <2>2, <2>3, <2>4, PostStepFields
  <1>16. At(q) = l
    <2>1. l = [pc |-> l.pc, x |-> l.x, csr |-> l.csr] BY DEF After
    <2> HIDE DEF q, l
    <2>2. QED BY <1>15, <2>1 DEF At
  <1> HIDE DEF q
  <1>17. Moves(m, q) BY <1>15, <1>16 DEF Moves, left, line, k
  <1>18. Step(m) = q BY <1>12 DEF q
  <1>19. Iterate(m, code, FALSE) = q BY <1>15, <1>18 DEF Iterate, Step
  <1>20. QED BY <1>17, <1>18, <1>19

(* A step that leaves the loop clean was a quiet one.                       *)
LEMMA CleanStep ==
  ASSUME NEW m, Loop(m), m.left > 0, code \in Firmware, Step(m).exit # "interrupt", Step(m).dirty = FALSE
  PROVE  Calm(code, At(m), m.irq) /\ ~Due(m.deadline, m.now)
  <1> DEFINE left == m.left - 1
  <1> DEFINE n == [m EXCEPT !.left = left]
  <1> DEFINE p == PreStep(n)
  <1> DEFINE c == [p EXCEPT !.insns = @ + 1, !.exit = "stepped"]
  <1> DEFINE r == CpuStep(p, code)
  <1>1. m \in State /\ m.left \in Nat BY DEF Loop, MachineType, State
  <1>2. left \in Nat BY <1>1
  <1>3. Step(m) = PostStep(r) BY DEF Step
  <1> HIDE DEF left
  <1>4. Loop(n) BY <1>2, LeftTyped
  <1>5. /\ n.deadline = m.deadline /\ n.now = m.now /\ n.pc = m.pc /\ n.csr = m.csr /\ n.irq = m.irq
        /\ DOMAIN n = Fields
    BY <1>1, FieldsAre DEF State
  <1> HIDE DEF n
  <1>6. Typed(p) /\ Ahead(p) /\ p.stall = 0 BY <1>4, PreStepTyped
  <1>7. Due(m.deadline, m.now) => p.dirty = TRUE
    <2>1. SUFFICES ASSUME Due(m.deadline, m.now) PROVE p.dirty = TRUE OBVIOUS
    <2> DEFINE t == TickDue(n)
    <2> DEFINE u == [t EXCEPT !.deadline = NextDeadline(t)]
    <2>2. t.dirty = TRUE /\ DOMAIN t = Fields
      <3>1. t.dirty = TRUE BY <1>5, TickDueDirty
      <3>2. Plain(n) /\ Same(n, n) BY <1>4, StatePlain DEF Loop, MachineType, Same, SameCpu, SameBoard, SameClock
      <3>3. Plain(t) BY <3>2, TickDueSame
      <3>4. QED BY <3>1, <3>3 DEF Plain
    <2>3. p = [u EXCEPT !.meip = Line(u.irq)] BY <1>5, <2>1 DEF PreStep
    <2> HIDE DEF t, p
    <2>4. u.dirty = TRUE /\ DOMAIN u = Fields BY <2>2, FieldsAre
    <2> HIDE DEF u
    <2>5. QED BY <2>3, <2>4, FieldsAre
  <1>8. ~Due(m.deadline, m.now) => p.meip = Line(m.irq) /\ p.csr = m.csr /\ p.pc = m.pc
    <2>1. SUFFICES ASSUME ~Due(m.deadline, m.now) PROVE p.meip = Line(m.irq) /\ p.csr = m.csr /\ p.pc = m.pc
      OBVIOUS
    <2>2. p = [n EXCEPT !.meip = Line(n.irq)] BY <1>5, <2>1 DEF PreStep
    <2> HIDE DEF p
    <2>3. QED BY <1>5, <2>2, FieldsAre
  <1> HIDE DEF p
  <1>9. p \in State /\ p.insns \in Nat /\ p.pc \in DOMAIN code BY <1>6 DEF Typed, State
  <1>10. Typed(r) BY <1>6, CpuStepTyped DEF Result
  <1>11. r \in State BY <1>10 DEF Typed
  <1>12. r.exit # "interrupt" /\ r.dirty = FALSE BY <1>3, <1>11, PostStepFields
  <1>13. ~(p.meip /\ p.csr.mie)
    <2>1. SUFFICES ASSUME p.meip /\ p.csr.mie PROVE r.exit = "interrupt" BY <1>12
    <2>2. r = Trap(p) BY <2>1 DEF CpuStep
    <2>3. QED BY <2>2, <1>9 DEF Trap, State
  <1>14. r = Execute(c, code[p.pc]) BY <1>13 DEF CpuStep
  <1>15. c \in State /\ c.pc = p.pc /\ c.dirty = p.dirty
    <2> DEFINE k == p.insns + 1
    <2>1. k \in Nat BY <1>9
    <2> HIDE DEF k
    <2>2. [p EXCEPT !.insns = k, !.exit = "stepped"] \in State BY <1>9, <2>1 DEF State
    <2>3. c = [p EXCEPT !.insns = k, !.exit = "stepped"] BY DEF k
    <2>4. QED BY <1>9, <2>2, <2>3 DEF State
  <1> HIDE DEF c, r
  <1>16. code[p.pc].op \in QuietOp
    <2>1. SUFFICES ASSUME code[p.pc].op \notin QuietOp PROVE FALSE OBVIOUS
    <2>2. code[p.pc] \in Insn BY <1>9, CodeTyped
    <2>3. DOMAIN c = Fields BY <1>15, StatePlain DEF Plain
    <2>4. QED BY <1>12, <1>14, <2>1, <2>2, <2>3, ExecuteDirty
  <1>17. r.dirty = p.dirty
    <2> DEFINE l == After(code, At(c), c.ram)
    <2>1. r = [c EXCEPT !.pc = l.pc, !.x = l.x, !.csr = l.csr] BY <1>14, <1>15, <1>16, ExecuteQuiet
    <2> HIDE DEF l
    <2>2. QED BY <1>15, <2>1 DEF State
  <1>18. ~Due(m.deadline, m.now) BY <1>7, <1>12, <1>17
  <1>19. QED BY <1>8, <1>13, <1>16, <1>18 DEF Calm, At

-----------------------------------------------------------------------------
(* Walks of the CPU through k quiet instructions, memory and interrupt lines *)
(* staying as they are.                                                     *)
Walk(prog, tr, k, ram, irq) ==
    /\ tr \in [0 .. k -> Local]
    /\ \A j \in 0 .. k - 1 : Calm(prog, tr[j], irq) /\ tr[j + 1] = After(prog, tr[j], ram)

LoopHead(m) == [pc |-> m.slot.head, x |-> m.slot.x, csr |-> m.slot.csr]

(* What the idle skip has seen since the last arrival at the loop's head: as *)
(* long as it is clean and no interrupt was taken, the CPU walked from there *)
(* to where it is.                                                          *)
Watch(prog, m) ==
    /\ m.slot.irqs <= m.irqs
    /\ ~m.dirty /\ m.irqs = m.slot.irqs =>
         LET k == m.insns - m.slot.insns
         IN  \E tr \in [0 .. k -> Local] : Walk(prog, tr, k, m.ram, m.irq) /\ tr[0] = LoopHead(m) /\ tr[k] = At(m)

LEMMA AtTyped == ASSUME NEW m, m \in State PROVE At(m) \in Local
  BY DEF At, Local, State

LEMMA WalkOn ==
  ASSUME NEW k \in Nat, NEW tr, NEW ram, NEW irq, Walk(code, tr, k, ram, irq), Calm(code, tr[k], irq),
         NEW l \in Local, l = After(code, tr[k], ram)
  PROVE  \E new \in [0 .. k + 1 -> Local] : Walk(code, new, k + 1, ram, irq) /\ new[0] = tr[0] /\ new[k + 1] = l
  <1> DEFINE new == [j \in 0 .. k + 1 |-> IF j = k + 1 THEN l ELSE tr[j]]
  <1>1. tr \in [0 .. k -> Local] BY DEF Walk
  <1>2. \A j \in 0 .. k + 1 : j # k + 1 => j \in 0 .. k OBVIOUS
  <1>3. new \in [0 .. k + 1 -> Local] BY <1>1, <1>2
  <1>4. new[k + 1] = l /\ \A j \in 0 .. k : new[j] = tr[j] OBVIOUS
  <1> HIDE DEF new
  <1>5. ASSUME NEW j \in 0 .. k PROVE Calm(code, new[j], irq) /\ new[j + 1] = After(code, new[j], ram)
    <2>1. CASE j = k BY <1>4, <2>1
    <2>2. CASE j # k
      <3>1. j \in 0 .. k - 1 /\ j + 1 \in 0 .. k BY <2>2
      <3>2. Calm(code, tr[j], irq) /\ tr[j + 1] = After(code, tr[j], ram) BY <3>1 DEF Walk
      <3>3. QED BY <1>4, <3>1, <3>2
    <2>3. QED BY <2>1, <2>2
  <1>6. 0 .. (k + 1) - 1 = 0 .. k OBVIOUS
  <1>7. Walk(code, new, k + 1, ram, irq) BY <1>3, <1>5, <1>6 DEF Walk
  <1>8. new[0] = tr[0] BY <1>4
  <1>9. QED BY <1>3, <1>4, <1>7, <1>8

(* What every step leaves to the idle skip.                                 *)
LEMMA StepTyped ==
  ASSUME NEW m, Loop(m), m.left > 0, code \in Firmware
  PROVE  LET v == Step(m)
         IN  /\ Loop(v) /\ v.slot = m.slot /\ v.irqs = m.irqs /\ v.left = m.left - 1
             /\ v.exit # "interrupt" => m.insns < v.insns
  <1> DEFINE left == m.left - 1
  <1> DEFINE n == [m EXCEPT !.left = left]
  <1> DEFINE p == PreStep(n)
  <1> DEFINE r == CpuStep(p, code)
  <1> DEFINE q == PostStep(r)
  <1>1. m \in State /\ m.left \in Nat /\ m.insns \in Nat /\ m.slot.insns \in Nat /\ m.slot.insns <= m.insns
    BY DEF Loop, MachineType, Timed, State, Slot
  <1>2. left \in Nat BY <1>1
  <1>3. Step(m) = q BY DEF Step
  <1>4. Loop(n) BY <1>2, LeftTyped
  <1>5. n.left = left /\ n.slot = m.slot /\ n.irqs = m.irqs /\ n.insns = m.insns BY <1>1 DEF State
  <1> HIDE DEF n, left
  <1>6. /\ Typed(p) /\ Ahead(p) /\ p.deadline = NextDeadline(p) /\ p.left = left /\ p.slot = m.slot
        /\ p.irqs = m.irqs /\ p.stall = 0 /\ p.insns = m.insns
    BY <1>4, <1>5, PreStepTyped
  <1> HIDE DEF p
  <1>7. /\ Result(p, r) /\ p.insns <= r.insns /\ (r.exit # "interrupt" => p.insns < r.insns)
        /\ r.touched \/ (r.pulse = p.pulse /\ r.dma = p.dma)
    BY <1>6, CpuStepTyped
  <1> HIDE DEF r
  <1>8. /\ Typed(r) /\ Ahead(r) /\ r.stall \in {0, StallClocks} /\ r.slot = m.slot /\ r.irqs = m.irqs /\ r.left = left
        /\ r.touched \/ r.deadline = NextDeadline(r)
    BY <1>6, <1>7 DEF Result, NextDeadline
  <1>9. r.slot.insns <= r.insns
    <2>1. r.insns \in Nat /\ m.insns <= r.insns BY <1>6, <1>7, <1>8 DEF Typed, State
    <2>2. QED BY <1>1, <1>8, <2>1
  <1>10. /\ Loop(q) /\ q.left = r.left /\ q.slot = r.slot /\ q.irqs = r.irqs /\ q.insns = r.insns
         /\ q.exit = r.exit
    BY <1>8, <1>9, PostStepTyped
  <1> HIDE DEF q
  <1>11. QED BY <1>3, <1>6, <1>7, <1>8, <1>10 DEF left

LEMMA WatchStep ==
  ASSUME NEW m, Loop(m), m.left > 0, code \in Firmware, Watch(code, m), Step(m).exit # "interrupt"
  PROVE  /\ Watch(code, Step(m))
         /\ ~Step(m).dirty => Moves(m, Step(m))
  <1> DEFINE v == Step(m)
  <1>1. Loop(v) /\ v.slot = m.slot /\ v.irqs = m.irqs BY StepTyped
  <1>2. m.slot.irqs <= m.irqs BY DEF Watch
  <1>3. CASE v.dirty
    BY <1>1, <1>2, <1>3 DEF Watch
  <1>4. CASE ~v.dirty
    <2>1. v \in State /\ v.dirty = FALSE BY <1>1, <1>4 DEF Loop, MachineType, State
    <2>2. Calm(code, At(m), m.irq) /\ ~Due(m.deadline, m.now) BY <2>1, CleanStep
    <2>3. Moves(m, v) BY <2>2, QuietStep
    <2> HIDE DEF v
    <2>4. SUFFICES ASSUME v.irqs = v.slot.irqs
                   PROVE  LET k == v.insns - v.slot.insns
                          IN  \E tr \in [0 .. k -> Local] : Walk(code, tr, k, v.ram, v.irq) /\ tr[0] = LoopHead(v) /\ tr[k] = At(v)
      BY <1>1, <1>2, <2>3 DEF Watch, v
    <2> DEFINE k == m.insns - m.slot.insns
    <2>5. ~m.dirty /\ m.irqs = m.slot.irqs BY <1>1, <2>1, <2>3, <2>4 DEF Moves
    <2>6. PICK tr \in [0 .. k -> Local] : Walk(code, tr, k, m.ram, m.irq) /\ tr[0] = LoopHead(m) /\ tr[k] = At(m)
      BY <2>5 DEF Watch
    <2>7. m.insns \in Nat /\ m.slot.insns \in Nat /\ m.slot.insns <= m.insns
      BY DEF Loop, MachineType, Timed, State, Slot
    <2>8. k \in Nat /\ v.insns - v.slot.insns = k + 1
      <3>1. v.insns = m.insns + 1 /\ v.slot.insns = m.slot.insns BY <1>1, <2>3 DEF Moves
      <3>2. QED BY <2>7, <3>1
    <2> HIDE DEF k
    <2>9. At(v) \in Local /\ At(v) = After(code, At(m), m.ram) BY <2>1, <2>3, AtTyped DEF Moves
    <2>10. PICK new \in [0 .. k + 1 -> Local] :
             Walk(code, new, k + 1, m.ram, m.irq) /\ new[0] = tr[0] /\ new[k + 1] = At(v)
      BY <2>2, <2>6, <2>8, <2>9, WalkOn
    <2>11. v.ram = m.ram /\ v.irq = m.irq /\ LoopHead(v) = LoopHead(m) BY <1>1, <2>3 DEF Moves, SameBoard, LoopHead
    <2>12. QED BY <2>6, <2>8, <2>10, <2>11
  <1>5. QED BY <1>3, <1>4

(* Machine::idle_arrival starts a new watch, and moves the clock and the     *)
(* budget on by whole passes if the loop is at a fixed point.               *)
Arrived(v, k, slot) ==
    /\ IdleArrival(v) = [v EXCEPT !.dirty = FALSE, !.slot = slot, !.left = v.left - k,
                                  !.now = v.now + k * ClocksPerInsn, !.idleInsns = v.idleInsns + k]
    /\ slot.head = v.pc /\ slot.insns = v.insns /\ slot.irqs = v.irqs /\ slot.x = v.x /\ slot.csr = v.csr
    /\ k # 0 => /\ FixedPoint(v) /\ v.slot.head = v.pc
                /\ \E q \in Nat : k = q * (v.insns - v.slot.insns)
                /\ k <= v.left
                /\ v.deadline # Never => v.now + k * ClocksPerInsn <= v.deadline

LEMMA ArrivalShape ==
  ASSUME NEW v, Loop(v), v.slot.insns < v.insns
  PROVE  \E k \in Nat, slot \in Slot : Arrived(v, k, slot)
  <1> DEFINE period == v.insns - v.slot.insns
  <1> DEFINE new == NewSlot(v)
  <1> DEFINE seen == [v.slot EXCEPT !.insns = v.insns, !.irqs = v.irqs, !.period = period]
  <1> DEFINE next == [seen EXCEPT !.x = v.x, !.csr = v.csr]
  <1> DEFINE watched == [v EXCEPT !.dirty = FALSE, !.slot = seen]
  <1> DEFINE Moved(slot, k) ==
               [v EXCEPT !.dirty = FALSE, !.slot = slot, !.left = v.left - k,
                         !.now = v.now + k * ClocksPerInsn, !.idleInsns = v.idleInsns + k]
  <1>1. v \in State BY DEF Loop, MachineType
  <1>2. /\ v.slot \in Slot /\ v.slot.insns \in Nat /\ v.insns \in Nat /\ v.irqs \in Nat /\ v.x \in Word
        /\ v.csr \in Csr /\ v.pc \in Nat /\ v.left \in Nat /\ v.now \in Nat /\ v.idleInsns \in Nat
        /\ ClocksPerInsn \in Nat
    BY <1>1, MachineAssumption DEF State, Slot
  <1>3. period \in Nat \ {0} BY <1>2
  <1>4. \A slot : [v EXCEPT !.dirty = FALSE, !.slot = slot] = Moved(slot, 0)
    <2>1. v.left - 0 = v.left /\ v.now + 0 * ClocksPerInsn = v.now /\ v.idleInsns + 0 = v.idleInsns BY <1>2
    <2>2. QED BY <1>1, <2>1 DEF State
  <1>5. CASE v.slot.head # v.pc
    <2>1. IdleArrival(v) = [v EXCEPT !.dirty = FALSE, !.slot = new]
      <3> DEFINE clean == [v EXCEPT !.dirty = FALSE]
      <3>1. IdleArrival(v) = [clean EXCEPT !.slot = new] BY <1>5 DEF IdleArrival
      <3>2. QED BY <1>1, <3>1 DEF State
    <2>2. new \in Slot /\ new.head = v.pc /\ new.insns = v.insns /\ new.irqs = v.irqs /\ new.x = v.x /\ new.csr = v.csr
      BY <1>2 DEF Slot, NewSlot
    <2> HIDE DEF new
    <2>3. IdleArrival(v) = Moved(new, 0) BY <1>4, <2>1
    <2>4. Arrived(v, 0, new) BY <2>2, <2>3 DEF Arrived
    <2>5. QED BY <2>2, <2>4
  <1>6. seen \in Slot /\ seen.head = v.slot.head /\ seen.insns = v.insns /\ seen.irqs = v.irqs
        /\ seen.x = v.slot.x /\ seen.csr = v.slot.csr
    BY <1>2, <1>3 DEF Slot
  <1>7. next \in Slot /\ next.head = v.slot.head /\ next.insns = v.insns /\ next.irqs = v.irqs
        /\ next.x = v.x /\ next.csr = v.csr
    <2> HIDE DEF seen
    <2>1. QED BY <1>2, <1>6 DEF Slot
  <1>8. ASSUME v.slot.head = v.pc
        PROVE  IdleArrival(v) = IF FixedPoint(v) THEN Skip(watched, period)
                                ELSE [v EXCEPT !.dirty = FALSE, !.slot = next]
    <2> DEFINE clean == [v EXCEPT !.dirty = FALSE]
    <2> DEFINE w == [clean EXCEPT !.slot.insns = v.insns, !.slot.irqs = v.irqs, !.slot.period = period]
    <2> DEFINE u == [w EXCEPT !.slot.x = v.x, !.slot.csr = v.csr]
    <2>1. IdleArrival(v) = IF FixedPoint(v) THEN Skip(w, period) ELSE u
      BY <1>8 DEF IdleArrival
    <2> HIDE DEF period
    <2>2. w = watched BY <1>1, <1>2 DEF State
    <2>3. watched.slot = seen BY <1>1 DEF State
    <2>4. u = [v EXCEPT !.dirty = FALSE, !.slot = next]
      <3>1. u = [watched EXCEPT !.slot.x = v.x, !.slot.csr = v.csr] BY <2>2
      <3>2. [watched EXCEPT !.slot.x = v.x, !.slot.csr = v.csr] = [watched EXCEPT !.slot = next]
        BY <1>1, <2>3 DEF State
      <3>3. [watched EXCEPT !.slot = next] = [v EXCEPT !.dirty = FALSE, !.slot = next]
        BY <1>1 DEF State
      <3>4. QED BY <3>1, <3>2, <3>3
    <2> HIDE DEF w, u, watched, next, clean
    <2>5. QED BY <2>1, <2>2, <2>4
  <1>9. CASE v.slot.head = v.pc /\ ~FixedPoint(v)
    <2>1. IdleArrival(v) = [v EXCEPT !.dirty = FALSE, !.slot = next] BY <1>8, <1>9
    <2> HIDE DEF next
    <2>2. IdleArrival(v) = Moved(next, 0) BY <1>4, <2>1
    <2>3. Arrived(v, 0, next) BY <1>7, <1>9, <2>2 DEF Arrived
    <2>4. QED BY <1>7, <2>3
  <1>10. CASE v.slot.head = v.pc /\ FixedPoint(v)
    <2> DEFINE k == Passes(watched, period) * period
    <2>1. IdleArrival(v) = Skip(watched, period) BY <1>8, <1>10
    <2> HIDE DEF seen
    <2>2. watched \in State /\ watched.left = v.left /\ watched.now = v.now /\ watched.deadline = v.deadline
          /\ watched.idleInsns = v.idleInsns
      BY <1>1, <1>6 DEF State
    <2>3. Skip(watched, period) = [watched EXCEPT !.left = @ - k, !.now = @ + k * ClocksPerInsn, !.idleInsns = @ + k]
      BY DEF Skip
    <2>4. Passes(watched, period) \in Nat
      <3> DEFINE budget == watched.left \div period
      <3> DEFINE clocks == IF watched.now < watched.deadline THEN watched.deadline - watched.now ELSE 0
      <3> DEFINE per == period * ClocksPerInsn
      <3> DEFINE passes == clocks \div per
      <3>1. watched.left \in Nat /\ watched.now \in Nat /\ watched.deadline \in Int /\ ClocksPerInsn \in Nat \ {0}
        <4>1. v.deadline \in Event /\ v.left \in Nat /\ v.now \in Nat BY <1>1 DEF State
        <4> HIDE DEF watched
        <4>2. QED BY <2>2, <4>1, MachineAssumption DEF Event, Never
      <3>2. budget \in Nat BY <1>3, <3>1, DivTimes
      <3>3. clocks \in Nat BY <3>1
      <3>4. per \in Nat \ {0}
        <4>1. period * ClocksPerInsn >= 1 * ClocksPerInsn BY <1>3, <3>1
        <4>2. QED BY <1>3, <3>1, <4>1
      <3> HIDE DEF clocks, per
      <3>5. passes \in Nat BY <3>3, <3>4, DivTimes
      <3>6. Passes(watched, period) \in {budget, passes} BY DEF Passes, clocks, per
      <3>7. QED BY <3>2, <3>5, <3>6
    <2>5. /\ k \in Nat /\ k <= v.left
          /\ v.deadline # Never /\ k # 0 => v.now + k * ClocksPerInsn <= v.deadline
      BY <1>3, <2>2, PassesTyped
    <2>6. \E q \in Nat : k = q * period BY <2>4
    <2> HIDE DEF k, period
    <2>7. Skip(watched, period) = Moved(seen, k) BY <1>1, <2>2, <2>3 DEF State
    <2>8. v.x = v.slot.x /\ v.csr = v.slot.csr BY <1>10 DEF FixedPoint
    <2> HIDE DEF watched, Moved
    <2>9. IdleArrival(v) = Moved(seen, k) BY <2>1, <2>7
    <2>10. /\ seen \in Slot /\ seen.head = v.pc /\ seen.insns = v.insns /\ seen.irqs = v.irqs /\ seen.x = v.x /\ seen.csr = v.csr
      BY <1>6, <1>10, <2>8
    <2>11. Arrived(v, k, seen) BY <1>10, <2>5, <2>6, <2>9, <2>10 DEF Arrived, Moved, period
    <2>12. QED BY <2>5, <2>10, <2>11
  <1>11. QED BY <1>5, <1>9, <1>10

LEMMA ArrivalWatch ==
  ASSUME NEW v, Loop(v), v.slot.insns < v.insns PROVE Watch(code, IdleArrival(v))
  <1> DEFINE r == IdleArrival(v)
  <1>1. PICK k \in Nat, slot \in Slot : Arrived(v, k, slot) BY ArrivalShape
  <1>2. v \in State /\ v.insns \in Nat /\ v.irqs \in Nat BY DEF Loop, MachineType, State
  <1>3. /\ r.slot = slot /\ r.insns = v.insns /\ r.irqs = v.irqs /\ r.pc = v.pc /\ r.x = v.x /\ r.csr = v.csr
        /\ r.ram = v.ram /\ r.irq = v.irq
        /\ slot.head = v.pc /\ slot.insns = v.insns /\ slot.irqs = v.irqs /\ slot.x = v.x /\ slot.csr = v.csr
    BY <1>1, <1>2 DEF State, Arrived
  <1> HIDE DEF r
  <1>4. At(r) = LoopHead(r) /\ At(r) \in Local
    <2>1. At(v) \in Local BY <1>2, AtTyped
    <2>2. QED BY <1>3, <2>1 DEF At, LoopHead
  <1> DEFINE tr == [j \in 0 .. 0 |-> At(r)]
  <1>5. tr \in [0 .. 0 -> Local] /\ tr[0] = At(r) BY <1>4
  <1>6. Walk(code, tr, 0, r.ram, r.irq)
    <2>1. 0 .. 0 - 1 = {} OBVIOUS
    <2>2. QED BY <1>5, <2>1 DEF Walk
  <1> HIDE DEF tr
  <1>7. r.insns - r.slot.insns = 0 /\ r.slot.irqs <= r.irqs BY <1>2, <1>3
  <1>8. Watch(code, r) BY <1>4, <1>5, <1>6, <1>7 DEF Watch
  <1>9. QED BY <1>8 DEF r

-----------------------------------------------------------------------------
(* The machine that executes what the other has skipped: it walks the loop   *)
(* around, i steps into a pass, and when it has used as much of the budget   *)
(* it is where the other is.                                                *)
Round(prog, v, f) ==
    \E p \in Nat \ {0}, q \in Nat : \E tr \in [0 .. p -> Local], i \in 0 .. p - 1 :
        /\ Walk(prog, tr, p, f.ram, f.irq) /\ tr[p] = tr[0]
        /\ v.left - f.left + i = q * p
        /\ At(v) = tr[i] /\ At(f) = tr[0]

Behind(v, f) ==
    /\ f.left <= v.left
    /\ v.now + (v.left - f.left) * ClocksPerInsn = f.now
    /\ f.deadline # Never /\ f.left < v.left => f.now <= f.deadline
    /\ v.insns + v.idleInsns + (v.left - f.left) = f.insns + f.idleInsns
    /\ SameBoard(v, f)
    /\ v.deadline = f.deadline /\ v.touched = f.touched /\ v.stall = f.stall /\ v.irqs = f.irqs
    /\ v.meip = f.meip /\ v.exit = f.exit

Follows(prog, v, f) ==
    \/ Same(v, f)
    \/ Behind(v, f) /\ Round(prog, v, f) /\ f.meip = Line(f.irq) /\ f.exit = "stepped"

(* With the same budget left, the one is where the other is.                *)
LEMMA RoundEnds ==
  ASSUME NEW p \in Nat \ {0}, NEW q \in Nat, NEW i \in 0 .. p - 1, i = q * p PROVE i = 0
  <1>1. CASE q = 0 BY <1>1
  <1>2. CASE q # 0
    <2>1. q >= 1 BY <1>2
    <2>2. q * p >= 1 * p BY <2>1
    <2>3. QED BY <2>2
  <1>3. QED BY <1>1, <1>2

LEMMA FollowsEnds ==
  ASSUME NEW v, NEW f, v \in State, f \in State, v.left = f.left, Follows(code, v, f) PROVE Same(v, f)
  <1>1. SUFFICES ASSUME Behind(v, f), Round(code, v, f) PROVE Same(v, f) BY DEF Follows
  <1>2. /\ v.left \in Nat /\ v.now \in Nat /\ v.insns \in Nat /\ v.idleInsns \in Nat /\ ClocksPerInsn \in Nat
        /\ f.left \in Nat
    BY MachineAssumption DEF State
  <1>3. v.left - f.left = 0 BY <1>2
  <1>4. v.now = f.now
    <2>1. v.now + 0 * ClocksPerInsn = f.now BY <1>1, <1>3 DEF Behind
    <2>2. QED BY <1>2, <2>1
  <1>5. v.insns + v.idleInsns = f.insns + f.idleInsns
    <2>1. v.insns + v.idleInsns + 0 = f.insns + f.idleInsns BY <1>1, <1>3 DEF Behind
    <2>2. QED BY <1>2, <2>1
  <1>6. PICK p \in Nat \ {0}, q \in Nat : \E tr \in [0 .. p -> Local], i \in 0 .. p - 1 :
          v.left - f.left + i = q * p /\ At(v) = tr[i] /\ At(f) = tr[0]
    BY <1>1 DEF Round
  <1>7. PICK tr \in [0 .. p -> Local], i \in 0 .. p - 1 :
          v.left - f.left + i = q * p /\ At(v) = tr[i] /\ At(f) = tr[0]
    BY <1>6
  <1>8. i = q * p BY <1>3, <1>7
  <1>9. i = 0 BY <1>8, RoundEnds
  <1>10. At(v) = At(f) BY <1>7, <1>9
  <1>11. v.pc = f.pc /\ v.x = f.x /\ v.csr = f.csr BY <1>10 DEF At
  <1>12. QED BY <1>1, <1>4, <1>5, <1>11 DEF Behind, Same, SameCpu, SameClock

LEMMA FollowsSame ==
  ASSUME NEW v, NEW w, NEW f, Same(v, w), Follows(code, v, f) PROVE Follows(code, w, f)
  <1>1. At(v) = At(w) BY DEF At, Same, SameCpu
  <1>2. CASE Same(v, f) BY <1>2 DEF Follows, Same, SameCpu, SameBoard, SameClock
  <1>3. CASE Behind(v, f) /\ Round(code, v, f) /\ f.meip = Line(f.irq) /\ f.exit = "stepped"
    <2>1. v.left = w.left BY DEF Same, SameClock
    <2>2. Round(code, w, f) BY <1>1, <1>3, <2>1 DEF Round
    <2>3. Behind(w, f) BY <1>3 DEF Behind, Same, SameCpu, SameBoard, SameClock
    <2>4. QED BY <1>3, <2>2, <2>3 DEF Follows
  <1>4. QED BY <1>2, <1>3 DEF Follows

LEMMA OneLess ==
  ASSUME NEW a \in Nat, NEW b \in Nat, a < b, NEW c \in Nat, NEW n \in Nat
  PROVE  n + c + (b - 1 - a) * c = n + (b - a) * c /\ b - 1 - a \in Nat
  <1> DEFINE d == b - 1 - a
  <1>1. d \in Nat /\ b - a = d + 1 OBVIOUS
  <1> HIDE DEF d
  <1>2. (d + 1) * c = d * c + c BY <1>1
  <1>3. d * c \in Nat BY <1>1
  <1>4. n + c + d * c = n + (b - a) * c BY <1>1, <1>2, <1>3
  <1>5. QED BY <1>1, <1>4 DEF d

(* Before the end of what was skipped there is no event and no interrupt.    *)
LEMMA BeforeDeadline ==
  ASSUME NEW now \in Nat, NEW gap \in Nat \ {0}, NEW deadline \in Event,
         deadline # Never => now + gap * ClocksPerInsn <= deadline
  PROVE  ~Due(deadline, now)
  <1>1. SUFFICES ASSUME deadline # Never, deadline <= now PROVE FALSE BY DEF Due
  <1>2. gap * ClocksPerInsn >= 1 * ClocksPerInsn BY MachineAssumption
  <1>3. ClocksPerInsn \in Nat \ {0} /\ gap * ClocksPerInsn \in Nat BY MachineAssumption
  <1>4. QED BY <1>1, <1>2, <1>3 DEF Event

LEMMA SumOn ==
  ASSUME NEW a \in Int, NEW b \in Int, NEW c \in Int PROVE (a + 1) + b + (c - 1) = a + b + c
  OBVIOUS

LEMMA FollowsOn ==
  ASSUME NEW v, NEW f, Loop(v), f \in State, f.left < v.left, code \in Firmware, Follows(code, v, f)
  PROVE  Follows(code, Iterate(v, code, FALSE), f)
  <1> DEFINE w == Iterate(v, code, FALSE)
  <1>1. /\ v \in State /\ v.left \in Nat /\ v.now \in Nat /\ v.insns \in Nat /\ v.idleInsns \in Nat
        /\ f.left \in Nat /\ f.now \in Nat /\ f.deadline \in Event /\ ClocksPerInsn \in Nat
        /\ f.insns \in Nat /\ f.idleInsns \in Nat
    BY MachineAssumption DEF Loop, MachineType, State
  <1>2. Behind(v, f) /\ Round(code, v, f) /\ f.meip = Line(f.irq) /\ f.exit = "stepped"
    <2>1. ~Same(v, f) BY <1>1 DEF Same, SameClock
    <2>2. QED BY <2>1 DEF Follows
  <1>3. f.ram = v.ram /\ f.irq = v.irq /\ v.deadline = f.deadline BY <1>2 DEF Behind, SameBoard
  <1>4. PICK p \in Nat \ {0}, q \in Nat : \E tr \in [0 .. p -> Local], i \in 0 .. p - 1 :
          /\ Walk(code, tr, p, f.ram, f.irq) /\ tr[p] = tr[0]
          /\ v.left - f.left + i = q * p
          /\ At(v) = tr[i] /\ At(f) = tr[0]
    BY <1>2 DEF Round
  <1>5. PICK tr \in [0 .. p -> Local], i \in 0 .. p - 1 :
          /\ Walk(code, tr, p, f.ram, f.irq) /\ tr[p] = tr[0]
          /\ v.left - f.left + i = q * p
          /\ At(v) = tr[i] /\ At(f) = tr[0]
    BY <1>4
  <1>6. Calm(code, At(v), v.irq) /\ tr[i + 1] = After(code, At(v), v.ram) BY <1>3, <1>5 DEF Walk
  <1>7. ~Due(v.deadline, v.now)
    <2> DEFINE gap == v.left - f.left
    <2>1. gap \in Nat \ {0} BY <1>1
    <2>2. f.deadline # Never => v.now + gap * ClocksPerInsn <= f.deadline BY <1>2 DEF Behind
    <2> HIDE DEF gap
    <2>3. QED BY <1>1, <1>3, <2>1, <2>2, BeforeDeadline
  <1>8. Moves(v, w)
    <2>1. v.left > 0 BY <1>1
    <2>2. QED BY <1>6, <1>7, <2>1, QuietStep
  <1> HIDE DEF w
  <1>9. At(w) = tr[i + 1] BY <1>6, <1>8 DEF Moves
  <1>10. w.left = v.left - 1 BY <1>8 DEF Moves
  <1>11. Behind(w, f)
    <2>1. f.left <= w.left BY <1>1, <1>10
    <2>2. w.now + (w.left - f.left) * ClocksPerInsn = f.now
      <3>1. w.now = v.now + ClocksPerInsn BY <1>8 DEF Moves
      <3>2. v.now + (v.left - f.left) * ClocksPerInsn = f.now BY <1>2 DEF Behind
      <3>3. v.now + ClocksPerInsn + (v.left - 1 - f.left) * ClocksPerInsn = v.now + (v.left - f.left) * ClocksPerInsn
        BY <1>1, OneLess
      <3>4. QED BY <1>10, <3>1, <3>2, <3>3
    <2>3. f.deadline # Never /\ f.left < w.left => f.now <= f.deadline BY <1>2 DEF Behind
    <2>4. w.insns + w.idleInsns + (w.left - f.left) = f.insns + f.idleInsns
      <3>1. w.insns = v.insns + 1 /\ w.idleInsns = v.idleInsns BY <1>8 DEF Moves
      <3>2. v.insns + v.idleInsns + (v.left - f.left) = f.insns + f.idleInsns BY <1>2 DEF Behind
      <3>3. w.left - f.left = (v.left - f.left) - 1 BY <1>1, <1>10
      <3> DEFINE gap == v.left - f.left
      <3>4. gap \in Int BY <1>1
      <3> HIDE DEF gap
      <3>5. (v.insns + 1) + v.idleInsns + (gap - 1) = v.insns + v.idleInsns + gap
        <4>1. v.insns \in Int /\ v.idleInsns \in Int BY <1>1
        <4>2. QED BY <3>4, <4>1, SumOn
      <3>6. QED BY <3>1, <3>2, <3>3, <3>5 DEF gap
    <2>5. SameBoard(w, f) BY <1>2, <1>8 DEF Behind, Moves, SameBoard
    <2>6. /\ w.deadline = f.deadline /\ w.touched = f.touched /\ w.stall = f.stall /\ w.irqs = f.irqs
      BY <1>2, <1>8 DEF Behind, Moves
    <2>7. w.meip = f.meip /\ w.exit = f.exit BY <1>2, <1>3, <1>8 DEF Moves
    <2>8. QED BY <2>1, <2>2, <2>3, <2>4, <2>5, <2>6, <2>7 DEF Behind
  <1>12. Round(code, w, f)
    <2>1. CASE i + 1 < p
      <3>1. i + 1 \in 0 .. p - 1 BY <2>1
      <3>2. w.left - f.left + (i + 1) = q * p BY <1>1, <1>5, <1>10
      <3>3. QED BY <1>5, <1>9, <3>1, <3>2 DEF Round
    <2>2. CASE i + 1 = p
      <3>1. q # 0
        <4>1. v.left - f.left + i > 0 BY <1>1
        <4>2. 0 * p = 0 OBVIOUS
        <4>3. QED BY <1>5, <4>1, <4>2
      <3>2. q - 1 \in Nat /\ (q - 1) * p = q * p - p
        <4>1. q - 1 \in Nat BY <3>1
        <4>2. (q - 1) * p = q * p - p OBVIOUS
        <4>3. QED BY <4>1, <4>2
      <3>3. w.left - f.left + 0 = (q - 1) * p
        <4> DEFINE n == q * p
        <4>1. n \in Nat OBVIOUS
        <4>2. (q - 1) * p = n - p BY <3>2
        <4>3. v.left - f.left + i = n BY <1>5
        <4> HIDE DEF n
        <4>4. w.left - f.left + 0 = n - p BY <1>1, <1>10, <2>2, <4>1, <4>3
        <4>5. QED BY <4>2, <4>4
      <3>4. At(w) = tr[0] BY <1>5, <1>9, <2>2
      <3>5. 0 \in 0 .. p - 1 OBVIOUS
      <3>6. QED BY <1>5, <3>2, <3>3, <3>4, <3>5 DEF Round
    <2>3. QED BY <2>1, <2>2
  <1>13. Follows(code, w, f) BY <1>2, <1>11, <1>12 DEF Follows
  <1>14. QED BY <1>13 DEF w

(* An iteration of the machine that skips, compared with the one that does   *)
(* not.                                                                     *)
LEMMA SkipFollowed ==
  ASSUME NEW m, Loop(m), m.left > 0, code \in Firmware, Watch(code, m)
  PROVE  LET f == Iterate(m, code, TRUE)
         IN  /\ Watch(code, f) /\ f.left < m.left /\ f.left \in Nat
             /\ Follows(code, Iterate(m, code, FALSE), f)
  <1> DEFINE v == Step(m)
  <1> DEFINE f == Iterate(m, code, TRUE)
  <1>1. m \in State /\ m.left \in Nat /\ m.insns \in Nat /\ m.slot.insns \in Nat /\ m.slot.insns <= m.insns
    BY DEF Loop, MachineType, Timed, State, Slot
  <1>2. /\ Loop(v) /\ v.slot = m.slot /\ v.irqs = m.irqs /\ v.left = m.left - 1
        /\ v.exit # "interrupt" => m.insns < v.insns
    BY StepTyped
  <1>3. v \in State /\ v.left \in Nat /\ v.insns \in Nat /\ v.irqs \in Nat /\ v.now \in Nat /\ v.idleInsns \in Nat
    BY <1>2 DEF Loop, MachineType, State
  <1>4. f = IF v.exit = "interrupt" THEN [v EXCEPT !.irqs = @ + 1]
            ELSE IF v.pc <= m.pc THEN IdleArrival(v) ELSE v
    BY DEF Iterate, Step
  <1>5. Iterate(m, code, FALSE) = IF v.exit = "interrupt" THEN [v EXCEPT !.irqs = @ + 1] ELSE v
    BY DEF Iterate, Step
  <1>6. v.exit # "interrupt" => Watch(code, v) /\ (~v.dirty => Moves(m, v)) BY WatchStep
  <1>7. SUFFICES Watch(code, f) /\ f.left < m.left /\ f.left \in Nat /\ Follows(code, Iterate(m, code, FALSE), f)
    BY DEF f
  <1> HIDE DEF v, f
  <1>8. \A a : Same(a, a) BY DEF Same, SameCpu, SameBoard, SameClock
  <1>9. CASE v.exit = "interrupt"
    <2> DEFINE irqs == v.irqs + 1
    <2>1. f = [v EXCEPT !.irqs = irqs] BY <1>4, <1>9
    <2>2. irqs \in Nat /\ m.slot.irqs \in Nat /\ m.slot.irqs <= v.irqs
      <3>1. m.slot \in Slot /\ m.slot.irqs <= m.irqs BY <1>1 DEF Watch, State
      <3>2. QED BY <1>2, <1>3, <3>1 DEF Slot
    <2>3. f.irqs = irqs /\ f.slot = v.slot /\ f.left = v.left BY <1>3, <2>1 DEF State
    <2>4. f.slot.irqs <= f.irqs /\ f.irqs # f.slot.irqs BY <1>2, <1>3, <2>2, <2>3
    <2>5. Watch(code, f) BY <2>4 DEF Watch
    <2>6. Iterate(m, code, FALSE) = f BY <1>4, <1>5, <1>9
    <2>7. Follows(code, Iterate(m, code, FALSE), f) BY <1>8, <2>6 DEF Follows
    <2>8. f.left < m.left /\ f.left \in Nat BY <1>1, <1>2, <1>3, <2>3
    <2>9. QED BY <2>5, <2>7, <2>8
  <1>10. CASE v.exit # "interrupt" /\ ~(v.pc <= m.pc)
    <2>1. f = v /\ Iterate(m, code, FALSE) = v BY <1>4, <1>5, <1>10
    <2>2. Follows(code, v, v) BY <1>8 DEF Follows
    <2>3. v.left < m.left BY <1>1, <1>2
    <2>4. QED BY <1>3, <1>6, <1>10, <2>1, <2>2, <2>3
  <1>11. CASE v.exit # "interrupt" /\ v.pc <= m.pc
    <2>1. f = IdleArrival(v) /\ Iterate(m, code, FALSE) = v BY <1>4, <1>5, <1>11
    <2>2. v.slot.insns < v.insns BY <1>1, <1>2, <1>3, <1>11
    <2>3. Watch(code, f) BY <1>2, <2>1, <2>2, ArrivalWatch
    <2>4. PICK k \in Nat, slot \in Slot : Arrived(v, k, slot) BY <1>2, <2>2, ArrivalShape
    <2>5. f = [v EXCEPT !.dirty = FALSE, !.slot = slot, !.left = v.left - k,
                        !.now = v.now + k * ClocksPerInsn, !.idleInsns = v.idleInsns + k]
      BY <2>1, <2>4 DEF Arrived
    <2>6. /\ f.left = v.left - k /\ f.now = v.now + k * ClocksPerInsn /\ f.idleInsns = v.idleInsns + k
          /\ f.pc = v.pc /\ f.x = v.x /\ f.csr = v.csr /\ f.meip = v.meip /\ f.exit = v.exit /\ f.insns = v.insns
          /\ SameBoard(v, f) /\ f.deadline = v.deadline /\ f.touched = v.touched /\ f.stall = v.stall
          /\ f.irqs = v.irqs
      BY <1>3, <2>5 DEF State, SameBoard
    <2>7. CASE k = 0
      <3>1. f.left = v.left /\ f.now = v.now /\ f.idleInsns = v.idleInsns
        <4>1. 0 * ClocksPerInsn = 0 BY MachineAssumption
        <4>2. QED BY <1>3, <2>6, <2>7, <4>1
      <3>2. Same(v, f) BY <2>6, <3>1 DEF Same, SameCpu, SameClock
      <3>3. f.left < m.left /\ f.left \in Nat BY <1>1, <1>2, <1>3, <3>1
      <3>4. QED BY <2>1, <2>3, <3>2, <3>3 DEF Follows
    <2>8. CASE k # 0
      <3> DEFINE p == v.insns - v.slot.insns
      <3>1. /\ FixedPoint(v) /\ v.slot.head = v.pc
            /\ \E q \in Nat : k = q * p
            /\ k <= v.left
            /\ v.deadline # Never => v.now + k * ClocksPerInsn <= v.deadline
        BY <2>4, <2>8 DEF Arrived
      <3>2. PICK q \in Nat : k = q * p BY <3>1
      <3>3. p \in Nat \ {0} BY <1>1, <1>2, <1>3, <2>2
      <3>4. ~v.dirty /\ v.irqs = v.slot.irqs /\ v.x = v.slot.x /\ v.csr = v.slot.csr BY <3>1 DEF FixedPoint
      <3>5. Moves(m, v) BY <1>6, <1>11, <3>4
      <3>6. PICK tr \in [0 .. p -> Local] : Walk(code, tr, p, v.ram, v.irq) /\ tr[0] = LoopHead(v) /\ tr[p] = At(v)
        BY <1>6, <1>11, <3>4 DEF Watch
      <3> HIDE DEF p
      <3>7. LoopHead(v) = At(v) BY <3>1, <3>4 DEF LoopHead, At
      <3>8. f.ram = v.ram /\ f.irq = v.irq /\ At(f) = At(v) BY <2>6 DEF SameBoard, At
      <3>9. v.left - f.left = k BY <1>3, <2>6
      <3>10. Round(code, v, f)
        <4>1. 0 \in 0 .. p - 1 BY <3>3
        <4>2. v.left - f.left + 0 = q * p BY <3>2, <3>9
        <4>3. Walk(code, tr, p, f.ram, f.irq) /\ tr[p] = tr[0] /\ At(v) = tr[0] /\ At(f) = tr[0]
          BY <3>6, <3>7, <3>8
        <4>4. QED BY <3>3, <4>1, <4>2, <4>3 DEF Round
      <3>11. Behind(v, f)
        <4>1. f.left <= v.left BY <1>3, <2>6
        <4>2. v.insns + v.idleInsns + k = f.insns + f.idleInsns BY <1>3, <2>6
        <4>3. f.deadline # Never => f.now <= f.deadline BY <2>6, <3>1
        <4>4. QED BY <2>6, <3>9, <4>1, <4>2, <4>3 DEF Behind
      <3>12. f.meip = Line(f.irq) /\ f.exit = "stepped" BY <2>6, <3>5, <3>8 DEF Moves, SameBoard
      <3>13. Follows(code, v, f) BY <3>10, <3>11, <3>12 DEF Follows
      <3>14. f.left < m.left /\ f.left \in Nat BY <1>1, <1>2, <1>3, <2>6, <3>1
      <3>15. QED BY <2>1, <2>3, <3>13, <3>14
    <2>9. QED BY <2>7, <2>8
  <1>12. QED BY <1>9, <1>10, <1>11

-----------------------------------------------------------------------------
(* The inductive invariant of the two machines: what the one that skips has  *)
(* seen of the loop, and that the other is on its way to where it is.       *)
Together ==
    /\ Watch(code, fast)
    /\ fast.left <= slow.left
    /\ slow.left = fast.left => Same(fast, slow)
    /\ slow.left > fast.left => Follows(code, Iterate(slow, code, FALSE), fast)

LEMMA TogetherInit == Init => Together
  <1>1. SUFFICES ASSUME Init PROVE Together OBVIOUS
  <1>2. fast = Boot /\ slow = Boot BY <1>1 DEF Init
  <1>3. Same(fast, slow) BY <1>2 DEF Same, SameCpu, SameBoard, SameClock
  <1>4. Boot.slot.irqs = 0 /\ Boot.irqs = 0 /\ Boot.dirty = TRUE /\ Boot.left = 0 BY DEF Boot
  <1>5. Watch(code, fast) BY <1>2, <1>4 DEF Watch
  <1>6. fast.left <= slow.left /\ ~(slow.left > fast.left) BY <1>2, <1>4
  <1>7. QED BY <1>3, <1>5, <1>6 DEF Together

LEMMA TogetherNext == Inv /\ Together /\ [Next]_vars => Together'
  <1>1. SUFFICES ASSUME Inv, Together, [Next]_vars PROVE Together' OBVIOUS
  <1>2. /\ code \in Firmware /\ Loop(fast) /\ Loop(slow) /\ fast \in State /\ slow \in State
        /\ fast.left \in Nat /\ slow.left \in Nat
    BY <1>1 DEF Inv, IdleSkipInvariant, TypeOK, Loop, MachineType, State
  <1>3. Plain(fast) /\ Plain(slow) BY <1>2, StatePlain
  <1>4. CASE BeginSlice
    <2>1. PICK input \in HostInput, budget \in Budgets :
            /\ fast' = BeginRun(Given(fast, input), budget)
            /\ slow' = BeginRun(Given(slow, input), budget)
      BY <1>4 DEF BeginSlice
    <2>2. budget \in Nat BY FirmwareAssumption
    <2> DEFINE g == Given(fast, input)
    <2> DEFINE h == Given(slow, input)
    <2>3. Loop(g) /\ Loop(h) BY <1>2, GivenTyped
    <2>4. Same(fast, slow) BY <1>1, <1>2, <1>4 DEF Together, BeginSlice
    <2>5. Plain(g) /\ Plain(h) /\ Same(g, h) BY <1>3, <2>4, GivenSame
    <2>6. g.slot = fast.slot /\ g.irqs = fast.irqs BY <1>2 DEF Given, State, HostInput
    <2> HIDE DEF g, h
    <2>7. Same(fast', slow') BY <2>1, <2>5, BeginRunSame DEF g, h
    <2>8. /\ fast'.left = budget /\ slow'.left = budget /\ fast'.dirty = TRUE
          /\ fast'.slot = fast.slot /\ fast'.irqs = fast.irqs
      <3>1. g \in State /\ h \in State BY <2>3 DEF Loop, MachineType
      <3>2. fast' = BeginRun(g, budget) /\ slow' = BeginRun(h, budget) BY <2>1 DEF g, h
      <3>3. QED BY <2>6, <3>1, <3>2 DEF BeginRun, State
    <2>9. Watch(code', fast') BY <1>1, <2>8 DEF Together, Watch
    <2>10. fast'.left <= slow'.left /\ slow'.left = fast'.left /\ ~(slow'.left > fast'.left)
      <3>1. budget <= budget /\ ~(budget > budget) BY <2>2
      <3>2. QED BY <2>8, <3>1
    <2>11. QED BY <2>7, <2>9, <2>10 DEF Together
  <1>5. CASE FastStep
    <2>1. fast.left > 0 /\ slow.left = fast.left /\ fast' = Iterate(fast, code, TRUE) /\ slow' = slow /\ code' = code
      BY <1>5 DEF FastStep
    <2>2. Same(fast, slow) /\ Watch(code, fast) BY <1>1, <2>1 DEF Together
    <2> DEFINE f == Iterate(fast, code, TRUE)
    <2>3. /\ Watch(code, f) /\ f.left < fast.left /\ f.left \in Nat
          /\ Follows(code, Iterate(fast, code, FALSE), f)
      BY <1>2, <2>1, <2>2, SkipFollowed
    <2> HIDE DEF f
    <2>4. Same(Iterate(fast, code, FALSE), Iterate(slow, code, FALSE))
      BY <1>2, <1>3, <2>1, <2>2, IterateSame
    <2>5. Follows(code, Iterate(slow, code, FALSE), f) BY <2>3, <2>4, FollowsSame
    <2>6. fast' = f BY <2>1 DEF f
    <2>7. Watch(code', fast') /\ Follows(code', Iterate(slow', code', FALSE), fast')
      BY <2>1, <2>3, <2>5, <2>6
    <2>8. fast'.left <= slow'.left /\ slow'.left # fast'.left
      <3>1. f.left <= fast.left /\ fast.left # f.left BY <1>2, <2>3
      <3>2. fast'.left = f.left /\ slow'.left = fast.left BY <2>1, <2>6
      <3>3. QED BY <3>1, <3>2
    <2>9. QED BY <2>7, <2>8 DEF Together
  <1>6. CASE SlowStep
    <2>1. slow.left > fast.left /\ slow' = Iterate(slow, code, FALSE) /\ fast' = fast /\ code' = code
      BY <1>6 DEF SlowStep
    <2>2. Follows(code, slow', fast) /\ Watch(code, fast) BY <1>1, <2>1 DEF Together
    <2>3. Loop(slow') /\ slow'.left = slow.left - 1
      <3>1. slow.left > 0 BY <1>2, <2>1
      <3>2. Loop(slow') BY <1>2, <2>1, <3>1, IterateTyped
      <3> DEFINE s == Step(slow)
      <3>3. Loop(s) /\ s.left = slow.left - 1 BY <1>2, <3>1, StepTyped
      <3>4. slow' = IF s.exit = "interrupt" THEN [s EXCEPT !.irqs = @ + 1] ELSE s
        BY <2>1 DEF Iterate, Step
      <3> HIDE DEF s
      <3>5. slow'.left = s.left BY <3>3, <3>4 DEF Loop, MachineType, State
      <3>6. QED BY <3>2, <3>3, <3>5
    <2>4. fast.left <= slow'.left
      <3>1. fast.left \in Nat /\ slow.left \in Nat /\ slow.left > fast.left BY <1>2, <2>1
      <3>2. fast.left <= slow.left - 1 BY <3>1
      <3>3. QED BY <2>3, <3>2
    <2>5. slow' \in State BY <2>3 DEF Loop, MachineType
    <2>6. slow'.left = fast.left => Same(fast, slow')
      <3>1. slow'.left = fast.left => Same(slow', fast) BY <1>2, <2>2, <2>5, FollowsEnds
      <3>2. QED BY <3>1 DEF Same, SameCpu, SameBoard, SameClock
    <2>7. slow'.left > fast.left => Follows(code, Iterate(slow', code, FALSE), fast)
      <3>1. SUFFICES ASSUME slow'.left > fast.left PROVE Follows(code, Iterate(slow', code, FALSE), fast) OBVIOUS
      <3>2. fast.left < slow'.left BY <3>1
      <3>3. QED BY <1>2, <2>2, <2>3, <3>2, FollowsOn
    <2>8. QED BY <2>1, <2>2, <2>4, <2>6, <2>7 DEF Together
  <1>7. CASE UNCHANGED vars
    BY <1>1, <1>7 DEF Together, vars
  <1>8. QED BY <1>1, <1>4, <1>5, <1>6, <1>7 DEF Next

(* The idle skip changes nothing: whenever the machine that skips and the    *)
(* one that executes every instruction have used the same budget, they are   *)
(* in the same state at the same time, whatever the firmware does and        *)
(* whatever the host does between two slices.                               *)
THEOREM SkipIsExactThm == Spec => []SkipIsExact
  <1>1. Inv /\ Together => SkipIsExact
    <2>1. SUFFICES ASSUME Inv, Together, fast.left = slow.left PROVE Visible(fast) = Visible(slow)
      BY DEF SkipIsExact
    <2>2. fast \in State /\ slow \in State BY <2>1 DEF Inv, IdleSkipInvariant, TypeOK, MachineType
    <2>3. Same(fast, slow) BY <2>1 DEF Together
    <2>4. QED BY <2>2, <2>3, StatePlain, SameVisible
  <1>2. Init => Inv /\ Together BY InvInit, TogetherInit
  <1>3. (Inv /\ Together) /\ [Next]_vars => (Inv /\ Together)' BY InvNext, TogetherNext
  <1>4. QED BY <1>1, <1>2, <1>3, PTL DEF Spec
=============================================================================
