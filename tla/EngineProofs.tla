---------------------------- MODULE EngineProofs ----------------------------
(***************************************************************************)
(* The C64 port of Parts and the engine behind it: from the operators of   *)
(* C64Hold up, what each leaves of the lines, then what the port's own     *)
(* operators leave told, then one lemma per action.                        *)
(***************************************************************************)
EXTENDS Parts, SequenceTheorems, FiniteSetTheorems, TLAPS

(* A record is known by its fields: what an operator leaves alone is said   *)
(* field by field (Kept, BeKept).                                           *)
PortFields == {"mode", "stop", "type", "reu", "esp", "stretch", "own", "absent", "told", "dbgSeen", "frz", "ops", "posHold",
               "halted", "ses", "dbg", "be", "chips"}
BeFields   == {"reset", "stopped", "paused", "muted", "ultimax", "type", "reu", "posArm", "posHold", "dbgHeld", "uci", "lag"}
DbgFields  == {"own", "hold", "step", "pend", "armed"}
ToldFields == {"stopped", "paused", "muted"}

(* A C64 that runs has no time to make up that it stood for. *)
NoDebt(b) == ~Port!Stands(b) => "stood" \notin b.lag

BeOk(b) ==
    /\ DOMAIN b = BeFields
    /\ \A f \in {"reset", "stopped", "paused", "muted", "ultimax", "reu", "posArm", "posHold", "dbgHeld", "uci"} : b[f] \in BOOLEAN
    /\ NoDebt(b)

DbgOk(d) == DOMAIN d = DbgFields /\ \A f \in {"own", "hold", "step", "armed"} : d[f] \in BOOLEAN

PortOk(s) ==
    /\ DOMAIN s = PortFields /\ s.stretch \in Nat
    /\ BeOk(s.be) /\ DbgOk(s.dbg)
    /\ DOMAIN s.told = ToldFields /\ \A f \in ToldFields : s.told[f] \in BOOLEAN
    /\ \A f \in {"stop", "reu", "absent", "dbgSeen", "frz", "posHold", "halted"} : s[f] \in BOOLEAN

(* The lines the port tells without a cache. *)
Direct(s) ==
    /\ s.be.reset <=> Port!ResetHeld(s)
    /\ s.be.ultimax <=> "ultimax" \in s.mode
    /\ s.be.reu = s.reu
    /\ s.be.posHold = s.posHold

(* With --trx-io: the cache is what the engine has, *)
Cached(s) == \A f \in ToldFields : s.told[f] = s.be[f]

(* and what it has is what it should. *)
Told(s) ==
    /\ s.told.stopped <=> s.stop /\ ~s.dbg.own
    /\ s.told.paused <=> Port!PausedBy(Port!Lines(s))
    /\ s.told.muted <=> Port!Halted(s) \/ s.stop

(* The debugger's hold is the engine's, and the lines followed it. *)
Held(s)     == s.be.dbgHeld <=> Port!Holds(s.dbg)
HoldSeen(s) == Held(s) /\ (s.dbgSeen <=> Port!Holds(s.dbg))

(* Without it: nothing but the cart registers. *)
Bare(s) ==
    /\ ~s.frz /\ ~s.posHold /\ ~s.dbgSeen /\ ~s.be.posArm /\ ~s.be.paused /\ ~s.be.dbgHeld /\ s.ops = << >> /\ ~s.absent
    /\ s.dbg = Port!NewDbg /\ s.stretch = 0 /\ ~s.esp
    /\ s.be.stopped = s.stop /\ s.be.muted = s.stop

PortGood(on, s) ==
    /\ PortOk(s)
    /\ s.ops \in Seq(Port!Ops)
    /\ s.absent \/ Direct(s)
    /\ on => Cached(s) /\ (~s.absent => HoldSeen(s) /\ (s.ops = << >> => Told(s)))
    /\ ~on => Bare(s)

PortInvariant == trx \in BOOLEAN /\ esp \in BOOLEAN /\ PortGood(trx, c) /\ (~trx => ~esp)

PortInv == part = "port" => PortInvariant

(* The lines and bits of the engine an operator leaves alone. *)
BeKept(x, b, F) == \A f \in BeFields \ F : x[f] = b[f]

LEMMA ReanchoredOk ==
  ASSUME NEW b, DOMAIN b = BeFields,
         \A f \in {"reset", "stopped", "paused", "muted", "ultimax", "reu", "posArm", "posHold", "dbgHeld", "uci"} : b[f] \in BOOLEAN
  PROVE  BeOk(Port!Reanchored(b)) /\ BeKept(Port!Reanchored(b), b, {"lag"})
  <1>1. CASE Port!Stands(b)
    <2>1. Port!Reanchored(b) = b BY <1>1 DEF Port!Reanchored
    <2>2. QED BY <1>1, <2>1 DEF BeOk, BeKept, NoDebt, BeFields
  <1>2. CASE ~Port!Stands(b)
    <2> DEFINE r == [b EXCEPT !.lag = {}]
    <2>1. Port!Reanchored(b) = r BY <1>2 DEF Port!Reanchored
    <2>2. DOMAIN r = BeFields /\ r.lag = {} /\ BeKept(r, b, {"lag"}) BY DEF BeFields, BeKept
    <2>3. QED BY <2>1, <2>2 DEF BeOk, BeKept, NoDebt, BeFields
  <1>3. QED BY <1>1, <1>2

LEMMA SetPausedOk ==
  ASSUME NEW b, BeOk(b), NEW on \in BOOLEAN
  PROVE  LET r == Port!SetPaused(b, on) IN BeOk(r) /\ BeKept(r, b, {"paused", "lag"}) /\ r.paused = on
  <1> DEFINE n == [b EXCEPT !.paused = on]
  <1>1. CASE on = b.paused BY <1>1 DEF Port!SetPaused, BeKept
  <1>2. CASE on # b.paused
    <2>1. Port!SetPaused(b, on) = Port!Reanchored(n) BY <1>2 DEF Port!SetPaused
    <2>2. /\ DOMAIN n = BeFields /\ n.paused = on /\ BeKept(n, b, {"paused"})
          /\ \A f \in {"reset", "stopped", "paused", "muted", "ultimax", "reu", "posArm", "posHold", "dbgHeld", "uci"} : n[f] \in BOOLEAN
      BY DEF BeOk, BeFields, BeKept
    <2> HIDE DEF n
    <2>3. BeOk(Port!Reanchored(n)) /\ BeKept(Port!Reanchored(n), n, {"lag"}) BY <2>2, ReanchoredOk
    <2>4. QED BY <2>1, <2>2, <2>3 DEF BeKept, BeFields
  <1>3. QED BY <1>1, <1>2

ToldOk(t) == DOMAIN t = ToldFields /\ \A f \in ToldFields : t[f] \in BOOLEAN

(* The cache is what the engine has; it hears the rest. *)
Hearing(t, b)  == ToldOk(t) /\ \A f \in ToldFields : t[f] = b[f]
Tells(r, b, now) == BeOk(r) /\ BeKept(r, b, ToldFields \cup {"lag"}) /\ \A f \in ToldFields : r[f] = now[f]

LEMMA TellOk ==
  ASSUME NEW b, BeOk(b), NEW told0, Hearing(told0, b), NEW now, ToldOk(now)
  PROVE  Tells(Port!Tell(b, told0, now), b, now)
  <1> DEFINE s == IF now.stopped # told0.stopped THEN [b EXCEPT !.stopped = now.stopped] ELSE b
             p == IF now.paused # told0.paused THEN Port!SetPaused(s, now.paused) ELSE s
             m == IF now.muted # told0.muted THEN [p EXCEPT !.muted = now.muted] ELSE p
  <1>1. /\ now.stopped \in BOOLEAN /\ now.paused \in BOOLEAN /\ now.muted \in BOOLEAN
        /\ told0.stopped = b.stopped /\ told0.paused = b.paused /\ told0.muted = b.muted
    BY DEF Hearing, ToldOk, ToldFields
  <1>2. BeOk(s) /\ BeKept(s, b, {"stopped"}) /\ s.stopped = now.stopped
    <2>1. DOMAIN s = BeFields /\ BeKept(s, b, {"stopped"}) /\ s.stopped = now.stopped
      BY <1>1 DEF BeOk, BeKept, BeFields
    <2> HIDE DEF s
    <2>2. QED BY <1>1, <2>1 DEF BeOk, BeKept, BeFields, NoDebt, Port!Stands
  <1> HIDE DEF s
  <1>3. BeOk(p) /\ BeKept(p, s, {"paused", "lag"}) /\ p.paused = now.paused
    <2>1. s.paused = told0.paused BY <1>1, <1>2 DEF BeKept, BeFields
    <2>2. CASE now.paused # told0.paused BY <1>1, <1>2, <2>2, SetPausedOk
    <2>3. CASE now.paused = told0.paused BY <1>2, <2>1, <2>3 DEF BeKept
    <2>4. QED BY <2>2, <2>3
  <1> HIDE DEF p
  <1>4. BeOk(m) /\ BeKept(m, p, {"muted"}) /\ m.muted = now.muted
    <2>1. p.muted = told0.muted BY <1>1, <1>2, <1>3 DEF BeKept, BeFields
    <2>2. DOMAIN m = BeFields /\ BeKept(m, p, {"muted"}) /\ m.muted = now.muted
      BY <1>1, <1>3, <2>1 DEF BeOk, BeKept, BeFields
    <2> HIDE DEF m
    <2>3. QED BY <1>1, <1>3, <2>2 DEF BeOk, BeKept, BeFields, NoDebt, Port!Stands
  <1>5. Port!Tell(b, told0, now) = m BY DEF Port!Tell, m, p, s
  <1> HIDE DEF m
  <1>6. QED BY <1>2, <1>3, <1>4, <1>5 DEF Tells, BeKept, BeFields, ToldFields

-----------------------------------------------------------------------------
(* The engine's side: C64Hold.                                              *)

LEMMA DbgSyncOk ==
  ASSUME NEW b, BeOk(b), NEW d, DbgOk(d)
  PROVE  LET r == Port!DbgSync(b, d) IN BeOk(r) /\ BeKept(r, b, {"dbgHeld", "lag"}) /\ (r.dbgHeld <=> Port!Holds(d))
  <1> DEFINE h == Port!Holds(d)
             n == [b EXCEPT !.dbgHeld = h]
  <1>0. h \in BOOLEAN BY DEF Port!Holds, DbgOk
  <1> HIDE DEF h
  <1>1. /\ DOMAIN n = BeFields /\ n.dbgHeld = h /\ BeKept(n, b, {"dbgHeld"})
        /\ \A f \in {"reset", "stopped", "paused", "muted", "ultimax", "reu", "posArm", "posHold", "dbgHeld", "uci"} : n[f] \in BOOLEAN
    BY <1>0 DEF BeOk, BeFields, BeKept
  <1> HIDE DEF n
  <1>2. CASE b.dbgHeld /\ ~h
    <2>1. Port!DbgSync(b, d) = Port!Reanchored(n) BY <1>2 DEF Port!DbgSync, n, h
    <2>2. BeOk(Port!Reanchored(n)) /\ BeKept(Port!Reanchored(n), n, {"lag"}) BY <1>1, ReanchoredOk
    <2>3. QED BY <1>1, <2>1, <2>2 DEF BeKept, BeFields, h
  <1>3. CASE ~(b.dbgHeld /\ ~h)
    <2>1. Port!DbgSync(b, d) = n BY <1>3 DEF Port!DbgSync, n, h
    <2>2. BeOk(n) BY <1>0, <1>1, <1>3 DEF BeOk, BeKept, BeFields, NoDebt, Port!Stands
    <2>3. QED BY <1>1, <2>1, <2>2 DEF h, BeKept, BeFields
  <1>4. QED BY <1>2, <1>3

LEMMA BoundaryOk ==
  ASSUME NEW b, NEW d, DbgOk(d), NEW e \in Port!Boundary(b, d)
  PROVE  DbgOk(e) /\ e.own = d.own /\ (e = d \/ Port!Holds(e)) /\ (b.dbgHeld => e = d)
  <1>1. CASE e = d BY <1>1
  <1>2. CASE e # d
    <2>1. ~b.dbgHeld /\ \E why \in Port!Stops(b, d) : e = Port!Stopped(d, why) BY <1>2 DEF Port!Boundary
    <2>2. PICK why : e = Port!Stopped(d, why) BY <2>1
    <2>3. DOMAIN e = DbgFields /\ e.own = d.own /\ e.hold = TRUE /\ e.step = FALSE /\ e.armed = d.armed
      BY <2>2 DEF Port!Stopped, DbgOk, DbgFields
    <2>4. QED BY <2>1, <2>3 DEF DbgOk, Port!Holds
  <1>3. QED BY <1>1, <1>2

(* The lines the port tells. *)
PortLines == {"reset", "stopped", "paused", "muted", "ultimax", "reu"}

(* Outcome r of running the C64 of b and d. *)
Ran(r, b, d) ==
    /\ BeOk(r.be) /\ DbgOk(r.dbg) /\ r.hit \in BOOLEAN
    /\ (r.be.dbgHeld <=> Port!Holds(r.dbg)) /\ (r.be.posHold <=> b.posHold \/ r.hit)
    /\ \A f \in PortLines : r.be[f] = b[f]
    /\ r.dbg.own = d.own /\ (~r.hit => r.be.posArm = b.posArm)
    /\ d = Port!NewDbg /\ ~b.posArm => r.dbg = d /\ ~r.hit

LEMMA RunOk ==
  ASSUME NEW b, BeOk(b), NEW d, DbgOk(d), ~Port!Stands(b), ~Port!Holds(d), NEW r \in Port!Run(b, d)
  PROVE  Ran(r, b, d)
  <1>0. ~b.paused /\ ~b.posHold /\ ~b.dbgHeld BY DEF Port!Stands
  <1> DEFINE ran == [b EXCEPT !.lag = {}]
  <1>1. BeOk(ran) /\ BeKept(ran, b, {"lag"})
    <2>1. DOMAIN ran = BeFields /\ BeKept(ran, b, {"lag"}) /\ ran.lag = {} BY DEF BeOk, BeFields, BeKept
    <2> HIDE DEF ran
    <2>2. QED BY <2>1 DEF BeOk, BeFields, BeKept, NoDebt
  <1>2. CASE r = [be |-> [b EXCEPT !.lag = @ \cup {"uci"}], dbg |-> d, hit |-> FALSE]
    <2> DEFINE x == [b EXCEPT !.lag = @ \cup {"uci"}]
    <2>1. DOMAIN x = BeFields /\ BeKept(x, b, {"lag"}) /\ x.lag = b.lag \cup {"uci"} BY DEF BeOk, BeFields, BeKept
    <2> HIDE DEF x
    <2>2. BeOk(x) BY <2>1 DEF BeOk, BeFields, BeKept, NoDebt, Port!Stands
    <2>3. r.be = x /\ r.dbg = d /\ r.hit = FALSE BY <1>2 DEF x
    <2>4. QED BY <1>0, <2>1, <2>2, <2>3 DEF Ran, BeKept, BeFields, PortLines
  <1>3. ASSUME NEW e \in Port!Boundary(ran, d),
               r = [be |-> IF Port!Holds(e) THEN [Port!DbgSync(ran, e) EXCEPT !.lag = {"stood"}] ELSE ran, dbg |-> e, hit |-> FALSE]
        PROVE  Ran(r, b, d)
    <2> HIDE DEF ran
    <2>1. DbgOk(e) /\ e.own = d.own /\ (e = d \/ Port!Holds(e)) BY <1>3, BoundaryOk
    <2>2. d = Port!NewDbg => e = d
      <3>1. d = Port!NewDbg => Port!Stops(ran, d) = {} BY DEF Port!Stops, Port!NewDbg
      <3>2. QED BY <1>3, <3>1 DEF Port!Boundary
    <2>3. CASE Port!Holds(e)
      <3> DEFINE y == Port!DbgSync(ran, e)
                 x == [y EXCEPT !.lag = {"stood"}]
      <3>1. BeOk(y) /\ BeKept(y, ran, {"dbgHeld", "lag"}) /\ (y.dbgHeld <=> Port!Holds(e)) BY <1>1, <2>1, DbgSyncOk
      <3> HIDE DEF y
      <3>2. DOMAIN x = BeFields /\ BeKept(x, y, {"lag"}) BY <3>1 DEF BeOk, BeFields, BeKept
      <3>3. r.be = x /\ r.dbg = e /\ r.hit = FALSE BY <1>3, <2>3 DEF y
      <3> HIDE DEF x
      <3>4. BeOk(x) /\ x.dbgHeld BY <2>3, <3>1, <3>2 DEF BeOk, BeFields, BeKept, NoDebt, Port!Stands
      <3>5. QED BY <1>0, <1>1, <2>1, <2>2, <2>3, <3>1, <3>2, <3>3, <3>4 DEF Ran, BeKept, BeFields, PortLines
    <2>4. CASE ~Port!Holds(e)
      <3>1. r.be = ran /\ r.dbg = e /\ r.hit = FALSE BY <1>3, <2>4
      <3>2. QED BY <1>0, <1>1, <2>1, <2>2, <2>4, <3>1 DEF Ran, BeKept, BeFields, PortLines
    <2>5. QED BY <2>3, <2>4
  <1>4. CASE b.posArm /\ r = [be |-> [ran EXCEPT !.posHold = TRUE, !.posArm = FALSE, !.lag = {"stood"}], dbg |-> d, hit |-> TRUE]
    <2> HIDE DEF ran
    <2> DEFINE x == [ran EXCEPT !.posHold = TRUE, !.posArm = FALSE, !.lag = {"stood"}]
    <2>1. DOMAIN x = BeFields /\ BeKept(x, ran, {"posHold", "posArm", "lag"}) /\ x.posHold = TRUE /\ x.posArm = FALSE
      BY <1>1 DEF BeOk, BeFields, BeKept
    <2>2. r.be = x /\ r.dbg = d /\ r.hit = TRUE BY <1>4 DEF x
    <2> HIDE DEF x
    <2>3. BeOk(x) BY <1>1, <2>1 DEF BeOk, BeFields, BeKept, NoDebt, Port!Stands
    <2>4. QED BY <1>0, <1>1, <1>4, <2>1, <2>2, <2>3 DEF Ran, BeKept, BeFields, PortLines
  <1>5. CASE r = [be |-> [ran EXCEPT !.uci = TRUE], dbg |-> d, hit |-> FALSE]
    <2> HIDE DEF ran
    <2> DEFINE x == [ran EXCEPT !.uci = TRUE]
    <2>1. DOMAIN x = BeFields /\ BeKept(x, ran, {"uci"}) /\ x.uci = TRUE BY <1>1 DEF BeOk, BeFields, BeKept
    <2>2. r.be = x /\ r.dbg = d /\ r.hit = FALSE BY <1>5 DEF x
    <2> HIDE DEF x
    <2>3. BeOk(x) BY <1>1, <2>1 DEF BeOk, BeFields, BeKept, NoDebt, Port!Stands
    <2>4. QED BY <1>0, <1>1, <2>1, <2>2, <2>3 DEF Ran, BeKept, BeFields, PortLines
  <1>6. CASE b.uci BY <1>2, <1>6 DEF Port!Run
  <1>7. CASE ~b.uci BY <1>3, <1>4, <1>5, <1>7 DEF Port!Run
  <1>8. QED BY <1>6, <1>7

LEMMA AdvanceOk ==
  ASSUME NEW b, BeOk(b), NEW d, DbgOk(d), b.dbgHeld <=> Port!Holds(d), NEW r \in Port!AdvanceTo(b, d)
  PROVE  Ran(r, b, d)
  <1> DEFINE w(u) == [b EXCEPT !.uci = u]
  <1>1. PICK u \in BOOLEAN :
           r \in IF Port!Stands(w(u)) THEN {[be |-> [w(u) EXCEPT !.lag = @ \cup {"stood"}], dbg |-> d, hit |-> FALSE]}
                 ELSE Port!Run(w(u), d)
    BY DEF Port!AdvanceTo
  <1> DEFINE x == w(u)
  <1>2. BeOk(x) /\ BeKept(x, b, {"uci"})
    <2>1. DOMAIN x = BeFields /\ x.uci = u /\ BeKept(x, b, {"uci"}) BY DEF BeOk, BeFields, BeKept
    <2> HIDE DEF x
    <2>2. QED BY <2>1 DEF BeOk, BeFields, BeKept, NoDebt, Port!Stands
  <1>3. CASE Port!Stands(x)
    <2> DEFINE y == [x EXCEPT !.lag = @ \cup {"stood"}]
    <2>1. r.be = y /\ r.dbg = d /\ r.hit = FALSE BY <1>1, <1>3
    <2> HIDE DEF x
    <2>2. DOMAIN y = BeFields /\ BeKept(y, x, {"lag"}) BY <1>2 DEF BeOk, BeFields, BeKept
    <2> HIDE DEF y
    <2>3. BeOk(y) BY <1>2, <1>3, <2>2 DEF BeOk, BeFields, BeKept, NoDebt, Port!Stands
    <2>4. QED BY <1>2, <2>1, <2>2, <2>3 DEF Ran, BeKept, BeFields, PortLines
  <1>4. CASE ~Port!Stands(x)
    <2>1. r \in Port!Run(x, d) BY <1>1, <1>4
    <2> HIDE DEF x
    <2>2. ~Port!Holds(d) BY <1>2, <1>4 DEF Port!Stands, BeKept, BeFields
    <2>3. Ran(r, x, d) BY <1>2, <1>4, <2>1, <2>2, RunOk
    <2>4. QED BY <1>2, <2>3 DEF Ran, BeKept, BeFields, PortLines
  <1>5. QED BY <1>3, <1>4

(* Outcome r of a write of the debug block. *)
SameLines(x, b) == x.posHold = b.posHold /\ \A f \in PortLines : x[f] = b[f]

Told2(r, b, d) == BeOk(r.be) /\ DbgOk(r.dbg) /\ SameLines(r.be, b) /\ r.dbg.own = d.own

LEMMA DbgChangedOk ==
  ASSUME NEW b, BeOk(b), NEW d, DbgOk(d), NEW r \in Port!DbgChanged(b, d)
  PROVE  Told2(r, b, d) /\ (r.be.dbgHeld <=> Port!Holds(r.dbg))
  <1> DEFINE s == Port!DbgSync(b, d)
  <1>1. BeOk(s) /\ BeKept(s, b, {"dbgHeld", "lag"}) BY DbgSyncOk
  <1>2. PICK e \in {d} \cup Port!Boundary(s, d) : r = [be |-> Port!DbgSync(s, e), dbg |-> e] BY DEF Port!DbgChanged
  <1> HIDE DEF s
  <1>3. DbgOk(e) /\ e.own = d.own BY <1>2, BoundaryOk
  <1> DEFINE y == Port!DbgSync(s, e)
  <1>4. BeOk(y) /\ BeKept(y, s, {"dbgHeld", "lag"}) /\ (y.dbgHeld <=> Port!Holds(e)) BY <1>1, <1>3, DbgSyncOk
  <1>5. r.be = y /\ r.dbg = e BY <1>2
  <1> HIDE DEF y
  <1>6. QED BY <1>1, <1>3, <1>4, <1>5 DEF Told2, SameLines, BeKept, BeFields, PortLines

LEMMA DbgRunStepOk ==
  ASSUME NEW b, BeOk(b), NEW d, DbgOk(d), NEW r \in Port!DbgRunStep(b, d)
  PROVE  Told2(r, b, d)
  <1> DEFINE s == Port!DbgSync(b, d)
  <1>1. BeOk(s) /\ BeKept(s, b, {"dbgHeld", "lag"}) /\ (s.dbgHeld <=> Port!Holds(d)) BY DbgSyncOk
  <1>2. CASE ~d.step \/ s.paused \/ s.posHold
    <2>1. r.be = s /\ r.dbg = d BY <1>2 DEF Port!DbgRunStep
    <2> HIDE DEF s
    <2>2. QED BY <1>1, <2>1 DEF Told2, SameLines, BeKept, BeFields, PortLines
  <1>3. CASE ~(~d.step \/ s.paused \/ s.posHold)
    <2>1. PICK q \in Port!Run(s, d) : ~q.hit /\ \E e \in Port!Boundary(q.be, q.dbg) : r = [be |-> Port!DbgSync(q.be, e), dbg |-> e]
      BY <1>3 DEF Port!DbgRunStep
    <2>2. PICK e \in Port!Boundary(q.be, q.dbg) : r = [be |-> Port!DbgSync(q.be, e), dbg |-> e] BY <2>1
    <2> HIDE DEF s
    <2>3. ~Port!Stands(s) /\ ~Port!Holds(d) BY <1>1, <1>3 DEF Port!Stands, Port!Holds
    <2>4. Ran(q, s, d) BY <1>1, <2>1, <2>3, RunOk
    <2>5. BeOk(q.be) /\ DbgOk(q.dbg) BY <2>4 DEF Ran
    <2>6. DbgOk(e) /\ e.own = q.dbg.own BY <2>2, <2>5, BoundaryOk
    <2> DEFINE y == Port!DbgSync(q.be, e)
    <2>7. BeOk(y) /\ BeKept(y, q.be, {"dbgHeld", "lag"}) BY <2>5, <2>6, DbgSyncOk
    <2>8. r.be = y /\ r.dbg = e BY <2>2
    <2> HIDE DEF y
    <2>9. y.posHold = q.be.posHold /\ s.posHold = b.posHold /\ q.be.posHold \in BOOLEAN /\ s.posHold \in BOOLEAN
      BY <1>1, <2>5, <2>7 DEF BeKept, BeFields, BeOk
    <2>10. y.posHold = b.posHold BY <2>1, <2>4, <2>9 DEF Ran
    <2>11. \A f \in PortLines : y[f] = b[f] BY <1>1, <2>4, <2>7 DEF Ran, BeKept, BeFields, PortLines
    <2>12. e.own = d.own BY <2>4, <2>6 DEF Ran
    <2>13. QED BY <2>6, <2>7, <2>8, <2>10, <2>11, <2>12 DEF Told2, SameLines
  <1>4. QED BY <1>2, <1>3

-----------------------------------------------------------------------------
(* The port's side.                                                         *)

Kept(r, s, F) == DOMAIN r = PortFields /\ \A f \in PortFields \ F : r[f] = s[f]

LEMMA LinesKept ==
  ASSUME NEW s, NEW r, Kept(r, s, {"told", "be", "dbgSeen", "halted", "ses", "chips", "ops", "absent", "type", "reu", "own"})
  PROVE  /\ (Port!OwnReset(r) <=> Port!OwnReset(s)) /\ (Port!ResetHeld(r) <=> Port!ResetHeld(s))
         /\ Port!Lines(r) = Port!Lines(s) /\ (Port!Halted(r) <=> Port!Halted(s))
  <1>1. r.mode = s.mode /\ r.esp = s.esp /\ r.stretch = s.stretch /\ r.frz = s.frz /\ r.stop = s.stop /\ r.dbg = s.dbg
        /\ r.posHold = s.posHold
    BY DEF Kept, PortFields
  <1>2. (Port!OwnReset(r) <=> Port!OwnReset(s)) /\ (Port!ResetHeld(r) <=> Port!ResetHeld(s))
    BY <1>1 DEF Port!OwnReset, Port!ResetHeld
  <1>3. Port!Lines(r) = Port!Lines(s) BY <1>1 DEF Port!Lines, Port!ResetHeld, Port!OwnReset
  <1>4. QED BY <1>1, <1>2, <1>3 DEF Port!Halted

LEMMA SessionStepOk ==
  ASSUME NEW s, DOMAIN s = PortFields, NEW lines
  PROVE  Kept(Port!SessionStep(s, lines), s, {"ses", "chips"})
  BY DEF Port!SessionStep, Kept, PortFields

LEMMA LinesBool ==
  ASSUME NEW s, PortOk(s)
  PROVE  /\ Port!PausedBy(Port!Lines(s)) \in BOOLEAN /\ Port!Halted(s) \in BOOLEAN /\ Port!Holds(s.dbg) \in BOOLEAN
         /\ Port!ResetHeld(s) \in BOOLEAN
  BY DEF PortOk, DbgOk, Port!PausedBy, Port!Lines, Port!Halted, Port!Holds, Port!ResetHeld, Port!OwnReset

(* What trx_apply leaves. *)
Applied(r, s) ==
    /\ PortOk(r) /\ Cached(r) /\ Told(r)
    /\ r.dbgSeen <=> Port!Holds(r.dbg)
    /\ Kept(r, s, {"told", "be", "dbgSeen", "halted", "ses", "chips"})
    /\ BeKept(r.be, s.be, ToldFields \cup {"lag"})

LEMMA TrxApplyOk ==
  ASSUME NEW s, PortOk(s), Cached(s)
  PROVE  Applied(Port!TrxApply(s), s)
  <1> DEFINE now == Port!ToldNow(s, Port!Lines(s), s.stop /\ ~s.dbg.own)
             be  == Port!Tell(s.be, s.told, now)
             h   == Port!Holds(s.dbg)
             k   == Port!Halted(s)
             t   == [s EXCEPT !.told = now, !.be = be, !.dbgSeen = h, !.halted = k]
             r   == Port!SessionStep(t, Port!Lines(s))
  <1>1. h \in BOOLEAN /\ k \in BOOLEAN BY LinesBool
  <1>2. /\ ToldOk(now) /\ (now.stopped <=> s.stop /\ ~s.dbg.own)
        /\ (now.paused <=> Port!PausedBy(Port!Lines(s))) /\ (now.muted <=> k \/ s.stop)
    <2>1. s.stop \in BOOLEAN /\ s.dbg.own \in BOOLEAN BY DEF PortOk, DbgOk
    <2> DEFINE a == s.stop /\ ~s.dbg.own
               p == Port!PausedBy(Port!Lines(s))
               m == k \/ s.stop
    <2>2. a \in BOOLEAN /\ p \in BOOLEAN /\ m \in BOOLEAN BY <1>1, <2>1, LinesBool
    <2>3. now = [stopped |-> a, paused |-> p, muted |-> m] BY DEF Port!ToldNow
    <2> HIDE DEF a, p, m, now
    <2>4. ToldOk(now) /\ (now.stopped <=> a) /\ (now.paused <=> p) /\ (now.muted <=> m) BY <2>2, <2>3 DEF ToldOk, ToldFields
    <2>5. QED BY <2>4 DEF a, p, m
  <1> HIDE DEF now, h, k
  <1>3. BeOk(be) /\ BeKept(be, s.be, ToldFields \cup {"lag"}) /\ \A f \in ToldFields : be[f] = now[f]
    <2>1. BeOk(s.be) /\ ToldOk(s.told) /\ \A f \in ToldFields : s.told[f] = s.be[f] BY DEF PortOk, ToldOk, Cached
    <2>2. Hearing(s.told, s.be) /\ ToldOk(now) BY <1>2, <2>1 DEF Hearing
    <2>3. Tells(be, s.be, now) BY <2>1, <2>2, TellOk
    <2> HIDE DEF be
    <2>4. QED BY <2>3 DEF Tells
  <1> HIDE DEF be
  <1>4. /\ DOMAIN t = PortFields /\ t.told = now /\ t.be = be /\ t.dbgSeen = h /\ t.halted = k
        /\ Kept(t, s, {"told", "be", "dbgSeen", "halted"})
    BY DEF PortOk, PortFields, Kept
  <1>5. Port!TrxApply(s) = r
    <2>1. Port!Lines(t) = Port!Lines(s) BY <1>4, LinesKept DEF Kept, PortFields
    <2>2. QED BY <2>1 DEF Port!TrxApply, Port!Hear, r, t, be, now, h, k
  <1> HIDE DEF t
  <1>6. Kept(r, t, {"ses", "chips"}) BY <1>4, SessionStepOk
  <1> HIDE DEF r
  <1>7. Kept(r, s, {"told", "be", "dbgSeen", "halted", "ses", "chips"}) /\ r.told = now /\ r.be = be /\ r.dbgSeen = h /\ r.halted = k
    BY <1>4, <1>6 DEF Kept, PortFields
  <1>8. PortOk(r) BY <1>1, <1>2, <1>3, <1>7 DEF PortOk, Kept, PortFields, ToldOk
  <1>9. Cached(r) BY <1>3, <1>7 DEF Cached
  <1>10. r.dbg = s.dbg /\ r.stop = s.stop /\ Port!Lines(r) = Port!Lines(s) /\ (Port!Halted(r) <=> Port!Halted(s))
    BY <1>7, LinesKept DEF Kept, PortFields
  <1>11. Told(r)
    <2>1. QED BY <1>2, <1>7, <1>10 DEF Told, k
  <1>12. QED BY <1>3, <1>5, <1>7, <1>8, <1>9, <1>10, <1>11 DEF Applied, h

(* The port with a core, between two of its steps: with --trx-io, *)
Ready(s) == PortOk(s) /\ Direct(s) /\ Cached(s) /\ ~s.absent /\ s.ops = << >>
Exact(s) == Ready(s) /\ Told(s) /\ HoldSeen(s)

(* and with or without: lines may have moved; trx_update has told them. *)
Plain(s)  == PortOk(s) /\ Direct(s) /\ Bare(s)
Moved(s)  == IF trx THEN Ready(s) /\ Held(s) ELSE Plain(s)
Steady(s) == IF trx THEN Exact(s) ELSE Plain(s)

LEMMA ApplyReady ==
  ASSUME NEW s, Ready(s)
  PROVE  LET r == Port!TrxApply(s)
         IN  /\ Ready(r) /\ Told(r) /\ (r.dbgSeen <=> Port!Holds(r.dbg)) /\ (Held(s) => Exact(r))
             /\ Kept(r, s, {"told", "be", "dbgSeen", "halted", "ses", "chips"})
  <1> DEFINE r == Port!TrxApply(s)
  <1>1. Applied(r, s) BY TrxApplyOk DEF Ready
  <1> HIDE DEF r
  <1>0. Kept(r, s, {"told", "be", "dbgSeen", "halted", "ses", "chips"}) /\ BeKept(r.be, s.be, ToldFields \cup {"lag"})
    BY <1>1 DEF Applied
  <1>2. /\ r.mode = s.mode /\ r.reu = s.reu /\ r.posHold = s.posHold /\ r.absent = s.absent /\ r.ops = s.ops /\ r.dbg = s.dbg
        /\ r.be.reset = s.be.reset /\ r.be.ultimax = s.be.ultimax /\ r.be.reu = s.be.reu /\ r.be.posHold = s.be.posHold
        /\ r.be.dbgHeld = s.be.dbgHeld /\ (Port!ResetHeld(r) <=> Port!ResetHeld(s))
    <2>1. Kept(r, s, {"told", "be", "dbgSeen", "halted", "ses", "chips", "ops", "absent", "type", "reu", "own"})
      BY <1>0 DEF Kept
    <2>2. Port!ResetHeld(r) <=> Port!ResetHeld(s) BY <2>1, LinesKept
    <2>3. QED BY <1>0, <2>2 DEF Kept, BeKept, PortFields, BeFields, ToldFields
  <1>3. Ready(r) BY <1>1, <1>2 DEF Ready, Direct, Applied
  <1>4. QED BY <1>1, <1>2, <1>3 DEF Applied, Exact, HoldSeen, Held, r

(* A debug block and an engine put in its place. *)
Put(r, s, b, d) == r = [s EXCEPT !.be = b, !.dbg = d]

LEMMA PutDbg ==
  ASSUME NEW s, Ready(s), NEW b, BeOk(b), SameLines(b, s.be), NEW d, DbgOk(d), NEW r, Put(r, s, b, d)
  PROVE  Ready(r) /\ Kept(r, s, {"be", "dbg"}) /\ r.be = b /\ r.dbg = d
  <1>1. Kept(r, s, {"be", "dbg"}) /\ r.be = b /\ r.dbg = d BY DEF Put, Ready, PortOk, PortFields, Kept
  <1>2. /\ r.mode = s.mode /\ r.esp = s.esp /\ r.stretch = s.stretch /\ r.reu = s.reu /\ r.posHold = s.posHold
        /\ r.absent = s.absent /\ r.ops = s.ops /\ r.told = s.told
    BY <1>1 DEF Kept, PortFields
  <1>3. Port!ResetHeld(r) <=> Port!ResetHeld(s) BY <1>2 DEF Port!ResetHeld, Port!OwnReset
  <1>4. PortOk(r) BY <1>1 DEF Ready, PortOk, Kept, PortFields
  <1>5. Direct(r) BY <1>1, <1>2, <1>3 DEF Ready, Direct, PortLines, SameLines
  <1>6. Cached(r) BY <1>1, <1>2 DEF Ready, Cached, PortLines, ToldFields, SameLines
  <1>7. QED BY <1>1, <1>2, <1>4, <1>5, <1>6 DEF Ready

LEMMA DbgReleaseOk ==
  ASSUME NEW s, Ready(s)
  PROVE  Ready(Port!DbgRelease(s)) /\ Kept(Port!DbgRelease(s), s, {"ses", "chips"})
  <1> DEFINE r == Port!DbgRelease(s)
  <1>1. Kept(r, s, {"ses", "chips"}) BY SessionStepOk DEF Port!DbgRelease, Ready, PortOk
  <1> HIDE DEF r
  <1>2. /\ r.mode = s.mode /\ r.esp = s.esp /\ r.stretch = s.stretch /\ r.reu = s.reu /\ r.posHold = s.posHold /\ r.be = s.be
        /\ r.absent = s.absent /\ r.ops = s.ops /\ r.told = s.told /\ r.dbg = s.dbg
    BY <1>1 DEF Kept, PortFields
  <1>3. Port!ResetHeld(r) <=> Port!ResetHeld(s) BY <1>2 DEF Port!ResetHeld, Port!OwnReset
  <1>4. PortOk(r) BY <1>1 DEF Ready, PortOk, Kept, PortFields
  <1>5. QED BY <1>1, <1>2, <1>3, <1>4 DEF Ready, Direct, Cached, r

LEMMA DbgActOk ==
  ASSUME trx, NEW s, Ready(s), NEW op \in Port!Ops, op.reg \notin {"gate", "pos"}, NEW t \in Port!DbgAct(s, op)
  PROVE  Ready(t)
  <1>0. op.reg \in {"owner", "unit", "run", "step", "pause"} /\ (op.reg \in {"owner", "unit"} => op.on \in BOOLEAN) BY DEF Port!Ops
  <1>1. DbgOk(s.dbg) /\ DOMAIN s = PortFields /\ BeOk(s.be) BY DEF Ready, PortOk
  <1>2. ASSUME NEW d, DbgOk(d), NEW u, u = [s EXCEPT !.dbg = d] PROVE Ready(u)
    <2>1. Put(u, s, s.be, d) BY <1>1, <1>2 DEF PortFields, Put
    <2>2. SameLines(s.be, s.be) BY DEF SameLines
    <2>3. QED BY <1>1, <1>2, <2>1, <2>2, PutDbg
  <1>3. CASE op.reg = "owner"
    <2>1. DbgOk([s.dbg EXCEPT !.own = op.on]) BY <1>0, <1>1, <1>3 DEF DbgOk, DbgFields
    <2>2. t = [s EXCEPT !.dbg = [s.dbg EXCEPT !.own = op.on]] BY <1>1, <1>3 DEF Port!DbgAct
    <2>3. QED BY <1>2, <2>1, <2>2
  <1>4. CASE op.reg = "unit"
    <2>1. DbgOk([s.dbg EXCEPT !.armed = op.on]) BY <1>0, <1>1, <1>4 DEF DbgOk, DbgFields
    <2>2. t = [s EXCEPT !.dbg = [s.dbg EXCEPT !.armed = op.on]] BY <1>1, <1>4 DEF Port!DbgAct
    <2>3. QED BY <1>2, <2>1, <2>2
  <1> DEFINE q == Port!DbgRelease(s)
  <1>5. Ready(q) /\ Kept(q, s, {"ses", "chips"}) BY DbgReleaseOk
  <1>6. q.dbg = s.dbg /\ DOMAIN q = PortFields /\ BeOk(q.be) BY <1>5 DEF Kept, PortFields, Ready, PortOk
  <1>7. CASE op.reg = "run"
    <2>1. DbgOk(Port!Released(s.dbg)) BY <1>1 DEF DbgOk, DbgFields, Port!Released
    <2>2. t = [q EXCEPT !.dbg = Port!Released(s.dbg)] BY <1>6, <1>7 DEF Port!DbgAct
    <2> HIDE DEF q
    <2>3. Put(t, q, q.be, Port!Released(s.dbg)) BY <1>6, <2>2 DEF PortFields, Put
    <2>4. SameLines(q.be, q.be) BY DEF SameLines
    <2>5. QED BY <1>5, <1>6, <2>1, <2>3, <2>4, PutDbg
  <1>8. CASE op.reg = "pause"
    <2>1. DbgOk([s.dbg EXCEPT !.hold = TRUE]) /\ DbgOk([s.dbg EXCEPT !.pend = @ \cup {op.at}]) BY <1>1 DEF DbgOk, DbgFields
    <2>2. t = [s EXCEPT !.dbg = [s.dbg EXCEPT !.hold = TRUE]] \/ t = [s EXCEPT !.dbg = [s.dbg EXCEPT !.pend = @ \cup {op.at}]]
      BY <1>1, <1>8 DEF Port!DbgAct
    <2>3. QED BY <1>2, <2>1, <2>2
  <1>9. CASE op.reg = "step"
    <2>1. CASE ~s.halted \/ s.dbg.step
      <3>1. t = s BY <1>9, <2>1 DEF Port!DbgAct
      <3>2. QED BY <3>1
    <2>2. CASE ~(~s.halted \/ s.dbg.step)
      <3> DEFINE p == [q EXCEPT !.dbg = Port!Stepping(@)]
                 u == Port!TrxUpdate(p)
      <3>1. PICK r \in Port!DbgRunStep(u.be, u.dbg) : t = Port!With(u, r) BY <1>9, <2>2 DEF Port!DbgAct
      <3> HIDE DEF q
      <3>2. DbgOk(Port!Stepping(q.dbg)) BY <1>1, <1>6 DEF DbgOk, DbgFields, Port!Stepping
      <3>3. Put(p, q, q.be, Port!Stepping(q.dbg)) BY <1>6 DEF PortFields, Put
      <3> HIDE DEF p
      <3>10. SameLines(q.be, q.be) BY DEF SameLines
      <3>4. Ready(p) BY <1>5, <1>6, <3>2, <3>3, <3>10, PutDbg
      <3>5. Ready(u) BY <3>4, ApplyReady DEF Port!TrxUpdate
      <3> HIDE DEF u
      <3>6. BeOk(u.be) /\ DbgOk(u.dbg) BY <3>5 DEF Ready, PortOk
      <3>7. Told2(r, u.be, u.dbg) BY <3>1, <3>6, DbgRunStepOk
      <3>8. Put(t, u, r.be, r.dbg) BY <3>1 DEF Port!With, Put
      <3>9. QED BY <3>5, <3>7, <3>8, PutDbg DEF Told2
    <2>3. QED BY <2>1, <2>2
  <1>10. QED BY <1>0, <1>3, <1>4, <1>7, <1>8, <1>9

LEMMA ActedOk ==
  ASSUME trx, NEW s, Ready(s), Held(s), NEW op \in Port!Ops, NEW t \in Port!Acted(s, op)
  PROVE  Ready(t) /\ Held(t)
  <1>1. DbgOk(s.dbg) /\ DOMAIN s = PortFields /\ BeOk(s.be) BY DEF Ready, PortOk
  <1>2. CASE op.reg = "gate"
    <2>1. op.on \in BOOLEAN BY <1>2 DEF Port!Ops
    <2>2. t = [s EXCEPT !.frz = op.on] BY <1>2 DEF Port!Acted
    <2>3. Kept(t, s, {"frz"}) /\ t.frz = op.on BY <1>1, <2>2 DEF Kept, PortFields
    <2>4. /\ t.mode = s.mode /\ t.esp = s.esp /\ t.stretch = s.stretch /\ t.reu = s.reu /\ t.posHold = s.posHold /\ t.be = s.be
          /\ t.absent = s.absent /\ t.ops = s.ops /\ t.told = s.told /\ t.dbg = s.dbg
      BY <2>3 DEF Kept, PortFields
    <2>5. PortOk(t) BY <2>1, <2>3 DEF Ready, PortOk, Kept, PortFields
    <2>6. QED BY <2>4, <2>5 DEF Ready, Direct, Cached, Held, Port!ResetHeld, Port!OwnReset
  <1>3. CASE op.reg = "pos"
    <2>1. op.on \in BOOLEAN /\ op.release \in BOOLEAN BY <1>3 DEF Port!Ops
    <2> DEFINE a == Port!SetStopPos(s.be, op.on)
               b == IF op.release THEN Port!ReleasePos(a) ELSE a
               h == s.posHold /\ ~op.release
    <2>2. t = [s EXCEPT !.posHold = h, !.be = b] BY <1>1, <1>3 DEF Port!Acted, PortFields
    <2>3. BeOk(a) /\ BeKept(a, s.be, {"posArm"})
      <3>1. DOMAIN a = BeFields /\ BeKept(a, s.be, {"posArm"}) /\ a.posArm = op.on
        BY <1>1 DEF Port!SetStopPos, BeOk, BeFields, BeKept
      <3> HIDE DEF a
      <3>2. QED BY <1>1, <2>1, <3>1 DEF BeOk, BeFields, BeKept, NoDebt, Port!Stands
    <2> HIDE DEF a
    <2>4. BeOk(b) /\ BeKept(b, a, {"posHold", "lag"}) /\ b.posHold = (IF op.release THEN FALSE ELSE a.posHold)
      <3>1. CASE op.release /\ a.posHold
        <4> DEFINE n == [a EXCEPT !.posHold = FALSE]
        <4>1. b = Port!Reanchored(n) BY <3>1 DEF Port!ReleasePos
        <4>2. /\ DOMAIN n = BeFields /\ BeKept(n, a, {"posHold"}) /\ n.posHold = FALSE
              /\ \A f \in {"reset", "stopped", "paused", "muted", "ultimax", "reu", "posArm", "posHold", "dbgHeld", "uci"} : n[f] \in BOOLEAN
          BY <2>3 DEF BeOk, BeFields, BeKept
        <4> HIDE DEF n
        <4>3. BeOk(Port!Reanchored(n)) /\ BeKept(Port!Reanchored(n), n, {"lag"}) BY <4>2, ReanchoredOk
        <4>4. QED BY <3>1, <4>1, <4>2, <4>3 DEF BeKept, BeFields
      <3>2. CASE ~(op.release /\ a.posHold)
        <4>1. b = a BY <3>2 DEF Port!ReleasePos
        <4>2. a.posHold \in BOOLEAN BY <2>3 DEF BeOk
        <4>3. QED BY <2>3, <3>2, <4>1, <4>2 DEF BeKept
      <3>3. QED BY <3>1, <3>2
    <2> HIDE DEF b
    <2>5. s.posHold \in BOOLEAN /\ s.be.posHold = s.posHold /\ a.posHold = s.be.posHold
      BY <2>3 DEF Ready, PortOk, Direct, BeKept, BeFields
    <2>6. h \in BOOLEAN /\ b.posHold = h BY <2>1, <2>4, <2>5
    <2> HIDE DEF h
    <2>7. Kept(t, s, {"posHold", "be"}) /\ t.posHold = h /\ t.be = b BY <1>1, <2>2 DEF Kept, PortFields
    <2>8. /\ t.mode = s.mode /\ t.esp = s.esp /\ t.stretch = s.stretch /\ t.reu = s.reu
          /\ t.absent = s.absent /\ t.ops = s.ops /\ t.told = s.told /\ t.dbg = s.dbg
      BY <2>7 DEF Kept, PortFields
    <2>9. PortOk(t) BY <2>4, <2>6, <2>7 DEF Ready, PortOk, Kept, PortFields
    <2>10. (\A f \in PortLines : b[f] = s.be[f]) /\ b.dbgHeld = s.be.dbgHeld BY <2>3, <2>4 DEF BeKept, BeFields, PortLines
    <2>11. Direct(t) BY <2>6, <2>7, <2>8, <2>10 DEF Ready, Direct, PortLines, Port!ResetHeld, Port!OwnReset
    <2>12. Cached(t) BY <2>7, <2>8, <2>10 DEF Ready, Cached, PortLines, ToldFields
    <2>13. QED BY <2>7, <2>8, <2>9, <2>10, <2>11, <2>12 DEF Ready, Held
  <1>4. CASE op.reg \notin {"gate", "pos"}
    <2>1. PICK u \in Port!DbgAct(s, op) : \E r \in Port!DbgChanged(u.be, u.dbg) : t = Port!With(u, r) BY <1>4 DEF Port!Acted
    <2>2. PICK r \in Port!DbgChanged(u.be, u.dbg) : t = Port!With(u, r) BY <2>1
    <2>3. Ready(u) BY <1>4, <2>1, DbgActOk
    <2>4. BeOk(u.be) /\ DbgOk(u.dbg) BY <2>3 DEF Ready, PortOk
    <2>5. Told2(r, u.be, u.dbg) /\ (r.be.dbgHeld <=> Port!Holds(r.dbg)) BY <2>2, <2>4, DbgChangedOk
    <2>6. Put(t, u, r.be, r.dbg) BY <2>2 DEF Port!With, Put
    <2>7. Ready(t) /\ t.be = r.be /\ t.dbg = r.dbg BY <2>3, <2>5, <2>6, PutDbg DEF Told2
    <2>8. QED BY <2>5, <2>7 DEF Held
  <1>5. QED BY <1>2, <1>3, <1>4

LEMMA UpdateOk ==
  ASSUME NEW s, Moved(s)
  PROVE  Steady(Port!TrxUpdate(s))
  <1>1. CASE trx BY <1>1, ApplyReady DEF Moved, Steady, Port!TrxUpdate
  <1>2. CASE ~trx BY <1>2 DEF Moved, Steady, Port!TrxUpdate
  <1>3. QED BY <1>1, <1>2

LEMMA SteadyMoved == ASSUME NEW s, Steady(s) PROVE Moved(s)
  BY DEF Steady, Moved, Exact, HoldSeen

(* x is s but for a line the engine is told at once. *)
Alike(x, s) ==
    /\ Kept(x, s, {"be", "ses", "chips", "type", "reu", "mode", "stretch", "own", "esp"})
    /\ BeOk(x.be) /\ BeKept(x.be, s.be, {"reset", "ultimax", "reu", "type", "uci", "lag"})
    /\ x.reu \in BOOLEAN /\ x.stretch \in Nat /\ (~trx => x.stretch = 0 /\ ~x.esp)

LEMMA AlikeMoved ==
  ASSUME NEW s, Moved(s), NEW x, Alike(x, s), Direct(x)
  PROVE  Moved(x)
  <1>1. /\ x.stop = s.stop /\ x.absent = s.absent /\ x.told = s.told /\ x.dbgSeen = s.dbgSeen /\ x.frz = s.frz
        /\ x.ops = s.ops /\ x.posHold = s.posHold /\ x.halted = s.halted /\ x.dbg = s.dbg /\ DOMAIN x = PortFields
    BY DEF Alike, Kept, PortFields
  <1>2. /\ x.be.stopped = s.be.stopped /\ x.be.paused = s.be.paused /\ x.be.muted = s.be.muted /\ x.be.posArm = s.be.posArm
        /\ x.be.posHold = s.be.posHold /\ x.be.dbgHeld = s.be.dbgHeld
    BY DEF Alike, BeKept, BeFields
  <1>3. PortOk(x)
    <2>1. PortOk(s) BY DEF Moved, Ready, Plain
    <2>2. BeOk(x.be) /\ x.reu \in BOOLEAN /\ x.stretch \in Nat BY DEF Alike
    <2>3. QED BY <1>1, <2>1, <2>2 DEF PortOk
  <1>4. CASE trx
    <2>1. Cached(x) BY <1>1, <1>2, <1>4 DEF Moved, Ready, Cached, ToldFields
    <2>2. QED BY <1>1, <1>2, <1>3, <1>4, <2>1 DEF Moved, Ready, Held
  <1>5. CASE ~trx
    <2>1. Bare(x) BY <1>1, <1>2, <1>5 DEF Moved, Plain, Bare, Alike
    <2>2. QED BY <1>3, <1>5, <2>1 DEF Moved, Plain
  <1>6. QED BY <1>4, <1>5

(* One whose lines are those of s is as steady. *)
LEMMA AlikeSteady ==
  ASSUME NEW s, Steady(s), NEW x, Alike(x, s), Direct(x), Kept(x, s, {"be", "ses", "chips", "type", "reu"})
  PROVE  Steady(x)
  <1>1. Moved(x) BY SteadyMoved, AlikeMoved
  <1>2. CASE trx
    <2>1. x.stop = s.stop /\ x.dbg = s.dbg /\ x.told = s.told /\ x.dbgSeen = s.dbgSeen
      BY DEF Kept, PortFields
    <2>2. Kept(x, s, {"told", "be", "dbgSeen", "halted", "ses", "chips", "ops", "absent", "type", "reu", "own"})
      BY DEF Kept
    <2>3. Port!Lines(x) = Port!Lines(s) /\ (Port!Halted(x) <=> Port!Halted(s)) BY <2>2, LinesKept
    <2>4. Told(x) BY <1>2, <2>1, <2>3 DEF Steady, Exact, Told
    <2>5. QED BY <1>1, <1>2, <2>1, <2>4 DEF Steady, Exact, HoldSeen, Moved
  <1>3. CASE ~trx BY <1>1, <1>3 DEF Steady, Moved
  <1>4. QED BY <1>2, <1>3

LEMMA SetResetOk ==
  ASSUME NEW b, BeOk(b), NEW on \in BOOLEAN
  PROVE  LET r == Port!SetReset(b, on) IN BeOk(r) /\ BeKept(r, b, {"reset", "uci", "lag"}) /\ r.reset = on
  <1> DEFINE l == IF on THEN b.lag ELSE {}
             r == [b EXCEPT !.reset = on, !.uci = FALSE, !.lag = l]
  <1>1. "stood" \notin b.lag => "stood" \notin l OBVIOUS
  <1>2. Port!SetReset(b, on) = r BY DEF Port!SetReset, BeOk, BeFields
  <1> HIDE DEF l
  <1>3. DOMAIN r = BeFields /\ BeKept(r, b, {"reset", "uci", "lag"}) /\ r.reset = on /\ r.uci = FALSE /\ r.lag = l
    BY DEF BeOk, BeFields, BeKept
  <1> HIDE DEF r
  <1>4. BeOk(r) BY <1>1, <1>3 DEF BeOk, BeFields, BeKept, NoDebt, Port!Stands
  <1>5. QED BY <1>2, <1>3, <1>4

LEMMA ResetChangedOk ==
  ASSUME NEW s, PortOk(s), NEW before \in BOOLEAN
  PROVE  LET r == Port!ResetChanged(s, before)
         IN  /\ PortOk(r) /\ Kept(r, s, {"stretch", "own", "ses", "chips", "be"})
             /\ BeKept(r.be, s.be, {"reset", "type", "uci", "lag"})
             /\ (s.be.reset <=> before) => (r.be.reset <=> Port!ResetHeld(r))
             /\ ~trx => r.stretch \in {0, s.stretch}
  <1> DEFINE own == Port!OwnReset(s)
             st  == IF own THEN 0 ELSE IF trx /\ s.own /\ ~s.absent THEN Stretch ELSE s.stretch
             t   == [s EXCEPT !.stretch = st, !.own = own]
             z   == IF trx /\ ~before THEN Port!ResetSession(t.ses, t.chips) ELSE [ses |-> t.ses, chips |-> t.chips]
             b   == IF before THEN [s.be EXCEPT !.type = t.type] ELSE s.be
             u   == [t EXCEPT !.ses = z.ses, !.chips = z.chips, !.be = Port!SetReset(b, ~before)]
             r   == IF Port!ResetHeld(t) = before THEN t ELSE u
  <1>1. Port!ResetChanged(s, before) = r BY DEF Port!ResetChanged
  <1>2. Kept(t, s, {"stretch", "own"}) /\ t.stretch = st BY DEF PortOk, Kept, PortFields
  <1>3. ~trx => st \in {0, s.stretch} OBVIOUS
  <1>10. st \in Nat BY PartsAssumption DEF PortOk
  <1>4. BeOk(b) /\ BeKept(b, s.be, {"type"})
    <2> DEFINE y == [s.be EXCEPT !.type = t.type]
    <2>1. DOMAIN y = BeFields /\ BeKept(y, s.be, {"type"}) BY DEF PortOk, BeOk, BeFields, BeKept
    <2>2. b = y \/ b = s.be OBVIOUS
    <2> HIDE DEF y, b
    <2>3. BeOk(y) BY <2>1 DEF PortOk, BeOk, BeFields, BeKept, NoDebt, Port!Stands
    <2>4. QED BY <2>1, <2>2, <2>3 DEF PortOk, BeKept
  <1> HIDE DEF st, t, b, z
  <1>5. t.be = s.be /\ DOMAIN t = PortFields BY <1>2 DEF Kept, PortFields
  <1>6. Port!ResetHeld(t) \in BOOLEAN BY DEF Port!ResetHeld, Port!OwnReset
  <1>7. CASE Port!ResetHeld(t) <=> before
    <2>1. r = t BY <1>6, <1>7
    <2>2. PortOk(t) BY <1>2, <1>10 DEF PortOk, Kept, PortFields
    <2>3. QED BY <1>1, <1>2, <1>3, <1>5, <1>7, <2>1, <2>2 DEF Kept, BeKept
  <1>8. CASE ~(Port!ResetHeld(t) <=> before)
    <2>1. r = u BY <1>6, <1>8
    <2> DEFINE v == Port!SetReset(b, ~before)
    <2>2. BeOk(v) /\ BeKept(v, b, {"reset", "uci", "lag"}) /\ v.reset = ~before BY <1>4, SetResetOk
    <2>3. Kept(u, t, {"ses", "chips", "be"}) /\ u.be = v BY <1>5 DEF Kept, PortFields
    <2> HIDE DEF u, v, r
    <2>4. Kept(u, s, {"stretch", "own", "ses", "chips", "be"}) /\ u.stretch = st BY <1>2, <2>3 DEF Kept, PortFields
    <2>5. PortOk(u) BY <1>10, <2>2, <2>3, <2>4 DEF PortOk, Kept, PortFields
    <2>6. BeKept(u.be, s.be, {"reset", "type", "uci", "lag"}) BY <1>4, <2>2, <2>3 DEF BeKept, BeFields
    <2>7. Port!ResetHeld(u) <=> Port!ResetHeld(t)
      <3>1. u.mode = t.mode /\ u.esp = t.esp /\ u.stretch = t.stretch BY <2>3 DEF Kept, PortFields
      <3>2. QED BY <3>1 DEF Port!ResetHeld, Port!OwnReset
    <2>8. u.be.reset <=> Port!ResetHeld(u) BY <1>8, <2>2, <2>3, <2>7
    <2>9. QED BY <1>1, <1>3, <2>1, <2>4, <2>5, <2>6, <2>8
  <1>9. QED BY <1>7, <1>8

(* A reset's source that moved, and what follows. *)
LEMMA ResetMoves ==
  ASSUME NEW s, Moved(s), NEW x, Alike(x, s), x.be = s.be, x.mode = s.mode, x.reu = s.reu
  PROVE  Moved(Port!ResetChanged(x, Port!ResetHeld(s)))
  <1> DEFINE before == Port!ResetHeld(s)
             r == Port!ResetChanged(x, before)
  <1>1. before \in BOOLEAN BY DEF Port!ResetHeld, Port!OwnReset
  <1>2. s.be.reset <=> before BY DEF Moved, Ready, Plain, Direct
  <1>3. PortOk(s) /\ Direct(s) BY DEF Moved, Ready, Plain
  <1>4. PortOk(x)
    <2>1. BeOk(x.be) /\ x.reu \in BOOLEAN /\ x.stretch \in Nat BY DEF Alike
    <2>2. /\ x.stop = s.stop /\ x.absent = s.absent /\ x.told = s.told /\ x.dbgSeen = s.dbgSeen /\ x.frz = s.frz
          /\ x.posHold = s.posHold /\ x.halted = s.halted /\ x.dbg = s.dbg /\ DOMAIN x = PortFields
      BY DEF Alike, Kept, PortFields
    <2>3. QED BY <1>3, <2>1, <2>2 DEF PortOk
  <1> HIDE DEF before
  <1>5. /\ PortOk(r) /\ Kept(r, x, {"stretch", "own", "ses", "chips", "be"})
        /\ BeKept(r.be, x.be, {"reset", "type", "uci", "lag"})
        /\ (r.be.reset <=> Port!ResetHeld(r))
        /\ (~trx => r.stretch \in {0, x.stretch})
    BY <1>1, <1>2, <1>4, ResetChangedOk
  <1> HIDE DEF r
  <1>6. Alike(r, s)
    <2>1. Kept(r, s, {"be", "ses", "chips", "type", "reu", "mode", "stretch", "own", "esp"}) BY <1>5 DEF Alike, Kept, PortFields
    <2>2. BeKept(r.be, s.be, {"reset", "ultimax", "reu", "type", "uci", "lag"}) BY <1>5 DEF BeKept
    <2>3. r.reu = x.reu /\ r.esp = x.esp BY <1>5 DEF Kept, PortFields
    <2>4. QED BY <1>5, <2>1, <2>2, <2>3 DEF Alike, PortOk
  <1>7. Direct(r)
    <2>1. r.mode = s.mode /\ r.reu = s.reu /\ r.posHold = s.posHold BY <1>5, <1>6 DEF Alike, Kept, PortFields
    <2>2. r.be.ultimax = s.be.ultimax /\ r.be.reu = s.be.reu /\ r.be.posHold = s.be.posHold BY <1>5 DEF BeKept, BeFields
    <2>3. QED BY <1>3, <1>5, <2>1, <2>2 DEF Direct
  <1>8. QED BY <1>6, <1>7, AlikeMoved DEF before, r

LEMMA AlikeSelf ==
  ASSUME NEW s, Moved(s)
  PROVE  Alike(s, s)
  <1>1. PortOk(s) BY DEF Moved, Ready, Plain
  <1>2. ~trx => s.stretch = 0 /\ ~s.esp BY DEF Moved, Plain, Bare
  <1>3. QED BY <1>1, <1>2 DEF Alike, Kept, BeKept, PortOk

LEMMA SteadyGood == ASSUME NEW s, Steady(s) PROVE PortGood(trx, s) /\ ~s.absent
  <1>1. PortOk(s) /\ Direct(s) /\ s.ops = << >> /\ ~s.absent BY DEF Steady, Exact, Ready, Plain, Bare
  <1>2. CASE trx BY <1>1, <1>2 DEF PortGood, Steady, Exact, Ready
  <1>3. CASE ~trx BY <1>1, <1>3 DEF PortGood, Steady, Plain
  <1>4. QED BY <1>2, <1>3

LEMMA SyncedOk ==
  ASSUME NEW s, PortGood(trx, s), ~s.absent, NEW t \in Port!Synced(s)
  PROVE  Steady(t)
  <1>1. CASE ~trx
    <2>1. t = s BY <1>1 DEF Port!Synced
    <2>2. QED BY <1>1, <2>1 DEF PortGood, Steady, Plain
  <1>2. CASE trx /\ s.ops = << >>
    <2>1. t = Port!TrxUpdate(s) BY <1>2 DEF Port!Synced
    <2>2. Moved(s) BY <1>2 DEF PortGood, Moved, Ready, HoldSeen
    <2>3. QED BY <2>1, <2>2, UpdateOk
  <1>3. CASE trx /\ s.ops # << >>
    <2> DEFINE x == [s EXCEPT !.ops = << >>]
    <2>1. PICK u \in Port!Acted(x, Head(s.ops)) : t = Port!TrxUpdate(Port!TrxUpdate(u)) BY <1>3 DEF Port!Synced, Port!TrxOp
    <2>2. Head(s.ops) \in Port!Ops BY <1>3 DEF PortGood
    <2>3. Kept(x, s, {"ops"}) /\ x.ops = << >> BY DEF PortGood, PortOk, Kept, PortFields
    <2> HIDE DEF x
    <2>4. /\ x.mode = s.mode /\ x.esp = s.esp /\ x.stretch = s.stretch /\ x.reu = s.reu /\ x.posHold = s.posHold /\ x.be = s.be
          /\ x.absent = s.absent /\ x.told = s.told /\ x.dbg = s.dbg
      BY <2>3 DEF Kept, PortFields
    <2>5. PortOk(x) BY <2>3 DEF PortGood, PortOk, Kept, PortFields
    <2>6. Ready(x) /\ Held(x)
      BY <1>3, <2>3, <2>4, <2>5 DEF PortGood, Ready, Direct, Cached, HoldSeen, Held, Port!ResetHeld, Port!OwnReset
    <2>7. Ready(u) /\ Held(u) BY <1>3, <2>1, <2>2, <2>6, ActedOk
    <2>8. Moved(u) BY <1>3, <2>7 DEF Moved
    <2>9. QED BY <2>1, <2>8, UpdateOk, SteadyMoved
  <1>4. QED BY <1>1, <1>2, <1>3

(* trx_events: the outcome of a run is followed. *)
LEMMA FollowedOk ==
  ASSUME NEW s, Steady(s), NEW r, Ran(r, s.be, s.dbg)
  PROVE  Steady(Port!Followed(Port!With(s, r), r.hit))
  <1> DEFINE h == s.posHold \/ r.hit
             u == [s EXCEPT !.be = r.be, !.dbg = r.dbg, !.posHold = h]
  <1>1. PortOk(s) /\ Direct(s) /\ ~s.absent /\ s.ops = << >> BY DEF Steady, Exact, Ready, Plain, Bare
  <1>2. /\ BeOk(r.be) /\ DbgOk(r.dbg) /\ r.hit \in BOOLEAN /\ (r.be.dbgHeld <=> Port!Holds(r.dbg))
        /\ (r.be.posHold <=> s.be.posHold \/ r.hit)
        /\ (\A f \in PortLines : r.be[f] = s.be[f]) /\ r.dbg.own = s.dbg.own
    BY DEF Ran
  <1>3. [Port!With(s, r) EXCEPT !.posHold = @ \/ r.hit] = u BY <1>1 DEF Port!With, PortOk, PortFields
  <1>4. h \in BOOLEAN BY <1>1, <1>2 DEF PortOk
  <1>5. h <=> s.posHold \/ r.hit OBVIOUS
  <1>6. Kept(u, s, {"be", "dbg", "posHold"}) /\ u.be = r.be /\ u.dbg = r.dbg /\ u.posHold = h
    BY <1>1 DEF Kept, PortOk, PortFields
  <1> HIDE DEF h, u
  <1>7. /\ u.mode = s.mode /\ u.esp = s.esp /\ u.stretch = s.stretch /\ u.reu = s.reu /\ u.absent = s.absent /\ u.told = s.told
        /\ u.ops = s.ops /\ u.frz = s.frz /\ u.stop = s.stop /\ u.dbgSeen = s.dbgSeen /\ u.halted = s.halted
    BY <1>6 DEF Kept, PortFields
  <1>8. PortOk(u) BY <1>1, <1>2, <1>4, <1>6 DEF PortOk, Kept, PortFields
  <1>9. Direct(u)
    <2>1. s.be.posHold = s.posHold /\ s.posHold \in BOOLEAN /\ r.be.posHold \in BOOLEAN BY <1>1, <1>2 DEF Direct, PortOk, BeOk
    <2>2. r.be.posHold = h BY <1>2, <1>4, <1>5, <2>1
    <2>3. Port!ResetHeld(u) <=> Port!ResetHeld(s) BY <1>7 DEF Port!ResetHeld, Port!OwnReset
    <2>4. r.be.reset = s.be.reset /\ r.be.ultimax = s.be.ultimax /\ r.be.reu = s.be.reu BY <1>2 DEF PortLines
    <2>5. QED BY <1>1, <1>6, <1>7, <2>2, <2>3, <2>4 DEF Direct
  <1>10. Held(u) BY <1>2, <1>6 DEF Held
  <1>11. CASE trx
    <2>1. Cached(u) BY <1>2, <1>6, <1>7, <1>11 DEF Steady, Exact, Ready, Cached, ToldFields, PortLines
    <2>2. Ready(u) BY <1>1, <1>7, <1>8, <1>9, <2>1 DEF Ready
    <2>3. CASE r.hit \/ Port!Holds(u.dbg) # u.dbgSeen
      <3>1. Port!Followed(Port!With(s, r), r.hit) = Port!TrxUpdate(u) BY <1>3, <2>3 DEF Port!Followed
      <3>2. QED BY <1>10, <1>11, <2>2, <3>1, UpdateOk DEF Moved
    <2>4. CASE ~(r.hit \/ Port!Holds(u.dbg) # u.dbgSeen)
      <3>1. Port!Followed(Port!With(s, r), r.hit) = u BY <1>3, <2>4 DEF Port!Followed
      <3>2. (Port!Holds(u.dbg) <=> Port!Holds(s.dbg)) /\ (u.dbgSeen <=> Port!Holds(u.dbg))
        BY <1>7, <1>11, <2>4 DEF Steady, Exact, HoldSeen
      <3>3. u.posHold <=> s.posHold BY <1>5, <1>6, <2>4
      <3>4. Port!PausedBy(Port!Lines(u)) <=> Port!PausedBy(Port!Lines(s))
        BY <1>2, <1>6, <1>7 DEF Port!PausedBy, Port!Lines, Port!ResetHeld, Port!OwnReset
      <3>5. Port!Halted(u) <=> Port!Halted(s) BY <3>2, <3>3, <3>4 DEF Port!Halted
      <3>6. Told(u) BY <1>2, <1>6, <1>7, <1>11, <3>4, <3>5 DEF Steady, Exact, Told
      <3>7. QED BY <1>10, <1>11, <2>2, <3>1, <3>2, <3>6 DEF Steady, Exact, HoldSeen
    <2>5. QED BY <2>3, <2>4
  <1>12. CASE ~trx
    <2>1. Bare(s) BY <1>12 DEF Steady, Plain
    <2>2. r.dbg = Port!NewDbg /\ ~r.hit /\ r.be.posArm = s.be.posArm BY <2>1 DEF Ran, Bare
    <2>3. ~Port!Holds(Port!NewDbg) BY DEF Port!Holds, Port!NewDbg
    <2>4. Port!Followed(Port!With(s, r), r.hit) = u
      <3>1. Port!TrxUpdate(u) = u BY <1>12 DEF Port!TrxUpdate
      <3>2. QED BY <1>3, <3>1 DEF Port!Followed
    <2>5. ~u.posHold BY <1>5, <1>6, <2>1, <2>2 DEF Bare
    <2>6. r.be.stopped = s.be.stopped /\ r.be.muted = s.be.muted /\ r.be.paused = s.be.paused BY <1>2 DEF PortLines
    <2>7. ~u.be.dbgHeld BY <1>10, <1>6, <2>2, <2>3 DEF Held
    <2>8. Bare(u) BY <1>6, <1>7, <2>1, <2>2, <2>5, <2>6, <2>7 DEF Bare
    <2>9. QED BY <1>8, <1>9, <1>12, <2>4, <2>8 DEF Steady, Plain
  <1>13. QED BY <1>11, <1>12

LEMMA SyncedOnOk ==
  ASSUME NEW s, PortGood(trx, s), ~s.absent, NEW u \in Port!SyncedOn(s)
  PROVE  Steady(u)
  <1>1. PICK t \in Port!Synced(s) : \E r \in Port!AdvanceTo(t.be, t.dbg) : u = Port!Followed(Port!With(t, r), r.hit)
    BY DEF Port!SyncedOn
  <1>2. PICK r \in Port!AdvanceTo(t.be, t.dbg) : u = Port!Followed(Port!With(t, r), r.hit) BY <1>1
  <1>3. Steady(t) BY <1>1, SyncedOk
  <1>4. BeOk(t.be) /\ DbgOk(t.dbg) BY <1>3 DEF Steady, Exact, Ready, Plain, PortOk
  <1>5. t.be.dbgHeld <=> Port!Holds(t.dbg)
    <2>1. ~Port!Holds(Port!NewDbg) BY DEF Port!Holds, Port!NewDbg
    <2>2. QED BY <1>3, <2>1 DEF Steady, Exact, HoldSeen, Held, Plain, Bare
  <1>6. Ran(r, t.be, t.dbg) BY <1>2, <1>4, <1>5, AdvanceOk
  <1>7. QED BY <1>2, <1>3, <1>6, FollowedOk

LEMMA FollowEspOk ==
  ASSUME NEW s, Steady(s), esp \in BOOLEAN, ~trx => ~esp
  PROVE  Steady(Port!FollowEsp(s))
  <1>1. CASE esp = s.esp \/ s.absent BY <1>1 DEF Port!FollowEsp
  <1>2. CASE ~(esp = s.esp \/ s.absent)
    <2> DEFINE x == [s EXCEPT !.esp = esp]
    <2>1. Port!FollowEsp(s) = Port!TrxUpdate(Port!ResetChanged(x, Port!ResetHeld(s))) BY <1>2 DEF Port!FollowEsp
    <2>2. Moved(s) /\ Alike(s, s) BY SteadyMoved, AlikeSelf
    <2>3. Kept(x, s, {"esp"}) /\ x.esp = esp BY <2>2 DEF Alike, Kept, PortFields
    <2> HIDE DEF x
    <2>4. x.be = s.be /\ x.mode = s.mode /\ x.reu = s.reu /\ x.stretch = s.stretch BY <2>3 DEF Kept, PortFields
    <2>5. Alike(x, s) BY <2>2, <2>3, <2>4 DEF Alike, Kept
    <2>6. QED BY <2>1, <2>2, <2>4, <2>5, ResetMoves, UpdateOk
  <1>3. QED BY <1>1, <1>2

LEMMA FollowPortOk ==
  ASSUME NEW s, Steady(s)
  PROVE  Steady(Port!FollowPort(s))
  <1>1. CASE s.stretch = 0 \/ s.absent BY <1>1 DEF Port!FollowPort
  <1>2. CASE ~(s.stretch = 0 \/ s.absent)
    <2>1. Moved(s) /\ Alike(s, s) BY SteadyMoved, AlikeSelf
    <2>2. trx BY <1>2, <2>1 DEF Alike
    <2>7. s.stretch \in Nat BY <2>1 DEF Alike
    <2>3. ASSUME NEW n \in Nat, NEW x, x = [s EXCEPT !.stretch = n]
          PROVE  Alike(x, s) /\ x.be = s.be /\ x.mode = s.mode /\ x.reu = s.reu /\ Kept(x, s, {"stretch"}) /\ x.stretch = n
      <3>1. Kept(x, s, {"stretch"}) /\ x.stretch = n BY <2>1, <2>3 DEF Alike, Kept, PortFields
      <3>2. x.be = s.be /\ x.mode = s.mode /\ x.reu = s.reu BY <3>1 DEF Kept, PortFields
      <3>3. QED BY <2>1, <2>2, <3>1, <3>2 DEF Alike, Kept
    <2>4. CASE s.stretch > 1
      <3> DEFINE x == [s EXCEPT !.stretch = @ - 1]
      <3>1. Port!FollowPort(s) = x BY <1>2, <2>4 DEF Port!FollowPort
      <3>2. /\ Alike(x, s) /\ x.be = s.be /\ x.mode = s.mode /\ x.reu = s.reu /\ Kept(x, s, {"stretch"})
            /\ x.stretch = s.stretch - 1
        BY <2>3, <2>4, <2>7
      <3> HIDE DEF x
      <3>9. x.stop = s.stop /\ x.dbg = s.dbg /\ x.told = s.told /\ x.dbgSeen = s.dbgSeen /\ x.frz = s.frz /\ x.posHold = s.posHold
            /\ x.esp = s.esp
        BY <3>2 DEF Kept, PortFields
      <3>10. s.stretch > 0 /\ x.stretch > 0 BY <2>4, <2>7, <3>2
      <3>3. Port!ResetHeld(x) /\ Port!ResetHeld(s) BY <3>10 DEF Port!ResetHeld
      <3>4. Direct(x)
        <4>1. Direct(s) BY <2>1 DEF Moved, Ready, Plain
        <4>2. QED BY <3>2, <3>3, <3>9, <4>1 DEF Direct
      <3>5. Moved(x) BY <2>1, <3>2, <3>4, AlikeMoved
      <3>6. /\ Port!PausedBy(Port!Lines(x)) <=> Port!PausedBy(Port!Lines(s))
            /\ Port!Halted(x) <=> Port!Halted(s)
        BY <3>2, <3>3, <3>9 DEF Port!PausedBy, Port!Lines, Port!Halted
      <3>7. Told(x) BY <2>2, <3>6, <3>9 DEF Told, Steady, Exact
      <3>8. QED BY <2>2, <3>1, <3>5, <3>7, <3>9 DEF Moved, Steady, Exact, HoldSeen
    <2>5. CASE ~(s.stretch > 1)
      <3> DEFINE x == [s EXCEPT !.stretch = 0]
      <3>1. Port!FollowPort(s) = Port!TrxUpdate(Port!ResetChanged(x, Port!ResetHeld(s))) BY <1>2, <2>5 DEF Port!FollowPort
      <3>2. Alike(x, s) /\ x.be = s.be /\ x.mode = s.mode /\ x.reu = s.reu BY <2>3
      <3> HIDE DEF x
      <3>3. QED BY <2>1, <3>1, <3>2, ResetMoves, UpdateOk
    <2>6. QED BY <2>4, <2>5
  <1>3. QED BY <1>1, <1>2

LEMMA TickedOk ==
  ASSUME NEW s, PortGood(trx, s), ~s.absent, esp \in BOOLEAN, ~trx => ~esp, NEW r \in Port!Ticked(s)
  PROVE  Steady(r)
  <1>1. PICK t \in Port!SyncedOn(s) : r = Port!FollowPort(Port!FollowEsp(t)) BY DEF Port!Ticked
  <1>2. Steady(t) BY SyncedOnOk
  <1>3. QED BY <1>1, <1>2, FollowEspOk, FollowPortOk

-----------------------------------------------------------------------------
(* The accesses.                                                            *)

(* C64_MODE before trx_update. *)
LEMMA ModeShape ==
  ASSUME NEW s, PortOk(s), NEW w \in {"reset", "unreset", "ultimax", "normal"}
  PROVE  \E y : /\ Port!ModeWritten(s, w) = Port!TrxUpdate(y)
                /\ PortOk(y) /\ Kept(y, s, {"mode", "stretch", "own", "ses", "chips", "be"})
                /\ BeKept(y.be, s.be, {"reset", "ultimax", "type", "uci", "lag"})
                /\ (s.be.reset <=> Port!ResetHeld(s)) => (y.be.reset <=> Port!ResetHeld(y))
                /\ y.be.ultimax <=> "ultimax" \in y.mode
                /\ ~trx => y.stretch \in {0, s.stretch}
  <1> DEFINE mode == CASE w = "reset"   -> s.mode \cup {"reset"}
                       [] w = "unreset" -> s.mode \ {"reset"}
                       [] w = "ultimax" -> s.mode \cup {"ultimax"}
                       [] w = "normal"  -> s.mode \ {"ultimax"}
             x == [s EXCEPT !.mode = mode]
             before == Port!ResetHeld(s)
             t == Port!ResetChanged(x, before)
             m == "ultimax" \in mode
             b == [t.be EXCEPT !.ultimax = m]
             y == [t EXCEPT !.be.ultimax = m]
  <1>1. Port!ModeWritten(s, w) = Port!TrxUpdate(y) BY DEF Port!ModeWritten
  <1>2. m \in BOOLEAN OBVIOUS
  <1> HIDE DEF mode
  <1>5. Kept(x, s, {"mode"}) /\ x.mode = mode BY DEF PortOk, Kept, PortFields
  <1> HIDE DEF x
  <1>6. PortOk(x) /\ x.be = s.be BY <1>5 DEF PortOk, Kept, PortFields
  <1>7. before \in BOOLEAN BY DEF Port!ResetHeld, Port!OwnReset
  <1> HIDE DEF before
  <1>8. /\ PortOk(t) /\ Kept(t, x, {"stretch", "own", "ses", "chips", "be"})
        /\ BeKept(t.be, x.be, {"reset", "type", "uci", "lag"})
        /\ ((x.be.reset <=> before) => (t.be.reset <=> Port!ResetHeld(t)))
        /\ (~trx => t.stretch \in {0, x.stretch})
    BY <1>6, <1>7, ResetChangedOk
  <1> HIDE DEF t, m
  <1>9. DOMAIN b = BeFields /\ BeKept(b, t.be, {"ultimax"}) /\ b.ultimax = m BY <1>8 DEF PortOk, BeOk, BeFields, BeKept
  <1>10. Kept(y, t, {"be"}) /\ y.be = b BY <1>8 DEF PortOk, Kept, PortFields
  <1> HIDE DEF b, y
  <1>11. BeOk(b) BY <1>2, <1>8, <1>9 DEF PortOk, BeOk, BeFields, BeKept, NoDebt, Port!Stands
  <1>12. /\ y.esp = t.esp /\ y.mode = mode /\ y.stretch = t.stretch /\ t.mode = mode /\ x.stretch = s.stretch
    BY <1>5, <1>8, <1>10 DEF Kept, PortFields
  <1>13. Kept(y, s, {"mode", "stretch", "own", "ses", "chips", "be"}) BY <1>5, <1>8, <1>10 DEF Kept, PortFields
  <1>14. PortOk(y) BY <1>8, <1>10, <1>11 DEF PortOk, Kept, PortFields
  <1>15. BeKept(y.be, s.be, {"reset", "ultimax", "type", "uci", "lag"}) BY <1>6, <1>8, <1>9, <1>10 DEF BeKept, BeFields
  <1>16. (s.be.reset <=> Port!ResetHeld(s)) => (y.be.reset <=> Port!ResetHeld(y))
    <2>1. Port!ResetHeld(y) <=> Port!ResetHeld(t) BY <1>12 DEF Port!ResetHeld, Port!OwnReset
    <2>2. y.be.reset = t.be.reset BY <1>9, <1>10 DEF BeKept, BeFields
    <2>3. QED BY <1>6, <1>8, <2>1, <2>2 DEF before
  <1>17. y.be.ultimax <=> "ultimax" \in y.mode BY <1>9, <1>10, <1>12 DEF m
  <1>18. QED BY <1>1, <1>8, <1>12, <1>13, <1>14, <1>15, <1>16, <1>17

LEMMA ModeWrittenOk ==
  ASSUME NEW s, Steady(s), NEW w \in {"reset", "unreset", "ultimax", "normal"}
  PROVE  Steady(Port!ModeWritten(s, w))
  <1>1. Moved(s) /\ Alike(s, s) BY SteadyMoved, AlikeSelf
  <1>2. PortOk(s) /\ Direct(s) BY <1>1 DEF Moved, Ready, Plain
  <1>3. PICK y : /\ Port!ModeWritten(s, w) = Port!TrxUpdate(y)
                 /\ PortOk(y) /\ Kept(y, s, {"mode", "stretch", "own", "ses", "chips", "be"})
                 /\ BeKept(y.be, s.be, {"reset", "ultimax", "type", "uci", "lag"})
                 /\ (s.be.reset <=> Port!ResetHeld(s)) => (y.be.reset <=> Port!ResetHeld(y))
                 /\ y.be.ultimax <=> "ultimax" \in y.mode
                 /\ ~trx => y.stretch \in {0, s.stretch}
    BY <1>2, ModeShape
  <1>4. /\ y.reu = s.reu /\ y.esp = s.esp /\ y.posHold = s.posHold /\ y.be.reu = s.be.reu /\ y.be.posHold = s.be.posHold
    BY <1>3 DEF Kept, PortFields, BeKept, BeFields
  <1>5. Alike(y, s) BY <1>1, <1>2, <1>3, <1>4 DEF Alike, Kept, BeKept, PortOk
  <1>6. Direct(y) BY <1>2, <1>3, <1>4 DEF Direct
  <1>7. QED BY <1>1, <1>3, <1>5, <1>6, AlikeMoved, UpdateOk

LEMMA StopWrittenOk ==
  ASSUME NEW s, Steady(s), NEW on \in BOOLEAN
  PROVE  Steady(Port!StopWritten(s, on))
  <1>1. PortOk(s) /\ Direct(s) BY DEF Steady, Exact, Ready, Plain
  <1>2. CASE trx
    <2> DEFINE x == [s EXCEPT !.stop = on]
    <2>1. Port!StopWritten(s, on) = Port!TrxUpdate(x)
      BY <1>1, <1>2 DEF Port!StopWritten, PortOk, PortFields
    <2>2. Kept(x, s, {"stop"}) /\ x.stop = on BY <1>1 DEF PortOk, Kept, PortFields
    <2> HIDE DEF x
    <2>3. /\ x.mode = s.mode /\ x.esp = s.esp /\ x.stretch = s.stretch /\ x.reu = s.reu /\ x.posHold = s.posHold /\ x.be = s.be
          /\ x.absent = s.absent /\ x.ops = s.ops /\ x.told = s.told /\ x.dbg = s.dbg
      BY <2>2 DEF Kept, PortFields
    <2>4. PortOk(x) BY <1>1, <2>2 DEF PortOk, Kept, PortFields
    <2>5. Moved(x)
      BY <1>1, <1>2, <2>3, <2>4 DEF Steady, Exact, HoldSeen, Held, Moved, Ready, Direct, Cached, Port!ResetHeld, Port!OwnReset
    <2>6. QED BY <2>1, <2>5, UpdateOk
  <1>3. CASE ~trx
    <2> DEFINE b == [s.be EXCEPT !.stopped = on, !.muted = on]
               x == [s EXCEPT !.stop = on, !.be = b]
    <2>1. Port!StopWritten(s, on) = x BY <1>1, <1>3 DEF Port!StopWritten, Port!TrxUpdate, PortOk, PortFields
    <2>2. DOMAIN b = BeFields /\ BeKept(b, s.be, {"stopped", "muted"}) /\ b.stopped = on /\ b.muted = on
      BY <1>1 DEF PortOk, BeOk, BeFields, BeKept
    <2> HIDE DEF b
    <2>3. BeOk(b) BY <1>1, <2>2 DEF PortOk, BeOk, BeFields, BeKept, NoDebt, Port!Stands
    <2>4. Kept(x, s, {"stop", "be"}) /\ x.stop = on /\ x.be = b BY <1>1 DEF PortOk, Kept, PortFields
    <2> HIDE DEF x
    <2>5. PortOk(x) BY <1>1, <2>3, <2>4 DEF PortOk, Kept, PortFields
    <2>6. /\ x.mode = s.mode /\ x.esp = s.esp /\ x.stretch = s.stretch /\ x.reu = s.reu /\ x.posHold = s.posHold
          /\ x.absent = s.absent /\ x.ops = s.ops /\ x.dbg = s.dbg /\ x.frz = s.frz /\ x.dbgSeen = s.dbgSeen
      BY <2>4 DEF Kept, PortFields
    <2>7. /\ b.reset = s.be.reset /\ b.ultimax = s.be.ultimax /\ b.reu = s.be.reu /\ b.posHold = s.be.posHold
          /\ b.posArm = s.be.posArm /\ b.paused = s.be.paused /\ b.dbgHeld = s.be.dbgHeld
      BY <2>2 DEF BeKept, BeFields
    <2>8. Direct(x) BY <1>1, <2>4, <2>6, <2>7 DEF Direct, Port!ResetHeld, Port!OwnReset
    <2>9. Bare(x) BY <1>3, <2>2, <2>4, <2>6, <2>7 DEF Steady, Plain, Bare
    <2>10. QED BY <1>3, <2>1, <2>5, <2>8, <2>9 DEF Steady, Plain
  <1>4. QED BY <1>2, <1>3

(* The latches that are told as they are. *)
LEMMA LatchOk ==
  ASSUME NEW s, Steady(s), NEW x, Kept(x, s, {"be", "type", "reu"}), x.reu \in BOOLEAN,
         DOMAIN x.be = BeFields, BeKept(x.be, s.be, {"type", "reu"}), x.be.reu = x.reu
  PROVE  Steady(x)
  <1>1. PortOk(s) /\ Direct(s) /\ Alike(s, s) BY SteadyMoved, AlikeSelf DEF Steady, Exact, Ready, Plain
  <1>2. BeOk(x.be) BY <1>1 DEF PortOk, BeOk, BeFields, BeKept, NoDebt, Port!Stands
  <1>3. /\ x.mode = s.mode /\ x.esp = s.esp /\ x.stretch = s.stretch /\ x.posHold = s.posHold
        /\ x.be.reset = s.be.reset /\ x.be.ultimax = s.be.ultimax /\ x.be.posHold = s.be.posHold
    BY DEF Kept, PortFields, BeKept, BeFields
  <1>4. Alike(x, s) /\ Kept(x, s, {"be", "ses", "chips", "type", "reu"}) BY <1>1, <1>2, <1>3 DEF Alike, Kept, BeKept
  <1>5. Direct(x) BY <1>1, <1>3 DEF Direct, Port!ResetHeld, Port!OwnReset
  <1>6. QED BY <1>4, <1>5, AlikeSteady

LEMMA WindowWrittenOk ==
  ASSUME NEW s, Steady(s), NEW reg, NEW val
  PROVE  Steady(Port!WindowWritten(s, reg, val))
  <1> DEFINE r == Port!SessionWrite(s.ses, s.chips, reg, val)
             x == IF trx /\ s.ses.active THEN [s EXCEPT !.ses = r.ses, !.chips = r.chips] ELSE [s EXCEPT !.chips[reg] = val]
             y == [x EXCEPT !.posHold = @ \/ FALSE]
  <1>1. PortOk(s) /\ Direct(s) /\ Alike(s, s) BY SteadyMoved, AlikeSelf DEF Steady, Exact, Ready, Plain
  <1>2. Kept(x, s, {"ses", "chips"}) BY <1>1 DEF PortOk, Kept, PortFields
  <1>3. Port!WindowWritten(s, reg, val) = Port!Followed(x, FALSE) BY DEF Port!WindowWritten
  <1> HIDE DEF x
  <1>4. x.posHold = s.posHold /\ s.posHold \in BOOLEAN /\ DOMAIN x = PortFields
    BY <1>1, <1>2 DEF Kept, PortFields, PortOk
  <1>5. Kept(y, s, {"ses", "chips"}) BY <1>2, <1>4 DEF PortFields, Kept
  <1>8. Port!Followed(x, FALSE) \in {y, Port!TrxUpdate(y)} BY DEF Port!Followed
  <1> HIDE DEF y
  <1>6. Steady(y)
    <2>1. /\ y.be = s.be /\ y.mode = s.mode /\ y.esp = s.esp /\ y.stretch = s.stretch /\ y.reu = s.reu /\ y.posHold = s.posHold
      BY <1>5 DEF Kept, PortFields
    <2>2. Alike(y, s) /\ Kept(y, s, {"be", "ses", "chips", "type", "reu"}) BY <1>1, <1>5, <2>1 DEF Alike, Kept
    <2>3. Direct(y) BY <1>1, <2>1 DEF Direct, Port!ResetHeld, Port!OwnReset
    <2>4. QED BY <2>2, <2>3, AlikeSteady
  <1>7. Steady(Port!TrxUpdate(y)) BY <1>6, SteadyMoved, UpdateOk
  <1>9. QED BY <1>3, <1>6, <1>7, <1>8

-----------------------------------------------------------------------------
(* Without a core the port keeps its registers.                             *)

Gone(s) == PortOk(s) /\ Cached(s) /\ s.absent /\ s.ops \in Seq(Port!Ops)

LEMMA GoneKept ==
  ASSUME NEW s, Gone(s), NEW x, PortOk(x),
         Kept(x, s, {"mode", "stop", "type", "reu", "stretch", "own", "ses", "chips", "be"}),
         BeKept(x.be, s.be, {"reset", "ultimax", "reu", "type", "uci", "lag"})
  PROVE  Gone(x)
  <1>1. x.told = s.told /\ x.absent = s.absent /\ x.ops = s.ops BY DEF Kept, PortFields
  <1>2. \A f \in ToldFields : x.be[f] = s.be[f] BY DEF BeKept, BeFields, ToldFields
  <1>3. QED BY <1>1, <1>2 DEF Gone, Cached

LEMMA GoneUpdate ==
  ASSUME trx, NEW s, Gone(s)
  PROVE  Gone(Port!TrxUpdate(s))
  <1> DEFINE r == Port!TrxApply(s)
  <1>1. Applied(r, s) BY TrxApplyOk DEF Gone
  <1> HIDE DEF r
  <1>2. r.absent = s.absent /\ r.ops = s.ops BY <1>1 DEF Applied, Kept, PortFields
  <1>3. QED BY <1>1, <1>2 DEF Gone, Applied, Port!TrxUpdate, r

LEMMA GoneLatch ==
  ASSUME NEW s, Gone(s), NEW x, Kept(x, s, {"be", "type", "reu"}), x.reu \in BOOLEAN,
         DOMAIN x.be = BeFields, BeKept(x.be, s.be, {"type", "reu"}), x.be.reu \in BOOLEAN
  PROVE  Gone(x)
  <1>1. BeOk(x.be) BY DEF Gone, PortOk, BeOk, BeFields, BeKept, NoDebt, Port!Stands
  <1>2. PortOk(x) BY <1>1 DEF Gone, PortOk, Kept, PortFields
  <1>3. QED BY <1>2, GoneKept DEF Kept, BeKept
LEMMA GoneGood == ASSUME trx, NEW s, Gone(s) PROVE PortGood(trx, s)
  BY DEF Gone, PortGood

(* A write of a register, with a core or without. *)
Attached(s) == IF s.absent THEN trx /\ Gone(s) ELSE Steady(s)

LEMMA AttachedGood == ASSUME NEW s, Attached(s) PROVE PortGood(trx, s)
  BY GoneGood, SteadyGood DEF Attached

LEMMA SyncedAttached ==
  ASSUME NEW s, PortGood(trx, s), NEW t \in Port!Synced(s)
  PROVE  Attached(t) /\ (t.absent <=> s.absent)
  <1>1. CASE ~s.absent
    <2>1. Steady(t) BY <1>1, SyncedOk
    <2>2. ~t.absent BY <2>1 DEF Steady, Exact, Ready, Plain, Bare
    <2>3. QED BY <1>1, <2>1, <2>2 DEF Attached
  <1>2. CASE s.absent
    <2>1. t = s /\ trx BY <1>2 DEF Port!Synced, PortGood, Bare
    <2>2. QED BY <1>2, <2>1 DEF PortGood, Gone, Attached
  <1>3. QED BY <1>1, <1>2

LEMMA AttachedLatch ==
  ASSUME NEW s, Attached(s), NEW x, Kept(x, s, {"be", "type", "reu"}), x.reu \in BOOLEAN,
         DOMAIN x.be = BeFields, BeKept(x.be, s.be, {"type", "reu"}), x.be.reu = x.reu \/ (s.absent /\ x.be.reu \in BOOLEAN)
  PROVE  Attached(x)
  <1>1. x.absent = s.absent BY DEF Kept, PortFields
  <1>2. CASE s.absent BY <1>1, <1>2, GoneLatch DEF Attached
  <1>3. CASE ~s.absent BY <1>1, <1>3, LatchOk DEF Attached
  <1>4. QED BY <1>2, <1>3

LEMMA AttachedOk == ASSUME NEW s, Attached(s) PROVE PortOk(s) /\ (s.absent \/ Direct(s))
  BY DEF Attached, Gone, Steady, Exact, Ready, Plain

LEMMA AttachedMode ==
  ASSUME NEW s, Attached(s), NEW w \in {"reset", "unreset", "ultimax", "normal"}
  PROVE  Attached(Port!ModeWritten(s, w))
  <1>1. CASE s.absent
    <2>1. PortOk(s) /\ Gone(s) /\ trx BY <1>1 DEF Attached, Gone
    <2>2. PICK y : /\ Port!ModeWritten(s, w) = Port!TrxUpdate(y)
                   /\ PortOk(y) /\ Kept(y, s, {"mode", "stretch", "own", "ses", "chips", "be"})
                   /\ BeKept(y.be, s.be, {"reset", "ultimax", "type", "uci", "lag"})
      BY <2>1, ModeShape
    <2>3. Gone(y) BY <2>1, <2>2, GoneKept DEF Kept, BeKept
    <2>4. QED BY <2>1, <2>2, <2>3, GoneUpdate DEF Attached, Gone
  <1>2. CASE ~s.absent
    <2>1. Steady(Port!ModeWritten(s, w)) BY <1>2, ModeWrittenOk DEF Attached
    <2>2. QED BY <2>1 DEF Attached, Steady, Exact, Ready, Plain, Bare
  <1>3. QED BY <1>1, <1>2

LEMMA AttachedStop ==
  ASSUME NEW s, Attached(s), NEW on \in BOOLEAN
  PROVE  Attached(Port!StopWritten(s, on))
  <1>1. CASE s.absent
    <2> DEFINE x == [s EXCEPT !.stop = on]
    <2>1. PortOk(s) /\ Gone(s) /\ trx BY <1>1 DEF Attached, Gone
    <2>2. Port!StopWritten(s, on) = Port!TrxUpdate(x) BY <2>1 DEF Port!StopWritten, PortOk, PortFields
    <2>3. Kept(x, s, {"stop"}) /\ x.stop = on BY <2>1 DEF PortOk, Kept, PortFields
    <2> HIDE DEF x
    <2>4. PortOk(x) /\ x.be = s.be BY <2>1, <2>3 DEF PortOk, Kept, PortFields
    <2>5. Gone(x) BY <2>1, <2>3, <2>4, GoneKept DEF Kept, BeKept
    <2>6. QED BY <2>1, <2>2, <2>5, GoneUpdate DEF Attached, Gone
  <1>2. CASE ~s.absent
    <2>1. Steady(Port!StopWritten(s, on)) BY <1>2, StopWrittenOk DEF Attached
    <2>2. QED BY <2>1 DEF Attached, Steady, Exact, Ready, Plain, Bare
  <1>3. QED BY <1>1, <1>2

LEMMA AccessOk ==
  ASSUME PortInvariant, Port!Access
  PROVE  PortInvariant'
  <1>1. PICK s \in Port!Synced(c) : Port!WriteMode(s) \/ Port!WriteStop(s) \/ Port!WriteType(s) \/ Port!WriteKill(s)
                                    \/ Port!WriteReu(s) \/ Port!WriteWindow(s)
    BY DEF Port!Access
  <1>2. Attached(s) /\ (s.absent <=> c.absent) BY <1>1, SyncedAttached DEF PortInvariant
  <1>3. PortOk(s) /\ (s.absent \/ Direct(s)) BY <1>2, AttachedOk
  <1>4. Attached(c')
    <2>1. CASE Port!WriteMode(s) BY <1>2, <2>1, AttachedMode DEF Port!WriteMode
    <2>2. CASE Port!WriteStop(s) BY <1>2, <2>2, AttachedStop DEF Port!WriteStop
    <2>3. CASE Port!WriteType(s)
      <3>1. PICK t \in Types : c' = Port!TypeWritten(s, t) BY <2>3 DEF Port!WriteType
      <3> DEFINE z == IF Port!ResetHeld(s) THEN t ELSE s.be.type
                 b == [s.be EXCEPT !.type = z]
                 x == [s EXCEPT !.type = t, !.be = b]
      <3>2. c' = x BY <1>3, <3>1 DEF Port!TypeWritten, PortOk, PortFields, BeOk, BeFields
      <3>3. DOMAIN b = BeFields /\ BeKept(b, s.be, {"type", "reu"}) /\ b.reu = s.be.reu BY <1>3 DEF PortOk, BeOk, BeFields, BeKept
      <3> HIDE DEF b
      <3>4. Kept(x, s, {"be", "type", "reu"}) /\ x.be = b /\ x.reu = s.reu BY <1>3 DEF PortOk, Kept, PortFields
      <3> HIDE DEF x
      <3>5. x.reu \in BOOLEAN /\ (x.be.reu = x.reu \/ (s.absent /\ x.be.reu \in BOOLEAN))
        BY <1>3, <3>3, <3>4 DEF PortOk, BeOk, Direct
      <3>6. QED BY <1>2, <3>2, <3>3, <3>4, <3>5, AttachedLatch
    <2>4. CASE Port!WriteKill(s)
      <3>1. PICK force \in BOOLEAN : c' = [s EXCEPT !.be.type = IF force THEN s.type ELSE Port!Killed] BY <2>4 DEF Port!WriteKill
      <3> DEFINE z == IF force THEN s.type ELSE Port!Killed
                 b == [s.be EXCEPT !.type = z]
                 x == [s EXCEPT !.be = b]
      <3>2. c' = x BY <1>3, <3>1
      <3>3. DOMAIN b = BeFields /\ BeKept(b, s.be, {"type", "reu"}) /\ b.reu = s.be.reu BY <1>3 DEF PortOk, BeOk, BeFields, BeKept
      <3> HIDE DEF b
      <3>4. Kept(x, s, {"be", "type", "reu"}) /\ x.be = b /\ x.reu = s.reu BY <1>3 DEF PortOk, Kept, PortFields
      <3> HIDE DEF x
      <3>5. x.reu \in BOOLEAN /\ (x.be.reu = x.reu \/ (s.absent /\ x.be.reu \in BOOLEAN))
        BY <1>3, <3>3, <3>4 DEF PortOk, BeOk, Direct
      <3>6. QED BY <1>2, <3>2, <3>3, <3>4, <3>5, AttachedLatch
    <2>5. CASE Port!WriteReu(s)
      <3>1. PICK on \in BOOLEAN : c' = [s EXCEPT !.reu = on, !.be.reu = on] BY <2>5 DEF Port!WriteReu
      <3> DEFINE b == [s.be EXCEPT !.reu = on]
                 x == [s EXCEPT !.reu = on, !.be = b]
      <3>2. c' = x BY <1>3, <3>1 DEF PortOk, PortFields
      <3>3. DOMAIN b = BeFields /\ BeKept(b, s.be, {"type", "reu"}) /\ b.reu = on BY <1>3 DEF PortOk, BeOk, BeFields, BeKept
      <3> HIDE DEF b
      <3>4. Kept(x, s, {"be", "type", "reu"}) /\ x.be = b /\ x.reu = on BY <1>3 DEF PortOk, Kept, PortFields
      <3> HIDE DEF x
      <3>5. x.reu \in BOOLEAN /\ x.be.reu = x.reu BY <3>3, <3>4
      <3>6. QED BY <1>2, <3>2, <3>3, <3>4, <3>5, AttachedLatch
    <2>6. CASE Port!WriteWindow(s)
      <3>1. PICK reg \in Port!Register, val \in Value : ~c.absent /\ c' = Port!WindowWritten(s, reg, val)
        BY <2>6 DEF Port!WriteWindow
      <3>2. Steady(c') BY <1>2, <3>1, WindowWrittenOk DEF Attached
      <3>3. QED BY <3>2 DEF Attached, Steady, Exact, Ready, Plain, Bare
    <2>7. QED BY <1>1, <2>1, <2>2, <2>3, <2>4, <2>5, <2>6
  <1>5. trx' = trx /\ esp' = esp BY DEF Port!Access, Port!Accessing, Port!Spend
  <1>6. PortGood(trx, c') BY <1>4, AttachedGood
  <1>7. QED BY <1>5, <1>6 DEF PortInvariant

LEMMA TickOk == ASSUME PortInvariant, Port!Tick PROVE PortInvariant'
  <1>1. ~c.absent /\ c' \in Port!Ticked(c) /\ trx' = trx /\ esp' = esp BY DEF Port!Tick
  <1>2. Steady(c') BY <1>1, TickedOk DEF PortInvariant
  <1>3. PortGood(trx, c') BY <1>2, SteadyGood
  <1>4. QED BY <1>1, <1>3 DEF PortInvariant

(* A write of the block waits for the port; only FRZ is the block's at once. *)
LEMMA WriteTrxOk == ASSUME PortInvariant, Port!WriteTrx PROVE PortInvariant'
  <1>1. PICK op \in Port!Ops :
              /\ trx /\ ~c.absent /\ trx' = trx /\ esp' = esp
              /\ c' = [c EXCEPT !.ops = Append(@, op), !.frz = IF op.reg = "gate" THEN op.on ELSE @]
    BY DEF Port!WriteTrx, Port!Accessing, Port!Spend
  <1> DEFINE f == IF op.reg = "gate" THEN op.on ELSE c.frz
             q == Append(c.ops, op)
             x == [c EXCEPT !.ops = q, !.frz = f]
  <1>2. PortOk(c) /\ Direct(c) /\ Cached(c) /\ HoldSeen(c) /\ c.ops \in Seq(Port!Ops) BY <1>1 DEF PortInvariant, PortGood
  <1>3. q \in Seq(Port!Ops) /\ q # << >> BY <1>1, <1>2
  <1>4. f \in BOOLEAN BY <1>1, <1>2 DEF Port!Ops, PortOk
  <1>5. c' = x BY <1>1
  <1> HIDE DEF f, q
  <1>6. Kept(x, c, {"ops", "frz"}) /\ x.ops = q /\ x.frz = f BY <1>2 DEF PortOk, Kept, PortFields
  <1> HIDE DEF x
  <1>7. /\ x.mode = c.mode /\ x.esp = c.esp /\ x.stretch = c.stretch /\ x.reu = c.reu /\ x.posHold = c.posHold /\ x.be = c.be
        /\ x.absent = c.absent /\ x.told = c.told /\ x.dbg = c.dbg /\ x.dbgSeen = c.dbgSeen
    BY <1>6 DEF Kept, PortFields
  <1>8. PortOk(x) BY <1>2, <1>4, <1>6 DEF PortOk, Kept, PortFields
  <1>9. Direct(x) BY <1>2, <1>7 DEF Direct, Port!ResetHeld, Port!OwnReset
  <1>10. Cached(x) /\ HoldSeen(x) BY <1>2, <1>7 DEF Cached, HoldSeen, Held
  <1>11. PortGood(TRUE, x) BY <1>3, <1>6, <1>8, <1>9, <1>10 DEF PortGood
  <1>12. QED BY <1>1, <1>5, <1>11 DEF PortInvariant

LEMMA WriteCtrlOk == ASSUME PortInvariant, Port!WriteCtrlReg PROVE PortInvariant'
  <1>1. PICK v \in Port!Ctrls :
              trx /\ ~c.absent /\ trx' = trx /\ esp' = esp /\ c' = [c EXCEPT !.ses = Port!WriteCtrl(@, v)]
    BY DEF Port!WriteCtrlReg, Port!Accessing, Port!Spend
  <1> DEFINE z == Port!WriteCtrl(c.ses, v)
             x == [c EXCEPT !.ses = z]
  <1>2. c' = x BY <1>1
  <1>3. /\ PortOk(c) /\ Direct(c) /\ Cached(c) /\ HoldSeen(c) /\ c.ops \in Seq(Port!Ops)
        /\ c.ops = << >> => Told(c)
    BY <1>1 DEF PortInvariant, PortGood
  <1> HIDE DEF z
  <1>4. Kept(x, c, {"ses"}) BY <1>3 DEF PortOk, Kept, PortFields
  <1> HIDE DEF x
  <1>5. /\ x.mode = c.mode /\ x.esp = c.esp /\ x.stretch = c.stretch /\ x.reu = c.reu /\ x.posHold = c.posHold /\ x.be = c.be
        /\ x.absent = c.absent /\ x.told = c.told /\ x.dbg = c.dbg /\ x.dbgSeen = c.dbgSeen /\ x.ops = c.ops /\ x.stop = c.stop
    BY <1>4 DEF Kept, PortFields
  <1>6. PortOk(x) BY <1>3, <1>4 DEF PortOk, Kept, PortFields
  <1>7. Direct(x) BY <1>3, <1>5 DEF Direct, Port!ResetHeld, Port!OwnReset
  <1>8. Cached(x) /\ HoldSeen(x) BY <1>3, <1>5 DEF Cached, HoldSeen, Held
  <1>9. Port!Lines(x) = Port!Lines(c) /\ (Port!Halted(x) <=> Port!Halted(c)) BY <1>4, LinesKept DEF Kept
  <1>10. c.ops = << >> => Told(x) BY <1>3, <1>5, <1>9 DEF Told
  <1>11. PortGood(TRUE, x) BY <1>3, <1>5, <1>6, <1>7, <1>8, <1>10 DEF PortGood
  <1>12. QED BY <1>1, <1>2, <1>11 DEF PortInvariant

LEMMA EspEventOk == ASSUME PortInvariant, Port!EspEvent PROVE PortInvariant'
  BY DEF PortInvariant, Port!EspEvent, Port!Spend

LEMMA CoreAbsentOk == ASSUME PortInvariant, Port!CoreAbsent PROVE PortInvariant'
  <1>1. PICK decouple \in BOOLEAN, s \in Port!Synced(c) :
              trx /\ ~c.absent /\ trx' = trx /\ esp' = esp /\ c' = Port!CoreGone(s, decouple)
    BY DEF Port!CoreAbsent, Port!Spend
  <1>2. Steady(s) BY <1>1, SyncedOk DEF PortInvariant
  <1>3. PortOk(s) /\ Cached(s) /\ s.ops = << >> BY <1>1, <1>2 DEF Steady, Exact, Ready
  <1> DEFINE t == [s EXCEPT !.absent = TRUE, !.stretch = 0]
             u == [t EXCEPT !.mode = {"reset"}, !.stop = FALSE, !.type = 0, !.reu = FALSE]
             F == {"absent", "stretch", "mode", "stop", "type", "reu"}
  <1>4. c' = t \/ c' = u BY <1>1 DEF Port!CoreGone
  <1>5. DOMAIN t = PortFields /\ Kept(t, s, {"absent", "stretch"}) /\ t.absent = TRUE /\ t.stretch = 0
    BY <1>3 DEF PortOk, Kept, PortFields
  <1> HIDE DEF t
  <1>6. Kept(u, t, {"mode", "stop", "type", "reu"}) /\ u.stop = FALSE /\ u.reu = FALSE BY <1>5 DEF Kept, PortFields
  <1> HIDE DEF u
  <1>7. t.stop = s.stop /\ t.reu = s.reu /\ u.absent = t.absent /\ u.stretch = t.stretch BY <1>5, <1>6 DEF Kept, PortFields
  <1>8. Kept(u, s, F) /\ Kept(t, s, F) BY <1>5, <1>6 DEF Kept
  <1>9. t.stop \in BOOLEAN /\ t.reu \in BOOLEAN /\ u.stop \in BOOLEAN /\ u.reu \in BOOLEAN BY <1>3, <1>6, <1>7 DEF PortOk
  <1>10. /\ Kept(c', s, F) /\ c'.absent = TRUE /\ c'.stretch = 0 /\ c'.stop \in BOOLEAN /\ c'.reu \in BOOLEAN
    BY <1>4, <1>5, <1>7, <1>8, <1>9
  <1>12. c'.told = s.told /\ c'.be = s.be /\ c'.ops = s.ops BY <1>10 DEF Kept, PortFields
  <1>16. /\ c'.dbg = s.dbg /\ c'.dbgSeen = s.dbgSeen /\ c'.frz = s.frz /\ c'.posHold = s.posHold /\ c'.halted = s.halted
         /\ DOMAIN c' = PortFields
    BY <1>10 DEF Kept, PortFields
  <1>11. PortOk(c')
    <2>1. BeOk(c'.be) /\ DbgOk(c'.dbg) BY <1>3, <1>12, <1>16 DEF PortOk
    <2>2. DOMAIN c'.told = ToldFields /\ \A f \in ToldFields : c'.told[f] \in BOOLEAN BY <1>3, <1>12 DEF PortOk
    <2>3. c'.dbgSeen \in BOOLEAN /\ c'.frz \in BOOLEAN /\ c'.posHold \in BOOLEAN /\ c'.halted \in BOOLEAN
      BY <1>3, <1>16 DEF PortOk
    <2> HIDE DEF F
    <2>6. c'.stretch \in Nat
      <3>1. c'.stretch = 0 BY <1>10, Zenon
      <3>2. QED BY <3>1
    <2>4. c'.absent \in BOOLEAN BY <1>10, Zenon
    <2>5. QED BY <1>10, <1>16, <2>1, <2>2, <2>3, <2>4, <2>6 DEF PortOk
  <1>13. Gone(c') BY <1>3, <1>10, <1>11, <1>12 DEF Gone, Cached
  <1>14. PortGood(trx, c') BY <1>1, <1>13, GoneGood
  <1>15. QED BY <1>1, <1>14 DEF PortInvariant

(* The new C64 is told the registers, which kept what was written. *)
LEMMA LoadedOk ==
  ASSUME trx, NEW s, PortOk(s)
  PROVE  Steady(Port!CoreLoaded(s))
  <1> DEFINE t == Port!PoweredUp(s)
             h == Port!ResetHeld(t)
             m == "ultimax" \in t.mode
             b == [Port!NewBackend EXCEPT !.reu = t.reu, !.type = t.type, !.reset = h, !.ultimax = m]
             u == [t EXCEPT !.be = b]
  <1>1. /\ Kept(t, s, {"frz", "ops", "posHold", "dbgSeen", "halted", "told", "ses", "dbg", "absent", "own", "stretch", "chips", "be"})
        /\ t.frz = FALSE /\ t.ops = << >> /\ t.posHold = FALSE /\ t.dbgSeen = FALSE /\ t.halted = FALSE
        /\ t.told = Port!NotTold /\ t.dbg = Port!NewDbg /\ t.absent = FALSE /\ t.stretch = 0 /\ t.be = Port!NewBackend
    BY DEF PortOk, Kept, PortFields, Port!PoweredUp
  <1>2. h \in BOOLEAN /\ m \in BOOLEAN BY DEF Port!ResetHeld, Port!OwnReset
  <1>3. Port!CoreLoaded(s) = Port!TrxUpdate(u) BY <1>1 DEF Port!CoreLoaded, PortFields, Kept
  <1>4. t.stop \in BOOLEAN /\ t.reu \in BOOLEAN /\ DOMAIN t = PortFields BY <1>1 DEF Kept, PortFields, PortOk
  <1> HIDE DEF t
  <1>5. Kept(u, t, {"be"}) /\ u.be = b BY <1>4 DEF Kept, PortFields
  <1>6. h <=> Port!ResetHeld(u)
    <2>1. u.mode = t.mode /\ u.esp = t.esp /\ u.stretch = t.stretch BY <1>5 DEF Kept, PortFields
    <2>2. QED BY <2>1 DEF Port!ResetHeld, Port!OwnReset
  <1>7. m <=> "ultimax" \in u.mode BY <1>5 DEF Kept, PortFields
  <1> HIDE DEF u, h, m
  <1>8. /\ DOMAIN b = BeFields /\ b.reu = t.reu /\ b.reset = h /\ b.ultimax = m
        /\ b.stopped = FALSE /\ b.paused = FALSE /\ b.muted = FALSE /\ b.posArm = FALSE /\ b.posHold = FALSE
        /\ b.dbgHeld = FALSE /\ b.uci = FALSE /\ b.lag = {}
    BY DEF Port!NewBackend, BeFields
  <1> HIDE DEF b
  <1>9. BeOk(b) BY <1>2, <1>4, <1>8 DEF BeOk, NoDebt
  <1>10. /\ u.stop = t.stop /\ u.reu = t.reu /\ u.frz = FALSE /\ u.ops = << >> /\ u.posHold = FALSE /\ u.dbgSeen = FALSE
         /\ u.halted = FALSE /\ u.told = Port!NotTold /\ u.dbg = Port!NewDbg /\ u.absent = FALSE /\ u.stretch = 0
         /\ DOMAIN u = PortFields
    BY <1>1, <1>5 DEF Kept, PortFields
  <1>11. DbgOk(Port!NewDbg) /\ ~Port!Holds(Port!NewDbg) BY DEF DbgOk, DbgFields, Port!NewDbg, Port!Holds
  <1>12. DOMAIN Port!NotTold = ToldFields /\ \A f \in ToldFields : Port!NotTold[f] = FALSE BY DEF Port!NotTold, ToldFields
  <1>13. PortOk(u)
    <2>1. BeOk(u.be) /\ DbgOk(u.dbg) BY <1>5, <1>9, <1>10, <1>11
    <2>2. DOMAIN u.told = ToldFields /\ \A f \in ToldFields : u.told[f] \in BOOLEAN BY <1>10, <1>12
    <2>3. u.absent \in BOOLEAN /\ u.dbgSeen \in BOOLEAN /\ u.frz \in BOOLEAN /\ u.posHold \in BOOLEAN /\ u.halted \in BOOLEAN
      BY <1>10, Zenon
    <2>4. u.stop \in BOOLEAN /\ u.reu \in BOOLEAN /\ u.stretch = 0 BY <1>4, <1>10, Zenon
    <2>5. QED BY <1>10, <2>1, <2>2, <2>3, <2>4 DEF PortOk
  <1>14. Direct(u) BY <1>5, <1>6, <1>7, <1>8, <1>10 DEF Direct
  <1>15. Cached(u) BY <1>5, <1>8, <1>10, <1>12 DEF Cached, ToldFields
  <1>16. Moved(u) BY <1>5, <1>8, <1>10, <1>11, <1>13, <1>14, <1>15 DEF Moved, Ready, Held
  <1>17. QED BY <1>3, <1>16, UpdateOk

LEMMA CorePresentOk == ASSUME PortInvariant, Port!CorePresent PROVE PortInvariant'
  <1>1. c.absent /\ c' = Port!CoreLoaded(c) /\ trx' = trx /\ esp' = esp BY DEF Port!CorePresent
  <1>2. trx /\ PortOk(c) BY <1>1 DEF PortInvariant, PortGood, Bare
  <1>3. Steady(c') BY <1>1, <1>2, LoadedOk
  <1>4. PortGood(trx, c') BY <1>3, SteadyGood
  <1>5. QED BY <1>1, <1>4 DEF PortInvariant

LEMMA FreshOk == Steady(Port!Fresh)
  <1> DEFINE s == Port!Fresh
             b == Port!NewBackend
             d == Port!NewDbg
             k == Port!NotTold
  <1>1. /\ DOMAIN s = PortFields /\ s.mode = {} /\ s.stop = FALSE /\ s.reu = FALSE /\ s.esp = FALSE /\ s.stretch = 0
        /\ s.absent = FALSE /\ s.told = k /\ s.dbgSeen = FALSE /\ s.frz = FALSE /\ s.ops = << >> /\ s.posHold = FALSE
        /\ s.halted = FALSE /\ s.dbg = d /\ s.be = b
    BY DEF Port!Fresh, PortFields
  <1>2. /\ DOMAIN b = BeFields /\ b.reset = FALSE /\ b.stopped = FALSE /\ b.paused = FALSE /\ b.muted = FALSE /\ b.ultimax = FALSE
        /\ b.reu = FALSE /\ b.posArm = FALSE /\ b.posHold = FALSE /\ b.dbgHeld = FALSE /\ b.uci = FALSE /\ b.lag = {}
    BY DEF Port!NewBackend, BeFields
  <1>3. DOMAIN d = DbgFields /\ d.own = FALSE /\ d.hold = FALSE /\ d.step = FALSE /\ d.armed = FALSE
    BY DEF Port!NewDbg, DbgFields
  <1>4. DOMAIN k = ToldFields /\ k.stopped = FALSE /\ k.paused = FALSE /\ k.muted = FALSE BY DEF Port!NotTold, ToldFields
  <1> HIDE DEF s, b, d, k
  <1>5. BeOk(b) /\ DbgOk(d) /\ ~Port!Holds(d) BY <1>2, <1>3 DEF BeOk, DbgOk, NoDebt, Port!Holds
  <1>6. PortOk(s)
    <2>1. BeOk(s.be) /\ DbgOk(s.dbg) BY <1>1, <1>5
    <2>2. DOMAIN s.told = ToldFields /\ \A f \in ToldFields : s.told[f] \in BOOLEAN BY <1>1, <1>4 DEF ToldFields
    <2>3. /\ s.absent \in BOOLEAN /\ s.dbgSeen \in BOOLEAN /\ s.frz \in BOOLEAN /\ s.posHold \in BOOLEAN /\ s.halted \in BOOLEAN
          /\ s.stop \in BOOLEAN /\ s.reu \in BOOLEAN
      BY <1>1, Zenon
    <2>4. QED BY <1>1, <2>1, <2>2, <2>3 DEF PortOk
  <1>7. ~Port!ResetHeld(s) BY <1>1 DEF Port!ResetHeld, Port!OwnReset
  <1>8. Direct(s) BY <1>1, <1>2, <1>7 DEF Direct
  <1>9. Cached(s) BY <1>1, <1>2, <1>4 DEF Cached, ToldFields
  <1>10. ~Port!PausedBy(Port!Lines(s)) BY <1>1 DEF Port!PausedBy, Port!Lines
  <1>11. Told(s) BY <1>1, <1>4, <1>5, <1>10 DEF Told, Port!Halted
  <1>12. HoldSeen(s) BY <1>1, <1>2, <1>5 DEF HoldSeen, Held
  <1>13. Bare(s) BY <1>1, <1>2 DEF Bare, d
  <1>14. QED BY <1>1, <1>6, <1>8, <1>9, <1>11, <1>12, <1>13 DEF Steady, Exact, Ready, Plain, s

(* The machine the app has just frozen. *)
LEMMA FrozenOk == ASSUME trx PROVE Steady(Port!Frozen)
  <1> DEFINE s == Port!StopWritten(Port!Fresh, TRUE)
             t == Port!ModeWritten(s, "ultimax")
             u == [t EXCEPT !.frz = TRUE]
  <1>1. Steady(t) BY FreshOk, StopWrittenOk, ModeWrittenOk
  <1>2. Port!Frozen = Port!TrxUpdate(u) BY DEF Port!Frozen, Port!TrxUpdate
  <1> HIDE DEF t
  <1>3. Ready(t) /\ Held(t) BY <1>1 DEF Steady, Exact, HoldSeen
  <1>4. Kept(u, t, {"frz"}) /\ u.frz = TRUE BY <1>3 DEF Ready, PortOk, Kept, PortFields
  <1> HIDE DEF u
  <1>5. /\ u.mode = t.mode /\ u.esp = t.esp /\ u.stretch = t.stretch /\ u.reu = t.reu /\ u.posHold = t.posHold /\ u.be = t.be
        /\ u.absent = t.absent /\ u.told = t.told /\ u.dbg = t.dbg /\ u.ops = t.ops
    BY <1>4 DEF Kept, PortFields
  <1>6. PortOk(u) BY <1>3, <1>4 DEF Ready, PortOk, Kept, PortFields
  <1>7. Moved(u) BY <1>3, <1>5, <1>6 DEF Moved, Ready, Direct, Cached, Held, Port!ResetHeld, Port!OwnReset
  <1>8. QED BY <1>2, <1>7, UpdateOk

LEMMA PortInitOk == ASSUME Port!Init PROVE PortInvariant
  <1>1. trx \in BOOLEAN /\ esp = FALSE /\ (c = Port!Fresh \/ (trx /\ c = Port!Frozen)) BY DEF Port!Init
  <1>2. Steady(c) BY <1>1, FreshOk, FrozenOk
  <1>3. QED BY <1>1, <1>2, SteadyGood DEF PortInvariant

LEMMA PortNextOk == ASSUME PortInvariant, Port!Next PROVE PortInvariant'
  BY TickOk, AccessOk, WriteTrxOk, WriteCtrlOk, EspEventOk, CoreAbsentOk, CorePresentOk DEF Port!Next

LEMMA PortFollows == ASSUME PortInvariant PROVE Port!EngineFollows
  <1>1. PortOk(c) /\ trx \in BOOLEAN BY DEF PortInvariant, PortGood
  <1>2. Port!NoCatchUp BY <1>1 DEF PortOk, BeOk, NoDebt, Port!NoCatchUp
  <1>3. ASSUME c.ops = << >>, ~c.absent
        PROVE  /\ c.be.reset <=> Port!ResetHeld(c)
               /\ c.be.ultimax <=> "ultimax" \in c.mode
               /\ c.be.reu = c.reu
               /\ c.be.stopped <=> c.stop /\ ~(trx /\ c.dbg.own)
               /\ c.be.paused <=> trx /\ Port!PausedBy(Port!Lines(c))
               /\ c.be.muted <=> c.stop \/ Port!Halted(c)
               /\ c.be.posHold = c.posHold
               /\ c.be.dbgHeld <=> Port!Holds(c.dbg)
    <2>1. Direct(c) BY <1>3 DEF PortInvariant, PortGood
    <2>2. CASE trx
      <3>1. Cached(c) /\ HoldSeen(c) /\ Told(c) BY <1>3, <2>2 DEF PortInvariant, PortGood
      <3>2. c.be.stopped = c.told.stopped /\ c.be.paused = c.told.paused /\ c.be.muted = c.told.muted
        BY <3>1 DEF Cached, ToldFields
      <3>3. QED BY <2>1, <2>2, <3>1, <3>2 DEF Direct, Told, HoldSeen, Held
    <2>3. CASE ~trx
      <3>1. Bare(c) BY <2>3 DEF PortInvariant, PortGood
      <3>2. ~Port!Holds(Port!NewDbg) BY DEF Port!Holds, Port!NewDbg
      <3>3. ~Port!Halted(c) BY <3>1, <3>2 DEF Bare, Port!Halted, Port!PausedBy, Port!Lines
      <3>4. QED BY <2>1, <2>3, <3>1, <3>2, <3>3 DEF Direct, Bare
    <2>4. QED BY <2>2, <2>3
  <1>4. /\ c.be.reset \in BOOLEAN /\ c.be.ultimax \in BOOLEAN /\ c.be.stopped \in BOOLEAN /\ c.be.paused \in BOOLEAN
        /\ c.be.muted \in BOOLEAN /\ c.be.dbgHeld \in BOOLEAN /\ Port!Holds(c.dbg) \in BOOLEAN /\ Port!Halted(c) \in BOOLEAN
        /\ Port!ResetHeld(c) \in BOOLEAN /\ Port!PausedBy(Port!Lines(c)) \in BOOLEAN
    BY <1>1, LinesBool DEF PortOk, BeOk
  <1>5. Port!BackendFollows BY <1>3, <1>4 DEF Port!BackendFollows
  <1>6. QED BY <1>2, <1>5 DEF Port!EngineFollows

(* C64Port and its engine: for every stretch, set of cartridge types, list  *)
(* of the session and number of accesses, in any order of the firmware's    *)
(* writes, the block's, the debugger's runs, the ESP32's resets and cores   *)
(* that come and go, the engine has every line as registers, block and      *)
(* debugger ask for it, and a C64 that stood does not make up the time.     *)
THEOREM EngineFollowsThm == Spec => []EngineFollows
  <1>1. Init => PortInv BY PortInitOk DEF Init, PortInv
  <1>2. PortInv /\ [Next]_vars => PortInv'
    <2> SUFFICES ASSUME PortInv, [Next]_vars, part' = "port" PROVE PortInvariant' BY DEF PortInv
    <2>1. CASE PortNext BY <2>1, PortNextOk DEF PortNext, PortInv
    <2>2. CASE UNCHANGED portVars /\ part' = part BY <2>2 DEF portVars, PortInv, PortInvariant
    <2>3. QED
      BY <2>1, <2>2 DEF Next, DebugNext, TimeNext, FlashNext, SdNext, FdcNext, RomNext, McpNext, EspNext, DiskNext, CartNext, vars
  <1>3. PortInv => EngineFollows BY PortFollows DEF PortInv, EngineFollows
  <1>4. QED BY <1>1, <1>2, <1>3, PTL DEF Spec
=============================================================================
