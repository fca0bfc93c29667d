---------------------------- MODULE PartsProofs ----------------------------
(***************************************************************************)
(* The parts of Parts, one after the other.  A part moves alone, so what a *)
(* part promises rests on an invariant of its own; the sections below each *)
(* hold one part's invariant, the steps that keep it, and the theorem.     *)
(***************************************************************************)
EXTENDS Parts, FiniteSetTheorems, SequenceTheorems, TLAPS

-----------------------------------------------------------------------------
(* MCP servers                                                             *)

LEMMA McpSizes == MaxServers \in Nat /\ MaxServers > 0 /\ MaxIds \in Nat /\ MaxIds > 0 /\ MaxCalls \in Nat /\ MaxEmus \in Nat
  BY PartsAssumption

McpPc == {"idle", "lock", "look", "open", "read", "stat", "remove", "write",
          "clear", "spawn", "watch", "json", "ready", "boot", "release"}

McpClaim == {Mcp!NoFile} \cup {Mcp!Empty(k) : k \in Mcp!Call} \cup {Mcp!Claim(p) : p \in {0} \cup Mcp!Servers}
McpEmu   == [id : {0} \cup Mcp!Id, by : {0} \cup Mcp!Servers, up : BOOLEAN,
             watch : {"none", "waits", "eof", "done"}, stop : {"no", "quitting", "told"}]
McpSrv   == [up : BOOLEAN, closing : BOOLEAN, instances : SUBSET Mcp!Emu]
McpCall  == [pc : McpPc, running : SUBSET ({0} \cup Mcp!Id), id : {0} \cup Mcp!Id, tries : {0, 1}, emu : {0} \cup Mcp!Emu]

McpType ==
    /\ claims \in [Mcp!Id -> McpClaim] /\ json \in [Mcp!Id -> {0} \cup Mcp!Emu]
    /\ emu \in [Mcp!Emu -> McpEmu]
    /\ srv \in [Mcp!Servers -> McpSrv]
    /\ call \in [Mcp!Call -> McpCall]
    /\ window \subseteq {"old list", "late check", "takeover", "release", "young orphan"} /\ wiped \in BOOLEAN

(* A call that looks at ids or holds one has one, and its server lives; one *)
(* call of a server looks at a time.                                        *)
Looking(k) == call[k].pc \in {"open", "read", "stat", "remove", "write"}
Working(k) == call[k].pc \in {"clear", "spawn", "watch", "json", "ready", "release"}
Starting(k) == call[k].pc \in {"watch", "json", "ready"}

CallsInTurn ==
    /\ \A k \in Mcp!Call : call[k].pc # "idle" => srv[Mcp!ServerOf(k)].up
    /\ \A k \in Mcp!Call : call[k].pc \notin {"idle", "lock"} => call[k].id \in Mcp!Id
    /\ \A k, x \in Mcp!Call : Mcp!ServerOf(k) = Mcp!ServerOf(x) /\ Mcp!Looks(k) /\ Mcp!Looks(x) => k = x
    /\ \A s \in Mcp!Servers : ~srv[s].up => srv[s].instances = {}

(* No id is held twice in a server, and none that is looked at is held.     *)
IdsApart ==
    \A k, x \in Mcp!Call :
        Mcp!ServerOf(k) = Mcp!ServerOf(x) /\ k # x /\ call[k].id = call[x].id /\ Mcp!Holds(k) => ~Mcp!Holds(x) /\ ~Looking(x)

InstancesApart ==
    \A k \in Mcp!Call, i \in Mcp!Emu :
        Looking(k) /\ i \in srv[Mcp!ServerOf(k)].instances => emu[i].id # call[k].id

(* The file a call created waits for its pid; a call at work has the claim, *)
(* a server that lives the claims of its instances.                         *)
ClaimsKept ==
    /\ \A k \in Mcp!Call : call[k].pc = "write" => claims[call[k].id] = Mcp!Empty(k)
    /\ \A k \in Mcp!Call : Working(k) => claims[call[k].id] = Mcp!Claim(Mcp!ServerOf(k))
    /\ \A s \in Mcp!Servers : \A i \in srv[s].instances : claims[emu[i].id] = Mcp!Claim(s)

(* What a call at work starts is its own, and nothing else of its id runs   *)
(* or is kept.                                                              *)
Alone ==
    /\ \A k, x \in Mcp!Call : Mcp!Holds(k) /\ Mcp!Holds(x) /\ call[k].emu = call[x].emu /\ call[k].emu # 0 => k = x
    /\ \A k \in Mcp!Call : call[k].pc \in {"watch", "json", "ready", "boot", "release"} => call[k].emu # 0
    /\ \A k \in Mcp!Call : ~Mcp!Holds(k) => call[k].emu = 0
    /\ \A k \in Mcp!Call : Mcp!Holds(k) /\ call[k].emu # 0 =>
          emu[call[k].emu].id = call[k].id /\ emu[call[k].emu].by = Mcp!ServerOf(k)
    /\ \A k \in Mcp!Call : Working(k) => call[k].emu = 0 \/ emu[call[k].emu].stop = "no"
    /\ \A k \in Mcp!Call, i \in Mcp!Emu : Working(k) /\ emu[i].id = call[k].id =>
          /\ \A s \in Mcp!Servers : i \notin srv[s].instances
          /\ emu[i].up => Starting(k) /\ call[k].emu = i

(* An emulator that runs: its server is there, its file names it, its      *)
(* watchdog waits for it.                                                  *)
Emulators ==
    /\ \A i \in Mcp!Emu : emu[i].id = 0 <=> emu[i] = Mcp!NotStarted
    /\ \A i \in Mcp!Emu : emu[i].id # 0 => emu[i].by # 0
    /\ \A s \in Mcp!Servers : \A i \in srv[s].instances : emu[i].by = s /\ emu[i].id # 0 /\ emu[i].stop = "no"
    /\ \A i \in Mcp!Emu : emu[i].up =>
          /\ emu[i].id # 0 /\ emu[i].stop # "told" /\ emu[i].watch # "done"
          /\ json[emu[i].id] = i \/ \E k \in Mcp!Call : call[k].pc \in {"watch", "json"} /\ call[k].emu = i
          /\ emu[i].watch = "none" => \E k \in Mcp!Call : call[k].pc = "watch" /\ call[k].emu = i
    /\ \A i, j \in Mcp!Emu : emu[i].up /\ emu[j].up /\ emu[i].id = emu[j].id => i = j
    /\ \A k \in Mcp!Call : call[k].pc = "boot" /\ emu[call[k].emu].up =>
          call[k].emu \in srv[Mcp!ServerOf(k)].instances \/ emu[call[k].emu].stop # "no"

McpWhile == CallsInTurn /\ IdsApart /\ InstancesApart /\ ClaimsKept /\ Alone /\ Emulators /\ ~wiped

McpInvariant == McpType /\ Mcp!NoOrphan /\ (window = {} => McpWhile)

-----------------------------------------------------------------------------
(* The steps. *)

LEMMA McpServerOf == ASSUME NEW k \in Mcp!Call PROVE Mcp!ServerOf(k) \in Mcp!Servers
  BY McpSizes DEF Mcp!Call, Mcp!Servers, Mcp!ServerOf

LEMMA McpClaims ==
  /\ Mcp!NoFile \in McpClaim
  /\ \A k \in Mcp!Call : Mcp!Empty(k) \in McpClaim
  /\ \A p \in {0} \cup Mcp!Servers : Mcp!Claim(p) \in McpClaim
  BY DEF McpClaim

LEMMA McpClaimForms ==
  /\ \A k \in Mcp!Call : Mcp!Empty(k).there /\ Mcp!Empty(k).by = k /\ Mcp!Empty(k).pid = 0 /\ k # 0
  /\ \A p : Mcp!Claim(p).there /\ Mcp!Claim(p).by = 0 /\ Mcp!Claim(p).pid = p
  /\ ~Mcp!NoFile.there /\ Mcp!NoFile.by = 0 /\ Mcp!NoFile.pid = 0
  /\ 0 \notin Mcp!Servers
  BY DEF Mcp!Empty, Mcp!Claim, Mcp!NoFile, Mcp!Call, Mcp!Servers, Mcp!Stale

(* The ids that matter are ids. *)
LEMMA McpIds ==
  ASSUME McpType, McpWhile
  PROVE  /\ \A x \in Mcp!Call : call[x].pc \notin {"idle", "lock"} => call[x].id \in Mcp!Id
         /\ \A s \in Mcp!Servers : \A i \in srv[s].instances : i \in Mcp!Emu /\ emu[i].id \in Mcp!Id
  BY McpClaimForms DEF McpType, McpEmu, McpSrv, McpWhile, CallsInTurn, Emulators

(* A call that holds no id moves without touching an emulator. *)
LEMMA McpCallMoves ==
  ASSUME McpInvariant, window = {}, NEW k \in Mcp!Call,
         UNCHANGED << json, emu, srv, wiped >>,
         \A x \in Mcp!Call : x # k => call'[x] = call[x],
         ~Mcp!Holds(k), ~Mcp!Holds(k)', call'[k].emu \in {0, call[k].emu}
  PROVE  Alone' /\ Emulators' /\ Mcp!NoOrphan' /\ ~wiped'
  <1>1. McpType /\ Alone /\ Emulators /\ Mcp!NoOrphan BY DEF McpInvariant, McpWhile
  <1>2. Alone'
    <2>1. \A x \in Mcp!Call : Mcp!Holds(x)' => x # k /\ Mcp!Holds(x) /\ call'[x] = call[x] BY DEF Mcp!Holds
    <2>2. \A x \in Mcp!Call : call'[x].pc \in {"clear", "spawn", "watch", "json", "ready", "boot", "release"} <=> Mcp!Holds(x)' BY DEF Mcp!Holds
    <2>3. \A x \in Mcp!Call : ~Mcp!Holds(x)' => call'[x].emu = 0
      <3>1. \A x \in Mcp!Call : x # k => (Mcp!Holds(x)' <=> Mcp!Holds(x)) BY DEF Mcp!Holds
      <3>2. QED BY <1>1, <3>1 DEF Alone
    <2>4. QED BY <1>1, <2>1, <2>2, <2>3 DEF Alone, Working, Starting
  <1>3. Emulators'
    <2>1. \A x \in Mcp!Call : call[x].pc \in {"watch", "json", "boot"} \/ call'[x].pc \in {"watch", "json", "boot"} => x # k BY DEF Mcp!Holds
    <2>2. \A x \in Mcp!Call : call[x].pc \in {"watch", "json", "boot"} \/ call'[x].pc \in {"watch", "json", "boot"} => call'[x] = call[x] BY <2>1
    <2>3. QED BY <1>1, <2>2 DEF Emulators
  <1>4. Mcp!NoOrphan'
    <2>1. \A x \in Mcp!Call : Mcp!Holds(x) => Mcp!Holds(x)' /\ call'[x] = call[x] BY DEF Mcp!Holds
    <2>2. QED BY ZenonT(40), <1>1, <2>1 DEF Mcp!NoOrphan
  <1>5. QED BY <1>2, <1>3, <1>4 DEF McpInvariant, McpWhile

(* A call that looks on and holds nothing. *)
LEMMA McpLooksOn ==
  ASSUME McpInvariant, window = {}, NEW k \in Mcp!Call,
         UNCHANGED << json, emu, srv, wiped >>,
         \A x \in Mcp!Call : x # k => call'[x] = call[x],
         ~Mcp!Holds(k), ~Mcp!Holds(k)',
         call'[k].pc # "idle" => srv[Mcp!ServerOf(k)].up,
         call'[k].pc \notin {"idle", "lock"} => call'[k].id \in Mcp!Id,
         Mcp!Looks(k)' => Mcp!Looks(k) \/ \A x \in Mcp!Call : Mcp!ServerOf(x) = Mcp!ServerOf(k) => ~Mcp!Looks(x),
         Looking(k)' =>
             /\ \A x \in Mcp!Call : Mcp!ServerOf(x) = Mcp!ServerOf(k) /\ Mcp!Holds(x) => call[x].id # call'[k].id
             /\ \A i \in srv[Mcp!ServerOf(k)].instances : emu[i].id # call'[k].id
  PROVE  CallsInTurn' /\ IdsApart' /\ InstancesApart'
  <1> USE McpServerOf
  <1>1. McpType /\ McpWhile BY DEF McpInvariant
  <1>2. CallsInTurn'
    <2>1. \A x \in Mcp!Call : x # k => (Mcp!Looks(x)' <=> Mcp!Looks(x)) BY DEF Mcp!Looks
    <2>2. QED BY <1>1, <2>1 DEF McpWhile, CallsInTurn
  <1>3. IdsApart' /\ InstancesApart'
    <2>1. \A x \in Mcp!Call : x # k => (Mcp!Holds(x)' <=> Mcp!Holds(x)) /\ (Looking(x)' <=> Looking(x)) BY DEF Mcp!Holds, Looking
    <2>2. IdsApart /\ InstancesApart BY <1>1 DEF McpWhile
    <2>3. \A x, y \in Mcp!Call : Mcp!ServerOf(x) = Mcp!ServerOf(y) /\ x # y /\ call'[x].id = call'[y].id /\ Mcp!Holds(x)' => ~Mcp!Holds(y)' /\ ~Looking(y)'
      <3> SUFFICES ASSUME NEW x \in Mcp!Call, NEW y \in Mcp!Call, Mcp!ServerOf(x) = Mcp!ServerOf(y), x # y, call'[x].id = call'[y].id, Mcp!Holds(x)'
                   PROVE  ~Mcp!Holds(y)' /\ ~Looking(y)'
        OBVIOUS
      <3>1. x # k /\ Mcp!Holds(x) /\ call'[x] = call[x] BY <2>1
      <3>2. CASE y = k BY <3>1, <3>2
      <3>3. CASE y # k BY <3>1, <3>3, <2>1, <2>2 DEF IdsApart
      <3>4. QED BY <3>2, <3>3
    <2>4. \A x \in Mcp!Call, i \in Mcp!Emu : Looking(x)' /\ i \in srv'[Mcp!ServerOf(x)].instances => emu'[i].id # call'[x].id
      BY <2>1, <2>2 DEF InstancesApart
    <2>5. QED BY <2>3, <2>4 DEF IdsApart, InstancesApart
  <1>4. QED BY <1>2, <1>3

LEMMA McpClaimsStay ==
  ASSUME McpInvariant, window = {}, NEW k \in Mcp!Call,
         UNCHANGED << claims, emu, srv >>,
         \A x \in Mcp!Call : x # k => call'[x] = call[x],
         ~Mcp!Holds(k)', call'[k].pc # "write"
  PROVE  ClaimsKept'
  <1>1. McpWhile BY DEF McpInvariant
  <1>2. \A x \in Mcp!Call : Working(x)' => x # k /\ Working(x) BY DEF Working, Mcp!Holds
  <1>3. QED BY <1>1, <1>2 DEF McpWhile, ClaimsKept

LEMMA McpStartCall ==
  ASSUME McpInvariant, window = {}, NEW k \in Mcp!Call, Mcp!StartCall(k)
  PROVE  McpInvariant'
  <1>1. McpType BY DEF McpInvariant
  <1>2. UNCHANGED << claims, json, emu, srv, window, wiped >> BY DEF Mcp!StartCall
  <1>3. Mcp!IdsOf(Mcp!ServerOf(k)) \subseteq {0} \cup Mcp!Id
    BY <1>1, McpServerOf DEF McpType, McpSrv, McpEmu, Mcp!IdsOf
  <1>4. call' \in [Mcp!Call -> McpCall] BY <1>1, <1>3 DEF McpType, McpCall, McpPc, Mcp!StartCall, Mcp!IdleCall
  <1>5. call[k].pc = "idle" /\ call'[k].pc = "lock" /\ srv[Mcp!ServerOf(k)].up BY <1>1 DEF McpType, McpCall, Mcp!StartCall, Mcp!IdleCall
  <1>6. \A x \in Mcp!Call : x # k => call'[x] = call[x] BY <1>1 DEF McpType, Mcp!StartCall
  <1>7. ~Mcp!Holds(k) /\ ~Mcp!Holds(k)' /\ ~Mcp!Looks(k)' /\ ~Looking(k)' BY <1>5 DEF Mcp!Holds, Mcp!Looks, Looking
  <1>b. call'[k].emu = 0 BY <1>1 DEF McpType, Mcp!StartCall, Mcp!IdleCall
  <1>8. McpWhile' /\ Mcp!NoOrphan' BY <1>2, <1>5, <1>6, <1>7, <1>b, McpLooksOn, McpCallMoves, McpClaimsStay DEF McpWhile
  <1>9. QED BY <1>1, <1>2, <1>4, <1>8 DEF McpInvariant, McpType

LEMMA McpLock ==
  ASSUME McpInvariant, window = {}, NEW k \in Mcp!Call, Mcp!Lock(k)
  PROVE  McpInvariant'
  <1>1. McpType /\ McpWhile BY DEF McpInvariant
  <1>2. UNCHANGED << claims, json, emu, srv, window, wiped >> BY DEF Mcp!Lock
  <1>3. 1 \in Mcp!Id BY McpSizes DEF Mcp!Id
  <1> DEFINE looks == [call[k] EXCEPT !.pc = "look", !.id = 1]
  <1>a. looks \in McpCall BY <1>1, <1>3 DEF McpType, McpCall, McpPc
  <1>b. call' = [call EXCEPT ![k] = looks] BY <1>1 DEF McpType, McpCall, Mcp!Lock
  <1> HIDE DEF looks
  <1>4. call' \in [Mcp!Call -> McpCall] BY <1>1, <1>a, <1>b DEF McpType
  <1>5. call[k].pc = "lock" /\ call'[k].pc = "look" /\ call'[k].id = 1 BY <1>1 DEF McpType, McpCall, Mcp!Lock
  <1>6. \A x \in Mcp!Call : x # k => call'[x] = call[x] BY <1>1 DEF McpType, Mcp!Lock
  <1>7. ~Mcp!Holds(k) /\ ~Mcp!Holds(k)' /\ ~Looking(k)' BY <1>5 DEF Mcp!Holds, Looking
  <1>8. \A x \in Mcp!Call : Mcp!ServerOf(x) = Mcp!ServerOf(k) => ~Mcp!Looks(x) BY DEF Mcp!Lock
  <1>9. srv[Mcp!ServerOf(k)].up BY <1>1, <1>5 DEF McpWhile, CallsInTurn
  <1>c. call'[k].emu = call[k].emu BY <1>1 DEF McpType, McpCall, Mcp!Lock
  <1>10. McpWhile' /\ Mcp!NoOrphan' BY <1>2, <1>3, <1>5, <1>6, <1>7, <1>8, <1>9, <1>c, McpLooksOn, McpCallMoves, McpClaimsStay DEF McpWhile
  <1>11. QED BY <1>1, <1>2, <1>4, <1>10 DEF McpInvariant, McpType

(* The next id, or none. *)
LEMMA McpNextId ==
  ASSUME McpType, NEW k \in Mcp!Call, call[k].id \in Mcp!Id, Mcp!NextId(k)
  PROVE  /\ call' \in [Mcp!Call -> McpCall]
         /\ \A x \in Mcp!Call : x # k => call'[x] = call[x]
         /\ call'[k].pc = "idle" \/ (call'[k].pc = "look" /\ call'[k].id \in Mcp!Id)
         /\ call'[k].emu \in {0, call[k].emu}
  <1> DEFINE on   == [call[k] EXCEPT !.pc = "look", !.id = @ + 1, !.tries = 0]
             next == IF on.id <= MaxIds THEN on ELSE Mcp!IdleCall
  <1>1. call' = [call EXCEPT ![k] = next] BY DEF Mcp!NextId
  <1>2. on.id = call[k].id + 1 BY DEF McpType, McpCall
  <1>a. on.id <= MaxIds => on.id \in Mcp!Id BY <1>2, McpSizes DEF Mcp!Id
  <1>3. next \in McpCall
    <2>1. CASE on.id <= MaxIds BY <1>2, <1>a, <2>1 DEF McpType, McpCall, McpPc
    <2>2. CASE ~(on.id <= MaxIds) BY <2>2 DEF McpCall, McpPc, Mcp!IdleCall
    <2>3. QED BY <2>1, <2>2
  <1>4. next.pc = "idle" \/ (next.pc = "look" /\ next.id \in Mcp!Id)
    <2>1. CASE on.id <= MaxIds BY <1>a, <2>1 DEF McpType, McpCall
    <2>2. CASE ~(on.id <= MaxIds) BY <2>2 DEF Mcp!IdleCall
    <2>3. QED BY <2>1, <2>2
  <1>b. next.emu \in {0, call[k].emu}
    <2>1. CASE on.id <= MaxIds BY <2>1 DEF McpType, McpCall
    <2>2. CASE ~(on.id <= MaxIds) BY <2>2 DEF Mcp!IdleCall
    <2>3. QED BY <2>1, <2>2
  <1> HIDE DEF next
  <1>5. QED BY <1>1, <1>3, <1>4, <1>b DEF McpType

LEMMA McpGoto ==
  ASSUME McpType, NEW k \in Mcp!Call, NEW pc \in McpPc, Mcp!Goto(k, pc)
  PROVE  /\ call' \in [Mcp!Call -> McpCall]
         /\ \A x \in Mcp!Call : x # k => call'[x] = call[x]
         /\ call'[k].pc = pc /\ call'[k].id = call[k].id /\ call'[k].emu = call[k].emu
  BY DEF McpType, McpCall, Mcp!Goto

LEMMA McpLook ==
  ASSUME McpInvariant, window = {}, NEW k \in Mcp!Call, Mcp!Look(k)
  PROVE  McpInvariant'
  <1> DEFINE taken == call[k].id \in call[k].running \cup Mcp!Reserved(Mcp!ServerOf(k)) \/ Mcp!InUse(call[k].id)
  <1>1. McpType /\ McpWhile BY DEF McpInvariant
  <1>2. UNCHANGED << claims, json, emu, srv, wiped >> /\ call[k].pc = "look" BY DEF Mcp!Look
  <1>3. srv[Mcp!ServerOf(k)].up /\ call[k].id \in Mcp!Id BY <1>1, <1>2 DEF McpWhile, CallsInTurn
  <1>4. /\ call' \in [Mcp!Call -> McpCall]
        /\ \A x \in Mcp!Call : x # k => call'[x] = call[x]
        /\ taken => call'[k].pc = "idle" \/ (call'[k].pc = "look" /\ call'[k].id \in Mcp!Id)
        /\ ~taken => call'[k].pc = "open" /\ call'[k].id = call[k].id
        /\ call'[k].emu \in {0, call[k].emu}
    <2>1. CASE taken
      <3>1. Mcp!NextId(k) BY <2>1 DEF Mcp!Look
      <3>2. QED BY <1>1, <1>3, <2>1, <3>1, McpNextId
    <2>2. CASE ~taken
      <3>1. Mcp!Goto(k, "open") BY <2>2 DEF Mcp!Look
      <3>2. QED BY <1>1, <2>2, <3>1, McpGoto DEF McpPc
    <2>3. QED BY <2>1, <2>2
  <1>5. ~Mcp!Holds(k) /\ ~Mcp!Holds(k)' /\ Mcp!Looks(k) BY <1>2, <1>4 DEF Mcp!Holds, Mcp!Looks
  <1>6. window' \in {window, window \cup {"old list"}} BY DEF Mcp!Look
  <1>7. Mcp!NoOrphan' BY <1>2, <1>4, <1>5, McpCallMoves
  <1>8. ASSUME window' = {} PROVE McpWhile'
    <2>1. ~taken => call[k].id \notin Mcp!IdsOf(Mcp!ServerOf(k)) BY <1>8 DEF Mcp!Look
    <2>2. ~taken => call[k].id \notin Mcp!Reserved(Mcp!ServerOf(k)) OBVIOUS
    <2>3. Looking(k)' => ~taken BY <1>4 DEF Looking
    <2>4. Looking(k)' => \A x \in Mcp!Call : Mcp!ServerOf(x) = Mcp!ServerOf(k) /\ Mcp!Holds(x) => call[x].id # call'[k].id
      BY <2>2, <2>3, <1>4 DEF Mcp!Reserved
    <2>5. Looking(k)' => \A i \in srv[Mcp!ServerOf(k)].instances : emu[i].id # call'[k].id
      BY <2>1, <2>3, <1>4 DEF Mcp!IdsOf
    <2> HIDE DEF taken
    <2>6. UNCHANGED claims /\ call'[k].pc # "write" BY <1>2, <1>4
    <2>7. QED BY <1>2, <1>3, <1>4, <1>5, <2>4, <2>5, <2>6, McpLooksOn, McpCallMoves, McpClaimsStay DEF McpWhile
  <1>9. McpType' BY <1>1, <1>2, <1>4, <1>6 DEF McpType
  <1>10. QED BY <1>7, <1>8, <1>9 DEF McpInvariant

LEMMA McpRead ==
  ASSUME McpInvariant, window = {}, NEW k \in Mcp!Call, Mcp!Read(k) \/ Mcp!Stat(k)
  PROVE  McpInvariant'
  <1>1. McpType /\ McpWhile BY DEF McpInvariant
  <1>2. UNCHANGED << claims, json, emu, srv, window, wiped >> BY DEF Mcp!Read, Mcp!Stat
  <1>3. call[k].pc \in {"read", "stat"} /\ (Mcp!NextId(k) \/ Mcp!Goto(k, "stat") \/ Mcp!Goto(k, "remove")) BY DEF Mcp!Read, Mcp!Stat
  <1>4. srv[Mcp!ServerOf(k)].up /\ call[k].id \in Mcp!Id BY <1>1, <1>3 DEF McpWhile, CallsInTurn
  <1>5. /\ call' \in [Mcp!Call -> McpCall]
        /\ \A x \in Mcp!Call : x # k => call'[x] = call[x]
        /\ \/ call'[k].pc = "idle" \/ (call'[k].pc = "look" /\ call'[k].id \in Mcp!Id)
           \/ call'[k].pc \in {"stat", "remove"} /\ call'[k].id = call[k].id
        /\ call'[k].emu \in {0, call[k].emu}
    <2>1. CASE Mcp!NextId(k) BY <1>1, <1>4, <2>1, McpNextId
    <2>2. CASE Mcp!Goto(k, "stat") BY <1>1, <2>2, McpGoto DEF McpPc
    <2>3. CASE Mcp!Goto(k, "remove") BY <1>1, <2>3, McpGoto DEF McpPc
    <2>4. QED BY <1>3, <2>1, <2>2, <2>3
  <1>6. ~Mcp!Holds(k) /\ ~Mcp!Holds(k)' /\ Mcp!Looks(k) /\ Looking(k) BY <1>3, <1>5 DEF Mcp!Holds, Mcp!Looks, Looking
  <1>7. Looking(k)' => call'[k].id = call[k].id BY <1>5 DEF Looking
  <1>8. /\ \A x \in Mcp!Call : Mcp!ServerOf(x) = Mcp!ServerOf(k) /\ Mcp!Holds(x) => call[x].id # call[k].id
        /\ \A i \in srv[Mcp!ServerOf(k)].instances : emu[i].id # call[k].id
    BY <1>1, <1>6, McpServerOf DEF McpWhile, IdsApart, InstancesApart, McpType, McpSrv
  <1>9. McpWhile' /\ Mcp!NoOrphan' BY <1>2, <1>4, <1>5, <1>6, <1>7, <1>8, McpLooksOn, McpCallMoves, McpClaimsStay DEF McpWhile
  <1>10. QED BY <1>1, <1>2, <1>5, <1>9 DEF McpInvariant, McpType

LEMMA McpOpen ==
  ASSUME McpInvariant, window = {}, NEW k \in Mcp!Call, Mcp!Open(k)
  PROVE  McpInvariant'
  <1>1. McpType /\ McpWhile BY DEF McpInvariant
  <1>2. UNCHANGED << json, emu, srv, window, wiped >> /\ call[k].pc = "open" BY DEF Mcp!Open
  <1>3. call[k].id \in Mcp!Id /\ srv[Mcp!ServerOf(k)].up BY <1>1, <1>2 DEF McpWhile, CallsInTurn
  <1>4. claims \in [Mcp!Id -> McpClaim] BY <1>1 DEF McpType
  <1>5. \/ claims' = claims /\ Mcp!Goto(k, "read")
        \/ claims[call[k].id] = Mcp!NoFile /\ claims' = [claims EXCEPT ![call[k].id] = Mcp!Empty(k)] /\ Mcp!Goto(k, "write")
    <2>1. claims[call[k].id].there \/ claims[call[k].id] = Mcp!NoFile BY <1>3, <1>4 DEF McpClaim, Mcp!Empty, Mcp!Claim
    <2>2. QED BY <2>1 DEF Mcp!Open
  <1>6. /\ call' \in [Mcp!Call -> McpCall]
        /\ \A x \in Mcp!Call : x # k => call'[x] = call[x]
        /\ call'[k].id = call[k].id /\ call'[k].emu = call[k].emu
        /\ \/ claims' = claims /\ call'[k].pc = "read"
           \/ claims[call[k].id] = Mcp!NoFile /\ claims' = [claims EXCEPT ![call[k].id] = Mcp!Empty(k)] /\ call'[k].pc = "write"
    BY <1>1, <1>5, McpGoto DEF McpPc
  <1>7. McpType' BY <1>1, <1>2, <1>3, <1>6, McpClaims DEF McpType
  <1>8. ~Mcp!Holds(k) /\ ~Mcp!Holds(k)' /\ Mcp!Looks(k) /\ Looking(k) /\ ~Working(k)' BY <1>2, <1>6 DEF Mcp!Holds, Mcp!Looks, Looking, Working
  <1>9. /\ \A x \in Mcp!Call : Mcp!ServerOf(x) = Mcp!ServerOf(k) /\ Mcp!Holds(x) => call[x].id # call[k].id
        /\ \A i \in srv[Mcp!ServerOf(k)].instances : emu[i].id # call[k].id
    BY <1>1, <1>8, McpServerOf DEF McpWhile, IdsApart, InstancesApart, McpType, McpSrv
  <1>10. ClaimsKept'
    <2>1. \A id \in Mcp!Id : claims'[id] = claims[id] \/ (id = call[k].id /\ claims[id] = Mcp!NoFile /\ claims'[id] = Mcp!Empty(k))
      BY <1>4, <1>6
    <2>2. call'[k].pc = "write" => claims'[call'[k].id] = Mcp!Empty(k) BY <1>3, <1>4, <1>6
    <2>3. ClaimsKept BY <1>1 DEF McpWhile
    <2>4. QED BY <1>1, <1>2, <1>6, <1>8, <2>1, <2>2, <2>3, McpClaimForms, McpIds DEF ClaimsKept, Working
  <1>11. McpWhile' /\ Mcp!NoOrphan' BY <1>2, <1>3, <1>6, <1>8, <1>9, <1>10, McpLooksOn, McpCallMoves DEF McpWhile
  <1>12. QED BY <1>7, <1>11 DEF McpInvariant

LEMMA McpRemove ==
  ASSUME McpInvariant, window = {}, NEW k \in Mcp!Call, Mcp!Remove(k)
  PROVE  McpInvariant'
  <1>1. McpType /\ McpWhile BY DEF McpInvariant
  <1>2. UNCHANGED << json, emu, srv, wiped >> /\ call[k].pc = "remove" BY DEF Mcp!Remove
  <1>3. call[k].id \in Mcp!Id /\ srv[Mcp!ServerOf(k)].up BY <1>1, <1>2 DEF McpWhile, CallsInTurn
  <1>4. claims \in [Mcp!Id -> McpClaim] /\ claims' = [claims EXCEPT ![call[k].id] = Mcp!NoFile] BY <1>1 DEF McpType, Mcp!Remove
  <1>5. /\ call' \in [Mcp!Call -> McpCall]
        /\ \A x \in Mcp!Call : x # k => call'[x] = call[x]
        /\ \/ call'[k].pc = "idle" \/ (call'[k].pc = "look" /\ call'[k].id \in Mcp!Id)
           \/ call'[k].pc = "open" /\ call'[k].id = call[k].id
        /\ call'[k].emu \in {0, call[k].emu}
    <2>1. CASE Mcp!NextId(k) BY <1>1, <1>3, <2>1, McpNextId
    <2>2. CASE ~Mcp!NextId(k)
      <3> DEFINE opens == [call[k] EXCEPT !.pc = "open", !.tries = 1]
      <3>1. opens \in McpCall /\ opens.pc = "open" /\ opens.id = call[k].id /\ opens.emu = call[k].emu BY <1>1 DEF McpType, McpCall, McpPc
      <3>2. call' = [call EXCEPT ![k].pc = "open", ![k].tries = 1] BY <2>2 DEF Mcp!Remove
      <3>3. call' = [call EXCEPT ![k] = opens] BY <1>1, <3>2 DEF McpType, McpCall
      <3> HIDE DEF opens
      <3>4. QED BY <1>1, <3>1, <3>3 DEF McpType
    <2>3. QED BY <2>1, <2>2
  <1>6. window' \in {window, window \cup {"takeover"}} BY DEF Mcp!Remove
  <1>7. McpType' BY <1>1, <1>2, <1>3, <1>4, <1>5, <1>6, McpClaims DEF McpType
  <1>8. ~Mcp!Holds(k) /\ ~Mcp!Holds(k)' /\ Mcp!Looks(k) /\ Looking(k) /\ ~Working(k)' /\ (Looking(k)' => call'[k].id = call[k].id)
    BY <1>2, <1>5 DEF Mcp!Holds, Mcp!Looks, Looking, Working
  <1>9. /\ \A x \in Mcp!Call : Mcp!ServerOf(x) = Mcp!ServerOf(k) /\ Mcp!Holds(x) => call[x].id # call[k].id
        /\ \A i \in srv[Mcp!ServerOf(k)].instances : emu[i].id # call[k].id
    BY <1>1, <1>8, McpServerOf DEF McpWhile, IdsApart, InstancesApart, McpType, McpSrv
  <1>10. ASSUME window' = {} PROVE ClaimsKept'
    <2>1. ~Mcp!Unwritten(claims[call[k].id]) /\ ~(claims[call[k].id].there /\ claims[call[k].id].pid # Mcp!ServerOf(k) /\ Mcp!Alive(claims[call[k].id].pid))
      BY <1>10 DEF Mcp!Remove
    <2>2. \A x \in Mcp!Call : claims[call[k].id] # Mcp!Empty(x) BY <2>1, McpClaimForms DEF Mcp!Unwritten
    <2>3. \A t \in Mcp!Servers : srv[t].up /\ claims[call[k].id] = Mcp!Claim(t) => t = Mcp!ServerOf(k)
      BY <2>1, McpClaimForms DEF Mcp!Alive
    <2>4. \A id \in Mcp!Id : id # call[k].id => claims'[id] = claims[id] BY <1>4
    <2>5. ClaimsKept /\ CallsInTurn BY <1>1 DEF McpWhile
    <2>6. \A x \in Mcp!Call : call'[x].pc = "write" => claims'[call'[x].id] = Mcp!Empty(x)
      BY <1>1, <1>5, <2>2, <2>4, <2>5, McpIds DEF ClaimsKept
    <2>7. \A x \in Mcp!Call : Working(x)' => claims'[call'[x].id] = Mcp!Claim(Mcp!ServerOf(x))
      <3> SUFFICES ASSUME NEW x \in Mcp!Call, Working(x)' PROVE claims'[call'[x].id] = Mcp!Claim(Mcp!ServerOf(x))
        OBVIOUS
      <3>1. x # k /\ call'[x] = call[x] /\ Working(x) /\ Mcp!Holds(x) BY <1>5, <1>8 DEF Working, Mcp!Holds
      <3>2. srv[Mcp!ServerOf(x)].up /\ call[x].id \in Mcp!Id BY <2>5, <3>1 DEF CallsInTurn, Working
      <3>3. call[x].id # call[k].id BY <1>9, <2>3, <2>5, <3>1, <3>2, McpServerOf DEF ClaimsKept
      <3>4. QED BY <2>4, <2>5, <3>1, <3>2, <3>3 DEF ClaimsKept
    <2>8. \A s \in Mcp!Servers : \A i \in srv'[s].instances : claims'[emu'[i].id] = Mcp!Claim(s)
      <3> SUFFICES ASSUME NEW s \in Mcp!Servers, NEW i \in srv[s].instances PROVE claims'[emu[i].id] = Mcp!Claim(s)
        BY <1>2
      <3>1. srv[s].up /\ emu[i].id \in Mcp!Id /\ claims[emu[i].id] = Mcp!Claim(s) BY <1>1, <2>5, McpIds DEF CallsInTurn, ClaimsKept
      <3>2. emu[i].id # call[k].id BY <1>9, <2>3, <3>1
      <3>3. QED BY <2>4, <3>1, <3>2
    <2>9. QED BY <2>6, <2>7, <2>8 DEF ClaimsKept
  <1>11. (window' = {} => McpWhile') /\ Mcp!NoOrphan' BY <1>2, <1>3, <1>5, <1>8, <1>9, <1>10, McpLooksOn, McpCallMoves DEF McpWhile
  <1>12. QED BY <1>7, <1>11 DEF McpInvariant

(* A call with an id goes on, or ends. *)
LEMMA McpHolderMoves ==
  ASSUME McpInvariant, window = {}, NEW k \in Mcp!Call,
         Mcp!Holds(k) \/ call[k].pc = "write",
         \A x \in Mcp!Call : x # k => call'[x] = call[x],
         call'[k].pc = "idle" \/ (Mcp!Holds(k)' /\ call'[k].id = call[k].id),
         \A s \in Mcp!Servers : srv'[s].up = srv[s].up /\ (~srv[s].up => srv'[s].instances = srv[s].instances)
  PROVE  CallsInTurn' /\ IdsApart'
  <1> USE McpServerOf
  <1>1. CallsInTurn /\ IdsApart BY DEF McpInvariant, McpWhile
  <1>2. \A x \in Mcp!Call : x # k => (Mcp!Looks(x)' <=> Mcp!Looks(x)) /\ (Mcp!Holds(x)' <=> Mcp!Holds(x)) /\ (Looking(x)' <=> Looking(x))
    BY DEF Mcp!Looks, Mcp!Holds, Looking
  <1>3. ~Mcp!Looks(k)' /\ ~Looking(k)' BY DEF Mcp!Looks, Mcp!Holds, Looking
  <1>4. call[k].pc \notin {"idle", "lock"} BY DEF Mcp!Holds
  <1>5. CallsInTurn' BY <1>1, <1>2, <1>3, <1>4 DEF CallsInTurn
  <1>6. IdsApart'
    <2> SUFFICES ASSUME NEW x \in Mcp!Call, NEW y \in Mcp!Call, Mcp!ServerOf(x) = Mcp!ServerOf(y), x # y, call'[x].id = call'[y].id, Mcp!Holds(x)'
                 PROVE  ~Mcp!Holds(y)' /\ ~Looking(y)'
      BY DEF IdsApart
    <2>1. CASE x # k /\ y # k BY <1>1, <1>2, <2>1 DEF IdsApart
    <2>2. CASE y = k
      <3>1. x # k /\ Mcp!Holds(x) /\ call'[x] = call[x] BY <1>2, <2>2
      <3>2. CASE Mcp!Holds(k)'
        <4>1. call[x].id = call[k].id /\ (Mcp!Holds(k) \/ Looking(k)) BY <2>2, <3>1, <3>2 DEF Mcp!Holds, Looking
        <4>2. QED BY <1>1, <2>2, <3>1, <4>1 DEF IdsApart
      <3>3. QED BY <1>3, <2>2, <3>2
    <2>3. CASE x = k
      <3>1. y # k /\ call'[y] = call[y] /\ Mcp!Holds(k)' /\ call[y].id = call[k].id BY <2>3 DEF Mcp!Holds
      <3>2. CASE Mcp!Holds(k) BY <1>1, <1>2, <2>3, <3>1, <3>2 DEF IdsApart
      <3>3. CASE call[k].pc = "write"
        <4>1. ~Mcp!Holds(y) BY <1>1, <2>3, <3>1, <3>3 DEF IdsApart, Looking
        <4>2. Mcp!Looks(k) /\ (Looking(y) => Mcp!Looks(y)) BY <3>3 DEF Mcp!Looks, Looking
        <4>3. ~Looking(y) BY <1>1, <2>3, <3>1, <4>2 DEF CallsInTurn
        <4>4. QED BY <1>2, <3>1, <4>1, <4>3
      <3>4. QED BY <3>2, <3>3
    <2>4. QED BY <2>1, <2>2, <2>3
  <1>7. QED BY <1>5, <1>6

LEMMA McpInstancesStay ==
  ASSUME McpInvariant, window = {}, NEW k \in Mcp!Call,
         \A x \in Mcp!Call : x # k => call'[x] = call[x], ~Looking(k)',
         \A s \in Mcp!Servers : srv'[s].instances \subseteq srv[s].instances,
         \A s \in Mcp!Servers : \A i \in srv[s].instances : emu'[i].id = emu[i].id
  PROVE  InstancesApart'
  BY McpServerOf DEF McpInvariant, McpWhile, InstancesApart, Looking

LEMMA McpWrite ==
  ASSUME McpInvariant, window = {}, NEW k \in Mcp!Call, Mcp!Write(k)
  PROVE  McpInvariant'
  <1> DEFINE d == call[k].id
  <1>1. McpType /\ McpWhile /\ Mcp!NoOrphan BY DEF McpInvariant
  <1>2. UNCHANGED << json, emu, srv, wiped >> /\ call[k].pc = "write" BY DEF Mcp!Write
  <1>3. d \in Mcp!Id /\ claims[d] = Mcp!Empty(k) BY <1>1, <1>2 DEF McpWhile, CallsInTurn, ClaimsKept
  <1>4. claims \in [Mcp!Id -> McpClaim] /\ claims' = [claims EXCEPT ![d] = Mcp!Claim(Mcp!ServerOf(k))]
    BY <1>1, <1>3, McpClaimForms DEF McpType, Mcp!Write
  <1>5. /\ call' \in [Mcp!Call -> McpCall]
        /\ \A x \in Mcp!Call : x # k => call'[x] = call[x]
        /\ call'[k].pc = "clear" /\ call'[k].id = d /\ call'[k].emu = call[k].emu
    BY <1>1, McpGoto DEF Mcp!Write, McpPc
  <1>6. window' = IF Mcp!InUse(d) THEN window \cup {"late check"} ELSE window BY DEF Mcp!Write
  <1>7. McpType' BY <1>1, <1>2, <1>3, <1>4, <1>5, <1>6, McpClaims, McpServerOf DEF McpType
  <1>8. /\ ~Mcp!Holds(k) /\ Mcp!Holds(k)' /\ Working(k)' /\ ~Looking(k)' /\ Looking(k)
        /\ \A x \in Mcp!Call : x # k => (Mcp!Holds(x)' <=> Mcp!Holds(x)) /\ (Working(x)' <=> Working(x)) /\ (Starting(x)' <=> Starting(x))
    BY <1>2, <1>5 DEF Mcp!Holds, Looking, Working, Starting
  <1>9. \A x \in Mcp!Call : Working(x) => call[x].id # d BY <1>1, <1>3, McpClaimForms DEF McpWhile, ClaimsKept
  <1>10. \A s \in Mcp!Servers : \A i \in srv[s].instances : emu[i].id # d BY <1>1, <1>3, McpClaimForms DEF McpWhile, ClaimsKept
  <1>11. CallsInTurn' /\ IdsApart' /\ InstancesApart' BY <1>2, <1>5, <1>8, McpHolderMoves, McpInstancesStay
  <1>12. ClaimsKept'
    <2>1. \A id \in Mcp!Id : id # d => claims'[id] = claims[id] BY <1>4
    <2>2. claims'[d] = Mcp!Claim(Mcp!ServerOf(k)) BY <1>3, <1>4
    <2>3. \A x \in Mcp!Call : x # k /\ call[x].pc = "write" => call[x].id # d BY <1>1, <1>3, McpClaimForms DEF McpWhile, ClaimsKept
    <2>4. ClaimsKept BY <1>1 DEF McpWhile
    <2>5. \A x \in Mcp!Call : call'[x].pc = "write" => claims'[call'[x].id] = Mcp!Empty(x) BY <1>1, <1>5, <2>1, <2>3, <2>4, McpIds DEF ClaimsKept
    <2>6. \A x \in Mcp!Call : Working(x)' => claims'[call'[x].id] = Mcp!Claim(Mcp!ServerOf(x))
      <3>1. \A x \in Mcp!Call : Working(x) => call[x].id \in Mcp!Id BY <1>1, McpIds DEF Working
      <3>2. QED BY <1>5, <1>8, <1>9, <2>1, <2>2, <2>4, <3>1 DEF ClaimsKept
    <2>7. \A s \in Mcp!Servers : \A i \in srv'[s].instances : claims'[emu'[i].id] = Mcp!Claim(s) BY <1>1, <1>2, <1>10, <2>1, <2>4, McpIds DEF ClaimsKept
    <2>8. QED BY <2>5, <2>6, <2>7 DEF ClaimsKept
  <1>13. ASSUME window' = {} PROVE Alone'
    <2>1. ~Mcp!InUse(d) BY <1>6, <1>13
    <2>2. \A i \in Mcp!Emu : emu[i].id = d => ~emu[i].up
      <3> SUFFICES ASSUME NEW i \in Mcp!Emu, emu[i].id = d, emu[i].up PROVE FALSE
        OBVIOUS
      <3>1. i # 0 BY DEF Mcp!Emu
      <3>2. json[d] # i BY <2>1, <3>1 DEF Mcp!InUse
      <3>3. PICK x \in Mcp!Call : call[x].pc \in {"watch", "json"} /\ call[x].emu = i BY <1>1, <3>2 DEF McpWhile, Emulators
      <3>4. Mcp!Holds(x) /\ Working(x) BY <3>3 DEF Mcp!Holds, Working
      <3>5. call[x].id = d BY <1>1, <3>1, <3>3, <3>4 DEF McpWhile, Alone
      <3>6. QED BY <1>9, <3>4, <3>5
    <2>3. Alone /\ call[k].emu = 0 BY <1>1, <1>8 DEF McpWhile, Alone
    <2>4. \A x \in Mcp!Call : call'[x].emu = call[x].emu /\ call'[x].id = call[x].id BY <1>5
    <2>5. \A x, y \in Mcp!Call : Mcp!Holds(x)' /\ Mcp!Holds(y)' /\ call'[x].emu = call'[y].emu /\ call'[x].emu # 0 => x = y
      BY <1>8, <2>3, <2>4 DEF Alone
    <2>6. \A x \in Mcp!Call, i \in Mcp!Emu : Working(x)' /\ emu'[i].id = call'[x].id =>
              /\ \A s \in Mcp!Servers : i \notin srv'[s].instances
              /\ emu'[i].up => Starting(x)' /\ call'[x].emu = i
      BY <1>2, <1>8, <1>10, <2>2, <2>3, <2>4 DEF Alone
    <2>7. \A x \in Mcp!Call : call'[x].pc \in {"watch", "json", "ready", "boot", "release"} => call'[x].emu # 0 BY <1>5, <2>3 DEF Alone
    <2>8. \A x \in Mcp!Call : ~Mcp!Holds(x)' => call'[x].emu = 0 BY <1>8, <2>3, <2>4 DEF Alone
    <2>9. \A x \in Mcp!Call : Mcp!Holds(x)' /\ call'[x].emu # 0 =>
             emu'[call'[x].emu].id = call'[x].id /\ emu'[call'[x].emu].by = Mcp!ServerOf(x)
      BY <1>2, <1>8, <2>3, <2>4 DEF Alone
    <2>10. \A x \in Mcp!Call : Working(x)' => call'[x].emu = 0 \/ emu'[call'[x].emu].stop = "no" BY <1>2, <1>8, <2>3, <2>4 DEF Alone
    <2>11. QED BY <2>5, <2>6, <2>7, <2>8, <2>9, <2>10 DEF Alone
  <1>14. Emulators'
    <2>1. \A x \in Mcp!Call : call[x].pc \in {"watch", "json", "boot"} \/ call'[x].pc \in {"watch", "json", "boot"} => call'[x] = call[x] BY <1>2, <1>5
    <2>2. QED BY <1>1, <1>2, <2>1 DEF McpWhile, Emulators
  <1>15. Mcp!NoOrphan'
    <2>1. \A x \in Mcp!Call : Mcp!Holds(x) => Mcp!Holds(x)' /\ call'[x].emu = call[x].emu BY <1>5, <1>8
    <2>2. window' = window \/ "young orphan" \notin window BY <1>6
    <2>3. QED BY <1>1, <1>2, <2>1, <2>2 DEF Mcp!NoOrphan
  <1>16. ~wiped' BY <1>1, <1>2 DEF McpWhile
  <1>17. QED BY <1>7, <1>11, <1>12, <1>13, <1>14, <1>15, <1>16 DEF McpInvariant, McpWhile

LEMMA McpClear ==
  ASSUME McpInvariant, window = {}, NEW k \in Mcp!Call, Mcp!Clear(k)
  PROVE  McpInvariant'
  <1> DEFINE d == call[k].id
  <1>1. McpType /\ McpWhile /\ Mcp!NoOrphan BY DEF McpInvariant
  <1>2. UNCHANGED << claims, emu, srv, window >> /\ call[k].pc = "clear" /\ json' = [json EXCEPT ![d] = 0] BY DEF Mcp!Clear
  <1>3. /\ call' \in [Mcp!Call -> McpCall]
        /\ \A x \in Mcp!Call : x # k => call'[x] = call[x]
        /\ call'[k].pc = "spawn" /\ call'[k].id = d /\ call'[k].emu = call[k].emu
    BY <1>1, McpGoto DEF Mcp!Clear, McpPc
  <1>4. d \in Mcp!Id /\ Working(k) BY <1>1, <1>2, McpIds DEF Working
  <1>5. /\ \A x \in Mcp!Call : (Mcp!Holds(x)' <=> Mcp!Holds(x)) /\ (Working(x)' <=> Working(x)) /\ (Starting(x)' <=> Starting(x))
        /\ \A x \in Mcp!Call : call'[x].emu = call[x].emu /\ call'[x].id = call[x].id
        /\ Mcp!Holds(k) /\ ~Starting(k) /\ ~Looking(k)'
    BY <1>2, <1>3 DEF Mcp!Holds, Looking, Working, Starting
  <1>6. \A i \in Mcp!Emu : emu[i].id = d => ~emu[i].up /\ \A s \in Mcp!Servers : i \notin srv[s].instances
    BY <1>1, <1>4, <1>5 DEF McpWhile, Alone
  <1>7. ~wiped' BY <1>1, <1>6 DEF McpWhile, Mcp!Clear
  <1>a. wiped' \in BOOLEAN BY DEF Mcp!Clear
  <1>b. json' \in [Mcp!Id -> {0} \cup Mcp!Emu] BY <1>1, <1>2 DEF McpType
  <1>8. McpType' BY <1>1, <1>2, <1>3, <1>a, <1>b DEF McpType
  <1>9. CallsInTurn' /\ IdsApart' /\ InstancesApart' BY <1>2, <1>3, <1>5, McpHolderMoves, McpInstancesStay
  <1>10. ClaimsKept' BY <1>1, <1>2, <1>3, <1>5 DEF McpWhile, ClaimsKept
  <1>11. Alone'
    <2>1. \A x \in Mcp!Call : call'[x].pc \in {"watch", "json", "ready", "boot", "release"} <=> call[x].pc \in {"watch", "json", "ready", "boot", "release"}
      BY <1>2, <1>3
    <2>2. QED BY <1>1, <1>2, <1>5, <2>1 DEF McpWhile, Alone
  <1>12. Emulators'
    <2>1. \A x \in Mcp!Call : call[x].pc \in {"watch", "json", "boot"} \/ call'[x].pc \in {"watch", "json", "boot"} => call'[x] = call[x] BY <1>2, <1>3
    <2>2. \A i \in Mcp!Emu : emu[i].up => json'[emu[i].id] = json[emu[i].id]
      BY <1>1, <1>2, <1>6 DEF McpType
    <2>3. QED BY <1>1, <1>2, <2>1, <2>2 DEF McpWhile, Emulators
  <1>13. Mcp!NoOrphan' BY <1>1, <1>2, <1>5 DEF Mcp!NoOrphan
  <1>14. QED BY <1>7, <1>8, <1>9, <1>10, <1>11, <1>12, <1>13 DEF McpInvariant, McpWhile

LEMMA McpSpawn ==
  ASSUME McpInvariant, window = {}, NEW k \in Mcp!Call, Mcp!Spawn(k)
  PROVE  McpInvariant'
  <1> DEFINE d == call[k].id
  <1>1. McpType /\ McpWhile /\ Mcp!NoOrphan BY DEF McpInvariant
  <1>2. UNCHANGED << claims, json, srv, window, wiped >> /\ call[k].pc = "spawn" BY DEF Mcp!Spawn
  <1>3. PICK e \in Mcp!Emu :
          /\ emu[e] = Mcp!NotStarted
          /\ emu' = [emu EXCEPT ![e].id = d, ![e].by = Mcp!ServerOf(k), ![e].up = TRUE]
          /\ call' = [call EXCEPT ![k].pc = "watch", ![k].emu = e]
    BY DEF Mcp!Spawn
  <1> DEFINE spawned == [emu[e] EXCEPT !.id = d, !.by = Mcp!ServerOf(k), !.up = TRUE]
             watches == [call[k] EXCEPT !.pc = "watch", !.emu = e]
  <1>4. d \in Mcp!Id /\ d # 0 /\ Working(k) /\ e # 0 /\ Mcp!ServerOf(k) # 0
    BY <1>1, <1>2, McpIds, McpServerOf, McpClaimForms DEF Working, Mcp!Id, Mcp!Emu
  <1>5. spawned \in McpEmu /\ spawned.id = d /\ spawned.by = Mcp!ServerOf(k) /\ spawned.up = TRUE /\ spawned.watch = "none" /\ spawned.stop = "no"
    BY <1>1, <1>3, <1>4, McpServerOf DEF McpType, McpEmu, Mcp!NotStarted
  <1>6. watches \in McpCall /\ watches.pc = "watch" /\ watches.emu = e /\ watches.id = d BY <1>1 DEF McpType, McpCall, McpPc
  <1>7. emu' = [emu EXCEPT ![e] = spawned] BY <1>1, <1>3 DEF McpType, McpEmu
  <1>8. call' = [call EXCEPT ![k] = watches] BY <1>1, <1>3 DEF McpType, McpCall
  <1> HIDE DEF spawned, watches
  <1>9. /\ call' \in [Mcp!Call -> McpCall]
        /\ \A x \in Mcp!Call : x # k => call'[x] = call[x]
        /\ call'[k].pc = "watch" /\ call'[k].id = d /\ call'[k].emu = e
    BY <1>1, <1>6, <1>8 DEF McpType
  <1>10. /\ emu' \in [Mcp!Emu -> McpEmu]
         /\ \A i \in Mcp!Emu : i # e => emu'[i] = emu[i]
         /\ emu'[e].id = d /\ emu'[e].by = Mcp!ServerOf(k) /\ emu'[e].up = TRUE /\ emu'[e].watch = "none" /\ emu'[e].stop = "no"
    BY <1>1, <1>5, <1>7 DEF McpType
  <1>11. emu[e].id = 0 /\ emu[e].up = FALSE /\ \A s \in Mcp!Servers : e \notin srv[s].instances
    BY <1>1, <1>3 DEF McpWhile, Emulators, Mcp!NotStarted
  <1>12. McpType' BY <1>1, <1>2, <1>9, <1>10 DEF McpType
  <1>13. /\ Mcp!Holds(k) /\ Mcp!Holds(k)' /\ ~Starting(k) /\ Starting(k)' /\ ~Looking(k)' /\ Working(k)'
         /\ \A x \in Mcp!Call : (Mcp!Holds(x)' <=> Mcp!Holds(x)) /\ (Working(x)' <=> Working(x)) /\ call'[x].id = call[x].id
         /\ \A x \in Mcp!Call : x # k => (Starting(x)' <=> Starting(x))
    BY <1>2, <1>9 DEF Mcp!Holds, Working, Starting, Looking
  <1>14. \A s \in Mcp!Servers : \A i \in srv[s].instances : i \in Mcp!Emu /\ i # e /\ emu'[i] = emu[i]
    BY <1>1, <1>10, <1>11, McpIds
  <1>15. CallsInTurn' /\ IdsApart' /\ InstancesApart' BY <1>2, <1>9, <1>13, <1>14, McpHolderMoves, McpInstancesStay
  <1>16. ClaimsKept' BY <1>1, <1>2, <1>9, <1>13, <1>14 DEF McpWhile, ClaimsKept
  <1>17. \A i \in Mcp!Emu : emu[i].id = d => ~emu[i].up /\ \A s \in Mcp!Servers : i \notin srv[s].instances
    BY <1>1, <1>4, <1>13 DEF McpWhile, Alone
  <1>18. Alone /\ Emulators BY <1>1 DEF McpWhile
  <1>19. \A x \in Mcp!Call : Mcp!Holds(x) /\ call[x].emu # 0 => call[x].emu # e /\ call[x].emu \in Mcp!Emu
    <2> SUFFICES ASSUME NEW x \in Mcp!Call, Mcp!Holds(x), call[x].emu # 0 PROVE call[x].emu # e /\ call[x].emu \in Mcp!Emu
      OBVIOUS
    <2>1. call[x].emu \in Mcp!Emu BY <1>1 DEF McpType, McpCall
    <2>2. emu[call[x].emu].id = call[x].id BY <1>18 DEF Alone
    <2>3. call[x].id # 0 BY <1>1, McpIds DEF Mcp!Holds, Mcp!Id
    <2>4. QED BY <1>11, <2>1, <2>2, <2>3
  <1>20. Alone'
    <2>1. \A x, y \in Mcp!Call : Mcp!Holds(x)' /\ Mcp!Holds(y)' /\ call'[x].emu = call'[y].emu /\ call'[x].emu # 0 => x = y
      BY <1>4, <1>9, <1>13, <1>18, <1>19 DEF Alone
    <2>2. \A x \in Mcp!Call : call'[x].pc \in {"watch", "json", "ready", "boot", "release"} => call'[x].emu # 0 BY <1>4, <1>9, <1>18 DEF Alone
    <2>3. \A x \in Mcp!Call : ~Mcp!Holds(x)' => call'[x].emu = 0 BY <1>9, <1>13, <1>18 DEF Alone
    <2>4. \A x \in Mcp!Call : Mcp!Holds(x)' /\ call'[x].emu # 0 =>
             emu'[call'[x].emu].id = call'[x].id /\ emu'[call'[x].emu].by = Mcp!ServerOf(x)
      BY <1>9, <1>10, <1>13, <1>18, <1>19 DEF Alone
    <2>5. \A x \in Mcp!Call : Working(x)' => call'[x].emu = 0 \/ emu'[call'[x].emu].stop = "no"
      BY <1>9, <1>10, <1>13, <1>18, <1>19 DEF Alone, Working, Mcp!Holds
    <2>6. \A x \in Mcp!Call, i \in Mcp!Emu : Working(x)' /\ emu'[i].id = call'[x].id =>
              /\ \A s \in Mcp!Servers : i \notin srv'[s].instances
              /\ emu'[i].up => Starting(x)' /\ call'[x].emu = i
      <3> SUFFICES ASSUME NEW x \in Mcp!Call, NEW i \in Mcp!Emu, Working(x)', emu'[i].id = call'[x].id
                   PROVE  /\ \A s \in Mcp!Servers : i \notin srv[s].instances
                          /\ emu'[i].up => Starting(x)' /\ call'[x].emu = i
        BY <1>2
      <3>1. CASE i = e
        <4>1. x = k
          <5>1. Working(x) /\ call[x].id = d BY <1>10, <1>13, <3>1
          <5>2. Mcp!ServerOf(x) = Mcp!ServerOf(k) BY <1>1, <1>4, <5>1, McpClaimForms DEF McpWhile, ClaimsKept
          <5>3. Mcp!Holds(x) /\ Mcp!Holds(k) BY <1>13, <5>1 DEF Working, Mcp!Holds
          <5>4. QED BY <1>1, <5>1, <5>2, <5>3 DEF McpWhile, IdsApart
        <4>2. QED BY <1>9, <1>11, <1>13, <3>1, <4>1
      <3>2. CASE i # e
        <4>1. emu'[i] = emu[i] /\ Working(x) /\ emu[i].id = call[x].id BY <1>10, <1>13, <3>2
        <4>2. CASE x = k BY <1>17, <4>1, <4>2
        <4>3. CASE x # k BY <1>9, <1>13, <1>18, <4>1, <4>3 DEF Alone
        <4>4. QED BY <4>2, <4>3
      <3>3. QED BY <3>1, <3>2
    <2>7. QED BY <2>1, <2>2, <2>3, <2>4, <2>5, <2>6 DEF Alone
  <1>21. Emulators'
    <2>1. \A i \in Mcp!Emu : emu'[i].id = 0 <=> emu'[i] = Mcp!NotStarted BY <1>4, <1>10, <1>18 DEF Emulators, Mcp!NotStarted
    <2>2. \A i \in Mcp!Emu : emu'[i].id # 0 => emu'[i].by # 0 BY <1>4, <1>10, <1>18 DEF Emulators
    <2>3. \A s \in Mcp!Servers : \A i \in srv'[s].instances : emu'[i].by = s /\ emu'[i].id # 0 /\ emu'[i].stop = "no"
      BY <1>2, <1>14, <1>18 DEF Emulators
    <2>4. \A x \in Mcp!Call : call[x].pc \in {"watch", "json"} => call'[x] = call[x] BY <1>2, <1>9
    <2>5. \A i \in Mcp!Emu : emu'[i].up =>
          /\ emu'[i].id # 0 /\ emu'[i].stop # "told" /\ emu'[i].watch # "done"
          /\ json'[emu'[i].id] = i \/ \E x \in Mcp!Call : call'[x].pc \in {"watch", "json"} /\ call'[x].emu = i
          /\ emu'[i].watch = "none" => \E x \in Mcp!Call : call'[x].pc = "watch" /\ call'[x].emu = i
      <3> SUFFICES ASSUME NEW i \in Mcp!Emu, emu'[i].up
                   PROVE  /\ emu'[i].id # 0 /\ emu'[i].stop # "told" /\ emu'[i].watch # "done"
                          /\ json'[emu'[i].id] = i \/ \E x \in Mcp!Call : call'[x].pc \in {"watch", "json"} /\ call'[x].emu = i
                          /\ emu'[i].watch = "none" => \E x \in Mcp!Call : call'[x].pc = "watch" /\ call'[x].emu = i
        OBVIOUS
      <3>1. CASE i = e BY <1>4, <1>9, <1>10, <3>1
      <3>2. CASE i # e BY <1>2, <1>10, <1>18, <2>4, <3>2 DEF Emulators
      <3>3. QED BY <3>1, <3>2
    <2>6. \A i, j \in Mcp!Emu : emu'[i].up /\ emu'[j].up /\ emu'[i].id = emu'[j].id => i = j BY <1>10, <1>17, <1>18 DEF Emulators
    <2>7. \A x \in Mcp!Call : call'[x].pc = "boot" /\ emu'[call'[x].emu].up =>
            call'[x].emu \in srv'[Mcp!ServerOf(x)].instances \/ emu'[call'[x].emu].stop # "no"
      <3>1. \A x \in Mcp!Call : call'[x].pc = "boot" => x # k /\ call'[x] = call[x] /\ Mcp!Holds(x) /\ call[x].emu # 0
        BY <1>9, <1>18 DEF Mcp!Holds, Alone
      <3>2. QED BY <1>2, <1>10, <1>18, <1>19, <3>1 DEF Emulators
    <2>8. QED BY <2>1, <2>2, <2>3, <2>5, <2>6, <2>7 DEF Emulators
  <1>22. Mcp!NoOrphan'
    <2> SUFFICES ASSUME NEW i \in Mcp!Emu, emu'[i].up
                 PROVE  IF srv[emu'[i].by].up
                          THEN \/ i \in srv[emu'[i].by].instances \/ emu'[i].stop # "no"
                               \/ \E x \in Mcp!Call : Mcp!Holds(x)' /\ call'[x].emu = i
                          ELSE emu'[i].watch = "eof" \/ (emu'[i].watch = "none" /\ "young orphan" \in window')
      BY <1>2 DEF Mcp!NoOrphan
    <2>1. CASE i = e
      <3>1. srv[Mcp!ServerOf(k)].up BY <1>1, <1>2 DEF McpWhile, CallsInTurn
      <3>2. QED BY <1>9, <1>10, <1>13, <2>1, <3>1
    <2>2. CASE i # e
      <3>1. \A x \in Mcp!Call : Mcp!Holds(x) /\ call[x].emu = i => x # k
        <4>1. CASE call[k].emu = i
          <5>1. emu[i].id = d BY <1>13, <1>18, <4>1 DEF Alone, Mcp!Emu
          <5>2. QED BY <1>10, <1>17, <2>2, <5>1
        <4>2. QED BY <4>1
      <3>2. QED BY <1>1, <1>2, <1>9, <1>10, <1>13, <2>2, <3>1 DEF Mcp!NoOrphan
    <2>3. QED BY <2>1, <2>2
  <1>23. ~wiped' BY <1>1, <1>2 DEF McpWhile
  <1>24. QED BY <1>12, <1>15, <1>16, <1>20, <1>21, <1>22, <1>23 DEF McpInvariant, McpWhile

(* A call that holds its id goes on to another step, or ends: what it does  *)
(* to its emulator is said by the lemma that uses this.                     *)
LEMMA McpEmuSame ==
  ASSUME McpInvariant, window = {}, NEW k \in Mcp!Call, Mcp!Holds(k),
         UNCHANGED srv,
         \A x \in Mcp!Call : x # k => call'[x] = call[x],
         Mcp!Holds(k)', call'[k].id = call[k].id, call'[k].emu = call[k].emu, call[k].emu # 0,
         Working(k)' => Working(k), Starting(k) /\ emu'[call[k].emu].up => Starting(k)',
         \A i \in Mcp!Emu : emu'[i].id = emu[i].id /\ emu'[i].by = emu[i].by /\ emu'[i].stop = emu[i].stop /\ (emu'[i].up => emu[i].up)
  PROVE  Alone' /\ InstancesApart' /\ CallsInTurn' /\ IdsApart'
  <1>1. McpType /\ McpWhile BY DEF McpInvariant
  <1>2. /\ \A x \in Mcp!Call : (Mcp!Holds(x)' <=> Mcp!Holds(x)) /\ (Working(x)' => Working(x)) /\ call'[x].id = call[x].id /\ call'[x].emu = call[x].emu
        /\ \A x \in Mcp!Call : x # k => (Starting(x)' <=> Starting(x))
        /\ ~Looking(k)'
    BY DEF Mcp!Holds, Working, Starting, Looking
  <1>3. \A x \in Mcp!Call : call[x].emu # 0 => call[x].emu \in Mcp!Emu BY <1>1 DEF McpType, McpCall
  <1>4. \A x \in Mcp!Call : call'[x].pc \in {"watch", "json", "ready", "boot", "release"} => call'[x].emu # 0
    BY <1>1 DEF McpWhile, Alone
  <1>5. \A x \in Mcp!Call, i \in Mcp!Emu : Working(x)' /\ emu'[i].id = call'[x].id =>
              /\ \A s \in Mcp!Servers : i \notin srv'[s].instances
              /\ emu'[i].up => Starting(x)' /\ call'[x].emu = i
    BY <1>1, <1>2 DEF McpWhile, Alone
  <1>6. Alone' BY <1>1, <1>2, <1>3, <1>4, <1>5 DEF McpWhile, Alone
  <1>7. CallsInTurn' /\ IdsApart' BY McpHolderMoves
  <1>8. \A s \in Mcp!Servers : \A i \in srv[s].instances : emu'[i].id = emu[i].id BY <1>1 DEF McpType, McpSrv
  <1>9. InstancesApart' BY <1>2, <1>8, McpInstancesStay
  <1>10. QED BY <1>6, <1>7, <1>9

LEMMA McpSpawnWatchdog ==
  ASSUME McpInvariant, window = {}, NEW k \in Mcp!Call, Mcp!SpawnWatchdog(k)
  PROVE  McpInvariant'
  <1> DEFINE e == call[k].emu
  <1>1. McpType /\ McpWhile /\ Mcp!NoOrphan BY DEF McpInvariant
  <1>2. UNCHANGED << claims, json, srv, window, wiped >> /\ call[k].pc = "watch" /\ emu' = [emu EXCEPT ![e].watch = "waits"]
    BY DEF Mcp!SpawnWatchdog
  <1>3. e \in Mcp!Emu /\ e # 0 BY <1>1, <1>2 DEF McpWhile, Alone, McpType, McpCall
  <1>4. /\ call' \in [Mcp!Call -> McpCall]
        /\ \A x \in Mcp!Call : x # k => call'[x] = call[x]
        /\ call'[k].pc = "json" /\ call'[k].id = call[k].id /\ call'[k].emu = e
    BY <1>1, McpGoto DEF Mcp!SpawnWatchdog, McpPc
  <1>5. /\ emu' \in [Mcp!Emu -> McpEmu]
        /\ \A i \in Mcp!Emu : i # e => emu'[i] = emu[i]
        /\ emu'[e].watch = "waits"
        /\ \A i \in Mcp!Emu : emu'[i].id = emu[i].id /\ emu'[i].by = emu[i].by /\ emu'[i].stop = emu[i].stop /\ emu'[i].up = emu[i].up
    BY <1>1, <1>2, <1>3 DEF McpType, McpEmu
  <1>6. McpType' BY <1>1, <1>2, <1>4, <1>5 DEF McpType
  <1>7. Mcp!Holds(k) /\ Mcp!Holds(k)' /\ Working(k) /\ Starting(k)' BY <1>2, <1>4 DEF Mcp!Holds, Working, Starting
  <1>8. Alone' /\ InstancesApart' /\ CallsInTurn' /\ IdsApart' BY <1>2, <1>3, <1>4, <1>5, <1>7, McpEmuSame
  <1>9. emu[e].id # 0 /\ emu[e].by = Mcp!ServerOf(k) BY <1>1, <1>3, <1>7, McpIds DEF McpWhile, Alone, Mcp!Holds, Mcp!Id
  <1>10. ClaimsKept'
    <2>1. \A x \in Mcp!Call : Working(x)' => Working(x) /\ call'[x].id = call[x].id BY <1>4, <1>7 DEF Working
    <2>2. \A s \in Mcp!Servers : \A i \in srv[s].instances : emu'[i].id = emu[i].id BY <1>1, <1>5 DEF McpType, McpSrv
    <2>3. QED BY <1>1, <1>2, <1>4, <2>1, <2>2 DEF McpWhile, ClaimsKept
  <1>11. Emulators'
    <2>1. \A x \in Mcp!Call : call[x].pc \in {"watch", "json"} => call'[x].pc \in {"watch", "json"} /\ call'[x].emu = call[x].emu BY <1>4
    <2>2. \A x \in Mcp!Call : call'[x].pc = "boot" => call'[x] = call[x] /\ call[x].emu \in Mcp!Emu
      BY <1>1, <1>4 DEF McpWhile, Alone, McpType, McpCall
    <2>3. \A i \in Mcp!Emu : emu'[i].id = 0 <=> emu'[i] = Mcp!NotStarted BY <1>1, <1>5, <1>9 DEF McpWhile, Emulators, Mcp!NotStarted
    <2>4. \A s \in Mcp!Servers : \A i \in srv[s].instances : i \in Mcp!Emu BY <1>1 DEF McpType, McpSrv
    <2>5. \A i \in Mcp!Emu : emu'[i].up /\ emu'[i].watch = "none" => \E x \in Mcp!Call : call'[x].pc = "watch" /\ call'[x].emu = i
      <3> SUFFICES ASSUME NEW i \in Mcp!Emu, emu'[i].up, emu'[i].watch = "none" PROVE \E x \in Mcp!Call : call'[x].pc = "watch" /\ call'[x].emu = i
        OBVIOUS
      <3>1. i # e /\ emu[i].up /\ emu[i].watch = "none" BY <1>5
      <3>2. PICK x \in Mcp!Call : call[x].pc = "watch" /\ call[x].emu = i BY <1>1, <3>1 DEF McpWhile, Emulators
      <3>3. QED BY <1>4, <3>1, <3>2
    <2>6. \A i \in Mcp!Emu : emu'[i].up => emu'[i].id # 0 /\ emu'[i].stop # "told" /\ emu'[i].watch # "done" BY <1>1, <1>5 DEF McpWhile, Emulators
    <2>7. \A i \in Mcp!Emu : emu'[i].up => json'[emu'[i].id] = i \/ \E x \in Mcp!Call : call'[x].pc \in {"watch", "json"} /\ call'[x].emu = i
      BY <1>1, <1>2, <1>5, <2>1 DEF McpWhile, Emulators
    <2>8. QED BY SMTT(30), <1>1, <1>2, <1>5, <2>2, <2>3, <2>4, <2>5, <2>6, <2>7 DEF McpWhile, Emulators
  <1>12. Mcp!NoOrphan'
    <2>1. \A x \in Mcp!Call : Mcp!Holds(x) => Mcp!Holds(x)' /\ call'[x].emu = call[x].emu BY <1>4, <1>7 DEF Mcp!Holds
    <2>2. srv[Mcp!ServerOf(k)].up BY <1>1, <1>2 DEF McpWhile, CallsInTurn
    <2>3. QED BY <1>1, <1>2, <1>5, <1>9, <2>1, <2>2 DEF Mcp!NoOrphan
  <1>13. ~wiped' BY <1>1, <1>2 DEF McpWhile
  <1>14. QED BY <1>6, <1>8, <1>10, <1>11, <1>12, <1>13 DEF McpInvariant, McpWhile

LEMMA McpWriteJson ==
  ASSUME McpInvariant, window = {}, NEW k \in Mcp!Call, Mcp!WriteJson(k)
  PROVE  McpInvariant'
  <1> DEFINE e == call[k].emu
             d == call[k].id
  <1>1. McpType /\ McpWhile /\ Mcp!NoOrphan BY DEF McpInvariant
  <1>2. UNCHANGED << claims, emu, srv, window, wiped >> /\ call[k].pc = "json" /\ json' = [json EXCEPT ![d] = e]
    BY DEF Mcp!WriteJson
  <1>3. e \in Mcp!Emu /\ e # 0 /\ d \in Mcp!Id BY <1>1, <1>2, McpIds DEF McpWhile, Alone, McpType, McpCall
  <1>4. /\ call' \in [Mcp!Call -> McpCall]
        /\ \A x \in Mcp!Call : x # k => call'[x] = call[x]
        /\ call'[k].pc = "ready" /\ call'[k].id = call[k].id /\ call'[k].emu = e
    BY <1>1, McpGoto DEF Mcp!WriteJson, McpPc
  <1>5. McpType'
    <2>1. json' \in [Mcp!Id -> {0} \cup Mcp!Emu] BY <1>1, <1>2, <1>3 DEF McpType
    <2>2. QED BY <1>1, <1>2, <1>4, <2>1 DEF McpType
  <1>6. Mcp!Holds(k) /\ Mcp!Holds(k)' /\ Working(k) /\ Starting(k)' BY <1>2, <1>4 DEF Mcp!Holds, Working, Starting
  <1>7. Alone' /\ InstancesApart' /\ CallsInTurn' /\ IdsApart' BY <1>2, <1>3, <1>4, <1>6, McpEmuSame
  <1>8. emu[e].id = d BY <1>1, <1>3, <1>6 DEF McpWhile, Alone
  <1>9. ClaimsKept'
    <2>1. \A x \in Mcp!Call : Working(x)' => Working(x) /\ call'[x].id = call[x].id BY <1>4, <1>6 DEF Working
    <2>2. QED BY <1>1, <1>2, <1>4, <2>1 DEF McpWhile, ClaimsKept
  <1>10. Emulators'
    <2>1. \A x \in Mcp!Call : call[x].pc = "watch" => call'[x] = call[x] BY <1>2, <1>4
    <2>2. \A x \in Mcp!Call : call'[x].pc = "boot" => call'[x] = call[x] BY <1>4
    <2>3. \A i \in Mcp!Emu : emu'[i].up => json'[emu'[i].id] = i \/ \E x \in Mcp!Call : call'[x].pc \in {"watch", "json"} /\ call'[x].emu = i
      <3> SUFFICES ASSUME NEW i \in Mcp!Emu, emu[i].up
                   PROVE  json'[emu[i].id] = i \/ \E x \in Mcp!Call : call'[x].pc \in {"watch", "json"} /\ call'[x].emu = i
        BY <1>2
      <3>1. CASE i = e BY <1>1, <1>2, <1>3, <1>8, <3>1 DEF McpType
      <3>2. CASE i # e
        <4>1. emu[i].id # d BY <1>1, <1>6, <3>2 DEF McpWhile, Alone
        <4>2. json'[emu[i].id] = json[emu[i].id] BY <1>1, <1>2, <4>1 DEF McpType
        <4>3. CASE json[emu[i].id] = i BY <4>2, <4>3
        <4>4. CASE json[emu[i].id] # i
          <5>1. PICK x \in Mcp!Call : call[x].pc \in {"watch", "json"} /\ call[x].emu = i BY <1>1, <4>4 DEF McpWhile, Emulators
          <5>2. QED BY <1>4, <3>2, <5>1
        <4>5. QED BY <4>3, <4>4
      <3>3. QED BY <3>1, <3>2
    <2>4. QED BY <1>1, <1>2, <2>1, <2>2, <2>3 DEF McpWhile, Emulators
  <1>11. Mcp!NoOrphan'
    <2>1. \A x \in Mcp!Call : Mcp!Holds(x) => Mcp!Holds(x)' /\ call'[x].emu = call[x].emu BY <1>4, <1>6 DEF Mcp!Holds
    <2>2. QED BY <1>1, <1>2, <2>1 DEF Mcp!NoOrphan
  <1>12. ~wiped' BY <1>1, <1>2 DEF McpWhile
  <1>13. QED BY <1>5, <1>7, <1>9, <1>10, <1>11, <1>12 DEF McpInvariant, McpWhile

LEMMA McpNotReady ==
  ASSUME McpInvariant, window = {}, NEW k \in Mcp!Call, Mcp!NotReady(k)
  PROVE  McpInvariant'
  <1> DEFINE e == call[k].emu
  <1>1. McpType /\ McpWhile /\ Mcp!NoOrphan BY DEF McpInvariant
  <1>2. /\ UNCHANGED << claims, json, srv, window, wiped >> /\ call[k].pc = "ready"
        /\ emu' = [emu EXCEPT ![e].up = FALSE, ![e].watch = "eof"]
    BY DEF Mcp!NotReady
  <1>3. e \in Mcp!Emu /\ e # 0 BY <1>1, <1>2 DEF McpWhile, Alone, McpType, McpCall
  <1>4. /\ call' \in [Mcp!Call -> McpCall]
        /\ \A x \in Mcp!Call : x # k => call'[x] = call[x]
        /\ call'[k].pc \in {"release", "spawn"} /\ call'[k].id = call[k].id /\ call'[k].emu = e
    <2>1. CASE Mcp!Goto(k, "release") BY <1>1, <2>1, McpGoto DEF McpPc
    <2>2. CASE Mcp!Goto(k, "spawn") BY <1>1, <2>2, McpGoto DEF McpPc
    <2>3. QED BY <2>1, <2>2 DEF Mcp!NotReady
  <1> DEFINE over == [emu[e] EXCEPT !.up = FALSE, !.watch = "eof"]
  <1>a. over \in McpEmu /\ over.id = emu[e].id /\ over.by = emu[e].by /\ over.stop = emu[e].stop /\ over.up = FALSE BY ZenonT(40), <1>1, <1>3 DEF McpType, McpEmu
  <1>b. emu' = [emu EXCEPT ![e] = over] BY <1>1, <1>2 DEF McpType, McpEmu
  <1> HIDE DEF over
  <1>5. /\ emu' \in [Mcp!Emu -> McpEmu]
        /\ \A i \in Mcp!Emu : i # e => emu'[i] = emu[i]
        /\ emu'[e].up = FALSE
        /\ \A i \in Mcp!Emu : emu'[i].id = emu[i].id /\ emu'[i].by = emu[i].by /\ emu'[i].stop = emu[i].stop
    BY <1>1, <1>3, <1>a, <1>b DEF McpType
  <1>6. McpType' BY <1>1, <1>2, <1>4, <1>5 DEF McpType
  <1>7. Mcp!Holds(k) /\ Mcp!Holds(k)' /\ Working(k) /\ (Starting(k) /\ emu'[call[k].emu].up => Starting(k)') BY <1>2, <1>4, <1>5 DEF Mcp!Holds, Working
  <1>8. \A i \in Mcp!Emu : emu'[i].up => emu[i].up /\ i # e /\ emu'[i] = emu[i] BY <1>5
  <1>9. Alone' /\ InstancesApart' /\ CallsInTurn' /\ IdsApart' BY <1>2, <1>3, <1>4, <1>5, <1>7, <1>8, McpEmuSame
  <1>10. emu[e].id # 0 BY <1>1, <1>3, <1>7, McpIds DEF McpWhile, Alone, Mcp!Holds, Mcp!Id
  <1>11. ClaimsKept'
    <2>1. \A x \in Mcp!Call : Working(x)' => Working(x) /\ call'[x].id = call[x].id BY <1>4, <1>7 DEF Working
    <2>2. \A s \in Mcp!Servers : \A i \in srv[s].instances : emu'[i].id = emu[i].id BY <1>1, <1>5 DEF McpType, McpSrv
    <2>3. QED BY ZenonT(40), <1>1, <1>2, <1>4, <2>1, <2>2 DEF McpWhile, ClaimsKept
  <1>12. Emulators'
    <2>1. \A x \in Mcp!Call : call[x].pc \in {"watch", "json"} => call'[x] = call[x] BY <1>2, <1>4
    <2>2. \A x \in Mcp!Call : call'[x].pc = "boot" => call'[x] = call[x] /\ call[x].emu \in Mcp!Emu
      BY <1>1, <1>4 DEF McpWhile, Alone, McpType, McpCall
    <2>3. \A i \in Mcp!Emu : emu'[i].id = 0 <=> emu'[i] = Mcp!NotStarted BY <1>1, <1>5, <1>10 DEF McpWhile, Emulators, Mcp!NotStarted
    <2>4. \A s \in Mcp!Servers : \A i \in srv[s].instances : i \in Mcp!Emu BY <1>1 DEF McpType, McpSrv
    <2>5. \A s \in Mcp!Servers : \A i \in srv'[s].instances : emu'[i].by = s /\ emu'[i].id # 0 /\ emu'[i].stop = "no"
      BY <1>1, <1>2, <1>5, <2>4 DEF McpWhile, Emulators
    <2>6. \A i \in Mcp!Emu : emu'[i].up =>
          /\ emu'[i].id # 0 /\ emu'[i].stop # "told" /\ emu'[i].watch # "done"
          /\ json'[emu'[i].id] = i \/ \E x \in Mcp!Call : call'[x].pc \in {"watch", "json"} /\ call'[x].emu = i
          /\ emu'[i].watch = "none" => \E x \in Mcp!Call : call'[x].pc = "watch" /\ call'[x].emu = i
      <3> SUFFICES ASSUME NEW i \in Mcp!Emu, emu'[i].up
                   PROVE  /\ emu'[i].id # 0 /\ emu'[i].stop # "told" /\ emu'[i].watch # "done"
                          /\ json'[emu'[i].id] = i \/ \E x \in Mcp!Call : call'[x].pc \in {"watch", "json"} /\ call'[x].emu = i
                          /\ emu'[i].watch = "none" => \E x \in Mcp!Call : call'[x].pc = "watch" /\ call'[x].emu = i
        OBVIOUS
      <3>1. emu[i].up /\ emu'[i] = emu[i] /\ json' = json BY <1>2, <1>8
      <3>2. /\ emu[i].id # 0 /\ emu[i].stop # "told" /\ emu[i].watch # "done"
            /\ json[emu[i].id] = i \/ \E x \in Mcp!Call : call'[x].pc \in {"watch", "json"} /\ call'[x].emu = i
            /\ emu[i].watch = "none" => \E x \in Mcp!Call : call'[x].pc = "watch" /\ call'[x].emu = i
        BY <1>1, <2>1, <3>1 DEF McpWhile, Emulators
      <3>3. QED BY <3>1, <3>2
    <2>7. \A x \in Mcp!Call : call'[x].pc = "boot" /\ emu'[call'[x].emu].up =>
             call'[x].emu \in srv'[Mcp!ServerOf(x)].instances \/ emu'[call'[x].emu].stop # "no"
      <3> SUFFICES ASSUME NEW x \in Mcp!Call, call'[x].pc = "boot", emu'[call'[x].emu].up
                   PROVE  call'[x].emu \in srv'[Mcp!ServerOf(x)].instances \/ emu'[call'[x].emu].stop # "no"
        OBVIOUS
      <3>1. call'[x] = call[x] /\ call[x].emu \in Mcp!Emu /\ call[x].pc = "boot" BY <2>2
      <3>2. emu[call[x].emu].up /\ emu'[call[x].emu] = emu[call[x].emu] BY <1>8, <3>1
      <3>3. call[x].emu \in srv[Mcp!ServerOf(x)].instances \/ emu[call[x].emu].stop # "no" BY <1>1, <3>1, <3>2 DEF McpWhile, Emulators
      <3>4. QED BY <1>2, <3>1, <3>2, <3>3
    <2>8. \A i \in Mcp!Emu : emu'[i].id # 0 => emu'[i].by # 0 BY <1>1, <1>5 DEF McpWhile, Emulators
    <2>9. \A i, j \in Mcp!Emu : emu'[i].up /\ emu'[j].up /\ emu'[i].id = emu'[j].id => i = j BY <1>1, <1>8 DEF McpWhile, Emulators
    <2>10. QED BY <2>3, <2>5, <2>6, <2>7, <2>8, <2>9 DEF Emulators
  <1>13. Mcp!NoOrphan'
    <2>1. \A x \in Mcp!Call : Mcp!Holds(x) => Mcp!Holds(x)' /\ call'[x].emu = call[x].emu BY <1>4, <1>7 DEF Mcp!Holds
    <2> SUFFICES ASSUME NEW i \in Mcp!Emu, emu'[i].up
                 PROVE  IF srv'[emu'[i].by].up
                          THEN \/ i \in srv'[emu'[i].by].instances \/ emu'[i].stop # "no"
                               \/ \E x \in Mcp!Call : Mcp!Holds(x)' /\ call'[x].emu = i
                          ELSE emu'[i].watch = "eof" \/ (emu'[i].watch = "none" /\ "young orphan" \in window')
      BY DEF Mcp!NoOrphan
    <2>2. emu[i].up /\ emu'[i] = emu[i] BY <1>8
    <2>3. (\E x \in Mcp!Call : Mcp!Holds(x) /\ call[x].emu = i) => \E x \in Mcp!Call : Mcp!Holds(x)' /\ call'[x].emu = i BY <2>1
    <2>4. QED BY <1>1, <1>2, <2>2, <2>3 DEF Mcp!NoOrphan
  <1>14. ~wiped' BY <1>1, <1>2 DEF McpWhile
  <1>15. QED BY <1>6, <1>9, <1>11, <1>12, <1>13, <1>14 DEF McpInvariant, McpWhile

LEMMA McpReady ==
  ASSUME McpInvariant, window = {}, NEW k \in Mcp!Call, Mcp!Ready(k)
  PROVE  McpInvariant'
  <1> DEFINE e == call[k].emu
             d == call[k].id
             t == Mcp!ServerOf(k)
  <1>1. McpType /\ McpWhile /\ Mcp!NoOrphan BY DEF McpInvariant
  <1>2. /\ UNCHANGED << claims, json, emu, window, wiped >> /\ call[k].pc = "ready"
        /\ srv' = [srv EXCEPT ![t].instances = @ \cup {e}]
    BY DEF Mcp!Ready
  <1>3. e \in Mcp!Emu /\ e # 0 /\ d \in Mcp!Id /\ t \in Mcp!Servers
    BY <1>1, <1>2, McpIds, McpServerOf DEF McpWhile, Alone, McpType, McpCall
  <1>4. /\ call' \in [Mcp!Call -> McpCall]
        /\ \A x \in Mcp!Call : x # k => call'[x] = call[x]
        /\ call'[k].pc = "boot" /\ call'[k].id = d /\ call'[k].emu = e
    BY <1>1, McpGoto DEF Mcp!Ready, McpPc
  <1>5. /\ srv' \in [Mcp!Servers -> McpSrv]
        /\ \A s \in Mcp!Servers : srv'[s].up = srv[s].up
        /\ \A s \in Mcp!Servers : srv'[s].instances = srv[s].instances \cup (IF s = t THEN {e} ELSE {})
    BY <1>1, <1>2, <1>3 DEF McpType, McpSrv
  <1>6. McpType' BY <1>1, <1>2, <1>4, <1>5 DEF McpType
  <1>7. /\ Mcp!Holds(k) /\ Mcp!Holds(k)' /\ Working(k) /\ ~Working(k)' /\ ~Looking(k)'
        /\ \A x \in Mcp!Call : (Mcp!Holds(x)' <=> Mcp!Holds(x)) /\ (Working(x)' => Working(x)) /\ call'[x].id = call[x].id /\ call'[x].emu = call[x].emu
        /\ \A x \in Mcp!Call : Working(x)' => (Starting(x)' <=> Starting(x))
    BY <1>2, <1>4 DEF Mcp!Holds, Working, Starting, Looking
  <1>8. emu[e].id = d /\ emu[e].by = t /\ emu[e].stop = "no" /\ d # 0 BY <1>1, <1>3, <1>7 DEF McpWhile, Alone, Mcp!Id
  <1>9. claims[d] = Mcp!Claim(t) /\ srv[t].up BY <1>1, <1>2, <1>7 DEF McpWhile, ClaimsKept, CallsInTurn
  <1>10. CallsInTurn' /\ IdsApart'
    <2>1. \A s \in Mcp!Servers : srv'[s].up = srv[s].up /\ (~srv[s].up => srv'[s].instances = srv[s].instances) BY <1>5, <1>9
    <2>2. call'[k].pc = "idle" \/ (Mcp!Holds(k)' /\ call'[k].id = call[k].id) BY <1>7
    <2>3. QED BY <1>4, <1>7, <2>1, <2>2, McpHolderMoves
  <1>11. InstancesApart'
    <2> SUFFICES ASSUME NEW x \in Mcp!Call, NEW i \in Mcp!Emu, Looking(x)', i \in srv'[Mcp!ServerOf(x)].instances
                 PROVE  emu[i].id # call[x].id
      BY <1>2, <1>7 DEF InstancesApart
    <2>1. x # k /\ Looking(x) BY <1>4, <1>7 DEF Looking
    <2>2. CASE i \in srv[Mcp!ServerOf(x)].instances BY <1>1, <2>1, <2>2 DEF McpWhile, InstancesApart
    <2>3. CASE i \notin srv[Mcp!ServerOf(x)].instances
      <3>1. Mcp!ServerOf(x) = t /\ i = e BY <1>5, <2>3, McpServerOf
      <3>2. call[x].id # d BY <1>1, <1>7, <2>1, <3>1 DEF McpWhile, IdsApart
      <3>3. QED BY <1>8, <3>1, <3>2
    <2>4. QED BY <2>2, <2>3
  <1>12. ClaimsKept'
    <2>1. \A s \in Mcp!Servers : \A i \in srv'[s].instances : claims'[emu'[i].id] = Mcp!Claim(s)
      BY <1>1, <1>2, <1>5, <1>8, <1>9 DEF McpWhile, ClaimsKept
    <2>2. QED BY <1>1, <1>2, <1>4, <1>7, <2>1 DEF McpWhile, ClaimsKept
  <1>13. Alone'
    <2>1. \A x \in Mcp!Call, i \in Mcp!Emu : Working(x)' /\ emu'[i].id = call'[x].id =>
              /\ \A s \in Mcp!Servers : i \notin srv'[s].instances
              /\ emu'[i].up => Starting(x)' /\ call'[x].emu = i
      <3> SUFFICES ASSUME NEW x \in Mcp!Call, NEW i \in Mcp!Emu, Working(x)', emu[i].id = call[x].id
                   PROVE  /\ \A s \in Mcp!Servers : i \notin srv'[s].instances
                          /\ emu[i].up => Starting(x) /\ call[x].emu = i
        BY <1>2, <1>7
      <3>1. Working(x) /\ x # k BY <1>7
      <3>2. i # e
        <4>1. SUFFICES ASSUME i = e PROVE FALSE
          OBVIOUS
        <4>2. call[x].id = d /\ claims[d] = Mcp!Claim(Mcp!ServerOf(x)) BY <1>1, <1>8, <3>1, <4>1 DEF McpWhile, ClaimsKept
        <4>3. Mcp!ServerOf(x) = t
          <5>1. Mcp!Claim(Mcp!ServerOf(x)) = Mcp!Claim(t) BY <1>9, <4>2
          <5>2. \A p : Mcp!Claim(p).pid = p BY McpClaimForms
          <5>3. Mcp!Claim(Mcp!ServerOf(x)).pid = Mcp!ServerOf(x) /\ Mcp!Claim(t).pid = t BY <5>2
          <5>4. QED BY <5>1, <5>3
        <4>4. Mcp!Holds(x) BY <3>1 DEF Working, Mcp!Holds
        <4>5. QED BY <1>1, <1>7, <3>1, <4>2, <4>3, <4>4 DEF McpWhile, IdsApart
      <3>3. QED BY <1>1, <1>5, <3>1, <3>2 DEF McpWhile, Alone
    <2>2. \A x \in Mcp!Call : call'[x].pc \in {"watch", "json", "ready", "boot", "release"} => call'[x].emu # 0
      BY <1>1, <1>3, <1>4 DEF McpWhile, Alone
    <2>3. QED BY <1>1, <1>2, <1>7, <2>1, <2>2 DEF McpWhile, Alone
  <1>14. Emulators'
    <2>1. \A x \in Mcp!Call : call[x].pc \in {"watch", "json"} => call'[x] = call[x] BY <1>2, <1>4
    <2>2. \A s \in Mcp!Servers : \A i \in srv'[s].instances : emu[i].by = s /\ emu[i].id # 0 /\ emu[i].stop = "no"
      BY <1>1, <1>5, <1>8 DEF McpWhile, Emulators
    <2>3. \A x \in Mcp!Call : call'[x].pc = "boot" /\ emu[call'[x].emu].up =>
            call'[x].emu \in srv'[Mcp!ServerOf(x)].instances \/ emu[call'[x].emu].stop # "no"
      <3> SUFFICES ASSUME NEW x \in Mcp!Call, call'[x].pc = "boot", emu[call'[x].emu].up
                   PROVE  call'[x].emu \in srv'[Mcp!ServerOf(x)].instances \/ emu[call'[x].emu].stop # "no"
        OBVIOUS
      <3>1. CASE x = k BY <1>3, <1>4, <1>5, <3>1
      <3>2. CASE x # k BY <1>1, <1>4, <1>5, <3>2, McpServerOf DEF McpWhile, Emulators
      <3>3. QED BY <3>1, <3>2
    <2>4. QED BY <1>1, <1>2, <2>1, <2>2, <2>3 DEF McpWhile, Emulators
  <1>15. Mcp!NoOrphan'
    <2>1. \A i \in Mcp!Emu : emu[i].up => emu[i].by \in Mcp!Servers
      BY <1>1 DEF McpType, McpEmu, McpWhile, Emulators
    <2>2. QED BY <1>1, <1>2, <1>5, <1>7, <2>1 DEF Mcp!NoOrphan
  <1>16. ~wiped' BY <1>1, <1>2 DEF McpWhile
  <1>17. QED BY <1>6, <1>10, <1>11, <1>12, <1>13, <1>14, <1>15, <1>16 DEF McpInvariant, McpWhile

(* The call is over: booted, or its id given back. *)
LEMMA McpBooted ==
  ASSUME McpInvariant, window = {}, NEW k \in Mcp!Call, Mcp!Booted(k) \/ Mcp!GiveBack(k)
  PROVE  McpInvariant'
  <1> DEFINE d == call[k].id
             t == Mcp!ServerOf(k)
  <1>1. McpType /\ McpWhile /\ Mcp!NoOrphan BY DEF McpInvariant
  <1>2. /\ UNCHANGED << json, emu, srv, window, wiped >> /\ call[k].pc \in {"boot", "release"}
        /\ call' = [call EXCEPT ![k] = Mcp!IdleCall]
        /\ claims' = claims \/ (call[k].pc = "release" /\ claims' = Mcp!Released(t, d))
    BY DEF Mcp!Booted, Mcp!GiveBack
  <1>3. /\ call' \in [Mcp!Call -> McpCall]
        /\ \A x \in Mcp!Call : x # k => call'[x] = call[x]
        /\ call'[k].pc = "idle" /\ call'[k].emu = 0
    <2>1. Mcp!IdleCall \in McpCall /\ Mcp!IdleCall.pc = "idle" /\ Mcp!IdleCall.emu = 0 BY DEF Mcp!IdleCall, McpCall, McpPc
    <2>2. QED BY <1>1, <1>2, <2>1 DEF McpType
  <1>4. /\ Mcp!Holds(k) /\ ~Mcp!Holds(k)' /\ ~Working(k)' /\ ~Looking(k)'
        /\ \A x \in Mcp!Call : Mcp!Holds(x)' => x # k /\ Mcp!Holds(x) /\ call'[x] = call[x]
        /\ \A x \in Mcp!Call : Working(x)' => x # k /\ Working(x) /\ call'[x] = call[x]
        /\ \A x \in Mcp!Call : call'[x].pc \in {"watch", "json", "boot"} => call'[x] = call[x]
        /\ \A x \in Mcp!Call : call[x].pc \in {"watch", "json"} => call'[x] = call[x]
    BY <1>2, <1>3 DEF Mcp!Holds, Working, Looking
  <1>5. d \in Mcp!Id BY <1>1, <1>2, McpIds
  <1>6. /\ claims' \in [Mcp!Id -> McpClaim]
        /\ \A id \in Mcp!Id : claims'[id] = claims[id] \/ (id = d /\ Working(k) /\ claims[d] = Mcp!Claim(t))
    <2>1. CASE claims' = claims BY <1>1, <2>1 DEF McpType
    <2>2. CASE call[k].pc = "release" /\ claims' = Mcp!Released(t, d)
      <3>1. Working(k) BY <2>2 DEF Working
      <3>2. claims[d] = Mcp!Claim(t) BY <1>1, <3>1 DEF McpWhile, ClaimsKept
      <3>3. claims' = [claims EXCEPT ![d] = Mcp!NoFile] BY <2>2, <3>2, McpClaimForms DEF Mcp!Released
      <3>4. QED BY <1>1, <3>1, <3>2, <3>3, McpClaims DEF McpType
    <2>3. QED BY <1>2, <2>1, <2>2
  <1>7. McpType' BY <1>1, <1>2, <1>3, <1>6 DEF McpType
  <1>8. CallsInTurn' /\ IdsApart' /\ InstancesApart' BY <1>2, <1>3, <1>4, McpHolderMoves, McpInstancesStay
  <1>9. ClaimsKept'
    <2>1. \A x \in Mcp!Call : call'[x].pc = "write" => claims'[call'[x].id] = Mcp!Empty(x)
      BY <1>1, <1>3, <1>6, McpIds, McpClaimForms DEF McpWhile, ClaimsKept
    <2>2. \A x \in Mcp!Call : Working(x)' => claims'[call'[x].id] = Mcp!Claim(Mcp!ServerOf(x))
      <3> SUFFICES ASSUME NEW x \in Mcp!Call, Working(x)' PROVE claims'[call'[x].id] = Mcp!Claim(Mcp!ServerOf(x))
        OBVIOUS
      <3>1. x # k /\ Working(x) /\ call'[x] = call[x] /\ Mcp!Holds(x) BY <1>4 DEF Working, Mcp!Holds
      <3>2. claims[call[x].id] = Mcp!Claim(Mcp!ServerOf(x)) /\ call[x].id \in Mcp!Id BY <1>1, <3>1, McpIds DEF McpWhile, ClaimsKept, Working
      <3>3. call[x].id = d /\ claims[d] = Mcp!Claim(t) => FALSE
        <4>1. SUFFICES ASSUME call[x].id = d, claims[d] = Mcp!Claim(t) PROVE FALSE
          OBVIOUS
        <4>2. Mcp!ServerOf(x) = t BY <3>2, <4>1, McpClaimForms
        <4>3. QED BY <1>1, <1>4, <3>1, <4>1, <4>2 DEF McpWhile, IdsApart
      <3>4. QED BY <1>6, <3>1, <3>2, <3>3
    <2>3. \A s \in Mcp!Servers : \A i \in srv'[s].instances : claims'[emu'[i].id] = Mcp!Claim(s)
      <3> SUFFICES ASSUME NEW s \in Mcp!Servers, NEW i \in srv[s].instances PROVE claims'[emu[i].id] = Mcp!Claim(s)
        BY <1>2
      <3>1. i \in Mcp!Emu /\ emu[i].id \in Mcp!Id /\ claims[emu[i].id] = Mcp!Claim(s) BY <1>1, McpIds DEF McpWhile, ClaimsKept
      <3>2. Working(k) => emu[i].id # d BY <1>1, <3>1 DEF McpWhile, Alone
      <3>3. QED BY <1>6, <3>1, <3>2
    <2>4. QED BY <2>1, <2>2, <2>3 DEF ClaimsKept
  <1>10. Alone'
    <2>1. \A x \in Mcp!Call : ~Mcp!Holds(x)' => call'[x].emu = 0
      <3>1. \A x \in Mcp!Call : x # k => (Mcp!Holds(x)' <=> Mcp!Holds(x)) BY <1>3 DEF Mcp!Holds
      <3>2. QED BY <1>1, <1>3, <3>1 DEF McpWhile, Alone
    <2>2. \A x \in Mcp!Call : Working(x)' => (Starting(x)' <=> Starting(x)) BY <1>4 DEF Starting
    <2>3. \A x \in Mcp!Call : call'[x].pc \in {"watch", "json", "ready", "boot", "release"} => x # k BY <1>3
    <2>4. QED BY <1>1, <1>2, <1>3, <1>4, <2>1, <2>2, <2>3 DEF McpWhile, Alone
  <1>11. Emulators' BY <1>1, <1>2, <1>4 DEF McpWhile, Emulators
  <1>12. Mcp!NoOrphan'
    <2>1. \A i \in Mcp!Emu : emu[i].up /\ call[k].emu = i => i \in srv[emu[i].by].instances \/ emu[i].stop # "no"
      <3> SUFFICES ASSUME NEW i \in Mcp!Emu, emu[i].up, call[k].emu = i PROVE i \in srv[emu[i].by].instances \/ emu[i].stop # "no"
        OBVIOUS
      <3>1. i # 0 /\ emu[i].by = t /\ emu[i].id = d BY <1>1, <1>4 DEF McpWhile, Alone, Mcp!Emu
      <3>2. CASE call[k].pc = "boot" BY <1>1, <3>1, <3>2 DEF McpWhile, Emulators
      <3>3. CASE call[k].pc = "release" BY <1>1, <3>1, <3>3 DEF McpWhile, Alone, Working, Starting
      <3>4. QED BY <1>2, <3>2, <3>3
    <2>2. \A x \in Mcp!Call : x # k /\ Mcp!Holds(x) => Mcp!Holds(x)' /\ call'[x] = call[x] BY <1>3 DEF Mcp!Holds
    <2>3. QED BY <1>1, <1>2, <2>1, <2>2 DEF Mcp!NoOrphan
  <1>13. ~wiped' BY <1>1, <1>2 DEF McpWhile
  <1>14. QED BY <1>7, <1>8, <1>9, <1>10, <1>11, <1>12, <1>13 DEF McpInvariant, McpWhile

(* What happens to emulators, apart from the calls: they end, and their     *)
(* instances are given up.                                                  *)
LEMMA McpEmuMoves ==
  ASSUME McpInvariant, window = {}, UNCHANGED << json, call, wiped >>,
         srv' \in [Mcp!Servers -> McpSrv],
         \A s \in Mcp!Servers : srv'[s].up = srv[s].up /\ srv'[s].instances \subseteq srv[s].instances,
         emu' \in [Mcp!Emu -> McpEmu],
         \A i \in Mcp!Emu : emu'[i].id = emu[i].id /\ emu'[i].by = emu[i].by /\ (emu[i].id = 0 => emu'[i] = emu[i]),
         \A i \in Mcp!Emu : emu'[i].up =>
             /\ emu[i].up /\ emu'[i].watch = emu[i].watch /\ emu'[i].stop # "told"
             /\ emu[i].stop # "no" => emu'[i].stop # "no",
         \A s \in Mcp!Servers : \A i \in srv[s].instances :
             emu'[i].stop = "no" \/ (i \notin srv'[s].instances /\ emu'[i].stop = "quitting"),
         \A s \in Mcp!Servers : \A i \in srv[s].instances \ srv'[s].instances : emu'[i].up => emu'[i].stop # "no",
         \A k \in Mcp!Call : Working(k) /\ call[k].emu # 0 => emu'[call[k].emu].stop = "no"
  PROVE  CallsInTurn' /\ IdsApart' /\ InstancesApart' /\ Alone' /\ Emulators' /\ ~wiped' /\ Mcp!NoOrphan'
  <1>1. McpType /\ McpWhile /\ Mcp!NoOrphan BY DEF McpInvariant
  <1>2. \A k \in Mcp!Call : /\ (Mcp!Holds(k)' <=> Mcp!Holds(k)) /\ (Mcp!Looks(k)' <=> Mcp!Looks(k)) /\ (Looking(k)' <=> Looking(k))
                            /\ (Working(k)' <=> Working(k)) /\ (Starting(k)' <=> Starting(k))
    BY DEF Mcp!Holds, Mcp!Looks, Looking, Working, Starting
  <1>3. CallsInTurn' /\ IdsApart' BY <1>1, <1>2, McpServerOf DEF McpWhile, CallsInTurn, IdsApart
  <1>4. InstancesApart' BY <1>1, <1>2, McpServerOf DEF McpWhile, InstancesApart
  <1>5. \A s \in Mcp!Servers : \A i \in srv[s].instances : i \in Mcp!Emu BY <1>1 DEF McpType, McpSrv
  <1>6. \A k \in Mcp!Call : call[k].emu # 0 => call[k].emu \in Mcp!Emu BY <1>1 DEF McpType, McpCall
  <1>7. Alone'
    <2>1. \A k \in Mcp!Call : Mcp!Holds(k)' /\ call[k].emu # 0 =>
             emu'[call[k].emu].id = call[k].id /\ emu'[call[k].emu].by = Mcp!ServerOf(k)
      BY <1>1, <1>2, <1>6 DEF McpWhile, Alone
    <2>2. \A k \in Mcp!Call, i \in Mcp!Emu : Working(k)' /\ emu'[i].id = call'[k].id =>
              /\ \A s \in Mcp!Servers : i \notin srv'[s].instances
              /\ emu'[i].up => Starting(k)' /\ call'[k].emu = i
      BY <1>1, <1>2 DEF McpWhile, Alone
    <2>3. QED BY <1>1, <1>2, <2>1, <2>2 DEF McpWhile, Alone
  <1>8. Emulators'
    <2>1. \A s \in Mcp!Servers : \A i \in srv'[s].instances : emu'[i].by = s /\ emu'[i].id # 0 /\ emu'[i].stop = "no"
      BY <1>1, <1>5 DEF McpWhile, Emulators
    <2>2. \A i \in Mcp!Emu : emu'[i].id = 0 <=> emu'[i] = Mcp!NotStarted BY <1>1 DEF McpWhile, Emulators, Mcp!NotStarted
    <2>3. \A k \in Mcp!Call : call[k].pc = "boot" /\ emu'[call[k].emu].up =>
             call[k].emu \in srv'[Mcp!ServerOf(k)].instances \/ emu'[call[k].emu].stop # "no"
      <3>1. \A k \in Mcp!Call : call[k].pc = "boot" => call[k].emu \in Mcp!Emu BY <1>1, <1>6 DEF McpWhile, Alone
      <3>2. QED BY <1>1, <3>1, McpServerOf DEF McpWhile, Emulators
    <2>4. QED BY <1>1, <2>1, <2>2, <2>3 DEF McpWhile, Emulators
  <1>9. Mcp!NoOrphan'
    <2>1. \A i \in Mcp!Emu : emu[i].up => emu[i].by \in Mcp!Servers BY <1>1 DEF McpType, McpEmu, McpWhile, Emulators
    <2> SUFFICES ASSUME NEW i \in Mcp!Emu, emu'[i].up
                 PROVE  IF srv'[emu'[i].by].up
                          THEN \/ i \in srv'[emu'[i].by].instances \/ emu'[i].stop # "no"
                               \/ \E k \in Mcp!Call : Mcp!Holds(k)' /\ call'[k].emu = i
                          ELSE emu'[i].watch = "eof"
      BY DEF Mcp!NoOrphan
    <2>2. CASE srv[emu[i].by].up
      <3>1. CASE i \in srv[emu[i].by].instances BY <2>1, <2>2, <3>1
      <3>2. CASE emu[i].stop # "no" BY <2>1, <2>2, <3>2
      <3>3. CASE \E k \in Mcp!Call : Mcp!Holds(k) /\ call[k].emu = i BY <1>2, <2>1, <2>2, <3>3
      <3>4. QED BY <1>1, <2>2, <3>1, <3>2, <3>3 DEF Mcp!NoOrphan
    <2>3. CASE ~srv[emu[i].by].up BY <1>1, <2>1, <2>3 DEF Mcp!NoOrphan
    <2>4. QED BY <2>2, <2>3
  <1>10. QED BY <1>1, <1>3, <1>4, <1>7, <1>8, <1>9 DEF McpWhile

LEMMA McpStops ==
  ASSUME McpInvariant, window = {}, NEW s \in Mcp!Servers, Mcp!StopCall(s) \/ Mcp!Shutdown(s)
  PROVE  McpInvariant'
  <1>1. McpType /\ McpWhile /\ Mcp!NoOrphan BY DEF McpInvariant
  <1>2. UNCHANGED << claims, json, call, window, wiped >> BY DEF Mcp!StopCall, Mcp!Shutdown, Mcp!Stop
  <1>3. \E taken \in SUBSET srv[s].instances :
          /\ emu' = [i \in Mcp!Emu |-> IF i \in taken THEN [emu[i] EXCEPT !.stop = "quitting"] ELSE emu[i]]
          /\ srv' \in [Mcp!Servers -> McpSrv]
          /\ srv'[s].up = srv[s].up /\ srv'[s].instances = srv[s].instances \ taken
          /\ \A x \in Mcp!Servers : x # s => srv'[x] = srv[x]
    <2>1. CASE Mcp!StopCall(s)
      <3>1. PICK i \in srv[s].instances : /\ srv' = [srv EXCEPT ![s].instances = @ \ {i}]
                                          /\ Mcp!Stop(s, {i})
        BY <2>1 DEF Mcp!StopCall
      <3>2. /\ srv' \in [Mcp!Servers -> McpSrv]
            /\ srv'[s].up = srv[s].up /\ srv'[s].instances = srv[s].instances \ {i}
            /\ \A x \in Mcp!Servers : x # s => srv'[x] = srv[x]
        BY <1>1, <3>1 DEF McpType, McpSrv
      <3>3. QED BY <3>1, <3>2 DEF Mcp!Stop
    <2>2. CASE Mcp!Shutdown(s)
      <3> DEFINE over == [srv[s] EXCEPT !.closing = TRUE, !.instances = {}]
      <3>1. over \in McpSrv /\ over.up = srv[s].up /\ over.instances = {} BY <1>1 DEF McpType, McpSrv
      <3>2. srv' = [srv EXCEPT ![s] = over] BY <1>1, <2>2 DEF McpType, McpSrv, Mcp!Shutdown
      <3> HIDE DEF over
      <3>3. /\ srv' \in [Mcp!Servers -> McpSrv]
            /\ srv'[s].up = srv[s].up /\ srv'[s].instances = srv[s].instances \ srv[s].instances
            /\ \A x \in Mcp!Servers : x # s => srv'[x] = srv[x]
        BY <1>1, <3>1, <3>2 DEF McpType
      <3>4. QED BY <2>2, <3>3 DEF Mcp!Shutdown, Mcp!Stop
    <2>3. QED BY <2>1, <2>2
  <1>4. PICK taken \in SUBSET srv[s].instances :
          /\ emu' = [i \in Mcp!Emu |-> IF i \in taken THEN [emu[i] EXCEPT !.stop = "quitting"] ELSE emu[i]]
          /\ srv' \in [Mcp!Servers -> McpSrv]
          /\ srv'[s].up = srv[s].up /\ srv'[s].instances = srv[s].instances \ taken
          /\ \A x \in Mcp!Servers : x # s => srv'[x] = srv[x]
    BY <1>3
  <1>5. /\ emu' \in [Mcp!Emu -> McpEmu]
        /\ \A i \in Mcp!Emu : i \notin taken => emu'[i] = emu[i]
        /\ \A i \in Mcp!Emu : i \in taken => emu'[i].stop = "quitting"
        /\ \A i \in Mcp!Emu : emu'[i].id = emu[i].id /\ emu'[i].by = emu[i].by /\ emu'[i].up = emu[i].up /\ emu'[i].watch = emu[i].watch
    BY <1>1, <1>4 DEF McpType, McpEmu
  <1>6. \A x \in Mcp!Servers : \A i \in srv[x].instances : i \in Mcp!Emu /\ emu[i].by = x /\ emu[i].id # 0 /\ emu[i].stop = "no"
    BY <1>1 DEF McpType, McpSrv, McpWhile, Emulators
  <1>7. McpType' BY <1>1, <1>2, <1>4, <1>5 DEF McpType
  <1>8. \A x \in Mcp!Servers : srv'[x].up = srv[x].up /\ srv'[x].instances \subseteq srv[x].instances BY <1>4
  <1>9. \A k \in Mcp!Call : Working(k) /\ call[k].emu # 0 => emu'[call[k].emu].stop = "no"
    <2> SUFFICES ASSUME NEW k \in Mcp!Call, Working(k), call[k].emu # 0 PROVE emu'[call[k].emu].stop = "no"
      OBVIOUS
    <2>1. call[k].emu \in Mcp!Emu /\ Mcp!Holds(k) BY <1>1 DEF McpType, McpCall, Working, Mcp!Holds
    <2>2. emu[call[k].emu].id = call[k].id /\ emu[call[k].emu].stop = "no" BY <1>1, <2>1 DEF McpWhile, Alone
    <2>3. call[k].emu \notin taken BY <1>1, <2>1, <2>2 DEF McpWhile, Alone
    <2>4. QED BY <1>5, <2>1, <2>2, <2>3
  <1>10. CallsInTurn' /\ IdsApart' /\ InstancesApart' /\ Alone' /\ Emulators' /\ ~wiped' /\ Mcp!NoOrphan'
    <2>1. \A x \in Mcp!Servers : \A i \in srv[x].instances :
             emu'[i].stop = "no" \/ (i \notin srv'[x].instances /\ emu'[i].stop = "quitting")
      BY <1>4, <1>5, <1>6
    <2>2. \A x \in Mcp!Servers : \A i \in srv[x].instances \ srv'[x].instances : emu'[i].up => emu'[i].stop # "no" BY <1>4, <1>5, <1>6
    <2>3. \A i \in Mcp!Emu : emu[i].id = 0 => emu'[i] = emu[i] BY <1>5, <1>6
    <2>4. \A i \in Mcp!Emu : emu'[i].up =>
             /\ emu[i].up /\ emu'[i].watch = emu[i].watch /\ emu'[i].stop # "told"
             /\ emu[i].stop # "no" => emu'[i].stop # "no"
      BY <1>1, <1>5 DEF McpWhile, Emulators
    <2>5. QED BY <1>2, <1>4, <1>5, <1>8, <1>9, <2>1, <2>2, <2>3, <2>4, McpEmuMoves
  <1>11. ClaimsKept'
    <2>1. \A x \in Mcp!Call : Working(x)' <=> Working(x) BY <1>2 DEF Working
    <2>2. \A x \in Mcp!Servers : \A i \in srv'[x].instances : claims[emu'[i].id] = Mcp!Claim(x)
      BY <1>1, <1>5, <1>6, <1>8 DEF McpWhile, ClaimsKept
    <2>3. QED BY <1>1, <1>2, <2>1, <2>2 DEF McpWhile, ClaimsKept
  <1>12. QED BY <1>7, <1>10, <1>11 DEF McpInvariant, McpWhile

(* One emulator changes: what McpEmuMoves asks of all of them. *)
LEMMA McpOneEmu ==
  ASSUME McpInvariant, window = {}, NEW i \in Mcp!Emu, NEW one \in McpEmu, emu' = [emu EXCEPT ![i] = one],
         UNCHANGED << json, call, wiped, srv >>,
         one.id = emu[i].id, one.by = emu[i].by, emu[i].up \/ emu[i].stop # "no",
         one.up => emu[i].up /\ one.watch = emu[i].watch /\ one.stop = emu[i].stop,
         emu[i].stop = "no" => one.stop = "no"
  PROVE  /\ emu' \in [Mcp!Emu -> McpEmu]
         /\ CallsInTurn' /\ IdsApart' /\ InstancesApart' /\ Alone' /\ Emulators' /\ ~wiped' /\ Mcp!NoOrphan'
         /\ \A x \in Mcp!Emu : emu'[x].id = emu[x].id
         /\ \A x \in Mcp!Call : call'[x] = call[x] /\ (Working(x)' <=> Working(x))
  <1>1. McpType /\ McpWhile BY DEF McpInvariant
  <1>2. /\ emu' \in [Mcp!Emu -> McpEmu] /\ emu'[i] = one
        /\ \A x \in Mcp!Emu : x # i => emu'[x] = emu[x]
    BY <1>1 DEF McpType
  <1>3. emu[i].id # 0 BY <1>1 DEF McpWhile, Emulators, Mcp!NotStarted
  <1>4. \A s \in Mcp!Servers : srv'[s].up = srv[s].up /\ srv'[s].instances = srv[s].instances OBVIOUS
  <1>5. srv' \in [Mcp!Servers -> McpSrv] BY <1>1 DEF McpType
  <1>6. \A s \in Mcp!Servers : \A x \in srv[s].instances : x \in Mcp!Emu /\ emu[x].stop = "no" BY <1>1 DEF McpType, McpSrv, McpWhile, Emulators
  <1>7. \A k \in Mcp!Call : Working(k) /\ call[k].emu # 0 => call[k].emu \in Mcp!Emu /\ emu[call[k].emu].stop = "no"
    BY <1>1 DEF McpType, McpCall, McpWhile, Alone
  <1>8. \A x \in Mcp!Emu : emu[x].stop = "no" => emu'[x].stop = "no" BY <1>2
  <1>9. \A x \in Mcp!Emu : emu'[x].id = emu[x].id /\ emu'[x].by = emu[x].by /\ (emu[x].id = 0 => emu'[x] = emu[x]) BY <1>2, <1>3
  <1>10. \A x \in Mcp!Emu : emu'[x].up =>
             /\ emu[x].up /\ emu'[x].watch = emu[x].watch /\ emu'[x].stop # "told"
             /\ emu[x].stop # "no" => emu'[x].stop # "no"
    <2>1. \A x \in Mcp!Emu : emu[x].up => emu[x].stop # "told" BY <1>1 DEF McpWhile, Emulators
    <2>2. QED BY <1>2, <2>1
  <1>11. CallsInTurn' /\ IdsApart' /\ InstancesApart' /\ Alone' /\ Emulators' /\ ~wiped' /\ Mcp!NoOrphan'
    <2>1. \A s \in Mcp!Servers : \A x \in srv[s].instances : emu'[x].stop = "no" BY <1>6, <1>8
    <2>2. \A k \in Mcp!Call : Working(k) /\ call[k].emu # 0 => emu'[call[k].emu].stop = "no" BY <1>7, <1>8
    <2>3. \A s \in Mcp!Servers : srv[s].instances \ srv'[s].instances = {} BY <1>4
    <2>4. QED BY <1>2, <1>4, <1>5, <1>9, <1>10, <2>1, <2>2, <2>3, McpEmuMoves
  <1>12. \A x \in Mcp!Call : call'[x] = call[x] /\ (Working(x)' <=> Working(x)) BY DEF Working
  <1>13. QED BY <1>2, <1>9, <1>11, <1>12

LEMMA McpStopTold ==
  ASSUME McpInvariant, window = {}, NEW i \in Mcp!Emu, Mcp!StopTold(i) \/ Mcp!Exit(i) \/ Mcp!Watchdog(i)
  PROVE  McpInvariant'
  <1>1. McpType /\ McpWhile BY DEF McpInvariant
  <1>2. UNCHANGED << claims, json, srv, call, window, wiped >> BY DEF Mcp!StopTold, Mcp!Exit, Mcp!Watchdog
  <1>3. \E one \in McpEmu :
          /\ emu' = [emu EXCEPT ![i] = one]
          /\ one.id = emu[i].id /\ one.by = emu[i].by /\ (emu[i].up \/ emu[i].stop # "no")
          /\ one.up = FALSE /\ (emu[i].stop = "no" => one.stop = "no")
    <2>1. CASE Mcp!StopTold(i)
      <3> DEFINE one == [emu[i] EXCEPT !.stop = "told", !.watch = IF @ = "waits" THEN "done" ELSE @]
      <3>1. one \in McpEmu /\ one.id = emu[i].id /\ one.by = emu[i].by /\ one.up = emu[i].up BY ZenonT(40), <1>1 DEF McpType, McpEmu
      <3>2. emu' = [emu EXCEPT ![i] = one] BY <1>1, <2>1 DEF McpType, McpEmu, Mcp!StopTold
      <3>3. emu[i].stop = "quitting" /\ one.up = FALSE
        <4>1. emu[i].up \in BOOLEAN BY <1>1 DEF McpType, McpEmu
        <4>2. emu[i].stop = "quitting" /\ ~emu[i].up BY <2>1 DEF Mcp!StopTold
        <4>3. QED BY <3>1, <4>1, <4>2
      <3> HIDE DEF one
      <3>4. QED BY <3>1, <3>2, <3>3
    <2>2. CASE Mcp!Exit(i) \/ Mcp!Watchdog(i)
      <3> DEFINE one == [emu[i] EXCEPT !.up = FALSE]
      <3>1. one \in McpEmu /\ one.id = emu[i].id /\ one.by = emu[i].by /\ one.up = FALSE /\ one.stop = emu[i].stop BY ZenonT(40), <1>1 DEF McpType, McpEmu
      <3>2. emu' = [emu EXCEPT ![i] = one] /\ emu[i].up BY <1>1, <2>2 DEF McpType, McpEmu, Mcp!Exit, Mcp!Watchdog
      <3> HIDE DEF one
      <3>3. QED BY <3>1, <3>2
    <2>3. QED BY <2>1, <2>2
  <1>4. PICK one \in McpEmu :
          /\ emu' = [emu EXCEPT ![i] = one]
          /\ one.id = emu[i].id /\ one.by = emu[i].by /\ (emu[i].up \/ emu[i].stop # "no")
          /\ one.up = FALSE /\ (emu[i].stop = "no" => one.stop = "no")
    BY <1>3
  <1>5. /\ emu' \in [Mcp!Emu -> McpEmu]
        /\ CallsInTurn' /\ IdsApart' /\ InstancesApart' /\ Alone' /\ Emulators' /\ ~wiped' /\ Mcp!NoOrphan'
        /\ \A x \in Mcp!Emu : emu'[x].id = emu[x].id
        /\ \A x \in Mcp!Call : call'[x] = call[x] /\ (Working(x)' <=> Working(x))
    BY <1>2, <1>4, McpOneEmu
  <1>6. McpType' BY <1>1, <1>2, <1>5 DEF McpType
  <1>7. ClaimsKept'
    <2>1. \A s \in Mcp!Servers : \A x \in srv[s].instances : emu'[x].id = emu[x].id BY <1>1, <1>5, McpIds
    <2>2. QED BY <1>1, <1>2, <1>5, <2>1 DEF McpWhile, ClaimsKept
  <1>8. QED BY <1>5, <1>6, <1>7 DEF McpInvariant, McpWhile

(* The claim is given back by its server; only in a window is it one of a   *)
(* later call.                                                              *)
LEMMA McpStopEnds ==
  ASSUME McpInvariant, window = {}, NEW i \in Mcp!Emu, Mcp!StopEnds(i)
  PROVE  McpInvariant'
  <1> DEFINE s == emu[i].by
             d == emu[i].id
             one == [emu[i] EXCEPT !.stop = "no"]
  <1>1. McpType /\ McpWhile BY DEF McpInvariant
  <1>2. UNCHANGED << json, srv, call, wiped >> /\ emu[i].stop = "told" /\ claims' = Mcp!Released(s, d) BY DEF Mcp!StopEnds
  <1>3. window' = IF Mcp!ClaimedAnew(s, i) THEN window \cup {"release"} ELSE window BY DEF Mcp!StopEnds
  <1>4. d # 0 /\ ~emu[i].up BY <1>1, <1>2 DEF McpWhile, Emulators, Mcp!NotStarted
  <1>5. d \in Mcp!Id /\ s \in Mcp!Servers BY <1>1, <1>4 DEF McpType, McpEmu, McpWhile, Emulators
  <1>6. one \in McpEmu /\ one.id = d /\ one.by = s /\ one.up = emu[i].up /\ one.stop = "no" BY <1>1 DEF McpType, McpEmu
  <1>7. emu' = [emu EXCEPT ![i] = one] BY <1>1 DEF McpType, McpEmu, Mcp!StopEnds
  <1> HIDE DEF one
  <1>8. /\ emu' \in [Mcp!Emu -> McpEmu]
        /\ CallsInTurn' /\ IdsApart' /\ InstancesApart' /\ Alone' /\ Emulators' /\ ~wiped' /\ Mcp!NoOrphan'
        /\ \A x \in Mcp!Emu : emu'[x].id = emu[x].id
        /\ \A x \in Mcp!Call : call'[x] = call[x] /\ (Working(x)' <=> Working(x))
    BY <1>2, <1>4, <1>6, <1>7, McpOneEmu
  <1>9. /\ claims' \in [Mcp!Id -> McpClaim]
        /\ \A id \in Mcp!Id : claims'[id] = claims[id] \/ (id = d /\ claims[d].pid = s)
    BY <1>1, <1>2, <1>5, McpClaims DEF McpType, Mcp!Released
  <1>10. McpType'
    <2>1. window' \subseteq {"old list", "late check", "takeover", "release", "young orphan"} BY <1>3
    <2>2. QED BY <1>1, <1>2, <1>8, <1>9, <2>1 DEF McpType
  <1>11. ASSUME window' = {} PROVE ClaimsKept'
    <2>1. ~Mcp!ClaimedAnew(s, i) BY <1>3, <1>11
    <2>2. \A x \in Mcp!Call : call[x].pc = "write" => claims'[call[x].id] = Mcp!Empty(x)
      BY <1>1, <1>5, <1>9, McpIds, McpClaimForms DEF McpWhile, ClaimsKept
    <2>3. \A x \in Mcp!Call : Working(x) => claims'[call[x].id] = Mcp!Claim(Mcp!ServerOf(x))
      <3> SUFFICES ASSUME NEW x \in Mcp!Call, Working(x) PROVE claims'[call[x].id] = Mcp!Claim(Mcp!ServerOf(x))
        OBVIOUS
      <3>1. Mcp!Holds(x) /\ call[x].id \in Mcp!Id BY <1>1, McpIds DEF Working, Mcp!Holds
      <3>2. claims[call[x].id] = Mcp!Claim(Mcp!ServerOf(x)) BY <1>1 DEF McpWhile, ClaimsKept
      <3>3. call[x].emu # i
        <4>1. i # 0 BY DEF Mcp!Emu
        <4>2. QED BY <1>1, <1>2, <4>1 DEF McpWhile, Alone
      <3>4. ~(call[x].id = d /\ claims[d].pid = s) BY <2>1, <3>1, <3>2, <3>3, McpClaimForms DEF Mcp!ClaimedAnew
      <3>5. QED BY <1>9, <3>1, <3>2, <3>4
    <2>4. \A x \in Mcp!Servers : \A j \in srv[x].instances : claims'[emu'[j].id] = Mcp!Claim(x)
      <3> SUFFICES ASSUME NEW x \in Mcp!Servers, NEW j \in srv[x].instances PROVE claims'[emu'[j].id] = Mcp!Claim(x)
        OBVIOUS
      <3>1. j \in Mcp!Emu /\ emu[j].id \in Mcp!Id /\ emu'[j].id = emu[j].id /\ claims[emu[j].id] = Mcp!Claim(x)
        BY <1>1, <1>8, McpIds DEF McpWhile, ClaimsKept
      <3>2. ~(emu[j].id = d /\ claims[d].pid = s) BY <2>1, <3>1, McpClaimForms DEF Mcp!ClaimedAnew, Mcp!IdsOf
      <3>3. QED BY <1>9, <3>1, <3>2
    <2>5. QED BY <1>2, <1>8, <2>2, <2>3, <2>4 DEF ClaimsKept
  <1>12. QED BY <1>8, <1>10, <1>11 DEF McpInvariant, McpWhile

(* A server dies with its calls; what it leaves has a watchdog, or the      *)
(* window says so.                                                          *)
LEMMA McpDie ==
  ASSUME McpInvariant, window = {}, NEW s \in Mcp!Servers, Mcp!Die(s)
  PROVE  McpInvariant'
  <1> USE McpServerOf
  <1>1. McpType /\ McpWhile /\ Mcp!NoOrphan BY DEF McpInvariant
  <1>2. UNCHANGED << claims, json, wiped >> BY DEF Mcp!Die
  <1>3. /\ srv' \in [Mcp!Servers -> McpSrv] /\ srv'[s].up = FALSE /\ srv'[s].instances = {}
        /\ \A x \in Mcp!Servers : x # s => srv'[x] = srv[x]
    BY <1>1 DEF Mcp!Die, McpType, McpSrv
  <1>4. /\ call' \in [Mcp!Call -> McpCall]
        /\ \A k \in Mcp!Call : Mcp!ServerOf(k) = s => call'[k] = Mcp!IdleCall
        /\ \A k \in Mcp!Call : Mcp!ServerOf(k) # s => call'[k] = call[k]
    <2>1. Mcp!IdleCall \in McpCall BY DEF Mcp!IdleCall, McpCall, McpPc
    <2>2. QED BY <1>1, <2>1 DEF McpType, Mcp!Die
  <1>5. Mcp!IdleCall.pc = "idle" /\ Mcp!IdleCall.emu = 0 BY DEF Mcp!IdleCall
  <1>6. \A i \in Mcp!Emu : /\ emu'[i] \in McpEmu /\ emu'[i].id = emu[i].id /\ emu'[i].by = emu[i].by /\ emu'[i].up = emu[i].up
                           /\ emu[i].by # s => emu'[i] = emu[i]
                           /\ emu[i].by = s => emu'[i].stop = "no" /\ emu'[i].watch = IF emu[i].watch = "waits" THEN "eof" ELSE emu[i].watch
    BY ZenonT(40), <1>1 DEF McpType, McpEmu, Mcp!Die
  <1>7. emu' \in [Mcp!Emu -> McpEmu]
    <2> DEFINE orphan(i) == IF emu[i].by = s
                            THEN [emu[i] EXCEPT !.stop = "no", !.watch = IF @ = "waits" THEN "eof" ELSE @]
                            ELSE emu[i]
    <2>1. emu' = [i \in Mcp!Emu |-> orphan(i)] BY DEF Mcp!Die
    <2>2. \A i \in Mcp!Emu : orphan(i) \in McpEmu
      <3> SUFFICES ASSUME NEW i \in Mcp!Emu PROVE orphan(i) \in McpEmu
        OBVIOUS
      <3>1. emu[i] \in McpEmu BY <1>1 DEF McpType
      <3>2. CASE emu[i].by = s
        <4> DEFINE w == IF emu[i].watch = "waits" THEN "eof" ELSE emu[i].watch
        <4>1. w \in {"none", "waits", "eof", "done"} BY <3>1 DEF McpEmu
        <4>2. orphan(i) = [emu[i] EXCEPT !.stop = "no", !.watch = w] BY <3>1, <3>2 DEF McpEmu
        <4> HIDE DEF w, orphan
        <4>3. QED BY <3>1, <4>1, <4>2 DEF McpEmu
      <3>3. CASE emu[i].by # s BY <3>1, <3>3
      <3>4. QED BY <3>2, <3>3
    <2> HIDE DEF orphan
    <2>3. QED BY <2>1, <2>2
  <1>8. window' = IF \E k \in Mcp!Call : Mcp!ServerOf(k) = s /\ Mcp!Young(k) THEN window \cup {"young orphan"} ELSE window
    BY DEF Mcp!Die
  <1>9. McpType' BY <1>1, <1>2, <1>3, <1>4, <1>7, <1>8 DEF McpType
  <1>10. CallsInTurn /\ IdsApart /\ InstancesApart /\ ClaimsKept /\ Alone /\ Emulators BY <1>1 DEF McpWhile
  <1>11. \A k \in Mcp!Call : /\ Mcp!ServerOf(k) = s => ~Mcp!Holds(k)' /\ ~Mcp!Looks(k)' /\ ~Looking(k)' /\ ~Working(k)'
                             /\ Mcp!ServerOf(k) # s => /\ (Mcp!Holds(k)' <=> Mcp!Holds(k)) /\ (Mcp!Looks(k)' <=> Mcp!Looks(k))
                                                       /\ (Looking(k)' <=> Looking(k)) /\ (Working(k)' <=> Working(k)) /\ (Starting(k)' <=> Starting(k))
    BY <1>4, <1>5 DEF Mcp!Holds, Mcp!Looks, Looking, Working, Starting
  <1>12. CallsInTurn'
    <2>1. \A k \in Mcp!Call : call'[k].pc # "idle" => srv'[Mcp!ServerOf(k)].up BY <1>3, <1>4, <1>5, <1>10 DEF CallsInTurn
    <2>2. \A k \in Mcp!Call : call'[k].pc \notin {"idle", "lock"} => call'[k].id \in Mcp!Id BY <1>4, <1>5, <1>10 DEF CallsInTurn
    <2>3. \A k, x \in Mcp!Call : Mcp!ServerOf(k) = Mcp!ServerOf(x) /\ Mcp!Looks(k)' /\ Mcp!Looks(x)' => k = x BY <1>10, <1>11 DEF CallsInTurn
    <2>4. \A x \in Mcp!Servers : ~srv'[x].up => srv'[x].instances = {} BY <1>3, <1>10 DEF CallsInTurn
    <2>5. QED BY <2>1, <2>2, <2>3, <2>4 DEF CallsInTurn
  <1>13. IdsApart' /\ InstancesApart'
    <2>1. IdsApart' BY <1>4, <1>10, <1>11 DEF IdsApart
    <2>2. InstancesApart' BY <1>3, <1>4, <1>6, <1>10, <1>11 DEF InstancesApart
    <2>3. QED BY <2>1, <2>2
  <1>14. ClaimsKept'
    <2>1. \A k \in Mcp!Call : call'[k].pc = "write" => claims[call'[k].id] = Mcp!Empty(k) BY <1>4, <1>5, <1>10 DEF ClaimsKept
    <2>2. \A k \in Mcp!Call : Working(k)' => claims[call'[k].id] = Mcp!Claim(Mcp!ServerOf(k)) BY <1>4, <1>10, <1>11 DEF ClaimsKept
    <2>3. \A x \in Mcp!Servers : \A i \in srv'[x].instances : claims[emu'[i].id] = Mcp!Claim(x)
      BY <1>1, <1>3, <1>6, <1>10 DEF ClaimsKept, McpType, McpSrv
    <2>4. QED BY <1>2, <2>1, <2>2, <2>3 DEF ClaimsKept
  <1>15. \A k \in Mcp!Call : Mcp!Holds(k) /\ call[k].emu # 0 => call[k].emu \in Mcp!Emu /\ emu[call[k].emu].by = Mcp!ServerOf(k)
    BY <1>1, <1>10 DEF Alone, McpType, McpCall
  <1>16. Alone'
    <2>1. \A k, x \in Mcp!Call : Mcp!Holds(k)' /\ Mcp!Holds(x)' /\ call'[k].emu = call'[x].emu /\ call'[k].emu # 0 => k = x
      BY <1>4, <1>10, <1>11 DEF Alone
    <2>2. \A k \in Mcp!Call : call'[k].pc \in {"watch", "json", "ready", "boot", "release"} => call'[k].emu # 0 BY <1>4, <1>5, <1>10 DEF Alone
    <2>3. \A k \in Mcp!Call : ~Mcp!Holds(k)' => call'[k].emu = 0 BY <1>4, <1>5, <1>10, <1>11 DEF Alone
    <2>4. \A k \in Mcp!Call : Mcp!Holds(k)' /\ call'[k].emu # 0 =>
             emu'[call'[k].emu].id = call'[k].id /\ emu'[call'[k].emu].by = Mcp!ServerOf(k)
      BY <1>4, <1>6, <1>10, <1>11, <1>15 DEF Alone
    <2>5. \A k \in Mcp!Call : Working(k)' => call'[k].emu = 0 \/ emu'[call'[k].emu].stop = "no"
      <3>1. \A k \in Mcp!Call : Working(k) => Mcp!Holds(k) BY DEF Working, Mcp!Holds
      <3>2. QED BY <1>4, <1>6, <1>10, <1>11, <1>15, <3>1 DEF Alone
    <2>6. \A k \in Mcp!Call, i \in Mcp!Emu : Working(k)' /\ emu'[i].id = call'[k].id =>
              /\ \A x \in Mcp!Servers : i \notin srv'[x].instances
              /\ emu'[i].up => Starting(k)' /\ call'[k].emu = i
      BY <1>3, <1>4, <1>6, <1>10, <1>11 DEF Alone
    <2>7. QED BY <2>1, <2>2, <2>3, <2>4, <2>5, <2>6 DEF Alone
  <1>17. \A i \in Mcp!Emu, k \in Mcp!Call : emu[i].up /\ call[k].pc \in {"watch", "json"} /\ call[k].emu = i /\ Mcp!ServerOf(k) = s =>
            window' # {} /\ "young orphan" \in window'
    BY <1>8 DEF Mcp!Young
  <1>18. ASSUME window' = {} PROVE Emulators'
    <2>1. \A i \in Mcp!Emu : emu'[i].id = 0 <=> emu'[i] = Mcp!NotStarted
      <3>1. \A i \in Mcp!Emu : emu[i].id = 0 => emu[i].by # s BY <1>10, McpClaimForms DEF Emulators, Mcp!NotStarted, Mcp!Stale
      <3>2. \A i \in Mcp!Emu : emu'[i] = Mcp!NotStarted => emu'[i].id = 0 BY DEF Mcp!NotStarted
      <3>3. QED BY <1>6, <1>10, <3>1, <3>2 DEF Emulators
    <2>2. \A i \in Mcp!Emu : emu'[i].id # 0 => emu'[i].by # 0 BY <1>6, <1>10 DEF Emulators
    <2>3. \A x \in Mcp!Servers : \A i \in srv'[x].instances : emu'[i].by = x /\ emu'[i].id # 0 /\ emu'[i].stop = "no"
      BY <1>1, <1>3, <1>6, <1>10 DEF Emulators, McpType, McpSrv
    <2>4. \A i \in Mcp!Emu : emu'[i].up =>
          /\ emu'[i].id # 0 /\ emu'[i].stop # "told" /\ emu'[i].watch # "done"
          /\ json'[emu'[i].id] = i \/ \E k \in Mcp!Call : call'[k].pc \in {"watch", "json"} /\ call'[k].emu = i
          /\ emu'[i].watch = "none" => \E k \in Mcp!Call : call'[k].pc = "watch" /\ call'[k].emu = i
      <3> SUFFICES ASSUME NEW i \in Mcp!Emu, emu[i].up
                   PROVE  /\ emu'[i].id # 0 /\ emu'[i].stop # "told" /\ emu'[i].watch # "done"
                          /\ json[emu[i].id] = i \/ \E k \in Mcp!Call : call'[k].pc \in {"watch", "json"} /\ call'[k].emu = i
                          /\ emu'[i].watch = "none" => \E k \in Mcp!Call : call'[k].pc = "watch" /\ call'[k].emu = i
        BY <1>2, <1>6
      <3>1. \A k \in Mcp!Call : call[k].pc \in {"watch", "json"} /\ call[k].emu = i => call'[k] = call[k] BY <1>4, <1>17, <1>18
      <3>2. emu'[i].id # 0 /\ emu'[i].stop # "told" /\ emu'[i].watch # "done" BY <1>6, <1>10 DEF Emulators
      <3>3. emu'[i].watch = "none" => emu[i].watch = "none" BY <1>6
      <3>4. QED BY <1>10, <3>1, <3>2, <3>3 DEF Emulators
    <2>5. \A i, j \in Mcp!Emu : emu'[i].up /\ emu'[j].up /\ emu'[i].id = emu'[j].id => i = j BY <1>6, <1>10 DEF Emulators
    <2>6. \A k \in Mcp!Call : call'[k].pc = "boot" /\ emu'[call'[k].emu].up =>
             call'[k].emu \in srv'[Mcp!ServerOf(k)].instances \/ emu'[call'[k].emu].stop # "no"
      <3> SUFFICES ASSUME NEW k \in Mcp!Call, call'[k].pc = "boot", emu'[call'[k].emu].up
                   PROVE  call'[k].emu \in srv'[Mcp!ServerOf(k)].instances \/ emu'[call'[k].emu].stop # "no"
        OBVIOUS
      <3>1. Mcp!ServerOf(k) # s /\ call'[k] = call[k] BY <1>4, <1>5
      <3>2. call[k].emu # 0 /\ Mcp!Holds(k) BY <1>10, <3>1 DEF Alone, Mcp!Holds
      <3>3. call[k].emu \in Mcp!Emu /\ emu'[call[k].emu] = emu[call[k].emu] BY <1>6, <1>15, <3>1, <3>2
      <3>4. QED BY <1>3, <1>10, <3>1, <3>3 DEF Emulators
    <2>7. QED BY <2>1, <2>2, <2>3, <2>4, <2>5, <2>6 DEF Emulators
  <1>19. Mcp!NoOrphan'
    <2> SUFFICES ASSUME NEW i \in Mcp!Emu, emu[i].up
                 PROVE  IF srv'[emu[i].by].up
                          THEN \/ i \in srv'[emu[i].by].instances \/ emu'[i].stop # "no"
                               \/ \E k \in Mcp!Call : Mcp!Holds(k)' /\ call'[k].emu = i
                          ELSE emu'[i].watch = "eof" \/ (emu'[i].watch = "none" /\ "young orphan" \in window')
      BY <1>6 DEF Mcp!NoOrphan
    <2>1. emu[i].by \in Mcp!Servers BY <1>1, <1>10 DEF McpType, McpEmu, Emulators
    <2>2. i # 0 /\ emu[i].watch \in {"none", "waits", "eof"} BY <1>1, <1>10 DEF McpType, McpEmu, Emulators, Mcp!Emu
    <2>3. CASE emu[i].by = s
      <3>1. CASE emu[i].watch = "none"
        <4>1. PICK k \in Mcp!Call : call[k].pc = "watch" /\ call[k].emu = i BY <1>10, <3>1 DEF Emulators
        <4>2. Mcp!ServerOf(k) = s BY <1>15, <2>2, <2>3, <4>1 DEF Mcp!Holds
        <4>3. "young orphan" \in window' BY <1>17, <4>1, <4>2
        <4>4. QED BY <1>3, <1>6, <2>3, <3>1, <4>3
      <3>2. CASE emu[i].watch # "none" BY <1>3, <1>6, <2>2, <2>3, <3>2
      <3>3. QED BY <3>1, <3>2
    <2>4. CASE emu[i].by # s
      <3>1. srv'[emu[i].by] = srv[emu[i].by] /\ emu'[i] = emu[i] BY <1>3, <1>6, <2>1, <2>4
      <3>2. \A k \in Mcp!Call : Mcp!Holds(k) /\ call[k].emu = i => Mcp!Holds(k)' /\ call'[k].emu = i BY <1>4, <1>11, <1>15, <2>2, <2>4
      <3>3. srv[emu[i].by].up BY <2>1 DEF Mcp!Die
      <3>4. QED BY <1>1, <3>1, <3>2, <3>3 DEF Mcp!NoOrphan
    <2>5. QED BY <2>3, <2>4
  <1>20. ~wiped' BY <1>1, <1>2 DEF McpWhile
  <1>21. QED BY <1>9, <1>12, <1>13, <1>14, <1>16, <1>18, <1>19, <1>20 DEF McpInvariant, McpWhile

LEMMA McpStart ==
  ASSUME Mcp!Init
  PROVE  McpInvariant
  <1>1. claims \in [Mcp!Id -> McpClaim] /\ \A id \in Mcp!Id : claims[id] \in {Mcp!NoFile, Mcp!Claim(0)}
    BY McpClaims DEF Mcp!Init, Mcp!Stale
  <1>2. \A k \in Mcp!Call : call[k] = Mcp!IdleCall BY DEF Mcp!Init
  <1>3. Mcp!IdleCall \in McpCall /\ Mcp!IdleCall.pc = "idle" /\ Mcp!IdleCall.emu = 0 BY DEF Mcp!IdleCall, McpCall, McpPc
  <1>4. \A i \in Mcp!Emu : emu[i] = Mcp!NotStarted BY DEF Mcp!Init
  <1>5. Mcp!NotStarted \in McpEmu /\ Mcp!NotStarted.id = 0 /\ Mcp!NotStarted.up = FALSE BY DEF Mcp!NotStarted, McpEmu, Mcp!Stale
  <1>6. \A s \in Mcp!Servers : srv[s].up = TRUE /\ srv[s].instances = {} BY DEF Mcp!Init
  <1>7. srv \in [Mcp!Servers -> McpSrv] BY DEF Mcp!Init, McpSrv
  <1>8. json \in [Mcp!Id -> {0} \cup Mcp!Emu] /\ emu \in [Mcp!Emu -> McpEmu] /\ call \in [Mcp!Call -> McpCall] /\ window = {} /\ wiped = FALSE
    BY <1>3, <1>5 DEF Mcp!Init
  <1>9. McpType BY <1>1, <1>7, <1>8 DEF McpType
  <1>10. \A k \in Mcp!Call : ~Mcp!Holds(k) /\ ~Mcp!Looks(k) /\ ~Looking(k) /\ ~Working(k)
    BY <1>2, <1>3 DEF Mcp!Holds, Mcp!Looks, Looking, Working
  <1>11. CallsInTurn /\ IdsApart /\ InstancesApart BY <1>2, <1>3, <1>6, <1>10 DEF CallsInTurn, IdsApart, InstancesApart
  <1>12. ClaimsKept BY <1>2, <1>3, <1>6, <1>10 DEF ClaimsKept
  <1>13. Alone BY <1>2, <1>3, <1>10 DEF Alone
  <1>14. Emulators BY <1>2, <1>3, <1>4, <1>5, <1>6 DEF Emulators
  <1>15. Mcp!NoOrphan BY <1>4, <1>5 DEF Mcp!NoOrphan
  <1>16. QED BY <1>8, <1>9, <1>11, <1>12, <1>13, <1>14, <1>15 DEF McpInvariant, McpWhile

LEMMA McpSteps ==
  ASSUME McpInvariant, Mcp!Next
  PROVE  McpInvariant'
  <1>1. window = {} BY DEF Mcp!Next
  <1>2. ASSUME NEW k \in Mcp!Call, Mcp!CallStep(k) PROVE McpInvariant'
    BY <1>1, <1>2, McpStartCall, McpLock, McpLook, McpOpen, McpRead, McpRemove, McpWrite, McpClear, McpSpawn,
       McpSpawnWatchdog, McpWriteJson, McpReady, McpNotReady, McpBooted DEF Mcp!CallStep
  <1>3. ASSUME NEW s \in Mcp!Servers, Mcp!StopCall(s) \/ Mcp!Shutdown(s) \/ Mcp!Die(s) PROVE McpInvariant'
    BY <1>1, <1>3, McpStops, McpDie
  <1>4. ASSUME NEW i \in Mcp!Emu, Mcp!StopTold(i) \/ Mcp!StopEnds(i) \/ Mcp!Exit(i) \/ Mcp!Watchdog(i) PROVE McpInvariant'
    BY <1>1, <1>4, McpStopTold, McpStopEnds
  <1>5. QED BY <1>2, <1>3, <1>4 DEF Mcp!Next

LEMMA McpKeeps ==
  ASSUME McpInvariant
  PROVE  Mcp!ServersApart
  <1>1. ASSUME window = {} PROVE Mcp!ClaimHeld /\ Mcp!OwnDirectory
    <2>1. ClaimsKept /\ Emulators /\ ~wiped BY <1>1 DEF McpInvariant, McpWhile
    <2>2. \A k \in Mcp!Call : Mcp!Holds(k) /\ call[k].pc # "boot" => Working(k) BY DEF Mcp!Holds, Working
    <2>3. Mcp!ClaimHeld BY <2>1, <2>2, McpClaimForms DEF Mcp!ClaimHeld, ClaimsKept
    <2>4. Mcp!OwnDirectory BY <2>1 DEF Mcp!OwnDirectory, Emulators
    <2>5. QED BY <2>3, <2>4
  <1>2. QED BY <1>1 DEF McpInvariant, Mcp!ServersApart

LEMMA McpStands ==
  ASSUME UNCHANGED << claims, json, emu, srv, call, window, wiped >>
  PROVE  McpInvariant <=> McpInvariant'
  <1>1. McpType <=> McpType' BY DEF McpType
  <1>2. \A k : /\ (Mcp!Holds(k)' <=> Mcp!Holds(k)) /\ (Mcp!Looks(k)' <=> Mcp!Looks(k)) /\ (Looking(k)' <=> Looking(k))
               /\ (Working(k)' <=> Working(k)) /\ (Starting(k)' <=> Starting(k))
    BY DEF Mcp!Holds, Mcp!Looks, Looking, Working, Starting
  <1>3. CallsInTurn <=> CallsInTurn' BY <1>2 DEF CallsInTurn
  <1>4. (IdsApart <=> IdsApart') /\ (InstancesApart <=> InstancesApart') BY <1>2 DEF IdsApart, InstancesApart
  <1>5. ClaimsKept <=> ClaimsKept' BY <1>2 DEF ClaimsKept
  <1>6. Alone <=> Alone' BY <1>2 DEF Alone
  <1>7. Emulators <=> Emulators' BY <1>2 DEF Emulators
  <1>8. Mcp!NoOrphan <=> Mcp!NoOrphan' BY <1>2 DEF Mcp!NoOrphan
  <1>9. QED BY <1>1, <1>3, <1>4, <1>5, <1>6, <1>7, <1>8 DEF McpInvariant, McpWhile

(* ue2-mcp: in any number of servers, calls, ids and emulators, a server    *)
(* holds the claims of its instances and of the calls at work, no directory *)
(* is cleared in use or shared by two emulators, and every emulator has its *)
(* server or its watchdog, until two servers meet in a named window.        *)
THEOREM ServersApartThm == Spec => []ServersApart
  <1> DEFINE Inv == part = "mcp" => McpInvariant
  <1>1. Init => Inv BY McpStart DEF Init
  <1>2. Inv /\ [Next]_vars => Inv'
    <2> SUFFICES ASSUME Inv, [Next]_vars PROVE Inv'
      OBVIOUS
    <2>1. CASE McpNext BY <2>1, McpSteps DEF McpNext
    <2>2. CASE UNCHANGED << part, mcpVars >> BY <2>2, McpStands DEF mcpVars
    <2>3. CASE (Next /\ ~McpNext) \/ UNCHANGED vars
      BY <2>2, <2>3 DEF Next, PortNext, DebugNext, TimeNext, FlashNext, SdNext, FdcNext, RomNext, EspNext, DiskNext, CartNext, vars, HostVars
    <2>4. QED BY <2>1, <2>3
  <1>3. Inv => ServersApart BY McpKeeps DEF ServersApart
  <1>4. QED BY <1>1, <1>2, <1>3, PTL DEF Spec

-----------------------------------------------------------------------------
(* The floppy controller of the 1581                                        *)

LEMMA FdcSizes == SectorLen \in Nat /\ SectorLen > 0 /\ FifoDepth \in Nat /\ FifoDepth > 1 /\ LastTrack \in Nat
  BY PartsAssumption

WdFields  == {"busy", "drq", "cmd", "data", "wv", "rv", "completion", "fifo", "mode", "delay", "addr", "len", "goto", "cur", "dropped"}
DosFields == {"do", "moved", "forced", "count"}

FdcCommand == {"none", "read", "write", "seek", "force"}
FdcEntry   == [cmd : FdcCommand, done : BOOLEAN]
FdcBuf     == [1 .. SectorLen -> Fdc!DiskByte]

WdOk(w) ==
    /\ DOMAIN w = WdFields
    /\ w.data \in Fdc!DiskByte /\ w.fifo \in Seq(FdcEntry) /\ w.cmd \in FdcCommand
    /\ w.mode \in {0, 1, 2, 3} /\ w.addr \in Nat /\ w.len \in Nat /\ w.goto \in Nat /\ w.cur \in Nat
    /\ w.mode \in {1, 2} => w.addr > 0 /\ w.addr + w.len = SectorLen + 1
    /\ w.mode = 2 => w.len > 0

DosOk(d) == DOMAIN d = DosFields /\ d.moved \in Seq(Fdc!DiskByte)

Served == {"none", "read", "write", "seek", "seeking", "force", "done"}

(* What is on its way to the firmware: nothing, the completion of the last  *)
(* write, a command, a command behind the completion.                       *)
Tag(x, e)    == e.cmd = x /\ ~e.done
NoWork(w, s) == w.mode = 0 /\ w.fifo = << >> /\ s = "none"
OwesDone(w, s) ==
    w.mode = 3 /\ \/ s = "done" /\ w.fifo = << >>
                  \/ s = "none" /\ Len(w.fifo) = 1 /\ w.fifo[1].done
Completed(w, s) == NoWork(w, s) \/ OwesDone(w, s)
Asks(w, s, x) ==
    \/ w.mode = 0 /\ \/ s = x /\ w.fifo = << >>
                     \/ s = "none" /\ Len(w.fifo) = 1 /\ Tag(x, w.fifo[1])
    \/ w.mode = 3 /\ \/ s = "done" /\ Len(w.fifo) = 1 /\ Tag(x, w.fifo[1])
                     \/ s = "none" /\ Len(w.fifo) = 2 /\ w.fifo[1].done /\ Tag(x, w.fifo[2])

Still(w) == ~w.delay /\ ~w.rv /\ ~w.wv /\ ~w.drq

(* The controller is ready for a command, has taken one, moves a sector     *)
(* either way, waits for a written one, steps the head.                     *)
FdcReady(w, m, img, d, s) ==
    /\ ~w.busy /\ Still(w) /\ Completed(w, s)
    /\ \/ d.do = "none"
       \/ d.do = "read" /\ NoWork(w, s) /\ d.moved = img
       \/ d.do = "write" /\ d.moved = m /\ (NoWork(w, s) => d.moved = img)
       \/ d.do = "seek" /\ NoWork(w, s) /\ w.cur = w.goto
Asked(w, d, s) ==
    w.busy /\ Still(w) /\ d.do \in {"read", "write", "seek"} /\ Asks(w, s, d.do) /\ d.moved = << >>
Runs(w, mode) == w.busy /\ w.mode = mode /\ w.fifo = << >> /\ ~w.delay
Reading(w, m, img, d, s) ==
    /\ Runs(w, 1) /\ s = "none" /\ d.do = "read" /\ w.rv /\ w.drq /\ ~w.wv /\ m = img
    /\ w.addr = Len(d.moved) + 2 /\ w.addr =< SectorLen + 1 /\ w.data = m[w.addr - 1]
    /\ \A i \in DOMAIN d.moved : d.moved[i] = m[i]
Writing(w, m, d, s) ==
    /\ Runs(w, 2) /\ s = "none" /\ d.do = "write" /\ ~w.rv /\ ~w.wv /\ w.drq
    /\ w.addr = Len(d.moved) + 1 /\ w.addr =< SectorLen
    /\ \A i \in DOMAIN d.moved : d.moved[i] = m[i]
Delaying(w, m, img, d, s) ==
    /\ w.busy /\ w.delay /\ ~w.rv /\ ~w.wv /\ ~w.drq /\ Completed(w, s)
    /\ d.do = "write" /\ d.moved = m /\ (NoWork(w, s) => d.moved = img)
Seeking(w, d, s) == Runs(w, 0) /\ Still(w) /\ s = "seeking" /\ d.do = "seek"

FdcPhase(w, m, img, d, s) ==
    \/ FdcReady(w, m, img, d, s) \/ Asked(w, d, s) \/ Reading(w, m, img, d, s) \/ Writing(w, m, d, s)
    \/ Delaying(w, m, img, d, s) \/ Seeking(w, d, s)

FdcType(w, m, img, d, s) == WdOk(w) /\ m \in FdcBuf /\ img \in FdcBuf /\ DosOk(d) /\ s \in Served

FdcGood(w, m, img, d, s) ==
    /\ FdcType(w, m, img, d, s)
    /\ ~d.forced => ~w.dropped /\ FdcPhase(w, m, img, d, s)

FdcInvariant == FdcGood(wd, ddr, d81, dos, serving)

-----------------------------------------------------------------------------
(* The DMA machine, by what it does with a state w and a buffer m.          *)

WdKept(x, w, F) == DOMAIN x = WdFields /\ \A f \in WdFields \ F : x[f] = w[f]

Rests(r, w, m)  == (w.delay \/ w.mode = 3 \/ (w.mode = 1 /\ w.rv)) /\ r.w = w /\ r.m = m
Idles(r, w, m)  == ~w.delay /\ w.mode = 0 /\ WdKept(r.w, w, {"drq", "wv"}) /\ ~r.w.drq /\ ~r.w.wv /\ r.m = m
Ends(r, w, m)   == ~w.delay /\ w.mode = 1 /\ ~w.rv /\ w.len = 0 /\ WdKept(r.w, w, {"busy", "mode"}) /\ ~r.w.busy /\ r.w.mode = 0 /\ r.m = m
Offers(r, w, m) ==
    /\ ~w.delay /\ w.mode = 1 /\ ~w.rv /\ w.len > 0 /\ WdKept(r.w, w, {"data", "rv", "drq", "len", "addr"}) /\ r.m = m
    /\ r.w.data = m[w.addr] /\ r.w.rv /\ r.w.drq /\ r.w.len = w.len - 1 /\ r.w.addr = w.addr + 1
Wants(r, w, m)  == ~w.delay /\ w.mode = 2 /\ ~w.wv /\ WdKept(r.w, w, {"drq"}) /\ r.w.drq /\ r.m = m
Puts(r, w, m)   ==
    /\ ~w.delay /\ w.mode = 2 /\ w.wv /\ w.len > 1 /\ WdKept(r.w, w, {"drq", "wv", "len", "addr"})
    /\ r.w.drq /\ ~r.w.wv /\ r.w.len = w.len - 1 /\ r.w.addr = w.addr + 1 /\ r.m = [m EXCEPT ![w.addr] = w.data]
Closes(r, w, m) ==
    /\ ~w.delay /\ w.mode = 2 /\ w.wv /\ w.len = 1
    /\ WdKept(r.w, w, {"drq", "wv", "len", "addr", "mode", "delay", "completion", "fifo", "dropped"})
    /\ ~r.w.drq /\ ~r.w.wv /\ r.w.len = 0 /\ r.w.addr = w.addr + 1 /\ r.w.mode = 3 /\ r.w.delay
    /\ r.m = [m EXCEPT ![w.addr] = w.data]
    /\ \/ r.w.fifo = Append(w.fifo, [cmd |-> w.cmd, done |-> TRUE]) /\ r.w.dropped = w.dropped
       \/ ~(Len(w.fifo) < FifoDepth) /\ r.w.fifo = w.fifo

Settling(r, w, m) ==
    Rests(r, w, m) \/ Idles(r, w, m) \/ Ends(r, w, m) \/ Offers(r, w, m) \/ Wants(r, w, m) \/ Puts(r, w, m) \/ Closes(r, w, m)

LEMMA SettleDoes ==
  ASSUME NEW w, WdOk(w), NEW m, m \in FdcBuf
  PROVE  Settling(Fdc!Settle(w, m), w, m)
  <1> DEFINE r == Fdc!Settle(w, m)
  <1>1. DOMAIN w = WdFields /\ w.mode \in {0, 1, 2, 3} /\ w.len \in Nat /\ (w.mode = 2 => w.len > 0) BY DEF WdOk
  <1>2. CASE w.delay BY <1>2 DEF Fdc!Settle, Settling, Rests
  <1>3. CASE ~w.delay /\ w.mode = 3 BY <1>3 DEF Fdc!Settle, Settling, Rests
  <1>4. CASE ~w.delay /\ w.mode = 1 /\ w.rv BY <1>4 DEF Fdc!Settle, Settling, Rests
  <1>5. CASE ~w.delay /\ w.mode = 0
    <2> DEFINE x == [w EXCEPT !.drq = FALSE, !.wv = FALSE]
    <2>1. r = [w |-> x, m |-> m] BY <1>5 DEF Fdc!Settle
    <2>2. WdKept(x, w, {"drq", "wv"}) /\ ~x.drq /\ ~x.wv BY <1>1 DEF WdKept, WdFields
    <2> HIDE DEF x, r
    <2>3. r.w = x /\ r.m = m BY <2>1
    <2>4. Idles(r, w, m) BY <1>5, <2>2, <2>3 DEF Idles
    <2>5. QED BY <2>4 DEF Settling, r
  <1>6. CASE ~w.delay /\ w.mode = 1 /\ ~w.rv /\ w.len = 0
    <2> DEFINE x == [w EXCEPT !.busy = FALSE, !.mode = 0]
    <2>1. r = [w |-> x, m |-> m] BY <1>6 DEF Fdc!Settle
    <2>2. WdKept(x, w, {"busy", "mode"}) /\ ~x.busy /\ x.mode = 0 BY <1>1 DEF WdKept, WdFields
    <2> HIDE DEF x, r
    <2>3. r.w = x /\ r.m = m BY <2>1
    <2>4. Ends(r, w, m) BY <1>6, <2>2, <2>3 DEF Ends
    <2>5. QED BY <2>4 DEF Settling, r
  <1>7. CASE ~w.delay /\ w.mode = 1 /\ ~w.rv /\ w.len > 0
    <2> DEFINE x == [w EXCEPT !.data = m[w.addr], !.rv = TRUE, !.drq = TRUE, !.len = @ - 1, !.addr = @ + 1]
    <2>1. r = [w |-> x, m |-> m] BY <1>1, <1>7 DEF Fdc!Settle
    <2>2. /\ WdKept(x, w, {"data", "rv", "drq", "len", "addr"}) /\ x.data = m[w.addr] /\ x.rv /\ x.drq
          /\ x.len = w.len - 1 /\ x.addr = w.addr + 1
      BY <1>1 DEF WdKept, WdFields
    <2> HIDE DEF x, r
    <2>3. r.w = x /\ r.m = m BY <2>1
    <2>4. Offers(r, w, m) BY <1>7, <2>2, <2>3 DEF Offers
    <2>5. QED BY <2>4 DEF Settling, r
  <1>8. CASE ~w.delay /\ w.mode = 2 /\ ~w.wv
    <2> DEFINE x == [w EXCEPT !.drq = TRUE]
    <2>1. r = [w |-> x, m |-> m] BY <1>8 DEF Fdc!Settle
    <2>2. WdKept(x, w, {"drq"}) /\ x.drq BY <1>1 DEF WdKept, WdFields
    <2> HIDE DEF x, r
    <2>3. r.w = x /\ r.m = m BY <2>1
    <2>4. Wants(r, w, m) BY <1>8, <2>2, <2>3 DEF Wants
    <2>5. QED BY <2>4 DEF Settling, r
  <1>9. CASE ~w.delay /\ w.mode = 2 /\ w.wv /\ w.len > 1
    <2> DEFINE x == [w EXCEPT !.drq = TRUE, !.wv = FALSE, !.len = @ - 1, !.addr = @ + 1]
               n == [m EXCEPT ![w.addr] = w.data]
    <2>1. r = [w |-> x, m |-> n] BY <1>1, <1>9 DEF Fdc!Settle
    <2>2. WdKept(x, w, {"drq", "wv", "len", "addr"}) /\ x.drq /\ ~x.wv /\ x.len = w.len - 1 /\ x.addr = w.addr + 1
      BY <1>1 DEF WdKept, WdFields
    <2> HIDE DEF x, r, n
    <2>3. r.w = x /\ r.m = n BY <2>1
    <2>4. Puts(r, w, m) BY <1>9, <2>2, <2>3 DEF Puts, n
    <2>5. QED BY <2>4 DEF Settling, r
  <1>10. CASE ~w.delay /\ w.mode = 2 /\ w.wv /\ w.len = 1
    <2> DEFINE y == [w EXCEPT !.drq = FALSE, !.wv = FALSE, !.len = 0, !.addr = @ + 1, !.mode = 3, !.delay = TRUE, !.completion = TRUE]
               x == Fdc!Push(y)
               n == [m EXCEPT ![w.addr] = w.data]
               F == {"drq", "wv", "len", "addr", "mode", "delay", "completion"}
    <2>1. r = [w |-> x, m |-> n] BY <1>1, <1>10 DEF Fdc!Settle
    <2>2. /\ WdKept(y, w, F) /\ ~y.drq /\ ~y.wv /\ y.len = 0 /\ y.addr = w.addr + 1 /\ y.mode = 3 /\ y.delay /\ y.completion = TRUE
      BY <1>1 DEF WdKept, WdFields
    <2>3. y.fifo = w.fifo /\ y.cmd = w.cmd /\ y.dropped = w.dropped /\ DOMAIN y = WdFields BY <2>2 DEF WdKept, WdFields
    <2> HIDE DEF y
    <2>4. CASE Len(w.fifo) < FifoDepth
      <3> DEFINE z == [y EXCEPT !.fifo = Append(w.fifo, [cmd |-> w.cmd, done |-> TRUE])]
      <3>1. x = z BY <2>2, <2>3, <2>4 DEF Fdc!Push
      <3>2. WdKept(z, y, {"fifo"}) /\ z.fifo = Append(w.fifo, [cmd |-> w.cmd, done |-> TRUE]) BY <2>3 DEF WdKept, WdFields
      <3> HIDE DEF z, x, r, n
      <3>3. r.w = z /\ r.m = n BY <2>1, <3>1
      <3>4. WdKept(z, w, {"drq", "wv", "len", "addr", "mode", "delay", "completion", "fifo", "dropped"}) BY <2>2, <3>2 DEF WdKept, WdFields
      <3>5. /\ ~z.drq /\ ~z.wv /\ z.len = 0 /\ z.addr = w.addr + 1 /\ z.mode = 3 /\ z.delay /\ z.dropped = w.dropped
        BY <2>2, <2>3, <3>2 DEF WdKept, WdFields
      <3>6. Closes(r, w, m) BY <1>10, <3>2, <3>3, <3>4, <3>5 DEF Closes, n
      <3>7. QED BY <3>6 DEF Settling, r
    <2>5. CASE ~(Len(w.fifo) < FifoDepth)
      <3> DEFINE z == [y EXCEPT !.dropped = TRUE]
      <3>1. x = z BY <2>3, <2>5 DEF Fdc!Push
      <3>2. WdKept(z, y, {"dropped"}) /\ z.fifo = w.fifo BY <2>3 DEF WdKept, WdFields
      <3> HIDE DEF z, x, r, n
      <3>3. r.w = z /\ r.m = n BY <2>1, <3>1
      <3>4. WdKept(z, w, {"drq", "wv", "len", "addr", "mode", "delay", "completion", "fifo", "dropped"}) BY <2>2, <3>2 DEF WdKept, WdFields
      <3>5. ~z.drq /\ ~z.wv /\ z.len = 0 /\ z.addr = w.addr + 1 /\ z.mode = 3 /\ z.delay
        BY <2>2, <2>3, <3>2 DEF WdKept, WdFields
      <3>6. Closes(r, w, m) BY <1>10, <2>5, <3>2, <3>3, <3>4, <3>5 DEF Closes, n
      <3>7. QED BY <3>6 DEF Settling, r
    <2>6. QED BY <2>4, <2>5
  <1>11. w.mode = 2 => w.len > 1 \/ w.len = 1 BY <1>1
  <1>12. QED BY <1>1, <1>2, <1>3, <1>4, <1>5, <1>6, <1>7, <1>8, <1>9, <1>10, <1>11

LEMMA SettleOk ==
  ASSUME NEW w, WdOk(w), NEW m, m \in FdcBuf, NEW r, Settling(r, w, m)
  PROVE  WdOk(r.w) /\ r.m \in FdcBuf
  <1>0. /\ DOMAIN w = WdFields /\ w.data \in Fdc!DiskByte /\ w.fifo \in Seq(FdcEntry) /\ w.cmd \in FdcCommand
        /\ w.mode \in {0, 1, 2, 3} /\ w.addr \in Nat /\ w.len \in Nat /\ w.goto \in Nat /\ w.cur \in Nat
        /\ (w.mode \in {1, 2} => w.addr > 0 /\ w.addr + w.len = SectorLen + 1)
        /\ (w.mode = 2 => w.len > 0)
    BY DEF WdOk
  <1>1. CASE Rests(r, w, m) BY <1>1 DEF Rests
  <1>2. CASE Idles(r, w, m)
    <2>1. r.w.mode = 0 /\ r.m = m BY <1>2 DEF Idles, WdKept, WdFields
    <2>2. QED BY <1>0, <1>2, <2>1 DEF Idles, WdKept, WdFields, WdOk
  <1>3. CASE Ends(r, w, m) BY <1>0, <1>3 DEF Ends, WdKept, WdFields, WdOk
  <1>4. CASE Offers(r, w, m)
    <2>1. w.addr \in 1 .. SectorLen BY <1>0, <1>4, FdcSizes DEF Offers
    <2>2. m[w.addr] \in Fdc!DiskByte BY <2>1 DEF FdcBuf
    <2>0. w.mode = 1 /\ w.len > 0 /\ r.w.len = w.len - 1 /\ r.w.addr = w.addr + 1 BY <1>0, <1>4, FdcSizes DEF Offers
    <2>3. r.w.len \in Nat /\ r.w.addr \in Nat /\ r.w.addr > 0 /\ r.w.addr + r.w.len = SectorLen + 1
      <3>1. w.addr \in Nat /\ w.len \in Nat /\ w.addr + w.len = SectorLen + 1 BY <1>0, <2>0
      <3>2. QED BY <2>0, <3>1, FdcSizes
    <2>4. /\ DOMAIN r.w = WdFields /\ r.w.data = m[w.addr] /\ r.w.fifo = w.fifo /\ r.w.cmd = w.cmd /\ r.w.mode = w.mode
          /\ r.w.goto = w.goto /\ r.w.cur = w.cur /\ r.m = m
      BY <1>0, <1>4 DEF Offers, WdKept, WdFields
    <2>5. w.mode = 1 BY <1>4 DEF Offers
    <2>6. QED BY <1>0, <2>2, <2>3, <2>4, <2>5 DEF WdOk
  <1>5. CASE Wants(r, w, m) BY <1>0, <1>5 DEF Wants, WdKept, WdFields, WdOk
  <1>6. CASE Puts(r, w, m)
    <2>0. w.mode = 2 /\ w.len > 1 /\ r.w.len = w.len - 1 /\ r.w.addr = w.addr + 1 BY <1>6 DEF Puts
    <2>1. r.w.len \in Nat /\ r.w.len > 0 /\ r.w.addr \in Nat /\ r.w.addr > 0 /\ r.w.addr + r.w.len = SectorLen + 1
      <3>1. w.addr \in Nat /\ w.len \in Nat /\ w.addr + w.len = SectorLen + 1 BY <1>0, <2>0
      <3>2. QED BY <2>0, <3>1, FdcSizes
    <2>2. r.m \in FdcBuf BY <1>0, <1>6 DEF Puts, FdcBuf
    <2>3. WdKept(r.w, w, {"drq", "wv", "len", "addr"}) BY <1>6 DEF Puts
    <2>4. /\ DOMAIN r.w = WdFields /\ r.w.data = w.data /\ r.w.fifo = w.fifo /\ r.w.cmd = w.cmd /\ r.w.mode = w.mode
          /\ r.w.goto = w.goto /\ r.w.cur = w.cur
      BY <1>0, <2>3 DEF WdKept, WdFields
    <2>5. QED BY <1>0, <2>1, <2>2, <2>4 DEF WdOk
  <1>7. CASE Closes(r, w, m)
    <2>1. r.w.fifo \in Seq(FdcEntry)
      <3>1. [cmd |-> w.cmd, done |-> TRUE] \in FdcEntry BY <1>0 DEF FdcEntry
      <3> DEFINE e == [cmd |-> w.cmd, done |-> TRUE]
      <3> HIDE DEF e
      <3>2. Append(w.fifo, e) \in Seq(FdcEntry) BY <1>0, <3>1 DEF e
      <3>3. QED BY <1>0, <1>7, <3>2 DEF Closes, e
    <2>2. r.m \in FdcBuf BY <1>0, <1>7 DEF Closes, FdcBuf
    <2>3. r.w.len = 0 /\ r.w.addr = w.addr + 1 /\ r.w.mode = 3 BY <1>7 DEF Closes
    <2>4. WdKept(r.w, w, {"drq", "wv", "len", "addr", "mode", "delay", "completion", "fifo", "dropped"}) BY <1>7 DEF Closes
    <2>5. QED BY <1>0, <2>1, <2>2, <2>3, <2>4 DEF WdKept, WdFields, WdOk
  <1>8. QED BY <1>1, <1>2, <1>3, <1>4, <1>5, <1>6, <1>7 DEF Settling

-----------------------------------------------------------------------------
(* The steps.                                                               *)

(* What the CPU's store of a command leaves for the DMA machine. *)
StoreShape(x, w, b) ==
    /\ WdKept(x, w, {"cmd", "busy", "completion", "fifo", "dropped", "wv"}) /\ x.busy /\ ~x.wv /\ x.cmd = b
    /\ \/ Len(w.fifo) < FifoDepth /\ x.fifo = Append(w.fifo, [cmd |-> b, done |-> FALSE]) /\ x.dropped = w.dropped
       \/ ~(Len(w.fifo) < FifoDepth) /\ x.fifo = w.fifo

LEMMA StoredDoes ==
  ASSUME NEW w, DOMAIN w = WdFields, NEW b \in {"read", "write", "seek", "force"}, b = "force" \/ ~w.busy
  PROVE  StoreShape(Fdc!Stored(w, b), w, b)
  <1> DEFINE e == [cmd |-> b, done |-> FALSE]
             y == [w EXCEPT !.cmd = b, !.busy = TRUE, !.completion = FALSE]
             p == Fdc!Push(y)
             x == [p EXCEPT !.wv = FALSE]
  <1>1. Fdc!Stored(w, b) = x BY DEF Fdc!Stored
  <1>2. WdKept(y, w, {"cmd", "busy", "completion"}) /\ y.cmd = b /\ y.busy /\ y.completion = FALSE BY DEF WdKept, WdFields
  <1>3. y.fifo = w.fifo /\ y.dropped = w.dropped /\ DOMAIN y = WdFields BY <1>2 DEF WdKept, WdFields
  <1> HIDE DEF y
  <1>4. CASE Len(w.fifo) < FifoDepth
    <2> DEFINE z == [y EXCEPT !.fifo = Append(w.fifo, e)]
    <2>1. p = z BY <1>2, <1>3, <1>4 DEF Fdc!Push
    <2>2. WdKept(z, y, {"fifo"}) /\ z.fifo = Append(w.fifo, e) BY <1>3 DEF WdKept, WdFields
    <2> HIDE DEF z, p, e
    <2>3. WdKept(x, z, {"wv"}) /\ ~x.wv BY <2>1, <2>2 DEF WdKept, WdFields
    <2> HIDE DEF x
    <2>4. WdKept(x, w, {"cmd", "busy", "completion", "fifo", "dropped", "wv"}) BY <1>2, <2>2, <2>3 DEF WdKept, WdFields
    <2>5. x.busy /\ x.cmd = b /\ x.fifo = Append(w.fifo, e) /\ x.dropped = w.dropped
      BY <1>2, <1>3, <2>2, <2>3 DEF WdKept, WdFields
    <2>6. QED BY <1>1, <1>4, <2>3, <2>4, <2>5 DEF StoreShape, e
  <1>5. CASE ~(Len(w.fifo) < FifoDepth)
    <2> DEFINE z == [y EXCEPT !.dropped = TRUE]
    <2>1. p = z BY <1>3, <1>5 DEF Fdc!Push
    <2>2. WdKept(z, y, {"dropped"}) BY <1>3 DEF WdKept, WdFields
    <2> HIDE DEF z, p
    <2>3. WdKept(x, z, {"wv"}) /\ ~x.wv BY <2>1, <2>2 DEF WdKept, WdFields
    <2> HIDE DEF x
    <2>4. WdKept(x, w, {"cmd", "busy", "completion", "fifo", "dropped", "wv"}) BY <1>2, <2>2, <2>3 DEF WdKept, WdFields
    <2>5. x.busy /\ x.cmd = b /\ x.fifo = w.fifo
      BY <1>2, <1>3, <2>2, <2>3 DEF WdKept, WdFields
    <2>6. QED BY <1>1, <1>5, <2>3, <2>4, <2>5 DEF StoreShape
  <1>6. QED BY <1>4, <1>5

LEMMA StoreOk ==
  ASSUME NEW w, WdOk(w), NEW b \in {"read", "write", "seek", "force"}, NEW x, StoreShape(x, w, b)
  PROVE  WdOk(x)
  <1> DEFINE e == [cmd |-> b, done |-> FALSE]
  <1>1. e \in FdcEntry BY DEF FdcEntry, FdcCommand
  <1> HIDE DEF e
  <1>2. Append(w.fifo, e) \in Seq(FdcEntry) BY <1>1 DEF WdOk
  <1>3. x.fifo \in Seq(FdcEntry) BY <1>2 DEF StoreShape, WdOk, e
  <1>4. b \in FdcCommand BY DEF FdcCommand
  <1>5. /\ x.data = w.data /\ x.mode = w.mode /\ x.addr = w.addr /\ x.len = w.len /\ x.goto = w.goto /\ x.cur = w.cur
        /\ DOMAIN x = WdFields /\ x.cmd = b
    BY DEF StoreShape, WdKept, WdFields
  <1>6. QED BY <1>3, <1>4, <1>5 DEF WdOk

(* Settled: the outcome, and its type. *)
LEMMA SettledDoes ==
  ASSUME NEW w, WdOk(w), NEW m, m \in FdcBuf, Fdc!Settled(Fdc!Settle(w, m))
  PROVE  WdOk(wd') /\ ddr' \in FdcBuf /\ Settling([w |-> wd', m |-> ddr'], w, m)
  <1> DEFINE r == Fdc!Settle(w, m)
             q == [w |-> wd', m |-> ddr']
  <1>1. wd' = r.w /\ ddr' = r.m BY DEF Fdc!Settled
  <1>2. Settling(r, w, m) BY SettleDoes
  <1> HIDE DEF r
  <1>3. q.w = r.w /\ q.m = r.m BY <1>1
  <1> HIDE DEF q
  <1>4. Settling(q, w, m)
    BY <1>2, <1>3 DEF Settling, Rests, Idles, Ends, Offers, Wants, Puts, Closes
  <1>5. WdOk(r.w) /\ r.m \in FdcBuf BY <1>2, SettleOk
  <1>6. QED BY <1>1, <1>4, <1>5 DEF q

LEMMA FdcCommandOk ==
  ASSUME FdcInvariant, NEW b \in {"read", "write", "seek"}, Fdc!CpuCommand(b)
  PROVE  FdcInvariant'
  <1> DEFINE q == Fdc!Quiet
             dr == wd.dropped /\ ~q
             y == [wd EXCEPT !.dropped = dr]
             x == Fdc!Stored(y, b)
             fo == dos.forced /\ ~q
  <1>1. WdOk(wd) /\ ddr \in FdcBuf /\ d81 \in FdcBuf /\ DosOk(dos) /\ serving \in Served BY DEF FdcInvariant, FdcGood, FdcType
  <1>2. /\ ~wd.busy /\ Fdc!Settled(Fdc!Settle(x, ddr))
        /\ dos' = [dos EXCEPT !.do = b, !.moved = << >>, !.forced = fo] /\ d81' = d81 /\ serving' = serving
    BY DEF Fdc!CpuCommand
  <1> HIDE DEF q, dr, fo
  <1>3. WdKept(y, wd, {"dropped"}) /\ y.dropped = dr BY <1>1 DEF WdOk, WdKept, WdFields
  <1> HIDE DEF y
  <1>4. /\ y.busy = wd.busy /\ y.mode = wd.mode /\ y.fifo = wd.fifo /\ y.delay = wd.delay /\ y.rv = wd.rv /\ y.wv = wd.wv
        /\ y.drq = wd.drq /\ DOMAIN y = WdFields
    BY <1>3 DEF WdKept, WdFields
  <1>5. WdOk(y) BY <1>1, <1>3 DEF WdOk, WdKept, WdFields
  <1>6. StoreShape(x, y, b) BY <1>2, <1>4, StoredDoes
  <1> HIDE DEF x
  <1>7. WdOk(x) BY <1>5, <1>6, StoreOk
  <1>8. WdOk(wd') /\ ddr' \in FdcBuf /\ Settling([w |-> wd', m |-> ddr'], x, ddr) BY <1>1, <1>2, <1>7, SettledDoes
  <1>9. dos'.do = b /\ dos'.moved = << >> /\ dos'.forced = fo /\ DosOk(dos') BY <1>1, <1>2 DEF DosOk, DosFields
  <1>10. FdcType(wd', ddr', d81', dos', serving') BY <1>1, <1>2, <1>8, <1>9 DEF FdcType
  <1>11. ASSUME ~dos'.forced PROVE ~wd'.dropped /\ FdcPhase(wd', ddr', d81', dos', serving')
    <2>1. ~dos.forced \/ q BY <1>9, <1>11 DEF fo
    <2>2. /\ ~dr /\ ~wd.delay /\ ~wd.rv /\ (NoWork(wd, serving) \/ (OwesDone(wd, serving) /\ ~wd.drq))
      <3>1. CASE q BY <3>1 DEF q, dr, Fdc!Quiet, NoWork
      <3>2. CASE ~dos.forced
        <4>1. FdcReady(wd, ddr, d81, dos, serving) /\ ~wd.dropped
          BY <1>2, <3>2 DEF FdcInvariant, FdcGood, FdcPhase, Asked, Reading, Writing, Delaying, Seeking, Runs
        <4>2. QED BY <4>1 DEF FdcReady, Still, Completed, dr
      <3>3. QED BY <2>1, <3>1, <3>2
    <2>3. /\ x.busy /\ ~x.wv /\ x.mode = wd.mode /\ ~x.delay /\ ~x.rv /\ x.drq = wd.drq
      BY <1>4, <1>6, <2>2 DEF StoreShape, WdKept, WdFields
    <2> DEFINE e == [cmd |-> b, done |-> FALSE]
    <2>4. Tag(b, e) BY DEF Tag
    <2>5. Len(wd.fifo) < FifoDepth
      <3>1. wd.fifo = << >> \/ Len(wd.fifo) = 1 BY <2>2 DEF NoWork, OwesDone
      <3>2. Len(wd.fifo) = 0 \/ Len(wd.fifo) = 1 BY <3>1
      <3>3. QED BY <3>2, FdcSizes
    <2> HIDE DEF e
    <2>6. x.fifo = Append(wd.fifo, e) /\ ~x.dropped BY <1>3, <1>4, <1>6, <2>2, <2>5 DEF StoreShape, e
    <2>7. wd.fifo \in Seq(FdcEntry) BY <1>1 DEF WdOk
    <2>8. CASE NoWork(wd, serving)
      <3>1. x.mode = 0 BY <2>3, <2>8 DEF NoWork
      <3>2. Idles([w |-> wd', m |-> ddr'], x, ddr)
        BY <1>8, <2>3, <3>1 DEF Settling, Rests, Ends, Offers, Wants, Puts, Closes
      <3>3. /\ wd'.busy /\ ~wd'.delay /\ ~wd'.rv /\ ~wd'.wv /\ ~wd'.drq /\ wd'.mode = 0 /\ wd'.fifo = x.fifo /\ ~wd'.dropped
        BY <2>3, <2>6, <3>1, <3>2 DEF Idles, WdKept, WdFields
      <3>4. Len(wd'.fifo) = 1 /\ wd'.fifo[1] = e BY <2>6, <2>8, <3>3 DEF NoWork
      <3>5. Asks(wd', serving', b) BY <1>2, <2>4, <2>8, <3>3, <3>4 DEF Asks, NoWork
      <3>6. QED BY <1>9, <3>3, <3>5 DEF FdcPhase, Asked, Still
    <2>9. CASE OwesDone(wd, serving) /\ ~wd.drq
      <3>1. x.mode = 3 BY <2>3, <2>9 DEF OwesDone
      <3>2. wd' = x BY <1>8, <3>1 DEF Settling, Rests, Idles, Ends, Offers, Wants, Puts, Closes
      <3>3. CASE serving = "done" /\ wd.fifo = << >>
        <4>1. Len(x.fifo) = 1 /\ x.fifo[1] = e BY <2>6, <3>3
        <4>2. Asks(wd', serving', b) BY <1>2, <2>4, <3>1, <3>2, <3>3, <4>1 DEF Asks
        <4>3. QED BY <1>9, <2>3, <2>6, <2>9, <3>2, <4>2 DEF FdcPhase, Asked, Still
      <3>4. CASE serving = "none" /\ Len(wd.fifo) = 1 /\ wd.fifo[1].done
        <4>1. Len(x.fifo) = 2 /\ x.fifo[1] = wd.fifo[1] /\ x.fifo[2] = e BY <2>6, <2>7, <3>4
        <4>2. Asks(wd', serving', b) BY <1>2, <2>4, <3>1, <3>2, <3>4, <4>1 DEF Asks
        <4>3. QED BY <1>9, <2>3, <2>6, <2>9, <3>2, <4>2 DEF FdcPhase, Asked, Still
      <3>5. QED BY <2>9, <3>3, <3>4 DEF OwesDone
    <2>10. QED BY <2>2, <2>8, <2>9
  <1>12. QED BY <1>10, <1>11 DEF FdcInvariant, FdcGood

LEMMA FdcForceOk == ASSUME FdcInvariant, Fdc!CpuForce PROVE FdcInvariant'
  <1> DEFINE x == Fdc!Stored(wd, "force")
  <1>1. WdOk(wd) /\ ddr \in FdcBuf /\ d81 \in FdcBuf /\ DosOk(dos) /\ serving \in Served BY DEF FdcInvariant, FdcGood, FdcType
  <1>2. /\ Fdc!Settled(Fdc!Settle(x, ddr)) /\ dos' = [dos EXCEPT !.do = "force", !.forced = TRUE, !.count = @ + 1]
        /\ d81' = d81 /\ serving' = serving
    BY DEF Fdc!CpuForce
  <1>3. StoreShape(x, wd, "force") BY <1>1, StoredDoes DEF WdOk
  <1> HIDE DEF x
  <1>4. WdOk(x) BY <1>1, <1>3, StoreOk
  <1>5. WdOk(wd') /\ ddr' \in FdcBuf BY <1>1, <1>2, <1>4, SettledDoes
  <1>6. DosOk(dos') /\ dos'.forced BY <1>1, <1>2 DEF DosOk, DosFields
  <1>7. QED BY <1>1, <1>2, <1>5, <1>6 DEF FdcInvariant, FdcGood, FdcType

LEMMA TakenOk ==
  ASSUME NEW w, WdOk(w)
  PROVE  WdOk(Fdc!Taken(w)) /\ WdKept(Fdc!Taken(w), w, {"drq", "rv"}) /\ ~Fdc!Taken(w).rv /\ (w.rv => ~Fdc!Taken(w).drq)
  <1> DEFINE a == w.drq /\ ~w.rv
             x == [w EXCEPT !.drq = a, !.rv = FALSE]
  <1>1. Fdc!Taken(w) = x BY DEF Fdc!Taken
  <1>2. w.rv => ~a OBVIOUS
  <1> HIDE DEF a
  <1>3. WdKept(x, w, {"drq", "rv"}) /\ ~x.rv /\ x.drq = a BY DEF WdOk, WdKept, WdFields
  <1> HIDE DEF x
  <1>4. WdOk(x) BY <1>3 DEF WdOk, WdKept, WdFields
  <1>5. QED BY <1>1, <1>2, <1>3, <1>4

(* One byte more: what was moved is the buffer so far. *)
LEMMA OneMore ==
  ASSUME NEW s \in Seq(Fdc!DiskByte), NEW b \in Fdc!DiskByte, NEW m \in FdcBuf, Len(s) + 1 =< SectorLen, b = m[Len(s) + 1],
         \A i \in DOMAIN s : s[i] = m[i]
  PROVE  LET t == Append(s, b)
         IN  /\ t \in Seq(Fdc!DiskByte) /\ Len(t) = Len(s) + 1 /\ \A i \in DOMAIN t : t[i] = m[i]
             /\ Len(t) = SectorLen => t = m
  <1> DEFINE t == Append(s, b)
  <1>1. t \in Seq(Fdc!DiskByte) /\ Len(t) = Len(s) + 1 OBVIOUS
  <1>2. \A i \in 1 .. Len(s) + 1 : t[i] = m[i]
    <2> SUFFICES ASSUME NEW i \in 1 .. Len(s) + 1 PROVE t[i] = m[i] OBVIOUS
    <2>1. CASE i = Len(s) + 1 BY <2>1
    <2>2. CASE i # Len(s) + 1
      <3>1. i \in DOMAIN s /\ i \in 1 .. Len(s) BY <2>2
      <3>2. QED BY <3>1
    <2>3. QED BY <2>1, <2>2
  <1> HIDE DEF t
  <1>3. DOMAIN t = 1 .. Len(s) + 1 BY <1>1
  <1>4. ASSUME Len(t) = SectorLen PROVE t = m
    <2>1. DOMAIN t = 1 .. SectorLen /\ t \in [1 .. SectorLen -> Fdc!DiskByte] BY <1>1, <1>4
    <2>2. m \in [1 .. SectorLen -> Fdc!DiskByte] BY DEF FdcBuf
    <2>3. \A i \in 1 .. SectorLen : t[i] = m[i] BY <1>1, <1>2, <1>4
    <2>4. t = [i \in 1 .. SectorLen |-> t[i]] /\ m = [i \in 1 .. SectorLen |-> m[i]] BY <2>1, <2>2
    <2>5. QED BY <2>3, <2>4, Zenon
  <1>5. QED BY <1>1, <1>2, <1>3, <1>4 DEF t

LEMMA FdcTakeOk == ASSUME FdcInvariant, Fdc!CpuTake PROVE FdcInvariant'
  <1> DEFINE x == Fdc!Taken(wd)
             v == Append(dos.moved, wd.data)
  <1>1. WdOk(wd) /\ ddr \in FdcBuf /\ d81 \in FdcBuf /\ DosOk(dos) /\ serving \in Served BY DEF FdcInvariant, FdcGood, FdcType
  <1>2. /\ dos.do = "read" /\ wd.busy /\ wd.drq /\ Fdc!Settled(Fdc!Settle(x, ddr)) /\ dos' = [dos EXCEPT !.moved = v]
        /\ d81' = d81 /\ serving' = serving
    BY DEF Fdc!CpuTake
  <1>3. WdOk(x) /\ WdKept(x, wd, {"drq", "rv"}) /\ ~x.rv /\ (wd.rv => ~x.drq) BY <1>1, TakenOk
  <1> HIDE DEF x
  <1>4. WdOk(wd') /\ ddr' \in FdcBuf /\ Settling([w |-> wd', m |-> ddr'], x, ddr) BY <1>1, <1>2, <1>3, SettledDoes
  <1>5. v \in Seq(Fdc!DiskByte) BY <1>1 DEF WdOk, DosOk
  <1> HIDE DEF v
  <1>6. dos'.do = dos.do /\ dos'.moved = v /\ (dos'.forced <=> dos.forced) /\ DosOk(dos') BY <1>1, <1>2, <1>5 DEF DosOk, DosFields
  <1>7. FdcType(wd', ddr', d81', dos', serving') BY <1>1, <1>2, <1>4, <1>6 DEF FdcType
  <1>8. ASSUME ~dos'.forced PROVE ~wd'.dropped /\ FdcPhase(wd', ddr', d81', dos', serving')
    <2>1. Reading(wd, ddr, d81, dos, serving) /\ ~wd.dropped
      BY <1>2, <1>6, <1>8 DEF FdcInvariant, FdcGood, FdcPhase, FdcReady, Asked, Still, Writing, Delaying, Seeking
    <2>2. /\ wd.mode = 1 /\ wd.fifo = << >> /\ ~wd.delay /\ serving = "none" /\ ~wd.wv /\ ddr = d81
          /\ wd.addr = Len(dos.moved) + 2 /\ wd.addr =< SectorLen + 1 /\ wd.data = ddr[wd.addr - 1] /\ wd.rv
          /\ \A i \in DOMAIN dos.moved : dos.moved[i] = ddr[i]
      BY <2>1 DEF Reading, Runs
    <2>3. /\ x.busy /\ x.mode = 1 /\ x.fifo = << >> /\ ~x.delay /\ ~x.wv /\ ~x.drq /\ ~x.rv /\ ~x.dropped
          /\ x.addr = wd.addr /\ x.len = wd.len
      BY <1>2, <1>3, <2>1, <2>2 DEF WdKept, WdFields
    <2>4. wd.addr + wd.len = SectorLen + 1 /\ wd.len \in Nat /\ wd.addr \in Nat BY <1>1, <2>2 DEF WdOk
    <2>5. Len(dos.moved) \in Nat /\ wd.addr - 1 = Len(dos.moved) + 1 /\ Len(dos.moved) + 1 =< SectorLen
      BY <1>1, <2>2, <2>4, FdcSizes DEF DosOk
    <2>6. /\ Len(v) = Len(dos.moved) + 1 /\ (\A i \in DOMAIN v : v[i] = ddr[i]) /\ (Len(v) = SectorLen => v = ddr)
      BY <1>1, <2>2, <2>5, OneMore DEF DosOk, WdOk, v
    <2>7. CASE x.len = 0
      <3>1. Ends([w |-> wd', m |-> ddr'], x, ddr)
        BY <1>4, <2>3, <2>7 DEF Settling, Rests, Idles, Offers, Wants, Puts, Closes
      <3>2. ddr' = ddr BY <3>1 DEF Ends
      <3>3. /\ ~wd'.busy /\ wd'.mode = 0 /\ wd'.fifo = << >> /\ ~wd'.delay /\ ~wd'.wv /\ ~wd'.drq /\ ~wd'.rv /\ ~wd'.dropped
        BY <2>3, <3>1 DEF Ends, WdKept, WdFields
      <3>4. v = d81 BY <2>2, <2>3, <2>4, <2>5, <2>6, <2>7, FdcSizes
      <3>5. NoWork(wd', serving') BY <1>2, <2>2, <3>3 DEF NoWork
      <3>6. FdcReady(wd', ddr', d81', dos', serving')
        BY <1>2, <1>6, <3>3, <3>4, <3>5 DEF FdcReady, Still, Completed
      <3>7. QED BY <3>3, <3>6 DEF FdcPhase
    <2>8. CASE x.len > 0
      <3>1. Offers([w |-> wd', m |-> ddr'], x, ddr)
        BY <1>4, <2>3, <2>8 DEF Settling, Rests, Idles, Ends, Wants, Puts, Closes
      <3>2. ddr' = ddr /\ wd'.data = ddr[x.addr] /\ wd'.rv /\ wd'.drq /\ wd'.addr = x.addr + 1 BY <3>1 DEF Offers
      <3>3. wd'.busy /\ wd'.mode = 1 /\ wd'.fifo = << >> /\ ~wd'.delay /\ ~wd'.wv /\ ~wd'.dropped
        BY <2>3, <3>1 DEF Offers, WdKept, WdFields
      <3>4. wd'.addr = Len(v) + 2 /\ wd'.addr =< SectorLen + 1 /\ wd'.addr - 1 = x.addr
        BY <2>2, <2>3, <2>4, <2>5, <2>6, <2>8, <3>2, FdcSizes
      <3>5. Reading(wd', ddr', d81', dos', serving')
        BY <1>2, <1>6, <2>2, <2>6, <3>2, <3>3, <3>4 DEF Reading, Runs
      <3>6. QED BY <3>3, <3>5 DEF FdcPhase
    <2>9. QED BY <2>3, <2>4, <2>7, <2>8
  <1>9. QED BY <1>7, <1>8 DEF FdcInvariant, FdcGood

LEMMA FdcGiveOk == ASSUME FdcInvariant, NEW b \in Fdc!DiskByte, Fdc!CpuGive(b) PROVE FdcInvariant'
  <1> DEFINE x == [wd EXCEPT !.data = b, !.wv = TRUE]
             v == Append(dos.moved, b)
  <1>1. WdOk(wd) /\ ddr \in FdcBuf /\ d81 \in FdcBuf /\ DosOk(dos) /\ serving \in Served BY DEF FdcInvariant, FdcGood, FdcType
  <1>2. /\ dos.do = "write" /\ wd.busy /\ wd.drq /\ Fdc!Settled(Fdc!Settle(x, ddr)) /\ dos' = [dos EXCEPT !.moved = v]
        /\ d81' = d81 /\ serving' = serving
    BY DEF Fdc!CpuGive
  <1>3. WdKept(x, wd, {"data", "wv"}) /\ x.data = b /\ x.wv BY <1>1 DEF WdOk, WdKept, WdFields
  <1> HIDE DEF x
  <1>10. WdOk(x) BY <1>1, <1>3 DEF WdOk, WdKept, WdFields
  <1>4. WdOk(wd') /\ ddr' \in FdcBuf /\ Settling([w |-> wd', m |-> ddr'], x, ddr) BY <1>1, <1>2, <1>10, SettledDoes
  <1>5. v \in Seq(Fdc!DiskByte) BY <1>1 DEF DosOk
  <1> HIDE DEF v
  <1>6. dos'.do = dos.do /\ dos'.moved = v /\ (dos'.forced <=> dos.forced) /\ DosOk(dos') BY <1>1, <1>2, <1>5 DEF DosOk, DosFields
  <1>7. FdcType(wd', ddr', d81', dos', serving') BY <1>1, <1>2, <1>4, <1>6 DEF FdcType
  <1>8. ASSUME ~dos'.forced PROVE ~wd'.dropped /\ FdcPhase(wd', ddr', d81', dos', serving')
    <2>1. Writing(wd, ddr, dos, serving) /\ ~wd.dropped
      BY <1>2, <1>6, <1>8 DEF FdcInvariant, FdcGood, FdcPhase, FdcReady, Asked, Still, Reading, Delaying, Seeking
    <2>2. /\ wd.mode = 2 /\ wd.fifo = << >> /\ ~wd.delay /\ serving = "none" /\ ~wd.rv
          /\ wd.addr = Len(dos.moved) + 1 /\ wd.addr =< SectorLen
          /\ \A i \in DOMAIN dos.moved : dos.moved[i] = ddr[i]
      BY <2>1 DEF Writing, Runs
    <2>3. /\ x.busy /\ x.mode = 2 /\ x.fifo = << >> /\ ~x.delay /\ x.wv /\ ~x.rv /\ ~x.dropped
          /\ x.addr = wd.addr /\ x.len = wd.len /\ x.data = b
      BY <1>2, <1>3, <2>1, <2>2 DEF WdKept, WdFields
    <2>4. wd.addr + wd.len = SectorLen + 1 /\ wd.len \in Nat /\ wd.len > 0 /\ wd.addr \in Nat BY <1>1, <2>2 DEF WdOk
    <2> DEFINE n == [ddr EXCEPT ![x.addr] = b]
    <2>5. Len(dos.moved) \in Nat /\ wd.addr = Len(dos.moved) + 1 /\ Len(dos.moved) + 1 =< SectorLen /\ wd.addr \in 1 .. SectorLen
      BY <1>1, <2>2, <2>4, FdcSizes DEF DosOk
    <2>6. n \in FdcBuf /\ n[x.addr] = b /\ \A i \in 1 .. SectorLen : i # x.addr => n[i] = ddr[i]
      BY <1>1, <2>3, <2>5 DEF FdcBuf
    <2> HIDE DEF n
    <2>7. \A i \in DOMAIN dos.moved : dos.moved[i] = n[i]
      <3> SUFFICES ASSUME NEW i \in DOMAIN dos.moved PROVE dos.moved[i] = n[i] OBVIOUS
      <3>1. DOMAIN dos.moved = 1 .. Len(dos.moved) BY <1>1 DEF DosOk
      <3>2. i \in 1 .. SectorLen /\ i # x.addr BY <2>3, <2>5, <3>1, FdcSizes
      <3>3. QED BY <2>2, <2>6, <3>2
    <2>8. /\ Len(v) = Len(dos.moved) + 1 /\ (\A i \in DOMAIN v : v[i] = n[i]) /\ (Len(v) = SectorLen => v = n)
      <3>1. dos.moved \in Seq(Fdc!DiskByte) /\ b = n[Len(dos.moved) + 1] BY <1>1, <2>3, <2>5, <2>6 DEF DosOk
      <3>2. QED BY <2>5, <2>6, <2>7, <3>1, OneMore DEF v
    <2>9. CASE x.len > 1
      <3>1. Puts([w |-> wd', m |-> ddr'], x, ddr)
        BY <1>4, <2>3, <2>9 DEF Settling, Rests, Idles, Ends, Offers, Wants, Closes
      <3>2. ddr' = n /\ wd'.drq /\ ~wd'.wv /\ wd'.addr = x.addr + 1 BY <2>3, <3>1 DEF Puts, n
      <3>3. wd'.busy /\ wd'.mode = 2 /\ wd'.fifo = << >> /\ ~wd'.delay /\ ~wd'.rv /\ ~wd'.dropped
        BY <2>3, <3>1 DEF Puts, WdKept, WdFields
      <3>4. wd'.addr = Len(v) + 1 /\ wd'.addr =< SectorLen BY <2>2, <2>3, <2>4, <2>5, <2>8, <2>9, <3>2, FdcSizes
      <3>5. Writing(wd', ddr', dos', serving')
        BY <1>2, <1>6, <2>2, <2>8, <3>2, <3>3, <3>4 DEF Writing, Runs
      <3>6. QED BY <3>3, <3>5 DEF FdcPhase
    <2>10. CASE x.len = 1
      <3>1. Closes([w |-> wd', m |-> ddr'], x, ddr)
        BY <1>4, <2>3, <2>10 DEF Settling, Rests, Idles, Ends, Offers, Wants, Puts
      <3>2. ddr' = n /\ ~wd'.drq /\ ~wd'.wv /\ wd'.mode = 3 /\ wd'.delay BY <2>3, <3>1 DEF Closes, n
      <3> DEFINE e == [cmd |-> x.cmd, done |-> TRUE]
      <3>3. e.done OBVIOUS
      <3> HIDE DEF e
      <3>4. Len(x.fifo) = 0 BY <2>3
      <3>5. wd'.fifo = Append(x.fifo, e) /\ ~wd'.dropped BY <2>3, <3>1, <3>4, FdcSizes DEF Closes, e
      <3>6. Len(wd'.fifo) = 1 /\ wd'.fifo[1] = e BY <2>3, <3>5
      <3>7. wd'.busy /\ ~wd'.rv BY <2>3, <3>1 DEF Closes, WdKept, WdFields
      <3>8. OwesDone(wd', serving') /\ ~NoWork(wd', serving') BY <1>2, <2>2, <3>2, <3>3, <3>6 DEF OwesDone, NoWork
      <3>9. v = ddr' BY <2>2, <2>3, <2>4, <2>5, <2>8, <2>10, <3>2, FdcSizes
      <3>10. Delaying(wd', ddr', d81', dos', serving')
        BY <1>2, <1>6, <3>2, <3>7, <3>8, <3>9 DEF Delaying, Completed
      <3>11. QED BY <3>5, <3>10 DEF FdcPhase
    <2>11. QED BY <2>3, <2>4, <2>9, <2>10
  <1>9. QED BY <1>7, <1>8 DEF FdcInvariant, FdcGood

LEMMA FdcDoneOk == ASSUME FdcInvariant, Fdc!CpuDone PROVE FdcInvariant'
  <1>1. WdOk(wd) /\ ddr \in FdcBuf /\ d81 \in FdcBuf /\ DosOk(dos) /\ serving \in Served BY DEF FdcInvariant, FdcGood, FdcType
  <1>2. ~wd.busy /\ dos' = [dos EXCEPT !.do = "none"] /\ d81' = d81 /\ serving' = serving BY DEF Fdc!CpuDone
  <1>3. dos'.do = "none" /\ (dos'.forced <=> dos.forced) /\ DosOk(dos') BY <1>1, <1>2 DEF DosOk, DosFields
  <1>4. CASE dos.do = "force"
    <2>1. Fdc!Settled(Fdc!Settle(Fdc!Taken(wd), ddr)) BY <1>4 DEF Fdc!CpuDone
    <2>2. WdOk(wd') /\ ddr' \in FdcBuf BY <1>1, <2>1, TakenOk, SettledDoes
    <2>3. dos.forced
      BY <1>2, <1>4 DEF FdcInvariant, FdcGood, FdcPhase, FdcReady, Asked, Reading, Writing, Delaying, Seeking
    <2>4. QED BY <1>1, <1>2, <1>3, <2>2, <2>3 DEF FdcInvariant, FdcGood, FdcType
  <1>5. CASE dos.do # "force"
    <2>1. wd' = wd /\ ddr' = ddr BY <1>5 DEF Fdc!CpuDone, Fdc!Settled
    <2>2. ASSUME ~dos.forced PROVE FdcReady(wd, ddr, d81, dos', serving) /\ ~wd.dropped
      BY <1>2, <1>3, <2>2 DEF FdcInvariant, FdcGood, FdcPhase, FdcReady, Asked, Reading, Writing, Delaying, Seeking, Runs
    <2>3. QED BY <1>1, <1>2, <1>3, <2>1, <2>2 DEF FdcInvariant, FdcGood, FdcType, FdcPhase
  <1>6. QED BY <1>4, <1>5

LEMMA FwTakeOk == ASSUME FdcInvariant, Fdc!FwTake PROVE FdcInvariant'
  <1> DEFINE f == Tail(wd.fifo)
             h == Head(wd.fifo)
             x == [wd EXCEPT !.fifo = f]
  <1>1. WdOk(wd) /\ ddr \in FdcBuf /\ d81 \in FdcBuf /\ DosOk(dos) /\ serving \in Served BY DEF FdcInvariant, FdcGood, FdcType
  <1>2. /\ serving = "none" /\ wd.fifo # << >> /\ serving' = (IF h.done THEN "done" ELSE h.cmd)
        /\ Fdc!Settled(Fdc!Settle(x, ddr)) /\ d81' = d81 /\ dos' = dos
    BY DEF Fdc!FwTake
  <1>3. wd.fifo \in Seq(FdcEntry) BY <1>1 DEF WdOk
  <1>4. f \in Seq(FdcEntry) /\ h \in FdcEntry /\ h = wd.fifo[1] /\ Len(f) = Len(wd.fifo) - 1
        /\ (Len(f) = 0 => f = << >>) /\ (Len(f) = 1 => f[1] = wd.fifo[2])
    <2>1. f \in Seq(FdcEntry) /\ h \in FdcEntry /\ h = wd.fifo[1] /\ Len(f) = Len(wd.fifo) - 1 BY <1>2, <1>3
    <2>2. Len(f) = 0 => f = << >> BY <2>1, EmptySeq
    <2>3. Len(f) = 1 => f[1] = wd.fifo[2] BY <1>2, <1>3, <2>1
    <2>4. QED BY <2>1, <2>2, <2>3
  <1> HIDE DEF f, h
  <1>5. WdKept(x, wd, {"fifo"}) /\ x.fifo = f BY <1>1 DEF WdOk, WdKept, WdFields
  <1> HIDE DEF x
  <1>6. WdOk(x) BY <1>1, <1>4, <1>5 DEF WdOk, WdKept, WdFields
  <1>7. WdOk(wd') /\ ddr' \in FdcBuf /\ Settling([w |-> wd', m |-> ddr'], x, ddr) BY <1>1, <1>2, <1>6, SettledDoes
  <1>8. serving' \in Served BY <1>2, <1>4 DEF FdcEntry, FdcCommand, Served
  <1>9. FdcType(wd', ddr', d81', dos', serving') BY <1>1, <1>2, <1>7, <1>8 DEF FdcType
  <1>10. ASSUME ~dos'.forced PROVE ~wd'.dropped /\ FdcPhase(wd', ddr', d81', dos', serving')
    <2>1. ~wd.dropped /\ FdcPhase(wd, ddr, d81, dos, serving) BY <1>2, <1>10 DEF FdcInvariant, FdcGood
    <2>2. /\ x.busy = wd.busy /\ x.mode = wd.mode /\ x.delay = wd.delay /\ x.rv = wd.rv /\ x.wv = wd.wv /\ x.drq = wd.drq
          /\ x.dropped = wd.dropped /\ x.goto = wd.goto /\ x.cur = wd.cur
      BY <1>5 DEF WdKept, WdFields
    <2>3. wd.mode = 3 => wd' = x /\ ddr' = ddr
      BY <1>7, <2>2 DEF Settling, Rests, Idles, Ends, Offers, Wants, Puts, Closes
    <2>4. CASE OwesDone(wd, serving)
      <3>1. wd' = x /\ ddr' = ddr /\ x.mode = 3 BY <2>2, <2>3, <2>4 DEF OwesDone
      <3>2. serving' = "done" /\ x.fifo = << >> BY <1>2, <1>4, <1>5, <2>4 DEF OwesDone
      <3>3. OwesDone(wd', serving') /\ ~NoWork(wd', serving') /\ ~NoWork(wd, serving)
        BY <1>2, <2>4, <3>1, <3>2 DEF OwesDone, NoWork
      <3>4. FdcReady(wd, ddr, d81, dos, serving) \/ Delaying(wd, ddr, d81, dos, serving)
        BY <2>1, <2>4 DEF FdcPhase, OwesDone, Asked, Asks, Tag, Reading, Writing, Seeking, Runs
      <3>5. QED BY <1>2, <2>1, <2>2, <3>1, <3>3, <3>4 DEF FdcPhase, FdcReady, Delaying, Still, Completed
    <2>5. CASE ~OwesDone(wd, serving)
      <3>1. Asked(wd, dos, serving)
        BY <1>2, <2>1, <2>5 DEF FdcPhase, FdcReady, Delaying, Completed, NoWork, Reading, Writing, Seeking, Runs
      <3>2. /\ \/ wd.mode = 0 /\ Len(wd.fifo) = 1 /\ Tag(dos.do, wd.fifo[1])
               \/ wd.mode = 3 /\ Len(wd.fifo) = 2 /\ wd.fifo[1].done /\ Tag(dos.do, wd.fifo[2])
            /\ wd.busy /\ Still(wd) /\ dos.do \in {"read", "write", "seek"} /\ dos.moved = << >>
        BY <1>2, <3>1 DEF Asked, Asks
      <3>3. CASE wd.mode = 0 /\ Len(wd.fifo) = 1 /\ Tag(dos.do, wd.fifo[1])
        <4>1. serving' = dos.do /\ x.fifo = << >> /\ x.mode = 0 BY <1>2, <1>4, <1>5, <2>2, <3>3 DEF Tag
        <4>2. Idles([w |-> wd', m |-> ddr'], x, ddr)
          BY <1>7, <2>2, <3>2, <4>1 DEF Still, Settling, Rests, Ends, Offers, Wants, Puts, Closes
        <4>3. /\ wd'.busy /\ ~wd'.delay /\ ~wd'.rv /\ ~wd'.wv /\ ~wd'.drq /\ wd'.mode = 0 /\ wd'.fifo = << >> /\ ~wd'.dropped
          BY <2>1, <2>2, <3>2, <4>1, <4>2 DEF Still, Idles, WdKept, WdFields
        <4>4. QED BY <1>2, <3>2, <4>1, <4>3 DEF FdcPhase, Asked, Asks, Still
      <3>4. CASE wd.mode = 3 /\ Len(wd.fifo) = 2 /\ wd.fifo[1].done /\ Tag(dos.do, wd.fifo[2])
        <4>1. serving' = "done" /\ Len(x.fifo) = 1 /\ x.fifo[1] = wd.fifo[2] /\ wd' = x /\ x.mode = 3
          BY <1>2, <1>4, <1>5, <2>2, <2>3, <3>4
        <4>2. Asks(wd', serving', dos.do) BY <3>4, <4>1 DEF Asks
        <4>3. QED BY <1>2, <2>1, <2>2, <3>2, <4>1, <4>2 DEF FdcPhase, Asked, Still
      <3>5. QED BY <3>2, <3>3, <3>4
    <2>6. QED BY <2>4, <2>5
  <1>11. QED BY <1>9, <1>10 DEF FdcInvariant, FdcGood

(* An entry served: what the DMA machine is given, and with which buffer. *)
FwGives(x, m) ==
    /\ serving \in {"read", "write", "done", "force", "seek", "seeking"}
    /\ Settling([w |-> wd', m |-> ddr'], x, m) /\ WdOk(x) /\ m \in FdcBuf
    /\ CASE serving = "read"    -> m = d81 /\ WdKept(x, wd, {"addr", "len", "mode"}) /\ x.addr = 1 /\ x.len = SectorLen /\ x.mode = 1
         [] serving = "write"   -> m = ddr /\ WdKept(x, wd, {"addr", "len", "mode"}) /\ x.addr = 1 /\ x.len = SectorLen /\ x.mode = 2
         [] serving = "done"    -> m = ddr /\ WdKept(x, wd, {"mode"}) /\ x.mode = 0
         [] serving = "force"   -> m = ddr /\ WdKept(x, wd, {"mode", "busy"})
         [] serving = "seek"    -> m = ddr /\ WdKept(x, wd, {"goto"})
         [] serving = "seeking" -> m = ddr /\ WdKept(x, wd, {"busy"}) /\ ~x.busy /\ wd.cur = wd.goto

LEMMA FwGivesOk ==
  ASSUME FdcInvariant, Fdc!FwServe
  PROVE  WdOk(wd') /\ ddr' \in FdcBuf /\ \E x, m : FwGives(x, m)
  <1>1. WdOk(wd) /\ ddr \in FdcBuf /\ d81 \in FdcBuf /\ serving \in Served /\ DOMAIN wd = WdFields
    BY DEF FdcInvariant, FdcGood, FdcType, WdOk
  <1>2. serving \in {"read", "write", "done", "force", "seek", "seeking"} BY <1>1 DEF Served, Fdc!FwServe
  <1>3. ASSUME NEW mode \in {1, 2}, NEW x, x = [wd EXCEPT !.addr = 1, !.len = SectorLen, !.mode = mode]
        PROVE  WdOk(x) /\ WdKept(x, wd, {"addr", "len", "mode"}) /\ x.addr = 1 /\ x.len = SectorLen /\ x.mode = mode
    <2>1. WdKept(x, wd, {"addr", "len", "mode"}) /\ x.addr = 1 /\ x.len = SectorLen /\ x.mode = mode
      BY <1>1, <1>3 DEF WdKept, WdFields
    <2>2. QED BY <1>1, <2>1, FdcSizes DEF WdOk, WdKept, WdFields
  <1>4. CASE serving = "read"
    <2>1. Fdc!Settled(Fdc!Settle([wd EXCEPT !.addr = 1, !.len = SectorLen, !.mode = 1], d81)) BY <1>4 DEF Fdc!FwServe, Fdc!Begin
    <2>2. PICK x : x = [wd EXCEPT !.addr = 1, !.len = SectorLen, !.mode = 1] OBVIOUS
    <2>3. WdOk(x) /\ WdKept(x, wd, {"addr", "len", "mode"}) /\ x.addr = 1 /\ x.len = SectorLen /\ x.mode = 1 BY <1>3, <2>2
    <2>4. WdOk(wd') /\ ddr' \in FdcBuf /\ Settling([w |-> wd', m |-> ddr'], x, d81) BY <1>1, <2>1, <2>2, <2>3, SettledDoes
    <2>5. FwGives(x, d81) BY <1>1, <1>4, <2>3, <2>4 DEF FwGives
    <2>6. QED BY <2>4, <2>5
  <1>5. CASE serving = "write"
    <2>1. Fdc!Settled(Fdc!Settle([wd EXCEPT !.addr = 1, !.len = SectorLen, !.mode = 2], ddr)) BY <1>5 DEF Fdc!FwServe, Fdc!Begin
    <2>2. PICK x : x = [wd EXCEPT !.addr = 1, !.len = SectorLen, !.mode = 2] OBVIOUS
    <2>3. WdOk(x) /\ WdKept(x, wd, {"addr", "len", "mode"}) /\ x.addr = 1 /\ x.len = SectorLen /\ x.mode = 2 BY <1>3, <2>2
    <2>4. WdOk(wd') /\ ddr' \in FdcBuf /\ Settling([w |-> wd', m |-> ddr'], x, ddr) BY <1>1, <2>1, <2>2, <2>3, SettledDoes
    <2>5. FwGives(x, ddr) BY <1>1, <1>5, <2>3, <2>4 DEF FwGives
    <2>6. QED BY <2>4, <2>5
  <1>6. CASE serving = "done"
    <2>1. PICK x : x = [wd EXCEPT !.mode = 0] OBVIOUS
    <2>2. WdKept(x, wd, {"mode"}) /\ x.mode = 0 BY <1>1, <2>1 DEF WdKept, WdFields
    <2>3. WdOk(x) BY <1>1, <2>2 DEF WdOk, WdKept, WdFields
    <2>4. Fdc!Settled(Fdc!Settle(x, ddr)) BY <1>6, <2>1 DEF Fdc!FwServe
    <2>5. WdOk(wd') /\ ddr' \in FdcBuf /\ Settling([w |-> wd', m |-> ddr'], x, ddr) BY <1>1, <2>3, <2>4, SettledDoes
    <2>6. FwGives(x, ddr) BY <1>1, <1>6, <2>2, <2>3, <2>5 DEF FwGives
    <2>7. QED BY <2>5, <2>6
  <1>7. CASE serving = "force"
    <2>1. PICK x : x = [wd EXCEPT !.mode = 0, !.busy = FALSE] OBVIOUS
    <2>2. WdKept(x, wd, {"mode", "busy"}) /\ x.mode = 0 BY <1>1, <2>1 DEF WdKept, WdFields
    <2>3. WdOk(x) BY <1>1, <2>2 DEF WdOk, WdKept, WdFields
    <2>4. Fdc!Settled(Fdc!Settle(x, ddr)) BY <1>7, <2>1 DEF Fdc!FwServe
    <2>5. WdOk(wd') /\ ddr' \in FdcBuf /\ Settling([w |-> wd', m |-> ddr'], x, ddr) BY <1>1, <2>3, <2>4, SettledDoes
    <2>6. FwGives(x, ddr) BY <1>1, <1>7, <2>2, <2>3, <2>5 DEF FwGives
    <2>7. QED BY <2>5, <2>6
  <1>8. CASE serving = "seek"
    <2>1. PICK t \in 0 .. LastTrack : Fdc!Settled(Fdc!Settle([wd EXCEPT !.goto = t], ddr)) BY <1>8 DEF Fdc!FwServe
    <2>2. PICK x : x = [wd EXCEPT !.goto = t] OBVIOUS
    <2>3. WdKept(x, wd, {"goto"}) /\ x.goto \in Nat BY <1>1, <2>2, FdcSizes DEF WdKept, WdFields
    <2>4. WdOk(x) BY <1>1, <2>3 DEF WdOk, WdKept, WdFields
    <2>5. WdOk(wd') /\ ddr' \in FdcBuf /\ Settling([w |-> wd', m |-> ddr'], x, ddr) BY <1>1, <2>1, <2>2, <2>4, SettledDoes
    <2>6. FwGives(x, ddr) BY <1>1, <1>8, <2>3, <2>4, <2>5 DEF FwGives
    <2>7. QED BY <2>5, <2>6
  <1>9. CASE serving = "seeking"
    <2>1. PICK x : x = [wd EXCEPT !.busy = FALSE] OBVIOUS
    <2>2. WdKept(x, wd, {"busy"}) /\ ~x.busy BY <1>1, <2>1 DEF WdKept, WdFields
    <2>3. WdOk(x) BY <1>1, <2>2 DEF WdOk, WdKept, WdFields
    <2>4. Fdc!Settled(Fdc!Settle(x, ddr)) /\ wd.cur = wd.goto BY <1>9, <2>1 DEF Fdc!FwServe
    <2>5. WdOk(wd') /\ ddr' \in FdcBuf /\ Settling([w |-> wd', m |-> ddr'], x, ddr) BY <1>1, <2>3, <2>4, SettledDoes
    <2>6. FwGives(x, ddr) BY <1>1, <1>9, <2>2, <2>3, <2>4, <2>5 DEF FwGives
    <2>7. QED BY <2>5, <2>6
  <1>10. QED BY <1>2, <1>4, <1>5, <1>6, <1>7, <1>8, <1>9

LEMMA FwServeOk == ASSUME FdcInvariant, Fdc!FwServe PROVE FdcInvariant'
  <1>1. WdOk(wd) /\ ddr \in FdcBuf /\ d81 \in FdcBuf /\ DosOk(dos) /\ serving \in Served BY DEF FdcInvariant, FdcGood, FdcType
  <1>2. WdOk(wd') /\ ddr' \in FdcBuf BY FwGivesOk
  <1>3. PICK x, m : FwGives(x, m) BY FwGivesOk
  <1>4. /\ d81' = (IF serving = "done" THEN ddr ELSE d81) /\ serving' = (IF serving = "seek" THEN "seeking" ELSE "none")
        /\ dos' = dos
    BY DEF Fdc!FwServe
  <1>5. FdcType(wd', ddr', d81', dos', serving') BY <1>1, <1>2, <1>4 DEF FdcType, Served
  <1> DEFINE q == [w |-> wd', m |-> ddr']
  <1>6. Settling(q, x, m) /\ q.w = wd' /\ q.m = ddr' BY <1>3 DEF FwGives
  <1> HIDE DEF q
  <1>7. ASSUME ~dos'.forced PROVE ~wd'.dropped /\ FdcPhase(wd', ddr', d81', dos', serving')
    <2>1. ~wd.dropped /\ FdcPhase(wd, ddr, d81, dos, serving) BY <1>4, <1>7 DEF FdcInvariant, FdcGood
    <2>2. CASE serving = "read"
      <3>1. Asked(wd, dos, serving) /\ wd.mode = 0 /\ wd.fifo = << >> /\ dos.do = "read"
        BY <2>1, <2>2 DEF FdcPhase, FdcReady, Completed, NoWork, OwesDone, Delaying, Reading, Writing, Seeking, Asked, Asks
      <3>2. m = d81 /\ WdKept(x, wd, {"addr", "len", "mode"}) /\ x.addr = 1 /\ x.len = SectorLen /\ x.mode = 1
        BY <1>3, <2>2 DEF FwGives
      <3>3. x.busy /\ ~x.delay /\ ~x.rv /\ ~x.wv /\ ~x.dropped /\ x.fifo = << >>
        BY <2>1, <3>1, <3>2 DEF Asked, Still, WdKept, WdFields
      <3>4. Offers(q, x, m) BY <1>6, <3>2, <3>3, FdcSizes DEF Settling, Rests, Idles, Ends, Wants, Puts, Closes
      <3>5. ddr' = d81 /\ wd'.data = d81[1] /\ wd'.rv /\ wd'.drq /\ wd'.addr = 2 BY <1>6, <3>2, <3>4 DEF Offers
      <3>6. wd'.busy /\ wd'.mode = 1 /\ wd'.fifo = << >> /\ ~wd'.delay /\ ~wd'.wv /\ ~wd'.dropped
        BY <1>6, <3>2, <3>3, <3>4 DEF Offers, WdKept, WdFields
      <3>7. Len(dos.moved) = 0 /\ DOMAIN dos.moved = {} BY <3>1 DEF Asked
      <3>8. Reading(wd', ddr', d81', dos', serving') BY <1>4, <2>2, <3>1, <3>5, <3>6, <3>7, FdcSizes DEF Reading, Runs
      <3>9. QED BY <3>6, <3>8 DEF FdcPhase
    <2>3. CASE serving = "write"
      <3>1. Asked(wd, dos, serving) /\ wd.mode = 0 /\ wd.fifo = << >> /\ dos.do = "write"
        BY <2>1, <2>3 DEF FdcPhase, FdcReady, Completed, NoWork, OwesDone, Delaying, Reading, Writing, Seeking, Asked, Asks
      <3>2. m = ddr /\ WdKept(x, wd, {"addr", "len", "mode"}) /\ x.addr = 1 /\ x.len = SectorLen /\ x.mode = 2
        BY <1>3, <2>3 DEF FwGives
      <3>3. x.busy /\ ~x.delay /\ ~x.rv /\ ~x.wv /\ ~x.dropped /\ x.fifo = << >>
        BY <2>1, <3>1, <3>2 DEF Asked, Still, WdKept, WdFields
      <3>4. Wants(q, x, m) BY <1>6, <3>2, <3>3, FdcSizes DEF Settling, Rests, Idles, Ends, Offers, Puts, Closes
      <3>5. wd'.drq BY <1>6, <3>4 DEF Wants
      <3>6. wd'.busy /\ wd'.mode = 2 /\ wd'.fifo = << >> /\ ~wd'.delay /\ ~wd'.wv /\ ~wd'.rv /\ wd'.addr = 1 /\ ~wd'.dropped
        BY <1>6, <3>2, <3>3, <3>4 DEF Wants, WdKept, WdFields
      <3>7. Len(dos.moved) = 0 /\ DOMAIN dos.moved = {} BY <3>1 DEF Asked
      <3>8. Writing(wd', ddr', dos', serving') BY <1>4, <2>3, <3>1, <3>5, <3>6, <3>7, FdcSizes DEF Writing, Runs
      <3>9. QED BY <3>6, <3>8 DEF FdcPhase
    <2>4. CASE serving = "done"
      <3>1. m = ddr /\ WdKept(x, wd, {"mode"}) /\ x.mode = 0 BY <1>3, <2>4 DEF FwGives
      <3>2. /\ x.busy = wd.busy /\ x.delay = wd.delay /\ x.rv = wd.rv /\ x.wv = wd.wv /\ x.drq = wd.drq /\ x.dropped = wd.dropped
            /\ x.fifo = wd.fifo
        BY <3>1 DEF WdKept, WdFields
      <3>3. serving' = "none" /\ d81' = ddr BY <1>4, <2>4
      <3>4. FdcReady(wd, ddr, d81, dos, serving) \/ Asked(wd, dos, serving) \/ Delaying(wd, ddr, d81, dos, serving)
        BY <2>1, <2>4 DEF FdcPhase, Reading, Writing, Seeking
      <3>5. CASE Delaying(wd, ddr, d81, dos, serving)
        <4>1. Rests(q, x, m) BY <1>6, <3>1, <3>2, <3>5 DEF Delaying, Settling, Idles, Ends, Offers, Wants, Puts, Closes
        <4>2. wd' = x /\ ddr' = ddr BY <1>6, <3>1, <4>1 DEF Rests
        <4>3. wd.fifo = << >> BY <2>4, <3>5 DEF Delaying, Completed, NoWork, OwesDone
        <4>4. NoWork(wd', serving') BY <3>1, <3>2, <3>3, <4>2, <4>3 DEF NoWork
        <4>5. QED BY <1>4, <2>1, <3>2, <3>3, <3>5, <4>2, <4>4 DEF FdcPhase, Delaying, Completed
      <3>6. CASE ~Delaying(wd, ddr, d81, dos, serving)
        <4>1. Still(wd) BY <3>4, <3>6 DEF FdcReady, Asked
        <4>2. Idles(q, x, m) BY <1>6, <3>1, <3>2, <4>1 DEF Still, Settling, Rests, Ends, Offers, Wants, Puts, Closes
        <4>3. ddr' = ddr BY <1>6, <3>1, <4>2 DEF Idles
        <4>4. /\ (wd'.busy <=> wd.busy) /\ Still(wd') /\ wd'.mode = 0 /\ wd'.fifo = wd.fifo /\ ~wd'.dropped
          BY <1>6, <2>1, <3>1, <3>2, <4>1, <4>2 DEF Still, Idles, WdKept, WdFields
        <4>5. CASE FdcReady(wd, ddr, d81, dos, serving)
          <5>1. wd.fifo = << >> /\ ~NoWork(wd, serving) BY <2>4, <4>5 DEF FdcReady, Completed, NoWork, OwesDone
          <5>2. NoWork(wd', serving') BY <3>3, <4>4, <5>1 DEF NoWork
          <5>3. QED BY <1>4, <3>3, <4>3, <4>4, <4>5, <5>1, <5>2 DEF FdcPhase, FdcReady, Completed
        <4>6. CASE Asked(wd, dos, serving)
          <5>1. Len(wd.fifo) = 1 /\ Tag(dos.do, wd.fifo[1]) BY <2>4, <4>6 DEF Asked, Asks
          <5>2. Asks(wd', serving', dos.do) BY <3>3, <4>4, <5>1 DEF Asks
          <5>3. QED BY <1>4, <4>4, <4>6, <5>2 DEF FdcPhase, Asked
        <4>7. QED BY <3>4, <3>6, <4>5, <4>6
      <3>7. QED BY <3>5, <3>6
    <2>5. CASE serving = "force"
      BY <2>1, <2>5 DEF FdcPhase, FdcReady, Completed, NoWork, OwesDone, Asked, Asks, Delaying, Reading, Writing, Seeking
    <2>6. CASE serving = "seek"
      <3>1. Asked(wd, dos, serving) /\ wd.mode = 0 /\ wd.fifo = << >> /\ dos.do = "seek"
        BY <2>1, <2>6 DEF FdcPhase, FdcReady, Completed, NoWork, OwesDone, Delaying, Reading, Writing, Seeking, Asked, Asks
      <3>2. m = ddr /\ WdKept(x, wd, {"goto"}) BY <1>3, <2>6 DEF FwGives
      <3>3. x.busy /\ ~x.delay /\ ~x.rv /\ ~x.wv /\ ~x.dropped /\ x.fifo = << >> /\ x.mode = 0
        BY <2>1, <3>1, <3>2 DEF Asked, Still, WdKept, WdFields
      <3>4. Idles(q, x, m) BY <1>6, <3>3 DEF Settling, Rests, Ends, Offers, Wants, Puts, Closes
      <3>5. wd'.busy /\ Still(wd') /\ wd'.mode = 0 /\ wd'.fifo = << >> /\ ~wd'.dropped
        BY <1>6, <3>3, <3>4 DEF Still, Idles, WdKept, WdFields
      <3>6. Seeking(wd', dos', serving') BY <1>4, <2>6, <3>1, <3>5 DEF Seeking, Runs, Still
      <3>7. QED BY <3>5, <3>6 DEF FdcPhase
    <2>7. CASE serving = "seeking"
      <3>1. Seeking(wd, dos, serving)
        BY <2>1, <2>7 DEF FdcPhase, FdcReady, Completed, NoWork, OwesDone, Asked, Asks, Delaying, Reading, Writing
      <3>2. m = ddr /\ WdKept(x, wd, {"busy"}) /\ ~x.busy /\ wd.cur = wd.goto BY <1>3, <2>7 DEF FwGives
      <3>3. ~x.delay /\ ~x.rv /\ ~x.wv /\ ~x.dropped /\ x.fifo = << >> /\ x.mode = 0 /\ x.cur = x.goto
        BY <2>1, <3>1, <3>2 DEF Seeking, Runs, Still, WdKept, WdFields
      <3>4. Idles(q, x, m) BY <1>6, <3>3 DEF Settling, Rests, Ends, Offers, Wants, Puts, Closes
      <3>5. ~wd'.busy /\ Still(wd') /\ wd'.mode = 0 /\ wd'.fifo = << >> /\ ~wd'.dropped /\ wd'.cur = wd'.goto
        BY <1>6, <3>2, <3>3, <3>4 DEF Still, Idles, WdKept, WdFields
      <3>6. FdcReady(wd', ddr', d81', dos', serving') BY <1>4, <2>7, <3>1, <3>5 DEF FdcReady, Completed, NoWork, Seeking
      <3>7. QED BY <3>5, <3>6 DEF FdcPhase
    <2>8. QED BY <1>3, <2>2, <2>3, <2>4, <2>5, <2>6, <2>7 DEF FwGives
  <1>8. QED BY <1>5, <1>7 DEF FdcInvariant, FdcGood

LEMMA RunToOk == ASSUME FdcInvariant, Fdc!RunTo PROVE FdcInvariant'
  <1>1. WdOk(wd) /\ ddr \in FdcBuf /\ d81 \in FdcBuf /\ DosOk(dos) /\ serving \in Served BY DEF FdcInvariant, FdcGood, FdcType
  <1>2. ddr' = ddr /\ d81' = d81 /\ dos' = dos /\ serving' = serving BY DEF Fdc!RunTo
  <1>3. CASE wd.delay /\ wd' = [wd EXCEPT !.delay = FALSE, !.busy = FALSE]
    <2>1. WdKept(wd', wd, {"delay", "busy"}) /\ ~wd'.delay /\ ~wd'.busy BY <1>1, <1>3 DEF WdOk, WdKept, WdFields
    <2>2. WdOk(wd') BY <1>1, <2>1 DEF WdOk, WdKept, WdFields
    <2>3. ASSUME ~dos.forced PROVE ~wd'.dropped /\ FdcPhase(wd', ddr', d81', dos', serving')
      <3>1. Delaying(wd, ddr, d81, dos, serving) /\ ~wd.dropped
        BY <1>3, <2>3 DEF FdcInvariant, FdcGood, FdcPhase, FdcReady, Asked, Still, Reading, Writing, Seeking, Runs
      <3>2. /\ wd'.mode = wd.mode /\ wd'.fifo = wd.fifo /\ wd'.rv = wd.rv /\ wd'.wv = wd.wv /\ wd'.drq = wd.drq
            /\ wd'.dropped = wd.dropped
        BY <2>1 DEF WdKept, WdFields
      <3>3. Completed(wd', serving) /\ (NoWork(wd', serving) => NoWork(wd, serving))
        BY <3>1, <3>2 DEF Delaying, Completed, NoWork, OwesDone
      <3>4. FdcReady(wd', ddr', d81', dos', serving')
        BY <1>2, <2>1, <3>1, <3>2, <3>3 DEF Delaying, FdcReady, Still
      <3>5. QED BY <3>1, <3>2, <3>4 DEF FdcPhase
    <2>4. QED BY <1>1, <1>2, <2>2, <2>3 DEF FdcInvariant, FdcGood, FdcType
  <1>4. CASE \/ wd.cur < wd.goto /\ wd' = [wd EXCEPT !.cur = @ + 1]
             \/ wd.cur > wd.goto /\ wd' = [wd EXCEPT !.cur = @ - 1]
    <2>0. wd.cur \in Nat /\ wd.goto \in Nat BY <1>1 DEF WdOk
    <2>1. WdKept(wd', wd, {"cur"}) /\ wd'.cur \in Nat /\ wd.cur # wd.goto BY <1>1, <1>4, <2>0 DEF WdOk, WdKept, WdFields
    <2>2. WdOk(wd') BY <1>1, <2>1 DEF WdOk, WdKept, WdFields
    <2>3. ASSUME ~dos.forced PROVE ~wd'.dropped /\ FdcPhase(wd', ddr', d81', dos', serving')
      <3>1. FdcPhase(wd, ddr, d81, dos, serving) /\ ~wd.dropped BY <2>3 DEF FdcInvariant, FdcGood
      <3>2. /\ wd'.mode = wd.mode /\ wd'.fifo = wd.fifo /\ wd'.rv = wd.rv /\ wd'.wv = wd.wv /\ wd'.drq = wd.drq
            /\ wd'.dropped = wd.dropped /\ wd'.busy = wd.busy /\ wd'.delay = wd.delay /\ wd'.addr = wd.addr /\ wd'.data = wd.data
        BY <2>1 DEF WdKept, WdFields
      <3>3. /\ (NoWork(wd', serving) <=> NoWork(wd, serving)) /\ (Completed(wd', serving) <=> Completed(wd, serving))
            /\ (Asks(wd', serving, dos.do) <=> Asks(wd, serving, dos.do)) /\ (Still(wd') <=> Still(wd))
        BY <3>2 DEF Completed, NoWork, OwesDone, Asks, Still
      <3>4. FdcPhase(wd', ddr, d81, dos, serving)
        BY <2>1, <3>1, <3>2, <3>3 DEF FdcPhase, FdcReady, Asked, Reading, Writing, Delaying, Seeking, Runs
      <3>5. QED BY <1>2, <3>1, <3>2, <3>4
    <2>4. QED BY <1>1, <1>2, <2>2, <2>3 DEF FdcInvariant, FdcGood, FdcType
  <1>5. QED BY <1>3, <1>4 DEF Fdc!RunTo

LEMMA DriveResetOk == ASSUME FdcInvariant, Fdc!DriveReset PROVE FdcInvariant'
  <1>1. WdOk(wd) /\ ddr \in FdcBuf /\ d81 \in FdcBuf /\ DosOk(dos) /\ serving \in Served BY DEF FdcInvariant, FdcGood, FdcType
  <1>2. /\ wd' = Fdc!WdReset(wd) /\ ddr' = ddr /\ d81' = d81 /\ serving' = serving
        /\ dos' = [Fdc!Free EXCEPT !.forced = TRUE, !.count = dos.count + 1]
    BY DEF Fdc!DriveReset
  <1>3. /\ WdKept(wd', wd, {"wv", "rv", "cmd", "busy", "drq", "mode", "delay", "completion", "goto", "fifo", "cur"})
        /\ wd'.cmd = "none" /\ wd'.mode = 0 /\ wd'.goto = 0 /\ wd'.fifo = << >> /\ wd'.cur = 0
    BY <1>1, <1>2 DEF WdOk, Fdc!WdReset, WdKept, WdFields
  <1>4. << >> \in Seq(FdcEntry) /\ << >> \in Seq(Fdc!DiskByte) OBVIOUS
  <1>5. WdOk(wd') BY <1>1, <1>3, <1>4 DEF WdOk, WdKept, WdFields, FdcCommand
  <1>6. dos'.forced /\ DosOk(dos') BY <1>2, <1>4 DEF DosOk, DosFields, Fdc!Free
  <1>7. QED BY <1>1, <1>2, <1>5, <1>6 DEF FdcInvariant, FdcGood, FdcType

LEMMA FdcInitOk == ASSUME Fdc!Init PROVE FdcInvariant
  <1>1. << >> \in Seq(FdcEntry) /\ << >> \in Seq(Fdc!DiskByte) OBVIOUS
  <1>2. /\ DOMAIN wd = WdFields /\ ~wd.busy /\ ~wd.drq /\ wd.cmd = "none" /\ wd.data = 0 /\ ~wd.wv /\ ~wd.rv /\ wd.fifo = << >>
        /\ wd.mode = 0 /\ ~wd.delay /\ wd.addr = 1 /\ wd.len = 0 /\ wd.goto = 0 /\ wd.cur = 0 /\ ~wd.dropped
    BY DEF Fdc!Init, WdFields
  <1>3. WdOk(wd) BY <1>1, <1>2 DEF WdOk, FdcCommand, Fdc!DiskByte
  <1>4. ddr \in FdcBuf /\ d81 \in FdcBuf BY DEF Fdc!Init, FdcBuf, Fdc!DiskByte
  <1>5. dos.do = "none" /\ DosOk(dos) /\ serving = "none" BY <1>1 DEF Fdc!Init, Fdc!Free, DosOk, DosFields
  <1>6. FdcReady(wd, ddr, d81, dos, serving) BY <1>2, <1>5 DEF FdcReady, Still, Completed, NoWork
  <1>7. QED BY <1>2, <1>3, <1>4, <1>5, <1>6 DEF FdcInvariant, FdcGood, FdcType, FdcPhase, Served

LEMMA FdcNextOk == ASSUME FdcInvariant, Fdc!Next PROVE FdcInvariant'
  BY FdcCommandOk, FdcForceOk, FdcTakeOk, FdcGiveOk, FdcDoneOk, FwTakeOk, FwServeOk, RunToOk, DriveResetOk DEF Fdc!Next

LEMMA FdcMoves == ASSUME FdcInvariant PROVE Fdc!SectorsMove
  <1> SUFFICES ASSUME ~dos.forced
               PROVE  /\ ~wd.dropped
                      /\ dos.do = "read" => \A i \in DOMAIN dos.moved : dos.moved[i] = d81[i]
                      /\ dos.do = "read" /\ ~wd.busy => Len(dos.moved) = SectorLen
                      /\ dos.do = "write" /\ ~wd.busy => dos.moved = ddr \/ dos.moved = d81
                      /\ dos.do = "seek" /\ ~wd.busy => wd.cur = wd.goto
                      /\ Fdc!Quiet /\ dos.do = "write" => dos.moved = d81
                      /\ wd.fifo = << >> /\ serving = "none" /\ wd.mode \notin {1, 2} /\ ~wd.delay => ~wd.busy
    BY DEF Fdc!SectorsMove
  <1>1. ~wd.dropped /\ FdcPhase(wd, ddr, d81, dos, serving) /\ d81 \in FdcBuf /\ dos.moved \in Seq(Fdc!DiskByte)
    BY DEF FdcInvariant, FdcGood, FdcType, DosOk
  <1>2. CASE FdcReady(wd, ddr, d81, dos, serving)
    <2>1. ASSUME dos.moved = d81 PROVE Len(dos.moved) = SectorLen
      <3>1. DOMAIN dos.moved = 1 .. SectorLen /\ DOMAIN dos.moved = 1 .. Len(dos.moved) BY <1>1, <2>1 DEF FdcBuf
      <3>2. Len(dos.moved) \in Nat BY <1>1
      <3>3. QED BY <3>1, <3>2, FdcSizes
    <2>2. QED BY <1>1, <1>2, <2>1 DEF FdcReady, Completed, NoWork, OwesDone, Fdc!Quiet
  <1>3. CASE Asked(wd, dos, serving) BY <1>1, <1>3 DEF Asked, Asks, Fdc!Quiet
  <1>4. CASE Reading(wd, ddr, d81, dos, serving) BY <1>1, <1>4 DEF Reading, Runs
  <1>5. CASE Writing(wd, ddr, dos, serving) BY <1>1, <1>5 DEF Writing, Runs, Fdc!Quiet
  <1>6. CASE Delaying(wd, ddr, d81, dos, serving) BY <1>1, <1>6 DEF Delaying, Fdc!Quiet
  <1>7. CASE Seeking(wd, dos, serving) BY <1>1, <1>7 DEF Seeking, Runs
  <1>8. QED BY <1>1, <1>2, <1>3, <1>4, <1>5, <1>6, <1>7 DEF FdcPhase

(* Wd177x: for every length of a sector, track and number of Force          *)
(* Interrupts and resets, and every command FIFO of two entries or more:    *)
(* what the DOS read is the sector, what it wrote reaches the D81 whole,    *)
(* nothing queued is lost and BUSY never stands with nobody at work,        *)
(* through a command that comes before the last write is served.            *)
THEOREM SectorsMoveThm == Spec => []SectorsMove
  <1> DEFINE Inv == part = "fdc" => FdcInvariant
  <1>1. Init => Inv BY FdcInitOk DEF Init
  <1>2. Inv /\ [Next]_vars => Inv'
    <2> SUFFICES ASSUME Inv, [Next]_vars, part' = "fdc" PROVE FdcInvariant' OBVIOUS
    <2>1. CASE FdcNext BY <2>1, FdcNextOk DEF FdcNext
    <2>2. CASE UNCHANGED fdcVars /\ part' = part BY <2>2 DEF fdcVars, FdcInvariant
    <2>3. QED
      BY <2>1, <2>2 DEF Next, PortNext, DebugNext, TimeNext, FlashNext, SdNext, RomNext, McpNext, EspNext, DiskNext, CartNext, vars,
                        StoreVars
  <1>3. Inv => SectorsMove BY FdcMoves DEF SectorsMove
  <1>4. QED BY <1>1, <1>2, <1>3, PTL DEF Spec
=============================================================================
