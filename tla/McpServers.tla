----------------------------- MODULE McpServers -----------------------------
(***************************************************************************)
(* Several MCP servers that start and stop emulators in one run base       *)
(* (ue2-mcp: tools.rs, instance.rs, proc.rs).  An instance id stands for   *)
(* its run directory.  A server claims an id through a file, clears the    *)
(* directory, starts an emulator in it, and leaves it to a watchdog        *)
(* process when it dies itself.  The servers share only files; a call of   *)
(* one server runs beside its other calls.                                 *)
(***************************************************************************)
EXTENDS Naturals, FiniteSets

CONSTANTS
    MaxServers,  \* the servers: 1 .. MaxServers, their pids
    MaxCalls,    \* bound: the emu_start calls that run at a time, dealt out to the servers
    MaxIds,      \* the instance ids: 1 .. MaxIds
    MaxEmus      \* bound: emulators started

Servers == 1 .. MaxServers
Call    == 1 .. MaxCalls
Id      == 1 .. MaxIds
Emu     == 1 .. MaxEmus

ServerOf(k) == 1 + (k % MaxServers)
Stale   == 0   \* the pid in a claim that a dead server left behind

VARIABLES
    claims,   \* <id>.claim: the call that created the file and the pid in it
    json,     \* <id>/instance.json: the emulator it names, 0 is none
    emu,      \* the emulator processes, each with its watchdog and its stop
    srv,      \* the servers: their `instances`
    call,     \* the emu_start calls
    window,   \* history: the known windows in which two servers met
    wiped     \* history: a directory was cleared although it was in use

vars == << claims, json, emu, srv, call, window, wiped >>

----------------------------------------------------------------------------
NoFile  == [there |-> FALSE, by |-> 0, pid |-> Stale]
Empty(k) == [there |-> TRUE, by |-> k, pid |-> Stale]
Claim(p) == [there |-> TRUE, by |-> 0, pid |-> p]

Unwritten(f) == f.there /\ f.by # 0
Alive(p) == p \in Servers /\ srv[p].up

NotStarted == [id |-> 0, by |-> Stale, up |-> FALSE, watch |-> "none", stop |-> "no"]
IdleCall   == [pc |-> "idle", running |-> {}, id |-> 0, tries |-> 0, emu |-> 0]

IdsOf(s) == {emu[i].id : i \in srv[s].instances}

(* From its reservation to its end a call has its id in `reserved`. *)
Holds(k) == call[k].pc \in {"clear", "spawn", "watch", "json", "ready", "boot", "release"}
Reserved(s) == {call[k].id : k \in {x \in Call : ServerOf(x) = s /\ Holds(x)}}
Looks(k) == call[k].pc \in {"look", "open", "read", "stat", "remove", "write"}

InUseUnchecked(id) == FALSE
InUse(id) == json[id] # 0 /\ emu[json[id]].up

Goto(k, pc) == call' = [call EXCEPT ![k].pc = pc]

(* The next id of the loop; the call fails when there is none. *)
NextId(k) ==
    LET next == [call[k] EXCEPT !.pc = "look", !.id = @ + 1, !.tries = 0]
    IN  call' = [call EXCEPT ![k] = IF next.id <= MaxIds THEN next ELSE IdleCall]

Released(s, id) == IF claims[id].pid = s THEN [claims EXCEPT ![id] = NoFile] ELSE claims

----------------------------------------------------------------------------
(* The call emu_start. *)
StartCall(k) ==
    /\ call[k].pc = "idle" /\ srv[ServerOf(k)].up /\ ~srv[ServerOf(k)].closing
    /\ \E i \in Emu : emu[i] = NotStarted
    /\ call' = [call EXCEPT ![k] = [IdleCall EXCEPT !.pc = "lock", !.running = IdsOf(ServerOf(k))]]
    /\ UNCHANGED << claims, json, emu, srv, window, wiped >>

Lock(k) ==
    /\ call[k].pc = "lock" /\ \A x \in Call : ServerOf(x) = ServerOf(k) => ~Looks(x)
    /\ call' = [call EXCEPT ![k].pc = "look", ![k].id = 1]
    /\ UNCHANGED << claims, json, emu, srv, window, wiped >>

(* The list of running instances was read before the lock was taken. *)
Look(k) ==
    LET id    == call[k].id
        taken == id \in call[k].running \cup Reserved(ServerOf(k)) \/ InUse(id)
    IN
    /\ call[k].pc = "look"
    /\ IF taken THEN NextId(k) ELSE Goto(k, "open")
    /\ window' = IF ~taken /\ id \in IdsOf(ServerOf(k)) THEN window \cup {"old list"} ELSE window
    /\ UNCHANGED << claims, json, emu, srv, wiped >>

Open(k) ==
    LET id == call[k].id IN
    /\ call[k].pc = "open"
    /\ IF claims[id].there
         THEN Goto(k, "read") /\ UNCHANGED claims
         ELSE Goto(k, "write") /\ claims' = [claims EXCEPT ![id] = Empty(k)]
    /\ UNCHANGED << json, emu, srv, window, wiped >>

(* The pid goes into the file that was created, also when it is unlinked.  *)
(* From here the id is reserved.                                           *)
Write(k) ==
    LET id == call[k].id IN
    /\ call[k].pc = "write"
    /\ claims' = IF claims[id].by = k THEN [claims EXCEPT ![id] = Claim(ServerOf(k))] ELSE claims
    /\ window' = IF InUse(id) THEN window \cup {"late check"} ELSE window
    /\ Goto(k, "clear")
    /\ UNCHANGED << json, emu, srv, wiped >>

(* A claim of another server that lives is left alone, one without a pid is *)
(* looked at again, any other is to be removed.                             *)
Read(k) ==
    LET f == claims[call[k].id] IN
    /\ call[k].pc = "read"
    /\ IF Unwritten(f) THEN Goto(k, "stat")
       ELSE IF f.there /\ f.pid # ServerOf(k) /\ Alive(f.pid) THEN NextId(k)
       ELSE Goto(k, "remove")
    /\ UNCHANGED << claims, json, emu, srv, window, wiped >>

Stat(k) ==
    /\ call[k].pc = "stat"
    /\ IF Unwritten(claims[call[k].id]) THEN NextId(k) ELSE Goto(k, "remove")
    /\ UNCHANGED << claims, json, emu, srv, window, wiped >>

(* Whatever claim is there by now is removed. *)
Remove(k) ==
    LET id == call[k].id
        f  == claims[id]
    IN
    /\ call[k].pc = "remove"
    /\ claims' = [claims EXCEPT ![id] = NoFile]
    /\ window' = IF Unwritten(f) \/ (f.there /\ f.pid # ServerOf(k) /\ Alive(f.pid))
                   THEN window \cup {"takeover"} ELSE window
    /\ IF call[k].tries = 0
         THEN call' = [call EXCEPT ![k].pc = "open", ![k].tries = 1]
         ELSE NextId(k)
    /\ UNCHANGED << json, emu, srv, wiped >>

----------------------------------------------------------------------------
(* start_reserved and Instance::spawn. *)
Clear(k) ==
    LET id == call[k].id IN
    /\ call[k].pc = "clear"
    /\ json' = [json EXCEPT ![id] = 0]
    /\ wiped' = (wiped \/ \E i \in Emu :
                            emu[i].id = id /\ (emu[i].up \/ \E s \in Servers : i \in srv[s].instances))
    /\ Goto(k, "spawn")
    /\ UNCHANGED << claims, emu, srv, window >>

Spawn(k) ==
    /\ call[k].pc = "spawn"
    /\ \E i \in Emu :
         /\ emu[i] = NotStarted /\ \A j \in 1 .. (i - 1) : emu[j] # NotStarted
         /\ emu' = [emu EXCEPT ![i].id = call[k].id, ![i].by = ServerOf(k), ![i].up = TRUE]
         /\ call' = [call EXCEPT ![k].pc = "watch", ![k].emu = i]
    /\ UNCHANGED << claims, json, srv, window, wiped >>

SpawnWatchdog(k) ==
    /\ call[k].pc = "watch"
    /\ emu' = [emu EXCEPT ![call[k].emu].watch = "waits"]
    /\ Goto(k, "json")
    /\ UNCHANGED << claims, json, srv, window, wiped >>

WriteJson(k) ==
    /\ call[k].pc = "json"
    /\ json' = [json EXCEPT ![call[k].id] = call[k].emu]
    /\ Goto(k, "ready")
    /\ UNCHANGED << claims, emu, srv, window, wiped >>

Ready(k) ==
    LET i == call[k].emu IN
    /\ call[k].pc = "ready" /\ emu[i].up
    /\ srv' = [srv EXCEPT ![ServerOf(k)].instances = @ \cup {i}]
    /\ Goto(k, "boot")
    /\ UNCHANGED << claims, json, emu, window, wiped >>

(* It exited, or never opened its port and is killed; a taken port is tried *)
(* again.  The dropped Instance closes the watchdog's pipe.                 *)
NotReady(k) ==
    LET i == call[k].emu IN
    /\ call[k].pc = "ready"
    /\ emu' = [emu EXCEPT ![i].up = FALSE, ![i].watch = "eof"]
    /\ \/ Goto(k, "release")
       \/ Goto(k, "spawn") /\ \E j \in Emu : emu[j] = NotStarted
    /\ UNCHANGED << claims, json, srv, window, wiped >>

Booted(k) ==
    /\ call[k].pc = "boot"
    /\ call' = [call EXCEPT ![k] = IdleCall]
    /\ UNCHANGED << claims, json, emu, srv, window, wiped >>

GiveBack(k) ==
    /\ call[k].pc = "release"
    /\ claims' = Released(ServerOf(k), call[k].id)
    /\ call' = [call EXCEPT ![k] = IdleCall]
    /\ UNCHANGED << json, emu, srv, window, wiped >>

----------------------------------------------------------------------------
(* emu_stop takes the instance out of the map first; the server's end does  *)
(* that with all of them.                                                   *)
Stop(s, taken) ==
    /\ emu' = [i \in Emu |-> IF i \in taken THEN [emu[i] EXCEPT !.stop = "quitting"] ELSE emu[i]]
    /\ UNCHANGED << claims, json, call, window, wiped >>

StopCall(s) ==
    \E i \in srv[s].instances :
       /\ ~srv[s].closing
       /\ srv' = [srv EXCEPT ![s].instances = @ \ {i}]
       /\ Stop(s, {i})

Shutdown(s) ==
    /\ srv[s].up /\ ~srv[s].closing
    /\ srv' = [srv EXCEPT ![s].closing = TRUE, ![s].instances = {}]
    /\ Stop(s, srv[s].instances)

(* The exit has been published; the watchdog is told, then the claim is     *)
(* given back.                                                              *)
StopTold(i) ==
    /\ emu[i].stop = "quitting" /\ ~emu[i].up
    /\ emu' = [emu EXCEPT ![i].stop = "told", ![i].watch = IF @ = "waits" THEN "done" ELSE @]
    /\ UNCHANGED << claims, json, srv, call, window, wiped >>

ClaimedAnew(s, i) ==
    \/ emu[i].id \in IdsOf(s)
    \/ \E k \in Call : ServerOf(k) = s /\ Holds(k) /\ call[k].id = emu[i].id /\ call[k].emu # i

StopEnds(i) ==
    LET s == emu[i].by IN
    /\ emu[i].stop = "told"
    /\ claims' = Released(s, emu[i].id)
    /\ window' = IF ClaimedAnew(s, i) THEN window \cup {"release"} ELSE window
    /\ emu' = [emu EXCEPT ![i].stop = "no"]
    /\ UNCHANGED << json, srv, call, wiped >>

(* The emulator ends: quit, a signal, a halt, its own end. *)
Exit(i) ==
    /\ emu[i].up
    /\ emu' = [emu EXCEPT ![i].up = FALSE]
    /\ UNCHANGED << claims, json, srv, call, window, wiped >>

(* A server is gone: killed, crashed, or at the end of its shutdown. *)
Young(k) == call[k].pc \in {"watch", "json"} /\ emu[call[k].emu].up

Die(s) ==
    /\ \A x \in Servers : srv[x].up   \* bound: one of the servers
    /\ srv' = [srv EXCEPT ![s] = [up |-> FALSE, closing |-> FALSE, instances |-> {}]]
    /\ call' = [k \in Call |-> IF ServerOf(k) = s THEN IdleCall ELSE call[k]]
    /\ emu' = [i \in Emu |->
                 IF emu[i].by = s
                   THEN [emu[i] EXCEPT !.stop = "no", !.watch = IF @ = "waits" THEN "eof" ELSE @]
                   ELSE emu[i]]
    /\ window' = IF \E k \in Call : ServerOf(k) = s /\ Young(k) THEN window \cup {"young orphan"} ELSE window
    /\ UNCHANGED << claims, json, wiped >>

(* The watchdog ends at "done"; at any other end of its pipe it quits,      *)
(* terminates or kills the emulator.                                        *)
Watchdog(i) ==
    /\ emu[i].watch = "eof" /\ emu[i].up
    /\ emu' = [emu EXCEPT ![i].up = FALSE]
    /\ UNCHANGED << claims, json, srv, call, window, wiped >>

----------------------------------------------------------------------------
Init ==
    /\ claims \in [Id -> {NoFile, Claim(Stale)}] /\ json = [id \in Id |-> 0]
    /\ emu = [i \in Emu |-> NotStarted]
    /\ srv = [s \in Servers |-> [up |-> TRUE, closing |-> FALSE, instances |-> {}]]
    /\ call = [k \in Call |-> IdleCall]
    /\ window = {} /\ wiped = FALSE

CallStep(k) ==
    \/ StartCall(k) \/ Lock(k) \/ Look(k) \/ Open(k) \/ Read(k) \/ Stat(k) \/ Remove(k) \/ Write(k)
    \/ Clear(k) \/ Spawn(k) \/ SpawnWatchdog(k) \/ WriteJson(k) \/ Ready(k) \/ NotReady(k)
    \/ Booted(k) \/ GiveBack(k)

(* Bound: a behaviour ends once two servers have met in a window. *)
Next ==
    /\ window = {}
    /\ \/ \E k \in Call : CallStep(k)
       \/ \E s \in Servers : StopCall(s) \/ Shutdown(s) \/ Die(s)
       \/ \E i \in Emu : StopTold(i) \/ StopEnds(i) \/ Exit(i) \/ Watchdog(i)

----------------------------------------------------------------------------
(* docs/status/mcp.md: an id is claimed by one server, also while its       *)
(* emulator has halted and is kept for its console; the claims of dead      *)
(* servers are taken over.                                                  *)
ClaimHeld ==
    \A s \in Servers : srv[s].up =>
       /\ \A i \in srv[s].instances : claims[emu[i].id].pid = s
       /\ \A k \in Call : ServerOf(k) = s /\ Holds(k) /\ call[k].pc # "boot" => claims[call[k].id].pid = s

(* An emulator has its directory to itself: nobody clears it, and no second *)
(* emulator is started in it.                                               *)
OwnDirectory ==
    /\ ~wiped
    /\ \A i, j \in Emu : emu[i].up /\ emu[j].up /\ emu[i].id = emu[j].id => i = j

(* No emulator is forgotten: the server knows it, or its watchdog has been  *)
(* called; one whose server died before it started the watchdog stays.      *)
NoOrphan ==
    \A i \in Emu : emu[i].up =>
       IF srv[emu[i].by].up
         THEN \/ i \in srv[emu[i].by].instances \/ emu[i].stop # "no"
              \/ \E k \in Call : Holds(k) /\ call[k].emu = i
         ELSE emu[i].watch = "eof" \/ (emu[i].watch = "none" /\ "young orphan" \in window)

(* Outside the windows named in Look, Remove, Write, StopEnds and Die, servers do *)
(* not get into each other's way.                                           *)
ServersApart ==
    /\ NoOrphan
    /\ window = {} => ClaimHeld /\ OwnDirectory
=============================================================================
