------------------------------- MODULE UsbHub -------------------------------
(***************************************************************************)
(* Hot-plug on the USB hub of the emulated board (ue2-core                 *)
(* devices/usb/mod.rs and hub.rs).  A port keeps its device while it is    *)
(* unplugged.  The host side (usbdir.rs, the monitor) plugs ports out and  *)
(* in and swaps devices and media at any time; the firmware's hub driver   *)
(* learns of it through the status endpoint and takes its time.  The code  *)
(* delays a plug-in until the driver has acknowledged the unplug.          *)
(*                                                                         *)
(* The driver (usb_hub.cc, one task) is external: it is modelled as        *)
(* docs/hw/09-usb.md F5 and F8 and the comments of mod.rs describe it.     *)
(* Time is counted in units of REPLUG_POLL.                                *)
(***************************************************************************)
EXTENDS Integers, FiniteSets, FiniteSetsExt

NoDevice == "no device"

CONSTANTS
    NumPorts,    \* PORTS
    Device,      \* devices that may sit on a port
    Medium,      \* what a device may hold
    Gap,         \* REPLUG_GAP, in polls
    AckTimeout,  \* REPLUG_ACK_TIMEOUT, in polls
    MaxCommands, \* bound: host-side commands in a behaviour
    MaxReboots,  \* bound: machine resets in a behaviour
    Late         \* the driver may take longer than AckTimeout for an unplug

ASSUME UsbHubAssumption ==
    /\ NumPorts \in Nat \ {0}
    /\ Gap \in Nat /\ AckTimeout \in Nat /\ 0 < Gap /\ Gap < AckTimeout
    /\ MaxCommands \in Nat /\ MaxReboots \in Nat /\ Late \in BOOLEAN
    /\ IsFiniteSet(Device) /\ IsFiniteSet(Medium) /\ NoDevice \notin Device

VARIABLES
    port,      \* Hub::ports
    dev,       \* Device and its function: address and medium of every device
    since,     \* now - Usb::unplugged_at, up to AckTimeout
    due,       \* Usb::plug_due - now, or NotDue
    \* the hub driver of the firmware
    task,      \* what its task is doing
    child,     \* its children: address and medium they were enumerated from
    cleanup,   \* children queued for removal
    resetting, \* the port whose reset it waits for
    refused,   \* history: ports where it met a connect while a child existed
    wanted,    \* history: the host side last plugged the port in
    commands, reboots

hub    == << port, dev >>
timing == << since, due >>
driver == << task, child, cleanup, resetting, refused >>
vars   == << hub, timing, driver, wanted, commands, reboots >>

Ports    == 1 .. NumPorts
NotDue   == -1
Change   == {"connection", "reset"}
Address  == 0 .. NumPorts
NoChild  == [address |-> 0]
Child    == [address: Address \ {0}, medium: Medium]
Status   == [connection: BOOLEAN, enabled: BOOLEAN, change: SUBSET Change]

PortType == [ device: Device \cup {NoDevice}, connected: BOOLEAN, powered: BOOLEAN,
              enabled: BOOLEAN, change: SUBSET Change ]
TaskType == [pc: {"idle"}]
            \cup [pc: {"power", "ports"}, todo: SUBSET Ports]
            \cup [pc: {"act", "reset"}, todo: SUBSET Ports, port: Ports, status: Status]
            \cup [pc: {"install"}, todo: SUBSET Ports, port: Ports, status: Child]

(* Port::status: a device shows only while powered and plugged in. *)
PortStatus(p) ==
    [ connection |-> port[p].powered /\ port[p].device # NoDevice /\ port[p].connected,
      enabled    |-> port[p].enabled,
      change     |-> port[p].change ]

(* Hub::enabled_devices and Device::find: the first port that answers. *)
Reachable(p) == port[p].enabled /\ port[p].connected /\ port[p].device # NoDevice
Answering(a) == { p \in Ports : Reachable(p) /\ dev[port[p].device].address = a }
Found(a)     == port[Min(Answering(a))].device

(* Hub::port_state: nothing is left of the unplug for the driver to handle. *)
Acknowledged(p) == ~port[p].powered \/ "connection" \notin port[p].change

TypeOK ==
    /\ port \in [Ports -> PortType]
    /\ dev \in [Device -> [address: Address, medium: Medium]]
    /\ since \in [Ports -> 0 .. AckTimeout] /\ due \in [Ports -> NotDue .. Gap]
    /\ task \in TaskType /\ child \in [Ports -> {NoChild} \cup Child]
    /\ cleanup \subseteq Ports /\ resetting \in Ports \cup {0} /\ refused \subseteq Ports
    /\ wanted \in [Ports -> BOOLEAN]
    /\ commands \in 0 .. MaxCommands /\ reboots \in 0 .. MaxReboots

----------------------------------------------------------------------------
(* install and Usb::new: some devices are on their ports from the start. *)
Init ==
    /\ \E at \in [Ports -> Device \cup {NoDevice}] :
         /\ \A p, q \in Ports : at[p] = at[q] /\ at[p] # NoDevice => p = q
         /\ port = [p \in Ports |-> [ device |-> at[p], connected |-> TRUE, powered |-> FALSE,
                                      enabled |-> FALSE, change |-> {} ]]
    /\ dev \in [Device -> [address: {0}, medium: Medium]]
    /\ since = [p \in Ports |-> 0] /\ due = [p \in Ports |-> NotDue]
    /\ task = [pc |-> "power", todo |-> Ports]
    /\ child = [p \in Ports |-> NoChild] /\ cleanup = {} /\ resetting = 0 /\ refused = {}
    /\ wanted = [p \in Ports |-> port[p].device # NoDevice]
    /\ commands = 0 /\ reboots = 0

----------------------------------------------------------------------------
(* The host side.                                                           *)

Command(p, in) ==
    /\ commands < MaxCommands /\ commands' = commands + 1
    /\ wanted' = [wanted EXCEPT ![p] = in]
    /\ UNCHANGED << driver, reboots >>

(* Hub::set_connected on a port that holds a device: what it leaves.  A      *)
(* powered port reports the change; an unplugged one is disabled.            *)
SetConnected(p, on) ==
    [ port[p] EXCEPT !.connected = on,
                     !.enabled = @ /\ on,
                     !.change = IF port[p].powered THEN @ \cup {"connection"} ELSE @ ]

(* Usb::set_connected(port, false): at once, and a waiting plug-in is off. *)
Unplugged(p) ==
    /\ due' = [due EXCEPT ![p] = NotDue]
    /\ since' = IF port[p].connected THEN [since EXCEPT ![p] = 0] ELSE since

PlugOut(p) ==
    /\ Command(p, FALSE) /\ port[p].device # NoDevice
    /\ Unplugged(p)
    /\ port' = IF port[p].connected THEN [port EXCEPT ![p] = SetConnected(p, FALSE)] ELSE port
    /\ UNCHANGED dev

(* Usb::unplug: out, and the device off the port. *)
TakeOff(p) ==
    /\ Command(p, FALSE) /\ port[p].device # NoDevice
    /\ Unplugged(p)
    /\ port' = [port EXCEPT ![p] = [ IF port[p].connected THEN SetConnected(p, FALSE) ELSE port[p]
                                     EXCEPT !.device = NoDevice ]]
    /\ UNCHANGED dev

(* Usb::set_connected(port, true): the gap runs from the unplug. *)
PlugDue(p) == Max({Gap - since[p], 0})

PlugIn(p) ==
    /\ Command(p, TRUE) /\ port[p].device # NoDevice
    /\ due' = [due EXCEPT ![p] = IF port[p].connected THEN NotDue ELSE PlugDue(p)]
    /\ UNCHANGED << hub, since >>

(* Usb::plug: a new device on an empty port, through Hub::insert_unplugged. *)
PlugDevice(p, d, m) ==
    /\ Command(p, TRUE) /\ port[p].device = NoDevice
    /\ \A q \in Ports : port[q].device # d
    /\ port' = [port EXCEPT ![p].device = d, ![p].connected = FALSE]
    /\ dev' = [dev EXCEPT ![d] = [address |-> 0, medium |-> m]]
    /\ due' = [due EXCEPT ![p] = PlugDue(p)]
    /\ UNCHANGED since

(* Usb::replace_backend, as start_replug and its reply use it: while the    *)
(* stick is out of its port and no plug-in is due.  The device keeps its    *)
(* address: Storage::replace_backend resets the function only.              *)
Replace(p, m) ==
    /\ port[p].device # NoDevice /\ ~port[p].connected /\ due[p] = NotDue
    /\ dev' = [dev EXCEPT ![port[p].device].medium = m]
    /\ UNCHANGED << port, timing, driver, wanted, commands, reboots >>

----------------------------------------------------------------------------
(* Time.                                                                    *)

(* Mutants: nothing waits for the acknowledgement; a check is made once. *)
MayPlugInAlways(p) == TRUE
PlugDueAgainNever(p) == IF due[p] # 0 THEN due[p] ELSE NotDue

(* Usb::plug_in_due: the plug-ins that are due go in, or are looked at again *)
(* after REPLUG_POLL.                                                        *)
MayPlugIn(p) == Acknowledged(p) \/ since[p] >= AckTimeout

PlugDueAgain(p) == IF due[p] # 0 THEN due[p] ELSE IF MayPlugIn(p) THEN NotDue ELSE 1

PlugInDue ==
    /\ \E p \in Ports : due[p] = 0
    /\ port' = [p \in Ports |-> IF due[p] = 0 /\ MayPlugIn(p) /\ ~port[p].connected
                                  THEN SetConnected(p, TRUE) ELSE port[p]]
    /\ due' = [p \in Ports |-> PlugDueAgain(p)]
    /\ UNCHANGED << dev, since, driver, wanted, commands, reboots >>

(* Unless it is Late, the driver acknowledges an unplug within AckTimeout,   *)
(* and is done within Gap with the status it had read before the unplug.     *)
Handles(p)   == task.pc \in {"act", "reset", "install"} /\ task.port = p
DriverInTime ==
    \A p \in Ports : ~port[p].connected =>
        /\ since[p] + 1 >= AckTimeout => Acknowledged(p)
        /\ since[p] + 1 = Gap => ~Handles(p)

Tick ==
    /\ \A p \in Ports : due[p] # 0
    /\ Late \/ DriverInTime
    /\ since' = [p \in Ports |-> Min({since[p] + 1, AckTimeout})]
    /\ due' = [p \in Ports |-> IF due[p] = NotDue THEN NotDue ELSE due[p] - 1]
    /\ since' # since \/ due' # due
    /\ UNCHANGED << hub, driver, wanted, commands, reboots >>

(* Hub::reset, for one port. *)
HubReset(p) == [port[p] EXCEPT !.powered = FALSE, !.enabled = FALSE, !.change = {}]

(* Usb::reset with Hub::reset and Device::reset: the ports lose power, the   *)
(* firmware starts again; waiting plug-ins go on waiting.                    *)
Reboot ==
    /\ reboots < MaxReboots /\ reboots' = reboots + 1
    /\ port' = [p \in Ports |-> HubReset(p)]
    /\ dev' = [d \in Device |-> IF \E p \in Ports : port[p].device = d
                                  THEN [dev[d] EXCEPT !.address = 0] ELSE dev[d]]
    /\ task' = [pc |-> "power", todo |-> Ports]
    /\ child' = [p \in Ports |-> NoChild] /\ cleanup' = {} /\ resetting' = 0
    /\ UNCHANGED << timing, refused, wanted, commands >>

----------------------------------------------------------------------------
(* Requests to the hub (Port::set_feature and clear_feature).               *)

PowerPort(p) ==
    [ port[p] EXCEPT !.powered = TRUE,
                     !.change = IF ~port[p].powered /\ port[p].device # NoDevice /\ port[p].connected
                                  THEN @ \cup {"connection"} ELSE @ ]

(* SET PORT_RESET: a device that is there starts at address 0, enabled. *)
Resets(p) == port[p].powered /\ port[p].connected /\ port[p].device # NoDevice
ResetPort(p) ==
    [ port[p] EXCEPT !.enabled = @ \/ Resets(p),
                     !.change = IF port[p].powered THEN @ \cup {"reset"} ELSE @ ]
ResetDevice(p) ==
    IF Resets(p) THEN [dev EXCEPT ![port[p].device].address = 0] ELSE dev

ClearChange(p, c) == [port EXCEPT ![p].change = @ \ {c}]

----------------------------------------------------------------------------
(* The hub driver, one task: power the ports, then poll.  A poll first       *)
(* removes the children queued for it, then handles a report.                *)

Driving == UNCHANGED << timing, wanted, commands, reboots >>

Power ==
    /\ task.pc = "power" /\ task.todo # {}
    /\ LET p == Min(task.todo) IN
         /\ port' = [port EXCEPT ![p] = PowerPort(p)]
         /\ task' = IF task.todo = {p} THEN [pc |-> "idle"]
                    ELSE [task EXCEPT !.todo = @ \ {p}]
    /\ UNCHANGED << dev, child, cleanup, resetting, refused >> /\ Driving

Cleanup ==
    /\ task.pc = "idle" /\ cleanup # {}
    /\ child' = [p \in Ports |-> IF p \in cleanup THEN NoChild ELSE child[p]]
    /\ cleanup' = {}
    /\ UNCHANGED << hub, task, resetting, refused >> /\ Driving

(* Hub::input: the bitmap of ports with a change, NAK while there is none. *)
Bitmap == { p \in Ports : port[p].change # {} }

Report ==
    /\ task.pc = "idle" /\ cleanup = {} /\ Bitmap # {}
    /\ task' = [pc |-> "ports", todo |-> Bitmap]
    /\ UNCHANGED << hub, child, cleanup, resetting, refused >> /\ Driving

Then(todo) == IF todo = {} THEN [pc |-> "idle"] ELSE [pc |-> "ports", todo |-> todo]

ReadStatus ==
    /\ task.pc = "ports"
    /\ LET p == Min(task.todo) IN
         task' = [pc |-> "act", todo |-> task.todo \ {p}, port |-> p, status |-> PortStatus(p)]
    /\ UNCHANGED << hub, child, cleanup, resetting, refused >> /\ Driving

(* What the driver does with the status it has read. *)
SeesConnect    == "connection" \in task.status.change /\ task.status.connection /\ resetting = 0
SeesDisconnect == "connection" \in task.status.change /\ ~task.status.connection
SeesReset      == ~SeesConnect /\ ~SeesDisconnect /\ "reset" \in task.status.change

ActConnect ==
    /\ task.pc = "act" /\ SeesConnect
    /\ port' = ClearChange(task.port, "connection")
    /\ task' = [task EXCEPT !.pc = "reset"]
    /\ UNCHANGED << dev, child, cleanup, resetting, refused >> /\ Driving

StartReset ==
    /\ task.pc = "reset"
    /\ port' = [port EXCEPT ![task.port] = ResetPort(task.port)]
    /\ dev' = ResetDevice(task.port)
    /\ resetting' = task.port /\ task' = Then(task.todo)
    /\ UNCHANGED << child, cleanup, refused >> /\ Driving

ActDisconnect ==
    /\ task.pc = "act" /\ SeesDisconnect
    /\ port' = ClearChange(task.port, "connection")
    /\ cleanup' = IF child[task.port] # NoChild THEN cleanup \cup {task.port} ELSE cleanup
    /\ task' = Then(task.todo)
    /\ UNCHANGED << dev, child, resetting, refused >> /\ Driving

(* The reset is over: "Device already present!", or the device at address 0 *)
(* gets an address no child has; nothing there, or no enable, gives up.      *)
FreeAddress == Min((Address \ {0}) \ { child[p].address : p \in Ports })

ActReset ==
    /\ task.pc = "act" /\ SeesReset
    /\ port' = ClearChange(task.port, "reset")
    /\ resetting' = 0
    /\ IF task.status.enabled /\ child[task.port] = NoChild /\ Answering(0) # {}
         THEN /\ dev' = [dev EXCEPT ![Found(0)].address = FreeAddress]
              /\ task' = [task EXCEPT !.pc = "install",
                                      !.status = [address |-> FreeAddress, medium |-> dev[Found(0)].medium]]
              /\ UNCHANGED refused
         ELSE /\ task' = Then(task.todo)
              /\ refused' = IF task.status.enabled /\ child[task.port] # NoChild
                              THEN refused \cup {task.port} ELSE refused
              /\ UNCHANGED dev
    /\ UNCHANGED << child, cleanup >> /\ Driving

Install ==
    /\ task.pc = "install"
    /\ child' = [child EXCEPT ![task.port] = task.status]
    /\ task' = Then(task.todo)
    /\ UNCHANGED << hub, cleanup, resetting, refused >> /\ Driving

ActNothing ==
    /\ task.pc = "act" /\ ~SeesConnect /\ ~SeesDisconnect /\ ~SeesReset
    /\ task' = Then(task.todo)
    /\ UNCHANGED << hub, child, cleanup, resetting, refused >> /\ Driving

Driver == \/ Power \/ Cleanup \/ Report \/ ReadStatus \/ ActConnect \/ StartReset
          \/ ActDisconnect \/ ActReset \/ Install \/ ActNothing

User == \E p \in Ports :
    \/ PlugOut(p) \/ TakeOff(p) \/ PlugIn(p)
    \/ \E m \in Medium : Replace(p, m) \/ \E d \in Device : PlugDevice(p, d, m)

Next == User \/ PlugInDue \/ Tick \/ Reboot \/ Driver

Spec     == Init /\ [][Next]_vars
FairSpec == Spec /\ WF_vars(Driver) /\ WF_vars(PlugInDue \/ Tick)

----------------------------------------------------------------------------
(* No plug-in reaches the driver before it has removed the child of the      *)
(* unplug: it would answer "Device already present!" and leave the stick     *)
(* dead (mod.rs, the comments of REPLUG_GAP and set_connected).              *)
NeverRefused == refused = {}

(* What answers at a child's address is what the driver enumerated there:    *)
(* transfers meant for one medium never reach another.                       *)
OwnMedium ==
    \A p \in Ports : child[p] # NoChild /\ Answering(child[p].address) # {} =>
        /\ Found(child[p].address) = port[p].device
        /\ dev[Found(child[p].address)].medium = child[p].medium

(* No two devices answer at one address, the default address included.      *)
OneAnswer == \A a \in Address : Cardinality(Answering(a)) <= 1

(* No two ports hold one device; only a port that is there is enabled; no    *)
(* change is reported for a port without power or that never had a device.   *)
PortsHonest ==
    \A p \in Ports :
        /\ \A q \in Ports : port[p].device = port[q].device /\ port[p].device # NoDevice => p = q
        /\ port[p].enabled => Resets(p) /\ "connection" \notin port[p].change
        /\ ~port[p].powered => port[p].change = {}
        /\ port[p].device = NoDevice /\ port[p].connected => port[p].change = {}

(* A plug-in has a device and waits for the gap, and an unplug that has been  *)
(* there for the whole AckTimeout has been acknowledged.                      *)
PlugInsWait ==
    \A p \in Ports :
        /\ due[p] # NotDue => port[p].device # NoDevice /\ since[p] + due[p] >= Gap
        /\ ~port[p].connected /\ since[p] = AckTimeout => Acknowledged(p)

(* The ports of the report that the driver has still to look at. *)
Pending == IF task.pc \in {"idle", "power"} THEN {} ELSE task.todo

(* The driver has powered what it works on, resets one port at a time, and    *)
(* the reset change is there until it has handled it.                         *)
DriverInStep ==
    /\ \A p \in Ports :
         /\ ~port[p].powered => task.pc = "power" /\ p \in task.todo
         /\ "reset" \in port[p].change <=> resetting = p
         /\ p \in Pending => port[p].change # {} /\ ~Handles(p)
    /\ task.pc = "power" => resetting = 0 /\ task.todo # {} /\ \A p \in Ports : child[p] = NoChild
    /\ task.pc = "ports" => task.todo # {}

(* What a port was when the driver read its status, as far as it still holds: *)
(* a port unplugged since is not plugged in before the driver is done.        *)
StatusStillTrue ==
    LET p == task.port IN
    /\ task.pc = "act" =>
         /\ task.status.change # {} /\ task.status.change \subseteq port[p].change
         /\ port[p].enabled => task.status.enabled
         /\ task.status.enabled => task.status.connection
         /\ ~port[p].connected /\ task.status.connection => since[p] < Gap
         /\ ~task.status.connection /\ "connection" \in task.status.change => ~port[p].connected
    /\ task.pc \in {"reset", "install"} =>
         /\ child[p] = NoChild /\ resetting = 0
         /\ ~port[p].connected => since[p] < Gap
         /\ port[p].connected => port[p].device # NoDevice /\ "connection" \notin port[p].change
    /\ task.pc = "install" =>
         IF port[p].connected THEN port[p].enabled /\ dev[port[p].device] = task.status
         ELSE "connection" \in port[p].change

(* A child is its port's device while that is in; when it is out, the driver *)
(* is yet to be told or has queued the child for removal, and then it does   *)
(* not look at the port again before it has removed the child.               *)
ChildrenFollow ==
    \A p \in Ports :
        /\ child[p] # NoChild /\ p \notin cleanup =>
             IF port[p].connected
             THEN port[p].enabled /\ port[p].change = {} /\ dev[port[p].device] = child[p]
             ELSE /\ port[p].change = {"connection"}
                  /\ Handles(p) => task.pc = "act" /\ ~task.status.connection
        /\ p \in cleanup => child[p] # NoChild /\ ~port[p].enabled /\ p \notin Pending /\ ~Handles(p)

(* A device that answers has the address of its child, the address it is     *)
(* about to be installed with, or is the one under reset; these all differ.  *)
AddressesApart ==
    \A p \in Ports :
        /\ port[p].enabled /\ child[p] = NoChild =>
             \/ resetting = p /\ dev[port[p].device].address = 0
             \/ task.pc = "install" /\ task.port = p
        /\ child[p] # NoChild =>
             /\ \A q \in Ports : child[q] # NoChild /\ child[q].address = child[p].address => p = q
             /\ task.pc = "install" => task.status.address # child[p].address

(* Whatever is plugged and swapped at whatever step of the driver: no stick   *)
(* goes dead and no command reaches the wrong one.  The parts after the      *)
(* first four are what makes the invariant inductive.                        *)
UsbHubInvariant ==
    /\ TypeOK /\ NeverRefused /\ OwnMedium /\ OneAnswer
    /\ PortsHonest /\ PlugInsWait /\ DriverInStep /\ StatusStillTrue /\ ChildrenFollow /\ AddressesApart

(* A device that is plugged in, at the start or later, and not taken back    *)
(* ends in use by the driver, also after a reset of the machine.             *)
InUse(p) == child[p] # NoChild /\ Answering(child[p].address) = {p}
PlugInArrives(p) == wanted[p] ~> InUse(p) \/ ~wanted[p]

(* And an unplugged device's child does not stay.                            *)
UnplugArrives(p) == ~port[p].connected /\ child[p] # NoChild ~> child[p] = NoChild \/ port[p].connected

PlugsArrive == \A p \in Ports : PlugInArrives(p) /\ UnplugArrives(p)
=============================================================================
