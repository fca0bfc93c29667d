---------------------------- MODULE UsbHubProofs ----------------------------
(***************************************************************************)
(* Hot-plug on the USB hub: for every number of ports, devices and media   *)
(* and every sequence of commands, a driver that acknowledges in time meets *)
(* no plug-in it refuses and no device other than the one it enumerated.   *)
(***************************************************************************)
EXTENDS UsbHub, FiniteSetTheorems, WellFoundedInduction, TLAPS

LEMMA Sizes == NumPorts \in Nat /\ 0 < NumPorts /\ Gap \in Nat /\ AckTimeout \in Nat /\ 0 < Gap /\ Gap < AckTimeout
               /\ MaxCommands \in Nat /\ MaxReboots \in Nat
  BY UsbHubAssumption

(* A set of numbers has a least one: of the intervals up to its members, one *)
(* contains no other.                                                       *)
LEMMA LeastOf == ASSUME NEW S \in SUBSET Nat, S # {} PROVE Min(S) \in S /\ \A n \in S : Min(S) <= n
  <1> DEFINE Upto == {0 .. n : n \in S}
  <1> DEFINE R == StrictSubsetOrdering(Nat)
  <1>1. Upto \subseteq FiniteSubsetsOf(Nat) /\ Upto # {}
    <2>1. ASSUME NEW n \in S PROVE 0 .. n \in FiniteSubsetsOf(Nat) BY FS_Interval DEF FiniteSubsetsOf
    <2>2. QED BY <2>1
  <1>2. IsWellFoundedOn(R, FiniteSubsetsOf(Nat)) BY FS_StrictSubsetOrderingWellFounded
  <1>3. \E T \in Upto : \A U \in Upto : ~(<<U, T>> \in R)
    <2> HIDE DEF Upto, R
    <2>1. QED BY <1>1, <1>2, WFMin
  <1>4. PICK x \in S : \A y \in S : ~(<<0 .. y, 0 .. x>> \in R) BY <1>3
  <1>5. ASSUME NEW y \in S PROVE x <= y
    <2>1. SUFFICES ASSUME y < x PROVE FALSE OBVIOUS
    <2>2. 0 .. y \subseteq 0 .. x /\ x \in 0 .. x /\ x \notin 0 .. y BY <2>1
    <2>3. 0 .. y \in SUBSET Nat /\ 0 .. x \in SUBSET Nat OBVIOUS
    <2>4. 0 .. y # 0 .. x BY <2>2
    <2>5. <<0 .. y, 0 .. x>> \in R BY <2>2, <2>3, <2>4 DEF StrictSubsetOrdering
    <2>6. QED BY <1>4, <2>5
  <1>6. QED BY <1>5 DEF Min

(* While some port has no child there is an address that no child has. *)
LEMMA AddressIsFree ==
  ASSUME TypeOK, NEW p \in Ports, child[p] = NoChild
  PROVE  FreeAddress \in Address \ {0} /\ \A q \in Ports : child[q].address # FreeAddress
  <1> DEFINE Free == (Address \ {0}) \ {child[q].address : q \in Ports}
  <1> DEFINE at == [a \in Ports |-> CHOOSE q \in Ports \ {p} : child[q].address = a]
  <1>1. Address \ {0} = Ports /\ Ports \subseteq Nat BY Sizes DEF Address, Ports
  <1>2. Free # {}
    <2>1. SUFFICES ASSUME Free = {} PROVE FALSE OBVIOUS
    <2>2. ASSUME NEW a \in Ports PROVE \E q \in Ports \ {p} : child[q].address = a
      <3>1. \E q \in Ports : child[q].address = a BY <2>1, <1>1
      <3>2. child[p].address = 0 /\ a # 0 BY <1>1 DEF NoChild
      <3>3. QED BY <3>1, <3>2
    <2>3. at \in [Ports -> Ports \ {p}] /\ \A a \in Ports : child[at[a]].address = a BY <2>2
    <2>4. IsFiniteSet(Ports) /\ Cardinality(Ports) = NumPorts BY Sizes, FS_Interval DEF Ports
    <2>5. IsFiniteSet(Ports \ {p}) /\ Cardinality(Ports \ {p}) = NumPorts - 1 BY <2>4, FS_RemoveElement
    <2> HIDE DEF at
    <2>6. \E a, b \in Ports : a # b /\ at[a] = at[b] BY <2>3, <2>4, <2>5, Sizes, FS_PigeonHole
    <2>7. QED BY <2>3, <2>6
  <1>3. Free \in SUBSET Nat BY <1>1
  <1>4. FreeAddress \in Free BY <1>2, <1>3, LeastOf DEF FreeAddress
  <1>5. QED BY <1>4

-----------------------------------------------------------------------------
(* The inductive part of the invariant, and what follows from it: the device *)
(* that answers at a child's address is the child's, and no two answer.      *)
Core == /\ TypeOK /\ NeverRefused
        /\ PortsHonest /\ PlugInsWait /\ DriverInStep /\ StatusStillTrue /\ ChildrenFollow /\ AddressesApart

LEMMA TaskIs ==
  ASSUME TypeOK
  PROVE  /\ task.pc \in {"power", "idle", "ports", "act", "reset", "install"}
         /\ task.pc # "idle" => task.todo \in SUBSET Ports
         /\ task.pc \in {"act", "reset", "install"} => task.port \in Ports
         /\ task.pc \in {"act", "reset"} => task.status \in Status
         /\ task.pc = "install" => task.status \in Child
  <1>1. task \in TaskType BY DEF TypeOK
  <1>2. QED BY <1>1 DEF TaskType

LEMMA PortIs ==
  ASSUME TypeOK, NEW p \in Ports
  PROVE  port[p] \in PortType /\ (port[p].device # NoDevice => port[p].device \in Device)
         /\ port[p].connected \in BOOLEAN /\ port[p].powered \in BOOLEAN /\ port[p].enabled \in BOOLEAN
         /\ port[p].change \in SUBSET Change
  BY DEF TypeOK, PortType

(* Whoever answers at an address is enabled, and that says which address it has. *)
LEMMA AnswersAt ==
  ASSUME Core, NEW p \in Ports, port[p].enabled
  PROVE  \/ child[p] = NoChild /\ resetting = p /\ dev[port[p].device].address = 0
         \/ child[p] = NoChild /\ task.pc = "install" /\ task.port = p /\ dev[port[p].device] = task.status
         \/ child[p] # NoChild /\ dev[port[p].device] = child[p]
  <1>1. Resets(p) /\ port[p].connected BY DEF Core, PortsHonest, Resets
  <1>2. CASE child[p] # NoChild BY <1>1, <1>2 DEF Core, ChildrenFollow
  <1>3. CASE child[p] = NoChild BY <1>1, <1>3 DEF Core, AddressesApart, StatusStillTrue
  <1>4. QED BY <1>2, <1>3

LEMMA OneAnswers ==
  ASSUME Core, NEW p \in Ports, NEW q \in Ports, port[p].enabled, port[q].enabled,
         dev[port[p].device].address = dev[port[q].device].address
  PROVE  p = q
  <1>1. \A r \in Ports : child[r] # NoChild => child[r] \in Child /\ child[r].address # 0
    BY DEF Core, TypeOK, Child
  <1>2. task.pc = "install" => task.status.address # 0 BY TaskIs DEF Core, Child
  <1>3. QED BY <1>1, <1>2, AnswersAt DEF Core, AddressesApart

LEMMA CoreImplies == ASSUME Core PROVE UsbHubInvariant
  <1>1. ASSUME NEW a PROVE /\ \A p, q \in Answering(a) : p = q
                           /\ \A p \in Answering(a) : Min(Answering(a)) = p
    <2>1. \A p, q \in Answering(a) : p = q BY OneAnswers DEF Answering, Reachable
    <2>2. ASSUME NEW p \in Answering(a) PROVE Min(Answering(a)) = p
      <3>1. Answering(a) \in SUBSET Nat BY DEF Answering, Ports
      <3>2. QED BY <2>1, <3>1, LeastOf
    <2>3. QED BY <2>1, <2>2
  <1>2. OneAnswer
    <2>1. ASSUME NEW a \in Address PROVE Cardinality(Answering(a)) <= 1
      <3>1. CASE Answering(a) = {} BY <3>1, FS_EmptySet
      <3>2. CASE Answering(a) # {}
        <4>1. PICK p \in Answering(a) : Answering(a) = {p} BY <1>1, <3>2
        <4>2. Cardinality({p}) = 1 BY FS_Singleton
        <4>3. QED BY <4>1, <4>2
      <3>3. QED BY <3>1, <3>2
    <2>2. QED BY <2>1 DEF OneAnswer
  <1>3. OwnMedium
    <2>1. ASSUME NEW p \in Ports, child[p] # NoChild, NEW q \in Answering(child[p].address)
          PROVE  /\ Found(child[p].address) = port[p].device
                 /\ dev[Found(child[p].address)].medium = child[p].medium
      <3>1. q \in Ports /\ port[q].enabled /\ dev[port[q].device].address = child[p].address
        BY DEF Answering, Reachable
      <3>2. child[p].address # 0 BY <2>1 DEF Core, TypeOK, Child
      <3>3. child[q] # NoChild /\ dev[port[q].device] = child[q]
        BY <2>1, <3>1, <3>2, AnswersAt DEF Core, AddressesApart
      <3>4. q = p BY <2>1, <3>1, <3>3 DEF Core, AddressesApart
      <3>5. Found(child[p].address) = port[p].device BY <1>1, <3>4 DEF Found
      <3>6. QED BY <3>3, <3>4, <3>5
    <2>2. QED BY <2>1 DEF OwnMedium
  <1>4. QED BY <1>2, <1>3 DEF Core, UsbHubInvariant
-----------------------------------------------------------------------------
LEMMA InitHolds == Init => Core
  <1> SUFFICES ASSUME Init PROVE Core OBVIOUS
  <1>1. PICK at \in [Ports -> Device \cup {NoDevice}] :
          /\ \A p, q \in Ports : at[p] = at[q] /\ at[p] # NoDevice => p = q
          /\ port = [p \in Ports |-> [ device |-> at[p], connected |-> TRUE, powered |-> FALSE,
                                       enabled |-> FALSE, change |-> {} ]]
    BY DEF Init
  <1>2. \A p \in Ports : /\ port[p].device = at[p] /\ port[p].connected /\ ~port[p].powered
                         /\ ~port[p].enabled /\ port[p].change = {}
    BY <1>1
  <1>3. task.pc = "power" /\ task.todo = Ports BY DEF Init
  <1>4. 1 \in Ports /\ 0 \notin Ports BY Sizes DEF Ports
  <1>5. TypeOK
    <2>1. port \in [Ports -> PortType] BY <1>1 DEF PortType
    <2>2. dev \in [Device -> [address: Address, medium: Medium]] BY Sizes DEF Init, Address
    <2>3. since \in [Ports -> 0 .. AckTimeout] /\ due \in [Ports -> NotDue .. Gap]
      BY Sizes DEF Init, NotDue
    <2>4. task \in TaskType BY DEF Init, TaskType
    <2>5. child \in [Ports -> {NoChild} \cup Child] BY DEF Init
    <2>6. wanted \in [Ports -> BOOLEAN] BY DEF Init
    <2>7. QED BY <2>1, <2>2, <2>3, <2>4, <2>5, <2>6, Sizes DEF Init, TypeOK
  <1>6. PortsHonest BY <1>1, <1>2 DEF PortsHonest
  <1>7. PlugInsWait BY <1>2, Sizes DEF Init, PlugInsWait
  <1>8. DriverInStep BY <1>2, <1>3, <1>4 DEF Init, DriverInStep, Pending
  <1>9. StatusStillTrue BY <1>3 DEF StatusStillTrue
  <1>10. ChildrenFollow /\ AddressesApart /\ NeverRefused
    BY <1>2 DEF Init, ChildrenFollow, AddressesApart, NeverRefused
  <1>11. QED BY <1>5, <1>6, <1>7, <1>8, <1>9, <1>10 DEF Core

-----------------------------------------------------------------------------
(* What a step of the host side or of time does to one port, as far as the   *)
(* driver can tell: nothing, unless the device is out; it leaves; a device   *)
(* is put on a port that never had one; the device enters.                   *)
SameDevice(p) == port[p].device # NoDevice => dev'[port[p].device] = dev[port[p].device]

Stays(p) ==
    /\ port'[p].connected = port[p].connected /\ port'[p].enabled = port[p].enabled
    /\ port'[p].change = port[p].change /\ since'[p] = since[p]
    /\ port[p].connected => port'[p].device = port[p].device /\ SameDevice(p)

Reported(p) == IF port[p].powered THEN port[p].change \cup {"connection"} ELSE port[p].change

Leaves(p) ==
    /\ port[p].connected /\ ~port'[p].connected /\ ~port'[p].enabled
    /\ port'[p].change = Reported(p) /\ since'[p] = 0

Lands(p) ==
    /\ port[p].connected /\ port[p].device = NoDevice /\ ~port'[p].connected
    /\ port'[p].enabled = port[p].enabled
    /\ port'[p].change = port[p].change /\ since'[p] = since[p]

Enters(p) ==
    /\ ~port[p].connected /\ port'[p].connected /\ port'[p].enabled = port[p].enabled
    /\ port'[p].change = Reported(p) /\ since'[p] = since[p]
    /\ port'[p].device = port[p].device /\ port[p].device # NoDevice
    /\ Acknowledged(p) /\ Gap <= since[p]

HostStep ==
    /\ UNCHANGED driver
    /\ \A p \in Ports : /\ port'[p].powered = port[p].powered
                        /\ Stays(p) \/ Leaves(p) \/ Lands(p) \/ Enters(p)
                        /\ due'[p] # NotDue => port'[p].device # NoDevice /\ since'[p] + due'[p] >= Gap
    /\ \A p, q \in Ports : port'[p].device = port'[q].device /\ port'[p].device # NoDevice => p = q

LEMMA HostKeeps == ASSUME Core, TypeOK', HostStep PROVE Core'
  <1> USE DEF HostStep, driver
  <1>1. PortsHonest'
    <2>1. ASSUME NEW p \in Ports
          PROVE  /\ port'[p].enabled => Resets(p)' /\ "connection" \notin port'[p].change
                 /\ ~port'[p].powered => port'[p].change = {}
                 /\ port'[p].device = NoDevice /\ port'[p].connected => port'[p].change = {}
      BY DEF Core, PortsHonest, Resets, Stays, Leaves, Lands, Enters, Reported
    <2>2. QED BY <2>1 DEF PortsHonest
  <1>2. PlugInsWait'
    <2>1. ASSUME NEW p \in Ports, ~port'[p].connected, since'[p] = AckTimeout PROVE Acknowledged(p)'
      BY <2>1, Sizes DEF Core, PlugInsWait, PortsHonest, Acknowledged, Stays, Leaves, Lands, Enters
    <2>2. QED BY <2>1 DEF PlugInsWait
  <1>3. DriverInStep'
    <2>1. ASSUME NEW p \in Ports
          PROVE  /\ "reset" \in port'[p].change <=> "reset" \in port[p].change
                 /\ port[p].change # {} => port'[p].change # {}
      <3>1. port'[p].change \in {port[p].change, Reported(p)} BY DEF Stays, Leaves, Lands, Enters
      <3>2. QED BY <3>1 DEF Reported
    <2>2. QED BY <2>1 DEF Core, DriverInStep, Pending, Handles
  <1>4. StatusStillTrue'
    <2> DEFINE p == task.port
    <2>1. CASE task.pc = "act"
      <3>1. p \in Ports /\ task.status \in Status BY <2>1, TaskIs DEF Core
      <3>2. /\ task.status.change # {} /\ task.status.change \subseteq port[p].change
            /\ port[p].enabled => task.status.enabled
            /\ task.status.enabled => task.status.connection
            /\ ~port[p].connected /\ task.status.connection => since[p] < Gap
            /\ ~task.status.connection /\ "connection" \in task.status.change => ~port[p].connected
        BY <2>1 DEF Core, StatusStillTrue
      <3>3. port[p].device = NoDevice /\ port[p].connected => port[p].change = {}
        BY <3>1 DEF Core, PortsHonest
      <3>4. port[p].powered BY <2>1, <3>1 DEF Core, DriverInStep
      <3>5. port'[p].change \in {port[p].change, Reported(p)} BY <3>1 DEF Stays, Leaves, Lands, Enters
      <3>6. task.status.change \subseteq port'[p].change BY <3>2, <3>5 DEF Reported
      <3>7. port'[p].enabled => task.status.enabled BY <3>1, <3>2 DEF Stays, Leaves, Lands, Enters
      <3>8. ~port'[p].connected /\ task.status.connection => since'[p] < Gap
        BY <3>1, <3>2, <3>3, Sizes DEF Stays, Leaves, Lands, Enters
      <3>9. ~task.status.connection /\ "connection" \in task.status.change => ~port'[p].connected
        BY <3>1, <3>2, <3>4 DEF Stays, Leaves, Lands, Enters, Acknowledged
      <3>10. QED BY <2>1, <3>2, <3>6, <3>7, <3>8, <3>9 DEF StatusStillTrue
    <2>2. CASE task.pc \in {"reset", "install"}
      <3>1. p \in Ports BY <2>2, TaskIs DEF Core
      <3>2. /\ child[p] = NoChild /\ resetting = 0
            /\ ~port[p].connected => since[p] < Gap
            /\ port[p].connected => port[p].device # NoDevice /\ "connection" \notin port[p].change
        BY <2>2 DEF Core, StatusStillTrue
      <3>3. port[p].powered /\ since[p] \in Int BY <2>2, <3>1 DEF Core, DriverInStep, TypeOK
      <3>4. ~Enters(p) BY <3>1, <3>2, <3>3, Sizes DEF Enters
      <3>5. ~port'[p].connected => since'[p] < Gap
        BY <3>1, <3>2, Sizes DEF Stays, Leaves, Lands, Enters
      <3>6. port'[p].connected => port'[p].device # NoDevice /\ "connection" \notin port'[p].change
        BY <3>1, <3>2, <3>4 DEF Stays, Leaves, Lands
      <3>7. CASE task.pc = "install"
        <4>1. IF port[p].connected THEN port[p].enabled /\ dev[port[p].device] = task.status
              ELSE "connection" \in port[p].change
          BY <3>7 DEF Core, StatusStillTrue
        <4>2. IF port'[p].connected THEN port'[p].enabled /\ dev'[port'[p].device] = task.status
              ELSE "connection" \in port'[p].change
          BY <3>1, <3>2, <3>3, <3>4, <4>1 DEF Stays, Leaves, Lands, Reported, SameDevice
        <4>3. QED BY <3>2, <3>5, <3>6, <3>7, <4>2 DEF StatusStillTrue
      <3>8. QED BY <2>2, <3>2, <3>5, <3>6, <3>7 DEF StatusStillTrue
    <2>3. QED BY <2>1, <2>2 DEF StatusStillTrue
  <1>5. ChildrenFollow'
    <2>1. ASSUME NEW p \in Ports, p \in cleanup PROVE ~port'[p].enabled
      BY <2>1 DEF Core, ChildrenFollow, Stays, Leaves, Lands, Enters
    <2>2. ASSUME NEW p \in Ports, child[p] # NoChild, p \notin cleanup
          PROVE  IF port'[p].connected
                 THEN port'[p].enabled /\ port'[p].change = {} /\ dev'[port'[p].device] = child[p]
                 ELSE /\ port'[p].change = {"connection"}
                      /\ Handles(p) => task.pc = "act" /\ ~task.status.connection
      <3>1. IF port[p].connected
            THEN port[p].enabled /\ port[p].change = {} /\ dev[port[p].device] = child[p]
            ELSE /\ port[p].change = {"connection"}
                 /\ Handles(p) => task.pc = "act" /\ ~task.status.connection
        BY <2>2 DEF Core, ChildrenFollow
      <3>2. port[p].powered BY <2>2 DEF Core, DriverInStep
      <3>3. port[p].enabled => port[p].device # NoDevice BY DEF Core, PortsHonest, Resets
      <3>4. port[p].connected => ~Handles(p)
        BY <2>2, <3>1 DEF Core, StatusStillTrue, Handles
      <3>5. CASE port[p].connected
        <4>1. ~Lands(p) /\ ~Enters(p) BY <3>1, <3>3, <3>5 DEF Lands, Enters
        <4>2. QED BY <3>1, <3>2, <3>3, <3>4, <3>5, <4>1 DEF Stays, Leaves, Reported, SameDevice
      <3>6. CASE ~port[p].connected
        <4>1. ~Leaves(p) /\ ~Lands(p) /\ ~Enters(p)
          BY <3>1, <3>2, <3>6 DEF Leaves, Lands, Enters, Acknowledged
        <4>2. QED BY <3>1, <3>6, <4>1 DEF Stays
      <3>7. QED BY <3>5, <3>6
    <2>3. \A p \in Ports : Handles(p)' = Handles(p) BY DEF Handles
    <2>4. QED BY <2>1, <2>2, <2>3 DEF Core, ChildrenFollow, Pending
  <1>6. AddressesApart'
    <2>1. ASSUME NEW p \in Ports, port'[p].enabled
          PROVE  port[p].enabled /\ port'[p].device = port[p].device
                 /\ dev'[port[p].device] = dev[port[p].device]
      <3>1. ~Leaves(p) /\ ~Lands(p) /\ ~Enters(p) 
        BY <2>1 DEF Core, PortsHonest, Resets, Leaves, Lands, Enters
      <3>2. QED BY <2>1, <3>1 DEF Core, PortsHonest, Resets, Stays, SameDevice
    <2>2. QED BY <2>1 DEF Core, AddressesApart
  <1>7. NeverRefused' BY DEF Core, NeverRefused
  <1>8. QED BY <1>1, <1>2, <1>3, <1>4, <1>5, <1>6, <1>7 DEF Core
LEMMA SetConnectedIs ==
  ASSUME TypeOK, NEW p \in Ports, NEW on \in BOOLEAN
  PROVE  /\ SetConnected(p, on) \in PortType
         /\ SetConnected(p, on).device = port[p].device /\ SetConnected(p, on).powered = port[p].powered
         /\ SetConnected(p, on).connected = on /\ SetConnected(p, on).enabled = (port[p].enabled /\ on)
         /\ SetConnected(p, on).change = Reported(p)
  <1>1. port[p] \in PortType BY PortIs
  <1>2. Reported(p) \in SUBSET Change BY <1>1 DEF Reported, Change, PortType
  <1>3. SetConnected(p, on) = [ port[p] EXCEPT !.connected = on, !.enabled = port[p].enabled /\ on,
                                               !.change = Reported(p) ]
    BY DEF SetConnected, Reported
  <1>4. port[p].enabled \in BOOLEAN /\ (port[p].enabled /\ on) \in BOOLEAN BY <1>1 DEF PortType
  <1> HIDE DEF SetConnected, Reported
  <1>5. QED BY <1>1, <1>2, <1>3, <1>4 DEF PortType

LEMMA UnpluggedIs ==
  ASSUME Core, NEW p \in Ports, Unplugged(p)
  PROVE  /\ since' \in [Ports -> 0 .. AckTimeout] /\ due' \in [Ports -> NotDue .. Gap]
         /\ due'[p] = NotDue /\ since'[p] = IF port[p].connected THEN 0 ELSE since[p]
         /\ \A q \in Ports \ {p} : due'[q] = due[q] /\ since'[q] = since[q]
  BY Sizes DEF Core, TypeOK, Unplugged, NotDue

(* A command that changes one port. *)
LEMMA OnePortStep ==
  ASSUME Core, NEW p \in Ports, UNCHANGED driver,
         \A q \in Ports \ {p} : /\ port'[q] = port[q] /\ SameDevice(q)
                                /\ since'[q] = since[q] /\ due'[q] = due[q],
         port'[p].powered = port[p].powered,
         Stays(p) \/ Leaves(p) \/ Lands(p),
         due'[p] # NotDue => port'[p].device # NoDevice /\ since'[p] + due'[p] >= Gap,
         \/ port'[p].device \in {port[p].device, NoDevice}
         \/ \A q \in Ports : port[q].device # port'[p].device
  PROVE  HostStep
  <1>1. \A q \in Ports \ {p} : Stays(q) BY DEF Stays
  <1>2. \A q \in Ports : due[q] # NotDue => port[q].device # NoDevice /\ since[q] + due[q] >= Gap
    BY DEF Core, PlugInsWait
  <1>3. \A q, r \in Ports : port[q].device = port[r].device /\ port[q].device # NoDevice => q = r
    BY DEF Core, PortsHonest
  <1>4. \A q, r \in Ports : port'[q].device = port'[r].device /\ port'[q].device # NoDevice => q = r
    BY <1>3
  <1>5. ASSUME NEW q \in Ports
        PROVE  /\ port'[q].powered = port[q].powered
               /\ Stays(q) \/ Leaves(q) \/ Lands(q) \/ Enters(q)
               /\ due'[q] # NotDue => port'[q].device # NoDevice /\ since'[q] + due'[q] >= Gap
    <2>1. CASE q = p BY <2>1
    <2>2. CASE q # p BY <1>1, <1>2, <2>2
    <2>3. QED BY <2>1, <2>2
  <1>6. QED BY <1>4, <1>5 DEF HostStep

LEMMA CommandIs ==
  ASSUME TypeOK, NEW p \in Ports, NEW in \in BOOLEAN, Command(p, in)
  PROVE  wanted' \in [Ports -> BOOLEAN] /\ commands' \in 0 .. MaxCommands /\ reboots' = reboots /\ UNCHANGED driver
  BY Sizes DEF TypeOK, Command

LEMMA PlugOutKeeps == ASSUME Core, NEW p \in Ports, PlugOut(p) PROVE Core'
  <1>1. /\ since' \in [Ports -> 0 .. AckTimeout] /\ due' \in [Ports -> NotDue .. Gap]
        /\ due'[p] = NotDue /\ since'[p] = IF port[p].connected THEN 0 ELSE since[p]
        /\ \A q \in Ports \ {p} : due'[q] = due[q] /\ since'[q] = since[q]
    BY UnpluggedIs DEF PlugOut
  <1>2. /\ port' \in [Ports -> PortType] /\ \A q \in Ports \ {p} : port'[q] = port[q]
        /\ port'[p] = IF port[p].connected THEN SetConnected(p, FALSE) ELSE port[p]
    BY SetConnectedIs DEF Core, TypeOK, PlugOut
  <1>3. TypeOK' BY <1>1, <1>2, CommandIs DEF Core, TypeOK, PlugOut, driver
  <1>4. UNCHANGED driver /\ dev' = dev BY DEF PlugOut, Command
  <1>5. IF port[p].connected THEN Leaves(p) ELSE Stays(p)
    <2>1. CASE port[p].connected BY <1>1, <1>2, <2>1, SetConnectedIs DEF Core, Leaves
    <2>2. CASE ~port[p].connected BY <1>1, <1>2, <2>2 DEF Stays
    <2>3. QED BY <2>1, <2>2
  <1>6. port'[p].powered = port[p].powered /\ port'[p].device = port[p].device
    BY <1>2, SetConnectedIs DEF Core
  <1>7. HostStep BY <1>1, <1>2, <1>4, <1>5, <1>6, OnePortStep DEF SameDevice
  <1>8. QED BY <1>3, <1>7, HostKeeps

LEMMA TakeOffKeeps == ASSUME Core, NEW p \in Ports, TakeOff(p) PROVE Core'
  <1> DEFINE out == IF port[p].connected THEN SetConnected(p, FALSE) ELSE port[p]
  <1>1. /\ since' \in [Ports -> 0 .. AckTimeout] /\ due' \in [Ports -> NotDue .. Gap]
        /\ due'[p] = NotDue /\ since'[p] = IF port[p].connected THEN 0 ELSE since[p]
        /\ \A q \in Ports \ {p} : due'[q] = due[q] /\ since'[q] = since[q]
    BY UnpluggedIs DEF TakeOff
  <1>2. out \in PortType BY SetConnectedIs, PortIs DEF Core
  <1>3. port' = [port EXCEPT ![p] = [out EXCEPT !.device = NoDevice]] BY DEF TakeOff
  <1>4. /\ out.powered = port[p].powered
        /\ IF port[p].connected
           THEN ~out.connected /\ ~out.enabled /\ out.change = Reported(p)
           ELSE out = port[p]
    BY SetConnectedIs DEF Core
  <1> HIDE DEF out
  <1>5. /\ [out EXCEPT !.device = NoDevice] \in PortType
        /\ [out EXCEPT !.device = NoDevice].device = NoDevice
        /\ [out EXCEPT !.device = NoDevice].powered = out.powered
        /\ [out EXCEPT !.device = NoDevice].connected = out.connected
        /\ [out EXCEPT !.device = NoDevice].enabled = out.enabled
        /\ [out EXCEPT !.device = NoDevice].change = out.change
    BY <1>2 DEF PortType
  <1>6. /\ port' \in [Ports -> PortType] /\ \A q \in Ports \ {p} : port'[q] = port[q]
        /\ port'[p] = [out EXCEPT !.device = NoDevice]
    BY <1>3, <1>5 DEF Core, TypeOK
  <1>7. TypeOK' BY <1>1, <1>6, CommandIs DEF Core, TypeOK, TakeOff, driver
  <1>8. UNCHANGED driver /\ dev' = dev BY DEF TakeOff, Command
  <1>9. IF port[p].connected THEN Leaves(p) ELSE Stays(p)
    <2>1. CASE port[p].connected BY <1>1, <1>4, <1>5, <1>6, <2>1 DEF Leaves
    <2>2. CASE ~port[p].connected BY <1>1, <1>4, <1>5, <1>6, <2>2 DEF Stays
    <2>3. QED BY <2>1, <2>2
  <1>10. port'[p].powered = port[p].powered /\ port'[p].device = NoDevice BY <1>4, <1>5, <1>6
  <1>11. HostStep BY <1>1, <1>6, <1>8, <1>9, <1>10, OnePortStep DEF SameDevice
  <1>12. QED BY <1>7, <1>11, HostKeeps

LEMMA PlugDueIs ==
  ASSUME TypeOK, NEW p \in Ports PROVE PlugDue(p) \in 0 .. Gap /\ since[p] + PlugDue(p) >= Gap
  <1>1. since[p] \in Nat BY DEF TypeOK
  <1>2. Gap - since[p] \in Int BY <1>1, Sizes
  <1>3. PlugDue(p) \in {Gap - since[p], 0} /\ PlugDue(p) >= Gap - since[p] /\ PlugDue(p) >= 0
    <2> DEFINE S == {Gap - since[p], 0}
    <2>1. \E x \in S : \A y \in S : x >= y BY <1>2
    <2>2. PlugDue(p) = CHOOSE x \in S : \A y \in S : x >= y BY DEF PlugDue, Max
    <2>3. PlugDue(p) \in S /\ \A y \in S : PlugDue(p) >= y BY <2>1, <2>2
    <2>4. QED BY <2>3
  <1>4. QED BY <1>1, <1>2, <1>3, Sizes

LEMMA PlugInKeeps == ASSUME Core, NEW p \in Ports, PlugIn(p) PROVE Core'
  <1>1. port' = port /\ dev' = dev /\ since' = since /\ port[p].device # NoDevice BY DEF PlugIn, hub
  <1>2. due' = [due EXCEPT ![p] = IF port[p].connected THEN NotDue ELSE PlugDue(p)] BY DEF PlugIn
  <1>3. PlugDue(p) \in 0 .. Gap /\ since[p] + PlugDue(p) >= Gap BY PlugDueIs DEF Core
  <1>4. /\ due' \in [Ports -> NotDue .. Gap] /\ \A q \in Ports \ {p} : due'[q] = due[q]
        /\ due'[p] # NotDue => since'[p] + due'[p] >= Gap
    BY <1>1, <1>2, <1>3, Sizes DEF Core, TypeOK, NotDue
  <1>5. TypeOK' BY <1>1, <1>4, CommandIs DEF Core, TypeOK, PlugIn, driver
  <1>6. UNCHANGED driver BY DEF PlugIn, Command
  <1>7. Stays(p) BY <1>1 DEF Stays, SameDevice
  <1>8. HostStep BY <1>1, <1>4, <1>6, <1>7, OnePortStep DEF SameDevice
  <1>9. QED BY <1>5, <1>8, HostKeeps

LEMMA PlugDeviceKeeps ==
  ASSUME Core, NEW p \in Ports, NEW d \in Device, NEW m \in Medium, PlugDevice(p, d, m) PROVE Core'
  <1>1. port[p] \in PortType BY PortIs DEF Core
  <1>2. port' = [port EXCEPT ![p] = [port[p] EXCEPT !.device = d, !.connected = FALSE]]
    BY DEF Core, TypeOK, PlugDevice
  <1>3. /\ [port[p] EXCEPT !.device = d, !.connected = FALSE] \in PortType
        /\ [port[p] EXCEPT !.device = d, !.connected = FALSE].device = d
        /\ [port[p] EXCEPT !.device = d, !.connected = FALSE].connected = FALSE
        /\ [port[p] EXCEPT !.device = d, !.connected = FALSE].powered = port[p].powered
        /\ [port[p] EXCEPT !.device = d, !.connected = FALSE].enabled = port[p].enabled
        /\ [port[p] EXCEPT !.device = d, !.connected = FALSE].change = port[p].change
    BY <1>1 DEF PortType
  <1>4. /\ port' \in [Ports -> PortType] /\ \A q \in Ports \ {p} : port'[q] = port[q]
        /\ port'[p].device = d /\ port'[p].connected = FALSE /\ port'[p].powered = port[p].powered
        /\ port'[p].enabled = port[p].enabled /\ port'[p].change = port[p].change
    BY <1>2, <1>3 DEF Core, TypeOK
  <1>5. dev' \in [Device -> [address: Address, medium: Medium]]
        /\ \A e \in Device \ {d} : dev'[e] = dev[e]
    BY Sizes DEF Core, TypeOK, PlugDevice, Address
  <1>6. PlugDue(p) \in 0 .. Gap /\ since[p] + PlugDue(p) >= Gap BY PlugDueIs DEF Core
  <1>7. /\ due' \in [Ports -> NotDue .. Gap] /\ \A q \in Ports \ {p} : due'[q] = due[q]
        /\ due'[p] # NotDue => since'[p] + due'[p] >= Gap
        /\ since' = since
    BY <1>6, Sizes DEF Core, TypeOK, PlugDevice, NotDue
  <1>8. TypeOK' BY <1>4, <1>5, <1>7, CommandIs DEF Core, TypeOK, PlugDevice, driver
  <1>9. UNCHANGED driver /\ port[p].device = NoDevice /\ (\A q \in Ports : port[q].device # d) /\ d # NoDevice
    BY UsbHubAssumption DEF PlugDevice, Command
  <1>10. \A q \in Ports : SameDevice(q) BY <1>5, <1>9, PortIs DEF Core, SameDevice
  <1>11. IF port[p].connected THEN Lands(p) ELSE Stays(p)
    BY <1>4, <1>7, <1>9, <1>10, PortIs DEF Core, Lands, Stays
  <1>12. HostStep BY <1>4, <1>7, <1>9, <1>10, <1>11, OnePortStep
  <1>13. QED BY <1>8, <1>12, HostKeeps

LEMMA ReplaceKeeps == ASSUME Core, NEW p \in Ports, NEW m \in Medium, Replace(p, m) PROVE Core'
  <1>1. port' = port /\ since' = since /\ due' = due /\ UNCHANGED driver BY DEF Replace, timing
  <1>2. port[p].device \in Device /\ ~port[p].connected BY PortIs DEF Core, Replace
  <1>3. dev' = [dev EXCEPT ![port[p].device] = [dev[port[p].device] EXCEPT !.medium = m]]
    BY <1>2 DEF Core, TypeOK, Replace
  <1>4. [dev[port[p].device] EXCEPT !.medium = m] \in [address: Address, medium: Medium]
    BY <1>2 DEF Core, TypeOK
  <1>5. dev' \in [Device -> [address: Address, medium: Medium]]
        /\ \A e \in Device \ {port[p].device} : dev'[e] = dev[e]
    BY <1>3, <1>4 DEF Core, TypeOK
  <1>6. TypeOK' BY <1>1, <1>5 DEF Core, TypeOK, Replace, driver
  <1>7. ASSUME NEW q \in Ports \ {p} PROVE SameDevice(q)
    <2>1. port[q].device # NoDevice => port[q].device \in Device /\ port[q].device # port[p].device
      BY PortIs DEF Core, PortsHonest
    <2>2. QED BY <1>5, <2>1 DEF SameDevice
  <1>8. Stays(p) BY <1>1, <1>2 DEF Stays
  <1>9. due[p] = NotDue BY DEF Replace
  <1>10. HostStep BY <1>1, <1>7, <1>8, <1>9, OnePortStep
  <1>11. QED BY <1>6, <1>10, HostKeeps

LEMMA PlugInDueKeeps == ASSUME Core, PlugInDue PROVE Core'
  <1>1. dev' = dev /\ since' = since /\ UNCHANGED driver BY DEF PlugInDue
  <1>2. ASSUME NEW p \in Ports
        PROVE /\ port'[p] = IF due[p] = 0 /\ MayPlugIn(p) /\ ~port[p].connected
                              THEN SetConnected(p, TRUE) ELSE port[p]
              /\ due'[p] = PlugDueAgain(p)
    BY DEF PlugInDue
  <1>3. /\ port' \in [Ports -> PortType]
        /\ \A p \in Ports : port'[p].powered = port[p].powered /\ port'[p].device = port[p].device
    <2>1. \A p \in Ports : port'[p] \in PortType
                          /\ port'[p].powered = port[p].powered /\ port'[p].device = port[p].device
      BY <1>2, SetConnectedIs, PortIs DEF Core
    <2>2. QED BY <2>1 DEF PlugInDue
  <1>4. ASSUME NEW p \in Ports
        PROVE  /\ PlugDueAgain(p) \in NotDue .. Gap
               /\ PlugDueAgain(p) # NotDue => due[p] # NotDue /\ since[p] + PlugDueAgain(p) >= Gap
    <2>1. due[p] \in NotDue .. Gap /\ since[p] \in Nat BY DEF Core, TypeOK
    <2>2. due[p] # NotDue => since[p] + due[p] >= Gap BY DEF Core, PlugInsWait
    <2>3. CASE due[p] # 0 BY <2>1, <2>2, <2>3 DEF PlugDueAgain
    <2>4. CASE due[p] = 0 BY <2>1, <2>2, <2>4, Sizes DEF PlugDueAgain, NotDue
    <2>5. QED BY <2>3, <2>4
  <1>5. due' \in [Ports -> NotDue .. Gap] BY <1>4 DEF PlugInDue
  <1>6. TypeOK' BY <1>1, <1>3, <1>5 DEF Core, TypeOK, PlugInDue, driver
  <1>7. ASSUME NEW p \in Ports PROVE Stays(p) \/ Enters(p)
    <2>1. CASE due[p] = 0 /\ MayPlugIn(p) /\ ~port[p].connected
      <3>1. since[p] \in 0 .. AckTimeout /\ port[p].device # NoDevice /\ Gap <= since[p]
        BY <2>1, Sizes DEF Core, TypeOK, PlugInsWait, NotDue
      <3>2. Acknowledged(p) BY <2>1, <3>1, Sizes DEF Core, PlugInsWait, MayPlugIn
      <3>3. QED BY ZenonT(40), <1>1, <1>2, <2>1, <3>1, <3>2, SetConnectedIs, PortIs DEF Core, Enters
    <2>2. CASE ~(due[p] = 0 /\ MayPlugIn(p) /\ ~port[p].connected)
      BY <1>1, <1>2, <2>2 DEF Stays, SameDevice
    <2>3. QED BY <2>1, <2>2
  <1>8. HostStep
    <2>1. \A p, q \in Ports : port'[p].device = port'[q].device /\ port'[p].device # NoDevice => p = q
      BY <1>3 DEF Core, PortsHonest
    <2>2. \A p \in Ports : due'[p] # NotDue => port'[p].device # NoDevice /\ since'[p] + due'[p] >= Gap
      BY <1>1, <1>2, <1>3, <1>4 DEF Core, PlugInsWait
    <2>3. QED BY <1>1, <1>3, <1>7, <2>1, <2>2 DEF HostStep
  <1>9. QED BY <1>6, <1>8, HostKeeps
-----------------------------------------------------------------------------
(* Time passes: here the driver's promise to be in time is needed. *)
LEMMA LesserOf ==
  ASSUME NEW a \in Int, NEW b \in Int
  PROVE  Min({a, b}) = IF a <= b THEN a ELSE b
  <1> DEFINE S == {a, b}
  <1>1. \E x \in S : \A y \in S : x <= y OBVIOUS
  <1>2. Min(S) \in S /\ \A y \in S : Min(S) <= y BY <1>1 DEF Min
  <1>3. QED BY <1>2

LEMMA TickKeeps == ASSUME Core, ~Late, Tick PROVE Core'
  <1>1. UNCHANGED << port, dev, driver, wanted, commands, reboots >> BY DEF Tick, hub
  <1>2. ASSUME NEW p \in Ports
        PROVE  /\ since[p] \in 0 .. AckTimeout /\ due[p] \in NotDue .. Gap /\ due[p] # 0
               /\ since'[p] = IF since[p] + 1 <= AckTimeout THEN since[p] + 1 ELSE AckTimeout
               /\ due'[p] = IF due[p] = NotDue THEN NotDue ELSE due[p] - 1
    <2>1. since[p] \in 0 .. AckTimeout BY DEF Core, TypeOK
    <2>2. since'[p] = Min({since[p] + 1, AckTimeout}) BY DEF Tick
    <2>3. since[p] + 1 \in Int BY <2>1, Sizes
    <2>4. QED BY <2>1, <2>2, <2>3, LesserOf, Sizes DEF Core, TypeOK, Tick
  <1>3. ASSUME NEW p \in Ports PROVE since'[p] \in 0 .. AckTimeout /\ due'[p] \in NotDue .. Gap
    BY <1>2, Sizes DEF NotDue
  <1>4. TypeOK'
    <2>1. since' \in [Ports -> 0 .. AckTimeout] /\ due' \in [Ports -> NotDue .. Gap] BY <1>3 DEF Tick
    <2>2. QED BY <1>1, <2>1 DEF Core, TypeOK, driver
  <1>5. ASSUME NEW p \in Ports, ~port[p].connected
        PROVE  /\ since[p] + 1 >= AckTimeout => Acknowledged(p)
               /\ since[p] + 1 = Gap => ~Handles(p)
    BY <1>5 DEF Tick, DriverInTime
  <1>6. PlugInsWait'
    <2>1. ASSUME NEW p \in Ports, due'[p] # NotDue
          PROVE  port'[p].device # NoDevice /\ since'[p] + due'[p] >= Gap
      <3>1. due[p] # NotDue BY <1>2, <2>1
      <3>2. port[p].device # NoDevice /\ since[p] + due[p] >= Gap BY <3>1 DEF Core, PlugInsWait
      <3>3. due'[p] >= 0 BY <1>2, <3>1, Sizes DEF NotDue
      <3>4. QED BY <1>1, <1>2, <3>1, <3>2, <3>3, Sizes DEF NotDue
    <2>2. ASSUME NEW p \in Ports, ~port'[p].connected, since'[p] = AckTimeout PROVE Acknowledged(p)'
      <3>1. since[p] + 1 >= AckTimeout BY <1>2, <2>2, Sizes
      <3>2. QED BY <1>1, <1>5, <2>2, <3>1 DEF Acknowledged
    <2>3. QED BY <2>1, <2>2 DEF PlugInsWait
  <1>7. StatusStillTrue'
    <2>1. ASSUME task.pc \in {"act", "reset", "install"}, ~port[task.port].connected,
                 since[task.port] < Gap
          PROVE  since'[task.port] < Gap
      <3>1. task.port \in Ports /\ Handles(task.port) BY <2>1, TaskIs DEF Core, Handles
      <3>2. since[task.port] + 1 # Gap BY <1>5, <2>1, <3>1
      <3>3. QED BY <1>2, <2>1, <3>1, <3>2, Sizes
    <2>2. QED BY <1>1, <2>1 DEF Core, StatusStillTrue, driver
  <1>8. PortsHonest' /\ DriverInStep' /\ ChildrenFollow' /\ AddressesApart' /\ NeverRefused'
    BY <1>1 DEF Core, PortsHonest, Resets, DriverInStep, Pending, Handles, ChildrenFollow, AddressesApart,
                NeverRefused, driver
  <1>9. QED BY <1>4, <1>6, <1>7, <1>8 DEF Core

LEMMA RebootKeeps == ASSUME Core, Reboot PROVE Core'
  <1>1. ASSUME NEW p \in Ports
        PROVE  /\ HubReset(p) \in PortType /\ port'[p] = HubReset(p)
               /\ port'[p].device = port[p].device /\ port'[p].connected = port[p].connected
               /\ port'[p].powered = FALSE /\ port'[p].enabled = FALSE /\ port'[p].change = {}
    <2>1. port[p] \in PortType BY PortIs DEF Core
    <2>2. port'[p] = [port[p] EXCEPT !.powered = FALSE, !.enabled = FALSE, !.change = {}]
      BY DEF Reboot, HubReset
    <2>3. port'[p] = HubReset(p) BY DEF Reboot
    <2>4. QED BY <2>1, <2>2, <2>3 DEF PortType
  <1>2. /\ task'.pc = "power" /\ task'.todo = Ports /\ (\A p \in Ports : child'[p] = NoChild)
        /\ cleanup' = {} /\ resetting' = 0 /\ refused' = refused /\ since' = since /\ due' = due
    BY DEF Reboot, timing
  <1>3. 1 \in Ports /\ 0 \notin Ports BY Sizes DEF Ports
  <1>4. TypeOK'
    <2>1. port' \in [Ports -> PortType] BY <1>1 DEF Reboot
    <2>2. dev' \in [Device -> [address: Address, medium: Medium]]
      <3>1. ASSUME NEW d \in Device PROVE dev'[d] \in [address: Address, medium: Medium]
        <4>1. dev[d] \in [address: Address, medium: Medium] /\ 0 \in Address
          BY Sizes DEF Core, TypeOK, Address
        <4>2. [dev[d] EXCEPT !.address = 0] \in [address: Address, medium: Medium] BY <4>1
        <4>3. dev'[d] \in {[dev[d] EXCEPT !.address = 0], dev[d]} BY DEF Reboot
        <4>4. QED BY <4>1, <4>2, <4>3
      <3>2. QED BY <3>1 DEF Reboot
    <2>3. task' \in TaskType /\ child' \in [Ports -> {NoChild} \cup Child] BY DEF Reboot, TaskType
    <2>4. wanted' = wanted /\ commands' = commands /\ reboots' \in 0 .. MaxReboots
      BY Sizes DEF Core, TypeOK, Reboot
    <2>5. QED BY <1>2, <2>1, <2>2, <2>3, <2>4 DEF Core, TypeOK
  <1>5. PortsHonest' BY ZenonT(40), <1>1 DEF Core, PortsHonest
  <1>6. PlugInsWait' BY <1>1, <1>2 DEF Core, PlugInsWait, Acknowledged
  <1>7. DriverInStep' BY <1>1, <1>2, <1>3 DEF DriverInStep, Pending
  <1>8. StatusStillTrue' BY <1>2 DEF StatusStillTrue
  <1>9. ChildrenFollow' /\ AddressesApart' /\ NeverRefused'
    BY <1>1, <1>2 DEF Core, ChildrenFollow, AddressesApart, NeverRefused
  <1>10. QED BY <1>4, <1>5, <1>6, <1>7, <1>8, <1>9 DEF Core

-----------------------------------------------------------------------------
(* The driver's steps. *)
LEMMA ThenIs ==
  ASSUME NEW todo \in SUBSET Ports
  PROVE  /\ Then(todo) \in TaskType
         /\ todo = {} => Then(todo).pc = "idle"
         /\ todo # {} => Then(todo).pc = "ports" /\ Then(todo).todo = todo
  <1>1. CASE todo = {} BY <1>1 DEF Then, TaskType
  <1>2. CASE todo # {} BY <1>2 DEF Then, TaskType
  <1>3. QED BY <1>1, <1>2

LEMMA PowerPortIs ==
  ASSUME TypeOK, NEW p \in Ports
  PROVE  /\ PowerPort(p) \in PortType
         /\ PowerPort(p).device = port[p].device /\ PowerPort(p).connected = port[p].connected
         /\ PowerPort(p).enabled = port[p].enabled /\ PowerPort(p).powered = TRUE
         /\ PowerPort(p).change =
              IF ~port[p].powered /\ port[p].device # NoDevice /\ port[p].connected
              THEN port[p].change \cup {"connection"} ELSE port[p].change
  <1> DEFINE c == IF ~port[p].powered /\ port[p].device # NoDevice /\ port[p].connected
                  THEN port[p].change \cup {"connection"} ELSE port[p].change
  <1>1. port[p] \in PortType BY PortIs
  <1>2. c \in SUBSET Change BY <1>1 DEF Change, PortType
  <1>3. PowerPort(p) = [port[p] EXCEPT !.powered = TRUE, !.change = c] BY DEF PowerPort
  <1> HIDE DEF c
  <1>4. PowerPort(p) \in PortType
         /\ PowerPort(p).device = port[p].device /\ PowerPort(p).connected = port[p].connected
         /\ PowerPort(p).enabled = port[p].enabled /\ PowerPort(p).powered = TRUE
         /\ PowerPort(p).change = c
    BY <1>1, <1>2, <1>3 DEF PortType
  <1>5. QED BY <1>4 DEF c

LEMMA PowerKeeps == ASSUME Core, Power PROVE Core'
  <1> DEFINE p == Min(task.todo)
  <1>1. task.pc = "power" /\ task.todo \in SUBSET Ports /\ task.todo # {} /\ p \in task.todo
    <2>1. task.pc = "power" /\ task.todo \in SUBSET Ports /\ task.todo # {} BY TaskIs DEF Core, Power
    <2>2. task.todo \in SUBSET Nat BY <2>1 DEF Ports
    <2>3. QED BY <2>1, <2>2, LeastOf
  <1>2. /\ port' = [port EXCEPT ![p] = PowerPort(p)]
        /\ task' = IF task.todo = {p} THEN [pc |-> "idle"] ELSE [task EXCEPT !.todo = task.todo \ {p}]
        /\ UNCHANGED << dev, child, cleanup, resetting, refused, since, due, wanted, commands, reboots >>
    BY DEF Power, Driving, timing
  <1> HIDE DEF p
  <1>3. /\ task.todo = {p} => task'.pc = "idle"
        /\ task.todo # {p} => task'.pc = "power" /\ task'.todo = task.todo \ {p} /\ task'.todo # {}
        /\ task' \in TaskType
    <2>1. task \in [pc: {"power", "ports"}, todo: SUBSET Ports] BY <1>1 DEF Core, TypeOK, TaskType
    <2>2. CASE task.todo = {p} BY <1>2, <2>2 DEF TaskType
    <2>3. CASE task.todo # {p}
      <3>1. task' = [task EXCEPT !.todo = task.todo \ {p}] BY <1>2, <2>3
      <3>2. task.todo \ {p} # {} /\ task.todo \ {p} \in SUBSET Ports BY <1>1, <2>3
      <3>3. task' \in [pc: {"power", "ports"}, todo: SUBSET Ports] /\ task'.pc = task.pc
            /\ task'.todo = task.todo \ {p}
        BY <2>1, <3>1, <3>2
      <3>4. QED BY <1>1, <2>3, <3>2, <3>3 DEF TaskType
    <2>4. QED BY <2>2, <2>3
  <1>4. /\ port' \in [Ports -> PortType] /\ port'[p] = PowerPort(p)
        /\ \A q \in Ports \ {p} : port'[q] = port[q]
    BY <1>1, <1>2, PowerPortIs DEF Core, TypeOK
  <1>5. TypeOK' BY <1>2, <1>3, <1>4 DEF Core, TypeOK
  <1>6. p \in Ports /\ port'[p].device = port[p].device /\ port'[p].connected = port[p].connected
        /\ port'[p].enabled = port[p].enabled /\ port'[p].powered = TRUE
        /\ port'[p].change =
              IF ~port[p].powered /\ port[p].device # NoDevice /\ port[p].connected
              THEN port[p].change \cup {"connection"} ELSE port[p].change
    BY <1>1, <1>4, PowerPortIs DEF Core
  <1>7. resetting = 0 /\ \A q \in Ports : child[q] = NoChild /\ ~port[q].enabled
    <2>1. resetting = 0 /\ \A q \in Ports : child[q] = NoChild BY <1>1 DEF Core, DriverInStep
    <2>2. 0 \notin Ports BY DEF Ports
    <2>3. QED BY <1>1, <2>1, <2>2 DEF Core, AddressesApart
  <1>8. PortsHonest'
    <2>1. ASSUME NEW q \in Ports
          PROVE  /\ \A r \in Ports : port'[q].device = port'[r].device /\ port'[q].device # NoDevice => q = r
                 /\ ~port'[q].enabled
                 /\ ~port'[q].powered => port'[q].change = {}
                 /\ port'[q].device = NoDevice /\ port'[q].connected => port'[q].change = {}
      BY <1>4, <1>6, <1>7 DEF Core, PortsHonest
    <2>2. QED BY <2>1 DEF PortsHonest
  <1>9. PlugInsWait'
    BY <1>2, <1>4, <1>6 DEF Core, PlugInsWait, PortsHonest, Acknowledged
  <1>10. DriverInStep'
    <2>1. \A q \in Ports : "reset" \in port'[q].change <=> resetting' = q
      BY <1>2, <1>4, <1>6 DEF Core, DriverInStep
    <2>2. \A q \in Ports : ~port'[q].powered => task'.pc = "power" /\ q \in task'.todo
      BY <1>3, <1>4, <1>6 DEF Core, DriverInStep
    <2>3. Pending' = {} BY <1>3 DEF Pending
    <2>4. QED BY <1>2, <1>3, <1>7, <2>1, <2>2, <2>3 DEF DriverInStep
  <1>11. StatusStillTrue' BY <1>3 DEF StatusStillTrue
  <1>12. ChildrenFollow' /\ AddressesApart' /\ NeverRefused'
    <2>1. cleanup = {} BY <1>7 DEF Core, ChildrenFollow, TypeOK
    <2>2. \A q \in Ports : child'[q] = NoChild /\ ~port'[q].enabled BY <1>2, <1>4, <1>6, <1>7
    <2>3. QED BY <1>2, <2>1, <2>2 DEF Core, ChildrenFollow, AddressesApart, NeverRefused
  <1>13. QED BY <1>5, <1>8, <1>9, <1>10, <1>11, <1>12 DEF Core
LEMMA CleanupKeeps == ASSUME Core, Cleanup PROVE Core'
  <1>1. /\ task.pc = "idle" /\ cleanup' = {}
        /\ UNCHANGED << port, dev, task, resetting, refused, since, due, wanted, commands, reboots >>
    BY DEF Cleanup, Driving, hub, timing
  <1>2. /\ child' \in [Ports -> {NoChild} \cup Child]
        /\ \A p \in Ports : child'[p] = IF p \in cleanup THEN NoChild ELSE child[p]
    BY DEF Core, TypeOK, Cleanup
  <1>3. TypeOK' BY <1>1, <1>2 DEF Core, TypeOK
  <1>4. PortsHonest' /\ PlugInsWait' BY <1>1 DEF Core, PortsHonest, PlugInsWait, Resets, Acknowledged
  <1>5. DriverInStep' BY <1>1 DEF Core, DriverInStep, Pending, Handles
  <1>6. StatusStillTrue' BY <1>1 DEF StatusStillTrue
  <1>7. ChildrenFollow' BY <1>1, <1>2 DEF Core, ChildrenFollow, Handles
  <1>8. AddressesApart' BY <1>1, <1>2 DEF Core, ChildrenFollow, AddressesApart
  <1>9. QED BY <1>1, <1>3, <1>4, <1>5, <1>6, <1>7, <1>8 DEF Core, NeverRefused

LEMMA ReportKeeps == ASSUME Core, Report PROVE Core'
  <1>1. /\ task.pc = "idle" /\ cleanup = {} /\ Bitmap # {}
        /\ UNCHANGED << port, dev, child, cleanup, resetting, refused, since, due, wanted, commands, reboots >>
    BY DEF Report, Driving, hub, timing
  <1>2. task'.pc = "ports" /\ task'.todo = Bitmap /\ task' \in TaskType
    <2>1. task' = [pc |-> "ports", todo |-> Bitmap] /\ Bitmap \in SUBSET Ports BY DEF Report, Bitmap
    <2>2. QED BY <2>1 DEF TaskType
  <1>3. TypeOK' BY <1>1, <1>2 DEF Core, TypeOK
  <1>4. PortsHonest' /\ PlugInsWait' BY <1>1 DEF Core, PortsHonest, PlugInsWait, Resets, Acknowledged
  <1>5. DriverInStep'
    <2>1. \A p \in Ports : port[p].powered BY <1>1 DEF Core, DriverInStep
    <2>2. \A p \in Bitmap : port[p].change # {} BY DEF Bitmap
    <2>3. QED BY <1>1, <1>2, <2>1, <2>2 DEF Core, DriverInStep, Pending, Handles
  <1>6. StatusStillTrue' BY <1>2 DEF StatusStillTrue
  <1>7. ChildrenFollow' BY <1>1, <1>2 DEF Core, ChildrenFollow, Handles
  <1>8. AddressesApart' BY <1>1, <1>2 DEF Core, AddressesApart
  <1>9. QED BY <1>1, <1>3, <1>4, <1>5, <1>6, <1>7, <1>8 DEF Core, NeverRefused

LEMMA ReadStatusKeeps == ASSUME Core, ReadStatus PROVE Core'
  <1> DEFINE p == Min(task.todo)
  <1>1. /\ task.pc = "ports" /\ task.todo \in SUBSET Ports /\ p \in task.todo
        /\ UNCHANGED << port, dev, child, cleanup, resetting, refused, since, due, wanted, commands, reboots >>
    <2>1. task.pc = "ports" BY DEF ReadStatus
    <2>2. task.todo \in SUBSET Ports /\ task.todo # {} BY <2>1, TaskIs DEF Core, DriverInStep
    <2>3. task.todo \in SUBSET Nat BY <2>2 DEF Ports
    <2>4. QED BY <2>1, <2>2, <2>3, LeastOf DEF ReadStatus, Driving, hub, timing
  <1>2. task' = [pc |-> "act", todo |-> task.todo \ {p}, port |-> p, status |-> PortStatus(p)]
    BY DEF ReadStatus
  <1> HIDE DEF p
  <1>3. /\ p \in Ports /\ PortStatus(p) \in Status
        /\ PortStatus(p).connection = (port[p].powered /\ port[p].device # NoDevice /\ port[p].connected)
        /\ PortStatus(p).enabled = port[p].enabled /\ PortStatus(p).change = port[p].change
    BY <1>1, PortIs DEF Core, PortStatus, Status
  <1>4. /\ task'.pc = "act" /\ task'.todo = task.todo \ {p} /\ task'.port = p /\ task'.status = PortStatus(p)
        /\ task' \in TaskType
    <2>1. task.todo \ {p} \in SUBSET Ports BY <1>1
    <2>2. QED BY <1>2, <1>3, <2>1 DEF TaskType
  <1>5. TypeOK' BY <1>1, <1>4 DEF Core, TypeOK
  <1>6. PortsHonest' /\ PlugInsWait' BY <1>1 DEF Core, PortsHonest, PlugInsWait, Resets, Acknowledged
  <1>7. Pending = task.todo /\ Pending' = task.todo \ {p} /\ \A q \in Ports : Handles(q)' => q = p
    BY <1>1, <1>4 DEF Pending, Handles
  <1>8. port[p].powered /\ port[p].change # {} BY <1>1, <1>3, <1>7 DEF Core, DriverInStep
  <1>9. DriverInStep' BY <1>1, <1>4, <1>7 DEF Core, DriverInStep
  <1>10. StatusStillTrue'
    <2>1. port[p].enabled => PortStatus(p).connection BY <1>3 DEF Core, PortsHonest, Resets
    <2>2. port[p].device = NoDevice /\ port[p].connected => port[p].change = {} BY <1>3 DEF Core, PortsHonest
    <2>3. ~port[p].connected => PortStatus(p).connection = FALSE BY <1>3
    <2>4. ~PortStatus(p).connection => ~port[p].connected BY <1>3, <1>8, <2>2
    <2>5. QED BY <1>1, <1>3, <1>4, <1>8, <2>1, <2>3, <2>4 DEF StatusStillTrue
  <1>11. ChildrenFollow'
    <2>1. ASSUME NEW q \in Ports, q \in cleanup PROVE q \notin Pending' /\ ~Handles(q)'
      BY <1>1, <1>7, <2>1 DEF Core, ChildrenFollow
    <2>2. ASSUME NEW q \in Ports, ~port[q].connected, Handles(q)'
          PROVE  task'.pc = "act" /\ ~task'.status.connection
      BY <1>3, <1>4, <1>7, <2>2
    <2>3. QED BY <1>1, <2>1, <2>2 DEF Core, ChildrenFollow
  <1>12. AddressesApart' BY <1>1, <1>4 DEF Core, AddressesApart
  <1>13. QED BY <1>1, <1>5, <1>6, <1>9, <1>10, <1>11, <1>12 DEF Core, NeverRefused

(* What the port is that the driver acts on. *)
LEMMA ActsOn ==
  ASSUME Core, task.pc = "act"
  PROVE  /\ task.port \in Ports /\ task.todo \in SUBSET Ports /\ task.port \notin task.todo
         /\ task.status \in Status /\ task.status.change \subseteq port[task.port].change
         /\ \A q \in Ports : port[q].powered
         /\ task.port \notin cleanup
         /\ child[task.port] # NoChild => /\ ~port[task.port].connected /\ ~task.status.connection
                                         /\ task.status.change = {"connection"}
                                         /\ port[task.port].change = {"connection"}
  <1> DEFINE p == task.port
  <1>1. p \in Ports /\ task.todo \in SUBSET Ports /\ task.status \in Status BY TaskIs DEF Core
  <1>2. Handles(p) /\ Pending = task.todo BY DEF Handles, Pending
  <1>3. task.port \notin task.todo BY <1>1, <1>2 DEF Core, DriverInStep
  <1>4. task.status.change \subseteq port[p].change /\ task.status.change # {} BY DEF Core, StatusStillTrue
  <1>5. p \notin cleanup BY <1>1, <1>2 DEF Core, ChildrenFollow
  <1>6. ASSUME child[p] # NoChild
        PROVE  /\ ~port[p].connected /\ ~task.status.connection
               /\ task.status.change = {"connection"} /\ port[p].change = {"connection"}
    <2>1. ~port[p].connected BY <1>1, <1>4, <1>5, <1>6 DEF Core, ChildrenFollow
    <2>2. port[p].change = {"connection"} /\ ~task.status.connection
      BY <1>1, <1>2, <1>5, <1>6, <2>1 DEF Core, ChildrenFollow
    <2>3. QED BY <1>4, <2>1, <2>2
  <1>7. \A q \in Ports : port[q].powered BY DEF Core, DriverInStep
  <1>8. QED BY <1>1, <1>3, <1>4, <1>5, <1>6, <1>7

LEMMA ClearChangeIs ==
  ASSUME TypeOK, NEW p \in Ports, NEW c, port' = ClearChange(p, c)
  PROVE  /\ port' \in [Ports -> PortType] /\ \A q \in Ports \ {p} : port'[q] = port[q]
         /\ port'[p].change = port[p].change \ {c}
         /\ \A q \in Ports : /\ port'[q].device = port[q].device /\ port'[q].connected = port[q].connected
                             /\ port'[q].powered = port[q].powered /\ port'[q].enabled = port[q].enabled
  <1> DEFINE x == [port[p] EXCEPT !.change = port[p].change \ {c}]
  <1>1. port[p] \in PortType BY PortIs
  <1>2. port' = [port EXCEPT ![p] = x] BY DEF TypeOK, ClearChange
  <1>3. /\ x \in PortType /\ x.change = port[p].change \ {c}
        /\ x.device = port[p].device /\ x.connected = port[p].connected
        /\ x.powered = port[p].powered /\ x.enabled = port[p].enabled
    BY <1>1 DEF PortType
  <1> HIDE DEF x
  <1>4. port' \in [Ports -> PortType] /\ port'[p] = x /\ \A q \in Ports \ {p} : port'[q] = port[q]
    BY <1>2, <1>3 DEF TypeOK
  <1>5. QED BY <1>3, <1>4

LEMMA ClearKeeps ==
  ASSUME Core, NEW p \in Ports, NEW c, port' = ClearChange(p, c), since' = since, due' = due
  PROVE  PortsHonest' /\ PlugInsWait'
  <1>1. /\ \A q \in Ports : /\ port'[q].device = port[q].device /\ port'[q].connected = port[q].connected
                            /\ port'[q].powered = port[q].powered /\ port'[q].enabled = port[q].enabled
        /\ \A q \in Ports : port'[q].change \subseteq port[q].change
    BY ClearChangeIs DEF Core
  <1>2. PortsHonest'
    <2>1. ASSUME NEW q \in Ports
          PROVE  /\ \A r \in Ports : port'[q].device = port'[r].device /\ port'[q].device # NoDevice => q = r
                 /\ port'[q].enabled => Resets(q)' /\ "connection" \notin port'[q].change
                 /\ ~port'[q].powered => port'[q].change = {}
                 /\ port'[q].device = NoDevice /\ port'[q].connected => port'[q].change = {}
      BY <1>1 DEF Core, PortsHonest, Resets
    <2>2. QED BY <2>1 DEF PortsHonest
  <1>3. PlugInsWait'
    <2>1. \A q \in Ports : Acknowledged(q) => Acknowledged(q)' BY <1>1 DEF Acknowledged
    <2>2. QED BY <1>1, <2>1 DEF Core, PlugInsWait
  <1>4. QED BY <1>2, <1>3
LEMMA ActConnectKeeps == ASSUME Core, ActConnect PROVE Core'
  <1> DEFINE p == task.port
  <1>1. /\ task.pc = "act" /\ port' = ClearChange(p, "connection")
        /\ "connection" \in task.status.change /\ task.status.connection /\ resetting = 0
        /\ UNCHANGED << dev, child, cleanup, resetting, refused, since, due, wanted, commands, reboots >>
    BY DEF ActConnect, SeesConnect, Driving, timing
  <1>2. /\ p \in Ports /\ task.todo \in SUBSET Ports /\ p \notin task.todo /\ p \notin cleanup
        /\ task.status.change \subseteq port[p].change /\ child[p] = NoChild
    BY <1>1, ActsOn
  <1>3. /\ task'.pc = "reset" /\ task'.todo = task.todo /\ task'.port = p /\ task'.status = task.status
        /\ task' \in TaskType
    <2>1. task \in [pc: {"act", "reset"}, todo: SUBSET Ports, port: Ports, status: Status]
      BY <1>1 DEF Core, TypeOK, TaskType
    <2>2. task' = [task EXCEPT !.pc = "reset"] BY DEF ActConnect
    <2>3. QED BY <2>1, <2>2 DEF TaskType
  <1>4. /\ port' \in [Ports -> PortType] /\ \A q \in Ports \ {p} : port'[q] = port[q]
        /\ port'[p].change = port[p].change \ {"connection"}
        /\ \A q \in Ports : /\ port'[q].device = port[q].device /\ port'[q].connected = port[q].connected
                            /\ port'[q].powered = port[q].powered /\ port'[q].enabled = port[q].enabled
    BY <1>1, <1>2, ClearChangeIs DEF Core
  <1>5. TypeOK' BY <1>1, <1>3, <1>4 DEF Core, TypeOK
  <1>6. PortsHonest' /\ PlugInsWait' BY <1>1, <1>2, ClearKeeps
  <1>7. Pending' = task.todo /\ Pending = task.todo /\ \A q \in Ports : Handles(q)' <=> Handles(q)
    BY <1>1, <1>3 DEF Pending, Handles
  <1>8. DriverInStep'
    <2>1. \A q \in Ports : "reset" \in port'[q].change <=> "reset" \in port[q].change BY <1>4
    <2>2. QED BY <1>1, <1>2, <1>3, <1>4, <1>7, <2>1 DEF Core, DriverInStep
  <1>9. StatusStillTrue'
    <2>1. port[p].device = NoDevice /\ port[p].connected => port[p].change = {}
      BY <1>2 DEF Core, PortsHonest
    <2>2. ~port[p].connected => since[p] < Gap BY <1>1 DEF Core, StatusStillTrue
    <2>3. QED BY <1>1, <1>2, <1>3, <1>4, <2>1, <2>2 DEF StatusStillTrue
  <1>10. ChildrenFollow'
    <2>1. \A q \in Ports : Handles(q)' => q = p BY <1>3 DEF Handles
    <2>2. ASSUME NEW q \in Ports, child[q] # NoChild PROVE q # p /\ port'[q] = port[q] /\ ~Handles(q)'
      BY <1>2, <1>4, <2>1, <2>2
    <2>3. QED BY <1>1, <1>7, <2>2 DEF Core, ChildrenFollow
  <1>11. AddressesApart' BY <1>1, <1>3, <1>4 DEF Core, AddressesApart
  <1>12. QED BY <1>1, <1>5, <1>6, <1>8, <1>9, <1>10, <1>11 DEF Core, NeverRefused

LEMMA ActDisconnectKeeps == ASSUME Core, ActDisconnect PROVE Core'
  <1> DEFINE p == task.port
  <1>1. /\ task.pc = "act" /\ port' = ClearChange(p, "connection")
        /\ "connection" \in task.status.change /\ ~task.status.connection
        /\ cleanup' = (IF child[p] # NoChild THEN cleanup \cup {p} ELSE cleanup)
        /\ task' = Then(task.todo)
        /\ UNCHANGED << dev, child, resetting, refused, since, due, wanted, commands, reboots >>
    BY DEF ActDisconnect, SeesDisconnect, Driving, timing
  <1>2. /\ p \in Ports /\ task.todo \in SUBSET Ports /\ p \notin task.todo /\ p \notin cleanup
        /\ child[p] # NoChild => ~port[p].connected
        /\ \A q \in Ports : port[q].powered
    BY <1>1, ActsOn
  <1>3. /\ task' \in TaskType
        /\ task.todo = {} => task'.pc = "idle"
        /\ task.todo # {} => task'.pc = "ports" /\ task'.todo = task.todo
    BY <1>1, <1>2, ThenIs
  <1>4. /\ port' \in [Ports -> PortType] /\ \A q \in Ports \ {p} : port'[q] = port[q]
        /\ port'[p].change = port[p].change \ {"connection"}
        /\ \A q \in Ports : /\ port'[q].device = port[q].device /\ port'[q].connected = port[q].connected
                            /\ port'[q].powered = port[q].powered /\ port'[q].enabled = port[q].enabled
    BY <1>1, <1>2, ClearChangeIs DEF Core
  <1>5. TypeOK'
    <2>1. cleanup' \subseteq Ports BY <1>1, <1>2 DEF Core, TypeOK
    <2>2. QED BY <1>1, <1>3, <1>4, <2>1 DEF Core, TypeOK
  <1>6. PortsHonest' /\ PlugInsWait' BY <1>1, <1>2, ClearKeeps
  <1>7. Pending' = task.todo /\ Pending = task.todo /\ \A q \in Ports : ~Handles(q)'
    BY <1>1, <1>3 DEF Pending, Handles
  <1>8. DriverInStep'
    <2>1. \A q \in Ports : "reset" \in port'[q].change <=> "reset" \in port[q].change BY <1>4
    <2>2. QED BY <1>1, <1>2, <1>3, <1>4, <1>7, <2>1 DEF Core, DriverInStep
  <1>9. StatusStillTrue' BY <1>3 DEF StatusStillTrue
  <1>10. ChildrenFollow'
    <2>1. port[p].enabled => port[p].connected BY <1>2 DEF Core, PortsHonest, Resets
    <2>2. ASSUME NEW q \in Ports, q \in cleanup'
          PROVE  child[q] # NoChild /\ ~port'[q].enabled /\ q \notin Pending'
      BY <1>1, <1>2, <1>4, <1>7, <2>1, <2>2 DEF Core, ChildrenFollow
    <2>3. ASSUME NEW q \in Ports, child[q] # NoChild, q \notin cleanup' PROVE q # p /\ q \notin cleanup
      BY <1>1, <2>3
    <2>4. QED BY <1>1, <1>4, <1>7, <2>2, <2>3 DEF Core, ChildrenFollow
  <1>11. AddressesApart' BY <1>1, <1>3, <1>4 DEF Core, AddressesApart
  <1>12. QED BY <1>1, <1>5, <1>6, <1>8, <1>9, <1>10, <1>11 DEF Core, NeverRefused

LEMMA ActNothingKeeps == ASSUME Core, ActNothing PROVE Core'
  <1>1. /\ task.pc = "act" /\ task' = Then(task.todo)
        /\ UNCHANGED << port, dev, child, cleanup, resetting, refused, since, due, wanted, commands, reboots >>
    BY DEF ActNothing, Driving, hub, timing
  <1>2. task.todo \in SUBSET Ports BY <1>1, ActsOn
  <1>3. /\ task' \in TaskType
        /\ task.todo = {} => task'.pc = "idle"
        /\ task.todo # {} => task'.pc = "ports" /\ task'.todo = task.todo
    BY <1>1, <1>2, ThenIs
  <1>4. TypeOK' BY <1>1, <1>3 DEF Core, TypeOK
  <1>5. PortsHonest' /\ PlugInsWait' BY <1>1 DEF Core, PortsHonest, PlugInsWait, Resets, Acknowledged
  <1>6. Pending' = task.todo /\ Pending = task.todo /\ \A q \in Ports : ~Handles(q)'
    BY <1>1, <1>3 DEF Pending, Handles
  <1>7. DriverInStep' BY <1>1, <1>3, <1>6 DEF Core, DriverInStep
  <1>8. StatusStillTrue' BY <1>3 DEF StatusStillTrue
  <1>9. ChildrenFollow' BY <1>1, <1>6 DEF Core, ChildrenFollow
  <1>10. AddressesApart' BY <1>1, <1>3 DEF Core, AddressesApart
  <1>11. QED BY <1>1, <1>4, <1>5, <1>7, <1>8, <1>9, <1>10 DEF Core, NeverRefused

LEMMA InstallKeeps == ASSUME Core, Install PROVE Core'
  <1> DEFINE p == task.port
  <1>1. /\ task.pc = "install" /\ task' = Then(task.todo) /\ child' = [child EXCEPT ![p] = task.status]
        /\ UNCHANGED << port, dev, cleanup, resetting, refused, since, due, wanted, commands, reboots >>
    BY DEF Install, Driving, hub, timing
  <1>2. p \in Ports /\ task.todo \in SUBSET Ports /\ task.status \in Child BY <1>1, TaskIs DEF Core
  <1>3. /\ task' \in TaskType
        /\ task.todo = {} => task'.pc = "idle"
        /\ task.todo # {} => task'.pc = "ports" /\ task'.todo = task.todo
    BY <1>1, <1>2, ThenIs
  <1>4. child' \in [Ports -> {NoChild} \cup Child] /\ child'[p] = task.status
        /\ \A q \in Ports \ {p} : child'[q] = child[q]
    BY <1>1, <1>2 DEF Core, TypeOK
  <1>5. TypeOK' BY <1>1, <1>3, <1>4 DEF Core, TypeOK
  <1>6. PortsHonest' /\ PlugInsWait' BY <1>1 DEF Core, PortsHonest, PlugInsWait, Resets, Acknowledged
  <1>7. /\ Pending' = task.todo /\ Pending = task.todo /\ p \notin task.todo
        /\ Handles(p) /\ \A q \in Ports : ~Handles(q)'
    <2>1. Pending' = task.todo /\ Pending = task.todo /\ Handles(p) /\ \A q \in Ports : ~Handles(q)'
      BY <1>1, <1>3 DEF Pending, Handles
    <2>2. QED BY <1>2, <2>1 DEF Core, DriverInStep
  <1>8. DriverInStep' BY <1>1, <1>3, <1>7 DEF Core, DriverInStep
  <1>9. StatusStillTrue' BY <1>3 DEF StatusStillTrue
  <1>10. ChildrenFollow'
    <2>1. p \notin cleanup BY <1>2, <1>7 DEF Core, ChildrenFollow
    <2>2. IF port[p].connected
          THEN port[p].enabled /\ port[p].change = {} /\ dev[port[p].device] = task.status
          ELSE port[p].change = {"connection"}
      <3>1. resetting = 0 /\ 0 \notin Ports BY <1>1 DEF Core, StatusStillTrue, Ports
      <3>2. "reset" \notin port[p].change /\ port[p].change \in SUBSET Change
        BY <1>2, <3>1, PortIs DEF Core, DriverInStep
      <3>3. IF port[p].connected THEN port[p].enabled /\ dev[port[p].device] = task.status
            ELSE "connection" \in port[p].change
        BY <1>1 DEF Core, StatusStillTrue
      <3>4. port[p].connected => "connection" \notin port[p].change BY <1>1 DEF Core, StatusStillTrue
      <3>5. QED BY <3>2, <3>3, <3>4 DEF Change
    <2>3. QED BY <1>1, <1>2, <1>4, <1>7, <2>1, <2>2 DEF Core, ChildrenFollow
  <1>11. AddressesApart'
    <2>1. ASSUME NEW q \in Ports, port[q].enabled, child'[q] = NoChild
          PROVE  resetting = q /\ dev[port[q].device].address = 0
      <3>1. q # p
        <4>1. task.status # NoChild BY <1>2 DEF Child, NoChild
        <4>2. QED BY <1>4, <2>1, <4>1
      <3>2. QED BY <1>4, <2>1, <3>1 DEF Core, AddressesApart
    <2>2. ASSUME NEW q \in Ports \ {p}, child[q] # NoChild PROVE child[q].address # task.status.address
      BY <1>1, <2>2 DEF Core, AddressesApart
    <2>3. ASSUME NEW q \in Ports, NEW r \in Ports, child'[q] # NoChild, child'[r] # NoChild,
                 child'[q].address = child'[r].address
          PROVE  q = r
      <3>1. CASE q = p /\ r # p BY <1>4, <2>2, <2>3, <3>1
      <3>2. CASE q # p /\ r = p BY <1>4, <2>2, <2>3, <3>2
      <3>3. CASE q # p /\ r # p BY <1>4, <2>3, <3>3 DEF Core, AddressesApart
      <3>4. QED BY <3>1, <3>2, <3>3
    <2>4. task'.pc # "install" BY <1>3
    <2>5. QED BY <1>1, <2>1, <2>3, <2>4 DEF AddressesApart
  <1>12. QED BY <1>1, <1>5, <1>6, <1>8, <1>9, <1>10, <1>11 DEF Core, NeverRefused
(* The device on a port starts at address 0; the others are not touched. *)
LEMMA AddressIs ==
  ASSUME Core, NEW p \in Ports, port[p].device # NoDevice, NEW a \in Address,
         dev' = [dev EXCEPT ![port[p].device].address = a]
  PROVE  /\ dev' \in [Device -> [address: Address, medium: Medium]]
         /\ dev'[port[p].device] = [address |-> a, medium |-> dev[port[p].device].medium]
         /\ \A q \in Ports \ {p} : SameDevice(q)
  <1> DEFINE d == port[p].device
  <1>1. d \in Device BY PortIs DEF Core
  <1>2. dev[d] \in [address: Address, medium: Medium] BY <1>1 DEF Core, TypeOK
  <1>3. dev' = [dev EXCEPT ![d] = [dev[d] EXCEPT !.address = a]] BY <1>1 DEF Core, TypeOK
  <1>4. [dev[d] EXCEPT !.address = a] = [address |-> a, medium |-> dev[d].medium] BY <1>2
  <1>5. [address |-> a, medium |-> dev[d].medium] \in [address: Address, medium: Medium] BY <1>2
  <1>6. /\ dev' \in [Device -> [address: Address, medium: Medium]]
        /\ dev'[d] = [address |-> a, medium |-> dev[d].medium]
        /\ \A e \in Device \ {d} : dev'[e] = dev[e]
    BY <1>1, <1>3, <1>4, <1>5 DEF Core, TypeOK
  <1>7. ASSUME NEW q \in Ports \ {p}, port[q].device # NoDevice PROVE dev'[port[q].device] = dev[port[q].device]
    <2>1. port[q].device \in Device /\ port[q].device # d BY <1>7, PortIs DEF Core, PortsHonest
    <2>2. QED BY <1>6, <2>1
  <1>8. QED BY <1>6, <1>7 DEF SameDevice

LEMMA StartResetKeeps == ASSUME Core, StartReset PROVE Core'
  <1> DEFINE p == task.port
  <1>1. /\ task.pc = "reset" /\ port' = [port EXCEPT ![p] = ResetPort(p)] /\ dev' = ResetDevice(p)
        /\ resetting' = p /\ task' = Then(task.todo)
        /\ UNCHANGED << child, cleanup, refused, since, due, wanted, commands, reboots >>
    BY DEF StartReset, Driving, timing
  <1>2. p \in Ports /\ task.todo \in SUBSET Ports /\ 0 \notin Ports BY <1>1, TaskIs DEF Core, Ports
  <1>3. /\ task' \in TaskType
        /\ task.todo = {} => task'.pc = "idle"
        /\ task.todo # {} => task'.pc = "ports" /\ task'.todo = task.todo
    BY <1>1, <1>2, ThenIs
  <1>4. /\ child[p] = NoChild /\ resetting = 0
        /\ port[p].connected => port[p].device # NoDevice /\ "connection" \notin port[p].change
    BY <1>1 DEF Core, StatusStillTrue
  <1>5. (\A q \in Ports : port[q].powered) /\ (Resets(p) <=> port[p].connected)
    <2>1. \A q \in Ports : port[q].powered BY <1>1 DEF Core, DriverInStep
    <2>2. QED BY <1>2, <1>4, <2>1 DEF Resets
  <1>6. /\ port' \in [Ports -> PortType] /\ \A q \in Ports \ {p} : port'[q] = port[q]
        /\ port'[p].device = port[p].device /\ port'[p].connected = port[p].connected
        /\ port'[p].powered = port[p].powered
        /\ port'[p].enabled = (port[p].enabled \/ port[p].connected)
        /\ port'[p].change = port[p].change \cup {"reset"}
    <2> DEFINE x == [port[p] EXCEPT !.enabled = port[p].enabled \/ Resets(p), !.change = port[p].change \cup {"reset"}]
    <2>1. ResetPort(p) = x BY <1>2, <1>5 DEF ResetPort
    <2>2. port[p] \in PortType /\ (port[p].enabled \/ Resets(p)) \in BOOLEAN
      BY <1>2, PortIs DEF Core, PortType, Resets
    <2>3. port[p].change \cup {"reset"} \in SUBSET Change BY <2>2 DEF PortType, Change
    <2>4. /\ x \in PortType /\ x.device = port[p].device /\ x.connected = port[p].connected
          /\ x.powered = port[p].powered /\ x.enabled = (port[p].enabled \/ Resets(p))
          /\ x.change = port[p].change \cup {"reset"}
      BY <2>2, <2>3 DEF PortType
    <2> HIDE DEF x
    <2>5. port' \in [Ports -> PortType] /\ port'[p] = x /\ \A q \in Ports \ {p} : port'[q] = port[q]
      BY <1>1, <1>2, <2>1, <2>4 DEF Core, TypeOK
    <2>6. QED BY <1>5, <2>4, <2>5
  <1>7. /\ dev' \in [Device -> [address: Address, medium: Medium]]
        /\ port[p].connected => dev'[port[p].device].address = 0
        /\ \A q \in Ports \ {p} : SameDevice(q)
    <2>1. CASE port[p].connected
      <3>1. dev' = [dev EXCEPT ![port[p].device].address = 0] BY <1>1, <1>5, <2>1 DEF ResetDevice
      <3>2. 0 \in Address BY Sizes DEF Address
      <3>3. /\ dev' \in [Device -> [address: Address, medium: Medium]]
            /\ dev'[port[p].device] = [address |-> 0, medium |-> dev[port[p].device].medium]
            /\ \A q \in Ports \ {p} : SameDevice(q)
        BY <1>2, <1>4, <2>1, <3>1, <3>2, AddressIs
      <3>4. dev'[port[p].device].address = 0 BY <3>3
      <3>5. QED BY <3>3, <3>4
    <2>2. CASE ~port[p].connected
      <3>1. dev' = dev BY <1>1, <1>5, <2>2 DEF ResetDevice
      <3>2. QED BY <2>2, <3>1 DEF Core, TypeOK, SameDevice
    <2>3. QED BY <2>1, <2>2
  <1>8. TypeOK' BY <1>1, <1>2, <1>3, <1>6, <1>7 DEF Core, TypeOK
  <1>9. PortsHonest'
    <2>1. port[p].enabled => port[p].connected BY <1>2 DEF Core, PortsHonest, Resets
    <2>2. ASSUME NEW q \in Ports
          PROVE  /\ \A r \in Ports : port'[q].device = port'[r].device /\ port'[q].device # NoDevice => q = r
                 /\ port'[q].enabled => Resets(q)' /\ "connection" \notin port'[q].change
                 /\ ~port'[q].powered => port'[q].change = {}
                 /\ port'[q].device = NoDevice /\ port'[q].connected => port'[q].change = {}
      <3>1. \A r \in Ports : port'[r].device = port[r].device /\ port'[r].powered BY <1>5, <1>6
      <3>2. CASE q = p
        <4>1. \A r \in Ports : port'[p].device = port'[r].device /\ port'[p].device # NoDevice => p = r
          BY <1>2, <3>1 DEF Core, PortsHonest
        <4>2. port'[p].connected => port'[p].device # NoDevice /\ "connection" \notin port'[p].change
          BY <1>4, <1>6
        <4>3. port'[p].enabled => port'[p].connected BY <1>6, <2>1
        <4>4. port'[p].powered BY <1>2, <3>1
        <4>5. QED BY <3>2, <4>1, <4>2, <4>3, <4>4 DEF Resets
      <3>3. CASE q # p BY <1>6, <3>1, <3>3 DEF Core, PortsHonest, Resets
      <3>4. QED BY <3>2, <3>3
    <2>3. QED BY <2>2 DEF PortsHonest
  <1>10. PlugInsWait'
    <2>1. \A q \in Ports : Acknowledged(q) => Acknowledged(q)' BY <1>2, <1>5, <1>6 DEF Acknowledged
    <2>2. \A q \in Ports : port'[q].device = port[q].device /\ port'[q].connected = port[q].connected
      BY <1>6
    <2>3. QED BY <1>1, <2>1, <2>2 DEF Core, PlugInsWait
  <1>11. /\ Pending' = task.todo /\ Pending = task.todo /\ p \notin task.todo
         /\ Handles(p) /\ \A q \in Ports : ~Handles(q)'
    <2>1. Pending' = task.todo /\ Pending = task.todo /\ Handles(p) /\ \A q \in Ports : ~Handles(q)'
      BY <1>1, <1>3 DEF Pending, Handles
    <2>2. QED BY <1>2, <2>1 DEF Core, DriverInStep
  <1>12. DriverInStep'
    <2>1. \A q \in Ports : "reset" \in port[q].change <=> resetting = q BY DEF Core, DriverInStep
    <2>2. \A q \in Ports : "reset" \in port'[q].change <=> resetting' = q BY <1>1, <1>2, <1>4, <1>6, <2>1
    <2>3. \A q \in Ports : port'[q].powered BY <1>5, <1>6
    <2>4. QED BY <1>3, <1>6, <1>11, <2>2, <2>3 DEF Core, DriverInStep
  <1>13. StatusStillTrue' BY <1>3 DEF StatusStillTrue
  <1>14. ChildrenFollow'
    <2>1. \A q \in Ports : child[q] # NoChild \/ q \in cleanup => q # p BY <1>4 DEF Core, ChildrenFollow
    <2>2. ASSUME NEW q \in Ports \ {p}, port[q].enabled PROVE dev'[port[q].device] = dev[port[q].device]
      BY <1>7, <2>2 DEF Core, PortsHonest, Resets, SameDevice
    <2>3. QED BY <1>1, <1>6, <1>11, <2>1, <2>2 DEF Core, ChildrenFollow
  <1>15. AddressesApart'
    <2>1. ASSUME NEW q \in Ports, port'[q].enabled, child[q] = NoChild
          PROVE  resetting' = q /\ dev'[port'[q].device].address = 0
      <3>1. q = p
        <4>1. SUFFICES ASSUME q # p PROVE FALSE OBVIOUS
        <4>2. port[q].enabled BY <1>6, <2>1, <4>1
        <4>3. QED BY <1>1, <1>2, <1>4, <2>1, <4>2 DEF Core, AddressesApart
      <3>2. port[p].connected BY <1>6, <2>1, <3>1 DEF Core, PortsHonest, Resets
      <3>3. QED BY <1>1, <1>6, <1>7, <3>1, <3>2
    <2>2. QED BY <1>1, <1>3, <2>1 DEF Core, AddressesApart
  <1>16. QED BY <1>1, <1>8, <1>9, <1>10, <1>12, <1>13, <1>14, <1>15 DEF Core, NeverRefused

(* The reset is over: the port has no child, and whoever answers at address 0 *)
(* is the device on it.                                                     *)
LEMMA ResetSeen ==
  ASSUME Core, task.pc = "act", SeesReset
  PROVE  /\ child[task.port] = NoChild /\ resetting = task.port
         /\ port[task.port].enabled <=> Answering(0) # {}
         /\ port[task.port].enabled => Found(0) = port[task.port].device
         /\ port[task.port].enabled => task.status.enabled
  <1> DEFINE p == task.port
  <1>1. "reset" \in task.status.change BY DEF SeesReset
  <1>2. p \in Ports /\ child[p] = NoChild /\ "reset" \in port[p].change BY <1>1, ActsOn
  <1>3. resetting = p BY <1>2 DEF Core, DriverInStep
  <1>4. ASSUME NEW q \in Answering(0) PROVE q = p /\ port[p].enabled
    <2>1. q \in Ports /\ port[q].enabled /\ dev[port[q].device].address = 0 BY DEF Answering, Reachable
    <2>2. child[q] # NoChild => child[q].address # 0 BY <2>1 DEF Core, TypeOK, Child
    <2>3. child[q] = NoChild /\ resetting = q BY <2>1, <2>2, AnswersAt
    <2>4. QED BY <1>3, <2>1, <2>3
  <1>5. ASSUME port[p].enabled PROVE p \in Answering(0) /\ Found(0) = port[p].device
    <2>1. dev[port[p].device].address = 0 BY <1>2, <1>5, AnswersAt
    <2>2. p \in Answering(0) BY <1>2, <1>5, <2>1 DEF Core, PortsHonest, Resets, Answering, Reachable
    <2>3. Answering(0) \in SUBSET Nat BY DEF Answering, Ports
    <2>4. Min(Answering(0)) = p BY <1>4, <2>2, <2>3, LeastOf
    <2>5. QED BY <2>2, <2>4 DEF Found
  <1>6. port[p].enabled => task.status.enabled BY DEF Core, StatusStillTrue
  <1>7. QED BY <1>2, <1>3, <1>4, <1>5, <1>6

LEMMA ActResetKeeps == ASSUME Core, ActReset PROVE Core'
  <1> DEFINE p == task.port
  <1>1. /\ task.pc = "act" /\ SeesReset /\ port' = ClearChange(p, "reset") /\ resetting' = 0
        /\ UNCHANGED << child, cleanup, since, due, wanted, commands, reboots >>
    BY DEF ActReset, Driving, timing
  <1>2. /\ p \in Ports /\ task.todo \in SUBSET Ports /\ p \notin task.todo /\ p \notin cleanup
        /\ 0 \notin Ports /\ \A q \in Ports : port[q].powered
    BY <1>1, ActsOn DEF Ports
  <1>3. /\ child[p] = NoChild /\ resetting = p
        /\ port[p].enabled <=> Answering(0) # {}
        /\ port[p].enabled => Found(0) = port[p].device
        /\ port[p].enabled => task.status.enabled
    BY <1>1, ResetSeen
  <1>4. IF port[p].enabled
        THEN /\ dev' = [dev EXCEPT ![port[p].device].address = FreeAddress]
             /\ task' = [task EXCEPT !.pc = "install",
                           !.status = [address |-> FreeAddress, medium |-> dev[port[p].device].medium]]
        ELSE task' = Then(task.todo) /\ dev' = dev
    BY <1>3 DEF ActReset
  <1>5. refused' = refused BY <1>3 DEF ActReset
  <1>6. /\ port' \in [Ports -> PortType] /\ \A q \in Ports \ {p} : port'[q] = port[q]
        /\ port'[p].change = port[p].change \ {"reset"}
        /\ \A q \in Ports : /\ port'[q].device = port[q].device /\ port'[q].connected = port[q].connected
                            /\ port'[q].powered = port[q].powered /\ port'[q].enabled = port[q].enabled
    BY <1>1, <1>2, ClearChangeIs DEF Core
  <1>7. PortsHonest' /\ PlugInsWait' BY <1>1, <1>2, ClearKeeps
  <1>8. \A q \in Ports : "reset" \in port'[q].change <=> resetting' = q
    BY <1>1, <1>2, <1>3, <1>6 DEF Core, DriverInStep
  <1>9. \A q \in task.todo : port'[q].change # {}
    BY <1>1, <1>2, <1>6 DEF Core, DriverInStep, Pending
  <1>10. \A q \in Ports : child[q] # NoChild \/ q \in cleanup => q # p BY <1>2, <1>3
  <1>11. CASE ~port[p].enabled
    <2>1. /\ dev' = dev /\ task' = Then(task.todo) /\ task' \in TaskType
          /\ task.todo = {} => task'.pc = "idle"
          /\ task.todo # {} => task'.pc = "ports" /\ task'.todo = task.todo
      BY <1>2, <1>4, <1>11, ThenIs
    <2>2. TypeOK' BY <1>1, <1>5, <1>6, <2>1 DEF Core, TypeOK
    <2>3. Pending' = task.todo /\ Pending = task.todo /\ \A q \in Ports : ~Handles(q)'
      BY <1>1, <2>1 DEF Pending, Handles
    <2>4. DriverInStep' BY <1>1, <1>2, <1>6, <1>8, <1>9, <2>1, <2>3 DEF DriverInStep
    <2>5. StatusStillTrue' BY <2>1 DEF StatusStillTrue
    <2>6. ChildrenFollow' BY <1>1, <1>6, <1>10, <2>1, <2>3 DEF Core, ChildrenFollow
    <2>7. AddressesApart'
      <3>1. ASSUME NEW q \in Ports, port'[q].enabled PROVE child'[q] # NoChild
        <4>1. port[q].enabled /\ q # p BY <1>6, <1>11, <3>1
        <4>2. QED BY <1>1, <1>3, <4>1 DEF Core, AddressesApart
      <3>2. QED BY <1>1, <2>1, <3>1 DEF Core, AddressesApart
    <2>8. QED BY <1>5, <1>7, <2>2, <2>4, <2>5, <2>6, <2>7 DEF Core, NeverRefused
  <1>12. CASE port[p].enabled
    <2> DEFINE a == FreeAddress
    <2> DEFINE new == [address |-> a, medium |-> dev[port[p].device].medium]
    <2>1. a \in Address \ {0} /\ \A q \in Ports : child[q].address # a BY <1>2, <1>3, AddressIsFree DEF Core
    <2>2. port[p].device # NoDevice /\ port[p].connected /\ "connection" \notin port[p].change
      BY <1>2, <1>12 DEF Core, PortsHonest, Resets
    <2>3. /\ dev' \in [Device -> [address: Address, medium: Medium]]
          /\ dev'[port[p].device] = new /\ \A q \in Ports \ {p} : SameDevice(q)
      BY <1>2, <1>4, <1>12, <2>1, <2>2, AddressIs
    <2>4. new \in Child
      <3>1. dev[port[p].device].medium \in Medium BY <1>2, <2>2, PortIs DEF Core, TypeOK
      <3>2. QED BY <2>1, <3>1 DEF Child
    <2>5. task' = [task EXCEPT !.pc = "install", !.status = new] BY <1>4, <1>12
    <2> HIDE DEF new, a
    <2>6. /\ task'.pc = "install" /\ task'.todo = task.todo /\ task'.port = p /\ task'.status = new
          /\ task' \in TaskType
      <3>1. task \in [pc: {"act", "reset"}, todo: SUBSET Ports, port: Ports, status: Status]
        BY <1>1 DEF Core, TypeOK, TaskType
      <3>2. QED BY <2>4, <2>5, <3>1 DEF TaskType
    <2>7. TypeOK' BY <1>1, <1>5, <1>6, <2>3, <2>6 DEF Core, TypeOK
    <2>8. Pending' = task.todo /\ Pending = task.todo /\ \A q \in Ports : Handles(q)' <=> q = p
      BY <1>1, <2>6 DEF Pending, Handles
    <2>9. DriverInStep' BY <1>1, <1>2, <1>6, <1>8, <1>9, <2>6, <2>8 DEF DriverInStep
    <2>10. StatusStillTrue'
      <3>1. task'.pc = "install" /\ task'.port = p /\ task'.status = new BY <2>6
      <3>2. /\ child'[p] = NoChild /\ resetting' = 0 /\ port'[p].connected /\ port'[p].enabled
            /\ port'[p].device # NoDevice /\ "connection" \notin port'[p].change
            /\ dev'[port'[p].device] = new
        BY <1>1, <1>2, <1>3, <1>6, <1>12, <2>2, <2>3
      <3>3. QED BY <3>1, <3>2 DEF StatusStillTrue
    <2>11. ChildrenFollow'
      <3>1. ASSUME NEW q \in Ports \ {p}, port[q].enabled PROVE dev'[port[q].device] = dev[port[q].device]
        BY <2>3, <3>1 DEF Core, PortsHonest, Resets, SameDevice
      <3>2. QED BY <1>1, <1>6, <1>10, <2>8, <3>1 DEF Core, ChildrenFollow
    <2>12. AddressesApart'
      <3>1. ASSUME NEW q \in Ports, port'[q].enabled, child'[q] = NoChild PROVE q = p
        BY <1>1, <1>3, <1>6, <3>1 DEF Core, AddressesApart
      <3>2. \A q \in Ports : child[q] # NoChild => task'.status.address # child[q].address
        BY <2>1, <2>6 DEF new
      <3>3. QED BY <1>1, <2>6, <3>1, <3>2 DEF Core, AddressesApart
    <2>13. QED BY <1>5, <1>7, <2>7, <2>9, <2>10, <2>11, <2>12 DEF Core, NeverRefused
  <1>13. QED BY <1>11, <1>12

-----------------------------------------------------------------------------
LEMMA StutterKeeps == ASSUME Core, UNCHANGED vars PROVE Core'
  <1> USE DEF vars, hub, timing, driver
  <1>1. TypeOK' /\ NeverRefused' BY DEF Core, TypeOK, NeverRefused
  <1>2. PortsHonest' /\ PlugInsWait' BY DEF Core, PortsHonest, PlugInsWait, Resets, Acknowledged
  <1>3. DriverInStep' BY DEF Core, DriverInStep, Pending, Handles
  <1>4. StatusStillTrue' BY DEF Core, StatusStillTrue
  <1>5. ChildrenFollow' BY DEF Core, ChildrenFollow, Pending, Handles
  <1>6. AddressesApart' BY DEF Core, AddressesApart
  <1>7. QED BY <1>1, <1>2, <1>3, <1>4, <1>5, <1>6 DEF Core

LEMMA NextKeeps == ASSUME Core, ~Late, Next PROVE Core'
  <1>1. CASE User
    <2>1. PICK p \in Ports :
            \/ PlugOut(p) \/ TakeOff(p) \/ PlugIn(p)
            \/ \E m \in Medium : Replace(p, m) \/ \E d \in Device : PlugDevice(p, d, m)
      BY <1>1 DEF User
    <2>2. CASE PlugOut(p) BY <2>2, PlugOutKeeps
    <2>3. CASE TakeOff(p) BY <2>3, TakeOffKeeps
    <2>4. CASE PlugIn(p) BY <2>4, PlugInKeeps
    <2>5. CASE \E m \in Medium : Replace(p, m) BY <2>5, ReplaceKeeps
    <2>6. CASE \E m \in Medium : \E d \in Device : PlugDevice(p, d, m) BY <2>6, PlugDeviceKeeps
    <2>7. QED BY <2>1, <2>2, <2>3, <2>4, <2>5, <2>6
  <1>2. CASE PlugInDue BY <1>2, PlugInDueKeeps
  <1>3. CASE Tick BY <1>3, TickKeeps
  <1>4. CASE Reboot BY <1>4, RebootKeeps
  <1>5. CASE Driver
    BY <1>5, PowerKeeps, CleanupKeeps, ReportKeeps, ReadStatusKeeps, ActConnectKeeps, StartResetKeeps,
       ActDisconnectKeeps, ActResetKeeps, InstallKeeps, ActNothingKeeps DEF Driver
  <1>6. QED BY <1>1, <1>2, <1>3, <1>4, <1>5 DEF Next

(* The driver handles every unplug in time: whatever is plugged, swapped and  *)
(* reset at whatever step of it, it refuses no plug-in, what answers at a     *)
(* child's address is what it enumerated there, and no address answers twice. *)
THEOREM UsbHubHolds == ASSUME ~Late PROVE Spec => []UsbHubInvariant
  <1>1. Core /\ [Next]_vars => Core' BY NextKeeps, StutterKeeps
  <1>2. Core => UsbHubInvariant BY CoreImplies
  <1>3. QED BY InitHolds, <1>1, <1>2, PTL DEF Spec
=============================================================================
