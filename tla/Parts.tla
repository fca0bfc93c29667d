------------------------------- MODULE Parts -------------------------------
(***************************************************************************)
(* Parts of the emulator whose models share no state: the C64 port with    *)
(* its freeze session and the engine bridge (C64Port), the run control of  *)
(* the debug servers (DebugServers), the way back in time (TimeRing), the  *)
(* SPI flash with its image (SpiFlash), the SD card (SdCard), the floppy   *)
(* controller of a 1581 (Wd177x), the surface of a 1541 (DriveTracks), the *)
(* cartridges and their EEPROM (CartBus, Eeprom), the instances of several *)
(* MCP servers (McpServers) and the UART to the ESP32 (Wifi).              *)
(* Interleaving them would add nothing, so a behaviour is one of the parts *)
(* and the others stand at their start.                                    *)
(***************************************************************************)
EXTENDS Naturals

CONSTANTS
    Value, ListMax, Stretch, Types, MaxSteps,           \* C64Port
    CodeLen, SliceInsns, Address, MaxMessages,          \* DebugServers
    Addr, Byte, Cap, MaxEntries, SweepEvery, MaxOps,    \* TimeRing
    Opcode, Sectors, MaxFrame, MaxFlashOps,             \* SpiFlash
    CardSectors,                                        \* SdCard
    SectorLen, FifoDepth, LastTrack, MaxForced,         \* Wd177x
    AddrBits, MaxSelects,                               \* Eeprom
    MaxServers, MaxCalls, MaxIds, MaxEmus,              \* McpServers
    RxBuffers, TxBuffers, Hold, MaxSends,               \* Wifi
    HalfTrack, Busy, MaxWrites, MaxSwitches,            \* DriveTracks
    CartType, PortCart, IoAddr, IoValue, Sharing,       \* CartBus
    EpyxCycles, AdvanceCycles, MaxSettings

ASSUME PartsAssumption ==
    /\ {Stretch, ListMax, MaxSteps, CodeLen, SliceInsns, MaxMessages, Cap, MaxEntries, SweepEvery, MaxOps,
        Sectors, MaxFrame, MaxFlashOps, CardSectors, SectorLen, FifoDepth, LastTrack, MaxForced, AddrBits, MaxSelects,
        MaxServers, MaxCalls, MaxIds, MaxEmus, RxBuffers, TxBuffers, Hold, MaxSends, Busy, MaxWrites, MaxSwitches,
        EpyxCycles, AdvanceCycles, MaxSettings}
         \subseteq Nat
    /\ Stretch > 0 /\ CodeLen > 0 /\ Cap > 0 /\ MaxEntries > 0
    /\ Sectors > 0 /\ CardSectors > 0 /\ SectorLen > 0 /\ FifoDepth > 1 /\ AddrBits > 1 /\ RxBuffers > 0
    /\ MaxServers > 0 /\ MaxIds > 0
    /\ 0 \in HalfTrack /\ HalfTrack \subseteq Nat
    /\ 0 \in Types /\ Types \subseteq Nat /\ Address \subseteq Nat
    /\ CartType \subseteq 0 .. 255 /\ PortCart \subseteq 1 .. 255 /\ IoAddr \subseteq 0 .. 511 /\ IoValue \subseteq 0 .. 255
    /\ Sharing \subseteq SUBSET {"rom", "io1", "io2", "irq"} /\ EpyxCycles > 0 /\ AdvanceCycles > 0

VARIABLES
    part,                                        \* the part a behaviour is of
    trx, c, esp, steps,                          \* C64Port
    left, fw, gdb, mon, c64, vice, told, sent,   \* DebugServers
    mem, log, ring, file, ops,                   \* TimeRing
    flash,                                       \* SpiFlash
    card, image, drv, kept,                      \* SdCard
    wd, ddr, d81, dos, serving,                  \* Wd177x
    ee,                                          \* Eeprom
    claims, json, emu, srv, call, window, wiped, \* McpServers
    uart, wifi, owed, sends,                     \* Wifi
    drive, task, made, switches,                 \* DriveTracks
    carts, bus, cpu, settings                    \* CartBus

Port  == INSTANCE C64Port
Debug == INSTANCE DebugServers
Time  == INSTANCE TimeRing
Flash == INSTANCE SpiFlash
Sd    == INSTANCE SdCard
Fdc   == INSTANCE Wd177x
Rom   == INSTANCE Eeprom
Mcp   == INSTANCE McpServers
Esp   == INSTANCE Wifi
Disk  == INSTANCE DriveTracks
Carts == INSTANCE CartBus

Init ==
    /\ part \in {"port", "debug", "time", "flash", "sd", "fdc", "eeprom", "mcp", "wifi", "disk", "carts"}
    /\ Port!Init /\ Debug!Init /\ Time!Init /\ Flash!Init /\ Sd!Init /\ Fdc!Init /\ Rom!Init /\ Mcp!Init /\ Esp!Init /\ Disk!Init
    /\ Carts!Init
    /\ part # "port" => ~trx
    /\ part # "fdc" => d81 = ddr
    /\ part # "wifi" => ~uart.events
    /\ part # "mcp" => \A i \in DOMAIN claims : ~claims[i].there

portVars  == << trx, c, esp, steps >>
debugVars == << left, fw, gdb, mon, c64, vice, told, sent >>
timeVars  == << mem, log, ring, file, ops >>
sdVars    == << card, image, drv, kept >>
fdcVars   == << wd, ddr, d81, dos, serving >>
mcpVars   == << claims, json, emu, srv, call, window, wiped >>
wifiVars  == << uart, wifi, owed, sends >>
diskVars  == << drive, task, made, switches >>
cartVars  == << carts, bus, cpu, settings >>

HostVars  == << debugVars, timeVars, mcpVars, wifiVars >>
StoreVars == << flash, sdVars, fdcVars, ee, diskVars, cartVars >>

PortNext   == part = "port" /\ Port!Next /\ UNCHANGED << part, HostVars, StoreVars >>
DebugNext  == part = "debug" /\ Debug!Next /\ UNCHANGED << part, portVars, timeVars, mcpVars, wifiVars, StoreVars >>
TimeNext   == part = "time" /\ Time!Next /\ UNCHANGED << part, portVars, debugVars, mcpVars, wifiVars, StoreVars >>
FlashNext  == part = "flash" /\ Flash!Next /\ UNCHANGED << part, portVars, HostVars, sdVars, fdcVars, ee, diskVars, cartVars >>
SdNext     == part = "sd" /\ Sd!Next /\ UNCHANGED << part, portVars, HostVars, flash, fdcVars, ee, diskVars, cartVars >>
FdcNext    == part = "fdc" /\ Fdc!Next /\ UNCHANGED << part, portVars, HostVars, flash, sdVars, ee, diskVars, cartVars >>
RomNext    == part = "eeprom" /\ Rom!Next /\ UNCHANGED << part, portVars, HostVars, flash, sdVars, fdcVars, diskVars, cartVars >>
McpNext    == part = "mcp" /\ Mcp!Next /\ UNCHANGED << part, portVars, debugVars, timeVars, wifiVars, StoreVars >>
EspNext    == part = "wifi" /\ Esp!Next /\ UNCHANGED << part, portVars, debugVars, timeVars, mcpVars, StoreVars >>
DiskNext   == part = "disk" /\ Disk!Next /\ UNCHANGED << part, portVars, HostVars, flash, sdVars, fdcVars, ee, cartVars >>
CartNext   == part = "carts" /\ Carts!Next /\ UNCHANGED << part, portVars, HostVars, flash, sdVars, fdcVars, ee, diskVars >>

vars == << part, portVars, HostVars, StoreVars >>

Next == PortNext \/ DebugNext \/ TimeNext \/ FlashNext \/ SdNext \/ FdcNext \/ RomNext \/ McpNext \/ EspNext \/ DiskNext
     \/ CartNext

Spec == Init /\ [][Next]_vars

----------------------------------------------------------------------------
(* The properties of the parts, stated and explained in their modules.  The *)
(* parts a behaviour is not of stand at their start.                        *)

(* The engine does what registers, TRX block and debugger ask of it, and a  *)
(* C64 that stood does not make up the time.                                *)
EngineFollows == part = "port" => Port!EngineFollows

(* The freeze session is invisible to the firmware. *)
SessionTransparent == Port!SessionTransparent

(* The firmware moves only as its debuggers asked. *)
MovesAsAsked == Debug!MovesAsAsked

(* The VICE server's checkpoints are armed and its stops its client's. *)
ViceKeepsItsWord == part = "debug" => Debug!ViceKeepsItsWord

(* An anchor in the ring brings its memories back exactly. *)
AnchorsHold == part = "time" => Time!AnchorsHold

(* Only complete, enabled frames change the flash, and its image loses none. *)
FlashKeeps == part = "flash" => Flash!FlashKeeps

(* The SD card and its driver agree on what the image holds. *)
SdTells == part = "sd" => Sd!SdTells

(* A sector read or written on a 1581 arrives whole. *)
SectorsMove == part = "fdc" => Fdc!SectorsMove

(* The EEPROM does what the bits on its pins say. *)
PinsMean == part = "eeprom" => Rom!PinsMean

(* MCP servers do not use each other's instances, and no emulator is left   *)
(* behind.                                                                  *)
ServersApart == part = "mcp" => Mcp!ServersApart

(* Every frame of the ESP32 reaches the firmware, once, whole and in order. *)
WifiDelivers == part = "wifi" => Esp!WifiDelivers

(* What a 1541 writes reaches the image of the disk it was written on. *)
DiskKept == part = "disk" => Disk!DiskKept

(* The 6510 runs under the lines the cartridges pull, and a freeze it waits *)
(* for is entered.                                                          *)
CartsSeen == part = "carts" => Carts!CartsSeen
=============================================================================
