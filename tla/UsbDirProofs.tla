---------------------------- MODULE UsbDirProofs ----------------------------
(***************************************************************************)
(* UsbDirInvariant is an invariant of UsbDir for every instance in which   *)
(* opening a rebuilt image does not fail (the "open" fault: run            *)
(* UsbDirOpenFails shows what happens then), and the safety properties     *)
(* that follow from it.                                                    *)
(*                                                                         *)
(* One lemma per action, one step per part of the invariant.               *)
(***************************************************************************)
EXTENDS UsbDirInv, TLAPS

-----------------------------------------------------------------------------
(* Start, and the steps of prepare.                                         *)

(* The first start finds nothing.                                           *)
LEMMA InitInv == Init => UsbDirInvariant
<1> SUFFICES ASSUME Init PROVE UsbDirInvariant
  OBVIOUS
<1> USE UsbDirAssumption DEF Init
<1>1. TypeStore /\ TypeFlags /\ TypeCounts /\ TypeStages
  <2>1. TypeStore
    BY DEF TypeStore
  <2>2. TypeFlags
    BY DEF TypeFlags
  <2>3. TypeCounts
    BY DEF TypeCounts
  <2>4. TypeStages
    BY DEF TypeStages
  <2>. QED BY <2>1, <2>2, <2>3, <2>4
<1>2. TypeMessages
  BY DEF TypeMessages, Job
<1>3. ~Running /\ ~Swapping
  BY DEF Running, Swapping, None
<1>4. Protocol /\ Made /\ Superseded /\ Preparing /\ Attached /\ Claims
  <2>1. Protocol
    BY <1>3 DEF Protocol, Idle, None
  <2>2. Made
    BY DEF Made, Out
  <2>3. Superseded
    BY <1>3 DEF Superseded
  <2>4. Preparing /\ Attached /\ Claims
    BY <1>3 DEF Preparing, Attached, Claims
  <2>. QED BY <2>1, <2>2, <2>3, <2>4
<1>. QED BY <1>1, <1>2, <1>4 DEF UsbDirInvariant, TypeOK

(* The invariant is about the variables only.                               *)
LEMMA StutterInv == UsbDirInvariant /\ UNCHANGED vars => UsbDirInvariant'
<1> SUFFICES ASSUME UsbDirInvariant, UNCHANGED vars PROVE UsbDirInvariant'
  OBVIOUS
<1> USE DEF vars, work, port, watch, channel, UsbDirInvariant
<1>1. TypeOK'
  BY DEF TypeOK, TypeStore, TypeFlags, TypeCounts, TypeStages, TypeMessages
<1>2. Protocol' /\ Made' /\ Superseded' /\ Preparing' /\ Attached'
  BY DEF Protocol, Made, Superseded, Preparing, Attached, Running, Swapping, Out
<1>3. Claims'
  BY DEF Claims, Running, Out, UpTo, Dirty
<1>. QED BY <1>1, <1>2, <1>3

(* Marking keeps the flags Boolean.                                         *)
LEMMA PrepareKeepFlags == ASSUME TypeFlags, PrepareKeep PROVE TypeFlags'
<1>1. marker' \in BOOLEAN
  BY Zenon DEF PrepareKeep, TypeFlags
<1>2. UNCHANGED << hostDiff, readOnly, failedParse, blocked, hostChanged, stopping, notice, event, announced, checkAt, newDiff, unchanged >>
  BY DEF PrepareKeep, PrepareUnchanged, watch
<1>. QED BY <1>1, <1>2 DEF TypeFlags

(* A start with the options of the command line.                            *)
LEMMA StartInv ==
  ASSUME UsbDirInvariant, Start
  PROVE  UsbDirInvariant'
<1>0. TypeOK /\ Protocol /\ Made /\ Superseded /\ Preparing /\ Attached /\ Claims
  BY DEF UsbDirInvariant
<1>1. TypeStore'
  BY <1>0 DEF Start, TypeStore, Attach, TypeOK, channel, work
<1>2. TypeFlags'
  BY <1>0, UsbDirAssumption DEF Start, TypeFlags, TypeOK, watch
<1>3. TypeCounts'
  BY <1>0, UsbDirAssumption DEF Start, TypeCounts, Attach, TypeOK
<1>4. TypeStages'
  BY <1>0 DEF Start, TypeStages, Attach, Starting, TypeOK, watch
<1>5. TypeMessages'
  BY <1>0 DEF Start, TypeMessages, TypeOK, channel
<1>6. Protocol'
  BY <1>0 DEF Start, Protocol, Running, channel
<1>7. Made'
  BY <1>0 DEF Start, Made, Out, work
<1>8. Superseded'
  BY <1>0 DEF Start, Superseded, Attach, Idle, None, Out, Protocol, Running, Swapping,
    channel, work
<1>9. Preparing'
  BY <1>0 DEF Start, Preparing, Attach, Running
<1>10. Attached'
  BY <1>0 DEF Start, Attached, TypeStore, Preparing, Attach, Idle, None, Protocol,
        Running,
    Starting, Swapping, TypeOK, channel, work
<1>11. Claims'
  BY <1>0 DEF Start, Claims, TypeCounts, TypeStore, NeverSynced, Made, Attach, Idle,
    Protocol, Running, Starting, TypeOK, UpTo, channel, work
<1>. QED BY <1>1, <1>2, <1>3, <1>4, <1>5, <1>6, <1>7, <1>8, <1>9, <1>10, <1>11
      DEF UsbDirInvariant, TypeOK

(* What was not synced is kept before anything is removed.                  *)
LEMMA PrepareKeepInv ==
  ASSUME UsbDirInvariant, PrepareKeep
  PROVE  UsbDirInvariant'
<1>0. TypeOK /\ Protocol /\ Made /\ Superseded /\ Preparing /\ Attached /\ Claims
  BY DEF UsbDirInvariant
<1>1. TypeStore'
  BY <1>0 DEF PrepareKeep, TypeStore, TypeFlags, TypeStages, TypeCounts, TypeMessages,
    PrepareUnchanged, TypeOK, channel
<1>2. TypeFlags'
  BY <1>0, PrepareKeepFlags DEF TypeOK
<1>3. TypeCounts'
  BY <1>0 DEF PrepareKeep, TypeCounts, PrepareUnchanged, TypeOK
<1>4. TypeStages'
  BY <1>0 DEF PrepareKeep, TypeStages, PrepareUnchanged, Starting, TypeOK, watch
<1>5. TypeMessages'
  BY <1>0 DEF PrepareKeep, TypeMessages, PrepareUnchanged, TypeOK, channel
<1>6. Protocol'
  BY <1>0 DEF PrepareKeep, Protocol, PrepareUnchanged, Running, Starting, channel
<1>7. Made'
  BY <1>0, UsbDirAssumption DEF PrepareKeep, Made, TypeFlags, TypeStages, TypeCounts,
    TypeStore, Write, Claims, Out, PrepareUnchanged, Protocol, Running, Starting, TypeOK,
    channel, watch
<1>8. Superseded'
  BY <1>0, UsbDirAssumption DEF PrepareKeep, Superseded, TypeFlags, TypeStages,
        TypeCounts,
    TypeMessages, TypeStore, Request, Reply, Out, PrepareUnchanged, Swapping, channel
<1>9. Preparing'
  BY <1>0, UsbDirAssumption DEF PrepareKeep, Preparing, TypeFlags, TypeStages,
        TypeCounts,
    TypeMessages, TypeStore, Request, Reply, Job, Superseded, Attached, Claims, Idle, None,
    PrepareUnchanged, Protocol, Running, Starting, Swapping, TypeOK, channel, port, watch,
    work
<1>10. Attached'
  BY <1>0, UsbDirAssumption DEF PrepareKeep, Attached, TypeFlags, TypeStages,
        TypeCounts,
    TypeMessages, TypeStore, Write, Request, Reply, Job, Running, Starting
<1>11. Claims'
  BY <1>0, UsbDirAssumption DEF PrepareKeep, Claims, TypeFlags, TypeStages, TypeCounts,
    TypeMessages, TypeStore, Write, Request, Reply, Job, Running, Starting
<1>. QED BY <1>1, <1>2, <1>3, <1>4, <1>5, <1>6, <1>7, <1>8, <1>9, <1>10, <1>11
      DEF UsbDirInvariant, TypeOK

(* Old images go once the marker is gone.                                   *)
LEMMA PrepareCleanInv ==
  ASSUME UsbDirInvariant, PrepareClean
  PROVE  UsbDirInvariant'
<1>0. TypeOK /\ Protocol /\ Made /\ Superseded /\ Preparing /\ Attached /\ Claims
  BY DEF UsbDirInvariant
<1>1. TypeStore'
  BY <1>0 DEF PrepareClean, TypeStore, PrepareUnchanged, TypeOK, channel
<1>2. TypeFlags'
  BY <1>0 DEF PrepareClean, TypeFlags, PrepareUnchanged, TypeOK, watch
<1>3. TypeCounts'
  BY <1>0 DEF PrepareClean, TypeCounts, PrepareUnchanged, TypeOK
<1>4. TypeStages'
  BY <1>0 DEF PrepareClean, TypeStages, PrepareUnchanged, Starting, TypeOK, watch
<1>5. TypeMessages'
  BY <1>0 DEF PrepareClean, TypeMessages, PrepareUnchanged, TypeOK, channel
<1>6. Protocol'
  BY <1>0 DEF PrepareClean, Protocol, PrepareUnchanged, Running, Starting, channel
<1>7. Made'
  BY <1>0 DEF PrepareClean, Made, Out, PrepareUnchanged
<1>8. Superseded'
  BY <1>0 DEF PrepareClean, Superseded, Out, PrepareUnchanged, Swapping, channel
<1>9. Preparing'
  BY <1>0 DEF PrepareClean, Preparing, PrepareUnchanged, Running, Starting
<1>10. Attached'
  BY <1>0 DEF PrepareClean, Attached, Running, Starting
<1>11. Claims'
  BY <1>0 DEF PrepareClean, Claims, Running, Starting
<1>. QED BY <1>1, <1>2, <1>3, <1>4, <1>5, <1>6, <1>7, <1>8, <1>9, <1>10, <1>11
      DEF UsbDirInvariant, TypeOK

(* A new image holds no guest write.                                        *)
LEMMA PrepareBuildInv ==
  ASSUME UsbDirInvariant, PrepareBuild
  PROVE  UsbDirInvariant'
<1>0. TypeOK /\ Protocol /\ Made /\ Superseded /\ Preparing /\ Attached /\ Claims
  BY DEF UsbDirInvariant
<1>1. TypeStore'
  BY <1>0 DEF PrepareBuild, TypeStore, FreeImage, PrepareUnchanged, TypeOK, channel
<1>2. TypeFlags'
  BY <1>0, UsbDirAssumption DEF PrepareBuild, TypeFlags, NotFailed, FreeImage,
    PrepareUnchanged, TypeOK, channel, port, watch, work
<1>3. TypeCounts'
  BY <1>0 DEF PrepareBuild, TypeCounts, PrepareUnchanged, TypeOK
<1>4. TypeStages'
  BY <1>0 DEF PrepareBuild, TypeStages, PrepareUnchanged, Starting, TypeOK, watch
<1>5. TypeMessages'
  BY <1>0 DEF PrepareBuild, TypeMessages, PrepareUnchanged, TypeOK, channel
<1>6. Protocol'
  BY <1>0 DEF PrepareBuild, Protocol, PrepareUnchanged, Running, Starting, channel
<1>7. Made'
  BY <1>0 DEF PrepareBuild, Made, Out, PrepareUnchanged
<1>8. Superseded'
  BY <1>0 DEF PrepareBuild, Superseded, TypeStore, FreeImage, Out, PrepareUnchanged,
        TypeOK
<1>9. Preparing'
  BY <1>0 DEF PrepareBuild, Preparing, PrepareUnchanged, Running, Starting
<1>10. Attached'
  BY <1>0 DEF PrepareBuild, Attached, Running, Starting
<1>11. Claims'
  BY <1>0 DEF PrepareBuild, Claims, Running, Starting
<1>. QED BY <1>1, <1>2, <1>3, <1>4, <1>5, <1>6, <1>7, <1>8, <1>9, <1>10, <1>11
      DEF UsbDirInvariant, TypeOK

(* The manifest names the new image, and the stick is attached.             *)
LEMMA PrepareSaveInv ==
  ASSUME UsbDirInvariant, PrepareSave
  PROVE  UsbDirInvariant'
<1>0. TypeOK /\ Protocol /\ Made /\ Superseded /\ Preparing /\ Attached /\ Claims
  BY DEF UsbDirInvariant
<1>1. TypeStore'
  BY <1>0 DEF PrepareSave, TypeStore, Attach, PrepareUnchanged, TypeOK, channel
<1>2. TypeFlags'
  BY ZenonT(40), <1>0, UsbDirAssumption DEF PrepareSave, TypeFlags, NotFailed, Attach,
        PrepareUnchanged,
    TypeOK, channel, port, watch, work
<1>3. TypeCounts'
  BY <1>0 DEF PrepareSave, TypeCounts, Attach, PrepareUnchanged, TypeOK
<1>4. TypeStages'
  BY <1>0 DEF PrepareSave, TypeStages, Attach, PrepareUnchanged, TypeOK, watch
<1>5. TypeMessages'
  BY <1>0 DEF PrepareSave, TypeMessages, PrepareUnchanged, TypeOK, channel
<1>6. Protocol'
  BY <1>0 DEF PrepareSave, Protocol, PrepareUnchanged, Running, Starting, channel
<1>7. Made'
  BY <1>0 DEF PrepareSave, Made, Out, PrepareUnchanged
<1>8. Superseded'
  BY <1>0 DEF PrepareSave, Superseded, Preparing, Attach, Idle, None, PrepareUnchanged,
    Protocol, Running, Starting, Swapping, channel
<1>9. Preparing'
  BY <1>0 DEF PrepareSave, Preparing, Attach, Running, Starting
<1>10. Attached'
  BY <1>0 DEF PrepareSave, Attached, Preparing, Superseded, Attach, Idle, None,
    PrepareUnchanged, Protocol, Running, Starting, Swapping, channel
<1>11. Claims'
  BY <1>0 DEF PrepareSave, Claims, TypeCounts, Superseded, Attach, Idle,
        PrepareUnchanged,
    Protocol, Running, Starting, TypeOK, UpTo, channel
<1>. QED BY <1>1, <1>2, <1>3, <1>4, <1>5, <1>6, <1>7, <1>8, <1>9, <1>10, <1>11
      DEF UsbDirInvariant, TypeOK

-----------------------------------------------------------------------------
(* The machine's slice.                                                     *)

(* The late flag is part of a command.                                      *)
LEMMA TimePassesQueue == ASSUME TypeMessages, TimePasses PROVE TypeMessages'
<1>1. CASE UNCHANGED queue
  BY <1>1 DEF TimePasses, SliceUnchanged, channel, TypeMessages
<1>2. CASE queue' = [k \in DOMAIN queue |-> [queue[k] EXCEPT !.late = TRUE]]
  <2>1. ASSUME NEW c \in Command PROVE [c EXCEPT !.late = TRUE] \in Command
    BY DEF Command
  <2>2. queue' \in Seq(Command)
    <3>1. queue \in Seq(Command) /\ DOMAIN queue = 1 .. Len(queue) /\ Len(queue) \in Nat
      BY DEF TypeMessages
    <3>2. \A k \in 1 .. Len(queue) : queue'[k] \in Command
      BY <1>2, <2>1, <3>1
    <3>. QED BY <1>2, <3>1, <3>2
  <2>. QED BY <2>2 DEF TimePasses, SliceUnchanged, channel, TypeMessages
<1>. QED BY <1>1, <1>2 DEF TimePasses

(* A write goes into the attached image.                                    *)
LEMMA GuestWriteInv ==
  ASSUME UsbDirInvariant, GuestWrite
  PROVE  UsbDirInvariant'
<1>0. TypeOK /\ Protocol /\ Made /\ Superseded /\ Preparing /\ Attached /\ Claims
  BY DEF UsbDirInvariant
<1>1. TypeStore'
  BY <1>0, UsbDirAssumption DEF GuestWrite, TypeStore, TypeStages, TypeCounts, Write,
    SliceUnchanged, TypeOK, channel
<1>2. TypeFlags'
  BY <1>0 DEF GuestWrite, TypeFlags, SliceUnchanged, TypeOK, port, watch
<1>3. TypeCounts'
  BY <1>0, UsbDirAssumption DEF GuestWrite, TypeCounts, SliceUnchanged, TypeOK, port
<1>4. TypeStages'
  BY <1>0 DEF GuestWrite, TypeStages, SliceUnchanged, TypeOK, watch
<1>5. TypeMessages'
  BY <1>0 DEF GuestWrite, TypeMessages, SliceUnchanged, TypeOK, channel
<1>6. Protocol'
  BY <1>0 DEF GuestWrite, Protocol, TypeCounts, TypeMessages, Job, Idle, Running,
    SliceUnchanged, TypeOK, channel
<1>7. Made'
  BY <1>0, UsbDirAssumption DEF GuestWrite, Made, TypeCounts, Out, SliceUnchanged,
        TypeOK
<1>8. Superseded'
  BY <1>0 DEF GuestWrite, Superseded, TypeMessages, Job, Attached, Idle, None, Out,
    Protocol, Running, SliceUnchanged, Starting, Swapping, TypeOK, channel
<1>9. Preparing'
  BY <1>0 DEF GuestWrite, Preparing, Running, SliceUnchanged, Starting
<1>10. Attached'
  BY <1>0 DEF GuestWrite, Attached, TypeCounts, TypeStore, Out, Running, SliceUnchanged,
    Swapping, TypeOK, channel
<1>11. Claims'
  BY <1>0 DEF GuestWrite, Claims, TypeCounts, TypeMessages, Job, NeverSynced, Idle, Out,
    Protocol, Running, SliceUnchanged, TypeOK, UpTo, channel, port
<1>. QED BY <1>1, <1>2, <1>3, <1>4, <1>5, <1>6, <1>7, <1>8, <1>9, <1>10, <1>11
      DEF UsbDirInvariant, TypeOK

(* Only the clock moves.                                                    *)
LEMMA TimePassesInv ==
  ASSUME UsbDirInvariant, TimePasses
  PROVE  UsbDirInvariant'
<1>0. TypeOK /\ Protocol /\ Made /\ Superseded /\ Preparing /\ Attached /\ Claims
  BY DEF UsbDirInvariant
<1>1. TypeStore'
  BY <1>0 DEF TimePasses, TypeStore, SliceUnchanged, TypeOK, channel
<1>2. TypeFlags'
  BY <1>0 DEF TimePasses, TypeFlags, SliceUnchanged, TypeOK, port, watch
<1>3. TypeCounts'
  BY <1>0 DEF TimePasses, TypeCounts, SliceUnchanged, TypeOK, port
<1>4. TypeStages'
  BY <1>0 DEF TimePasses, TypeStages, SliceUnchanged, TypeOK, watch
<1>5. TypeMessages'
  BY <1>0, TimePassesQueue DEF TypeOK
<1>6. Protocol'
  BY <1>0 DEF TimePasses, Protocol, Running, SliceUnchanged, channel
<1>7. Made'
  BY <1>0 DEF TimePasses, Made, Out, SliceUnchanged
<1>8. Superseded'
  BY <1>0 DEF TimePasses, Superseded, Out, SliceUnchanged, Swapping, channel
<1>9. Preparing'
  BY <1>0 DEF TimePasses, Preparing, Running, SliceUnchanged
<1>10. Attached'
  BY <1>0 DEF TimePasses, Attached, Out, Running, SliceUnchanged, Swapping, channel
<1>11. Claims'
  BY <1>0 DEF TimePasses, Claims, Dirty, Out, Running, SliceUnchanged, UpTo, channel,
        port
<1>. QED BY <1>1, <1>2, <1>3, <1>4, <1>5, <1>6, <1>7, <1>8, <1>9, <1>10, <1>11
      DEF UsbDirInvariant, TypeOK

(* Only the port moves.                                                     *)
LEMMA HubPlugInv ==
  ASSUME UsbDirInvariant, HubPlug
  PROVE  UsbDirInvariant'
<1>0. TypeOK /\ Protocol /\ Made /\ Superseded /\ Preparing /\ Attached /\ Claims
  BY DEF UsbDirInvariant
<1>1. TypeStore'
  BY <1>0 DEF HubPlug, TypeStore, SliceUnchanged, TypeOK, channel
<1>2. TypeFlags'
  BY <1>0 DEF HubPlug, TypeFlags, SliceUnchanged, TypeOK, port, watch
<1>3. TypeCounts'
  BY <1>0 DEF HubPlug, TypeCounts, SliceUnchanged, TypeOK, port
<1>4. TypeStages'
  BY <1>0 DEF HubPlug, TypeStages, SliceUnchanged, TypeOK, watch
<1>5. TypeMessages'
  BY <1>0 DEF HubPlug, TypeMessages, SliceUnchanged, TypeOK, channel
<1>6. Protocol'
  BY <1>0 DEF HubPlug, Protocol, Running, SliceUnchanged, channel
<1>7. Made'
  BY <1>0 DEF HubPlug, Made, Out, SliceUnchanged
<1>8. Superseded'
  BY <1>0 DEF HubPlug, Superseded, Out, SliceUnchanged, Swapping, channel
<1>9. Preparing'
  BY <1>0 DEF HubPlug, Preparing, Running, SliceUnchanged
<1>10. Attached'
  BY <1>0 DEF HubPlug, Attached, Out, Running, SliceUnchanged, Swapping, channel
<1>11. Claims'
  BY <1>0 DEF HubPlug, Claims, Out, Protocol, Running, SliceUnchanged, UpTo, channel,
        port
<1>. QED BY <1>1, <1>2, <1>3, <1>4, <1>5, <1>6, <1>7, <1>8, <1>9, <1>10, <1>11
      DEF UsbDirInvariant, TypeOK

(* A move of the thread between its stages changes nothing else.            *)
LEMMA GotoInv ==
  ASSUME UsbDirInvariant,
         NEW from \in Polling \cup {"run"}, NEW to \in Polling \cup {"run", "halt"}, Goto(from, to)
  PROVE  UsbDirInvariant'
<1>0. TypeOK /\ Protocol /\ Made /\ Superseded /\ Preparing /\ Attached /\ Claims
  BY DEF UsbDirInvariant
<1>1. TypeStore'
  BY <1>0 DEF Goto, TypeStore, Polling, TypeOK, channel, work
<1>2. TypeFlags'
  BY <1>0 DEF Goto, TypeFlags, Polling, TypeOK, port, watch
<1>3. TypeCounts'
  BY <1>0 DEF Goto, TypeCounts, Polling, TypeOK, port
<1>4. TypeStages'
  BY <1>0 DEF Goto, TypeStages, Polling, Stopping, TypeOK, watch
<1>5. TypeMessages'
  BY <1>0 DEF Goto, TypeMessages, Polling, TypeOK, channel
<1>6. Protocol'
  BY <1>0 DEF Goto, Protocol, Polling, Running, Starting, channel
<1>7. Made'
  BY <1>0 DEF Goto, Made, Polling, Out, work
<1>8. Superseded'
  BY <1>0 DEF Goto, Superseded, Polling, Out, Swapping, channel, work
<1>9. Preparing'
  BY <1>0 DEF Goto, Preparing, Polling, Running, Starting
<1>10. Attached'
  BY <1>0 DEF Goto, Attached, Polling, Out, Running, Starting, Swapping, channel, work
<1>11. Claims'
  BY <1>0 DEF Goto, Claims, Polling, Dirty, Out, Running, Starting, UpTo, channel, port,
    work
<1>. QED BY <1>1, <1>2, <1>3, <1>4, <1>5, <1>6, <1>7, <1>8, <1>9, <1>10, <1>11
      DEF UsbDirInvariant, TypeOK

-----------------------------------------------------------------------------
(* Commands and poll.                                                       *)

(* A command waits in the queue.                                            *)
LEMMA UserRequestInv ==
  ASSUME UsbDirInvariant, UserRequest
  PROVE  UsbDirInvariant'
<1>0. TypeOK /\ Protocol /\ Made /\ Superseded /\ Preparing /\ Attached /\ Claims
  BY DEF UsbDirInvariant
<1>1. TypeStore'
  BY <1>0 DEF UserRequest, TypeStore, ThreadUnchanged, TypeOK, channel, work
<1>2. TypeFlags'
  BY <1>0 DEF UserRequest, TypeFlags, ThreadUnchanged, TypeOK, port, watch
<1>3. TypeCounts'
  BY <1>0, UsbDirAssumption DEF UserRequest, TypeCounts, ThreadUnchanged, TypeOK, port
<1>4. TypeStages'
  BY <1>0 DEF UserRequest, TypeStages, Polling, ThreadUnchanged, TypeOK, watch
<1>5. TypeMessages'
  BY <1>0 DEF UserRequest, TypeMessages, TypeOK, channel
<1>6. Protocol'
  BY <1>0 DEF UserRequest, Protocol, Running, Starting, ThreadUnchanged, channel
<1>7. Made'
  BY <1>0 DEF UserRequest, Made, Out, ThreadUnchanged, work
<1>8. Superseded'
  BY <1>0 DEF UserRequest, Superseded, Out, Swapping, ThreadUnchanged, channel, work
<1>9. Preparing'
  BY <1>0 DEF UserRequest, Preparing, Running, Starting
<1>10. Attached'
  BY <1>0 DEF UserRequest, Attached, Out, Running, Starting, Swapping, ThreadUnchanged,
    channel, work
<1>11. Claims'
  BY <1>0 DEF UserRequest, Claims, Dirty, Out, Running, Starting, ThreadUnchanged, UpTo,
    channel, port, work
<1>. QED BY <1>1, <1>2, <1>3, <1>4, <1>5, <1>6, <1>7, <1>8, <1>9, <1>10, <1>11
      DEF UsbDirInvariant, TypeOK

(* Starting a job at an idle or plugging port establishes what the protocol *)
(* and the claims say of its request: the snapshot covers what the job will *)
(* claim.                                                                   *)
LEMMA JobStarts ==
  ASSUME UsbDirInvariant, Running, Running', job.kind \in {"idle", "plugging"},
         pc' # "save", pc' \notin {"keep", "clean", "build"},
         NEW f \in BOOLEAN, NEW d \in BOOLEAN, NEW e \in BOOLEAN,
         UNCHANGED << work, marker, onHost, readOnly, attached, writes, synced, wpc, newImage,
                      reply, slice >>,
         StartSync(f, e) \/ StartReplug(d, e) \/ UNCHANGED << snap, request, job >>
  PROVE  /\ job' \in Job /\ request' \in Request \cup {None} /\ snap' \subseteq Write
         /\ Protocol' /\ Made' /\ Superseded' /\ Preparing' /\ Attached' /\ Claims'
<1>0. TypeOK /\ Protocol /\ Made /\ Superseded /\ Preparing /\ Attached /\ Claims
  BY DEF UsbDirInvariant
<1>1. CASE StartSync(f, e)
  <2> USE <1>0, <1>1 DEF StartSync, work
  <2>1. job' = [kind |-> "sync", at |-> writes, explicit |-> e] /\ job' \in Job
    BY DEF TypeOK, TypeCounts, Job
  <2>2. request' = [kind |-> "sync", force |-> f] /\ request' \in Request /\ request' # None
    BY DEF Request, None
  <2>3. snap' = holds[attached] /\ snap' \subseteq Write /\ attached \in Image
    BY DEF TypeOK, TypeStore, Attached
  <2>4. reply = None /\ request = None /\ wpc = "idle"
    BY DEF Protocol
  <2>5. Protocol'
    BY <2>1, <2>2, <2>4 DEF Protocol, None, Idle, TypeOK, TypeCounts
  <2>6. Made' /\ Superseded' /\ Preparing' /\ Attached'
    BY <2>4 DEF Made, Superseded, Preparing, Attached, Out, Swapping, Running, Starting
  <2>7. Claims'
    BY <2>1, <2>2, <2>3, <2>4 DEF Claims, UpTo, Out, None
  <2>. QED BY <2>1, <2>2, <2>3, <2>5, <2>6, <2>7
<1>2. CASE StartReplug(d, e)
  <2> USE <1>0, <1>2 DEF StartReplug, work
  <2> DEFINE sync == Dirty /\ ~d
  <2>1. /\ job' = [kind |-> "rebuild", at |-> writes, sync |-> sync, explicit |-> e]
        /\ sync \in BOOLEAN /\ job' \in Job
    BY DEF TypeOK, TypeCounts, Job, Dirty
  <2>2. request' = [kind |-> "replug", discard |-> d, sync |-> sync] /\ request' \in Request
    BY <2>1 DEF Request
  <2>3. snap' \subseteq holds[attached] /\ (sync => snap' = holds[attached]) /\ attached \in Image
    BY DEF Attached
  <2>4. reply = None /\ request = None /\ wpc = "idle" /\ plug' = "out"
    BY DEF Protocol
  <2>5. /\ job'.kind = "rebuild" /\ job'.at = writes' /\ job'.sync = sync
        /\ request'.kind = "replug" /\ request'.sync = sync /\ request'.discard = d
    BY <2>1, <2>2
  <2>6. sync => ~d
    OBVIOUS
  <2>7. ~sync /\ ~d => ~Dirty'
    BY DEF Dirty
  <2>9. Made' /\ Superseded' /\ Preparing' /\ Attached'
    BY <2>4 DEF Made, Superseded, Preparing, Attached, Out, Swapping, Running, Starting
  <2> HIDE DEF sync
  <2>10. Protocol'
    BY <2>4, <2>5, <2>6 DEF Protocol
  <2>11. Claims'
    BY <2>3, <2>4, <2>5, <2>7 DEF Claims, UpTo, Out, None
  <2>8. snap' \subseteq Write
    BY <2>3 DEF TypeOK, TypeStore
  <2>. QED BY <2>1, <2>2, <2>8, <2>9, <2>10, <2>11
<1>3. CASE UNCHANGED << snap, request, job >>
  <2> USE <1>0, <1>3 DEF work
  <2>1. job' \in Job /\ request' \in Request \cup {None} /\ snap' \subseteq Write
    BY DEF TypeOK, TypeMessages, TypeStore
  <2>0. job' = job /\ job.kind \notin {"sync", "rebuild"} /\ request' = None /\ reply' = None
        /\ wpc' = "idle"
    BY DEF Protocol
  <2>2. Protocol'
    BY <2>0 DEF Protocol
  <2>3. Made' /\ Superseded' /\ Preparing' /\ Attached'
    BY DEF Made, Superseded, Preparing, Attached, Out, Swapping, Running, Starting
  <2>4. Claims'
    BY <2>0 DEF Claims, UpTo, Out, None
  <2>. QED BY <2>1, <2>2, <2>3, <2>4
<1>. QED BY <1>1, <1>2, <1>3

(* The head command moves, and the job it asks for starts.                  *)
LEMMA PumpInv == ASSUME UsbDirInvariant, Pump PROVE UsbDirInvariant'
<1>0. TypeOK /\ Protocol
  BY DEF UsbDirInvariant
<1>1. /\ UNCHANGED << work, marker, onHost, hostDiff, readOnly, attached, writes, seen, port, stopping, quiet, reply,
                      notice, event, wpc, newImage, old, watch, newDiff, edits, requests, runs, slice >>
      /\ pc \in {"request", "pump"} /\ pc' \in {"request", "pump", "auto", "commands"}
  BY DEF Pump, PumpUnchanged, ThreadUnchanged
<1>2. CASE ~MayStart
  <2>1. UNCHANGED << snap, request, job, plug, hostChanged, queue, unchanged >>
    BY <1>2 DEF Pump
  <2>2. TypeOK'
    BY <1>0, <1>1, <2>1 DEF TypeOK, TypeStore, TypeFlags, TypeCounts, TypeStages,
          TypeMessages, work, port, watch, Polling
  <2>3. Protocol' /\ Made' /\ Superseded' /\ Preparing' /\ Attached' /\ Claims'
    BY <1>1, <2>1 DEF UsbDirInvariant, Protocol, Made, Superseded, Preparing, Attached,
          Claims, work, port, Out, UpTo, Running, Starting, Swapping, Dirty
  <2>. QED BY <2>2, <2>3 DEF UsbDirInvariant
<1>3. CASE MayStart
  <2> DEFINE c == Head(queue)
  <2>1. PumpHead /\ unchanged' = (unchanged /\ ~(job'.kind = "rebuild")) /\ pc' = pc
    BY <1>3 DEF Pump
  <2>2. queue # << >> /\ queue \in Seq(Command) /\ c \in Command /\ job.kind = "idle"
    BY <1>0, <1>3 DEF MayStart, TypeOK, TypeMessages, Idle
  <2>3. PICK f \in BOOLEAN, d \in BOOLEAN : StartSync(f, TRUE) \/ StartReplug(d, TRUE) \/ UNCHANGED << snap, request, job >>
    <3>1. c.kind = "sync" => c.force \in BOOLEAN
      BY <2>2 DEF Command
    <3>2. c.kind = "replug" => c.discard \in BOOLEAN
      BY <2>2 DEF Command
    <3>. QED BY <2>1, <3>1, <3>2 DEF PumpHead
  <2>4. /\ job' \in Job /\ request' \in Request \cup {None} /\ snap' \subseteq Write
        /\ Protocol' /\ Made' /\ Superseded' /\ Preparing' /\ Attached' /\ Claims'
    BY <1>1, <2>1, <2>2, <2>3, JobStarts DEF Running, Starting, port
  <2>5. queue' \in Seq(Command)
    <3>1. [c EXCEPT !.started = TRUE] \in Command
      BY <2>2 DEF Command
    <3>2. Tail(queue) \in Seq(Command)
      BY <2>2
    <3>3. Started => queue' \in Seq(Command)
      BY <3>1, <3>2 DEF Started
    <3>4. Answered => queue' \in Seq(Command)
      BY <3>2 DEF Answered
    <3>. QED BY <2>1, <3>3, <3>4 DEF PumpHead
  <2>6. hostChanged' \in BOOLEAN /\ plug' \in {"in", "out", "due"} /\ unchanged' \in BOOLEAN
    <3>1. hostChanged' \in {hostChanged, FALSE} /\ plug' \in {plug, "out", "due"}
      BY <2>1 DEF PumpHead, StartReplug, ReplugFails
    <3>2. unchanged' \in BOOLEAN
      BY <2>1, Zenon
    <3>. QED BY <1>0, <3>1, <3>2 DEF TypeOK, TypeFlags, TypeStages
  <2>7. TypeOK'
    BY <1>0, <1>1, <2>4, <2>5, <2>6 DEF TypeOK, TypeStore, TypeFlags, TypeCounts,
          TypeStages, TypeMessages, work, port, watch, Polling
  <2>. QED BY <2>4, <2>7 DEF UsbDirInvariant
<1>. QED BY <1>2, <1>3

(* Reading new writes keeps the stick's claim: what leaves the slice is     *)
(* marked.                                                                  *)
LEMMA PollBeginAttached == ASSUME UsbDirInvariant, PollBegin PROVE Attached'
<1>0. TypeOK /\ Protocol /\ Made /\ Attached /\ Claims
  BY DEF UsbDirInvariant
<1>1. UNCHANGED << work, onHost, readOnly, attached, writes, synced, job, request, reply, wpc, newImage >> /\ Running /\ Running'
  BY DEF PollBegin, ThreadUnchanged, channel, port, Running, Starting
<1>2. CASE ~Dirty /\ slice' = {} /\ marker' = marker
  <2>1. holds[attached] \subseteq Out
    BY <1>0, <1>1, <1>2 DEF Dirty, Made, Attached, Claims, UpTo, TypeOK, TypeCounts
  <2>. QED BY <1>0, <1>1, <1>2, <2>1 DEF Attached, work, Out, Swapping
<1>3. CASE Dirty /\ Mark(TRUE) /\ slice' = IF marker' THEN {} ELSE slice
  <2>1. marker' = TRUE \/ (marker' = marker /\ slice' \subseteq slice /\ (~marker' => slice' = slice))
    BY <1>3 DEF Mark
  <2>2. slice' \subseteq holds[attached] \cup Out /\ (~marker' => holds[attached] \subseteq Out \cup slice')
    BY <1>0, <1>1, <1>3, <2>1 DEF Attached
  <2>. QED BY <1>0, <1>1, <2>2 DEF Attached, work, Out, Swapping
<1>. QED BY <1>2, <1>3 DEF PollBegin

(* A dirty stick is marked before the notices are read.                     *)
LEMMA PollBeginInv ==
  ASSUME UsbDirInvariant, PollBegin
  PROVE  UsbDirInvariant'
<1>0. TypeOK /\ Protocol /\ Made /\ Superseded /\ Preparing /\ Attached /\ Claims
  BY DEF UsbDirInvariant
<1>1. TypeStore'
  BY <1>0 DEF PollBegin, TypeStore, TypeFlags, TypeStages, TypeCounts, TypeMessages,
        Mark,
    ThreadUnchanged, TypeOK, channel, work
<1>2. TypeFlags'
  BY ZenonT(40), <1>0, UsbDirAssumption DEF PollBegin, TypeFlags, NotFailed, Mark, ThreadUnchanged,
    TypeOK, channel, port, watch, work
<1>3. TypeCounts'
  BY <1>0 DEF PollBegin, TypeCounts, ThreadUnchanged, TypeOK, port
<1>4. TypeStages'
  BY <1>0 DEF PollBegin, TypeStages, Polling, ThreadUnchanged, TypeOK, watch
<1>5. TypeMessages'
  BY <1>0 DEF PollBegin, TypeMessages, TypeOK, channel
<1>6. Protocol'
  BY <1>0 DEF PollBegin, Protocol, Running, Starting, ThreadUnchanged, channel
<1>7. Made'
  BY <1>0, UsbDirAssumption DEF PollBegin, Made, TypeFlags, TypeStages, TypeCounts,
    TypeMessages, TypeStore, Write, Claims, Mark, Out, Protocol, Running, Starting,
    ThreadUnchanged, port, watch, work
<1>8. Superseded'
  BY <1>0 DEF PollBegin, Superseded, Out, Swapping, ThreadUnchanged, channel, work
<1>9. Preparing'
  BY <1>0 DEF PollBegin, Preparing, Running, Starting
<1>10. Attached'
  BY PollBeginAttached
<1>11. Claims'
  BY <1>0 DEF PollBegin, Claims, Dirty, Out, Running, Starting, ThreadUnchanged, UpTo,
    channel, port, work
<1>. QED BY <1>1, <1>2, <1>3, <1>4, <1>5, <1>6, <1>7, <1>8, <1>9, <1>10, <1>11
      DEF UsbDirInvariant, TypeOK

(* The queue stays a sequence of commands.                                  *)
LEMMA FinishPartTyped ==
  ASSUME TypeOK, NEW e, FinishPart(e) \/ UNCHANGED queue
  PROVE  queue' \in Seq(Command)
<1>. QED BY DEF FinishPart, TypeOK, TypeMessages

(* A sync's reply raises `synced' to the count its snapshot was taken at,   *)
(* and clears the marker only when nothing was written since.               *)
LEMMA SyncedKeeps ==
  ASSUME UsbDirInvariant, Running, Running', pc' \notin {"keep", "clean", "build", "save"},
         OnReply, OnSynced
  PROVE  /\ TypeStore' /\ TypeFlags' /\ TypeCounts' /\ TypeMessages'
         /\ Protocol' /\ Made' /\ Superseded' /\ Preparing' /\ Attached' /\ Claims'
<1>0. TypeOK /\ Protocol /\ Made /\ Superseded /\ Preparing /\ Attached /\ Claims
  BY DEF UsbDirInvariant
<1> USE <1>0 DEF OnReply, OnSynced, work, watch
<1>1. /\ reply.kind = "synced" /\ job.kind = "sync" /\ request = None /\ wpc = "idle"
      /\ job.at \in 0 .. MaxWrites /\ job.at <= writes /\ reply \in Reply
      /\ job' = Idle /\ reply' = None /\ request' = None /\ wpc' = "idle"
  BY DEF Protocol, TypeOK, TypeMessages, Reply, None, Job, Idle
<1>2. /\ failed' \in {NotFailed} \cup 0 .. MaxWrites /\ synced' \in {NeverSynced} \cup 0 .. MaxWrites
      /\ synced' = synced \/ (reply.result = "ok" /\ synced' = job.at)
  BY <1>1 DEF NoteSynced, NoteSyncError, TypeOK, TypeCounts, NotFailed
<1>3. failedParse' \in BOOLEAN /\ blocked' \in BOOLEAN
  <2>1. failedParse \in BOOLEAN /\ blocked \in BOOLEAN
    BY DEF TypeOK, TypeFlags
  <2>2. CASE reply.result = "ok"
    BY <2>2 DEF NoteSynced
  <2>3. CASE reply.result # "ok"
    BY <2>1, <2>3, Zenon DEF NoteSyncError
  <2>. QED BY <2>2, <2>3
<1>4. /\ marker' \in BOOLEAN
      /\ marker' = marker \/ (reply.result = "ok" /\ writes = job.at)
  BY DEF Mark, TypeOK, TypeFlags
<1>5. TypeStore' /\ TypeCounts' /\ TypeMessages'
  BY <1>1, <1>2, FinishPartTyped DEF TypeOK, TypeStore, TypeCounts, TypeMessages, Job
<1>6. TypeFlags'
  BY <1>3, <1>4 DEF TypeOK, TypeFlags
<1>7. UpTo(synced') \subseteq Out /\ synced' <= writes
  BY <1>1, <1>2 DEF Claims, None, Reply
<1>8. marker' = marker \/ holds[attached] \subseteq Out
  <2>1. holds[attached] \subseteq 1 .. writes
    BY DEF Made, Attached
  <2>. QED BY <2>1, <1>1, <1>4 DEF Claims, UpTo, None, Reply, TypeOK, TypeCounts
<1>9. Protocol' /\ Made' /\ Preparing'
  BY <1>1 DEF Protocol, Made, Preparing, Out, Idle
<1>10. ~Swapping /\ ~Swapping'
  BY <1>1 DEF Swapping, None
<1>11. Superseded'
  BY <1>1, <1>10 DEF Superseded, Out
<1>12. Attached'
  BY <1>8, <1>10 DEF Attached, Out
<1>13. Claims'
  BY <1>1, <1>7 DEF Claims, UpTo, Out, Idle, None
<1>. QED BY <1>5, <1>6, <1>9, <1>11, <1>12, <1>13

(* A replug's reply swaps in the image the manifest already names; the old  *)
(* image holds nothing that is not out.                                     *)
LEMMA ReplugedKeeps ==
  ASSUME UsbDirInvariant, Running, Running', pc' \notin {"keep", "clean", "build", "save"},
         OnReply, OnReplugged
  PROVE  /\ TypeStore' /\ TypeFlags' /\ TypeCounts' /\ TypeMessages'
         /\ Protocol' /\ Made' /\ Superseded' /\ Preparing' /\ Attached' /\ Claims'
<1>0. TypeOK /\ Protocol /\ Made /\ Superseded /\ Preparing /\ Attached /\ Claims
  BY DEF UsbDirInvariant
<1> USE <1>0 DEF OnReply, OnReplugged, work, watch
<1>1. /\ reply.kind = "replugged" /\ job.kind = "rebuild" /\ request = None /\ wpc = "idle"
      /\ job.at \in 0 .. MaxWrites /\ job.at = writes /\ reply \in Reply
      /\ job' = [kind |-> "plugging", explicit |-> job.explicit] /\ job' \in Job
      /\ reply' = None /\ request' = None /\ wpc' = "idle"
  BY DEF Protocol, TypeOK, TypeMessages, Reply, None, Job, Idle
<1>2. ~Swapping' /\ (reply.built <=> Swapping)
  BY <1>1 DEF Swapping, None
<1>3. TypeStore' /\ TypeMessages'
  BY <1>1 DEF TypeOK, TypeStore, TypeMessages
<1>4. Protocol' /\ Made' /\ Preparing'
  BY <1>1 DEF Protocol, Made, Preparing, Out
<1>5. CASE reply.built
  <2> USE <1>5
  <2>1. /\ attached' = newImage /\ synced' = writes /\ seen' = writes
        /\ failed' \in {NotFailed, failed} /\ marker' \in {marker, FALSE}
    BY <1>1 DEF Mark
  <2>2. /\ failedParse' = (failedParse /\ ~job.sync) /\ blocked' = (blocked /\ ~job.sync)
    BY <1>1
  <2>3. newImage \in Image /\ holds[newImage] = {} /\ manifest = newImage
    BY <1>2 DEF Superseded, Attached
  <2>4. TypeCounts'
    BY <2>1 DEF TypeOK, TypeCounts, NotFailed
  <2>5. failedParse' \in BOOLEAN /\ blocked' \in BOOLEAN
    BY <2>2, Zenon
  <2>6. TypeFlags'
    BY <2>1, <2>5 DEF TypeOK, TypeFlags
  <2>7. Superseded'
    BY <1>1, <1>2 DEF Superseded, Out
  <2>8. slice \subseteq Out
    BY <1>1 DEF Claims, Attached, None
  <2>9. Attached'
    BY <1>2, <2>1, <2>3, <2>8 DEF Attached, Out
  <2>10. Claims'
    BY <1>1, <2>1, <2>3 DEF Claims, UpTo, Out, None, TypeOK, TypeCounts
  <2>. QED BY <1>3, <1>4, <2>4, <2>6, <2>7, <2>9, <2>10
<1>6. CASE ~reply.built
  <2> USE <1>6
  <2>1. /\ UNCHANGED << attached, seen, newImage >>
        /\ failed' \in {NotFailed, failed, job.at}
        /\ synced' = synced \/ (reply.result = "ok" /\ job.sync /\ synced' = writes)
    BY <1>1 DEF NoteSynced, NoteSyncError, port
  <2>2. failedParse' \in BOOLEAN /\ blocked' \in BOOLEAN
    <3>1. failedParse \in BOOLEAN /\ blocked \in BOOLEAN
      BY DEF TypeOK, TypeFlags
    <3>2. \/ NoteSyncError(reply.result, job.at)
          \/ NoteSynced(job.at)
          \/ UNCHANGED port
      OBVIOUS
    <3>. QED BY <3>1, <3>2, Zenon DEF NoteSyncError, NoteSynced, port
  <2>3. marker' \in {marker, FALSE} /\ (marker' = marker \/ ~Dirty')
    BY DEF Mark
  <2>4. TypeCounts'
    BY <1>1, <2>1 DEF TypeOK, TypeCounts, NotFailed
  <2>5. TypeFlags'
    BY ZenonT(40), <2>2, <2>3 DEF TypeOK, TypeFlags
  <2>6. Superseded'
    BY <1>1, <1>2, <2>1 DEF Superseded, Out
  <2>7. UpTo(synced') \subseteq Out /\ synced' <= writes
    <3>1. CASE synced' = synced
      BY <3>1 DEF Claims
    <3>2. CASE reply.result = "ok" /\ job.sync /\ synced' = writes
      BY <3>2, <1>1 DEF Claims, None, UpTo, TypeOK, TypeCounts
    <3>. QED BY <2>1, <3>1, <3>2
  <2>8. marker' = marker \/ holds[attached] \subseteq Out
    <3>1. holds[attached] \subseteq 1 .. writes
      BY DEF Made, Attached
    <3>. QED BY <3>1, <2>3, <2>7 DEF Dirty, Attached, UpTo, TypeOK, TypeCounts
  <2>9. Attached'
    BY <1>2, <2>1, <2>8 DEF Attached, Out
  <2>10. Claims'
    BY <1>1, <2>1, <2>7 DEF Claims, UpTo, Out, None
  <2>. QED BY <1>3, <1>4, <2>4, <2>5, <2>6, <2>9, <2>10
<1>. QED BY <1>5, <1>6

(* Both replies keep the invariant.                                         *)
LEMMA OnReplyInv ==
  ASSUME UsbDirInvariant, OnReply, Running,
         pc' \in Polling \cup Stopping
  PROVE  UsbDirInvariant'
<1>1. TypeStages'
  <2>1. quiet' = quiet /\ wpc' = wpc /\ hold' = hold /\ plug' \in {plug, "due"}
    BY DEF OnReply, OnSynced, OnReplugged, watch
  <2>. QED BY <2>1 DEF UsbDirInvariant, TypeOK, TypeStages
<1>2. Running' /\ pc' \notin {"keep", "clean", "build", "save"}
  BY DEF Running, Starting, Polling, Stopping
<1>3. OnSynced \/ OnReplugged
  BY DEF OnReply
<1>. QED BY <1>1, <1>2, <1>3, SyncedKeeps, ReplugedKeeps DEF UsbDirInvariant, TypeOK

(* A poll with or without a reply.                                          *)
LEMMA PollReplyInv == ASSUME UsbDirInvariant, PollReply PROVE UsbDirInvariant'
<1>1. Running /\ pc' = "plugged"
  BY DEF PollReply, Running, Starting
<1>2. CASE OnReply
  BY <1>1, <1>2, OnReplyInv DEF Polling
<1>3. CASE ~OnReply
  <2>1. UNCHANGED << work, marker, onHost, hostDiff, readOnly, attached, writes, seen, port,
                     hostChanged, job, queue, stopping, quiet, plug, channel, notice, event, wpc,
                     newImage, old, watch, newDiff, edits, requests, runs, slice, unchanged >>
    BY <1>3 DEF PollReply
  <2>2. TypeOK'
    BY <1>1, <2>1 DEF UsbDirInvariant, TypeOK, TypeStore, TypeFlags, TypeCounts,
          TypeStages,
       TypeMessages, work, port, watch, channel, Polling
  <2>3. Protocol' /\ Made' /\ Superseded' /\ Preparing'
    BY <1>1, <2>1 DEF UsbDirInvariant, Protocol, Made, Superseded, Preparing, work,
          channel,
       Out, Running, Starting, Swapping
  <2>4. Attached' /\ Claims'
    BY <1>1, <2>1 DEF UsbDirInvariant, Attached, Claims, work, port, channel, Out, UpTo,
       Running, Starting, Swapping, Dirty
  <2>. QED BY <2>2, <2>3, <2>4 DEF UsbDirInvariant
<1>. QED BY <1>2, <1>3

(* The job ends with the plug-in.                                           *)
LEMMA PollPluggedInv ==
  ASSUME UsbDirInvariant, PollPlugged
  PROVE  UsbDirInvariant'
<1>0. TypeOK /\ Protocol /\ Made /\ Superseded /\ Preparing /\ Attached /\ Claims
  BY DEF UsbDirInvariant
<1>1. TypeStore'
  BY <1>0 DEF PollPlugged, TypeStore, PumpUnchanged, ThreadUnchanged, TypeOK, work
<1>2. TypeFlags'
  BY <1>0 DEF PollPlugged, TypeFlags, PumpUnchanged, ThreadUnchanged, TypeOK, port,
        watch
<1>3. TypeCounts'
  BY <1>0 DEF PollPlugged, TypeCounts, PumpUnchanged, ThreadUnchanged, TypeOK, port
<1>4. TypeStages'
  BY <1>0 DEF PollPlugged, TypeStages, Polling, PumpUnchanged, ThreadUnchanged, TypeOK,
    watch
<1>5. TypeMessages'
  BY <1>0 DEF PollPlugged, TypeMessages, Job, FinishPart, None, PumpUnchanged, TypeOK
<1>6. Protocol'
  BY <1>0 DEF PollPlugged, Protocol, Idle, PumpUnchanged, Running, Starting,
        ThreadUnchanged
<1>7. Made'
  BY <1>0 DEF PollPlugged, Made, Out, PumpUnchanged, ThreadUnchanged, work
<1>8. Superseded'
  BY <1>0 DEF PollPlugged, Superseded, Out, PumpUnchanged, Swapping, ThreadUnchanged,
        work
<1>9. Preparing'
  BY <1>0 DEF PollPlugged, Preparing, Running, Starting
<1>10. Attached'
  BY <1>0 DEF PollPlugged, Attached, Out, PumpUnchanged, Running, Starting, Swapping,
    ThreadUnchanged, work
<1>11. Claims'
  BY <1>0 DEF PollPlugged, Claims, Dirty, Out, Protocol, PumpUnchanged, Running,
        Starting,
    ThreadUnchanged, UpTo, port, work
<1>. QED BY <1>1, <1>2, <1>3, <1>4, <1>5, <1>6, <1>7, <1>8, <1>9, <1>10, <1>11
      DEF UsbDirInvariant, TypeOK

(* An automatic sync or replug starts a job, or nothing.                    *)
LEMMA AutomaticInv == ASSUME UsbDirInvariant, Automatic PROVE UsbDirInvariant'
<1>0. TypeOK /\ Protocol
  BY DEF UsbDirInvariant
<1>1. /\ UNCHANGED << work, marker, onHost, hostDiff, readOnly, attached, writes, seen, synced, failedParse, blocked,
                      queue, stopping, quiet, reply, notice, event, wpc, newImage, old, watch, newDiff, edits,
                      requests, runs, slice, unchanged >>
      /\ pc = "auto" /\ pc' = "end"
  BY DEF Automatic, ThreadUnchanged
<1>2. PICK f \in BOOLEAN, d \in BOOLEAN, e \in BOOLEAN :
         StartSync(f, e) \/ StartReplug(d, e) \/ UNCHANGED << snap, request, job >>
  BY DEF Automatic
<1>3. failed' \in {failed, writes} /\ hostChanged' \in {hostChanged, FALSE} /\ plug' \in {plug, "out", "due"}
  BY DEF Automatic, StartReplug, ReplugFails
<1>4. /\ job' \in Job /\ request' \in Request \cup {None} /\ snap' \subseteq Write
      /\ Protocol' /\ Made' /\ Superseded' /\ Preparing' /\ Attached' /\ Claims'
  <2>1. CASE job.kind \in {"idle", "plugging"}
    BY <1>1, <1>2, <2>1, JobStarts DEF Running, Starting
  <2>2. CASE job.kind \notin {"idle", "plugging"}
    <3>1. UNCHANGED << snap, request, job >> /\ UNCHANGED plug
      <4>1. ~MayReplug /\ ~MaySync
        BY <2>2 DEF MayReplug, MaySync, Free, Idle
      <4>. QED BY <4>1 DEF Automatic
    <3>2. job' \in Job /\ request' \in Request \cup {None} /\ snap' \subseteq Write
      BY <1>0, <3>1 DEF TypeOK, TypeMessages, TypeStore
    <3>. QED BY <1>1, <3>1, <3>2 DEF UsbDirInvariant, Protocol, Made, Superseded,
          Preparing, Attached, Claims, work, Out, UpTo, Running, Starting, Swapping,
          Dirty
  <2>. QED BY <2>1, <2>2
<1>5. TypeOK'
  <2>0. hostChanged' \in BOOLEAN
    BY <1>0, <1>3, Zenon DEF TypeOK, TypeFlags
  <2>1. TypeStore' /\ TypeFlags'
    <3>1. TypeStore'
      BY <1>0, <1>1, <1>4 DEF TypeOK, TypeStore, work
    <3>2. TypeFlags'
      BY <1>0, <1>1, <2>0 DEF TypeOK, TypeFlags, watch
    <3>. QED BY <3>1, <3>2
  <2>2. TypeCounts'
    BY <1>0, <1>1, <1>3 DEF TypeOK, TypeCounts
  <2>3. TypeStages' /\ TypeMessages'
    BY <1>0, <1>1, <1>3, <1>4 DEF TypeOK, TypeStages, TypeMessages, watch, Polling
  <2>. QED BY <2>1, <2>2, <2>3 DEF TypeOK
<1>. QED BY <1>4, <1>5 DEF UsbDirInvariant

-----------------------------------------------------------------------------
(* The end of the program.                                                  *)

(* A quit only notes that it stops.                                         *)
LEMMA QuitInv ==
  ASSUME UsbDirInvariant, Quit
  PROVE  UsbDirInvariant'
<1>0. TypeOK /\ Protocol /\ Made /\ Superseded /\ Preparing /\ Attached /\ Claims
  BY DEF UsbDirInvariant
<1>1. TypeStore'
  BY <1>0 DEF Quit, TypeStore, TypeOK, channel, work
<1>2. TypeFlags'
  BY <1>0 DEF Quit, TypeFlags, TypeOK, port, watch
<1>3. TypeCounts'
  BY <1>0 DEF Quit, TypeCounts, TypeOK, port
<1>4. TypeStages'
  BY <1>0 DEF Quit, TypeStages, Stopping, TypeOK, watch
<1>5. TypeMessages'
  BY <1>0 DEF Quit, TypeMessages, TypeOK, channel
<1>6. Protocol'
  BY <1>0 DEF Quit, Protocol, Running, Starting, channel
<1>7. Made'
  BY <1>0 DEF Quit, Made, Out, work
<1>8. Superseded'
  BY <1>0 DEF Quit, Superseded, Out, Swapping, channel, work
<1>9. Preparing'
  BY <1>0 DEF Quit, Preparing, Running, Starting
<1>10. Attached'
  BY <1>0 DEF Quit, Attached, Out, Running, Starting, Swapping, channel, work
<1>11. Claims'
  BY <1>0 DEF Quit, Claims, Dirty, Out, Running, Starting, UpTo, channel, port, work
<1>. QED BY <1>1, <1>2, <1>3, <1>4, <1>5, <1>6, <1>7, <1>8, <1>9, <1>10, <1>11
      DEF UsbDirInvariant, TypeOK

(* finish answers the queue.                                                *)
LEMMA AnswerAllInv ==
  ASSUME UsbDirInvariant, AnswerAll
  PROVE  UsbDirInvariant'
<1>0. TypeOK /\ Protocol /\ Made /\ Superseded /\ Preparing /\ Attached /\ Claims
  BY DEF UsbDirInvariant
<1>1. TypeStore'
  BY <1>0 DEF AnswerAll, TypeStore, PumpUnchanged, ThreadUnchanged, TypeOK, work
<1>2. TypeFlags'
  BY <1>0 DEF AnswerAll, TypeFlags, PumpUnchanged, ThreadUnchanged, TypeOK, port, watch
<1>3. TypeCounts'
  BY <1>0 DEF AnswerAll, TypeCounts, PumpUnchanged, ThreadUnchanged, TypeOK, port
<1>4. TypeStages'
  BY <1>0 DEF AnswerAll, TypeStages, PumpUnchanged, ThreadUnchanged, TypeOK, watch
<1>5. TypeMessages'
  BY <1>0 DEF AnswerAll, TypeMessages, PumpUnchanged, TypeOK
<1>6. Protocol'
  BY <1>0 DEF AnswerAll, Protocol, PumpUnchanged, Running, ThreadUnchanged
<1>7. Made'
  BY <1>0 DEF AnswerAll, Made, Out, PumpUnchanged, ThreadUnchanged, work
<1>8. Superseded'
  BY <1>0 DEF AnswerAll, Superseded, Out, PumpUnchanged, Swapping, ThreadUnchanged, work
<1>9. Preparing'
  BY <1>0 DEF AnswerAll, Preparing, Running, Starting
<1>10. Attached'
  BY <1>0 DEF AnswerAll, Attached, Out, PumpUnchanged, Running, Swapping,
        ThreadUnchanged,
    work
<1>11. Claims'
  BY <1>0 DEF AnswerAll, Claims, Dirty, Out, PumpUnchanged, Running, ThreadUnchanged,
        UpTo,
    port, work
<1>. QED BY <1>1, <1>2, <1>3, <1>4, <1>5, <1>6, <1>7, <1>8, <1>9, <1>10, <1>11
      DEF UsbDirInvariant, TypeOK

(* The job finish waits for.                                                *)
LEMMA FinishReplyInv == ASSUME UsbDirInvariant, FinishReply PROVE UsbDirInvariant'
<1>1. Running /\ pc' \in Stopping /\ OnReply
  BY DEF FinishReply, Running, Starting, Stopping
<1>. QED BY <1>1, OnReplyInv

(* The last sync is a sync like any other.                                  *)
LEMMA FinishSyncInv == ASSUME UsbDirInvariant, FinishSync PROVE UsbDirInvariant'
<1>0. TypeOK /\ Protocol
  BY DEF UsbDirInvariant
<1>1. /\ UNCHANGED << work, marker, onHost, hostDiff, readOnly, attached, writes, seen, port, queue, plug, hostChanged,
                      stopping, quiet, reply, notice, event, wpc, newImage, old, watch, newDiff, edits,
                      requests, runs, slice, unchanged >>
      /\ pc \in {"finish", "halt"} /\ pc' \in {"last", "exit"}
  BY DEF FinishSync, PumpUnchanged, ThreadUnchanged
<1>2. StartSync(FALSE, TRUE) \/ UNCHANGED << snap, request, job >>
  BY DEF FinishSync
<1>3. job.kind \in {"idle", "plugging"}
  BY <1>0 DEF FinishSync, Waiting, TypeOK, TypeMessages, Job, Idle
<1>4. /\ job' \in Job /\ request' \in Request \cup {None} /\ snap' \subseteq Write
      /\ Protocol' /\ Made' /\ Superseded' /\ Preparing' /\ Attached' /\ Claims'
  BY <1>1, <1>2, <1>3, JobStarts DEF Running, Starting, port
<1>5. TypeOK'
  BY <1>0, <1>1, <1>4 DEF TypeOK, TypeStore, TypeFlags, TypeCounts, TypeStages,
        TypeMessages, work, port, watch, Stopping
<1>. QED BY <1>4, <1>5 DEF UsbDirInvariant

(* The program ends with no request under way.                              *)
LEMMA ExitInv ==
  ASSUME UsbDirInvariant, Exit
  PROVE  UsbDirInvariant'
<1>0. TypeOK /\ Protocol /\ Made /\ Superseded /\ Preparing /\ Attached /\ Claims
  BY DEF UsbDirInvariant
<1>1. TypeStore'
  BY <1>0 DEF Exit, TypeStore, Down, TypeOK, work
<1>2. TypeFlags'
  BY <1>0, UsbDirAssumption DEF Exit, TypeFlags, NotFailed, Down, TypeOK, channel, port,
    watch, work
<1>3. TypeCounts'
  BY <1>0 DEF Exit, TypeCounts, Down, TypeOK
<1>4. TypeStages'
  BY <1>0 DEF Exit, TypeStages, Down
<1>5. TypeMessages'
  BY <1>0 DEF Exit, TypeMessages, Job, Down
<1>6. Protocol'
  BY <1>0 DEF Exit, Protocol, Down, Idle
<1>7. Made'
  BY <1>0 DEF Exit, Made, Down, Out, work
<1>8. Superseded'
  BY <1>0 DEF Exit, Superseded, Down, None, Out, Swapping, work
<1>9. Preparing'
  BY <1>0 DEF Exit, Preparing, Down
<1>10. Attached'
  BY <1>0 DEF Exit, Attached, Down, Running
<1>11. Claims'
  BY <1>0 DEF Exit, Claims, Down, Running
<1>. QED BY <1>1, <1>2, <1>3, <1>4, <1>5, <1>6, <1>7, <1>8, <1>9, <1>10, <1>11
      DEF UsbDirInvariant, TypeOK

-----------------------------------------------------------------------------
(* The worker.                                                              *)

(* What a sync does to the host: nothing leaves it, only the snapshot is    *)
(* added, and after success all of the snapshot is there.                   *)
LEMMA SyncMoves ==
  ASSUME TypeOK, NEW force, NEW result \in Outcome, VolumeSync(force, result)
  PROVE  /\ onHost \subseteq onHost' /\ onHost' \subseteq onHost \cup snap
         /\ result = "ok" => onHost' = onHost \cup snap
         /\ hostDiff' \in BOOLEAN /\ event' \in BOOLEAN
<1>1. onHost \subseteq onHost' /\ onHost' \subseteq onHost \cup snap /\ (result = "ok" => onHost' = onHost \cup snap)
  BY DEF VolumeSync, Outcome, SyncError
<1>2. hostDiff' \in BOOLEAN /\ event' \in BOOLEAN
  <2>1. hostDiff' \in {hostDiff, hostDiff \/ onHost' # onHost} /\ event' = (event \/ onHost' # onHost)
    BY DEF VolumeSync
  <2>2. hostDiff \in BOOLEAN /\ event \in BOOLEAN
    BY DEF TypeOK, TypeFlags
  <2>. QED BY <2>1, <2>2, Zenon
<1>. QED BY <1>1, <1>2

(* A failed replug's reply has its type.                                    *)
LEMMA ReplugFailedTyped ==
  ASSUME TypeOK, NEW result \in Outcome, ReplugFailed(result)
  PROVE  /\ reply' \in Reply \cup {None} /\ request' \in Request \cup {None}
         /\ announced' \in BOOLEAN /\ checkAt' \in BOOLEAN /\ unchanged' \in BOOLEAN
         /\ hold' \in {"none", "same", "stale"}
<1>1. reply' \in Reply
  BY DEF ReplugFailed, Reply
<1>2. request' = None
  BY DEF ReplugFailed
<1>3. announced' = FALSE /\ checkAt' = FALSE /\ unchanged' \in BOOLEAN /\ hold' \in {"none", "same", "stale"}
  BY DEF ReplugFailed, WatchHold
<1>. QED BY <1>1, <1>2, <1>3, Zenon

(* While the worker has a request the port waits for it, with the image the *)
(* snapshot was taken of.                                                   *)
LEMMA WorkerAtWork ==
  ASSUME UsbDirInvariant, request.kind \in {"sync", "replug"}
  PROVE  /\ Running /\ request # None /\ reply = None
         /\ request.kind = "sync" => job.kind = "sync" /\ wpc = "idle"
         /\ request.kind = "replug" => job.kind = "rebuild" /\ plug = "out" /\ job.sync = request.sync /\ (request.sync => ~request.discard)
         /\ attached \in Image /\ snap \subseteq holds[attached] /\ snap \subseteq 1 .. writes
<1>0. TypeOK /\ Protocol /\ Made /\ Attached /\ Claims
  BY DEF UsbDirInvariant
<1>1. request # None
  BY DEF None
<1>2. Running /\ job.kind \in {"sync", "rebuild"}
  BY <1>0, <1>1 DEF Protocol, TypeOK, TypeMessages, Job, Idle
<1>3. reply = None /\ (request.kind = "sync" => job.kind = "sync" /\ wpc = "idle")
  BY <1>0, <1>1, <1>2 DEF Protocol
<1>4. request.kind = "replug" => job.kind = "rebuild" /\ plug = "out" /\ job.sync = request.sync /\ (request.sync => ~request.discard)
  BY <1>0, <1>1, <1>2 DEF Protocol
<1>5. attached \in Image /\ snap \subseteq holds[attached]
  BY <1>0, <1>1, <1>2 DEF Attached, Claims
<1>6. snap \subseteq 1 .. writes
  BY <1>0, <1>5 DEF Made
<1>. QED BY <1>1, <1>2, <1>3, <1>4, <1>5, <1>6

(* A sync delivers writes that were made.                                   *)
LEMMA WSyncInv ==
  ASSUME UsbDirInvariant, WSync PROVE UsbDirInvariant'
<1>0. TypeOK /\ Protocol /\ Made /\ Superseded /\ Preparing /\ Attached /\ Claims
  BY DEF UsbDirInvariant
<1> USE <1>0 DEF WSync, WorkerUnchanged, work, port
<1>1. PICK result \in Outcome :
        /\ VolumeSync(request.force, result)
        /\ reply' = [kind |-> "synced", result |-> result]
        /\ WatchAfterSync(result)
  OBVIOUS
<1>2. /\ onHost \subseteq onHost' /\ onHost' \subseteq onHost \cup snap
      /\ result = "ok" => onHost' = onHost \cup snap
      /\ hostDiff' \in BOOLEAN /\ event' \in BOOLEAN
  BY <1>1, SyncMoves
<1>3. /\ Running /\ reply = None /\ request # None /\ wpc = "idle" /\ job.kind = "sync"
      /\ attached \in Image /\ snap \subseteq holds[attached] /\ snap \subseteq 1 .. writes
  BY WorkerAtWork
<1>4. reply' \in Reply /\ reply'.kind = "synced" /\ reply'.result = result /\ reply' # None
      /\ request' = None /\ snap' = {} /\ wpc' = "idle" /\ job' = job
  BY <1>1, <1>3 DEF Reply, None
<1>5. /\ announced' \in BOOLEAN /\ checkAt' \in BOOLEAN /\ unchanged' \in BOOLEAN
      /\ hold' \in {"none", "same", "stale"}
  BY <1>1 DEF WatchAfterSync, WatchReset, TypeOK, TypeFlags, TypeStages
<1>6. TypeOK'
  <2>1. TypeStore' /\ TypeCounts'
    BY <1>2, <1>4 DEF TypeOK, TypeStore, TypeCounts
  <2>2. TypeFlags'
    BY <1>2, <1>5 DEF TypeOK, TypeFlags
  <2>3. TypeStages' /\ TypeMessages'
    BY <1>4, <1>5 DEF TypeOK, TypeStages, TypeMessages
  <2>. QED BY <2>1, <2>2, <2>3 DEF TypeOK
<1>7. Out \subseteq Out' /\ Out' \subseteq Out \cup snap
  BY <1>2 DEF Out
<1>8. Made'
  BY <1>3, <1>7 DEF Made
<1>9. ~Swapping /\ ~Swapping'
  BY <1>3, <1>4 DEF Swapping, None
<1>10. Protocol' /\ Preparing'
  BY <1>3, <1>4 DEF Protocol, Preparing, Running
<1>11. Superseded' /\ Attached'
  BY <1>3, <1>7, <1>9 DEF Superseded, Attached, Running
<1>12. Claims'
  <2>1. result = "ok" => snap \subseteq Out'
    BY <1>2 DEF Out
  <2>. QED BY <1>3, <1>4, <1>7, <2>1 DEF Claims, UpTo, Running
<1>. QED BY <1>6, <1>8, <1>10, <1>11, <1>12 DEF UsbDirInvariant

(* The first part of a replug: from here on the old image holds nothing that*)
(* is not out.                                                              *)
LEMMA WReplugInv ==
  ASSUME UsbDirInvariant, WReplug PROVE UsbDirInvariant'
<1>0. TypeOK /\ Protocol /\ Made /\ Superseded /\ Preparing /\ Attached /\ Claims
  BY DEF UsbDirInvariant
<1> USE <1>0 DEF WReplug, WorkerUnchanged, port
<1>1. /\ Running /\ reply = None /\ request # None /\ wpc = "idle" /\ job.kind = "rebuild" /\ plug = "out"
      /\ attached \in Image /\ snap \subseteq holds[attached] /\ snap \subseteq 1 .. writes
      /\ manifest = attached /\ pc' = pc /\ job' = job
      /\ job.sync = request.sync /\ (request.sync => ~request.discard)
  BY WorkerAtWork DEF Attached, Swapping, None
<1>2. CASE wpc' = "build" /\ request' = request /\ reply' = reply /\ newImage' = newImage
           /\ snap' \subseteq snap /\ UNCHANGED << watch, unchanged >>
           /\ \/ /\ request.discard /\ files' = files \ {manifest}
                 /\ aside' = IF manifest \in files THEN aside \cup holds[manifest] ELSE aside
                 /\ UNCHANGED << onHost, hostDiff, event >>
              \/ /\ request.sync /\ VolumeSync(FALSE, "ok") /\ UNCHANGED << files, aside >>
              \/ /\ ~request.discard /\ ~request.sync
                 /\ UNCHANGED << files, aside, onHost, hostDiff, event >>
  <2> USE <1>2
  <2>1. /\ onHost \subseteq onHost' /\ onHost' \subseteq onHost \cup snap
        /\ hostDiff' \in BOOLEAN /\ event' \in BOOLEAN
    BY SyncMoves DEF Outcome, TypeOK, TypeFlags
  <2>2. files' \subseteq files /\ aside \subseteq aside' /\ aside' \subseteq aside \cup holds[attached]
    BY <1>1
  <2>3. Out \subseteq Out' /\ Out' \subseteq Out \cup holds[attached] /\ holds[attached] \subseteq 1 .. writes
    BY <1>1, <2>1, <2>2 DEF Out, Made
  <2>4. holds[attached] \subseteq Out'
    <3>1. CASE request.discard
      BY <1>1, <3>1 DEF Out, Attached
    <3>2. CASE request.sync
      BY <1>1, <3>2, SyncMoves DEF Out, Claims, Outcome
    <3>3. CASE ~request.discard /\ ~request.sync
      BY <1>1, <2>3, <3>3 DEF Claims, Dirty, Attached, UpTo, TypeOK, TypeCounts
    <3>. QED BY <3>1, <3>2, <3>3
  <2>5. TypeOK'
    <3>1. TypeStore'
      BY <2>1, <2>2 DEF TypeOK, TypeStore
    <3>2. TypeCounts' /\ TypeStages' /\ TypeMessages'
      BY DEF watch, TypeOK, TypeCounts, TypeStages, TypeMessages
    <3>3. TypeFlags'
      BY <2>1 DEF watch, TypeOK, TypeFlags
    <3>. QED BY <3>1, <3>2, <3>3 DEF TypeOK
  <2>6. ~Swapping /\ ~Swapping'
    BY <1>1 DEF Swapping, None
  <2>7. Protocol' /\ Made' /\ Preparing'
    BY <1>1, <2>3 DEF Protocol, Made, Preparing, Running, Starting
  <2>8. Superseded' /\ Attached'
    BY <1>1, <2>2, <2>3, <2>4, <2>6 DEF Superseded, Attached, Running, Starting
  <2>9. Claims'
    BY <1>1, <2>3, <2>4 DEF Claims, UpTo, Running, None
  <2>. QED BY <2>5, <2>7, <2>8, <2>9 DEF UsbDirInvariant
<1>3. ASSUME NEW result \in Outcome, ReplugFailed(result), UNCHANGED << files, aside >>,
             onHost \subseteq onHost', onHost' \subseteq onHost \cup snap,
             hostDiff' \in BOOLEAN, event' \in BOOLEAN, result = "ok" => ~request.sync
      PROVE  UsbDirInvariant'
  <2> USE <1>3
  <2>1. reply' = [kind |-> "replugged", built |-> FALSE, result |-> result] /\ request' = None
        /\ wpc' = "idle" /\ newImage' = NoImage /\ snap' = {}
    BY DEF ReplugFailed
  <2>2. Out \subseteq Out' /\ Out' \subseteq Out \cup snap
    BY DEF Out
  <2>3. TypeOK'
    <3>1. TypeStore'
      BY <2>1 DEF TypeOK, TypeStore
    <3>2. TypeCounts' /\ TypeStages' /\ TypeMessages'
      BY <1>1, <2>1, ReplugFailedTyped DEF TypeOK, TypeCounts, TypeStages, TypeMessages
    <3>3. TypeFlags'
      BY ReplugFailedTyped DEF TypeOK, TypeFlags
    <3>. QED BY <3>1, <3>2, <3>3 DEF TypeOK
  <2>4. ~Swapping /\ ~Swapping'
    BY <1>1, <2>1 DEF Swapping, None
  <2>5. Protocol' /\ Made' /\ Preparing'
    BY <1>1, <2>1, <2>2 DEF Protocol, Made, Preparing, Running, Starting
  <2>6. Superseded' /\ Attached'
    BY <1>1, <2>1, <2>2, <2>4 DEF Superseded, Attached, Running, Starting
  <2>7. Claims'
    BY <1>1, <2>1, <2>2 DEF Claims, UpTo, Running, None
  <2>. QED BY <2>3, <2>5, <2>6, <2>7 DEF UsbDirInvariant
<1>4. CASE request.discard /\ ReplugFailed("ok") /\ UNCHANGED << files, aside, onHost, hostDiff, event >>
  BY <1>1, <1>3, <1>4 DEF Outcome, TypeOK, TypeFlags
<1>5. ASSUME ~request.discard, request.sync, NEW result \in Outcome, VolumeSync(FALSE, result),
             result # "ok", ReplugFailed(result), UNCHANGED << files, aside >>
      PROVE  UsbDirInvariant'
  BY <1>3, <1>5, SyncMoves
<1>. QED BY <1>2, <1>4, <1>5 DEF ReplugGoesOn

(* The flags and messages keep their types.                                 *)
LEMMA WBuildTypes == ASSUME TypeOK, WBuild PROVE TypeFlags' /\ TypeMessages'
<1>1. /\ UNCHANGED << marker, readOnly, failedParse, blocked, hostChanged, stopping, notice, event, job, queue >>
      /\ newDiff' \in {newDiff, FALSE} /\ hostDiff' = hostDiff
  BY DEF WBuild, WorkerUnchanged, port
<1>2. UNCHANGED << reply, request, watch, unchanged >> \/ ReplugFailed("ok")
  BY DEF WBuild, ReplugGoesOn
<1>3. /\ reply' \in Reply \cup {None} /\ request' \in Request \cup {None}
      /\ announced' \in BOOLEAN /\ checkAt' \in BOOLEAN /\ unchanged' \in BOOLEAN
  <2>1. CASE UNCHANGED << reply, request, watch, unchanged >>
    BY <2>1 DEF TypeOK, TypeFlags, TypeMessages, watch
  <2>2. CASE ReplugFailed("ok")
    BY <2>2, ReplugFailedTyped DEF Outcome
  <2>. QED BY <1>2, <2>1, <2>2
<1>. QED BY <1>1, <1>3 DEF TypeOK, TypeFlags, TypeMessages

(* The flags and messages keep their types.                                 *)
LEMMA WSaveTypes == ASSUME TypeOK, WSave PROVE TypeFlags' /\ TypeMessages'
<1>1. /\ UNCHANGED << marker, readOnly, failedParse, blocked, hostChanged, stopping, notice, event, job, queue >>
      /\ newDiff' \in {newDiff, FALSE} /\ hostDiff' \in {hostDiff, newDiff}
  BY DEF WSave, WorkerUnchanged, port
<1>2. UNCHANGED << reply, request, watch, unchanged >> \/ ReplugFailed("ok")
  BY DEF WSave, ReplugGoesOn
<1>3. /\ reply' \in Reply \cup {None} /\ request' \in Request \cup {None}
      /\ announced' \in BOOLEAN /\ checkAt' \in BOOLEAN /\ unchanged' \in BOOLEAN
  <2>1. CASE UNCHANGED << reply, request, watch, unchanged >>
    BY <2>1 DEF TypeOK, TypeFlags, TypeMessages, watch
  <2>2. CASE ReplugFailed("ok")
    BY <2>2, ReplugFailedTyped DEF Outcome
  <2>. QED BY <1>2, <2>1, <2>2
<1>. QED BY <1>1, <1>3 DEF TypeOK, TypeFlags, TypeMessages

(* The flags and messages keep their types.                                 *)
LEMMA WOpenTypes == ASSUME TypeOK, WOpen PROVE TypeFlags' /\ TypeMessages'
<1> USE DEF WOpen, WorkerUnchanged, port
<1>1. CASE /\ reply' = [kind |-> "replugged", built |-> TRUE, result |-> "ok"] /\ request' = None
           /\ WatchReset /\ UNCHANGED unchanged
  BY <1>1 DEF TypeOK, TypeFlags, TypeMessages, WatchReset, Reply, Outcome
<1>2. CASE ReplugFailed("ok")
  BY <1>2, ReplugFailedTyped DEF TypeOK, TypeFlags, TypeMessages, Outcome
<1>. QED BY <1>1, <1>2

(* The claims are about the attached image, which a rebuild does not touch. *)
LEMMA WBuildClaims == ASSUME UsbDirInvariant, WBuild PROVE Claims'
<1>0. TypeOK /\ Protocol /\ Claims /\ Attached /\ Superseded /\ wpc = "build"
  BY DEF UsbDirInvariant, WBuild
<1>1. /\ UNCHANGED << pc, attached, writes, synced, job, readOnly, aside, onHost >>
      /\ \/ /\ UNCHANGED << snap, request, reply >> /\ wpc' = "save"
         \/ /\ request' = None /\ wpc' = "idle"
            /\ reply' = [kind |-> "replugged", built |-> FALSE, result |-> "ok"]
  BY DEF WBuild, WorkerUnchanged, port, ReplugGoesOn, ReplugFailed
<1>2. Running /\ job.kind = "rebuild" /\ request # None /\ attached \in Image
  BY <1>0 DEF Protocol, TypeOK, TypeMessages, Job, Idle, Attached, None
<1>3. holds'[attached] = holds[attached]
  BY <1>0, <1>2 DEF WBuild, FreeImage, TypeOK, TypeStore
<1>. QED BY <1>0, <1>1, <1>2, <1>3 DEF Claims, Running, UpTo, Out, None

(* The worker notes a host event.                                           *)
LEMMA WHostEventInv ==
  ASSUME UsbDirInvariant, WHostEvent
  PROVE  UsbDirInvariant'
<1>0. TypeOK /\ Protocol /\ Made /\ Superseded /\ Preparing /\ Attached /\ Claims
  BY DEF UsbDirInvariant
<1>1. TypeStore'
  BY <1>0 DEF WHostEvent, TypeStore, TypeOK, WorkerUnchanged, channel, work
<1>2. TypeFlags'
  BY <1>0, UsbDirAssumption DEF WHostEvent, TypeFlags, NotFailed, TypeOK,
        WorkerUnchanged,
    channel, port, watch, work
<1>3. TypeCounts'
  BY <1>0 DEF WHostEvent, TypeCounts, TypeOK, WorkerUnchanged, port
<1>4. TypeStages'
  BY <1>0 DEF WHostEvent, TypeStages, TypeOK, WorkerUnchanged
<1>5. TypeMessages'
  BY <1>0 DEF WHostEvent, TypeMessages, TypeOK, WorkerUnchanged, channel
<1>6. Protocol'
  BY <1>0 DEF WHostEvent, Protocol, Running, WorkerUnchanged, channel
<1>7. Made'
  BY <1>0 DEF WHostEvent, Made, Out, WorkerUnchanged, work
<1>8. Superseded'
  BY <1>0 DEF WHostEvent, Superseded, Out, Swapping, WorkerUnchanged, channel, work
<1>9. Preparing'
  BY <1>0 DEF WHostEvent, Preparing, Running, WorkerUnchanged, work
<1>10. Attached'
  BY <1>0 DEF WHostEvent, Attached, Out, Running, Swapping, WorkerUnchanged, channel,
        work
<1>11. Claims'
  BY <1>0 DEF WHostEvent, Claims, Dirty, Out, Running, UpTo, WorkerUnchanged, channel,
        port,
    work
<1>. QED BY <1>1, <1>2, <1>3, <1>4, <1>5, <1>6, <1>7, <1>8, <1>9, <1>10, <1>11
      DEF UsbDirInvariant, TypeOK

(* The check touches no image.                                              *)
LEMMA WCheckInv ==
  ASSUME UsbDirInvariant, WCheck
  PROVE  UsbDirInvariant'
<1>0. TypeOK /\ Protocol /\ Made /\ Superseded /\ Preparing /\ Attached /\ Claims
  BY DEF UsbDirInvariant
<1>1. TypeStore'
  BY <1>0 DEF WCheck, TypeStore, TypeOK, WorkerUnchanged, channel, work
<1>2. TypeFlags'
  BY ZenonT(40), <1>0, UsbDirAssumption DEF WCheck, TypeFlags, NotFailed, Compares, TypeOK,
    WorkerUnchanged, channel, port, watch, work
<1>3. TypeCounts'
  BY <1>0 DEF WCheck, TypeCounts, TypeOK, WorkerUnchanged, port
<1>4. TypeStages'
  BY <1>0 DEF WCheck, TypeStages, TypeOK, WorkerUnchanged
<1>5. TypeMessages'
  BY <1>0 DEF WCheck, TypeMessages, TypeOK, WorkerUnchanged, channel
<1>6. Protocol'
  BY <1>0 DEF WCheck, Protocol, Running, WorkerUnchanged, channel
<1>7. Made'
  BY <1>0 DEF WCheck, Made, Out, WorkerUnchanged, work
<1>8. Superseded'
  BY <1>0 DEF WCheck, Superseded, Out, Swapping, WorkerUnchanged, channel, work
<1>9. Preparing'
  BY <1>0 DEF WCheck, Preparing, Running, WorkerUnchanged, work
<1>10. Attached'
  BY <1>0 DEF WCheck, Attached, Out, Running, Swapping, WorkerUnchanged, channel, work
<1>11. Claims'
  BY <1>0 DEF WCheck, Claims, Dirty, Out, Running, UpTo, WorkerUnchanged, channel, port,
    work
<1>. QED BY <1>1, <1>2, <1>3, <1>4, <1>5, <1>6, <1>7, <1>8, <1>9, <1>10, <1>11
      DEF UsbDirInvariant, TypeOK

(* The rebuilt image is not the one the manifest names.                     *)
LEMMA WBuildInv ==
  ASSUME UsbDirInvariant, WBuild
  PROVE  UsbDirInvariant'
<1>0. TypeOK /\ Protocol /\ Made /\ Superseded /\ Preparing /\ Attached /\ Claims
  BY DEF UsbDirInvariant
<1>1. TypeStore'
  BY <1>0 DEF WBuild, TypeStore, TypeFlags, TypeStages, TypeCounts, TypeMessages,
        FreeImage,
    ReplugFailed, TypeOK, WorkerUnchanged
<1>2. TypeFlags'
  BY <1>0, WBuildTypes
<1>3. TypeCounts'
  BY <1>0 DEF WBuild, TypeCounts, TypeOK, WorkerUnchanged, port
<1>4. TypeStages'
  BY <1>0 DEF WBuild, TypeStages, ReplugFailed, ReplugGoesOn, TypeOK, WatchHold,
    WorkerUnchanged, watch
<1>5. TypeMessages'
  BY <1>0, WBuildTypes
<1>6. Protocol'
  BY <1>0 DEF WBuild, Protocol, ReplugFailed, ReplugGoesOn, Running, WorkerUnchanged
<1>7. Made'
  BY <1>0 DEF WBuild, Made, TypeStore, Out, TypeOK, WorkerUnchanged
<1>8. Superseded'
  BY <1>0 DEF WBuild, Superseded, TypeStore, FreeImage, Idle, Out, Protocol,
        ReplugFailed,
    Running, Starting, Swapping, TypeOK, WorkerUnchanged
<1>9. Preparing'
  BY <1>0 DEF WBuild, Preparing, Idle, Protocol, Running, Starting, WorkerUnchanged
<1>10. Attached'
  BY <1>0 DEF WBuild, Attached, TypeMessages, TypeStore, Job, Claims, Idle, None, Out,
    Protocol, ReplugFailed, ReplugGoesOn, Swapping, TypeOK, WorkerUnchanged
<1>11. Claims'
  BY WBuildClaims
<1>. QED BY <1>1, <1>2, <1>3, <1>4, <1>5, <1>6, <1>7, <1>8, <1>9, <1>10, <1>11
      DEF UsbDirInvariant, TypeOK

(* The manifest moves to the rebuilt image only when the old one is synced  *)
(* or kept.                                                                 *)
LEMMA WSaveInv ==
  ASSUME UsbDirInvariant, WSave
  PROVE  UsbDirInvariant'
<1>0. TypeOK /\ Protocol /\ Made /\ Superseded /\ Preparing /\ Attached /\ Claims
  BY DEF UsbDirInvariant
<1>1. TypeStore'
  BY <1>0 DEF WSave, TypeStore, TypeFlags, TypeStages, TypeCounts, TypeMessages,
    ReplugFailed, TypeOK, WorkerUnchanged
<1>2. TypeFlags'
  BY <1>0, WSaveTypes
<1>3. TypeCounts'
  BY <1>0 DEF WSave, TypeCounts, TypeOK, WorkerUnchanged, port
<1>4. TypeStages'
  BY <1>0 DEF WSave, TypeStages, ReplugFailed, ReplugGoesOn, TypeOK, WatchHold,
    WorkerUnchanged, watch
<1>5. TypeMessages'
  BY <1>0, WSaveTypes
<1>6. Protocol'
  BY <1>0 DEF WSave, Protocol, ReplugFailed, ReplugGoesOn, Running, WorkerUnchanged
<1>7. Made'
  BY <1>0 DEF WSave, Made, Out, WorkerUnchanged
<1>8. Superseded'
  BY <1>0 DEF WSave, Superseded, TypeMessages, Job, Attached, Claims, Idle, Out,
        Protocol,
    ReplugFailed, Running, Starting, Swapping, TypeOK, WorkerUnchanged
<1>9. Preparing'
  BY <1>0 DEF WSave, Preparing, Idle, Protocol, Running, Starting, WorkerUnchanged
<1>10. Attached'
  BY <1>0 DEF WSave, Attached, TypeMessages, Job, Idle, None, Out, Protocol,
        ReplugFailed,
    ReplugGoesOn, Swapping, TypeOK, WorkerUnchanged
<1>11. Claims'
  BY <1>0 DEF WSave, Claims, TypeFlags, TypeStages, TypeCounts, Out, Protocol,
        ReplugFailed,
    ReplugGoesOn, Running, UpTo, WorkerUnchanged, port
<1>. QED BY <1>1, <1>2, <1>3, <1>4, <1>5, <1>6, <1>7, <1>8, <1>9, <1>10, <1>11
      DEF UsbDirInvariant, TypeOK

(* The swap ends with the reply; the only action that needs no "open" fault.*)
LEMMA WOpenInv ==
  ASSUME "open" \notin Faults, UsbDirInvariant, WOpen
  PROVE  UsbDirInvariant'
<1>0. TypeOK /\ Protocol /\ Made /\ Superseded /\ Preparing /\ Attached /\ Claims
  BY DEF UsbDirInvariant
<1>1. TypeStore'
  BY <1>0 DEF WOpen, TypeStore, TypeOK, WorkerUnchanged
<1>2. TypeFlags'
  BY <1>0, UsbDirAssumption DEF WOpen, TypeFlags, NotFailed, ReplugFailed, TypeOK,
    WatchHold, WatchReset, WorkerUnchanged, channel, port, watch, work
<1>3. TypeCounts'
  BY <1>0 DEF WOpen, TypeCounts, TypeOK, WorkerUnchanged, port
<1>4. TypeStages'
  BY <1>0 DEF WOpen, TypeStages, TypeOK, WatchReset, WorkerUnchanged
<1>5. TypeMessages'
  BY <1>0, WOpenTypes
<1>6. Protocol'
  BY <1>0 DEF WOpen, Protocol, Running, WorkerUnchanged
<1>7. Made'
  BY <1>0 DEF WOpen, Made, Out, WorkerUnchanged
<1>8. Superseded'
  BY <1>0 DEF WOpen, Superseded, Out, WorkerUnchanged
<1>9. Preparing'
  BY <1>0 DEF WOpen, Preparing, Idle, Protocol, Running, Starting, WorkerUnchanged
<1>10. Attached'
  BY <1>0 DEF WOpen, Attached, Superseded, Out, Running, Swapping, WorkerUnchanged
<1>11. Claims'
  BY <1>0 DEF WOpen, Claims, Out, Protocol, Running, UpTo, WorkerUnchanged, port
<1>. QED BY <1>1, <1>2, <1>3, <1>4, <1>5, <1>6, <1>7, <1>8, <1>9, <1>10, <1>11
      DEF UsbDirInvariant, TypeOK

-----------------------------------------------------------------------------
(* The user.                                                                *)

(* The edit flags are Boolean.                                              *)
LEMMA HostEditFlags == ASSUME TypeFlags, HostEdit PROVE TypeFlags'
<1>1. newDiff' = ("save" \in {wpc, pc}) /\ event' = (pc \notin {"down"} \cup Starting)
  BY DEF HostEdit
<1>2. newDiff' \in BOOLEAN /\ event' \in BOOLEAN
  BY <1>1
<1>3. hostDiff' = TRUE /\ unchanged' = FALSE /\ UNCHANGED << marker, readOnly, failedParse, blocked, hostChanged, stopping, notice, announced, checkAt >>
  BY DEF HostEdit, port
<1>. QED BY <1>2, <1>3 DEF TypeFlags

(* A killed sync leaves a part of writes that were made.                    *)
LEMMA KillMade == ASSUME UsbDirInvariant, Kill PROVE Made'
<1>0. Made BY DEF UsbDirInvariant
<1>1. UNCHANGED << work, writes >> /\ slice' = {}
  BY DEF Kill, Down
<1>2. onHost' \subseteq onHost \cup snap /\ (onHost' # onHost => request.kind \in {"sync", "replug"})
  BY DEF Kill
<1>3. onHost' \subseteq 1 .. writes
  BY <1>0, <1>2, WorkerAtWork DEF Made, Out
<1>. QED BY <1>0, <1>1, <1>3 DEF Made, Out, work

(* The user edits the host only.                                            *)
LEMMA HostEditInv ==
  ASSUME UsbDirInvariant, HostEdit
  PROVE  UsbDirInvariant'
<1>0. TypeOK /\ Protocol /\ Made /\ Superseded /\ Preparing /\ Attached /\ Claims
  BY DEF UsbDirInvariant
<1>1. TypeStore'
  BY <1>0 DEF HostEdit, TypeStore, TypeOK, channel, work
<1>2. TypeFlags'
  BY <1>0, HostEditFlags DEF TypeOK
<1>3. TypeCounts'
  BY <1>0, UsbDirAssumption DEF HostEdit, TypeCounts, TypeOK, port
<1>4. TypeStages'
  BY <1>0 DEF HostEdit, TypeStages, TypeOK
<1>5. TypeMessages'
  BY <1>0 DEF HostEdit, TypeMessages, TypeOK, channel
<1>6. Protocol'
  BY <1>0 DEF HostEdit, Protocol, Running, channel
<1>7. Made'
  BY <1>0 DEF HostEdit, Made, Out, work
<1>8. Superseded'
  BY <1>0 DEF HostEdit, Superseded, Out, Swapping, channel, work
<1>9. Preparing'
  BY <1>0 DEF HostEdit, Preparing, Running, work
<1>10. Attached'
  BY <1>0 DEF HostEdit, Attached, Out, Running, Swapping, channel, work
<1>11. Claims'
  BY <1>0 DEF HostEdit, Claims, Dirty, Out, Running, UpTo, channel, port, work
<1>. QED BY <1>1, <1>2, <1>3, <1>4, <1>5, <1>6, <1>7, <1>8, <1>9, <1>10, <1>11
      DEF UsbDirInvariant, TypeOK

(* What is on disk stays.                                                   *)
LEMMA KillInv ==
  ASSUME UsbDirInvariant, Kill
  PROVE  UsbDirInvariant'
<1>0. TypeOK /\ Protocol /\ Made /\ Superseded /\ Preparing /\ Attached /\ Claims
  BY DEF UsbDirInvariant
<1>1. TypeStore'
  BY <1>0 DEF Kill, TypeStore, TypeFlags, TypeStages, TypeCounts, TypeMessages, Down,
    TypeOK, work
<1>2. TypeFlags'
  BY <1>0, UsbDirAssumption DEF Kill, TypeFlags, NotFailed, Down, TypeOK, channel, port,
    watch, work
<1>3. TypeCounts'
  BY <1>0 DEF Kill, TypeCounts, Down, TypeOK
<1>4. TypeStages'
  BY <1>0 DEF Kill, TypeStages, Down
<1>5. TypeMessages'
  BY <1>0 DEF Kill, TypeMessages, Job, Down
<1>6. Protocol'
  BY <1>0 DEF Kill, Protocol, Down, Idle
<1>7. Made'
  BY KillMade
<1>8. Superseded'
  BY <1>0 DEF Kill, Superseded, Down, None, Out, Swapping, work
<1>9. Preparing'
  BY <1>0 DEF Kill, Preparing, Down
<1>10. Attached'
  BY <1>0 DEF Kill, Attached, Down, Running
<1>11. Claims'
  BY <1>0 DEF Kill, Claims, Down, Running
<1>. QED BY <1>1, <1>2, <1>3, <1>4, <1>5, <1>6, <1>7, <1>8, <1>9, <1>10, <1>11
      DEF UsbDirInvariant, TypeOK

-----------------------------------------------------------------------------
(* All of it.                                                               *)

(* Every step keeps the invariant.                                          *)
LEMMA NextInv ==
  ASSUME "open" \notin Faults, UsbDirInvariant, Next
  PROVE  UsbDirInvariant'
<1>1. CASE Prepare
  BY <1>1, PrepareKeepInv, PrepareCleanInv, PrepareBuildInv, PrepareSaveInv DEF Prepare
<1>2. CASE GuestWrite \/ TimePasses \/ HubPlug
  BY <1>2, GuestWriteInv, TimePassesInv, HubPlugInv
<1>3. CASE EndSlice \/ EndCommands \/ Continue \/ Halt
  BY <1>3, GotoInv DEF EndSlice, EndCommands, Continue, Halt, Polling
<1>4. CASE Poll
  BY <1>4, PollBeginInv, PollReplyInv, PollPluggedInv, PumpInv, AutomaticInv DEF Poll
<1>5. CASE Finish
  BY <1>5, AnswerAllInv, FinishReplyInv, FinishSyncInv, ExitInv DEF Finish
<1>6. CASE Worker
  BY <1>6, WHostEventInv, WCheckInv, WSyncInv, WReplugInv, WBuildInv, WSaveInv,
        WOpenInv DEF Worker
<1>7. CASE Start \/ UserRequest \/ Quit \/ HostEdit \/ Kill
  BY <1>7, StartInv, UserRequestInv, QuitInv, HostEditInv, KillInv
<1>. QED BY <1>1, <1>2, <1>3, <1>4, <1>5, <1>6, <1>7 DEF Next, User

(* What Attached and Made say of a running stick that is not being swapped: *)
(* it is the manifest's image, and each of its writes is out, resumable or  *)
(* of this slice.                                                           *)
LEMMA Held ==
  ASSUME UsbDirInvariant, Running, ~Swapping
  PROVE  /\ attached \in Image /\ manifest = attached /\ holds[attached] \subseteq 1 .. writes
         /\ holds[attached] \subseteq Out \cup Resumable \cup slice
         /\ Resumable \subseteq holds[attached]
         /\ slice \subseteq holds[attached] \cup Out
<1>1. attached \in Image /\ manifest = attached
  BY DEF UsbDirInvariant, Attached
<1>2. holds[attached] \subseteq 1 .. writes /\ slice \subseteq holds[attached] \cup Out
  BY <1>1 DEF UsbDirInvariant, Attached, Made
<1>3. holds[attached] \subseteq Out \cup Resumable \cup slice
  BY <1>1 DEF UsbDirInvariant, Attached, Resumable
<1>. QED BY <1>1, <1>2, <1>3 DEF Resumable

(* The invariant holds: from the marker, the order of prepare, of a rebuild *)
(* and of finish, each image that is not the manifest's holds nothing that  *)
(* is needed.                                                               *)
THEOREM Invariant == ASSUME "open" \notin Faults PROVE Spec => []UsbDirInvariant
<1>1. UsbDirInvariant /\ [Next]_vars => UsbDirInvariant'
  BY NextInv, StutterInv
<1>. QED BY InitInv, <1>1, PTL DEF Spec

(* The types.                                                               *)
THEOREM TypesKept == ASSUME "open" \notin Faults PROVE Spec => []TypeOK
<1>1. UsbDirInvariant => TypeOK
  BY DEF UsbDirInvariant
<1>. QED BY Invariant, <1>1, PTL

(* SyncsItsOwnImage: every snapshot is compared with the manifest of the    *)
(* image it was copied from.                                                *)
THEOREM OwnImage == ASSUME "open" \notin Faults PROVE Spec => []SyncsItsOwnImage
<1>1. UsbDirInvariant => SyncsItsOwnImage
  <2> SUFFICES ASSUME UsbDirInvariant,
                      request.kind = "sync" \/ (request.kind = "replug" /\ request.sync /\ wpc = "idle")
               PROVE  manifest = attached
    BY DEF SyncsItsOwnImage
  <2>1. TypeOK /\ Protocol /\ request # None
    BY DEF UsbDirInvariant, None
  <2>2. job.kind \in {"sync", "rebuild"}
    BY <2>1 DEF Protocol, TypeOK, TypeMessages, Job, Idle
  <2>3. Running /\ wpc # "open" /\ reply = None
    BY <2>1, <2>2 DEF Protocol, Idle
  <2>. QED BY <2>3, Held DEF Swapping, None
<1>. QED BY Invariant, <1>1, PTL

(* CleanIsSynced: a stick that is not dirty has everything on the host or   *)
(* aside.                                                                   *)
THEOREM CleanSticks == ASSUME "open" \notin Faults PROVE Spec => []CleanIsSynced
<1>1. UsbDirInvariant => CleanIsSynced
  <2> SUFFICES ASSUME UsbDirInvariant, attached \in files, Running, synced = writes
               PROVE  holds[attached] \subseteq onHost \cup aside
    BY DEF CleanIsSynced, Running, Starting, Polling, Stopping
  <2>1. attached \in Image /\ holds[attached] \subseteq 1 .. writes /\ UpTo(synced) \subseteq Out
    BY DEF UsbDirInvariant, Attached, Made, Claims
  <2>. QED BY <2>1 DEF UpTo, Out, UsbDirInvariant, TypeOK, TypeCounts
<1>. QED BY Invariant, <1>1, PTL

(* SwapsUnplugged: images are built, removed and swapped only while the     *)
(* stick is out.                                                            *)
THEOREM Unplugged == ASSUME "open" \notin Faults PROVE Spec => []SwapsUnplugged
<1>1. UsbDirInvariant => SwapsUnplugged
  BY DEF UsbDirInvariant, Protocol, SwapsUnplugged, TypeOK, TypeMessages, Job, Idle
<1>. QED BY Invariant, <1>1, PTL

-----------------------------------------------------------------------------
(* UsbDir implements GuestData: one lemma per action that moves a guest     *)
(* write, from the inductive invariant above.                               *)

(* A step that loses nothing from Out, moves what was resumable only to Out,*)
(* keeps or drops the slice as a whole and finds no lost write again is a   *)
(* step of GuestData.                                                       *)
LEMMA FateStep ==
  ASSUME writes \in Nat, writes' \in Nat, writes <= writes',
         Out \subseteq Out', Resumable \subseteq Resumable' \cup Out',
         slice \subseteq slice' \cup Resumable' \cup Out' \/ slice' = {},
         \A w \in 1 .. writes : w \in Out' \cup Resumable' \cup slice'
                                   => w \in Out \cup Resumable \cup slice,
         \A w \in Write : writes < w /\ w <= writes' => w \in Out' \cup Resumable' \cup slice'
  PROVE  Data!Next
<1>1. Fate' \in [Write -> Data!Fates]
  BY DEF Fate, Data!Fates
<1>2. ASSUME NEW w \in Write PROVE Data!Progress(Fate[w], Fate'[w])
  BY <1>2 DEF Fate, Data!Progress, Write
<1>3. Data!KillOnly
  <2>1. CASE slice' = {}
    BY <2>1 DEF Fate, Data!KillOnly
  <2>2. CASE slice \subseteq slice' \cup Resumable' \cup Out'
    BY <2>2 DEF Fate, Data!KillOnly, Write
  <2>. QED BY <2>1, <2>2
<1>. QED BY <1>1, <1>2, <1>3 DEF Data!Next

(* A step that touches neither images nor host leaves every fate alone.     *)
LEMMA FateSame ==
  ASSUME UNCHANGED << writes, slice, onHost, aside, marker, manifest, files, holds >>
  PROVE  UNCHANGED Fate
<1>. QED BY DEF Fate, Out, Resumable

(* Preparing keeps the resumable image, or copies it aside first.           *)
LEMMA PrepareData ==
  ASSUME UsbDirInvariant, UsbDirInvariant', Prepare PROVE Data!Next
<1>0. TypeOK /\ Made /\ Superseded /\ Preparing /\ UsbDirInvariant
  BY DEF UsbDirInvariant
<1>1. UNCHANGED << onHost, writes, slice >> /\ slice = {} /\ writes \in Nat
  BY <1>0 DEF Prepare, PrepareKeep, PrepareClean, PrepareBuild, PrepareSave,
        PrepareUnchanged,
     Preparing, Running, Starting, TypeOK, TypeCounts
<1>2. CASE PrepareKeep
  <2>1. marker /\ UNCHANGED << manifest, holds >>
    BY <1>0, <1>2 DEF PrepareKeep, Preparing
  <2>2. CASE files = {} /\ UNCHANGED << files, aside >>
    BY <1>1, <2>1, <2>2, FateStep DEF Out, Resumable, Write
  <2>3. ASSUME NEW i \in files, files' = files \ {i}, aside' = aside \cup holds[i], UNCHANGED marker
        PROVE  Data!Next
    <3>1. CASE i = manifest
      BY <1>1, <2>1, <2>3, <3>1, FateStep DEF Out, Resumable, Write
    <3>2. CASE i # manifest
      <4>1. holds[i] \subseteq Out
        BY <1>0, <3>2 DEF Superseded
      <4>2. Out' = Out
        BY <1>1, <2>3, <4>1 DEF Out
      <4>. QED BY <1>1, <2>1, <2>3, <3>2, <4>2, FateStep DEF Resumable, Write
    <3>. QED BY <3>1, <3>2
  <2>. QED BY <1>2, <2>2, <2>3 DEF PrepareKeep
<1>3. CASE PrepareClean \/ PrepareBuild \/ PrepareSave
  <2>1. ~marker /\ UNCHANGED << marker, aside >>
    BY <1>0, <1>3 DEF PrepareClean, PrepareBuild, PrepareSave, Preparing
  <2>. QED BY <1>1, <2>1, FateStep DEF Out, Resumable, Write
<1>. QED BY <1>2, <1>3 DEF Prepare

(* A write is pending, kept (marked) or out at once.                        *)
LEMMA GuestWriteData ==
  ASSUME UsbDirInvariant, UsbDirInvariant', GuestWrite PROVE Data!Next
<1>0. TypeOK /\ TypeOK' /\ attached \in Image /\ Running
  BY DEF UsbDirInvariant, GuestWrite, Running, Starting, Attached
<1>1. /\ UNCHANGED << files, manifest, marker, onHost >> /\ slice' = slice \cup {writes + 1}
      /\ writes' = writes + 1 /\ writes \in Nat
      /\ aside' \in {aside, aside \cup {writes + 1}}
  BY <1>0 DEF GuestWrite, SliceUnchanged, TypeOK, TypeCounts
<1>2. \A i \in Image : holds'[i] \in {holds[i], holds[i] \cup {writes + 1}}
  BY <1>0 DEF GuestWrite, TypeOK, TypeStore
<1>3. Out' \in {Out, Out \cup {writes + 1}}
  BY <1>1 DEF Out
<1>4. Resumable' \in {Resumable, Resumable \cup {writes + 1}}
  BY <1>0, <1>1, <1>2 DEF Resumable, TypeOK, TypeStore
<1>5. \A w \in 1 .. writes : w # writes + 1
  BY <1>1
<1>6. \A w \in Write : writes < w /\ w <= writes' => w = writes + 1
  BY <1>1 DEF Write
<1>. QED BY <1>1, <1>3, <1>4, <1>5, <1>6, FateStep

(* The marker turns pending writes into kept ones.                          *)
LEMMA PollBeginData ==
  ASSUME UsbDirInvariant, UsbDirInvariant', PollBegin PROVE Data!Next
<1>0. TypeOK /\ Running /\ Running' /\ Made
  BY DEF UsbDirInvariant, PollBegin, Running, Starting
<1>1. UNCHANGED << work, onHost, writes, attached, reply, wpc >> /\ writes \in Nat
  BY <1>0 DEF PollBegin, ThreadUnchanged, channel, TypeOK, TypeCounts
<1>2. Out' = Out /\ (Swapping' <=> Swapping)
  BY <1>1 DEF Out, Swapping, work
<1>3. slice' = slice \/ slice' = {}
  BY DEF PollBegin
<1>4. Resumable \subseteq Resumable' /\ Resumable' \subseteq Out \cup Resumable \cup slice
  <2>1. marker' = marker \/ marker' = TRUE
    BY DEF PollBegin, Mark
  <2>2. CASE Swapping
    BY <1>1, <2>1, <2>2, <1>0 DEF Resumable, work, UsbDirInvariant, Attached, Superseded
  <2>3. CASE ~Swapping
    BY <1>0, <1>1, <2>1, <2>3, Held DEF Resumable, work
  <2>. QED BY <2>2, <2>3
<1>. QED BY <1>1, <1>2, <1>3, <1>4, FateStep DEF Write

(* The marker goes only when everything the image holds is out.             *)
LEMMA ReplyData ==
  ASSUME UsbDirInvariant, UsbDirInvariant', OnReply, Running, Running' PROVE Data!Next
<1>0. TypeOK /\ Protocol /\ Attached /\ Made /\ Protocol'
  BY DEF UsbDirInvariant
<1>1. UNCHANGED << work, onHost, writes, slice, wpc >> /\ reply' = None /\ reply # None /\ writes \in Nat
  BY <1>0 DEF OnReply, TypeOK, TypeCounts
<1>2. Out' = Out /\ ~Swapping'
  <2>1. wpc = "idle"
    BY <1>0, <1>1 DEF OnReply, OnSynced, OnReplugged, Protocol
  <2>. QED BY <1>1, <2>1 DEF Out, work, Swapping, None
<1>3. marker' = marker \/ marker' = FALSE
  BY DEF OnReply, OnSynced, OnReplugged, Mark
<1>4. Resumable' \subseteq Resumable
  BY <1>1, <1>3 DEF Resumable, work
<1>5. Resumable \subseteq Resumable' \cup Out'
  <2>1. CASE UNCHANGED marker
    BY <1>1, <2>1 DEF Resumable, work
  <2>2. CASE ~marker' /\ Swapping
    <3>1. Resumable = {}
      BY <1>0, <2>2 DEF Resumable, Attached, Superseded, UsbDirInvariant
    <3>. QED BY <3>1
  <2>3. CASE ~marker' /\ ~Swapping
    <3>1. UNCHANGED attached
      BY <2>3, <1>1 DEF OnReply, OnSynced, OnReplugged, Swapping
    <3>2. Resumable \subseteq Out' \cup slice
      BY <1>1, <2>3, <3>1, Held DEF UsbDirInvariant, Attached, work
    <3>3. holds[attached] \subseteq Out \/ UNCHANGED marker
      <4>1. holds[attached] \subseteq 1 .. writes /\ UpTo(synced') \subseteq Out'
        BY <1>1, <2>3, <3>1, Held DEF UsbDirInvariant, Claims, work, UpTo
      <4>2. CASE UNCHANGED marker
        BY <4>2
      <4>3. ASSUME marker' # marker PROVE synced' = writes \/ (~Dirty' /\ readOnly')
        BY <1>0, <1>1, <2>3, <4>3 DEF OnReply, OnSynced, OnReplugged, Swapping, Dirty,
              NoteSynced
      <4>4. readOnly' => holds[attached] = {}
        BY <1>1, <3>1 DEF UsbDirInvariant, Attached, work
      <4>5. synced' = writes => holds[attached] \subseteq Out
        BY <1>1, <1>2, <3>1, Held, <2>3 DEF UsbDirInvariant, Claims, work, UpTo
      <4>. QED BY <4>3, <4>4, <4>5
    <3>. QED BY <1>2, <2>3, <3>3, <2>1, Held
  <2>. QED BY <1>3, <2>1, <2>2, <2>3
<1>. QED BY <1>1, <1>2, <1>4, <1>5, FateStep DEF Write

(* A sync only adds to the host.                                            *)
LEMMA SyncData ==
  ASSUME UsbDirInvariant, UsbDirInvariant', WSync PROVE Data!Next
<1>0. TypeOK /\ Running /\ request # None /\ reply = None /\ wpc = "idle" /\ snap \subseteq holds[attached]
  BY WorkerAtWork DEF UsbDirInvariant, WSync
<1>1. /\ UNCHANGED << files, holds, manifest, aside, marker, writes, slice >> /\ writes \in Nat
      /\ onHost \subseteq onHost' /\ onHost' \subseteq onHost \cup snap
  BY <1>0, SyncMoves DEF WSync, WorkerUnchanged, work, TypeOK, TypeCounts
<1>2. ~Swapping
  BY <1>0 DEF Swapping, None
<1>3. Resumable' = Resumable /\ Out \subseteq Out' /\ Out' \subseteq Out \cup snap
  BY <1>1 DEF Resumable, Out
<1>. QED BY <1>0, <1>1, <1>2, <1>3, Held, FateStep DEF Write

(* A discarded image is moved aside, not removed.                           *)
LEMMA ReplugData ==
  ASSUME UsbDirInvariant, UsbDirInvariant', WReplug PROVE Data!Next
<1>0. TypeOK /\ Running /\ request # None /\ reply = None /\ wpc = "idle" /\ snap \subseteq holds[attached]
  BY WorkerAtWork DEF UsbDirInvariant, WReplug
<1>2. ~Swapping
  BY <1>0 DEF Swapping, None
<1>3. manifest = attached /\ attached \in Image
  BY <1>0, <1>2, Held
<1>1. /\ UNCHANGED << holds, manifest, marker, writes, slice >> /\ writes \in Nat
      /\ onHost \subseteq onHost' /\ onHost' \subseteq onHost \cup snap
      /\ \/ UNCHANGED << files, aside >>
         \/ /\ files' = files \ {attached} /\ onHost' = onHost
            /\ aside' = IF attached \in files THEN aside \cup holds[attached] ELSE aside
  <2>1. UNCHANGED << holds, manifest, marker, writes, slice >> /\ writes \in Nat
    BY <1>0 DEF WReplug, WorkerUnchanged, TypeOK, TypeCounts
  <2>2. \/ /\ UNCHANGED << files, aside >>
           /\ UNCHANGED onHost \/ \E result \in Outcome : VolumeSync(FALSE, result)
        \/ /\ files' = files \ {attached} /\ onHost' = onHost
           /\ aside' = IF attached \in files THEN aside \cup holds[attached] ELSE aside
    BY <1>3 DEF WReplug
  <2>. QED BY <1>0, <2>1, <2>2, SyncMoves
<1>4. Out \subseteq Out' /\ Out' \subseteq Out \cup holds[attached]
  BY <1>0, <1>1 DEF Out
<1>5. Resumable' \subseteq Resumable /\ Resumable \subseteq Resumable' \cup Out'
  BY <1>1, <1>3 DEF Resumable, Out
<1>. QED BY <1>0, <1>1, <1>2, <1>4, <1>5, Held, FateStep DEF Write

(* A build uses a name that is not the manifest's.                          *)
LEMMA BuildData ==
  ASSUME UsbDirInvariant, UsbDirInvariant', WBuild PROVE Data!Next
<1>0. TypeOK
  BY DEF UsbDirInvariant
<1>1. UNCHANGED << manifest, aside, onHost, marker, writes, slice >> /\ writes \in Nat
  BY <1>0 DEF WBuild, WorkerUnchanged, TypeOK, TypeCounts
<1>2. (manifest \in files' <=> manifest \in files) /\ (manifest \in files => holds'[manifest] = holds[manifest])
  BY <1>0 DEF WBuild, FreeImage, TypeOK, TypeStore
<1>3. Out' = Out /\ Resumable' = Resumable
  BY <1>1, <1>2 DEF Out, Resumable
<1>. QED BY <1>1, <1>3, FateStep DEF Write

(* The manifest leaves an image whose writes are out.                       *)
LEMMA SaveData ==
  ASSUME UsbDirInvariant, UsbDirInvariant', WSave PROVE Data!Next
<1>0. TypeOK /\ Protocol /\ Attached /\ Claims /\ Superseded /\ wpc = "save"
  BY DEF UsbDirInvariant, WSave
<1>1. /\ UNCHANGED << files, holds, aside, onHost, marker, writes, slice, attached >> /\ writes \in Nat
      /\ manifest' \in {manifest, newImage}
  BY <1>0 DEF WSave, WorkerUnchanged, TypeOK, TypeCounts
<1>2. Running /\ reply = None /\ job.kind = "rebuild"
  BY <1>0 DEF Protocol, TypeOK, TypeMessages, Job, Idle
<1>3. manifest = attached /\ holds[attached] \subseteq Out /\ holds[newImage] = {}
  BY <1>0, <1>2 DEF Attached, Swapping, Claims, Superseded, None
<1>4. Out' = Out /\ Resumable' \subseteq Resumable /\ Resumable \subseteq Resumable' \cup Out'
  BY <1>1, <1>3 DEF Out, Resumable
<1>. QED BY <1>1, <1>4, FateStep DEF Write

(* The removed file is not the manifest's.                                  *)
LEMMA OpenData ==
  ASSUME UsbDirInvariant, UsbDirInvariant', WOpen PROVE Data!Next
<1>0. TypeOK
  BY DEF UsbDirInvariant
<1>1. UNCHANGED << holds, manifest, aside, onHost, marker, writes, slice >> /\ writes \in Nat
  BY <1>0 DEF WOpen, WorkerUnchanged, TypeOK, TypeCounts
<1>2. manifest \in files' <=> manifest \in files
  BY DEF WOpen
<1>3. Out' = Out /\ Resumable' = Resumable
  BY <1>1, <1>2 DEF Out, Resumable
<1>. QED BY <1>1, <1>3, FateStep DEF Write

(* A kill loses the slice at most; an exit, nothing.                        *)
LEMMA DownData ==
  ASSUME UsbDirInvariant, UsbDirInvariant', Kill \/ Exit PROVE Data!Next
<1>0. TypeOK
  BY DEF UsbDirInvariant
<1>1. UNCHANGED << files, holds, manifest, aside, marker, writes >> /\ slice' = {} /\ writes \in Nat
  BY <1>0 DEF Kill, Exit, Down, work, TypeOK, TypeCounts
<1>2. Resumable' = Resumable
  BY <1>1 DEF Resumable
<1>3. CASE UNCHANGED onHost
  BY <1>1, <1>2, <1>3, FateStep DEF Out, Write
<1>4. CASE onHost' # onHost
  <2>1. /\ onHost \subseteq onHost' /\ onHost' \subseteq onHost \cup snap
        /\ request.kind \in {"sync", "replug"} /\ (request.kind = "replug" => wpc = "idle")
    BY <1>4 DEF Kill, Exit
  <2>2. Running /\ ~Swapping /\ snap \subseteq holds[attached]
    BY <2>1, WorkerAtWork DEF Swapping, None
  <2>3. Out \subseteq Out' /\ Out' \subseteq Out \cup snap
    BY <1>1, <2>1 DEF Out
  <2>. QED BY <1>1, <1>2, <2>2, <2>3, Held, FateStep DEF Write
<1>. QED BY <1>3, <1>4

(* The first start has no write.                                            *)
LEMMA DataInit == Init => Data!Init
<1> SUFFICES ASSUME Init PROVE Data!Init
  OBVIOUS
<1>. QED BY DEF Init, Data!Init, Fate, Write

(* Every step is a step of GuestData or leaves the fates alone.             *)
LEMMA DataStep ==
  ASSUME UsbDirInvariant, UsbDirInvariant', [Next]_vars
  PROVE  [Data!Next]_Fate
<1>1. CASE Prepare \/ GuestWrite \/ PollBegin
  BY <1>1, PrepareData, GuestWriteData, PollBeginData
<1>2. CASE PollReply \/ FinishReply
  <2>1. CASE OnReply
    <3>1. Running /\ Running'
      BY <1>2 DEF PollReply, FinishReply, Running, Starting
    <3>. QED BY <2>1, <3>1, ReplyData
  <2>2. CASE ~OnReply
    BY <1>2, <2>2, FateSame DEF PollReply, FinishReply, work
  <2>. QED BY <2>1, <2>2
<1>3. CASE TimePasses \/ HubPlug \/ EndSlice \/ EndCommands \/ Continue \/ Halt
  BY <1>3, FateSame DEF TimePasses, HubPlug, SliceUnchanged, EndSlice, EndCommands,
        Continue,
     Halt, Goto, work
<1>4. CASE PollPlugged \/ Pump \/ Automatic \/ UserRequest
  BY <1>4, FateSame DEF PollPlugged, Pump, Automatic, UserRequest, PumpUnchanged,
     ThreadUnchanged, work
<1>5. CASE AnswerAll \/ FinishSync \/ Quit
  BY <1>5, FateSame DEF AnswerAll, FinishSync, Quit, PumpUnchanged, ThreadUnchanged,
        work
<1>6. CASE Exit \/ Kill
  BY <1>6, DownData
<1>7. CASE WSync \/ WReplug \/ WBuild \/ WSave \/ WOpen
  BY <1>7, SyncData, ReplugData, BuildData, SaveData, OpenData
<1>8. CASE WHostEvent \/ WCheck
  BY <1>8, FateSame DEF WHostEvent, WCheck, WorkerUnchanged, work
<1>9. CASE Start \/ HostEdit
  BY <1>9, FateSame DEF Start, HostEdit, work
<1>10. CASE UNCHANGED vars
  BY <1>10, FateSame DEF vars, work
<1>. QED BY <1>1, <1>2, <1>3, <1>4, <1>5, <1>6, <1>7, <1>8, <1>9, <1>10
     DEF Next, Poll, Finish, Worker, User

(* GuestDataKept: a guest write is lost only by a kill in the slice that    *)
(* made it.                                                                 *)
THEOREM DataKept == ASSUME "open" \notin Faults PROVE Spec => GuestDataKept
<1>1. UsbDirInvariant /\ UsbDirInvariant' /\ [Next]_vars => [Data!Next]_Fate
  BY DataStep
<1>. QED BY Invariant, DataInit, <1>1, PTL DEF Spec, GuestDataKept, Data!Spec
=============================================================================
