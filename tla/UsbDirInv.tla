----------------------------- MODULE UsbDirInv -----------------------------
(***************************************************************************)
(* The inductive invariant of UsbDir: why a guest write that was kept stays *)
(* kept.  TLC checks it on the small instances, UsbDirProofs proves it for  *)
(* every instance without the "open" fault.                                 *)
(***************************************************************************)
EXTENDS UsbDir

Running == pc \notin {"down"} \cup Starting

(* The rebuilt image is the one the manifest describes, and not yet the one *)
(* on the port.                                                             *)
Swapping == wpc = "open" \/ (reply.kind = "replugged" /\ reply.built)

(* One job, one request or reply, one stage. *)
Protocol ==
    /\ ~Running => job = Idle
    /\ job.kind \in {"idle", "plugging"} => request = None /\ reply = None /\ wpc = "idle"
    /\ job.kind = "sync" =>
         /\ wpc = "idle" /\ job.at <= writes
         /\ \/ request.kind = "sync" /\ reply = None
            \/ request = None /\ reply.kind = "synced"
    /\ job.kind = "rebuild" =>
         /\ plug = "out" /\ job.at = writes
         /\ \/ /\ request.kind = "replug" /\ reply = None
               /\ request.sync = job.sync /\ (request.sync => ~request.discard)
            \/ request = None /\ reply.kind = "replugged" /\ wpc = "idle"

(* Only writes that were made are anywhere. *)
Made ==
    /\ \A i \in Image : holds[i] \subseteq 1 .. writes
    /\ Out \subseteq 1 .. writes /\ slice \subseteq 1 .. writes

(* An image the manifest does not describe holds nothing that is needed; so *)
(* does an image under construction.                                        *)
Superseded ==
    /\ \A i \in files : i # manifest => holds[i] \subseteq Out
    /\ pc = "save" \/ wpc \in {"save", "open"} \/ Swapping =>
         newImage \in Image /\ holds[newImage] = {} /\ newImage # attached

(* The steps of prepare. *)
Preparing ==
    /\ pc \in {"clean", "build", "save"} => ~marker
    /\ pc = "keep" => marker
    /\ pc = "build" => files = {}
    /\ pc = "save" => files = {newImage}
    /\ ~Running => slice = {}

(* The stick: its image is the manifest's, unless a rebuild is being swapped *)
(* in; what is not out is resumable or of this slice.                        *)
Attached ==
    Running =>
      /\ attached \in Image
      /\ IF Swapping THEN manifest = newImage ELSE manifest = attached
      /\ slice \subseteq holds[attached] \cup Out
      /\ attached \notin files => holds[attached] \subseteq Out
      /\ ~marker => holds[attached] \subseteq Out \cup slice
      /\ readOnly => holds[attached] = {}

UpTo(n) == { w \in holds[attached] : w <= n }

(* What `synced' claims, before and after the job that raises it. *)
Claims ==
    Running =>
      /\ synced <= writes /\ UpTo(synced) \subseteq Out
      /\ request # None => snap \subseteq holds[attached]
      /\ job.kind = "sync" =>
           /\ request # None => UpTo(job.at) \subseteq snap
           /\ reply # None /\ reply.result = "ok" => UpTo(job.at) \subseteq Out
      /\ job.kind = "rebuild" =>
           /\ request # None /\ wpc = "idle" /\ request.sync => holds[attached] \subseteq snap
           /\ request # None /\ wpc = "idle" /\ ~request.sync /\ ~request.discard => ~Dirty
           /\ wpc # "idle" => holds[attached] \subseteq Out
           /\ reply # None /\ (reply.built \/ (job.sync /\ reply.result = "ok"))
                => holds[attached] \subseteq Out

(* The inductive invariant: the order of the marker, the sync, the manifest *)
(* and the swap keeps every write in an image the next start looks at.      *)
UsbDirInvariant ==
    /\ TypeOK /\ Protocol /\ Made /\ Superseded /\ Preparing /\ Attached /\ Claims
=============================================================================
