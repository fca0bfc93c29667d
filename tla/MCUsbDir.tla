------------------------------ MODULE MCUsbDir ------------------------------
(* Small instances of UsbDir for TLC. *)
EXTENDS UsbDirInv, TLC

Symmetry == Permutations(Image)

(* Every fault but a rebuilt image that cannot be opened (run UsbDirOpenFails) *)
(* and a host that cannot be scanned for a fingerprint, which ends a hold.    *)
SafeFaults == FaultKind \ {"open", "scan"}
=============================================================================
