---------------------------- MODULE MCUsbDirSync ----------------------------
(* Instances of UsbDirSync for TLC: a directory with one file, and a file.  *)
EXTENDS UsbDirSync, TLC

MCOrder  == << "d", "d/x", "f" >>
MCParent == ("d" :> "root") @@ ("d/x" :> "d") @@ ("f" :> "root")

(* Contents are only compared.                                              *)
MCSymmetry == Permutations(Content)
=============================================================================
