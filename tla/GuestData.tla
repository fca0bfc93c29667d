----------------------------- MODULE GuestData -----------------------------
(***************************************************************************)
(* What a --usb-dir stick promises about each guest write: from the moment *)
(* it is kept (its image will be resumed, or kept aside, whatever happens) *)
(* it stays kept until it is out of the image: on the host, or in a file   *)
(* the program never deletes.  Only a kill, and only within the slice that *)
(* made the write, can lose it (docs/status/usb-dir.md, "data safety comes *)
(* before features").                                                      *)
(***************************************************************************)
CONSTANT Write
VARIABLE fate

Fates == { "unwritten", "pending", "kept", "out", "lost" }

Init == fate = [w \in Write |-> "unwritten"]

(* How one step may change the fate of one write. *)
Progress(from, to) ==
    \/ to = from
    \/ from = "unwritten" /\ to \in {"pending", "kept", "out"}
    \/ from = "pending"   /\ to \in {"kept", "out", "lost"}
    \/ from = "kept"      /\ to = "out"

(* A kill takes every pending write at once. *)
KillOnly ==
    (\E w \in Write : fate[w] = "pending" /\ fate'[w] = "lost")
        => \A w \in Write : fate'[w] # "pending"

Next ==
    /\ fate' \in [Write -> Fates]
    /\ \A w \in Write : Progress(fate[w], fate'[w])
    /\ KillOnly

Spec == Init /\ [][Next]_fate
=============================================================================
