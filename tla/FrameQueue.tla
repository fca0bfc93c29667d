----------------------------- MODULE FrameQueue -----------------------------
(***************************************************************************)
(* What a network interface promises in one direction: frames that were    *)
(* accepted are handed on in their order, each once.  What still waits     *)
(* when the interface is down may be thrown away, the newest first.        *)
(***************************************************************************)
EXTENDS Naturals, Sequences

VARIABLES
    waiting,    \* frames accepted and not handed on yet, oldest first
    passed,     \* frames handed on, oldest first
    up

vars == << waiting, passed, up >>

Init == waiting = << >> /\ passed = << >> /\ up \in BOOLEAN

Accept ==
    /\ waiting' # << >> /\ waiting = SubSeq(waiting', 1, Len(waiting') - 1)
    /\ UNCHANGED << passed, up >>

Pass ==
    \E n \in 1 .. Len(waiting) :
        /\ passed' = passed \o SubSeq(waiting, 1, n)
        /\ waiting' = SubSeq(waiting, n + 1, Len(waiting))
        /\ UNCHANGED up

Discard ==
    /\ ~up
    /\ \E n \in 0 .. Len(waiting) : waiting' = SubSeq(waiting, 1, n)
    /\ UNCHANGED << passed, up >>

Switch == up' = ~up /\ UNCHANGED << waiting, passed >>

Next == Accept \/ Pass \/ Discard \/ Switch
Spec == Init /\ [][Next]_vars
=============================================================================
