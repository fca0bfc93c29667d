----------------------------- MODULE MCIdleSkip -----------------------------
(* Every firmware of a start-up instruction and a loop of three, with an     *)
(* interrupt handler at 5 that clears the flags.                            *)
EXTENDS IdleSkip

I(op) == [op |-> op, to |-> 0]
To(op, pc) == [op |-> op, to |-> pc]

Startup == { I("nop"), I("timerOn"), I("dma") }
Body    == { I("load"), I("store"), I("inc"), I("di"), I("ei"), I("count"), I("window"),
             I("timerOff"), I("dma"), To("beqz", 2), To("beqz", 4) }
Jump    == { To("j", 2), To("j", 3), To("j", 4) }
Work    == { I("nop"), I("inc") }

MCFirmware ==
    { << s, a, b, j, w, I("clear"), I("mret") >> : s \in Startup, a \in Body, b \in Body, j \in Jump, w \in Work }
=============================================================================
