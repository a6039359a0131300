---------------------------- MODULE GameWindowMC ----------------------------
(* GameWindow on a small instance: a request of each kind, one of which    *)
(* (Restart) is asked about first, as gameInterrupt does for three of them.*)
EXTENDS GameWindow

SomeInterrupts ==
  {Pause, [kind |-> "Abort", how |-> "act"], [kind |-> "Restart", how |-> "ask"],
   [kind |-> "Quit", how |-> "act"]}
=============================================================================
