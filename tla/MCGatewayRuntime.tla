-------------------------- MODULE MCGatewayRuntime --------------------------
(* GatewayRuntime on a small instance.  The coordinator's Window and Time are *)
(* not used here: every transaction reads the clock.                          *)
EXTENDS GatewayRuntime, TLC

MCBinding == Content \X (0..MaxWrites)
MCRequestOf == [b \in MCBinding |-> b]
MCTime == 0..MaxClock
MCSymmetry == Permutations(Call) \cup Permutations(Content)
MCWindow == {[observed |-> 0, until |-> MaxClock]}
=============================================================================
