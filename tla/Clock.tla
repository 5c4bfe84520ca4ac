------------------------------- MODULE Clock -------------------------------
(***************************************************************************)
(* One time for the components that read a clock and are modelled together *)
(* (time.Now in Go, and Redis's own).  A component's Tick says what must   *)
(* have happened before time may pass.                                     *)
(***************************************************************************)
EXTENDS Naturals

CONSTANTS
  Caller,    \* calls that may be under way at once, each with its own readings
  MaxClock   \* bound of the model: ticks

ASSUME ClockAssumption == MaxClock \in Nat

VARIABLE clock

TimePasses ==
  /\ clock < MaxClock
  /\ clock' = clock + 1
=============================================================================
