---------------------------- MODULE MCExitEngine ----------------------------
(***************************************************************************)
(* A position of one of the two callers of the exit engine: a Track A      *)
(* strategy's, with the default policy, or AceVault's, on its own route,   *)
(* with every rule on as in a ranging regime, or with the ranging rules    *)
(* off, an earlier break-even and a wider trail.  A reload turns one of    *)
(* AceVault's two into the other.                                          *)
(***************************************************************************)
EXTENDS ExitEngine

PriceRange == 1..11

Default == [
  risk |-> 3, target |-> 6, breakEvenAt |-> 3, breakEvenBy |-> 1, trailAt |-> 3, trailBy |-> 2,
  timeStop |-> 3, minProgress |-> 1, failBars |-> 0, failProgress |-> 0, targetCap |-> 0,
  maxHold |-> 0, band |-> 0, bandFirst |-> TRUE, aceRouting |-> FALSE, moveStop |-> FALSE,
  dropsOnRaise |-> FALSE]

Ranging == [Default EXCEPT
  !.target = 7, !.failBars = 2, !.targetCap = 8, !.maxHold = 4, !.band = 6,
  !.bandFirst = FALSE, !.aceRouting = TRUE, !.moveStop = TRUE, !.dropsOnRaise = TRUE]

Trending == [Default EXCEPT
  !.target = 7, !.breakEvenAt = 2, !.breakEvenBy = 0, !.trailBy = 3, !.aceRouting = TRUE,
  !.dropsOnRaise = TRUE]

DeployedPolicies == {Default, Ranging, Trending}
=============================================================================
