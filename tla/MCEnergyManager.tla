-------------------------- MODULE MCEnergyManager --------------------------
(* EnergyManager with the default thresholds, sampled on both sides of     *)
(* each of them and outside the range of a percentage.                     *)
EXTENDS EnergyManager

MCBattery == {-10, 100, 105, 199, 200, 205, 499, 500, 1010}
=============================================================================
