------------------------ MODULE MCThresholdSettings ------------------------
(***************************************************************************)
(* Small instances of ThresholdSettings: both bounds, values next to them, *)
(* values inside and NaN.                                                  *)
(***************************************************************************)
EXTENDS ThresholdSettings

MCInputs == {0, 1, 45, 60, 99, 100, NaN}
=============================================================================
