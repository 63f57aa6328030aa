---------------------------- MODULE MCOperation ----------------------------
(***************************************************************************)
(* The control operations and reads of all backends.                       *)
(***************************************************************************)
EXTENDS OperationProperties, Backends

TwoCallers == <<"first", "second">>
TwoHalves == <<"half of first", "half of second">>

(* A u32 of few values: three quotas of 86 wrap to 2, two of 128 to zero.  *)
MCQuotas == {0, 1, 2, 50, 86, 128, 199}
=============================================================================
