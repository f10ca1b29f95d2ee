------------------------------- MODULE MCClock -------------------------------
(* The timer driver with a period of three time units.  The sleeps cover  *)
(* zero, less than a period, exactly one and more than one.                *)
EXTENDS Clock

SomeMsecs == {0, 1, 3, 5}
SomePeriods == {3, 4}
=============================================================================
