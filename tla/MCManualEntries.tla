--------------------------- MODULE MCManualEntries ---------------------------
(* ManualEntries on small instances for TLC. *)
EXTENDS ManualEntries

OneCell == {<<[day |-> d, job |-> Null]>> : d \in Days}

(* A company whose midnight is at the same time of the UTC day all year. *)
OwnDay == [d \in Days |-> d]

(* A day of last week on which two jobs were worked. *)
TwoJobs ==
  {<<[day |-> d, job |-> j], [day |-> d, job |-> Null]>> : d \in Days, j \in Jobs}
=============================================================================
