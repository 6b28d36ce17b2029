---------------------------- MODULE MCPayPeriods ----------------------------
(* A small year: months of 31, 28, 31 and 30 days, and summer time from day 43
   to day 84; anchors before it and in it. *)
EXTENDS PayPeriods

MCMonthStarts == {-31, 0, 31, 59, 90, 120}

MCCalendars ==
  [type : {"weekly", "bi_weekly", "semi_monthly", "monthly"}, weekStartDay : {0, 1},
   anchor : {3, 50}]
=============================================================================
