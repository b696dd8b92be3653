---------------------------- MODULE MCNoticeClock ----------------------------
(* NoticeClock with a day of two hours of two minutes of five seconds: the *)
(* carry of the minute, of the hour and of the day, hours and minutes that *)
(* can be torn apart, and two announcements that just fit into a minute.   *)
EXTENDS NoticeClock
=============================================================================
