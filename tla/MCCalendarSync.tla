---------------------------- MODULE MCCalendarSync ----------------------------
(* CalendarSync on two workers and an appointment with two possible times.  *)
EXTENDS CalendarSync

================================================================================
