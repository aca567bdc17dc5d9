---------------------------- MODULE MCCalendarJob ----------------------------
(* CalendarJob on small calendars. *)
EXTENDS CalendarJob

CONSTANTS e, s, o

\* o is an occurrence of the series s.
OfSeries == [x \in Occurrences |-> s]

AllFaults == {"write", "delete", "lost", "enumerate", "interrupt"}
WriteFaults == {"write"}
=============================================================================
