----------------------------- MODULE MCCalendarPage -----------------------------
EXTENDS CalendarPage

MCDates == 1 .. 2

\* Two events without a filter, one of them of the other kind; the second
\* version of a feed drops the first event and gains one.
MCListings ==
  [qv \in Queries \X Versions |->
     LET all == [i \in 1 .. 2 |-> <<qv[1].date, i + qv[2]>>] IN
     IF qv[1].kind = All THEN all ELSE <<all[2]>>]
=============================================================================
