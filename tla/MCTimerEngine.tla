--------------------------- MODULE MCTimerEngine ---------------------------
(* Instances of TimerEngine for TLC.                                       *)
EXTENDS TimerEngine, TLC

CONSTANTS t1, t2, h1, h2

OnceAt(d, e)     == [types |-> "timer", enabled |-> e, kind |-> "once", date |-> d]
Every(k, d, e)   == [types |-> "timer", enabled |-> e, kind |-> k, date |-> d]
Unreadable       == [types |-> "timer", enabled |-> TRUE, kind |-> "bad", date |-> 0]
Web              == [types |-> "other", enabled |-> TRUE, kind |-> "bad", date |-> 0]

OneTrig   == {t1}
TwoTrigs  == {t1, t2}
OneHandler  == {h1}
TwoHandlers == {h1, h2}

\* Two periods, neither of which divides the other.
TwoPeriods == {"hour", "day"}
Units == ("hour" :> 2) @@ ("day" :> 3)

\* Everything that can be saved for one trigger.
AnyRow == [t \in OneTrig |->
  {OnceAt(2, TRUE), Every("day", 1, TRUE), Every("hour", 0, FALSE), Unreadable, Web}]

\* One trigger with a date, one with a period.
CalmRows == (t1 :> {OnceAt(2, TRUE), OnceAt(3, FALSE)})
         @@ (t2 :> {Every("day", 1, TRUE), Every("hour", 0, TRUE), Every("day", 2, FALSE)})
=============================================================================
