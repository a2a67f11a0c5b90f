----------------------------- MODULE MCSlaClock -----------------------------
(* A day of three minutes, two ticks each; the first minute is worked, and   *)
(* the second on day 1, an exception.                                        *)
EXTENDS SlaClock

MCDuration == [t \in Targets |-> IF t = "RESPONSE" THEN 2 ELSE 1]
MCWarning == [t \in Targets |-> 1]
Working == [weekly |-> [d \in 0..6 |-> <<<<0, 2>>>>],
            exceptions |-> [d \in {1} |-> <<<<2, 4>>>>]]
MCCalendars == {Working}

\* Two intervals a day with a gap between them, none on day 2, another on day 1.
Split == [weekly |-> [d \in 0..6 |-> IF d = 2 THEN <<>> ELSE <<<<0, 2>>, <<4, 6>>>>],
          exceptions |-> [d \in {1} |-> <<<<2, 4>>>>]]

\* What SlaClockProofs proves of the arithmetic, evaluated for spans of up to six
\* minutes, which reach over several days, holidays among them.
ASSUME ArithmeticGrants ==
  \A calendar \in {Working, Split, AllHours} : \A start \in 0..14 :
    /\ \A minutes \in 0..6 : Grants(calendar, start, minutes)
    /\ \A end \in 0..50 : Measures(calendar, start, end)
=============================================================================
