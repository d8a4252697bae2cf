----------------------------- MODULE MCCalPulse -----------------------------
EXTENDS CalPulse

\* Ordinary settings, a delay as long as the pulse, and the limits: width 0,
\* wait 0, delay 0 (the library's default).
MCSettings == {
  [cal |-> TRUE, trig |-> TRUE, width |-> 3, delay |-> 1, wait |-> 2],
  [cal |-> TRUE, trig |-> TRUE, width |-> 2, delay |-> 2, wait |-> 1],
  [cal |-> FALSE, trig |-> TRUE, width |-> 0, delay |-> 0, wait |-> 0]}
=============================================================================
