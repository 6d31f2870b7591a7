---- MODULE MCControlLoop ----
\* One end says two things and its peer one.
EXTENDS ControlLoop
MCMaxSaid == [e \in End |-> IF e = "a" THEN 2 ELSE 1]
====
