----------------------------- MODULE MCElevRequest -----------------------------
(* Small instances of ElevRequest: a call that may prompt and one that may    *)
(* not, with timeouts of 15 s (one tick) or 45 s (three ticks).               *)
EXTENDS ElevRequest

CONSTANTS c1, c2, c3

TwoCalls   == {c1, c2}
ThreeCalls == {c1, c2, c3}
Silent     == {c2}
Mixed      == [c \in {c1, c2} |-> IF c = c1 THEN 3 ELSE 1]
Short      == [c \in {c1, c2, c3} |-> 1]
ShortTwo   == [c \in {c1, c2} |-> 1]
SomePipe   == {"ok", "down"}
LostPipe   == {"lost"}
NoPipe     == {"down"}
GoodOrNot  == {"good", "wrong"}
GoodTask   == {"good"}
NoTask     == {"missing"}
=============================================================================
