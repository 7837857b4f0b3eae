------------------------------- MODULE MCDesk -------------------------------
EXTENDS Desk, TLC

CONSTANTS s1, s2, b1, b2, m1, m2

MCSessions == {s1, s2}
MCBefore == [s \in Sessions |-> IF s = s1 THEN <<b1>> ELSE <<b2>>]
MCMessages == {m1, m2}
MCOneMessage == {m1}
MCSymmetry == Permutations(MCMessages)
MCSteady == {"escape", "interrupt", "switch"}
MCHurry == {"hurry"}
=============================================================================
