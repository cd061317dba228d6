----------------------------- MODULE MCExternalSort -----------------------------
(* Instances of ExternalSort for TLC. *)
EXTENDS ExternalSort

Bits == {0, 1}

\* A full segment of eight records in any order, and four more in the next.
TwoSegments == {f \in [0..11 -> Bits] : /\ f[8] = 1 /\ f[9] = 0
                                        /\ f[10] = 1 /\ f[11] = 0}
AnyFour == [0..3 -> Bits]
===============================================================================
