---------------------------- MODULE MCDetection -----------------------------
(* Small instances of Detection. *)
EXTENDS Detection, TLC

CONSTANTS e1, e2, e3, e4, d1, d2, c1, c2, l1

ThreeEvents == {e1, e2, e3}
FourEvents  == {e1, e2, e3, e4}
MCWorkers   == Threads \cup {Engine}

\* Burst is all of Events or none of them here, so events are interchangeable, and
\* so are drains and clients.
Interchangeable == Permutations(Events) \cup Permutations(Drains) \cup Permutations(Clients)
=============================================================================
