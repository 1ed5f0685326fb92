----------------------------- MODULE MCApiKeys -----------------------------
(* Small instances of ApiKeys for TLC. *)
EXTENDS ApiKeys, TLC

MCTitle == {"", "a"}
MCHours == {-1, 0, 1}
MCDelta == {-1, 1}
MCLimit == {0, 1}

MCSymmetry == Permutations(Worker) \cup Permutations(Request)
=============================================================================
