----------------------------- MODULE MCSessions -----------------------------
(* Small instances of Sessions for TLC.                                    *)
EXTENDS Sessions, TLC

CONSTANTS r1, r2, r3, ann, bob

MCUsers == {ann, bob}

(* bob is not registered yet.                                              *)
OneAdmin == ann :> "admin" @@ bob :> "none"

Symmetry == Permutations(Requests)
=============================================================================
