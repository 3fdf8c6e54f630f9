---------------------------- MODULE MCAdmission ----------------------------
(* Two keys of two Kaggle users, of which one is installed at first; a     *)
(* token for each key and one for all, and the management key.  Token t3   *)
(* cannot be added before its key.                                         *)
EXTENDS Admission, TLC

CONSTANTS k1, k2, u1, u2, t1, t2, t3

MCAllowed == [t \in Tokens |-> IF t = t3 THEN {k2} ELSE {k1}]
MCFirst == [keys |-> {k1}, enabled |-> {k1}, user |-> [k \in Keys |-> u1],
            tokens |-> {t1}, retired |-> {}]
RequestSymmetry == Permutations(Requests)
=============================================================================
