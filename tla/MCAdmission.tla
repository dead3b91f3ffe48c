----------------------------- MODULE MCAdmission -----------------------------
(* Model-checking instance of Admission: one address, two sockets. *)
EXTENDS Admission, TLC

CONSTANT TheIp

OneAddress == [s \in Sockets |-> TheIp]

Rates == [k \in Kinds |-> IF k = "ip" THEN 1 ELSE 2]

SocketSymmetry == Permutations(Sockets)
=============================================================================
