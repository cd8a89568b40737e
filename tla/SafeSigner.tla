------------------------------ MODULE SafeSigner ------------------------------
(***************************************************************************)
(* What signing protection promises: a signature is released only when it  *)
(* conflicts with none released before.  FFG assumes of every honest voter *)
(* what this module says of votes.                                         *)
(***************************************************************************)
CONSTANTS Messages, Conflict(_, _)

VARIABLE signed

Init == signed = {}

Release(m) ==
    /\ \A n \in signed : ~Conflict(m, n)
    /\ signed' = signed \cup {m}

Next == \E m \in Messages : Release(m)

Spec == Init /\ [][Next]_signed
=============================================================================
