------------------------------- MODULE MCBurst -------------------------------
(* Instances of Burst for TLC. *)
EXTENDS Burst, TLC

CONSTANTS m1, m2, b1, b2, a1, k1

\* Two memories that live one after the other at one address.
MCKey == m1 :> k1 @@ m2 :> k1
\* One burst, which the threads share.
MCAddress == b1 :> a1
\* Two bursts that live one after the other at one address.
MCSameAddress == b1 :> a1 @@ b2 :> a1
===============================================================================
