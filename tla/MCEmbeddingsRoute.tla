-------------------------- MODULE MCEmbeddingsRoute --------------------------
(* Constants for checking EmbeddingsRoute with TLC.                         *)
EXTENDS EmbeddingsRoute

CONSTANTS alice, root, i1, i2, i3, small, large

TwoClients == {alice, root}
FourRequests == 1..4
Askers == <<alice, alice, alice, root>>
Inputs == <<<<i1, i2>>, <<i3>>, <<>>, <<>>>>
ThreeItems == {i1, i2, i3}
Models == [i \in ThreeItems |-> IF i = i1 THEN large ELSE small]
=============================================================================
