----------------------------- MODULE MCHandshake -----------------------------
(***************************************************************************)
(* Three RouterInfos: i1 and i2 of routers made by this code, whose static *)
(* key is their identity's crypto key, and i3, which names the key of i1.  *)
(* Paddings are of the least and the greatest length, Bob's clock agrees   *)
(* with Alice's or is a second behind it, and time passes MaxLagDelta by   *)
(* MaxLagDelta.                                                            *)
(***************************************************************************)
EXTENDS Handshake

CONSTANTS i1, i2, i3, k1, k2

MCIdKey == [i \in Infos |-> IF i = i1 THEN k1 ELSE k2]

MCStaticKey == [i \in Infos |-> IF i = i2 THEN k2 ELSE k1]

Extremes == {MinPaddingSize, MaxPaddingSize}

OneSize == {MaxMsg3Pt2Size}

ClockSkews == {-1, 0}

OneDelay == {MaxLagDelta}
=============================================================================
