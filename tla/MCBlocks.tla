------------------------------- MODULE MCBlocks -------------------------------
(***************************************************************************)
(* Blocks for TLC: a few blocks of each kind that differs in what it does  *)
(* to a message, one of them too large to serialize.                       *)
(***************************************************************************)
EXTENDS Blocks

Some(type, size) == [type |-> type, size |-> size, held |-> size]

SomeOffers ==
  {Some("DateTime", 4), Some("I2NP", 29), Some("I2NP", 65516), Some("Info", 40000),
   Some("Termination", 9), Some("Padding", 0), Some("Padding", 17)}

\* Three bytes fewer than 29 or sixteen more, between the two more than there is
\* room for, and more than sixteen bits hold.
SomeResizes == [type \in Types |-> IF type = "I2NP" THEN {26, 45, 65545} ELSE {}]

=============================================================================
