--------------------------- MODULE MCPushDelivery ----------------------------
(* Instances of PushDelivery: phones, claims and codes are interchangeable.    *)
EXTENDS PushDelivery, TLC
Symmetry == Permutations(Phone) \cup Permutations(Claim) \cup Permutations(Code)
=============================================================================
