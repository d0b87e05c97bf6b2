------------------------- MODULE MCNamedAddressSet -------------------------
(* Six contracts of four names, one of them without a name, so that an old   *)
(* and a new version of a strategy compete for one.                          *)
EXTENDS NamedAddressSet

CONSTANTS curve, curveV2, convex, aave, idle, unnamed, n1, n2, n3, n4

MCNameOf == [a \in Contracts |->
               CASE a \in {curve, curveV2} -> n1
                 [] a = convex -> n2
                 [] a = aave -> n3
                 [] a = idle -> n4
                 [] OTHER -> Empty]
=============================================================================
