---------------------------- MODULE MCLpAccount ----------------------------
(* A pool of dai and frax at Curve with crv as its reward, whose zap lists    *)
(* what CurveZapBase lists; the zap that moves its gauge tokens to Convex and *)
(* lists nothing; a swap of crv; the 3pool exchanges dai and usdt, which      *)
(* nobody lists.                                                              *)
EXTENDS LpAccount

CONSTANTS dai, usdt, frax, crv, gauge, stake, curveZap, migrationZap, crvToDai,
          curveAllocation, curveName, migrationName, swapName

MCNameOf == [c \in {curveZap, migrationZap, crvToDai, curveAllocation, Erc20Allocation} |->
               CASE c \in {curveZap, curveAllocation} -> curveName
                 [] c = migrationZap -> migrationName
                 [] c = crvToDai -> swapName
                 [] OTHER -> Erc20Name]
MCCounted == [a \in {curveAllocation} |-> <<gauge, gauge>>]
MCAssetAllocations == [z \in ZapContracts |-> IF z = curveZap THEN {curveName} ELSE {}]
MCErc20s == [c \in {curveZap, migrationZap, crvToDai} |->
               CASE c = curveZap -> {crv, dai, frax}
                 [] c = migrationZap -> {}
                 [] OTHER -> {crv, dai}]
MCCoins == [z \in {curveZap} |-> {dai, frax}]
MCReceipt == [z \in {curveZap} |-> gauge]
MCUnwinds == [z \in ZapContracts |-> IF z = curveZap THEN {gauge} \X {dai, frax}
                                     ELSE {<<gauge, stake>>}]
MCRewards == [z \in {curveZap} |-> {crv}]
MCSwapFrom == [s \in {crvToDai} |-> crv]
MCSwapTo == [s \in {crvToDai} |-> dai]
MCMaxHeld == [t \in Tokens |-> 1]
=============================================================================
