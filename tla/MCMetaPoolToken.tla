-------------------------- MODULE MCMetaPoolToken --------------------------
(* Two pools with different decimals, batches of either or both.           *)
EXTENDS MetaPoolToken

CONSTANTS dai, usdc

MCScale == [p \in Pools |-> IF p = dai THEN 2 ELSE 1]
MCBatches == [Pools -> {0, 1}]
MCTvlReadings == {0, 7}
MCPriceReadings == {[p \in Pools |-> IF p = dai THEN 3 ELSE 1],
                    [p \in Pools |-> IF p = dai THEN 0 ELSE 3]}
MCBalances == {0, 4}
MCPercentages == {5, 100}
=============================================================================
