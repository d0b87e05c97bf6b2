--------------------------- MODULE MCCapitalCycle ---------------------------
EXTENDS CapitalCycle

CONSTANTS dai

MCScale == [p \in Pools |-> 1]
MCPrice == [p \in Pools |-> 1]
MCBatches == [Pools -> {0, 1}]
MCPercentages == {50}
MCReserves == {0, 2}
MCOverrides == {<<Tvl, 3, 1>>}

\* Two units of underlyer are worth 3: values of odd amounts are rounded.
RoundingScale == [p \in Pools |-> 2]
RoundingPrice == [p \in Pools |-> 3]
RoundingPercentages == {0, 100}
=============================================================================
