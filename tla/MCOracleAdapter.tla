-------------------------- MODULE MCOracleAdapter --------------------------
(* The TVL and one asset over two aggregators; blocks of one or two seconds *)
(* and locks, overrides and stale periods of at most two blocks.            *)
EXTENDS OracleAdapter

CONSTANTS dai, chainlink, backup

MCLockPeriods == {0, 1, 2}
MCSubmissions == {<<Tvl, 0, 2>>, <<dai, 1, 1>>}
MCRewirings == {[f \in {dai} |-> backup], [f \in {Tvl} |-> chainlink]}
MCStalePeriods == {0, 1}
MCAnswers == {-1, 2}
=============================================================================
