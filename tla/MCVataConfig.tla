---------------------------- MODULE MCVataConfig ----------------------------
EXTENDS VataConfig

\* Three configurations that differ under rotation and in both words, the
\* last with a bit set that the chip does not have.
MCConfigs == {[b \in RegBits |-> IF b \in S THEN 1 ELSE 0] : S \in {{0}, {1, 2}, {1, 3}}}
=============================================================================
