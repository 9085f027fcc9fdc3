---------------------------- MODULE MCRedisScan ----------------------------
EXTENDS RedisScan, TLC

CONSTANTS c1, c2, k1, k2, m1, m2, f1

MCCallers == {c1, c2}
MCNames == {k1, k2}
MCMatching == {k1, k2}
MCMembers == {m1, m2}
\* Two matching keys in different buckets, so a Del needs two SCANs.
MCKeySlot == [k \in MCNames |-> IF k = k1 THEN 1 ELSE 2]
MCMemberSlot == [m \in MCMembers |-> IF m = m1 THEN 1 ELSE 2]
\* One field, in the last bucket the HSCAN loop reads.
MCFields == {f1}
MCFieldSlot == [f \in MCFields |-> 2]
=============================================================================
