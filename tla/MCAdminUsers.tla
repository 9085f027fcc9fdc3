--------------------------- MODULE MCAdminUsers ---------------------------
EXTENDS AdminUsers, TLC

CONSTANTS e1, r1, r2, r3, c1, c2

MCEmails == {e1}
MCRequests == {r1, r2, r3}
MCCodes == {c1, c2}
MCVTypes == {"signup", "other"}
MCUserStatuses == {"inactive", "active"}

MCSymmetry == Permutations(MCRequests) \cup Permutations(MCCodes)
=============================================================================
