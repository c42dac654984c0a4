--------------------------- MODULE MCLegacyStaging ---------------------------
EXTENDS LegacyStaging, TLC

\* A file of known length, and one whose sender does not say.
MCOffers == {[length |-> 2, mtime |-> 1], [length |-> None, mtime |-> 1]}

ClaimSymmetry == Permutations(Claims)
=============================================================================
