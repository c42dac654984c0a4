------------------------------ MODULE MCUploads ------------------------------
EXTENDS Uploads, TLC

\* The sessions are of one account, and its quota takes one file.
OneAccount == [s \in Sessions |-> "ann"]
Sizes == [f \in Files |-> 2]

FilingSymmetry == Permutations(Sessions) \cup Permutations(Names)
=============================================================================
