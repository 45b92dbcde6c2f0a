----------------------------- MODULE MCScanPool -----------------------------
\* Three goroutines and four candidates.
EXTENDS ScanPool
=============================================================================
