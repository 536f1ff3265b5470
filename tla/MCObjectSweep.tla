--------------------------- MODULE MCObjectSweep ---------------------------
(***************************************************************************)
(* The sweep over the store and the log, for TLC, with its properties.     *)
(***************************************************************************)
EXTENDS ObjectSweep, TLC

CONSTANTS a, b

MCBytes == [o \in Objects |-> 1]
SweepOperations == {"put", "release", "verify"}
NoBundles == {}
Symmetry == Permutations(Objects)

-----------------------------------------------------------------------------
\* After any crash the log is complete or ends in a tail that a repair may
\* cut off (the table of crash evidence of
\* docs/CONTINUATION_OBJECT_SWEEP_WRITER.md).
CrashEvidenceReopens ==
    \A s \in CrashStreams : classify_recovery(s) # "corrupt_record"
=============================================================================
