-------------------------- MODULE MCSnapshotOutputs --------------------------
EXTENDS SnapshotOutputs
=============================================================================
