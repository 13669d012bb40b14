--------------------------- MODULE MCApprovalLoop ---------------------------
EXTENDS ApprovalLoop
=============================================================================
