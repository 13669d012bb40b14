--------------------------- MODULE MCChallengeFlow ---------------------------
EXTENDS ChallengeFlow
=============================================================================
