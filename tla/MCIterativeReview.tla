-------------------------- MODULE MCIterativeReview --------------------------
EXTENDS IterativeReview
=============================================================================
