---------------------------- MODULE MCEvaluation ----------------------------
EXTENDS Evaluation
=============================================================================
