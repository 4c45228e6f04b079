------------------------------ MODULE MCScheduler ------------------------------
EXTENDS Scheduler, TLC

CONSTANTS s1, s2, s3

ThreeSongs == {s1, s2, s3}
=============================================================================
