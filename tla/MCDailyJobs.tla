---------------------------- MODULE MCDailyJobs ----------------------------
EXTENDS DailyJobs
=============================================================================
