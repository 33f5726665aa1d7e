---------------------------- MODULE MCDashboard ----------------------------
(* Instances of Dashboard for TLC: the times keep the order of the real    *)
(* ones (ten minutes, an hour, a day, seven days) and cut every bucket.    *)
EXTENDS Dashboard

OneName  == {1}
TwoNames == {1, 2}

Warm   == {1, 2}     \* readings above zero
Frosty == {-2, -1}   \* readings below zero
=============================================================================
