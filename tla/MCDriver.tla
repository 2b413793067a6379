------------------------------- MODULE MCDriver ------------------------------
(* Small instances of DriverLifecycle for TLC.                              *)
EXTENDS DriverLifecycle, TLC

CONSTANTS j1, j2, v1, v2

OneJob  == {j1}
TwoJobs == {j1, j2}
TwoVMs  == {v1, v2}

VmSymmetry == Permutations(VMs)

(* Job 11 of project 1 and job 1 of project 11, in slot 0 of two runners.   *)
Projects == [j \in Jobs |-> IF j = j1 THEN <<"1">> ELSE <<"1", "1">>]
JobIds   == [j \in Jobs |-> IF j = j1 THEN <<"1", "1">> ELSE <<"1">>]
OneSlot  == [j \in Jobs |-> <<"0">>]

(* Two jobs of one runner that does not pass their numbers on.              *)
NoNumber == [j \in Jobs |-> <<>>]
OwnSlot  == [j \in Jobs |-> IF j = j1 THEN <<"0">> ELSE <<"1">>]

SafeChars == {"0", "1", "j", "o", "b", "-", "_"}

=============================================================================
