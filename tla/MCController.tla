---------------------------- MODULE MCController ----------------------------
(* Instances of Controller for TLC: two devices, two or three polled codes   *)
(* and one that is not polled, and one or two of each fault.                 *)
EXTENDS Controller

Cooler2 == <<"vol", "cur">>
CoolerFunc == {"vol", "cur", "set"}
Vacuum3 == <<"cur", "pres", "vol">>
VacuumFunc == {"cur", "pres", "vol", "set"}

InTimeOnly == {}
UploadOutlasts == {"report"}

NoFaults == [k \in Fault |-> 0]
OneLost == [NoFaults EXCEPT !["lost"] = 1]
Lossy == [NoFaults EXCEPT !["lost"] = 1, !["garbled"] = 1, !["closed"] = 1,
                          !["write"] = 2, !["stop"] = 1]
Noisy == [NoFaults EXCEPT !["extra"] = 1, !["spurious"] = 1, !["stop"] = 1]
=============================================================================
