-------------------------- MODULE MCFaultLifecycle --------------------------
(* FaultLifecycle for TLC: the sets of runs that the .cfg files choose.    *)
EXTENDS FaultLifecycle

AllFamilies == FaultFamilies \cup {"rejected"}
RemoteAsOnly == {"remote_as"}
=============================================================================
