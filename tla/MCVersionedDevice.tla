-------------------------- MODULE MCVersionedDevice --------------------------
(* Instances of VersionedDevice for TLC. *)
EXTENDS VersionedDevice, TLC

CONSTANTS t1, t2

\* Each kind of call meets each other one.
MCCalls == t1 :> {<<"fromCache">>, <<"execute">>, <<"allocate">>}
           @@ t2 :> {<<"prepare">>, <<"execute">>, <<"executeSynchronously">>, <<"wait">>}
===============================================================================
