---------------------- MODULE MCEnvironmentSupervisor ----------------------
(***************************************************************************)
(* Instances of EnvironmentSupervisor for TLC.  Routes are ranks: 1 is a   *)
(* LAN address, 2 the T3 Connect relay, 3 an SSH route.                    *)
(***************************************************************************)
EXTENDS EnvironmentSupervisor

MCNetworks == {"online", "offline"}
MCAllWakeups == {"application-active", "application-active-probe",
                 "application-active-reconnect", "credentials-changed", "network-changed"}
MCResumeWakeups == {"application-active-reconnect"}
=============================================================================
