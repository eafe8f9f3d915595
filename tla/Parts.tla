------------------------------- MODULE Parts -------------------------------
(***************************************************************************)
(* The parts of the program that share no state with each other: uploads,  *)
(* the log, the correction of the clock, the text protocol, the clocks of  *)
(* a controller and the life of the daemon. A behaviour is one of one      *)
(* part, the others standing at their beginning; what holds of each part   *)
(* alone holds of all together.                                            *)
(***************************************************************************)
EXTENDS Upload, GLog, NTPClient, AsciiProtocol, Heartbeat, Service

VARIABLE part  \* the one that runs

partVars == <<part, uploadVars, logVars, clockVars, textVars, beatVars, vars>>

\* The parts that stand still have one initial state.
PartsInit ==
  /\ part \in {"upload", "log", "clock", "text", "beat", "service"}
  /\ UploadInit /\ LogInit /\ ClockInit /\ TextInit /\ BeatInit /\ Init
  /\ part # "upload" => urls = [c \in Caller |-> Urls]
  /\ part # "log" => today = 0
  /\ part # "clock" => err = (CHOOSE e \in Errors : TRUE) /\ autoSync
  /\ part # "service" => xml = Missing

PartsNext ==
  /\ UNCHANGED part
  /\ \/ /\ part = "upload" /\ UploadNext
        /\ UNCHANGED <<logVars, clockVars, textVars, beatVars, vars>>
     \/ /\ part = "log" /\ LogNext
        /\ UNCHANGED <<uploadVars, clockVars, textVars, beatVars, vars>>
     \/ /\ part = "clock" /\ ClockNext
        /\ UNCHANGED <<uploadVars, logVars, textVars, beatVars, vars>>
     \/ /\ part = "text" /\ TextNext
        /\ UNCHANGED <<uploadVars, logVars, clockVars, beatVars, vars>>
     \/ /\ part = "beat" /\ BeatNext
        /\ UNCHANGED <<uploadVars, logVars, clockVars, textVars, vars>>
     \/ /\ part = "service" /\ Next
        /\ UNCHANGED <<uploadVars, logVars, clockVars, textVars, beatVars>>

\* Fairness is that of Heartbeat and Service.
PartsSpec ==
  /\ PartsInit /\ [][PartsNext]_partVars
  /\ WF_beatVars(part = "beat" /\ (Poll \/ Answer \/ Miss \/ Heartbeat \/ Tick))
  /\ \A p \in Proc : WF_vars(part = "service" /\ Step(p))
=============================================================================
