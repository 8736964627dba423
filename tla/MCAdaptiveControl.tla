------------------------- MODULE MCAdaptiveControl -------------------------
(***************************************************************************)
(* The control loop for TLC: a sampler of traces and one of logs with the  *)
(* registry IDs of the code, and the controller's default factors.         *)
(***************************************************************************)
EXTENDS AdaptiveControl, TLC

CONSTANTS traces, logs, idTraces, idLogs, idDefault

MCSamplers == {traces, logs}
MCIDs == {idTraces, idLogs, idDefault}
DefaultIDs == traces :> idTraces @@ logs :> idLogs

Up == <<5, 4>>
Down == <<4, 5>>
Drop == <<1, 2>>
Alpha == <<3, 10>>
=============================================================================
