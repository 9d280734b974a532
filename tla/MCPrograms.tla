------------------------------ MODULE MCPrograms ------------------------------
(* Four programs that share no state, for one run of TLC: the starts and   *)
(* ends of the notification daemon, the PTZ service, the discovery and the *)
(* source of the RTSP server.  Each behaviour is about one of them, and    *)
(* the others stay as they are.                                            *)
EXTENDS NotifyDaemon, PtzService, WsDiscovery, VideoSource, TLC

CONSTANTS plain, comma   (* two names, of which the second has a comma      *)

CutNames == plain :> plain @@ comma :> plain

VARIABLE program         (* the one a behaviour is about                    *)

programVars == <<program, vars, ptzVars, wsdVars, videoVars>>

ProgramsInit ==
  /\ program \in {"notify", "ptz", "wsd", "video"}
  /\ Init /\ PtzInit /\ WsdInit /\ VideoInit

ProgramsNext ==
  /\ UNCHANGED program
  /\ \/ /\ program = "notify" /\ Next
        /\ UNCHANGED <<ptzVars, wsdVars, videoVars>>
     \/ /\ program = "ptz" /\ PtzNext
        /\ UNCHANGED <<vars, wsdVars, videoVars>>
     \/ /\ program = "wsd" /\ WsdNext
        /\ UNCHANGED <<vars, ptzVars, videoVars>>
     \/ /\ program = "video" /\ VideoNext
        /\ UNCHANGED <<vars, ptzVars, wsdVars>>

(* BusySpec, WsdFairness and VideoFairness, each of the program that the   *)
(* behaviour is about.                                                     *)
ProgramsFairness ==
  /\ \A i \in Instances : WF_vars(program = "notify" /\ Step(i))
  /\ WF_vars(program = "notify" /\ FilesChange)
  /\ WF_wsdVars(program = "wsd" /\ MainStep)
  /\ WF_wsdVars(program = "wsd" /\ HandlerStep)
  /\ \A s \in Signals : WF_wsdVars(program = "wsd" /\ Deliver(s))
  /\ WF_videoVars(program = "video" /\ LoopStep)
  /\ WF_videoVars(program = "video" /\ CaptureStep)

ProgramsSpec == ProgramsInit /\ [][ProgramsNext]_programVars /\ ProgramsFairness

(* Every variable of the four has its type. *)
ProgramsTypeOK == TypeOK /\ PtzTypeOK /\ WsdTypeOK /\ VideoTypeOK

===============================================================================
