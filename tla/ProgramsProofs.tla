---------------------------- MODULE ProgramsProofs ----------------------------
(***************************************************************************)
(* The programs of MCPrograms do not disturb each other: what has been     *)
(* proved of each alone holds in every behaviour of the four together,     *)
(* for any numbers of instances, requests, messages and frames.            *)
(***************************************************************************)
EXTENDS MCPrograms, NotifyDaemonProofs, PtzServiceProofs, WsDiscoveryProofs,
        VideoSourceProofs

(* A step of any of them is a step of the one it is of, and for the others *)
(* it is none.                                                             *)
LEMMA StepOfOne ==
  [ProgramsNext]_programVars =>
    /\ [Next]_vars /\ [PtzNext]_ptzVars
    /\ [WsdNext]_wsdVars /\ [VideoNext]_videoVars
BY DEF ProgramsNext, programVars

LEMMA StartOfAll == ProgramsInit => Init /\ PtzInit /\ WsdInit /\ VideoInit
BY DEF ProgramsInit

(* The four together implement each: the notification daemon, the PTZ      *)
(* service, the discovery and the source of the RTSP server.               *)
THEOREM ProgramsAreIndependent ==
  ProgramsSpec => Spec /\ PtzSpec /\ WsdSpec /\ VideoSpec
BY StepOfOne, StartOfAll, PTL DEF ProgramsSpec, Spec, PtzSpec, WsdSpec, VideoSpec

(* Every variable of the four programs keeps its type. *)
THEOREM ProgramsTypesHold == ProgramsSpec => []ProgramsTypeOK
<1>1. TypeOK /\ PtzTypeOK /\ WsdTypeOK /\ VideoTypeOK => ProgramsTypeOK
  BY DEF ProgramsTypeOK
<1> QED BY <1>1, ProgramsAreIndependent, TypeCorrect, PtzTypesHold, WsdTypesHold,
           VideoTypesHold, PTL

(* What the four promise, of all of them at once: who starts the daemon    *)
(* and ends it leaves its segment and its pid file right, a PTZ request    *)
(* is answered by what it did, the discovery numbers, addresses and ends   *)
(* its messages as it should, and the source hands out frames in order to  *)
(* a source that is open, with one thread at its queue.                    *)
ProgramsSafe ==
  /\ OneServes /\ ServerHasSegment /\ PidFileNamesServer /\ CleanEnd
  /\ NamesAreUnique /\ TokenIsOwn /\ FaultMeansNothingDone
  /\ GotoReachesChecked /\ NamelessIsNew
  /\ NumbersIncrease /\ ByeIsFinal /\ RightAddressee
  /\ QueueExclusive /\ FramesInOrder /\ CallbackSourceIsOpen
  /\ TriggerFindsNobody

THEOREM ProgramsAreSafe == ProgramsSpec => []ProgramsSafe
<1>1. Spec => [](OneServes /\ ServerHasSegment /\ PidFileNamesServer /\ CleanEnd)
  BY NeverTwo, ServerIsFound, PidFileIsRight, NothingLeftBehind, PTL
<1>2. PtzSpec => [](/\ NamesAreUnique /\ TokenIsOwn /\ FaultMeansNothingDone
                    /\ GotoReachesChecked /\ NamelessIsNew)
  BY NamesStayUnique, TokensAreOwn, FaultsAreHarmless, GotoIsRight,
     MadeUpNamesAreNew, PTL
<1>3. WsdSpec => [](NumbersIncrease /\ ByeIsFinal /\ RightAddressee)
  BY NumbersAreNew, NothingAfterBye, AnswersFindSender, PTL
<1>4. VideoSpec => [](/\ QueueExclusive /\ FramesInOrder
                      /\ CallbackSourceIsOpen /\ TriggerFindsNobody)
  BY OneAtTheQueue, FramesStayInOrder, CallbackHasSource, TriggerIsVain, PTL
<1> QED BY <1>1, <1>2, <1>3, <1>4, ProgramsAreIndependent, PTL DEF ProgramsSafe

===============================================================================
