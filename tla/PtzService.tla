------------------------------ MODULE PtzService ------------------------------
(***************************************************************************)
(* The PTZ service (src/Cross/ptz_service.c).  Every request is a CGI      *)
(* process of its own, several at a time, and keeps nothing: the presets   *)
(* and the motor belong to the programs that the configuration file names  *)
(* (get_presets, set_preset, remove_preset, move_preset, ...), which are   *)
(* external and modelled from how the service uses them.  Nothing keeps a  *)
(* request that reads the presets, decides and then calls a program apart  *)
(* from the others.                                                        *)
(***************************************************************************)
EXTENDS Naturals, Sequences, SequencesExt

CONSTANTS
  Cgi,          (* the processes that serve requests at the same time       *)
  Names,        (* preset names clients ask for                             *)
  Cut,          (* what remains of a name when its commas become spaces     *)
  MaxPresets,   (* presets the camera can hold                              *)
  Moves,        (* those of the programs below that are configured          *)
  MaxRequests,  (* bound: requests served                                   *)
  MaxUnread     (* bound: lists of presets that cannot be read              *)

CONSTANT Nothing (* neither a process nor a name nor a preset              *)

(* move_right, move_left, move_up and move_down, and three that are called *)
(* without anything else.                                                  *)
Directions == {"right", "left", "up", "down"}
Commands == {"move_stop", "goto_home_position", "set_home_position"}

ASSUME PtzAssumption ==
  /\ Nothing \notin Cgi
  /\ Cut \in [Names -> Names]
  /\ MaxPresets \in Nat \ {0}
  /\ Moves \subseteq Directions \cup Commands
  /\ MaxRequests \in Nat /\ MaxUnread \in Nat

Numbers == 0..(MaxPresets - 1)

VARIABLES
  presets,   (* external: the presets, in the order get_presets lists them  *)
  job,       (* per process: the name set_preset is about to store          *)
  req,       (* per process: the request it serves                          *)
  answer,    (* what the last step has answered to a client, if anything    *)
  served,    (* requests so far                                             *)
  unread,    (* lists that could not be read so far                         *)
  doubtful,  (* ghost: names that two SetPresets had in hand at a time, or  *)
             (* that one looked for in a list it could not read             *)
  odd        (* ghost: a preset was removed, or a client asked for a name   *)
             (* that the service would have made up itself                  *)

ghosts == <<doubtful, odd>>
ptzVars == <<presets, job, req, answer, served, unread, ghosts>>

(* Mutant: the name of the last preset. *)
DefaultLast(count) == <<"PRESET", IF count = 0 THEN 0 ELSE count - 1>>

(* The name of a preset that was given none: PRESET_<count>. *)
Default(count) == <<"PRESET", count>>
AllNames == Names \cup {Default(n) : n \in 0..MaxPresets}

(* A client may ask for such a name, too. *)
Asked == Names \cup {Default(n) : n \in Numbers}

ASSUME DefaultAssumption == \A n \in 0..MaxPresets : Default(n) \notin Names

Presets == [number : Numbers, name : AllNames, by : Cgi]

(* What x or y of a move may be. *)
Coordinate == {"absent", "nan", "below", "in", "above"}

(* found: the preset the request settled on; reached: where move_preset    *)
(* led.  Ghosts: done, what the request has changed so far; met, what came *)
(* in between: the removal of its preset, a list that it could not read.   *)
NoRequest == [at |-> "idle", name |-> Nothing, found |-> Nothing, done |-> {},
              met |-> {}]
NoAnswer == [by |-> Nothing, to |-> "none", ret |-> "ok", req |-> NoRequest,
             given |-> TRUE, reached |-> Nothing]

Request == [at : {"idle", "store", "sleep", "move"},
            name : AllNames \cup {Nothing}, found : Presets \cup {Nothing},
            done : SUBSET {"stored", "turned", "panned", "jumped", "ran"},
            met : SUBSET {"removal", "unread"}]

PtzTypeOK ==
  /\ presets \in Seq(Presets) /\ Len(presets) <= MaxPresets
  /\ job \in [Cgi -> AllNames \cup {Nothing}]
  /\ req \in [Cgi -> Request]
  /\ answer \in
       [by : Cgi \cup {Nothing},
        to : {"none", "set", "goto", "remove", "continuous", "jump", "command"},
        ret : {"ok", "NoToken", "PresetExist", "TooManyPresets",
               "ActionFailed", "OutOfBounds"},
        req : Request, given : BOOLEAN, reached : Presets \cup {Nothing}]
  /\ served \in 0..MaxRequests
  /\ unread \in 0..MaxUnread
  /\ doubtful \subseteq AllNames
  /\ odd \in BOOLEAN

PtzInit ==
  /\ presets = <<>>
  /\ job = [c \in Cgi |-> Nothing]
  /\ req = [c \in Cgi |-> NoRequest]
  /\ answer = NoAnswer
  /\ served = 0
  /\ unread = 0
  /\ doubtful = {}
  /\ odd = FALSE

Begin(c) == req[c].at = "idle" /\ served < MaxRequests /\ served' = served + 1

(* The end of a request, with what it has been up to. *)
Reply(c, to, ret, r) ==
  /\ answer' = [NoAnswer EXCEPT !.by = c, !.to = to, !.ret = ret, !.req = r]
  /\ req' = [req EXCEPT ![c] = NoRequest]

(* A request that goes on. *)
Continue(c, r) == req' = [req EXCEPT ![c] = r] /\ answer' = NoAnswer

-------------------------------------------------------------------------------
(* Presets. *)

(* init_presets: the lines "number=name,pan,tilt" of get_presets are read  *)
(* with spaces for the commas, so that not all of a name may be left.      *)
(* Names are compared without regard to case: Names has one of each.       *)
Listed(name) == IF name \in Names THEN Cut[name] ELSE name

(* Mutant: the first preset of the list is passed over. *)
PresetsWithFrom1(name, list) ==
  {i \in DOMAIN list : i > 1 /\ Listed(list[i].name) = name}

PresetsWith(name, list) == {i \in DOMAIN list : Listed(list[i].name) = name}
PresetsNumbered(n, list) == {i \in DOMAIN list : list[i].number = n}

(* The list, or none when the program could not be run: nobody looks at    *)
(* what init_presets returns.                                              *)
InitPresets(list) ==
  \/ list = presets /\ UNCHANGED unread
  \/ list = <<>> /\ unread < MaxUnread /\ unread' = unread + 1

Unreadable == IF unread' = unread THEN {} ELSE {"unread"}

(* ptz_set_preset up to the call of set_preset: a name that is listed is   *)
(* refused.                                                                *)
SetPresetCheck(c) ==
  /\ Begin(c)
  /\ \E list \in {presets, <<>>}, name \in AllNames, given \in BOOLEAN :
       LET r == [NoRequest EXCEPT !.name = name]
       IN /\ InitPresets(list)
          /\ IF given THEN name \in Asked ELSE name = Default(Len(list))
          /\ \/ /\ PresetsWith(name, list) # {}
                /\ answer' = [NoAnswer EXCEPT !.by = c, !.to = "set",
                                 !.ret = "PresetExist", !.req = r,
                                 !.given = given]
                /\ UNCHANGED <<req, ghosts>>
             \/ /\ PresetsWith(name, list) = {}
                /\ Continue(c, [r EXCEPT !.at = "store", !.met = Unreadable])
                /\ doubtful' = IF \/ \E d \in Cgi : req[d].name = name
                                  \/ Unreadable # {}
                                 THEN doubtful \cup {name} ELSE doubtful
                /\ odd' = (odd \/ (given /\ name \notin Names))
  /\ UNCHANGED <<presets, job>>

(* system(set_preset) *)
SetPresetStore(c) ==
  /\ req[c].at = "store"
  /\ job' = [job EXCEPT ![c] = req[c].name]
  /\ Continue(c, [req[c] EXCEPT !.at = "sleep"])
  /\ UNCHANGED <<presets, served, unread, ghosts>>

(* External: some time before sleep(1) is over the preset is stored under  *)
(* a number that is free, if there is one.                                 *)
Store(c) ==
  /\ job[c] # Nothing
  /\ job' = [job EXCEPT ![c] = Nothing]
  /\ IF Len(presets) = MaxPresets
       THEN UNCHANGED presets /\ Continue(c, req[c])
       ELSE /\ \E n \in Numbers :
                 /\ PresetsNumbered(n, presets) = {}
                 /\ presets' = Append(presets, [number |-> n, name |-> job[c],
                                              by |-> c])
            /\ Continue(c, [req[c] EXCEPT !.done = {"stored"}])
  /\ UNCHANGED <<served, unread, ghosts>>

(* Mutant: the last preset of the list is taken for the new one, whatever  *)
(* its name.                                                               *)
SetPresetAnswerLast(c) ==
  /\ req[c].at = "sleep" /\ job[c] = Nothing
  /\ IF presets = <<>>
       THEN Reply(c, "set", "TooManyPresets", req[c])
       ELSE Reply(c, "set", "ok", [req[c] EXCEPT !.found = Last(presets)])
  /\ UNCHANGED <<presets, job, served, unread, ghosts>>

(* The presets are read again, and the first of that name must be the new  *)
(* one.                                                                    *)
SetPresetAnswer(c) ==
  /\ req[c].at = "sleep" /\ job[c] = Nothing
  /\ \E list \in {presets, <<>>} :
       LET same == PresetsWith(req[c].name, list)
       IN /\ InitPresets(list)
          /\ \/ /\ same = {}
                /\ Reply(c, "set", "TooManyPresets",
                         [req[c] EXCEPT !.met = @ \cup Unreadable])
             \/ \E i \in same :
                  /\ \A j \in same : i <= j
                  /\ Reply(c, "set", "ok", [req[c] EXCEPT !.found = list[i]])
  /\ UNCHANGED <<presets, job, served, ghosts>>

(* Mutant: the token is taken for an index. *)
GotoPresetIndex(c) ==
  /\ Begin(c)
  /\ \E n \in Numbers :
       IF n >= Len(presets)
         THEN Reply(c, "goto", "NoToken", NoRequest)
         ELSE Continue(c, [NoRequest EXCEPT !.at = "move",
                             !.found = [presets[n + 1] EXCEPT !.number = n]])
  /\ UNCHANGED <<presets, job, unread, ghosts>>

(* ptz_goto_preset looks for the number of the token in the list ... *)
GotoPresetCheck(c) ==
  /\ Begin(c)
  /\ \E n \in Numbers, list \in {presets, <<>>} :
       /\ InitPresets(list)
       /\ \/ /\ PresetsNumbered(n, list) = {}
             /\ Reply(c, "goto", "NoToken", NoRequest)
          \/ \E i \in PresetsNumbered(n, list) :
               Continue(c, [NoRequest EXCEPT !.at = "move", !.found = list[i]])
  /\ UNCHANGED <<presets, job, ghosts>>

(* ... and hands it to move_preset: external, the camera turns to what is  *)
(* stored under that number now, if anything.                              *)
GotoPresetMove(c) ==
  LET at == PresetsNumbered(req[c].found.number, presets)
      reached == IF at = {} THEN Nothing ELSE presets[CHOOSE i \in at : TRUE]
  IN /\ req[c].at = "move"
     /\ answer' = [NoAnswer EXCEPT !.by = c, !.to = "goto", !.req = req[c],
                                   !.reached = reached]
     /\ req' = [req EXCEPT ![c] = NoRequest]
     /\ UNCHANGED <<presets, job, served, unread, ghosts>>

(* Those whose preset a removal takes away. *)
RacedBy(n) ==
  [d \in Cgi |->
     IF \/ req[d].at = "move" /\ req[d].found.number = n
        \/ req[d].at = "sleep" /\ \E p \in ToSet(presets) :
             p.number = n /\ p.by = d /\ p.name = req[d].name
       THEN [req[d] EXCEPT !.met = @ \cup {"removal"}] ELSE req[d]]

(* ptz_remove_preset: whether there is such a preset is not asked. *)
RemovePreset(c) ==
  /\ Begin(c)
  /\ \E n \in Numbers :
       /\ \/ PresetsNumbered(n, presets) = {} /\ UNCHANGED presets
          \/ \E i \in PresetsNumbered(n, presets) :
               presets' = RemoveAt(presets, i)
       /\ req' = [RacedBy(n) EXCEPT ![c] = NoRequest]
  /\ answer' = [NoAnswer EXCEPT !.by = c, !.to = "remove"]
  /\ odd' = TRUE
  /\ UNCHANGED <<job, unread, doubtful>>

-------------------------------------------------------------------------------
(* Moves. *)

(* Mutant: along y first. *)
ContinuousMoveTilt(c) ==
  /\ Begin(c)
  /\ \E x \in {"still", "right", "left"}, y \in {"still", "up", "down"} :
       LET configured == Moves \cup {"still"}
           ret == IF {x, y} \subseteq configured THEN "ok" ELSE "ActionFailed"
       IN Reply(c, "continuous", ret,
                   [NoRequest EXCEPT !.done =
                      IF y \in Moves THEN {"turned"} ELSE {}])
  /\ UNCHANGED <<presets, job, unread, ghosts>>

(* ptz_continuous_move: first along x, then along y, each with a program   *)
(* of its own; a program that is not configured ends the request there.    *)
ContinuousMove(c) ==
  /\ Begin(c)
  /\ \E x \in {"still", "right", "left"}, y \in {"still", "up", "down"} :
       LET configured == Moves \cup {"still"}
           turned == IF x \in configured THEN {x, y} \cap Moves ELSE {}
           ret == IF {x, y} \subseteq configured THEN "ok" ELSE "ActionFailed"
       IN Reply(c, "continuous", ret,
                   [NoRequest EXCEPT !.done =
                      (IF x \in turned THEN {"panned"} ELSE {})
                        \cup IF y \in turned THEN {"turned"} ELSE {}])
  /\ UNCHANGED <<presets, job, unread, ghosts>>

(* Comparisons with what atof makes of "nan" are false. *)
OutOfRange(v) == v \in {"below", "above"}

(* ret # 0 in ptz_absolute_move and, for TranslationSpaceFov, in           *)
(* ptz_relative_move.                                                      *)
MoveFaults(x, y, zoom) ==
  \/ (x = "absent") # (y = "absent")
  \/ x = "absent" /\ ~zoom
  \/ x # "absent" /\ (OutOfRange(x) \/ OutOfRange(y))

(* Both moves: system(sys_command) unless there was a fault. *)
Jump(c, fault) ==
  IF fault THEN Reply(c, "jump", "OutOfBounds", NoRequest)
           ELSE Reply(c, "jump", "ok", [NoRequest EXCEPT !.done = {"jumped"}])

AbsoluteMove(c) ==
  /\ Begin(c)
  /\ \E x, y \in Coordinate, zoom \in BOOLEAN :
       Jump(c, MoveFaults(x, y, zoom))
  /\ UNCHANGED <<presets, job, unread, ghosts>>

(* In the generic space a Zoom does not make up for missing coordinates;   *)
(* without PanTilt, or in a space that is not known, nothing is looked at. *)
(* A Zoom that names no space is a null pointer to strcmp: the process     *)
(* ends without an answer.                                                 *)
RelativeMove(c) ==
  /\ Begin(c)
  /\ \E x, y \in Coordinate, zoom \in BOOLEAN,
        space \in {"generic", "fov", "other", "no PanTilt"} :
       \/ space = "generic" /\ Jump(c, MoveFaults(x, y, FALSE))
       \/ space = "fov" /\ Jump(c, MoveFaults(x, y, zoom))
       \/ space \in {"other", "no PanTilt"} /\ Jump(c, FALSE)
       \/ zoom /\ Continue(c, NoRequest)
  /\ UNCHANGED <<presets, job, unread, ghosts>>

(* ptz_stop, ptz_goto_home_position, ptz_set_home_position. *)
Command(c) ==
  /\ Begin(c)
  /\ \E program \in Commands :
       IF program \in Moves
         THEN Reply(c, "command", "ok", [NoRequest EXCEPT !.done = {"ran"}])
         ELSE Reply(c, "command", "ActionFailed", NoRequest)
  /\ UNCHANGED <<presets, job, unread, ghosts>>

-------------------------------------------------------------------------------

PtzNext ==
  \E c \in Cgi :
    \/ SetPresetCheck(c) \/ SetPresetStore(c) \/ Store(c) \/ SetPresetAnswer(c)
    \/ GotoPresetCheck(c) \/ GotoPresetMove(c) \/ RemovePreset(c)
    \/ ContinuousMove(c) \/ AbsoluteMove(c) \/ RelativeMove(c) \/ Command(c)

PtzSpec == PtzInit /\ [][PtzNext]_ptzVars

-------------------------------------------------------------------------------
(* Properties. *)

Plain(name) == Listed(name) = name

(* "The requested name already exist for another preset": two presets of   *)
(* one name only come about when two SetPresets had that name in hand at   *)
(* a time, when a list could not be read, or when the name has a comma and *)
(* is never found again.                                                   *)
NamesAreUnique ==
  \A i, j \in DOMAIN presets :
    i # j /\ presets[i].name = presets[j].name /\ Plain(presets[i].name) =>
      presets[i].name \in doubtful

(* The token that SetPreset answers is that of the preset it has stored    *)
(* itself, not of one that happens to have its name, unless one of these   *)
(* is the case.                                                            *)
TokenIsOwn ==
  LET r == answer.req
  IN answer.to = "set" /\ answer.ret = "ok" =>
       \/ r.found.by = answer.by /\ r.found.name = r.name
       \/ r.name \in doubtful \/ ~Plain(r.found.name)

(* A request answered with a fault has changed nothing -- except the pan   *)
(* of a ContinuousMove whose tilt is not configured, and a SetPreset whose *)
(* preset was removed meanwhile, could not be read or has a comma in its   *)
(* name.                                                                   *)
FaultMeansNothingDone ==
  LET r == answer.req
  IN answer.ret # "ok" =>
       r.done \subseteq (IF answer.to = "continuous" THEN {"panned"}
                         ELSE IF r.met # {} \/ ~Plain(r.name) THEN {"stored"}
                         ELSE {})

(* GotoPreset ends where the preset it has checked leads, unless that      *)
(* preset was removed in between: then nowhere, or at a later preset that  *)
(* has got the number.                                                     *)
GotoReachesChecked ==
  answer.to = "goto" /\ answer.ret = "ok" =>
    answer.reached = answer.req.found \/ "removal" \in answer.req.met

(* A SetPreset without a name is refused only after presets were removed   *)
(* or a client has used such a name itself: PRESET_<count> is new until    *)
(* then.                                                                   *)
NamelessIsNew == answer.ret = "PresetExist" /\ ~answer.given => odd

===============================================================================
