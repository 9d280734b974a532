--------------------------- MODULE PtzServiceProofs ---------------------------
(***************************************************************************)
(* The properties of PtzService for any number of requests at a time, any  *)
(* names and any number of presets.                                        *)
(***************************************************************************)
EXTENDS PtzService, SequenceTheorems, TLAPS

(* SetPresets between the check of their name and their answer, and those  *)
(* whose preset is still to be stored.                                     *)
InHand(c) == req[c].at \in {"store", "sleep"}
ToStore(c) == req[c].at = "store" \/ job[c] # Nothing

JobInv ==
  \A c \in Cgi :
    /\ job[c] # Nothing => /\ req[c].at = "sleep"
                           /\ job[c] = req[c].name
                           /\ req[c].done = {}
    /\ InHand(c) => req[c].name \in AllNames /\ req[c].done \subseteq {"stored"}
    /\ req[c].at = "store" => req[c].done = {}
    /\ req[c].at = "move" => req[c].found \in Presets

NumberInv ==
  \A i, j \in DOMAIN presets : presets[i].number = presets[j].number => i = j

(* Two SetPresets with one name know that they are not the only ones ...   *)
HandInv ==
  \A c, d \in Cgi :
    c # d /\ InHand(c) /\ InHand(d) /\ req[c].name = req[d].name =>
      req[c].name \in doubtful

(* ... and nobody but the only one stores a preset of its name.            *)
StoreInv ==
  \A c \in Cgi, i \in DOMAIN presets :
    (/\ InHand(c) /\ presets[i].name = req[c].name
     /\ Plain(req[c].name) /\ req[c].name \notin doubtful)
      => presets[i].by = c /\ ~ToStore(c)

(* What was stored, or checked, is there until it is removed. *)
StoredInv ==
  \A c \in Cgi :
    req[c].at = "sleep" /\ "stored" \in req[c].done /\ "removal" \notin req[c].met
      => \E i \in DOMAIN presets :
            presets[i].by = c /\ presets[i].name = req[c].name

GotoInv ==
  \A c \in Cgi :
    req[c].at = "move" /\ "removal" \notin req[c].met =>
      \E i \in DOMAIN presets : presets[i] = req[c].found

(* The names that the service makes up are below the number of presets. *)
DefaultInv ==
  ~odd =>
    /\ \A c \in Cgi : InHand(c) /\ req[c].name \notin Names =>
          \E k \in 0..Len(presets) : req[c].name = Default(k)
    /\ \A i \in DOMAIN presets : presets[i].name \notin Names =>
          \E k \in 0..(Len(presets) - 1) : presets[i].name = Default(k)

StateInv == /\ JobInv /\ NumberInv /\ HandInv /\ StoreInv /\ StoredInv /\ GotoInv
            /\ DefaultInv /\ NamesAreUnique

AnswerInv == /\ TokenIsOwn /\ FaultMeansNothingDone /\ GotoReachesChecked
             /\ NamelessIsNew

PtzInv == PtzTypeOK /\ StateInv /\ AnswerInv

-------------------------------------------------------------------------------

(* The elements that are left after one was removed, and where they were. *)
Origin(k, i) == IF k < i THEN k ELSE k + 1

LEMMA RemoveAtProperties ==
  ASSUME NEW S, NEW s \in Seq(S), NEW i \in DOMAIN s
  PROVE  /\ RemoveAt(s, i) \in Seq(S)
         /\ Len(RemoveAt(s, i)) = Len(s) - 1
         /\ \A k \in DOMAIN RemoveAt(s, i) :
              Origin(k, i) \in DOMAIN s /\ RemoveAt(s, i)[k] = s[Origin(k, i)]
         /\ \A j \in DOMAIN s : j # i =>
              \E k \in DOMAIN RemoveAt(s, i) : RemoveAt(s, i)[k] = s[j]
<1> DEFINE before == SubSeq(s, 1, i - 1)
           after == SubSeq(s, i + 1, Len(s))
<1>1. Len(s) \in Nat /\ DOMAIN s = 1..Len(s) /\ i \in 1..Len(s)
  BY LenProperties
<1>2. /\ before \in Seq(S)
      /\ Len(before) = i - 1
      /\ \A k \in 1..(i - 1) : before[k] = s[k]
  <2>1. \A k \in 1..(i - 1) : s[k] \in S
    <3> SUFFICES ASSUME NEW k \in 1..(i - 1) PROVE s[k] \in S
      OBVIOUS
    <3>1. k \in 1..Len(s)
      BY <1>1
    <3> QED BY <3>1, ElementOfSeq
  <2>2. /\ before \in Seq(S)
        /\ Len(before) = IF 1 <= i - 1 THEN (i - 1) - 1 + 1 ELSE 0
        /\ \A k \in 1..((i - 1) - 1 + 1) : before[k] = s[1 + k - 1]
    BY <1>1, <2>1, SubSeqProperties
  <2> HIDE DEF before
  <2> QED BY <1>1, <2>2
<1>3. /\ after \in Seq(S)
      /\ Len(after) = Len(s) - i
      /\ \A k \in 1..(Len(s) - i) : after[k] = s[k + i]
  <2>1. \A k \in (i + 1)..Len(s) : s[k] \in S
    <3> SUFFICES ASSUME NEW k \in (i + 1)..Len(s) PROVE s[k] \in S
      OBVIOUS
    <3>1. k \in 1..Len(s)
      BY <1>1
    <3> QED BY <3>1, ElementOfSeq
  <2>2. /\ after \in Seq(S)
        /\ Len(after) = IF i + 1 <= Len(s) THEN Len(s) - (i + 1) + 1 ELSE 0
        /\ \A k \in 1..(Len(s) - (i + 1) + 1) : after[k] = s[(i + 1) + k - 1]
    BY <1>1, <2>1, SubSeqProperties
  <2> HIDE DEF after
  <2>3. Len(after) = Len(s) - i
    BY <1>1, <2>2
  <2>4. ASSUME NEW k \in 1..(Len(s) - i) PROVE after[k] = s[k + i]
    <3>1. k \in 1..(Len(s) - (i + 1) + 1) /\ (i + 1) + k - 1 = k + i
      BY <1>1
    <3>2. after[k] = s[(i + 1) + k - 1]
      BY <2>2, <3>1
    <3> QED BY <3>1, <3>2
  <2> QED BY <2>2, <2>3, <2>4
<1>4. RemoveAt(s, i) = before \o after
  BY DEF RemoveAt
<1> HIDE DEF before, after
<1>5. /\ RemoveAt(s, i) \in Seq(S)
      /\ Len(RemoveAt(s, i)) = Len(before) + Len(after)
      /\ \A k \in 1..(Len(before) + Len(after)) : (before \o after)[k] =
            IF k <= Len(before) THEN before[k] ELSE after[k - Len(before)]
  BY <1>2, <1>3, <1>4, ConcatProperties
<1>6. /\ Len(RemoveAt(s, i)) = Len(s) - 1
      /\ DOMAIN RemoveAt(s, i) = 1..(Len(s) - 1)
  BY <1>1, <1>2, <1>3, <1>5, LenProperties
<1>7. ASSUME NEW k \in 1..(Len(s) - 1)
      PROVE  Origin(k, i) \in 1..Len(s) /\ RemoveAt(s, i)[k] = s[Origin(k, i)]
  <2>1. RemoveAt(s, i)[k] = IF k <= i - 1 THEN before[k] ELSE after[k - (i - 1)]
    BY <1>1, <1>2, <1>3, <1>4, <1>5
  <2>2. CASE k < i
    <3>1. k \in 1..(i - 1)
      BY <1>1, <2>2
    <3> QED BY <1>1, <1>2, <2>1, <2>2, <3>1 DEF Origin
  <2>3. CASE ~(k < i)
    <3>1. k - (i - 1) \in 1..(Len(s) - i) /\ k - (i - 1) + i = k + 1
      BY <1>1, <2>3
    <3>2. after[k - (i - 1)] = s[k + 1]
      BY <1>3, <3>1
    <3> QED BY <1>1, <2>1, <2>3, <3>2 DEF Origin
  <2> QED BY <2>2, <2>3
<1>8. ASSUME NEW j \in 1..Len(s), j # i
      PROVE  \E k \in 1..(Len(s) - 1) : RemoveAt(s, i)[k] = s[j]
  <2> DEFINE k == IF j < i THEN j ELSE j - 1
  <2>1. k \in 1..(Len(s) - 1) /\ Origin(k, i) = j
    BY <1>1, <1>8 DEF Origin
  <2> HIDE DEF k
  <2> QED BY <1>7, <2>1
<1> QED BY <1>1, <1>5, <1>6, <1>7, <1>8

LEMMA AppendToPresets ==
  ASSUME NEW S, NEW s \in Seq(S), NEW e \in S
  PROVE  /\ Append(s, e) \in Seq(S)
         /\ Len(Append(s, e)) = Len(s) + 1
         /\ \A i \in DOMAIN s : i \in DOMAIN Append(s, e) /\ Append(s, e)[i] = s[i]
         /\ Len(s) + 1 \in DOMAIN Append(s, e) /\ Append(s, e)[Len(s) + 1] = e
         /\ \A i \in DOMAIN Append(s, e) : i \in DOMAIN s \/ i = Len(s) + 1
<1>1. Len(s) \in Nat /\ DOMAIN s = 1..Len(s)
  BY LenProperties
<1>2. /\ Append(s, e) \in Seq(S)
      /\ Len(Append(s, e)) = Len(s) + 1
      /\ \A i \in 1..Len(s) : Append(s, e)[i] = s[i]
      /\ Append(s, e)[Len(s) + 1] = e
  BY AppendProperties
<1>3. DOMAIN Append(s, e) = 1..(Len(s) + 1)
  BY <1>2, LenProperties
<1> QED BY <1>1, <1>2, <1>3

-------------------------------------------------------------------------------
(* Types. *)

AnswerRecord ==
  [by : Cgi \cup {Nothing},
   to : {"none", "set", "goto", "remove", "continuous", "jump", "command"},
   ret : {"ok", "NoToken", "PresetExist", "TooManyPresets", "ActionFailed",
          "OutOfBounds"},
   req : Request, given : BOOLEAN, reached : Presets \cup {Nothing}]

LEMMA BlankTypes == NoRequest \in Request /\ NoAnswer \in AnswerRecord
BY DEF NoRequest, NoAnswer, Request, AnswerRecord

(* What a request and an answer are made of. *)
LEMMA AnswerTypes ==
  ASSUME NEW c \in Cgi,
         NEW to \in {"none", "set", "goto", "remove", "continuous", "jump", "command"},
         NEW ret \in {"ok", "NoToken", "PresetExist", "TooManyPresets",
                      "ActionFailed", "OutOfBounds"},
         NEW r \in Request
  PROVE  [NoAnswer EXCEPT !.by = c, !.to = to, !.ret = ret, !.req = r]
           \in AnswerRecord
BY BlankTypes DEF AnswerRecord, NoAnswer

LEMMA PresetTypes ==
  ASSUME PtzTypeOK
  PROVE  /\ Len(presets) \in Nat /\ Len(presets) <= MaxPresets
         /\ DOMAIN presets = 1..Len(presets)
         /\ \A i \in DOMAIN presets : presets[i] \in Presets
<1>1. presets \in Seq(Presets)
  BY DEF PtzTypeOK
<1> QED BY <1>1, LenProperties, ElementOfSeq DEF PtzTypeOK

(* Any of the two lists a request may have read. *)
LEMMA ListTypes ==
  ASSUME PtzTypeOK, NEW list \in {presets, <<>>}
  PROVE  /\ list \in Seq(Presets)
         /\ Len(list) \in 0..MaxPresets
         /\ Default(Len(list)) \in AllNames
         /\ \A i \in DOMAIN list : list[i] \in Presets
<1>1. MaxPresets \in Nat
  BY PtzAssumption
<1>2. list \in Seq(Presets) /\ Len(list) \in 0..MaxPresets
  <2>1. CASE list = presets
    BY <1>1, <2>1, PresetTypes DEF PtzTypeOK
  <2>2. CASE list = <<>>
    BY <1>1, <2>2, EmptySeq
  <2> QED BY <2>1, <2>2
<1>3. \A i \in DOMAIN list : list[i] \in Presets
  BY <1>2, PresetTypes, EmptySeq, LenProperties
<1> QED BY <1>2, <1>3 DEF AllNames

LEMMA SetTypes ==
  ASSUME PtzTypeOK, NEW c \in Cgi, SetPresetCheck(c)
  PROVE  PtzTypeOK'
<1>1. PICK list \in {presets, <<>>}, name \in AllNames, given \in BOOLEAN :
        LET r == [NoRequest EXCEPT !.name = name]
        IN /\ InitPresets(list)
           /\ \/ /\ answer' = [NoAnswer EXCEPT !.by = c, !.to = "set",
                                  !.ret = "PresetExist", !.req = r,
                                  !.given = given]
                 /\ UNCHANGED <<req, ghosts>>
              \/ /\ Continue(c, [r EXCEPT !.at = "store", !.met = Unreadable])
                 /\ doubtful' = IF \/ \E d \in Cgi : req[d].name = name
                                   \/ Unreadable # {}
                                  THEN doubtful \cup {name} ELSE doubtful
                 /\ odd' = (odd \/ (given /\ name \notin Names))
  BY DEF SetPresetCheck
<1> DEFINE r == [NoRequest EXCEPT !.name = name]
           s == [r EXCEPT !.at = "store", !.met = Unreadable]
<1>2. r \in Request /\ s \in Request
  BY BlankTypes DEF Request, NoRequest, Unreadable
<1>3. unread' \in 0..MaxUnread /\ served' \in 0..MaxRequests
  <2>1. MaxUnread \in Nat /\ MaxRequests \in Nat
    BY PtzAssumption
  <2> QED BY <1>1, <2>1 DEF PtzTypeOK, InitPresets, SetPresetCheck, Begin
<1>4. UNCHANGED <<presets, job>>
  BY DEF SetPresetCheck
<1>5. req' \in [Cgi -> Request] /\ answer' \in AnswerRecord
      /\ doubtful' \subseteq AllNames /\ odd' \in BOOLEAN
  <2>1. CASE /\ answer' = [NoAnswer EXCEPT !.by = c, !.to = "set",
                             !.ret = "PresetExist", !.req = r, !.given = given]
             /\ UNCHANGED <<req, ghosts>>
    <3> HIDE DEF r
    <3> QED BY <1>2, <2>1, BlankTypes DEF PtzTypeOK, AnswerRecord, NoAnswer, ghosts
  <2>2. CASE /\ Continue(c, s)
             /\ doubtful' = IF \/ \E d \in Cgi : req[d].name = name
                               \/ Unreadable # {}
                              THEN doubtful \cup {name} ELSE doubtful
             /\ odd' = (odd \/ (given /\ name \notin Names))
    <3> HIDE DEF r, s
    <3>1. req' \in [Cgi -> Request] /\ answer' \in AnswerRecord
      BY <1>2, <2>2, BlankTypes DEF PtzTypeOK, Continue
    <3>2. doubtful' \subseteq AllNames /\ odd' \in BOOLEAN
      BY <2>2 DEF PtzTypeOK
    <3> QED BY <3>1, <3>2
  <2> QED BY <1>1, <2>1, <2>2
<1> QED BY <1>3, <1>4, <1>5 DEF PtzTypeOK, AnswerRecord

(* Steps that change nothing but the requests, the answer and counters. *)
LEMMA ReplyTypes ==
  ASSUME PtzTypeOK, NEW c \in Cgi,
         NEW to \in {"none", "set", "goto", "remove", "continuous", "jump", "command"},
         NEW ret \in {"ok", "NoToken", "PresetExist", "TooManyPresets",
                      "ActionFailed", "OutOfBounds"},
         NEW r \in Request, Reply(c, to, ret, r)
  PROVE  req' \in [Cgi -> Request] /\ answer' \in AnswerRecord
BY BlankTypes, AnswerTypes DEF PtzTypeOK, Reply

LEMMA ContinueTypes ==
  ASSUME PtzTypeOK, NEW c \in Cgi, NEW r \in Request, Continue(c, r)
  PROVE  req' \in [Cgi -> Request] /\ answer' \in AnswerRecord
BY BlankTypes DEF PtzTypeOK, Continue

LEMMA BeginTypes ==
  ASSUME PtzTypeOK, NEW c \in Cgi, Begin(c)
  PROVE  served' \in 0..MaxRequests
BY PtzAssumption DEF PtzTypeOK, Begin

LEMMA ListCounted ==
  ASSUME PtzTypeOK, NEW list, InitPresets(list)
  PROVE  unread' \in 0..MaxUnread
BY PtzAssumption DEF PtzTypeOK, InitPresets

(* The other half of a SetPreset. *)
LEMMA StoreTypes ==
  ASSUME PtzTypeOK, JobInv, NEW c \in Cgi, SetPresetStore(c) \/ Store(c)
  PROVE  PtzTypeOK'
<1>1. req[c] \in Request
  BY DEF PtzTypeOK
<1>2. CASE SetPresetStore(c)
  <2>1. [req[c] EXCEPT !.at = "sleep"] \in Request
    BY <1>1 DEF Request
  <2>2. req' \in [Cgi -> Request] /\ answer' \in AnswerRecord
    BY <1>2, <2>1, ContinueTypes DEF SetPresetStore
  <2>3. req[c].name \in AllNames
    BY <1>2 DEF JobInv, InHand, SetPresetStore
  <2>4. job' \in [Cgi -> AllNames \cup {Nothing}]
    BY <1>2, <2>3 DEF PtzTypeOK, SetPresetStore
  <2>5. UNCHANGED <<presets, served, unread, doubtful, odd>>
    BY <1>2 DEF SetPresetStore, ghosts
  <2> QED BY <2>2, <2>4, <2>5 DEF PtzTypeOK, AnswerRecord
<1>3. CASE Store(c)
  <2>1. [req[c] EXCEPT !.done = {"stored"}] \in Request
    BY <1>1 DEF Request
  <2>2. req' \in [Cgi -> Request] /\ answer' \in AnswerRecord
    BY <1>1, <1>3, <2>1, ContinueTypes DEF Store
  <2>3. job' \in [Cgi -> AllNames \cup {Nothing}]
    BY <1>3 DEF PtzTypeOK, Store
  <2>4. presets' \in Seq(Presets) /\ Len(presets') <= MaxPresets
    <3>1. CASE Len(presets) = MaxPresets
      BY <1>3, <3>1 DEF PtzTypeOK, Store
    <3>2. CASE Len(presets) # MaxPresets
      <4>1. PICK n \in Numbers :
              presets' = Append(presets, [number |-> n, name |-> job[c], by |-> c])
        BY <1>3, <3>2 DEF Store
      <4>2. [number |-> n, name |-> job[c], by |-> c] \in Presets
        BY <1>3 DEF PtzTypeOK, Presets, Store
      <4>3. /\ presets' \in Seq(Presets)
            /\ Len(presets') = Len(presets) + 1
        BY <4>1, <4>2, AppendToPresets DEF PtzTypeOK
      <4>4. Len(presets) \in Nat /\ Len(presets) <= MaxPresets /\ MaxPresets \in Nat
        BY PresetTypes, PtzAssumption
      <4> QED BY <3>2, <4>3, <4>4
    <3> QED BY <3>1, <3>2
  <2>5. UNCHANGED <<served, unread, doubtful, odd>>
    BY <1>3 DEF Store, ghosts
  <2> QED BY <2>2, <2>3, <2>4, <2>5 DEF PtzTypeOK, AnswerRecord
<1> QED BY <1>2, <1>3

LEMMA GotoTypes ==
  ASSUME PtzTypeOK, JobInv, NEW c \in Cgi, GotoPresetCheck(c) \/ GotoPresetMove(c)
  PROVE  PtzTypeOK'
<1>1. CASE GotoPresetCheck(c)
  <2>1. PICK n \in Numbers, list \in {presets, <<>>} :
          /\ InitPresets(list)
          /\ \/ Reply(c, "goto", "NoToken", NoRequest)
             \/ \E i \in PresetsNumbered(n, list) :
                  Continue(c, [NoRequest EXCEPT !.at = "move", !.found = list[i]])
    BY <1>1 DEF GotoPresetCheck
  <2>2. req' \in [Cgi -> Request] /\ answer' \in AnswerRecord
    <3>1. CASE Reply(c, "goto", "NoToken", NoRequest)
      BY <3>1, ReplyTypes, BlankTypes
    <3>2. ASSUME NEW i \in PresetsNumbered(n, list),
                 Continue(c, [NoRequest EXCEPT !.at = "move", !.found = list[i]])
          PROVE  req' \in [Cgi -> Request] /\ answer' \in AnswerRecord
      <4>1. list[i] \in Presets
        BY ListTypes DEF PresetsNumbered
      <4>2. [NoRequest EXCEPT !.at = "move", !.found = list[i]] \in Request
        BY <4>1, BlankTypes DEF Request, NoRequest
      <4> QED BY <3>2, <4>2, ContinueTypes
    <3> QED BY <2>1, <3>1, <3>2
  <2>3. served' \in 0..MaxRequests /\ unread' \in 0..MaxUnread
    BY <1>1, <2>1, BeginTypes, ListCounted DEF GotoPresetCheck
  <2>4. UNCHANGED <<presets, job, doubtful, odd>>
    BY <1>1 DEF GotoPresetCheck, ghosts
  <2> QED BY <2>2, <2>3, <2>4 DEF PtzTypeOK, AnswerRecord
<1>2. CASE GotoPresetMove(c)
  <2> DEFINE at == PresetsNumbered(req[c].found.number, presets)
             reached == IF at = {} THEN Nothing ELSE presets[CHOOSE i \in at : TRUE]
  <2>1. reached \in Presets \cup {Nothing}
    <3>1. CASE at # {}
      <4>1. (CHOOSE i \in at : TRUE) \in at
        BY <3>1
      <4>2. (CHOOSE i \in at : TRUE) \in DOMAIN presets
        BY <4>1 DEF PresetsNumbered
      <4> QED BY <3>1, <4>2, PresetTypes
    <3> QED BY <3>1
  <2>2. /\ answer' = [NoAnswer EXCEPT !.by = c, !.to = "goto", !.req = req[c],
                                      !.reached = reached]
        /\ req' = [req EXCEPT ![c] = NoRequest]
        /\ UNCHANGED <<presets, job, served, unread, doubtful, odd>>
    BY <1>2 DEF GotoPresetMove, ghosts
  <2> HIDE DEF reached
  <2>3. req[c] \in Request
    BY DEF PtzTypeOK
  <2>4. answer' \in AnswerRecord
    BY <2>1, <2>2, <2>3, BlankTypes DEF AnswerRecord, NoAnswer
  <2>5. req' \in [Cgi -> Request]
    BY <2>2, BlankTypes DEF PtzTypeOK
  <2> QED BY <2>2, <2>4, <2>5 DEF PtzTypeOK, AnswerRecord
<1> QED BY <1>1, <1>2

LEMMA SetAnswerTypes ==
  ASSUME PtzTypeOK, NEW c \in Cgi, SetPresetAnswer(c)
  PROVE  PtzTypeOK'
<1>1. PICK list \in {presets, <<>>} :
        /\ InitPresets(list)
        /\ \/ Reply(c, "set", "TooManyPresets",
                    [req[c] EXCEPT !.met = @ \cup Unreadable])
           \/ \E i \in PresetsWith(req[c].name, list) :
                Reply(c, "set", "ok", [req[c] EXCEPT !.found = list[i]])
  BY DEF SetPresetAnswer
<1>2. req[c] \in Request
  BY DEF PtzTypeOK
<1>3. req' \in [Cgi -> Request] /\ answer' \in AnswerRecord
  <2>1. [req[c] EXCEPT !.met = @ \cup Unreadable] \in Request
    BY <1>2 DEF Request, Unreadable
  <2>2. ASSUME NEW i \in PresetsWith(req[c].name, list)
        PROVE  [req[c] EXCEPT !.found = list[i]] \in Request
    <3>1. list[i] \in Presets
      BY ListTypes DEF PresetsWith
    <3> QED BY <1>2, <3>1 DEF Request
  <2> QED BY <1>1, <2>1, <2>2, ReplyTypes
<1>4. unread' \in 0..MaxUnread
  BY <1>1, ListCounted
<1>5. UNCHANGED <<presets, job, served, doubtful, odd>>
  BY DEF SetPresetAnswer, ghosts
<1> QED BY <1>3, <1>4, <1>5 DEF PtzTypeOK, AnswerRecord

LEMMA RacedTypes ==
  ASSUME PtzTypeOK, NEW n \in Numbers, NEW d \in Cgi
  PROVE  /\ RacedBy(n)[d] \in Request
         /\ RacedBy(n)[d].at = req[d].at
         /\ RacedBy(n)[d].name = req[d].name
         /\ RacedBy(n)[d].found = req[d].found
         /\ RacedBy(n)[d].done = req[d].done
         /\ req[d].met \subseteq RacedBy(n)[d].met
<1>1. req[d] \in Request
  BY DEF PtzTypeOK
<1>2. RacedBy(n)[d] \in {req[d], [req[d] EXCEPT !.met = @ \cup {"removal"}]}
  BY DEF RacedBy
<1>3. [req[d] EXCEPT !.met = @ \cup {"removal"}] \in Request
  BY <1>1 DEF Request
<1> QED BY <1>1, <1>2, <1>3 DEF Request

(* What is left of the presets, all of it or all but one. *)
LEMMA RemoveTypes ==
  ASSUME PtzTypeOK, NEW c \in Cgi, RemovePreset(c)
  PROVE  PtzTypeOK'
<1>1. PICK n \in Numbers :
        /\ \/ UNCHANGED presets
           \/ \E i \in PresetsNumbered(n, presets) : presets' = RemoveAt(presets, i)
        /\ req' = [RacedBy(n) EXCEPT ![c] = NoRequest]
  BY DEF RemovePreset
<1>2. presets' \in Seq(Presets) /\ Len(presets') <= MaxPresets
  <2>1. ASSUME NEW i \in PresetsNumbered(n, presets), presets' = RemoveAt(presets, i)
        PROVE  presets' \in Seq(Presets) /\ Len(presets') <= MaxPresets
    <3>1. i \in DOMAIN presets
      BY DEF PresetsNumbered
    <3>2. presets' \in Seq(Presets) /\ Len(presets') = Len(presets) - 1
      BY <2>1, <3>1, RemoveAtProperties DEF PtzTypeOK
    <3>3. Len(presets) \in Nat /\ Len(presets) <= MaxPresets /\ MaxPresets \in Nat
      BY PresetTypes, PtzAssumption
    <3> QED BY <3>2, <3>3
  <2> QED BY <1>1, <2>1 DEF PtzTypeOK
<1>3. req' \in [Cgi -> Request]
  <2>1. RacedBy(n) \in [Cgi -> Request]
    BY RacedTypes DEF RacedBy
  <2> QED BY <1>1, <2>1, BlankTypes
<1>4. answer' \in AnswerRecord
  BY BlankTypes DEF RemovePreset, AnswerRecord, NoAnswer
<1>5. served' \in 0..MaxRequests
  BY BeginTypes DEF RemovePreset
<1>6. odd' = TRUE /\ UNCHANGED <<job, unread, doubtful>>
  BY DEF RemovePreset
<1> QED BY <1>2, <1>3, <1>4, <1>5, <1>6 DEF PtzTypeOK, AnswerRecord

(* The moves and commands end at once, and nothing but answer and counter tells   *)
(* of them.                                                                *)
Moved(c) ==
  /\ Begin(c)
  /\ req' = [req EXCEPT ![c] = NoRequest]
  /\ answer' \in AnswerRecord
  /\ answer'.to \notin {"set", "goto"}
  /\ answer'.ret # "PresetExist"
  /\ answer'.ret # "ok" => answer'.req.done \subseteq
                             (IF answer'.to = "continuous" THEN {"panned"} ELSE {})
  /\ UNCHANGED <<presets, job, unread, doubtful, odd>>

LEMMA ContinuousIsMoved ==
  ASSUME PtzTypeOK, NEW c \in Cgi, ContinuousMove(c)
  PROVE  Moved(c)
<1> DEFINE configured == Moves \cup {"still"}
           turned(x, y) == IF x \in configured THEN {x, y} \cap Moves ELSE {}
           done(x, y) == (IF x \in turned(x, y) THEN {"panned"} ELSE {})
                           \cup IF y \in turned(x, y) THEN {"turned"} ELSE {}
<1>1. PICK x \in {"still", "right", "left"}, y \in {"still", "up", "down"} :
        Reply(c, "continuous",
              IF {x, y} \subseteq configured THEN "ok" ELSE "ActionFailed",
              [NoRequest EXCEPT !.done = done(x, y)])
  BY DEF ContinuousMove
<1>2. ~({x, y} \subseteq configured) => done(x, y) \subseteq {"panned"}
  OBVIOUS
<1>3. done(x, y) \subseteq {"stored", "turned", "panned", "jumped", "ran"}
  OBVIOUS
<1> DEFINE ret == IF {x, y} \subseteq configured THEN "ok" ELSE "ActionFailed"
           r == [NoRequest EXCEPT !.done = done(x, y)]
<1>4. ret \in {"ok", "ActionFailed"} /\ (ret # "ok" => done(x, y) \subseteq {"panned"})
  BY <1>2
<1> HIDE DEF configured, done, turned
<1>5. r \in Request /\ r.done = done(x, y)
  BY <1>3, BlankTypes DEF Request, NoRequest
<1> HIDE DEF ret, r
<1>6. Reply(c, "continuous", ret, r)
  BY <1>1 DEF ret, r
<1>7. /\ req' = [req EXCEPT ![c] = NoRequest]
      /\ answer' = [NoAnswer EXCEPT !.by = c, !.to = "continuous", !.ret = ret,
                                    !.req = r]
  BY <1>6 DEF Reply
<1>8. answer' \in AnswerRecord
  BY <1>4, <1>5, <1>6, ReplyTypes
<1>9. answer'.to = "continuous" /\ answer'.ret = ret /\ answer'.req = r
  BY <1>7 DEF NoAnswer
<1>10. Begin(c) /\ UNCHANGED <<presets, job, unread, doubtful, odd>>
  BY DEF ContinuousMove, ghosts
<1> QED BY <1>4, <1>5, <1>7, <1>8, <1>9, <1>10 DEF Moved

LEMMA JumpIsMoved ==
  ASSUME PtzTypeOK, NEW c \in Cgi,
         AbsoluteMove(c) \/ RelativeMove(c) \/ Command(c)
  PROVE  Moved(c)
<1> DEFINE Did(done) == [NoRequest EXCEPT !.done = done]
<1>1. \/ \E to \in {"jump", "command"}, ret \in {"OutOfBounds", "ActionFailed"} :
           Reply(c, to, ret, NoRequest)
      \/ \E to \in {"jump", "command"}, done \in {{"jumped"}, {"ran"}} :
           Reply(c, to, "ok", Did(done))
      \/ Continue(c, NoRequest)
  BY DEF AbsoluteMove, RelativeMove, Jump, Command
<1>2. Begin(c) /\ UNCHANGED <<presets, job, unread, doubtful, odd>>
  BY DEF AbsoluteMove, RelativeMove, Command, ghosts
<1>3. \A done \in {{"jumped"}, {"ran"}} : Did(done) \in Request
  BY BlankTypes DEF Request, NoRequest
<1> HIDE DEF Did
<1> SUFFICES /\ answer' \in AnswerRecord /\ req' = [req EXCEPT ![c] = NoRequest]
             /\ answer'.to \notin {"set", "goto"}
             /\ answer'.ret # "PresetExist"
             /\ answer'.ret # "ok" => answer'.req.done = {}
  BY <1>2 DEF Moved
<1>4. ASSUME NEW to \in {"jump", "command"},
             NEW ret \in {"OutOfBounds", "ActionFailed"},
             Reply(c, to, ret, NoRequest)
      PROVE  /\ answer' \in AnswerRecord /\ req' = [req EXCEPT ![c] = NoRequest]
             /\ answer'.to = to /\ answer'.ret = ret /\ answer'.req.done = {}
  <2>1. /\ answer' = [NoAnswer EXCEPT !.by = c, !.to = to, !.ret = ret,
                                      !.req = NoRequest]
        /\ req' = [req EXCEPT ![c] = NoRequest]
    BY <1>4 DEF Reply
  <2>2. answer'.to = to /\ answer'.ret = ret /\ answer'.req = NoRequest
    BY <2>1 DEF NoAnswer
  <2>3. answer' \in AnswerRecord
    BY <1>4, BlankTypes, ReplyTypes
  <2> QED BY <2>1, <2>2, <2>3 DEF NoRequest
<1>5. ASSUME NEW to \in {"jump", "command"}, NEW done \in {{"jumped"}, {"ran"}},
             Reply(c, to, "ok", Did(done))
      PROVE  /\ answer' \in AnswerRecord /\ req' = [req EXCEPT ![c] = NoRequest]
             /\ answer'.to = to /\ answer'.ret = "ok"
  <2>1. /\ answer' = [NoAnswer EXCEPT !.by = c, !.to = to, !.ret = "ok",
                                      !.req = Did(done)]
        /\ req' = [req EXCEPT ![c] = NoRequest]
    BY <1>5 DEF Reply
  <2>2. answer'.to = to /\ answer'.ret = "ok"
    BY <2>1 DEF NoAnswer
  <2>3. answer' \in AnswerRecord
    BY <1>3, <1>5, ReplyTypes
  <2> QED BY <2>1, <2>2, <2>3
<1>6. ASSUME Continue(c, NoRequest)
      PROVE  /\ answer' \in AnswerRecord /\ req' = [req EXCEPT ![c] = NoRequest]
             /\ answer'.to = "none" /\ answer'.ret = "ok"
  BY <1>6, BlankTypes DEF Continue, NoAnswer
<1> QED BY <1>1, <1>4, <1>5, <1>6

LEMMA MovedTypes ==
  ASSUME PtzTypeOK, NEW c \in Cgi, Moved(c)
  PROVE  PtzTypeOK'
<1>1. req' \in [Cgi -> Request]
  BY BlankTypes DEF PtzTypeOK, Moved
<1> QED BY <1>1, BeginTypes DEF PtzTypeOK, Moved, AnswerRecord

-------------------------------------------------------------------------------
(* The invariant of presets and requests. *)

(* A request that begins or ends, or goes on to move to a preset. *)
LEMMA QuitKeeps ==
  ASSUME PtzTypeOK, StateInv, NEW c \in Cgi, NEW r \in Request,
         job[c] = Nothing, r.at \in {"idle", "move"},
         r.at = "move" => \E i \in DOMAIN presets : presets[i] = r.found,
         req' = [req EXCEPT ![c] = r], UNCHANGED <<presets, job, doubtful, odd>>
  PROVE  StateInv'
<1>1. req'[c] = r /\ \A d \in Cgi : d # c => req'[d] = req[d]
  BY DEF PtzTypeOK
<1>2. ~InHand(c)' /\ \A d \in Cgi : d # c => (InHand(d)' <=> InHand(d))
  BY <1>1 DEF InHand
<1>3. JobInv'
  <2>1. r.at = "move" => r.found \in Presets
    BY PresetTypes
  <2> QED BY <1>1, <1>2, <2>1 DEF StateInv, JobInv
<1>4. NumberInv' /\ NamesAreUnique'
  BY DEF StateInv, NumberInv, NamesAreUnique
<1>5. HandInv'
  BY <1>1, <1>2 DEF StateInv, HandInv
<1>6. StoreInv'
  <2> SUFFICES ASSUME NEW d \in Cgi, NEW i \in DOMAIN presets',
                      InHand(d)', presets'[i].name = req'[d].name,
                      Plain(req'[d].name), req'[d].name \notin doubtful'
               PROVE  presets'[i].by = d /\ ~ToStore(d)'
    BY DEF StoreInv
  <2>1. d # c /\ InHand(d) /\ req'[d] = req[d]
    BY <1>1, <1>2
  <2> QED BY <2>1 DEF StateInv, StoreInv, ToStore
<1>7. StoredInv' /\ GotoInv'
  BY <1>1 DEF StateInv, StoredInv, GotoInv
<1>8. DefaultInv'
  BY <1>1, <1>2 DEF StateInv, DefaultInv
<1> QED BY <1>3, <1>4, <1>5, <1>6, <1>7, <1>8 DEF StateInv

LEMMA IdleHasNoJob ==
  ASSUME StateInv, NEW c \in Cgi, req[c].at # "sleep"
  PROVE  job[c] = Nothing
BY DEF StateInv, JobInv

(* A list without the name shows that nobody has it, if it could be read. *)
LEMMA NotListed ==
  ASSUME PtzTypeOK, NEW list \in {presets, <<>>}, InitPresets(list),
         NEW name, PresetsWith(name, list) = {}, Unreadable = {}, Plain(name),
         NEW i \in DOMAIN presets
  PROVE  presets[i].name # name
<1>1. unread' = unread /\ unread \in Nat
  BY PtzAssumption DEF Unreadable, PtzTypeOK
<1>2. list = presets
  BY <1>1 DEF InitPresets
<1> QED BY <1>2 DEF PresetsWith, Plain

(* A SetPreset takes a name in hand. *)
LEMMA TakeKeeps ==
  ASSUME PtzTypeOK, StateInv, NEW c \in Cgi, SetPresetCheck(c)
  PROVE  StateInv'
<1>1. PICK list \in {presets, <<>>}, name \in AllNames, given \in BOOLEAN :
        LET r == [NoRequest EXCEPT !.name = name]
        IN /\ InitPresets(list)
           /\ ~given => name = Default(Len(list))
           /\ \/ UNCHANGED <<req, ghosts>>
              \/ /\ PresetsWith(name, list) = {}
                 /\ Continue(c, [r EXCEPT !.at = "store", !.met = Unreadable])
                 /\ doubtful' = IF \/ \E d \in Cgi : req[d].name = name
                                   \/ Unreadable # {}
                                  THEN doubtful \cup {name} ELSE doubtful
                 /\ odd' = (odd \/ (given /\ name \notin Names))
  BY DEF SetPresetCheck
<1>2. UNCHANGED <<presets, job>> /\ req[c].at = "idle"
  BY DEF SetPresetCheck, Begin
<1>3. job[c] = Nothing
  BY <1>2, IdleHasNoJob
<1>4. CASE UNCHANGED <<req, ghosts>>
  BY <1>2, <1>4
  DEF ghosts, StateInv, JobInv, NumberInv, HandInv, StoreInv, StoredInv, GotoInv,
      DefaultInv, NamesAreUnique, InHand, ToStore
<1>5. CASE /\ PresetsWith(name, list) = {}
           /\ Continue(c, [[NoRequest EXCEPT !.name = name]
                             EXCEPT !.at = "store", !.met = Unreadable])
           /\ doubtful' = IF \/ \E d \in Cgi : req[d].name = name
                             \/ Unreadable # {}
                            THEN doubtful \cup {name} ELSE doubtful
           /\ odd' = (odd \/ (given /\ name \notin Names))
  <2>1. /\ req'[c].at = "store" /\ req'[c].name = name /\ req'[c].done = {}
        /\ \A d \in Cgi : d # c => req'[d] = req[d]
    BY <1>5 DEF PtzTypeOK, Continue, NoRequest
  <2>2. /\ doubtful \subseteq doubtful'
        /\ (\E d \in Cgi : req[d].name = name) => name \in doubtful'
        /\ Unreadable # {} => name \in doubtful'
    BY <1>5
  <2>3. \A d \in Cgi : d # c => (InHand(d)' <=> InHand(d))
    BY <2>1 DEF InHand
  <2>4. JobInv'
    BY <1>2, <1>3, <2>1, <2>3 DEF StateInv, JobInv, InHand
  <2>5. NumberInv' /\ NamesAreUnique'
    BY <1>2, <2>2 DEF StateInv, NumberInv, NamesAreUnique
  <2>6. HandInv'
    BY <2>1, <2>2, <2>3 DEF StateInv, HandInv
  <2>7. StoreInv'
    <3> SUFFICES ASSUME NEW d \in Cgi, NEW i \in DOMAIN presets,
                        InHand(d)', presets[i].name = req'[d].name,
                        Plain(req'[d].name), req'[d].name \notin doubtful'
                 PROVE  presets[i].by = d /\ ~ToStore(d)'
      BY <1>2 DEF StoreInv
    <3>1. CASE d = c
      <4>1. Unreadable = {} /\ Plain(name) /\ presets[i].name = name
        BY <2>1, <2>2, <3>1
      <4>2. presets[i].name # name
        BY <1>1, <1>5, <4>1, NotListed
      <4> QED BY <4>1, <4>2
    <3>2. CASE d # c
      <4>1. InHand(d) /\ req'[d] = req[d] /\ req[d].name \notin doubtful
        BY <2>1, <2>2, <2>3, <3>2
      <4> QED BY <1>2, <4>1 DEF StateInv, StoreInv, ToStore
    <3> QED BY <3>1, <3>2
  <2>8. StoredInv' /\ GotoInv'
    BY <1>2, <2>1 DEF StateInv, StoredInv, GotoInv
  <2>9. DefaultInv'
    <3> SUFFICES ASSUME ~odd' PROVE DefaultInv'
      BY DEF DefaultInv
    <3>1. ~odd /\ (name \notin Names => name = Default(Len(list)))
      BY <1>1, <1>5 DEF PtzTypeOK
    <3>2. Len(list) \in 0..Len(presets)
      <4>1. CASE list = presets
        BY <4>1, PresetTypes
      <4>2. CASE list = <<>>
        BY <4>2, PresetTypes, EmptySeq
      <4> QED BY <4>1, <4>2
    <3>3. ASSUME NEW d \in Cgi, InHand(d)', req'[d].name \notin Names
          PROVE  \E k \in 0..Len(presets) : req'[d].name = Default(k)
      <4>1. CASE d = c
        BY <2>1, <3>1, <3>2, <3>3, <4>1
      <4>2. CASE d # c
        BY <2>1, <2>3, <3>1, <3>3, <4>2 DEF StateInv, DefaultInv
      <4> QED BY <4>1, <4>2
    <3>4. \A i \in DOMAIN presets : presets[i].name \notin Names =>
             \E k \in 0..(Len(presets) - 1) : presets[i].name = Default(k)
      BY <3>1 DEF StateInv, DefaultInv
    <3> QED BY <1>2, <3>3, <3>4 DEF DefaultInv
  <2> QED BY <2>4, <2>5, <2>6, <2>7, <2>8, <2>9 DEF StateInv
<1> QED BY <1>1, <1>4, <1>5

(* set_preset is called. *)
LEMMA CallKeeps ==
  ASSUME PtzTypeOK, StateInv, NEW c \in Cgi, SetPresetStore(c)
  PROVE  StateInv'
<1>1. /\ req[c].at = "store" /\ UNCHANGED <<presets, doubtful, odd>>
      /\ job' = [job EXCEPT ![c] = req[c].name]
      /\ req' = [req EXCEPT ![c] = [req[c] EXCEPT !.at = "sleep"]]
  BY DEF SetPresetStore, Continue, ghosts
<1>2. /\ req'[c].at = "sleep" /\ req'[c].name = req[c].name
      /\ req'[c].done = req[c].done /\ req'[c].met = req[c].met
      /\ job'[c] = req[c].name
      /\ \A d \in Cgi : d # c => req'[d] = req[d] /\ job'[d] = job[d]
  <2>1. req[c] \in Request
    BY DEF PtzTypeOK
  <2> QED BY <1>1, <2>1 DEF PtzTypeOK, Request
<1>3. req[c].done = {} /\ InHand(c) /\ ToStore(c)
  BY <1>1 DEF StateInv, JobInv, InHand, ToStore
<1>4. \A d \in Cgi : InHand(d)' <=> InHand(d)
  BY <1>2, <1>3 DEF InHand
<1>5. \A d \in Cgi : req'[d].name = req[d].name /\ req'[d].done = req[d].done
  BY <1>2
<1>6. JobInv'
  BY <1>1, <1>2, <1>3, <1>4 DEF StateInv, JobInv
<1>7. NumberInv' /\ NamesAreUnique'
  BY <1>1 DEF StateInv, NumberInv, NamesAreUnique
<1>8. HandInv'
  BY <1>1, <1>4, <1>5 DEF StateInv, HandInv
<1>9. StoreInv'
  <2> SUFFICES ASSUME NEW d \in Cgi, NEW i \in DOMAIN presets,
                      InHand(d), presets[i].name = req[d].name,
                      Plain(req[d].name), req[d].name \notin doubtful
               PROVE  presets[i].by = d /\ ~ToStore(d)'
    BY <1>1, <1>4, <1>5 DEF StoreInv
  <2>1. presets[i].by = d /\ ~ToStore(d)
    BY DEF StateInv, StoreInv
  <2>2. d # c
    BY <1>3, <2>1
  <2> QED BY <1>2, <2>1, <2>2 DEF ToStore
<1>10. StoredInv' /\ GotoInv'
  BY <1>1, <1>2, <1>3 DEF StateInv, StoredInv, GotoInv
<1>11. DefaultInv'
  BY <1>1, <1>4, <1>5 DEF StateInv, DefaultInv
<1> QED BY <1>6, <1>7, <1>8, <1>9, <1>10, <1>11 DEF StateInv

(* The program stores the preset. *)
LEMMA StoreKeeps ==
  ASSUME PtzTypeOK, StateInv, NEW c \in Cgi, Store(c)
  PROVE  StateInv'
<1>1. /\ job[c] # Nothing /\ job' = [job EXCEPT ![c] = Nothing]
      /\ UNCHANGED <<doubtful, odd>>
  BY DEF Store, ghosts
<1>2. /\ req[c].at = "sleep" /\ job[c] = req[c].name /\ req[c].done = {}
      /\ InHand(c) /\ ToStore(c) /\ req[c].name \in AllNames
  BY <1>1 DEF StateInv, JobInv, InHand, ToStore
<1>3. job'[c] = Nothing /\ \A d \in Cgi : d # c => job'[d] = job[d]
  BY <1>1 DEF PtzTypeOK
<1>4. Len(presets) \in Nat /\ DOMAIN presets = 1..Len(presets)
  BY PresetTypes
<1>5. CASE Len(presets) = MaxPresets
  <2>1. UNCHANGED presets /\ req' = [req EXCEPT ![c] = req[c]]
    BY <1>5 DEF Store, Continue
  <2>2. \A d \in Cgi : req'[d] = req[d] /\ (InHand(d)' <=> InHand(d))
    BY <2>1 DEF PtzTypeOK, InHand
  <2>3. \A d \in Cgi : ~ToStore(d) => ~ToStore(d)'
    BY <1>3, <2>2 DEF ToStore
  <2>4. JobInv'
    BY <1>3, <2>1, <2>2 DEF StateInv, JobInv
  <2>5. NumberInv' /\ NamesAreUnique' /\ StoredInv' /\ GotoInv'
    BY <1>1, <2>1, <2>2
    DEF StateInv, NumberInv, NamesAreUnique, StoredInv, GotoInv
  <2>6. HandInv' /\ DefaultInv'
    BY <1>1, <2>1, <2>2 DEF StateInv, HandInv, DefaultInv
  <2>7. StoreInv'
    BY <1>1, <2>1, <2>2, <2>3 DEF StateInv, StoreInv
  <2> QED BY <2>4, <2>5, <2>6, <2>7 DEF StateInv
<1>6. CASE Len(presets) # MaxPresets
  <2>1. PICK n \in Numbers :
          /\ PresetsNumbered(n, presets) = {}
          /\ presets' = Append(presets, [number |-> n, name |-> job[c], by |-> c])
    BY <1>6 DEF Store
  <2>2. req' = [req EXCEPT ![c] = [req[c] EXCEPT !.done = {"stored"}]]
    BY <1>6 DEF Store, Continue
  <2>3. /\ req'[c].at = "sleep" /\ req'[c].name = req[c].name
        /\ req'[c].done = {"stored"} /\ req'[c].met = req[c].met
        /\ \A d \in Cgi : d # c => req'[d] = req[d]
    <3>1. req[c] \in Request
      BY DEF PtzTypeOK
    <3> QED BY <1>2, <2>2, <3>1 DEF PtzTypeOK, Request
  <2>4. \A d \in Cgi : req'[d].name = req[d].name /\ (InHand(d)' <=> InHand(d))
    BY <1>2, <2>3 DEF InHand
  <2> DEFINE e == [number |-> n, name |-> job[c], by |-> c]
             new == Len(presets) + 1
  <2>5. e \in Presets
    BY <1>1 DEF PtzTypeOK, Presets
  <2>6. e.number = n /\ e.name = req[c].name /\ e.by = c
    BY <1>2
  <2>7. presets' = Append(presets, e)
    BY <2>1
  <2> HIDE DEF e
  <2>8. /\ Len(presets') = Len(presets) + 1
        /\ \A i \in DOMAIN presets : i \in DOMAIN presets' /\ presets'[i] = presets[i]
        /\ new \in DOMAIN presets' /\ presets'[new] = e
        /\ \A i \in DOMAIN presets' : i \in DOMAIN presets \/ i = new
    BY <2>5, <2>7, AppendToPresets DEF PtzTypeOK
  <2> HIDE DEF new
  <2>9. JobInv'
    BY <1>2, <1>3, <2>3, <2>4 DEF StateInv, JobInv
  <2>10. NumberInv'
    <3>1. \A i \in DOMAIN presets : presets[i].number # n
      BY <2>1 DEF PresetsNumbered
    <3> QED BY <2>6, <2>8, <3>1 DEF StateInv, NumberInv
  <2>11. HandInv'
    BY <1>1, <2>4 DEF StateInv, HandInv
  <2>12. \A i \in DOMAIN presets :
           presets[i].name = req[c].name /\ Plain(req[c].name) =>
             req[c].name \in doubtful
    BY <1>2 DEF StateInv, StoreInv
  <2>13. StoreInv'
    <3> SUFFICES ASSUME NEW d \in Cgi, NEW i \in DOMAIN presets',
                        InHand(d), presets'[i].name = req[d].name,
                        Plain(req[d].name), req[d].name \notin doubtful
                 PROVE  presets'[i].by = d /\ ~ToStore(d)'
      BY <1>1, <2>4 DEF StoreInv
    <3>1. CASE d = c
      <4>1. i = new
        BY <2>8, <2>12, <3>1
      <4> QED BY <1>3, <2>3, <2>6, <2>8, <3>1, <4>1 DEF ToStore
    <3>2. CASE d # c
      <4>1. i # new
        BY <1>2, <2>6, <2>8, <3>2 DEF StateInv, HandInv
      <4>2. i \in DOMAIN presets /\ presets'[i] = presets[i]
        BY <2>8, <4>1
      <4>3. presets[i].by = d /\ ~ToStore(d)
        BY <4>2 DEF StateInv, StoreInv
      <4> QED BY <1>3, <2>3, <3>2, <4>2, <4>3 DEF ToStore
    <3> QED BY <3>1, <3>2
  <2>14. NamesAreUnique'
    <3> SUFFICES ASSUME NEW i \in DOMAIN presets', NEW j \in DOMAIN presets',
                        i # j, presets'[i].name = presets'[j].name,
                        Plain(presets'[i].name)
                 PROVE  presets'[i].name \in doubtful
      BY <1>1 DEF NamesAreUnique
    <3>1. CASE i \in DOMAIN presets /\ j \in DOMAIN presets
      BY <2>8, <3>1 DEF StateInv, NamesAreUnique
    <3>2. CASE i = new /\ j \in DOMAIN presets
      BY <2>6, <2>8, <2>12, <3>2
    <3>3. CASE j = new /\ i \in DOMAIN presets
      BY <2>6, <2>8, <2>12, <3>3
    <3> QED BY <2>8, <3>1, <3>2, <3>3
  <2>15. StoredInv'
    <3> SUFFICES ASSUME NEW d \in Cgi, req'[d].at = "sleep",
                        "stored" \in req'[d].done, "removal" \notin req'[d].met
                 PROVE  \E i \in DOMAIN presets' :
                          presets'[i].by = d /\ presets'[i].name = req'[d].name
      BY DEF StoredInv
    <3>1. CASE d = c
      BY <2>3, <2>6, <2>8, <3>1
    <3>2. CASE d # c
      <4>1. PICK i \in DOMAIN presets :
              presets[i].by = d /\ presets[i].name = req[d].name
        BY <2>3, <3>2 DEF StateInv, StoredInv
      <4> QED BY <2>4, <2>8, <4>1
    <3> QED BY <3>1, <3>2
  <2>16. GotoInv'
    <3> SUFFICES ASSUME NEW d \in Cgi, req'[d].at = "move",
                        "removal" \notin req'[d].met
                 PROVE  \E i \in DOMAIN presets' : presets'[i] = req'[d].found
      BY DEF GotoInv
    <3>1. req'[d] = req[d]
      BY <2>3
    <3>2. PICK i \in DOMAIN presets : presets[i] = req[d].found
      BY <3>1 DEF StateInv, GotoInv
    <3> QED BY <2>8, <3>1, <3>2
  <2>17. DefaultInv'
    <3> SUFFICES ASSUME ~odd PROVE DefaultInv'
      BY <1>1 DEF DefaultInv
    <3>1. \A d \in Cgi : InHand(d) /\ req[d].name \notin Names =>
             \E k \in 0..Len(presets) : req[d].name = Default(k)
      BY DEF StateInv, DefaultInv
    <3>2. \A i \in DOMAIN presets : presets[i].name \notin Names =>
             \E k \in 0..(Len(presets) - 1) : presets[i].name = Default(k)
      BY DEF StateInv, DefaultInv
    <3>3. 0..Len(presets) \subseteq 0..Len(presets')
          /\ 0..Len(presets) = 0..(Len(presets') - 1)
          /\ 0..(Len(presets) - 1) \subseteq 0..(Len(presets') - 1)
      BY <1>4, <2>8
    <3>4. ASSUME NEW d \in Cgi, InHand(d)', req'[d].name \notin Names
          PROVE  \E k \in 0..Len(presets') : req'[d].name = Default(k)
      BY <2>4, <3>1, <3>3, <3>4
    <3>5. ASSUME NEW i \in DOMAIN presets', presets'[i].name \notin Names
          PROVE  \E k \in 0..(Len(presets') - 1) : presets'[i].name = Default(k)
      <4>1. CASE i \in DOMAIN presets
        BY <2>8, <3>2, <3>3, <3>5, <4>1
      <4>2. CASE i = new
        BY <1>2, <2>6, <2>8, <3>1, <3>3, <3>5, <4>2
      <4> QED BY <2>8, <4>1, <4>2
    <3> QED BY <3>4, <3>5 DEF DefaultInv
  <2> QED BY <2>9, <2>10, <2>11, <2>13, <2>14, <2>15, <2>16, <2>17 DEF StateInv
<1> QED BY <1>5, <1>6

(* A preset is removed: whoever relied on it has met the removal. *)
LEMMA RemoveKeeps ==
  ASSUME PtzTypeOK, StateInv, NEW c \in Cgi, RemovePreset(c)
  PROVE  StateInv'
<1>1. PICK n \in Numbers :
        /\ \/ PresetsNumbered(n, presets) = {} /\ UNCHANGED presets
           \/ \E i \in PresetsNumbered(n, presets) : presets' = RemoveAt(presets, i)
        /\ req' = [RacedBy(n) EXCEPT ![c] = NoRequest]
  BY DEF RemovePreset
<1>2. req[c].at = "idle" /\ odd' = TRUE /\ UNCHANGED <<job, doubtful>>
  BY DEF RemovePreset, Begin
<1>3. job[c] = Nothing
  BY <1>2, IdleHasNoJob
<1>4. /\ req'[c].at = "idle" /\ req'[c].done = {}
      /\ \A d \in Cgi : d # c => req'[d] = RacedBy(n)[d]
  BY <1>1 DEF RacedBy, NoRequest
<1>5. \A d \in Cgi : d # c =>
         /\ req'[d].at = req[d].at /\ req'[d].name = req[d].name
         /\ req'[d].found = req[d].found /\ req'[d].done = req[d].done
         /\ req[d].met \subseteq req'[d].met
  BY <1>4, RacedTypes
<1>6. \A d \in Cgi : InHand(d)' => d # c /\ InHand(d)
  BY <1>4, <1>5 DEF InHand
(* Where what is left comes from. *)
<1> DEFINE Left ==
      /\ \A k \in DOMAIN presets' : \E j \in DOMAIN presets : presets'[k] = presets[j]
      /\ \A k, l \in DOMAIN presets' : k # l =>
            \E i, j \in DOMAIN presets :
               i # j /\ presets'[k] = presets[i] /\ presets'[l] = presets[j]
      /\ \A j \in DOMAIN presets : presets[j].number # n =>
            \E k \in DOMAIN presets' : presets'[k] = presets[j]
<1>7. Left
  <2>1. CASE UNCHANGED presets
    BY <2>1
  <2>2. ASSUME NEW i \in PresetsNumbered(n, presets), presets' = RemoveAt(presets, i)
        PROVE  Left
    <3>1. i \in DOMAIN presets /\ presets[i].number = n
      BY DEF PresetsNumbered
    <3>2. /\ presets' \in Seq(Presets)
          /\ \A k \in DOMAIN presets' :
               /\ Origin(k, i) \in DOMAIN presets
               /\ presets'[k] = presets[Origin(k, i)]
          /\ \A j \in DOMAIN presets : j # i =>
               \E k \in DOMAIN presets' : presets'[k] = presets[j]
      BY <2>2, <3>1, RemoveAtProperties DEF PtzTypeOK
    <3>3. \A k, l \in DOMAIN presets' : k # l => Origin(k, i) # Origin(l, i)
      <4>1. DOMAIN presets' \subseteq Nat /\ i \in Nat
        BY <3>1, <3>2, LenProperties, PresetTypes
      <4> QED BY <4>1 DEF Origin
    <3> QED BY <3>1, <3>2, <3>3
  <2> QED BY <1>1, <2>1, <2>2
<1>8. JobInv'
  BY <1>2, <1>3, <1>4, <1>5, <1>6 DEF StateInv, JobInv
<1>9. NumberInv' /\ NamesAreUnique'
  BY <1>2, <1>7 DEF StateInv, NumberInv, NamesAreUnique
<1>10. HandInv'
  BY <1>2, <1>5, <1>6 DEF StateInv, HandInv
<1>11. StoreInv'
  <2> SUFFICES ASSUME NEW d \in Cgi, NEW k \in DOMAIN presets',
                      InHand(d)', presets'[k].name = req'[d].name,
                      Plain(req'[d].name), req'[d].name \notin doubtful'
               PROVE  presets'[k].by = d /\ ~ToStore(d)'
    BY DEF StoreInv
  <2>1. PICK j \in DOMAIN presets : presets'[k] = presets[j]
    BY <1>7
  <2>2. InHand(d) /\ req'[d].name = req[d].name /\ req'[d].at = req[d].at
    BY <1>5, <1>6
  <2>3. presets[j].by = d /\ ~ToStore(d)
    BY <1>2, <2>1, <2>2 DEF StateInv, StoreInv
  <2> QED BY <1>2, <2>1, <2>2, <2>3 DEF ToStore
<1>12. StoredInv'
  <2> SUFFICES ASSUME NEW d \in Cgi, req'[d].at = "sleep",
                      "stored" \in req'[d].done, "removal" \notin req'[d].met
               PROVE  \E k \in DOMAIN presets' :
                        presets'[k].by = d /\ presets'[k].name = req'[d].name
    BY DEF StoredInv
  <2>1. d # c
    BY <1>4
  <2>2. PICK j \in DOMAIN presets :
          presets[j].by = d /\ presets[j].name = req[d].name
    BY <1>5, <2>1 DEF StateInv, StoredInv
  <2>3. presets[j].number # n
    <3> SUFFICES ASSUME presets[j].number = n PROVE FALSE
      OBVIOUS
    <3>1. req[d].at = "sleep" /\ presets[j] \in ToSet(presets)
      BY <1>5, <2>1 DEF ToSet
    <3>2. RacedBy(n)[d] = [req[d] EXCEPT !.met = @ \cup {"removal"}]
      BY <2>2, <3>1 DEF RacedBy
    <3>3. "removal" \in RacedBy(n)[d].met
      BY <3>2 DEF PtzTypeOK, Request
    <3> QED BY <1>4, <2>1, <3>3
  <2> QED BY <1>5, <1>7, <2>1, <2>2, <2>3
<1>13. GotoInv'
  <2> SUFFICES ASSUME NEW d \in Cgi, req'[d].at = "move",
                      "removal" \notin req'[d].met
               PROVE  \E k \in DOMAIN presets' : presets'[k] = req'[d].found
    BY DEF GotoInv
  <2>1. d # c
    BY <1>4
  <2>2. PICK j \in DOMAIN presets : presets[j] = req[d].found
    BY <1>5, <2>1 DEF StateInv, GotoInv
  <2>3. presets[j].number # n
    <3> SUFFICES ASSUME presets[j].number = n PROVE FALSE
      OBVIOUS
    <3>1. RacedBy(n)[d] = [req[d] EXCEPT !.met = @ \cup {"removal"}]
      BY <1>5, <2>1, <2>2 DEF RacedBy
    <3>2. "removal" \in RacedBy(n)[d].met
      BY <3>1 DEF PtzTypeOK, Request
    <3> QED BY <1>4, <2>1, <3>2
  <2> QED BY <1>5, <1>7, <2>1, <2>2, <2>3
<1>14. DefaultInv'
  BY <1>2 DEF DefaultInv
<1> QED BY <1>8, <1>9, <1>10, <1>11, <1>12, <1>13, <1>14 DEF StateInv

-------------------------------------------------------------------------------
(* The answers. *)

LEMMA SilenceIsRight ==
  ASSUME answer' = NoAnswer
  PROVE  AnswerInv'
BY DEF NoAnswer, AnswerInv, TokenIsOwn, FaultMeansNothingDone,
       GotoReachesChecked, NamelessIsNew

(* A name that the service made up and found taken. *)
LEMMA MadeUpIsTaken ==
  ASSUME PtzTypeOK, StateInv, NEW list \in {presets, <<>>},
         PresetsWith(Default(Len(list)), list) # {}
  PROVE  odd
<1> SUFFICES ASSUME ~odd PROVE FALSE
  BY DEF PtzTypeOK
<1>1. PICK i \in DOMAIN list : Listed(list[i].name) = Default(Len(list))
  BY DEF PresetsWith
<1>2. list = presets
  BY <1>1, EmptySeq, LenProperties
<1>3. Len(presets) \in 0..MaxPresets /\ presets[i] \in Presets
  BY <1>1, <1>2, ListTypes
<1>4. Default(Len(presets)) \notin Names
  BY <1>3, DefaultAssumption
<1>5. presets[i].name \notin Names
  <2> SUFFICES ASSUME presets[i].name \in Names PROVE FALSE
    OBVIOUS
  <2>1. Listed(presets[i].name) \in Names
    BY PtzAssumption DEF Listed
  <2> QED BY <1>1, <1>2, <1>4, <2>1
<1>6. presets[i].name = Default(Len(presets))
  BY <1>1, <1>2, <1>5 DEF Listed
<1>7. PICK k \in 0..(Len(presets) - 1) : presets[i].name = Default(k)
  BY <1>1, <1>2, <1>5 DEF StateInv, DefaultInv
<1>8. k = Len(presets)
  BY <1>6, <1>7 DEF Default
<1> QED BY <1>3, <1>7, <1>8

LEMMA TakeAnswers ==
  ASSUME PtzTypeOK, StateInv, NEW c \in Cgi, SetPresetCheck(c)
  PROVE  AnswerInv'
<1>1. PICK list \in {presets, <<>>}, name \in AllNames, given \in BOOLEAN :
        /\ ~given => name = Default(Len(list))
        /\ \/ /\ PresetsWith(name, list) # {}
              /\ answer' = [NoAnswer EXCEPT !.by = c, !.to = "set",
                               !.ret = "PresetExist",
                               !.req = [NoRequest EXCEPT !.name = name],
                               !.given = given]
              /\ UNCHANGED ghosts
           \/ answer' = NoAnswer
  BY DEF SetPresetCheck, Continue
<1>2. CASE answer' = NoAnswer
  BY <1>2, SilenceIsRight
<1>3. CASE /\ PresetsWith(name, list) # {}
           /\ answer' = [NoAnswer EXCEPT !.by = c, !.to = "set",
                            !.ret = "PresetExist",
                            !.req = [NoRequest EXCEPT !.name = name],
                            !.given = given]
           /\ UNCHANGED ghosts
  <2> DEFINE r == [NoRequest EXCEPT !.name = name]
  <2>1. r.done = {}
    BY DEF NoRequest
  <2> HIDE DEF r
  <2>2. /\ answer'.to = "set" /\ answer'.ret = "PresetExist"
        /\ answer'.given = given /\ answer'.req = r
    BY <1>3 DEF NoAnswer, r
  <2>3. ~given => odd'
    BY <1>1, <1>3, MadeUpIsTaken DEF ghosts
  <2> QED BY <2>1, <2>2, <2>3
          DEF AnswerInv, TokenIsOwn, FaultMeansNothingDone, GotoReachesChecked,
              NamelessIsNew
<1> QED BY <1>1, <1>2, <1>3

(* The new preset is looked for. *)
LEMMA SetAnswers ==
  ASSUME PtzTypeOK, StateInv, NEW c \in Cgi, SetPresetAnswer(c)
  PROVE  AnswerInv'
<1> DEFINE r == req[c]
<1>1. /\ r.at = "sleep" /\ job[c] = Nothing /\ UNCHANGED <<presets, doubtful>>
      /\ r \in Request /\ r.name \in AllNames /\ r.done \subseteq {"stored"}
      /\ InHand(c)
  BY DEF SetPresetAnswer, ghosts, PtzTypeOK, StateInv, JobInv, InHand
<1>2. PICK list \in {presets, <<>>} :
        /\ InitPresets(list)
        /\ \/ /\ PresetsWith(r.name, list) = {}
              /\ Reply(c, "set", "TooManyPresets", [r EXCEPT !.met = @ \cup Unreadable])
           \/ \E i \in PresetsWith(r.name, list) :
                Reply(c, "set", "ok", [r EXCEPT !.found = list[i]])
  BY DEF SetPresetAnswer
<1> HIDE DEF r
<1>3. CASE /\ PresetsWith(r.name, list) = {}
           /\ Reply(c, "set", "TooManyPresets", [r EXCEPT !.met = @ \cup Unreadable])
  <2> DEFINE q == [r EXCEPT !.met = @ \cup Unreadable]
  <2>1. q.done = r.done /\ q.name = r.name /\ q.met = r.met \cup Unreadable
    BY <1>1 DEF Request
  <2>2. Reply(c, "set", "TooManyPresets", q)
    BY <1>3
  <2> HIDE DEF q
  <2>3. /\ answer'.to = "set" /\ answer'.ret = "TooManyPresets" /\ answer'.req = q
    BY <2>2 DEF Reply, NoAnswer
  <2>4. q.met = {} /\ Plain(q.name) => q.done = {}
    <3> SUFFICES ASSUME q.met = {}, Plain(r.name), "stored" \in r.done PROVE FALSE
      BY <1>1, <2>1
    <3>1. PICK i \in DOMAIN presets : presets[i].name = r.name
      BY <1>1, <2>1 DEF StateInv, StoredInv, r
    <3>2. presets[i].name # r.name
      BY <1>2, <1>3, <2>1, NotListed
    <3> QED BY <3>1, <3>2
  <2>5. FaultMeansNothingDone'
    <3>1. q.done \subseteq (IF q.met # {} \/ ~Plain(q.name) THEN {"stored"} ELSE {})
      BY <1>1, <2>1, <2>4
    <3> QED BY <2>3, <3>1 DEF FaultMeansNothingDone
  <2> QED BY <2>3, <2>5
          DEF AnswerInv, TokenIsOwn, GotoReachesChecked, NamelessIsNew
<1>4. ASSUME NEW i \in PresetsWith(r.name, list),
             Reply(c, "set", "ok", [r EXCEPT !.found = list[i]])
      PROVE  AnswerInv'
  <2> DEFINE q == [r EXCEPT !.found = list[i]]
  <2>1. q.name = r.name /\ q.found = list[i]
    BY <1>1 DEF Request
  <2>2. Reply(c, "set", "ok", q)
    BY <1>4
  <2> HIDE DEF q
  <2>3. /\ answer'.to = "set" /\ answer'.ret = "ok" /\ answer'.req = q
        /\ answer'.by = c
    BY <2>2 DEF Reply, NoAnswer
  <2>4. i \in DOMAIN list /\ Listed(list[i].name) = r.name
    BY DEF PresetsWith
  <2>5. list = presets
    BY <2>4, EmptySeq, LenProperties
  <2>6. Plain(list[i].name) => list[i].name = r.name
    BY <2>4 DEF Plain
  <2>7. \/ q.found.by = c /\ q.found.name = q.name
        \/ q.name \in doubtful \/ ~Plain(q.found.name)
    <3> SUFFICES ASSUME Plain(list[i].name), r.name \notin doubtful
                 PROVE  list[i].by = c /\ list[i].name = r.name
      BY <2>1
    <3>1. presets[i].name = r.name /\ Plain(r.name) /\ i \in DOMAIN presets
      BY <2>4, <2>5, <2>6
    <3> QED BY <1>1, <2>5, <3>1 DEF StateInv, StoreInv, r
  <2>8. TokenIsOwn'
    BY <1>1, <2>3, <2>7 DEF TokenIsOwn
  <2> QED BY <2>3, <2>8
          DEF AnswerInv, FaultMeansNothingDone, GotoReachesChecked, NamelessIsNew
<1> QED BY <1>2, <1>3, <1>4

LEMMA GotoAnswers ==
  ASSUME PtzTypeOK, StateInv, NEW c \in Cgi,
         GotoPresetCheck(c) \/ GotoPresetMove(c)
  PROVE  AnswerInv'
<1>1. CASE GotoPresetCheck(c)
  <2>1. Reply(c, "goto", "NoToken", NoRequest) \/ answer' = NoAnswer
    BY <1>1 DEF GotoPresetCheck, Continue
  <2>2. CASE Reply(c, "goto", "NoToken", NoRequest)
    <3>1. /\ answer'.to = "goto" /\ answer'.ret = "NoToken"
          /\ answer'.req = NoRequest
      BY <2>2 DEF Reply, NoAnswer
    <3> QED BY <3>1
            DEF AnswerInv, TokenIsOwn, FaultMeansNothingDone, GotoReachesChecked,
                NamelessIsNew, NoRequest
  <2> QED BY <2>1, <2>2, SilenceIsRight
<1>2. CASE GotoPresetMove(c)
  <2> DEFINE at == PresetsNumbered(req[c].found.number, presets)
             reached == IF at = {} THEN Nothing ELSE presets[CHOOSE i \in at : TRUE]
  <2>1. /\ req[c].at = "move"
        /\ answer' = [NoAnswer EXCEPT !.by = c, !.to = "goto", !.req = req[c],
                                      !.reached = reached]
    BY <1>2 DEF GotoPresetMove
  <2>2. reached = req[c].found \/ "removal" \in req[c].met
    <3> SUFFICES ASSUME "removal" \notin req[c].met PROVE reached = req[c].found
      OBVIOUS
    <3>1. PICK j \in DOMAIN presets : presets[j] = req[c].found
      BY <2>1 DEF StateInv, GotoInv
    <3>2. j \in at
      BY <3>1 DEF PresetsNumbered
    <3>3. (CHOOSE i \in at : TRUE) \in at
      BY <3>2
    <3>4. \A i \in at : i \in DOMAIN presets /\ presets[i].number = presets[j].number
      BY <3>1 DEF PresetsNumbered
    <3>5. (CHOOSE i \in at : TRUE) = j
      BY <3>3, <3>4 DEF StateInv, NumberInv
    <3> QED BY <3>1, <3>2, <3>5
  <2> HIDE DEF reached
  <2>3. /\ answer'.to = "goto" /\ answer'.ret = "ok" /\ answer'.req = req[c]
        /\ answer'.reached = reached
    BY <2>1 DEF NoAnswer
  <2> QED BY <2>2, <2>3
          DEF AnswerInv, TokenIsOwn, FaultMeansNothingDone, GotoReachesChecked,
              NamelessIsNew
<1> QED BY <1>1, <1>2

LEMMA MovedAnswers ==
  ASSUME PtzTypeOK, NEW c \in Cgi, Moved(c)
  PROVE  AnswerInv'
BY DEF Moved, AnswerInv, TokenIsOwn, FaultMeansNothingDone, GotoReachesChecked,
       NamelessIsNew

LEMMA GotoKeeps ==
  ASSUME PtzTypeOK, StateInv, NEW c \in Cgi,
         GotoPresetCheck(c) \/ GotoPresetMove(c)
  PROVE  StateInv'
<1>1. UNCHANGED <<presets, job, doubtful, odd>> /\ job[c] = Nothing
  <2>1. req[c].at # "sleep"
    BY DEF GotoPresetCheck, GotoPresetMove, Begin
  <2> QED BY <2>1, IdleHasNoJob DEF GotoPresetCheck, GotoPresetMove, ghosts
<1>2. CASE req' = [req EXCEPT ![c] = NoRequest]
  <2>1. NoRequest \in Request /\ NoRequest.at = "idle"
    BY BlankTypes DEF NoRequest
  <2> QED BY <1>1, <1>2, <2>1, QuitKeeps
<1>3. ASSUME NEW n \in Numbers, NEW i \in PresetsNumbered(n, presets),
             Continue(c, [NoRequest EXCEPT !.at = "move", !.found = presets[i]])
      PROVE  StateInv'
  <2> DEFINE r == [NoRequest EXCEPT !.at = "move", !.found = presets[i]]
  <2>1. i \in DOMAIN presets /\ presets[i] \in Presets
    BY PresetTypes DEF PresetsNumbered
  <2>2. r \in Request /\ r.at = "move" /\ r.found = presets[i]
    BY <2>1, BlankTypes DEF Request, NoRequest
  <2>3. req' = [req EXCEPT ![c] = r]
    BY <1>3 DEF Continue
  <2> HIDE DEF r
  <2> QED BY <1>1, <2>1, <2>2, <2>3, QuitKeeps
<1>4. CASE GotoPresetMove(c)
  BY <1>2, <1>4 DEF GotoPresetMove
<1>5. CASE GotoPresetCheck(c)
  <2>1. PICK n \in Numbers, list \in {presets, <<>>} :
          \/ Reply(c, "goto", "NoToken", NoRequest)
          \/ \E i \in PresetsNumbered(n, list) :
               Continue(c, [NoRequest EXCEPT !.at = "move", !.found = list[i]])
    BY <1>5 DEF GotoPresetCheck
  <2>2. ASSUME NEW i \in PresetsNumbered(n, list) PROVE list = presets
    BY EmptySeq, LenProperties DEF PresetsNumbered
  <2> QED BY <1>2, <1>3, <2>1, <2>2 DEF Reply
<1> QED BY <1>4, <1>5

LEMMA EndKeeps ==
  ASSUME PtzTypeOK, StateInv, NEW c \in Cgi, SetPresetAnswer(c) \/ Moved(c)
  PROVE  StateInv'
<1>1. /\ req' = [req EXCEPT ![c] = NoRequest]
      /\ UNCHANGED <<presets, job, doubtful, odd>>
  BY DEF SetPresetAnswer, Moved, Reply, ghosts
<1>2. job[c] = Nothing
  <2>1. Moved(c) => req[c].at # "sleep"
    BY DEF Moved, Begin
  <2> QED BY <2>1, IdleHasNoJob DEF SetPresetAnswer
<1>3. NoRequest \in Request /\ NoRequest.at = "idle"
  BY BlankTypes DEF NoRequest
<1> QED BY <1>1, <1>2, <1>3, QuitKeeps

-------------------------------------------------------------------------------

LEMMA PtzStep ==
  ASSUME PtzInv, NEW c \in Cgi,
         \/ SetPresetCheck(c) \/ SetPresetStore(c) \/ Store(c)
         \/ SetPresetAnswer(c) \/ GotoPresetCheck(c) \/ GotoPresetMove(c)
         \/ RemovePreset(c) \/ ContinuousMove(c) \/ AbsoluteMove(c)
         \/ RelativeMove(c) \/ Command(c)
  PROVE  PtzInv'
<1>1. PtzTypeOK /\ StateInv /\ JobInv
  BY DEF PtzInv, StateInv
<1>2. CASE SetPresetCheck(c)
  BY <1>1, <1>2, SetTypes, TakeKeeps, TakeAnswers DEF PtzInv
<1>3. CASE SetPresetStore(c)
  <2>1. answer' = NoAnswer
    BY <1>3 DEF SetPresetStore, Continue
  <2> QED BY <1>1, <1>3, <2>1, StoreTypes, CallKeeps, SilenceIsRight DEF PtzInv
<1>4. CASE Store(c)
  <2>1. answer' = NoAnswer
    BY <1>4 DEF Store, Continue
  <2> QED BY <1>1, <1>4, <2>1, StoreTypes, StoreKeeps, SilenceIsRight DEF PtzInv
<1>5. CASE SetPresetAnswer(c)
  BY <1>1, <1>5, SetAnswerTypes, EndKeeps, SetAnswers DEF PtzInv
<1>6. CASE GotoPresetCheck(c) \/ GotoPresetMove(c)
  BY <1>1, <1>6, GotoTypes, GotoKeeps, GotoAnswers DEF PtzInv
<1>7. CASE RemovePreset(c)
  <2>1. answer' = [NoAnswer EXCEPT !.by = c, !.to = "remove"]
    BY <1>7 DEF RemovePreset
  <2>2. answer'.to = "remove" /\ answer'.ret = "ok"
    BY <2>1 DEF NoAnswer
  <2>3. AnswerInv'
    BY <2>2 DEF AnswerInv, TokenIsOwn, FaultMeansNothingDone, GotoReachesChecked,
                NamelessIsNew
  <2> QED BY <1>1, <1>7, <2>3, RemoveTypes, RemoveKeeps DEF PtzInv
<1>8. CASE ContinuousMove(c) \/ AbsoluteMove(c) \/ RelativeMove(c) \/ Command(c)
  <2>1. Moved(c)
    BY <1>1, <1>8, ContinuousIsMoved, JumpIsMoved
  <2> QED BY <1>1, <2>1, MovedTypes, EndKeeps, MovedAnswers DEF PtzInv
<1> QED BY <1>2, <1>3, <1>4, <1>5, <1>6, <1>7, <1>8

LEMMA PtzStart == PtzInit => PtzInv
<1> SUFFICES ASSUME PtzInit PROVE PtzInv
  OBVIOUS
<1>1. /\ presets = <<>> /\ presets \in Seq(Presets) /\ Len(presets) = 0
      /\ DOMAIN presets = {}
  BY EmptySeq DEF PtzInit
<1>2. /\ MaxPresets \in Nat /\ 0 \in 0..MaxRequests /\ 0 \in 0..MaxUnread
  BY PtzAssumption
<1>3. PtzTypeOK
  <2>1. req \in [Cgi -> Request] /\ answer \in AnswerRecord
    BY BlankTypes DEF PtzInit
  <2>2. job \in [Cgi -> AllNames \cup {Nothing}] /\ doubtful \subseteq AllNames
    BY DEF PtzInit
  <2>3. Len(presets) <= MaxPresets
    BY <1>1, <1>2
  <2>4. served \in 0..MaxRequests /\ unread \in 0..MaxUnread /\ odd \in BOOLEAN
    BY <1>2 DEF PtzInit
  <2> QED BY <1>1, <2>1, <2>2, <2>3, <2>4 DEF PtzTypeOK, AnswerRecord
<1>4. \A c \in Cgi : req[c].at = "idle" /\ job[c] = Nothing
  BY DEF PtzInit, NoRequest
<1>5. StateInv
  BY <1>1, <1>4
  DEF StateInv, JobInv, NumberInv, HandInv, StoreInv, StoredInv, GotoInv,
      DefaultInv, NamesAreUnique, InHand
<1>6. AnswerInv
  BY DEF PtzInit, NoAnswer, AnswerInv, TokenIsOwn, FaultMeansNothingDone,
         GotoReachesChecked, NamelessIsNew
<1> QED BY <1>3, <1>5, <1>6 DEF PtzInv

LEMMA PtzInvariant == PtzSpec => []PtzInv
<1>1. PtzInv /\ [PtzNext]_ptzVars => PtzInv'
  <2> SUFFICES ASSUME PtzInv, [PtzNext]_ptzVars PROVE PtzInv'
    OBVIOUS
  <2>1. CASE PtzNext
    BY <2>1, PtzStep DEF PtzNext
  <2>2. CASE UNCHANGED ptzVars
    <3> USE DEF ptzVars, ghosts
    <3>1. PtzTypeOK'
      BY <2>2 DEF PtzInv, PtzTypeOK
    <3>2. StateInv'
      BY <2>2
      DEF PtzInv, StateInv, JobInv, NumberInv, HandInv, StoreInv, StoredInv,
          GotoInv, DefaultInv, NamesAreUnique, InHand, ToStore
    <3>3. AnswerInv'
      BY <2>2
      DEF PtzInv, AnswerInv, TokenIsOwn, FaultMeansNothingDone,
          GotoReachesChecked, NamelessIsNew
    <3> QED BY <3>1, <3>2, <3>3 DEF PtzInv
  <2> QED BY <2>1, <2>2
<1> QED BY <1>1, PtzStart, PTL DEF PtzSpec

(* Type correctness of requests, answers and presets. *)
THEOREM PtzTypesHold == PtzSpec => []PtzTypeOK
<1>1. PtzInv => PtzTypeOK
  BY DEF PtzInv
<1> QED BY <1>1, PtzInvariant, PTL

(* Two presets of one name come about only in the ways that ptz_set_preset *)
(* cannot see: two requests at a time, an unread list, a comma.            *)
THEOREM NamesStayUnique == PtzSpec => []NamesAreUnique
<1>1. PtzInv => NamesAreUnique
  BY DEF PtzInv, StateInv
<1> QED BY <1>1, PtzInvariant, PTL

(* The token that SetPreset answers is that of the preset it has stored,   *)
(* whatever other requests store, remove or move to meanwhile.             *)
THEOREM TokensAreOwn == PtzSpec => []TokenIsOwn
<1>1. PtzInv => TokenIsOwn
  BY DEF PtzInv, AnswerInv
<1> QED BY <1>1, PtzInvariant, PTL

(* A fault means that nothing was done, but for the cases the property     *)
(* names.                                                                  *)
THEOREM FaultsAreHarmless == PtzSpec => []FaultMeansNothingDone
<1>1. PtzInv => FaultMeansNothingDone
  BY DEF PtzInv, AnswerInv
<1> QED BY <1>1, PtzInvariant, PTL

(* GotoPreset ends where the preset it has checked leads, unless that was  *)
(* removed between check and move.                                         *)
THEOREM GotoIsRight == PtzSpec => []GotoReachesChecked
<1>1. PtzInv => GotoReachesChecked
  BY DEF PtzInv, AnswerInv
<1> QED BY <1>1, PtzInvariant, PTL

(* PRESET_<count> is free until a preset is removed or a client uses such  *)
(* a name.                                                                 *)
THEOREM MadeUpNamesAreNew == PtzSpec => []NamelessIsNew
<1>1. PtzInv => NamelessIsNew
  BY DEF PtzInv, AnswerInv
<1> QED BY <1>1, PtzInvariant, PTL
===============================================================================
