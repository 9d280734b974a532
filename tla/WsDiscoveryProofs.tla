--------------------------- MODULE WsDiscoveryProofs ---------------------------
(***************************************************************************)
(* main and the handlers of the two signals share the socket, msg_number   *)
(* and template_file without any protection.  That no number is used       *)
(* twice, that nothing follows a Bye and that no message is a mixture of   *)
(* two is due to one thing: a handler that has run to its end leaves the   *)
(* socket shut, so that whoever it interrupted has nothing more to say.    *)
(* While the socket is open, the one that runs has not been interrupted.   *)
(***************************************************************************)
EXTENDS WsDiscovery, SequenceTheorems, TLAPS

(* Where the one that runs is, and the message it makes. *)
At == IF frames = <<>> THEN main ELSE Top.at
Made == IF frames = <<>> THEN message ELSE Top.message

ByeSent == \E i \in DOMAIN sent : sent[i].message.kind = "Bye"
MatchesSent == \E i \in DOMAIN sent : sent[i].message.kind = "ProbeMatches"
HelloSent == \E i \in DOMAIN sent : sent[i].message.kind = "Hello"

SocketInv ==
  /\ sock = "none" => main \in {"start", "failed"} /\ sent = <<>>
  /\ main = "start" => sock = "none"
  /\ main = "failed" => frames = <<>>

FramesInv ==
  \A i \in DOMAIN frames :
    /\ frames[i].at = "cat" => template_file = "Bye"
    /\ frames[i].at = "send" => frames[i].message.kind = "Bye"
    /\ frames[i].at \in {"shutdown", "flag"} /\ sock # "none" => ByeSent
    /\ frames[i].at = "flag" => sock # "open"

ByeInv ==
  /\ ByeSent => \/ sock = "shut"
                \/ \E i \in DOMAIN frames : frames[i].at = "shutdown"
  /\ sock = "shut" => ByeSent \/ main = "failed"
  /\ InLoop /\ ~mainLoop => ByeSent
  /\ main \in {"shutdown", "done"} => ByeSent

MessageNumberInv ==
  sock = "open" =>
    /\ \A i \in DOMAIN sent : sent[i].message.no <= msg_number
    /\ At = "store" => Made.no = msg_number + 1
    /\ At \in {"hello", "cat hello", "send hello", "template", "cat", "send"} =>
         /\ Made.no = msg_number
         /\ \A i \in DOMAIN sent : sent[i].message.no < msg_number

MainInv ==
  sock = "open" /\ frames = <<>> =>
    /\ main = "number" => sent = <<>>
    /\ main = "cat hello" => template_file = "Hello"
    /\ main = "send hello" => message.kind = "Hello"
    /\ main = "cat" => template_file = "ProbeMatches"
    /\ main = "send" => message.kind = "ProbeMatches"

AddressInv ==
  /\ addr_len => received > 0
  /\ ~addr_len => received = 0
  /\ MatchesSent => received > 0
  /\ main = "send hello" => addr_in = "group"
  /\ (InLoop \/ main = "enable" \/ HelloSent) /\ received <= 1 =>
       addr_in = "group"
  /\ main \in {"count", "store", "template", "cat", "send"} =>
       \/ message.rel = Nobody
       \/ addr_in = message.rel
       \/ addr_in = "group" /\ ~MatchesSent
  /\ main \in {"template", "cat", "send"} => message.rel # Nobody
  /\ main \in {"count", "store", "template", "cat", "send"} => received > 0
  /\ main \in {"count", "store", "template", "cat", "send"} => received > 0

(* What is said of the messages sent. *)
SentInv == NumbersIncrease /\ ByeIsFinal /\ NoMixture /\ RightAddressee

WsdInv ==
  /\ WsdTypeOK /\ SocketInv /\ FramesInv /\ ByeInv /\ MessageNumberInv /\ MainInv
  /\ AddressInv /\ SentInv

-------------------------------------------------------------------------------
(* What the shared pieces of the actions do. *)

Frame == [signal : Signals, at : HandlerSteps, message : Message]
Letter == [by : {"main", "handler"}, to : Addressee, message : Message, after : Nat]

(* One message more at the end, or none. *)
LEMMA SendEffect ==
  ASSUME WsdTypeOK, NEW by \in {"main", "handler"}, NEW m \in Message, Send(by, m)
  PROVE  /\ sent' \in Seq(Letter)
         /\ sock # "open" => sent' = sent
         /\ sock = "open" =>
              /\ DOMAIN sent' = 1..(Len(sent) + 1)
              /\ DOMAIN sent = 1..Len(sent) /\ Len(sent) \in Nat
              /\ \A i \in DOMAIN sent : sent'[i] = sent[i]
              /\ sent'[Len(sent) + 1] = [by |-> by, to |-> addr_in,
                                         message |-> m, after |-> received]
<1>1. sent \in Seq(Letter) /\ received \in Nat
  BY WsdAssumption DEF WsdTypeOK, Letter
<1>2. [by |-> by, to |-> addr_in, message |-> m, after |-> received] \in Letter
  BY <1>1 DEF WsdTypeOK, Letter
<1> QED BY <1>1, <1>2, AppendProperties DEF Send

LEMMA SentTypes ==
  ASSUME WsdTypeOK
  PROVE  \A i \in DOMAIN sent : sent # <<>> /\ sent[i].message.no \in Nat
<1>1. sent \in Seq(Letter)
  BY DEF WsdTypeOK, Letter
<1>2. \A i \in DOMAIN sent : sent[i] \in Letter
  BY <1>1, ElementOfSeq, LenProperties
<1> QED BY <1>2 DEF Letter, Message

LEMMA TopType ==
  ASSUME WsdTypeOK, frames # <<>>
  PROVE  /\ Top \in Frame /\ Top.message \in Message
         /\ Len(frames) \in DOMAIN frames
<1>1. frames \in Seq(Frame)
  BY DEF WsdTypeOK, Frame
<1>2. Len(frames) \in 1..Len(frames) /\ DOMAIN frames = 1..Len(frames)
  BY <1>1, EmptySeq
<1>3. Top \in Frame
  BY <1>1, <1>2, ElementOfSeq DEF Top
<1> QED BY <1>2, <1>3 DEF Frame

(* The innermost handler goes on, the others stand still. *)
LEMMA HandlerEffect ==
  ASSUME WsdTypeOK, NEW from, NEW to \in HandlerSteps, NEW m \in Message,
         Handler(from, to, m)
  PROVE  /\ frames # <<>> /\ frames' # <<>> /\ Len(frames) \in DOMAIN frames
         /\ frames' \in Seq(Frame)
         /\ DOMAIN frames' = DOMAIN frames
         /\ Top \in Frame /\ Top.at = from /\ Top' \in Frame
         /\ Top.message \in Message
         /\ Top'.at = to /\ Top'.message = m
         /\ \A i \in DOMAIN frames :
              \/ frames'[i] = frames[i] /\ i # Len(frames)
              \/ frames'[i] = Top' /\ frames[i] = Top /\ i = Len(frames)
<1> DEFINE new == [Top EXCEPT !.at = to, !.message = m]
<1>1. /\ frames \in Seq(Frame) /\ frames # <<>> /\ Top.at = from
      /\ frames' = [frames EXCEPT ![Len(frames)] = new]
  BY DEF WsdTypeOK, Frame, Handler, Top
<1>2. /\ DOMAIN frames = 1..Len(frames) /\ Len(frames) \in Nat
      /\ Len(frames) \in 1..Len(frames)
      /\ \A i \in 1..Len(frames) : frames[i] \in Frame
  BY <1>1
<1>3. Top \in Frame
  BY <1>2 DEF Top
<1>4. new \in Frame /\ new.at = to /\ new.message = m
  BY <1>3 DEF Frame
<1> HIDE DEF new
<1>5. /\ frames' \in Seq(Frame) /\ Len(frames') = Len(frames)
      /\ \A i \in 1..Len(frames) :
           frames'[i] = IF i = Len(frames) THEN new ELSE frames[i]
  BY <1>1, <1>2, <1>4, ExceptSeq
<1>6. Top' = new
  BY <1>2, <1>5 DEF Top
<1>7. DOMAIN frames' = 1..Len(frames) /\ frames' # <<>>
  <2>1. DOMAIN frames' = 1..Len(frames')
    BY <1>5, LenProperties
  <2>2. Len(frames') # 0
    <3>1. Len(frames) # 0
      BY <1>1, EmptySeq
    <3> QED BY <1>5, <3>1
  <2> QED BY <1>5, <2>1, <2>2, EmptySeq
<1>8. Top.message \in Message
  BY <1>3 DEF Frame
<1>9. \A i \in DOMAIN frames :
        \/ frames'[i] = frames[i] /\ i # Len(frames)
        \/ frames'[i] = Top' /\ frames[i] = Top /\ i = Len(frames)
  BY <1>2, <1>5, <1>6 DEF Top
<1> QED BY <1>1, <1>2, <1>3, <1>4, <1>5, <1>6, <1>7, <1>8, <1>9

(* The interrupted go on where the innermost handler ends. *)
LEMMA PopEffect ==
  ASSUME WsdTypeOK, frames # <<>>,
         frames' = SubSeq(frames, 1, Len(frames) - 1)
  PROVE  /\ frames' \in Seq(Frame)
         /\ DOMAIN frames' \subseteq DOMAIN frames
         /\ \A i \in DOMAIN frames' : frames'[i] = frames[i]
<1>0. frames \in Seq(Frame)
  BY DEF WsdTypeOK, Frame
<1>1. /\ frames \in Seq(Frame) /\ Len(frames) \in Nat /\ Len(frames) # 0
      /\ DOMAIN frames = 1..Len(frames)
      /\ \A i \in 1..Len(frames) : frames[i] \in Frame
  BY <1>0, EmptySeq
<1>2. /\ frames' \in Seq(Frame)
      /\ Len(frames') = Len(frames) - 1
      /\ \A i \in 1..(Len(frames) - 1) : frames'[i] = frames[i]
  BY <1>1, SubSeqProperties
<1>3. DOMAIN frames' = 1..(Len(frames) - 1)
  BY <1>2, LenProperties
<1> QED BY <1>1, <1>2, <1>3

(* A handler begins and is the innermost. *)
LEMMA PushEffect ==
  ASSUME WsdTypeOK, NEW s \in Signals, Deliver(s)
  PROVE  /\ frames' \in Seq(Frame) /\ frames' # <<>>
         /\ DOMAIN frames' = DOMAIN frames \cup {Len(frames) + 1}
         /\ \A i \in DOMAIN frames : frames'[i] = frames[i]
         /\ frames'[Len(frames) + 1].at = "count"
         /\ Top'.at = "count"
<1> DEFINE new == [signal |-> s, at |-> "count", message |-> NoMessage]
<1>1. /\ frames \in Seq(Frame) /\ Len(frames) \in Nat
      /\ DOMAIN frames = 1..Len(frames)
      /\ frames' = Append(frames, new)
  BY DEF WsdTypeOK, Frame, Deliver
<1>2. new \in Frame /\ new.at = "count"
  BY DEF Frame, NoMessage, Message, Kinds, HandlerSteps
<1> HIDE DEF new
<1>3. /\ frames' \in Seq(Frame) /\ frames' # <<>>
      /\ Len(frames') = Len(frames) + 1
      /\ \A i \in 1..Len(frames) : frames'[i] = frames[i]
      /\ frames'[Len(frames) + 1] = new
  BY <1>1, <1>2, AppendProperties
<1>4. DOMAIN frames' = 1..(Len(frames) + 1)
  BY <1>3, LenProperties
<1>5. Top' = new
  BY <1>3 DEF Top
<1>6. 1..(Len(frames) + 1) = 1..Len(frames) \cup {Len(frames) + 1}
  BY <1>1
<1> QED BY <1>1, <1>2, <1>3, <1>4, <1>5, <1>6

LEMMA WsdTypeStep == WsdTypeOK /\ [WsdNext]_wsdVars => WsdTypeOK'
<1> SUFFICES ASSUME WsdTypeOK, [WsdNext]_wsdVars PROVE WsdTypeOK'
  OBVIOUS
<1>0. /\ Probers \subseteq Addressee
      /\ \A n \in Nat : n + 1 \in Nat
      /\ NoMessage \in Message
      /\ \A n \in Nat : [NoMessage EXCEPT !.no = n] \in Message
      /\ \A p \in Probers \cup {Nobody} : [NoMessage EXCEPT !.rel = p] \in Message
      /\ \A m \in Message, n \in Nat : [m EXCEPT !.no = n] \in Message
      /\ \A m \in Message, k \in Kinds : [m EXCEPT !.kind = k] \in Message
      /\ \A m \in Message : m.no \in Nat
  BY DEF Addressee, NoMessage, Message, Kinds
<1>1. CASE UNCHANGED wsdVars
  BY <1>1 DEF wsdVars, shared, counts, WsdTypeOK
<1> USE DEF Main, shared, counts
<1>2. CASE SocketBegin \/ HelloNumber \/ HelloTemplate \/ HelloCat
  <2>1. message' \in Message
    BY <1>0, <1>2 DEF SocketBegin, HelloNumber, HelloTemplate, HelloCat, WsdTypeOK
  <2>2. sock' \in {"none", "open", "shut"}
    BY <1>2 DEF SocketBegin, HelloNumber, HelloTemplate, HelloCat, ShutDown,
       WsdTypeOK
  <2>3. /\ main' \in MainSteps
        /\ template_file' \in Kinds
        /\ addr_in' \in Addressee
        /\ msg_number' \in Nat
    <3>1. main' \in MainSteps
      BY <1>2 DEF SocketBegin, HelloNumber, HelloTemplate, HelloCat, MainSteps
    <3>2. template_file' \in Kinds /\ msg_number' \in Nat
      <4>1. template_file \in Kinds /\ msg_number \in Nat /\ "Hello" \in Kinds
        BY DEF WsdTypeOK, Kinds
      <4>2. \/ UNCHANGED <<template_file, msg_number>>
            \/ template_file' = "Hello" /\ UNCHANGED msg_number
            \/ msg_number' = 1 /\ UNCHANGED template_file
        BY <1>2, Zenon DEF SocketBegin, HelloNumber, HelloTemplate, HelloCat
      <4> QED BY <4>1, <4>2
    <3>3. addr_in' \in Addressee
      BY <1>2 DEF SocketBegin, HelloNumber, HelloTemplate, HelloCat, WsdTypeOK,
         Addressee
    <3> QED BY <3>1, <3>2, <3>3
  <2> QED BY <1>2, <2>1, <2>2, <2>3 DEF SocketBegin, HelloNumber, HelloTemplate,
          HelloCat, WsdTypeOK
<1>3. CASE EnableLoop \/ TestLoop \/ ReceiveNothing \/ Leave
  BY <1>3 DEF EnableLoop, TestLoop, ReceiveNothing, Leave, ShutDown,
     WsdTypeOK, MainSteps
<1>4. CASE MatchCount \/ MatchStore \/ MatchTemplate \/ MatchCat
  BY <1>0, <1>4 DEF MatchCount, MatchStore, MatchTemplate, MatchCat, WsdTypeOK,
     MainSteps, Kinds
<1>5. CASE HelloSend \/ MatchSend
  <2>1. Send("main", message) /\ message \in Message
    BY <1>5 DEF HelloSend, MatchSend, WsdTypeOK
  <2>2. sent' \in Seq(Letter)
    BY <2>1, SendEffect
  <2> QED BY <1>5, <2>2 DEF HelloSend, MatchSend, WsdTypeOK, MainSteps, Letter
<1>6. ASSUME NEW p \in Probers, Receive(p)
      PROVE  WsdTypeOK'
  <2>1. message' \in Message /\ addr_in' \in Addressee
    BY <1>0, <1>6 DEF Receive, WsdTypeOK
  <2>2. main' \in MainSteps
    BY <1>6 DEF Receive, MainSteps
  <2>3. received' \in 0..MaxReceived /\ addr_len' = TRUE
    BY <1>6, WsdAssumption DEF Receive, WsdTypeOK
  <2> QED BY <1>6, <2>1, <2>2, <2>3 DEF Receive, WsdTypeOK
<1>7. ASSUME NEW s \in Signals, Raise(s)
      PROVE  WsdTypeOK'
  BY <1>7, WsdAssumption DEF Raise, WsdTypeOK
<1>8. ASSUME NEW s \in Signals, Deliver(s)
      PROVE  WsdTypeOK'
  BY <1>8, PushEffect DEF Deliver, WsdTypeOK, Frame
<1>9. CASE ByeCount
  <2>1. frames' \in Seq(Frame)
    BY <1>0, <1>9, HandlerEffect DEF ByeCount, HandlerSteps, WsdTypeOK
  <2> QED BY <1>9, <2>1 DEF ByeCount, Handler, WsdTypeOK, Frame
<1>10. CASE HandlerStep /\ ~ByeCount /\ ~ByeCrash /\ ~ByeFlag
  <2>1. frames # <<>> /\ Top \in Frame
    <3>1. frames # <<>>
      BY <1>10 DEF HandlerStep, ByeStore, ByeTemplate, ByeCat, ByeSend,
         ByeShutdown, Handler
    <3> QED BY <3>1, TopType
  <2>2. /\ Top.message \in Message /\ template_file \in Kinds
        /\ [Top.message EXCEPT !.kind = template_file] \in Message
    BY <1>0, <2>1 DEF Frame, WsdTypeOK
  <2>3. frames' \in Seq(Frame)
    BY <1>10, <2>2, HandlerEffect DEF HandlerStep, ByeStore, ByeTemplate, ByeCat,
       ByeSend, ByeShutdown, HandlerSteps
  <2>4. sent' \in Seq(Letter)
    <3>1. CASE ByeSend
      BY <2>2, <3>1, SendEffect DEF ByeSend
    <3>2. CASE ~ByeSend
      BY <1>10, <3>2 DEF HandlerStep, ByeStore, ByeTemplate, ByeCat, ByeShutdown,
         WsdTypeOK, Letter
    <3> QED BY <3>1, <3>2
  <2>5. UNCHANGED <<main, signals, message, received, raised, addr_in, addr_len,
                    mainLoop>>
    BY <1>10 DEF HandlerStep, ByeStore, ByeTemplate, ByeCat, ByeSend,
       ByeShutdown, Handler
  <2>6. /\ msg_number' \in Nat /\ template_file' \in Kinds
        /\ sock' \in {"none", "open", "shut"}
    BY <1>0, <1>10, <2>2 DEF HandlerStep, ByeStore, ByeTemplate, ByeCat, ByeSend,
       ByeShutdown, ShutDown, WsdTypeOK, Kinds
  <2> QED BY <2>3, <2>4, <2>5, <2>6 DEF WsdTypeOK, Frame, Letter
<1>11. CASE ByeCrash
  <2>1. main' \in MainSteps /\ frames' \in Seq(Frame)
    BY <1>11, EmptySeq DEF ByeCrash, MainSteps
  <2> QED BY <1>11, <2>1 DEF ByeCrash, ShutDown, WsdTypeOK, Frame
<1>12. CASE ByeFlag
  BY <1>12, PopEffect DEF ByeFlag, WsdTypeOK, Frame
<1> QED BY <1>1, <1>2, <1>3, <1>4, <1>5, <1>6, <1>7, <1>8, <1>9, <1>10, <1>11,
           <1>12 DEF WsdNext, MainStep, HandlerStep

-------------------------------------------------------------------------------
(* The messages sent. *)

(* What whoever sends must know of its message while the socket is open. *)
MaySend(by, m) ==
  /\ \A i \in DOMAIN sent : sent[i].message.no < m.no
  /\ ByeSent => m.kind = "Bye"
  /\ by = "handler" <=> m.kind = "Bye"
  /\ m.kind = "ProbeMatches" =>
       addr_in = m.rel \/ (addr_in = "group" /\ ~MatchesSent)
  /\ m.kind = "Bye" /\ HelloSent /\ received <= 1 => addr_in = "group"

(* One message more is in order, and adds its kind to those sent. *)
LEMMA SendKeeps ==
  ASSUME WsdTypeOK, SentInv, NEW by \in {"main", "handler"}, NEW m \in Message,
         Send(by, m), sock = "open" => MaySend(by, m)
  PROVE  /\ SentInv'
         /\ ByeSent' <=> ByeSent \/ (sock = "open" /\ m.kind = "Bye")
         /\ MatchesSent' <=> MatchesSent \/ (sock = "open" /\ m.kind = "ProbeMatches")
         /\ HelloSent' <=> HelloSent \/ (sock = "open" /\ m.kind = "Hello")
         /\ \A k \in Nat : (\A i \in DOMAIN sent : sent[i].message.no <= k)
                             /\ m.no <= k =>
              \A i \in DOMAIN sent' : sent'[i].message.no <= k
<1>1. CASE sock # "open"
  <2>1. sent' = sent
    BY <1>1 DEF Send
  <2> QED BY <1>1, <2>1 DEF SentInv, NumbersIncrease, ByeIsFinal, NoMixture,
          RightAddressee, ByeSent, MatchesSent, HelloSent
<1>2. CASE sock = "open"
  <2> DEFINE n == Len(sent) + 1
             new == [by |-> by, to |-> addr_in, message |-> m,
                     after |-> received]
  <2>1. /\ DOMAIN sent' = 1..n /\ DOMAIN sent = 1..(n - 1) /\ n \in Nat \ {0}
        /\ \A i \in 1..(n - 1) : sent'[i] = sent[i]
        /\ sent'[n] = new
    BY <1>2, SendEffect
  <2>2. /\ new.by = by /\ new.to = addr_in /\ new.message = m
        /\ new.after = received
    OBVIOUS
  <2>3. MaySend(by, m)
    BY <1>2
  <2> HIDE DEF n, new
  <2>4. \A i \in 1..n : i = n \/ i \in 1..(n - 1)
    BY <2>1
  <2>5. \A j \in 1..n : 1..(j - 1) \subseteq 1..(n - 1)
    BY <2>1
  <2>6. NumbersIncrease'
    <3> SUFFICES ASSUME NEW j \in 1..n, NEW i \in 1..(j - 1)
                 PROVE  sent'[i].message.no < sent'[j].message.no
      BY <2>1 DEF NumbersIncrease
    <3>1. i \in 1..(n - 1)
      BY <2>5
    <3>2. CASE j = n
      BY <2>1, <2>2, <2>3, <3>1, <3>2 DEF MaySend
    <3>3. CASE j \in 1..(n - 1)
      BY <2>1, <3>1, <3>3 DEF SentInv, NumbersIncrease
    <3> QED BY <2>4, <3>2, <3>3
  <2>7. ByeIsFinal'
    <3> SUFFICES ASSUME NEW j \in 1..n, NEW i \in 1..(j - 1),
                        sent'[i].message.kind = "Bye"
                 PROVE  sent'[j].message.kind = "Bye"
      BY <2>1 DEF ByeIsFinal
    <3>1. i \in 1..(n - 1)
      BY <2>5
    <3>2. CASE j = n
      BY <2>1, <2>2, <2>3, <3>1, <3>2 DEF MaySend, ByeSent
    <3>3. CASE j \in 1..(n - 1)
      BY <2>1, <3>1, <3>3 DEF SentInv, ByeIsFinal
    <3> QED BY <2>4, <3>2, <3>3
  <2>8. NoMixture'
    BY <2>1, <2>2, <2>3, <2>4 DEF SentInv, NoMixture, MaySend
  <2>9. RightAddressee'
    <3> DEFINE before(j) == {sent[i].message.kind : i \in 1..(j - 1)}
               after(j) == {sent'[i].message.kind : i \in 1..(j - 1)}
               Right(letter, kinds) ==
                 /\ letter.message.kind = "ProbeMatches" =>
                      \/ letter.to = letter.message.rel
                      \/ letter.to = "group" /\ "ProbeMatches" \notin kinds
                 /\ letter.message.kind = "Bye" /\ "Hello" \in kinds
                       /\ letter.after <= 1 => letter.to = "group"
    <3>1. ASSUME NEW j \in 1..n
          PROVE  after(j) = before(j)
      <4>1. \A i \in 1..(j - 1) : sent'[i] = sent[i]
        BY <2>1, <2>5, <3>1
      <4> QED BY <4>1
    <3>2. Right(new, before(n))
      <4>1. /\ "ProbeMatches" \in before(n) => MatchesSent
            /\ "Hello" \in before(n) => HelloSent
        BY <2>1 DEF MatchesSent, HelloSent
      <4> QED BY <2>2, <2>3, <4>1 DEF MaySend
    <3>3. ASSUME NEW j \in 1..(n - 1)
          PROVE  Right(sent[j], before(j))
      BY <2>1, <3>3 DEF SentInv, RightAddressee
    <3>4. ASSUME NEW j \in 1..n
          PROVE  Right(sent'[j], after(j))
      <4>1. CASE j = n
        BY <2>1, <3>1, <3>2, <4>1
      <4>2. CASE j \in 1..(n - 1)
        BY <2>1, <3>1, <3>3, <4>2
      <4> QED BY <2>4, <4>1, <4>2
    <3> QED BY <2>1, <3>4 DEF RightAddressee
  <2>10. \A k \in Nat : (\A i \in DOMAIN sent : sent[i].message.no <= k)
                          /\ m.no <= k =>
           \A i \in DOMAIN sent' : sent'[i].message.no <= k
    BY <2>1, <2>2, <2>4
  <2>11. /\ ByeSent' <=> ByeSent \/ m.kind = "Bye"
         /\ MatchesSent' <=> MatchesSent \/ m.kind = "ProbeMatches"
         /\ HelloSent' <=> HelloSent \/ m.kind = "Hello"
    <3>1. n \in 1..n /\ \A i \in 1..(n - 1) : i \in 1..n
      BY <2>1
    <3> QED BY <2>1, <2>2, <2>4, <3>1 DEF ByeSent, MatchesSent, HelloSent
  <2> QED BY <1>2, <2>6, <2>7, <2>8, <2>9, <2>10, <2>11 DEF SentInv
<1> QED BY <1>1, <1>2

-------------------------------------------------------------------------------
(* The steps. *)

LEMMA InitWsdInv == WsdInit => WsdInv
<1> SUFFICES ASSUME WsdInit PROVE WsdInv
  OBVIOUS
<1>1. WsdTypeOK
  <2>1. message \in Message /\ main \in MainSteps /\ addr_in \in Addressee
        /\ template_file \in Kinds
    BY DEF WsdInit, MainSteps, Kinds, Addressee, NoMessage, Message
  <2>2. frames \in Seq(Frame) /\ sent \in Seq(Letter)
    BY EmptySeq DEF WsdInit
  <2>3. /\ received \in 0..MaxReceived /\ raised \in 0..MaxSignals
        /\ msg_number \in Nat
    BY WsdAssumption DEF WsdInit
  <2> QED BY <2>1, <2>2, <2>3 DEF WsdInit, WsdTypeOK, Frame, Letter
<1>2. ~ByeSent /\ ~MatchesSent /\ ~HelloSent
  BY DEF WsdInit, ByeSent, MatchesSent, HelloSent
<1>3. SentInv
  BY DEF WsdInit, SentInv, NumbersIncrease, ByeIsFinal, NoMixture, RightAddressee
<1>4. SocketInv /\ FramesInv /\ ByeInv /\ MessageNumberInv /\ MainInv
  BY <1>2 DEF WsdInit, SocketInv, FramesInv, ByeInv, MessageNumberInv, MainInv, InLoop
<1>5. AddressInv
  BY <1>2 DEF WsdInit, AddressInv, InLoop
<1> QED BY <1>1, <1>3, <1>4, <1>5 DEF WsdInv

(* A step that sends nothing. *)
LEMMA SentUnchanged ==
  ASSUME SentInv, UNCHANGED sent
  PROVE  /\ SentInv'
         /\ ByeSent' <=> ByeSent
         /\ MatchesSent' <=> MatchesSent
         /\ HelloSent' <=> HelloSent
BY DEF SentInv, NumbersIncrease, ByeIsFinal, NoMixture, RightAddressee, ByeSent,
   MatchesSent, HelloSent

(* The fields of a message that is written to. *)
LEMMA MessageFields ==
  /\ NoMessage.kind = "none" /\ NoMessage.no = 0 /\ NoMessage.rel = Nobody
  /\ \A n : LET m == [NoMessage EXCEPT !.no = n]
            IN m.kind = "none" /\ m.no = n /\ m.rel = Nobody
  /\ \A p : LET m == [NoMessage EXCEPT !.rel = p]
            IN m.kind = "none" /\ m.no = 0 /\ m.rel = p
  /\ \A o \in Message : \A n : LET m == [o EXCEPT !.no = n]
            IN m.kind = o.kind /\ m.no = n /\ m.rel = o.rel
  /\ \A o \in Message : \A k : LET m == [o EXCEPT !.kind = k]
            IN m.kind = k /\ m.no = o.no /\ m.rel = o.rel
BY DEF NoMessage, Message

(* What the steps of main that send nothing have in common. *)
Silent ==
  /\ sent' = sent
  /\ ByeSent' <=> ByeSent
  /\ MatchesSent' <=> MatchesSent
  /\ HelloSent' <=> HelloSent
  /\ At = main /\ Made = message /\ At' = main' /\ Made' = message'
  /\ frames = <<>> /\ frames' = <<>>
  /\ sock = "open" => ~ByeSent
  /\ message \in Message
  /\ sent = <<>> => ~ByeSent /\ ~MatchesSent /\ ~HelloSent
  /\ \A i \in DOMAIN sent : sent # <<>> /\ sent[i].message.no \in Nat

LEMMA MainFrame ==
  ASSUME WsdInv, frames = <<>>, frames' = <<>>, sent' = sent
  PROVE  Silent /\ SentInv' /\ FramesInv'
<1>1. SentInv /\ WsdTypeOK /\ ByeInv
  BY DEF WsdInv
<1>2. \A i \in DOMAIN sent : sent # <<>> /\ sent[i].message.no \in Nat
  BY <1>1, SentTypes
<1> QED BY <1>1, <1>2, SentUnchanged
        DEF FramesInv, At, Made, ByeInv, WsdTypeOK, ByeSent, MatchesSent, HelloSent,
            Silent

LEMMA BeginKeeps ==
  ASSUME WsdInv,
         SocketBegin \/ HelloNumber \/ HelloTemplate \/ HelloCat \/ EnableLoop
  PROVE  SocketInv' /\ ByeInv' /\ MessageNumberInv' /\ MainInv' /\ AddressInv'
<1>1. frames = <<>> /\ frames' = <<>> /\ sent' = sent
  BY DEF SocketBegin, HelloNumber, HelloTemplate, HelloCat, EnableLoop, Main
<1>2. Silent
  BY <1>1, MainFrame
<1>3. /\ SocketInv /\ ByeInv /\ MessageNumberInv /\ MainInv /\ AddressInv
      /\ msg_number \in Nat /\ addr_len \in BOOLEAN /\ mainLoop \in BOOLEAN
  BY DEF WsdInv, WsdTypeOK
<1>4. /\ HelloNumber => message'.no = 1
      /\ HelloCat => message'.kind = template_file /\ message'.no = message.no
  BY <1>2 DEF HelloNumber, HelloCat, Silent, NoMessage, Message
<1>5. SocketBegin \/ HelloNumber \/ HelloTemplate \/ HelloCat \/ EnableLoop
  OBVIOUS
<1> USE DEF SocketBegin, HelloNumber, HelloTemplate, HelloCat, EnableLoop, Main,
        ShutDown, shared, counts
<1>6. SocketInv'
  BY <1>2, <1>3 DEF SocketInv, Silent
<1>7. ByeInv'
  BY <1>2, <1>3 DEF ByeInv, SocketInv, InLoop, Silent
<1>8. MessageNumberInv'
  BY <1>2, <1>3, <1>4 DEF MessageNumberInv, SocketInv, MainInv, Silent
<1>9. MainInv'
  BY <1>2, <1>3, <1>4 DEF MainInv, SocketInv, Silent
<1>10. AddressInv'
  <2>1. /\ addr_in' = addr_in \/ addr_in' = "group"
        /\ main' = "send hello" => addr_in' = "group"
        /\ addr_len' = addr_len /\ received' = received
        /\ main' = "test" => main = "enable"
        /\ main' \in {"number", "hello", "cat hello", "send hello", "test", "failed"}
    BY <1>5
  <2> QED BY <1>2, <1>3, <2>1 DEF AddressInv, InLoop, Silent
<1> QED BY <1>6, <1>7, <1>8, <1>9, <1>10

(* main in its loop. *)
LEMMA LoopKeeps ==
  ASSUME WsdInv,
         \/ TestLoop \/ ReceiveNothing \/ MatchCount \/ MatchStore
         \/ MatchTemplate \/ MatchCat \/ Leave
  PROVE  SocketInv' /\ ByeInv' /\ MessageNumberInv' /\ MainInv' /\ AddressInv'
<1>1. frames = <<>> /\ frames' = <<>> /\ sent' = sent
  BY DEF TestLoop, ReceiveNothing, MatchCount, MatchStore, MatchTemplate,
     MatchCat, Leave, Main
<1>2. Silent
  BY <1>1, MainFrame
<1>3. /\ SocketInv /\ ByeInv /\ MessageNumberInv /\ MainInv /\ AddressInv
      /\ msg_number \in Nat /\ addr_len \in BOOLEAN /\ mainLoop \in BOOLEAN
  BY DEF WsdInv, WsdTypeOK
<1>4. message.no \in Nat /\ message \in Message
  BY DEF WsdInv, WsdTypeOK, Message
<1> USE DEF Main, ShutDown, shared, counts
<1>5. CASE MatchCount
  <2>1. message'.no = msg_number + 1 /\ message'.rel = message.rel
    BY <1>4, <1>5 DEF MatchCount, Message
  <2> QED BY <1>2, <1>3, <2>1, <1>5 DEF MatchCount, SocketInv, ByeInv, MessageNumberInv,
          MainInv, AddressInv, InLoop, Silent
<1>6. CASE MatchCat
  <2>1. /\ message'.no = message.no /\ message'.rel = message.rel
        /\ main' = "send" => message'.kind = template_file
    BY <1>4, <1>6 DEF MatchCat, Message
  <2> QED BY <1>2, <1>3, <2>1, <1>6 DEF MatchCat, SocketInv, ByeInv, MessageNumberInv,
          MainInv, AddressInv, InLoop, Silent
<1>7. CASE MatchStore
  BY <1>2, <1>3, <1>4, <1>7 DEF MatchStore, SocketInv, ByeInv, MessageNumberInv, MainInv,
     AddressInv, InLoop, Silent
<1>8. CASE MatchTemplate
  BY <1>2, <1>3, <1>4, <1>8 DEF MatchTemplate, SocketInv, ByeInv, MessageNumberInv,
     MainInv, AddressInv, InLoop, Silent
<1>9. CASE TestLoop
  <2>1. /\ main = "test" /\ main' \in {"receive", "shutdown"}
        /\ main' = "shutdown" => ~mainLoop
        /\ UNCHANGED <<sock, addr_in, addr_len, mainLoop, msg_number, received>>
    BY <1>9 DEF TestLoop
  <2> QED BY <1>2, <1>3, <2>1 DEF SocketInv, ByeInv, MessageNumberInv, MainInv,
          AddressInv, InLoop, Silent
<1>10. CASE ReceiveNothing
  BY <1>2, <1>3, <1>10 DEF ReceiveNothing, SocketInv, ByeInv, MessageNumberInv,
     MainInv, AddressInv, InLoop, Silent
<1>11. CASE Leave
  BY <1>2, <1>3, <1>11 DEF Leave, SocketInv, ByeInv, MessageNumberInv, MainInv,
     AddressInv, InLoop, Silent
<1> QED BY <1>5, <1>6, <1>7, <1>8, <1>9, <1>10, <1>11

LEMMA ReceiveKeeps ==
  ASSUME WsdInv, NEW p \in Probers, Receive(p)
  PROVE  SocketInv' /\ ByeInv' /\ MessageNumberInv' /\ MainInv' /\ AddressInv'
<1>1. frames = <<>> /\ frames' = <<>> /\ sent' = sent
  BY DEF Receive, Main
<1>2. Silent
  BY <1>1, MainFrame
<1>3. /\ SocketInv /\ ByeInv /\ MessageNumberInv /\ MainInv /\ AddressInv
      /\ msg_number \in Nat /\ addr_len \in BOOLEAN /\ mainLoop \in BOOLEAN
  BY DEF WsdInv, WsdTypeOK
<1>4. received \in Nat
  BY WsdAssumption DEF WsdInv, WsdTypeOK
<1>5. /\ main = "receive" /\ main' \in {"test", "count"}
      /\ sock' = sock /\ mainLoop' = mainLoop /\ msg_number' = msg_number
      /\ template_file' = template_file
  BY DEF Receive, Main
<1>6. main' = "count" => message'.rel \in {p, Nobody}
  BY DEF Receive, Main, NoMessage
<1>7. SocketInv' /\ ByeInv'
  BY <1>2, <1>3, <1>5 DEF SocketInv, ByeInv, InLoop, Silent
<1>8. MessageNumberInv' /\ MainInv'
  BY <1>2, <1>3, <1>5 DEF MessageNumberInv, MainInv, Silent
<1>9. AddressInv'
  <2>1. received' = received + 1 /\ addr_len'
    BY DEF Receive
  <2>2. addr_len => addr_in' = p
    BY <1>3 DEF Receive
  <2>3. ~addr_len => addr_in' = addr_in
    BY <1>3 DEF Receive
  <2>4. received' > 0 /\ (received' <= 1 => received = 0)
    BY <1>4, <2>1
  <2>5. CASE received = 0
    <3>1. ~addr_len /\ addr_in = "group" /\ ~MatchesSent /\ ~MatchesSent'
      BY <1>2, <1>3, <1>5, <2>5 DEF AddressInv, InLoop, Silent
    <3>2. addr_in' = "group" /\ main' # "send hello"
      BY <1>5, <2>3, <3>1
    <3> QED BY <1>5, <2>1, <2>4, <3>1, <3>2 DEF AddressInv
  <2>6. CASE received # 0
    <3>1. addr_in' = p
      <4>1. addr_len
        BY <1>3, <2>6 DEF AddressInv
      <4> QED BY <2>2, <4>1
    <3> QED BY <1>5, <1>6, <2>1, <2>4, <2>6, <3>1 DEF AddressInv
  <2> QED BY <2>5, <2>6
<1> QED BY <1>7, <1>8, <1>9

(* main sends. *)
LEMMA MainSendKeeps ==
  ASSUME WsdInv, HelloSend \/ MatchSend
  PROVE  /\ SocketInv' /\ FramesInv' /\ ByeInv' /\ MessageNumberInv' /\ MainInv'
         /\ AddressInv' /\ SentInv'
<1>1. frames = <<>> /\ frames' = <<>> /\ Send("main", message)
  BY DEF HelloSend, MatchSend, Main
<1>2. UNCHANGED <<message, sock, addr_in, addr_len, mainLoop, msg_number,
                  template_file, received>>
  BY DEF HelloSend, MatchSend, Main, shared, counts
<1>3. /\ main \in {"send hello", "send"}
      /\ main = "send hello" => main' \in {"enable", "failed"}
      /\ main = "send hello" /\ sock # "open" => main' = "failed"
      /\ main = "send" => main' = "test"
  BY DEF HelloSend, MatchSend, Main
<1>4. SocketInv /\ ByeInv /\ MessageNumberInv /\ MainInv /\ AddressInv
  BY DEF WsdInv
<1>5. msg_number \in Nat /\ message \in Message /\ received \in Nat
  BY WsdAssumption DEF WsdInv, WsdTypeOK
<1>6. At = main /\ Made = message /\ At' = main' /\ Made' = message'
  BY <1>1 DEF At, Made
<1>7. sock = "open" => ~ByeSent /\ message.kind \in {"Hello", "ProbeMatches"}
  <2>1. sock = "open" => ~ByeSent
    BY <1>1, <1>4 DEF ByeInv
  <2>2. sock = "open" => message.kind \in {"Hello", "ProbeMatches"}
    BY <1>1, <1>3, <1>4 DEF MainInv
  <2> QED BY <2>1, <2>2
<1>8. sock = "open" => MaySend("main", message)
  <2>1. sock = "open" => \A i \in DOMAIN sent : sent[i].message.no < message.no
    BY <1>3, <1>4, <1>6 DEF MessageNumberInv
  <2>2. sock = "open" /\ message.kind = "ProbeMatches" => main = "send"
    BY <1>1, <1>3, <1>4 DEF MainInv
  <2> QED BY <1>4, <1>7, <2>1, <2>2 DEF MaySend, AddressInv
<1>9. /\ SentInv'
      /\ ByeSent' <=> ByeSent \/ (sock = "open" /\ message.kind = "Bye")
      /\ MatchesSent' <=> MatchesSent
                            \/ (sock = "open" /\ message.kind = "ProbeMatches")
      /\ HelloSent' <=> HelloSent \/ (sock = "open" /\ message.kind = "Hello")
      /\ \A k \in Nat : (\A i \in DOMAIN sent : sent[i].message.no <= k)
                             /\ message.no <= k =>
              \A i \in DOMAIN sent' : sent'[i].message.no <= k
  BY <1>1, <1>5, <1>8, SendKeeps DEF WsdInv
<1>10. SocketInv'
  BY <1>1, <1>2, <1>3, <1>4 DEF SocketInv, Send
<1>11. FramesInv'
  BY <1>1 DEF FramesInv
<1>12. ByeInv'
  BY <1>1, <1>2, <1>3, <1>4, <1>7, <1>9 DEF ByeInv, InLoop, SocketInv
<1>13. MessageNumberInv'
  <2>1. sock = "open" => message.no = msg_number
    BY <1>3, <1>4, <1>6 DEF MessageNumberInv
  <2>2. sock = "open" => \A i \in DOMAIN sent' : sent'[i].message.no <= msg_number
    <3>1. sock = "open" => \A i \in DOMAIN sent : sent[i].message.no <= msg_number
      BY <1>4 DEF MessageNumberInv
    <3>2. sock = "open" => message.no <= msg_number
      BY <1>5, <2>1
    <3> QED BY <1>5, <1>9, <3>1, <3>2
  <2> QED BY <1>2, <1>3, <1>6, <2>2 DEF MessageNumberInv
<1>14. MainInv'
  BY <1>3 DEF MainInv
<1>15. AddressInv'
  <2>1. sock = "open" /\ message.kind = "ProbeMatches" => received > 0
    BY <1>1, <1>3, <1>4, <1>5 DEF AddressInv, MainInv
  <2> QED BY <1>2, <1>3, <1>4, <1>5, <1>9, <2>1 DEF AddressInv, InLoop
<1> QED BY <1>9, <1>10, <1>11, <1>12, <1>13, <1>14, <1>15

(* The innermost handler, between its beginning and its end. *)
HandlerMoves ==
  /\ frames # <<>> /\ frames' # <<>>
  /\ At = Top.at /\ Made = Top.message /\ At' = Top'.at /\ Made' = Top'.message
  /\ Len(frames) \in DOMAIN frames /\ DOMAIN frames' = DOMAIN frames
  /\ frames[Len(frames)] = Top /\ frames'[Len(frames)] = Top'
  /\ \A i \in DOMAIN frames :
       \/ frames'[i] = frames[i] /\ i # Len(frames)
       \/ frames'[i] = Top' /\ i = Len(frames)

LEMMA HandlerFrame ==
  ASSUME WsdTypeOK, NEW from, NEW to \in HandlerSteps, NEW m \in Message,
         Handler(from, to, m)
  PROVE  /\ HandlerMoves
         /\ Top.at = from /\ Top.message \in Message
         /\ Top'.at = to /\ Top'.message = m
         /\ UNCHANGED <<main, signals, message, received, raised>>
<1>1. /\ frames # <<>> /\ frames' # <<>> /\ Len(frames) \in DOMAIN frames
      /\ DOMAIN frames' = DOMAIN frames
      /\ Top.at = from /\ Top.message \in Message
      /\ Top'.at = to /\ Top'.message = m
      /\ \A i \in DOMAIN frames :
           \/ frames'[i] = frames[i] /\ i # Len(frames)
           \/ frames'[i] = Top' /\ frames[i] = Top /\ i = Len(frames)
  BY HandlerEffect
<1>2. At = Top.at /\ Made = Top.message /\ At' = Top'.at /\ Made' = Top'.message
  BY <1>1 DEF At, Made
<1>3. UNCHANGED <<main, signals, message, received, raised>>
  BY DEF Handler, counts
<1> QED BY <1>1, <1>2, <1>3 DEF HandlerMoves

(* What a handler's step that sends nothing may do. *)
Harmless ==
  /\ UNCHANGED <<main, message, received, sent, addr_in, addr_len, mainLoop>>
  /\ sock' = sock \/ (sock' = "shut" /\ sock = "open" /\ ByeSent)
  /\ Top.at = "shutdown" => sock' # "open"
  /\ Top'.at = "cat" => template_file' = "Bye"
  /\ template_file' = template_file \/ template_file' = "Bye"
  /\ Top'.at = "send" => Top'.message.kind = "Bye"
  /\ Top'.at \in {"shutdown", "flag"} /\ sock' # "none" => ByeSent
  /\ Top'.at = "flag" => sock' # "open"

LEMMA HandlerKeeps ==
  ASSUME WsdInv, HandlerMoves, Harmless
  PROVE  SocketInv' /\ FramesInv' /\ ByeInv' /\ MainInv' /\ AddressInv' /\ SentInv'
<1> USE DEF Harmless
<1>1. SocketInv /\ FramesInv /\ ByeInv /\ AddressInv /\ SentInv
  BY DEF WsdInv
<1>2. sock \in {"none", "open", "shut"}
  BY DEF WsdInv, WsdTypeOK
<1>3. /\ SentInv' /\ (ByeSent' <=> ByeSent) /\ (MatchesSent' <=> MatchesSent)
      /\ (HelloSent' <=> HelloSent)
  BY <1>1, SentUnchanged
<1>4. sock = "none" => ~ByeSent
  BY <1>1 DEF SocketInv, ByeSent
<1>5. SocketInv'
  BY <1>1 DEF SocketInv, HandlerMoves
<1>6. FramesInv'
  BY <1>1, <1>3 DEF FramesInv, HandlerMoves
<1>7. ByeInv'
  <2>1. ByeSent' => \/ sock' = "shut"
                    \/ \E i \in DOMAIN frames' : frames'[i].at = "shutdown"
    <3>1. CASE sock' = "open" /\ ByeSent
      <4>1. PICK i \in DOMAIN frames : frames[i].at = "shutdown"
        BY <1>1, <3>1 DEF ByeInv
      <4>2. i # Len(frames)
        BY <3>1, <4>1 DEF HandlerMoves
      <4>3. i \in DOMAIN frames' /\ frames'[i] = frames[i]
        BY <4>2 DEF HandlerMoves
      <4> QED BY <4>1, <4>3
    <3> QED BY <1>2, <1>3, <1>4, <3>1
  <2> QED BY <1>1, <1>3, <2>1 DEF ByeInv, InLoop
<1>8. MainInv'
  BY DEF MainInv, HandlerMoves
<1>9. AddressInv'
  BY <1>1, <1>3 DEF AddressInv, InLoop
<1> QED BY <1>3, <1>5, <1>6, <1>7, <1>8, <1>9

LEMMA ByeKeeps ==
  ASSUME WsdInv,
         ByeCount \/ ByeStore \/ ByeTemplate \/ ByeCat \/ ByeShutdown
  PROVE  /\ SocketInv' /\ FramesInv' /\ ByeInv' /\ MessageNumberInv' /\ MainInv'
         /\ AddressInv' /\ SentInv'
<1>1. WsdTypeOK /\ FramesInv /\ MessageNumberInv /\ SocketInv
  BY DEF WsdInv
<1>2. /\ msg_number \in Nat /\ template_file \in Kinds
      /\ sock \in {"none", "open", "shut"}
      /\ \A m \in Message : m.no \in Nat /\ [m EXCEPT !.kind = template_file] \in Message
      /\ [NoMessage EXCEPT !.no = msg_number + 1] \in Message
  BY <1>1 DEF WsdTypeOK, Message, NoMessage, Kinds
<1> USE DEF shared
<1>3. CASE ByeCount
  <2>1. /\ HandlerMoves /\ UNCHANGED <<main, signals, message, received, raised>>
        /\ Top.at = "count" /\ Top'.at = "store"
        /\ Top'.message = [NoMessage EXCEPT !.no = msg_number + 1]
    BY <1>1, <1>2, <1>3, HandlerFrame DEF ByeCount, HandlerSteps
  <2>2. Top'.message.no = msg_number + 1
    BY <2>1 DEF NoMessage
  <2>3. UNCHANGED <<sock, addr_in, addr_len, mainLoop, msg_number, template_file, sent>>
    BY <1>3 DEF ByeCount
  <2>4. MessageNumberInv'
    BY <1>1, <2>1, <2>2, <2>3 DEF MessageNumberInv, HandlerMoves
  <2>9. Harmless
    BY <2>1, <2>3 DEF Harmless
  <2> QED BY <2>1, <2>4, <2>9, HandlerKeeps
<1>4. CASE ByeStore
  <2>1. frames # <<>> /\ Top.message \in Message
    BY <1>1, <1>4, TopType DEF ByeStore, Handler
  <2>2. /\ HandlerMoves /\ UNCHANGED <<main, signals, message, received, raised>>
        /\ Top.at = "store" /\ Top'.at = "template"
        /\ Top'.message = Top.message
    BY <1>1, <1>4, <2>1, HandlerFrame DEF ByeStore, HandlerSteps
  <2>3. /\ UNCHANGED <<sock, addr_in, addr_len, mainLoop, template_file, sent>>
        /\ msg_number' = Top.message.no
    BY <1>4 DEF ByeStore
  <2>4. MessageNumberInv'
    <3>1. sock = "open" => msg_number' = msg_number + 1
      BY <1>1, <2>2, <2>3 DEF MessageNumberInv, HandlerMoves
    <3>2. sock = "open" => \A i \in DOMAIN sent : sent[i].message.no <= msg_number
      BY <1>1 DEF MessageNumberInv
    <3>3. \A i \in DOMAIN sent : sent[i].message.no \in Nat
      BY <1>1, SentTypes
    <3>4. sock = "open" => \A i \in DOMAIN sent : /\ sent[i].message.no < msg_number'
                                                 /\ sent[i].message.no <= msg_number'
      BY <1>2, <3>1, <3>2, <3>3
    <3> QED BY <2>2, <2>3, <3>4 DEF MessageNumberInv, HandlerMoves
  <2>9. Harmless
    BY <2>2, <2>3 DEF Harmless
  <2> QED BY <2>2, <2>4, <2>9, HandlerKeeps
<1>5. CASE ByeTemplate
  <2>1. frames # <<>> /\ Top.message \in Message
    BY <1>1, <1>5, TopType DEF ByeTemplate, Handler
  <2>2. /\ HandlerMoves /\ UNCHANGED <<main, signals, message, received, raised>>
        /\ Top.at = "template" /\ Top'.at = "cat" /\ Top'.message = Top.message
    BY <1>1, <1>5, <2>1, HandlerFrame DEF ByeTemplate, HandlerSteps
  <2>3. /\ UNCHANGED <<sock, addr_in, addr_len, mainLoop, msg_number, sent>>
        /\ template_file' = "Bye"
    BY <1>5 DEF ByeTemplate
  <2>4. MessageNumberInv'
    BY <1>1, <2>2, <2>3 DEF MessageNumberInv, HandlerMoves
  <2>9. Harmless
    BY <2>2, <2>3 DEF Harmless
  <2> QED BY <2>2, <2>4, <2>9, HandlerKeeps
<1>6. CASE ByeCat
  <2> DEFINE m == [Top.message EXCEPT !.kind = template_file]
  <2>1. frames # <<>> /\ Top.message \in Message
    BY <1>1, <1>6, TopType DEF ByeCat, Handler
  <2>2. m.kind = template_file /\ m.no = Top.message.no
    BY <2>1 DEF Message
  <2>3. m \in Message /\ Handler("cat", "send", m)
    BY <1>2, <1>6, <2>1 DEF ByeCat
  <2> HIDE DEF m
  <2>4. /\ HandlerMoves /\ UNCHANGED <<main, signals, message, received, raised>>
        /\ Top.at = "cat" /\ Top'.at = "send" /\ Top'.message = m
    BY <1>1, <2>3, HandlerFrame DEF HandlerSteps
  <2>5. UNCHANGED <<sock, addr_in, addr_len, mainLoop, msg_number, template_file, sent>>
    BY <1>6 DEF ByeCat
  <2>6. template_file = "Bye"
    BY <1>1, <2>4 DEF FramesInv, HandlerMoves
  <2>7. MessageNumberInv'
    BY <1>1, <2>2, <2>4, <2>5 DEF MessageNumberInv, HandlerMoves
  <2>9. Harmless
    BY <2>2, <2>4, <2>5, <2>6 DEF Harmless
  <2> QED BY <2>4, <2>7, <2>9, HandlerKeeps
<1>7. CASE ByeShutdown
  <2>1. frames # <<>> /\ Top.message \in Message
    BY <1>1, <1>7, TopType DEF ByeShutdown, Handler
  <2>2. /\ HandlerMoves /\ UNCHANGED <<main, signals, message, received, raised>>
        /\ Top.at = "shutdown" /\ Top'.at = "flag" /\ Top'.message = Top.message
    BY <1>1, <1>7, <2>1, HandlerFrame DEF ByeShutdown, HandlerSteps
  <2>3. /\ UNCHANGED <<addr_in, addr_len, mainLoop, msg_number, template_file, sent>>
        /\ sock = "none" => sock' = "none"
        /\ sock # "none" => sock' = "shut"
    BY <1>7 DEF ByeShutdown, ShutDown
  <2>4. sock # "none" => ByeSent
    BY <1>1, <2>2 DEF FramesInv, HandlerMoves
  <2>5. MessageNumberInv'
    BY <2>3 DEF MessageNumberInv
  <2>9. Harmless
    BY <1>2, <2>2, <2>3, <2>4 DEF Harmless
  <2> QED BY <2>2, <2>5, <2>9, HandlerKeeps
<1> QED BY <1>3, <1>4, <1>5, <1>6, <1>7

(* A handler sends its Bye, if the socket is open. *)
LEMMA ByeSendKeeps ==
  ASSUME WsdInv, ByeSend
  PROVE  /\ SocketInv' /\ FramesInv' /\ ByeInv' /\ MessageNumberInv' /\ MainInv'
         /\ AddressInv' /\ SentInv'
<1>1. WsdTypeOK /\ SocketInv /\ FramesInv /\ ByeInv /\ MessageNumberInv /\ AddressInv
      /\ SentInv
  BY DEF WsdInv
<1>2. sock \in {"none", "open", "shut"} /\ msg_number \in Nat
  BY <1>1 DEF WsdTypeOK
<1>3. frames # <<>> /\ Top.message \in Message
  BY <1>1, TopType DEF ByeSend, Handler
<1>4. /\ HandlerMoves /\ UNCHANGED <<main, signals, message, received, raised>>
      /\ Top.at = "send" /\ Top'.at = "shutdown" /\ Top'.message = Top.message
  BY <1>1, <1>3, HandlerFrame DEF ByeSend, HandlerSteps
<1>5. /\ UNCHANGED <<sock, addr_in, addr_len, mainLoop, msg_number, template_file>>
      /\ Send("handler", Top.message)
  BY DEF ByeSend, shared
<1>6. Top.message.kind = "Bye"
  BY <1>1, <1>4 DEF FramesInv, HandlerMoves
<1>7. sock = "open" => /\ Top.message.no = msg_number
                       /\ \A i \in DOMAIN sent : sent[i].message.no < Top.message.no
  BY <1>1, <1>4 DEF MessageNumberInv, HandlerMoves
<1>8. sock = "open" => MaySend("handler", Top.message)
  BY <1>1, <1>6, <1>7 DEF MaySend, AddressInv
<1>9. /\ SentInv'
      /\ ByeSent' <=> ByeSent \/ (sock = "open" /\ Top.message.kind = "Bye")
      /\ MatchesSent' <=> MatchesSent
                            \/ (sock = "open" /\ Top.message.kind = "ProbeMatches")
      /\ HelloSent' <=> HelloSent \/ (sock = "open" /\ Top.message.kind = "Hello")
      /\ \A k \in Nat : (\A i \in DOMAIN sent : sent[i].message.no <= k)
                             /\ Top.message.no <= k =>
              \A i \in DOMAIN sent' : sent'[i].message.no <= k
  BY <1>1, <1>3, <1>5, <1>8, SendKeeps
<1>10. /\ ByeSent' <=> ByeSent \/ sock = "open"
       /\ MatchesSent' <=> MatchesSent
       /\ HelloSent' <=> HelloSent
  BY <1>6, <1>9
<1>11. SocketInv'
  BY <1>1, <1>3, <1>4, <1>5 DEF SocketInv, Send, HandlerMoves
<1>12. sock # "none" => ByeSent'
  <2>1. sock = "shut" => ByeSent
    <3>1. CASE main = "failed"
      BY <1>1, <1>3, <3>1 DEF SocketInv
    <3> QED BY <1>1, <3>1 DEF ByeInv
  <2> QED BY <1>2, <1>10, <2>1
<1>13. FramesInv'
  BY <1>1, <1>4, <1>5, <1>10, <1>12 DEF FramesInv, HandlerMoves
<1>14. ByeInv'
  <2>1. \E i \in DOMAIN frames' : frames'[i].at = "shutdown"
    BY <1>4 DEF HandlerMoves
  <2> QED BY <1>1, <1>4, <1>5, <1>10, <2>1 DEF ByeInv, InLoop
<1>15. MessageNumberInv'
  <2>1. sock = "open" => \A i \in DOMAIN sent : sent[i].message.no <= msg_number
    BY <1>1 DEF MessageNumberInv
  <2>2. sock = "open" => Top.message.no <= msg_number
    BY <1>2, <1>7
  <2>3. sock = "open" => \A i \in DOMAIN sent' : sent'[i].message.no <= msg_number
    BY <1>2, <1>9, <2>1, <2>2
  <2> QED BY <1>4, <1>5, <2>3 DEF MessageNumberInv, HandlerMoves
<1>16. MainInv'
  BY <1>4 DEF MainInv, HandlerMoves
<1>17. AddressInv'
  BY <1>1, <1>4, <1>5, <1>10 DEF AddressInv, InLoop
<1> QED BY <1>9, <1>11, <1>13, <1>14, <1>15, <1>16, <1>17

(* A handler ends: the socket is shut. *)
LEMMA ByeEndKeeps ==
  ASSUME WsdInv, ByeFlag \/ ByeCrash
  PROVE  /\ SocketInv' /\ FramesInv' /\ ByeInv' /\ MessageNumberInv' /\ MainInv'
         /\ AddressInv' /\ SentInv'
<1>1. WsdTypeOK /\ SocketInv /\ FramesInv /\ ByeInv /\ AddressInv /\ SentInv
  BY DEF WsdInv
<1>2. /\ frames # <<>> /\ Len(frames) \in DOMAIN frames
      /\ frames[Len(frames)] = Top
      /\ sock \in {"none", "open", "shut"} /\ mainLoop' = FALSE
      /\ UNCHANGED <<message, addr_in, addr_len, msg_number, template_file, sent,
                     received>>
  BY <1>1, TopType DEF ByeFlag, ByeCrash, Top, WsdTypeOK, counts
<1>3. /\ SentInv' /\ (ByeSent' <=> ByeSent) /\ (MatchesSent' <=> MatchesSent)
      /\ (HelloSent' <=> HelloSent)
  BY <1>1, <1>2, SentUnchanged
<1>4. sock = "none" => ~ByeSent
  BY <1>1 DEF SocketInv, ByeSent
<1>5. CASE ByeFlag
  <2>1. /\ DOMAIN frames' \subseteq DOMAIN frames
        /\ \A i \in DOMAIN frames' : frames'[i] = frames[i]
        /\ Top.at = "flag" /\ main' = main /\ sock' = sock
    BY <1>1, <1>2, <1>5, PopEffect DEF ByeFlag
  <2>2. sock # "open" /\ (sock # "none" => ByeSent)
    BY <1>1, <1>2, <2>1 DEF FramesInv
  <2>3. SocketInv'
    BY <1>1, <1>2, <2>1 DEF SocketInv
  <2>4. FramesInv'
    BY <1>1, <1>2, <1>3, <2>1 DEF FramesInv
  <2>5. ByeInv'
    BY <1>1, <1>2, <1>3, <1>4, <2>1, <2>2 DEF ByeInv, SocketInv, InLoop
  <2>6. MessageNumberInv' /\ MainInv'
    BY <2>1, <2>2 DEF MessageNumberInv, MainInv
  <2>7. AddressInv'
    BY <1>1, <1>2, <1>3, <2>1 DEF AddressInv, InLoop
  <2> QED BY <1>3, <2>3, <2>4, <2>5, <2>6, <2>7
<1>6. CASE ByeCrash
  <2>1. /\ frames' = <<>> /\ main' = "failed"
        /\ sock = "none" => sock' = "none"
        /\ sock # "none" => sock' = "shut"
    BY <1>6 DEF ByeCrash, ShutDown
  <2>2. SocketInv'
    BY <1>1, <1>2, <2>1 DEF SocketInv
  <2>3. FramesInv'
    BY <2>1 DEF FramesInv
  <2>4. ByeInv'
    BY <1>2, <1>3, <1>4, <2>1 DEF ByeInv, InLoop
  <2>5. MessageNumberInv' /\ MainInv'
    BY <1>2, <2>1 DEF MessageNumberInv, MainInv
  <2>6. AddressInv'
    BY <1>1, <1>2, <1>3, <2>1 DEF AddressInv, InLoop
  <2> QED BY <1>3, <2>2, <2>3, <2>4, <2>5, <2>6
<1> QED BY <1>5, <1>6

(* A handler begins. *)
LEMMA DeliverKeeps ==
  ASSUME WsdInv, NEW s \in Signals, Deliver(s)
  PROVE  /\ SocketInv' /\ FramesInv' /\ ByeInv' /\ MessageNumberInv' /\ MainInv'
         /\ AddressInv' /\ SentInv'
<1>1. WsdTypeOK /\ SocketInv /\ FramesInv /\ ByeInv /\ MessageNumberInv /\ AddressInv
      /\ SentInv
  BY DEF WsdInv
<1>2. UNCHANGED <<main, sock, addr_in, addr_len, mainLoop, msg_number,
                  template_file, message, sent, received>> /\ main # "failed"
  BY DEF Deliver, shared, counts, Ended
<1>3. /\ SentInv' /\ (ByeSent' <=> ByeSent) /\ (MatchesSent' <=> MatchesSent)
      /\ (HelloSent' <=> HelloSent)
  BY <1>1, <1>2, SentUnchanged
<1>4. /\ frames' # <<>>
      /\ DOMAIN frames' = DOMAIN frames \cup {Len(frames) + 1}
      /\ \A i \in DOMAIN frames : frames'[i] = frames[i]
      /\ frames'[Len(frames) + 1].at = "count"
      /\ Top'.at = "count"
  BY <1>1, PushEffect
<1>5. At' = "count"
  BY <1>4 DEF At
<1>6. SocketInv'
  BY <1>1, <1>2 DEF SocketInv
<1>7. FramesInv'
  BY <1>1, <1>2, <1>3, <1>4 DEF FramesInv
<1>8. ByeInv'
  BY <1>1, <1>2, <1>3, <1>4 DEF ByeInv, InLoop
<1>9. MessageNumberInv'
  BY <1>1, <1>2, <1>5 DEF MessageNumberInv
<1>10. MainInv'
  BY <1>4 DEF MainInv
<1>11. AddressInv'
  BY <1>1, <1>2, <1>3 DEF AddressInv, InLoop
<1> QED BY <1>3, <1>6, <1>7, <1>8, <1>9, <1>10, <1>11

LEMMA WsdStep == WsdInv /\ [WsdNext]_wsdVars => WsdInv'
<1> SUFFICES ASSUME WsdInv, [WsdNext]_wsdVars PROVE WsdInv'
  OBVIOUS
<1>1. WsdTypeOK'
  BY WsdTypeStep DEF WsdInv
<1>2. CASE \/ UNCHANGED wsdVars
           \/ \E s \in Signals : Raise(s)
  <2>1. UNCHANGED <<main, frames, shared, message, sent, received>>
    BY <1>2 DEF Raise, wsdVars, counts
  <2>2. /\ SocketInv /\ FramesInv /\ ByeInv /\ MessageNumberInv /\ MainInv /\ AddressInv
        /\ SentInv
    BY DEF WsdInv
  <2>3. At' = At /\ Made' = Made
    BY <2>1 DEF At, Made, Top
  <2>4. /\ SentInv' /\ (ByeSent' <=> ByeSent) /\ (MatchesSent' <=> MatchesSent)
        /\ (HelloSent' <=> HelloSent)
    BY <2>1, <2>2, SentUnchanged
  <2>5. SocketInv' /\ FramesInv' /\ ByeInv'
    BY <2>1, <2>2, <2>4 DEF SocketInv, FramesInv, ByeInv, InLoop, shared
  <2>6. MessageNumberInv' /\ MainInv'
    BY <2>1, <2>2, <2>3 DEF MessageNumberInv, MainInv, shared
  <2>7. AddressInv'
    BY <2>1, <2>2, <2>4 DEF AddressInv, InLoop, shared
  <2> QED BY <1>1, <2>4, <2>5, <2>6, <2>7 DEF WsdInv
<1>3. CASE \/ SocketBegin \/ HelloNumber \/ HelloTemplate \/ HelloCat \/ EnableLoop
           \/ TestLoop \/ ReceiveNothing \/ MatchCount \/ MatchStore
           \/ MatchTemplate \/ MatchCat \/ Leave
           \/ \E p \in Probers : Receive(p)
  <2>1. frames = <<>> /\ frames' = <<>> /\ sent' = sent
    BY <1>3 DEF SocketBegin, HelloNumber, HelloTemplate, HelloCat, EnableLoop,
       TestLoop, ReceiveNothing, MatchCount, MatchStore, MatchTemplate,
       MatchCat, Leave, Receive, Main
  <2>2. SentInv' /\ FramesInv'
    BY <2>1, MainFrame
  <2> QED BY <1>1, <1>3, <2>2, BeginKeeps, LoopKeeps, ReceiveKeeps DEF WsdInv
<1>4. CASE HelloSend \/ MatchSend
  BY <1>1, <1>4, MainSendKeeps DEF WsdInv
<1>5. CASE HandlerStep
  BY <1>1, <1>5, ByeKeeps, ByeSendKeeps, ByeEndKeeps DEF WsdInv, HandlerStep
<1>6. CASE \E s \in Signals : Deliver(s)
  BY <1>1, <1>6, DeliverKeeps DEF WsdInv
<1> QED BY <1>2, <1>3, <1>4, <1>5, <1>6 DEF WsdNext, MainStep

-------------------------------------------------------------------------------
(* The theorems. *)

(* Every variable keeps its type, for any number of hosts, signals and     *)
(* messages.                                                               *)
THEOREM WsdTypesHold == WsdSpec => []WsdTypeOK
<1>1. WsdInv => WsdTypeOK
  BY DEF WsdInv
<1> QED BY <1>1, InitWsdInv, WsdStep, PTL DEF WsdSpec

(* No MessageNumber is used twice and none goes back, although main and    *)
(* handlers that interrupt each other count with the same variable.        *)
THEOREM NumbersAreNew == WsdSpec => []NumbersIncrease
<1>1. WsdInv => NumbersIncrease
  BY DEF WsdInv, SentInv
<1> QED BY <1>1, InitWsdInv, WsdStep, PTL DEF WsdSpec

(* Nothing but another Bye follows a Bye, wherever the signal arrived.     *)
THEOREM NothingAfterBye == WsdSpec => []ByeIsFinal
<1>1. WsdInv => ByeIsFinal
  BY DEF WsdInv, SentInv
<1> QED BY <1>1, InitWsdInv, WsdStep, PTL DEF WsdSpec

(* The template that a handler names never ends up in a message of main,   *)
(* nor main's in a Bye.                                                    *)
THEOREM NoMessageIsMixed == WsdSpec => []NoMixture
<1>1. WsdInv => NoMixture
  BY DEF WsdInv, SentInv
<1> QED BY <1>1, InitWsdInv, WsdStep, PTL DEF WsdSpec

(* A Probe is answered to its sender, or, the first one, to the group; the *)
(* Bye goes to the group as long as no second message has come.            *)
THEOREM AnswersFindSender == WsdSpec => []RightAddressee
<1>1. WsdInv => RightAddressee
  BY DEF WsdInv, SentInv
<1> QED BY <1>1, InitWsdInv, WsdStep, PTL DEF WsdSpec

(* A program that leaves its loop has said Bye before. *)
THEOREM GoodEndsSayBye == WsdSpec => []EndsWithBye
<1>1. WsdInv => EndsWithBye
  BY DEF WsdInv, ByeInv, EndsWithBye, ByeSent
<1> QED BY <1>1, InitWsdInv, WsdStep, PTL DEF WsdSpec

-------------------------------------------------------------------------------
(* The way out of the loop. *)

(* A handler has run to its end while main was in its loop. *)
OnTheWayOut == InLoop /\ ~mainLoop

(* How many steps main still takes from there, at most: a message that is  *)
(* received yet is answered, and then the loop is left.                    *)
StepsLeft ==
  CASE main = "receive" -> 8
    [] main = "count" -> 7
    [] main = "store" -> 6
    [] main = "template" -> 5
    [] main = "cat" -> 4
    [] main = "send" -> 3
    [] main = "test" -> 2
    [] main = "shutdown" -> 1
    [] OTHER -> 0

(* recvfrom does not wait any more. *)
OutInv ==
  /\ OnTheWayOut => sock = "shut"
  /\ main = "shutdown" => ~mainLoop

LEMMA OutStep ==
  ASSUME WsdInv, OutInv, [WsdNext]_wsdVars
  PROVE  OutInv'
<1>1. SocketInv /\ FramesInv /\ WsdTypeOK
  BY DEF WsdInv
<1> USE DEF OutInv, OnTheWayOut, InLoop
<1>2. CASE \/ SocketBegin \/ HelloNumber \/ HelloTemplate \/ HelloCat
           \/ HelloSend \/ EnableLoop
  BY <1>2 DEF SocketBegin, HelloNumber, HelloTemplate, HelloCat, HelloSend,
     EnableLoop, Main
<1>3. CASE \/ TestLoop \/ ReceiveNothing \/ MatchCount \/ MatchStore
           \/ MatchTemplate \/ MatchCat \/ MatchSend \/ Leave
           \/ \E p \in Probers : Receive(p)
  BY <1>3 DEF TestLoop, ReceiveNothing, MatchCount, MatchStore, MatchTemplate,
     MatchCat, MatchSend, Leave, Receive, Main, ShutDown, shared
<1>4. CASE ByeCount \/ ByeStore \/ ByeTemplate \/ ByeCat \/ ByeSend
  BY <1>4 DEF ByeCount, ByeStore, ByeTemplate, ByeCat, ByeSend, Handler, shared
<1>5. CASE ByeShutdown
  BY <1>5 DEF ByeShutdown, Handler, ShutDown
<1>6. CASE ByeCrash
  BY <1>6 DEF ByeCrash
<1>7. CASE ByeFlag
  <2>1. Len(frames) \in DOMAIN frames
    BY <1>1, <1>7, EmptySeq, LenProperties DEF ByeFlag, WsdTypeOK
  <2>2. sock # "open"
    BY <1>1, <1>7, <2>1 DEF ByeFlag, Top, FramesInv
  <2>3. InLoop => sock # "none"
    BY <1>1 DEF SocketInv
  <2>4. sock \in {"none", "open", "shut"}
    BY <1>1 DEF WsdTypeOK
  <2> QED BY <1>7, <2>2, <2>3, <2>4 DEF ByeFlag
<1>8. CASE \/ UNCHANGED wsdVars \/ \E s \in Signals : Raise(s) \/ Deliver(s)
  <2>1. UNCHANGED <<main, sock, mainLoop>>
    BY <1>8 DEF Raise, Deliver, wsdVars, shared
  <2> QED BY <2>1
<1> QED BY <1>2, <1>3, <1>4, <1>5, <1>6, <1>7, <1>8
        DEF WsdNext, MainStep, HandlerStep

LEMMA MainMoves == MainStep => main' # main
BY DEF MainStep, SocketBegin, HelloNumber, HelloTemplate, HelloCat, HelloSend,
   EnableLoop, TestLoop, ReceiveNothing, MatchCount, MatchStore, MatchTemplate,
   MatchCat, MatchSend, Leave, Main

(* The core of SignalEndsLoop, without its fairness: a signal that has     *)
(* been handled inside the loop is not forgotten, the socket is shut so    *)
(* that main does not wait in recvfrom, and every step that main takes     *)
(* brings it nearer to the end, whatever arrives and whichever other       *)
(* signals are handled meanwhile.                                          *)
THEOREM SignalLeadsOut ==
  WsdSpec => /\ [](OnTheWayOut => sock = "shut")
             /\ [][OnTheWayOut => /\ OnTheWayOut' \/ Ended'
                                  /\ main' = main \/ StepsLeft' < StepsLeft
                                  /\ MainStep => main' # main]_wsdVars
<1> DEFINE A == OnTheWayOut => /\ OnTheWayOut' \/ Ended'
                               /\ main' = main \/ StepsLeft' < StepsLeft
                               /\ MainStep => main' # main
           Shut == OnTheWayOut => sock = "shut"
<1>1. WsdInit => OutInv
  BY DEF WsdInit, OutInv, OnTheWayOut, InLoop
<1>2. OutInv => Shut
  BY DEF OutInv
<1>3. ASSUME WsdInv, OutInv, [WsdNext]_wsdVars PROVE [A]_wsdVars
  <2> SUFFICES ASSUME OnTheWayOut
               PROVE  /\ OnTheWayOut' \/ Ended'
                      /\ main' = main \/ StepsLeft' < StepsLeft
    BY MainMoves
  <2> USE DEF OnTheWayOut, InLoop, Ended, StepsLeft
  <2>1. CASE \/ SocketBegin \/ HelloNumber \/ HelloTemplate \/ HelloCat
             \/ HelloSend \/ EnableLoop
    BY <2>1 DEF SocketBegin, HelloNumber, HelloTemplate, HelloCat, HelloSend,
       EnableLoop, Main
  <2>2. CASE TestLoop \/ ReceiveNothing \/ MatchCount \/ MatchStore
    BY <2>2 DEF TestLoop, ReceiveNothing, MatchCount, MatchStore, Main, shared
  <2>3. CASE MatchTemplate \/ MatchCat \/ MatchSend \/ Leave
    BY <2>3 DEF MatchTemplate, MatchCat, MatchSend, Leave, Main, shared
  <2>4. CASE \E p \in Probers : Receive(p)
    BY <2>4 DEF Receive, Main
  <2>5. CASE HandlerStep
    BY <2>5 DEF HandlerStep, ByeCount, ByeStore, ByeTemplate, ByeCat, ByeSend,
       ByeShutdown, ByeCrash, ByeFlag, Handler, shared
  <2>6. CASE \/ UNCHANGED wsdVars \/ \E s \in Signals : Raise(s) \/ Deliver(s)
    <3>1. UNCHANGED <<main, mainLoop>>
      BY <2>6 DEF Raise, Deliver, wsdVars, shared
    <3> QED BY <3>1
  <2> QED BY <1>3, <2>1, <2>2, <2>3, <2>4, <2>5, <2>6 DEF WsdNext, MainStep
<1>4. WsdInv /\ OutInv /\ [WsdNext]_wsdVars => OutInv'
  BY OutStep
<1> QED BY <1>1, <1>2, <1>3, <1>4, InitWsdInv, WsdStep, PTL DEF WsdSpec

===============================================================================
