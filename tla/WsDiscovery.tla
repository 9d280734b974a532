------------------------------ MODULE WsDiscovery ------------------------------
(***************************************************************************)
(* wsd_simple_server: the process that announces the camera with a Hello,  *)
(* answers the Probes of others with ProbeMatches, and says Bye when it    *)
(* gets a SIGTERM or SIGINT (src/Cross/wsd_simple_server.c).               *)
(*                                                                         *)
(* signal_handler sends the Bye itself: it runs between any two steps of   *)
(* main, or of the handler of the other signal, and shares the socket, the *)
(* address, msg_number and template_file with them.  What keeps the two    *)
(* apart is the shutdown of the socket at its end.                         *)
(***************************************************************************)
EXTENDS Naturals, Sequences

CONSTANTS
  Probers,      (* hosts that send to the port of the discovery             *)
  Signals,      (* those with a handler: SIGTERM and SIGINT                 *)
  MaxReceived,  (* bound: messages received                                 *)
  MaxSignals    (* bound: signals sent to the process                       *)

CONSTANT Nobody (* not a host                                               *)

ASSUME WsdAssumption ==
  /\ Nobody \notin Probers
  /\ Probers \cap {"any", "group"} = {} /\ Nobody \notin {"any", "group"}
  /\ MaxReceived \in Nat
  /\ MaxSignals \in Nat

VARIABLES
  main,          (* where main is                                           *)
  frames,        (* the handlers that run, the innermost last; main and     *)
                 (* the outer ones stand still meanwhile                    *)
  signals,       (* signals not yet delivered                               *)
  sock,          (* "none", "open" or "shut"                                *)
  addr_in,       (* whom socket_send sends to                               *)
  addr_len,      (* FALSE while addr_len is 0                               *)
  mainLoop,
  msg_number,
  template_file,
  message,       (* main's message in the making: [kind, no, to answer]     *)
  sent,          (* what left the socket, in order; "after" so many messages *)
                 (* received                                                *)
  received,      (* messages received so far                                *)
  raised         (* signals sent so far                                     *)

shared == <<sock, addr_in, addr_len, mainLoop, msg_number, template_file>>
counts == <<received, raised>>
wsdVars == <<main, frames, signals, shared, message, sent, counts>>

Kinds == {"none", "Hello", "ProbeMatches", "Bye"}
NoMessage == [kind |-> "none", no |-> 0, rel |-> Nobody]
Message == [kind : Kinds, no : Nat, rel : Probers \cup {Nobody}]
Addressee == {"any", "group"} \cup Probers

MainSteps == {"start", "number", "hello", "cat hello", "send hello", "enable",
              "test", "receive", "count", "store", "template", "cat", "send",
              "shutdown", "done", "failed"}
HandlerSteps == {"count", "store", "template", "cat", "send", "shutdown", "flag"}

WsdTypeOK ==
  /\ main \in MainSteps
  /\ frames \in Seq([signal : Signals, at : HandlerSteps, message : Message])
  /\ signals \subseteq Signals
  /\ sock \in {"none", "open", "shut"}
  /\ addr_in \in Addressee
  /\ addr_len \in BOOLEAN
  /\ mainLoop \in BOOLEAN
  /\ msg_number \in Nat
  /\ template_file \in Kinds
  /\ message \in Message
  /\ sent \in Seq([by : {"main", "handler"}, to : Addressee, message : Message,
                     after : Nat])
  /\ received \in 0..MaxReceived
  /\ raised \in 0..MaxSignals

(* Both signals have their handler; nothing else has been done. *)
WsdInit ==
  /\ main = "start"
  /\ frames = <<>>
  /\ signals = {}
  /\ sock = "none"
  /\ addr_in = "any"
  /\ addr_len = FALSE
  /\ mainLoop = FALSE
  /\ msg_number = 0
  /\ template_file = "none"
  /\ message = NoMessage
  /\ sent = <<>>
  /\ received = 0
  /\ raised = 0

Ended == main \in {"done", "failed"}

-------------------------------------------------------------------------------
(* socket_send: on a socket that is shut down it fails. *)
Send(by, m) ==
  sent' = IF sock = "open"
            THEN Append(sent, [by |-> by, to |-> addr_in, message |-> m,
                               after |-> received])
            ELSE sent

(* shutdown(): no further message leaves, and recvfrom no longer waits.    *)
ShutDown == sock' = IF sock = "none" THEN sock ELSE "shut"

(* main, which a handler interrupts at any step. *)
Main(from, to) == frames = <<>> /\ main = from /\ main' = to

(* The directory of the templates is looked for, an address is waited for  *)
(* (for as long as it takes), the socket is opened, bound and joined to    *)
(* the group.                                                              *)
SocketBegin ==
  /\ \/ Main("start", "number") /\ sock' = "open"
     \/ Main("start", "failed") /\ sock' \in {"none", "shut"}
  /\ UNCHANGED <<frames, signals, addr_in, addr_len, mainLoop, msg_number,
                 template_file, message, sent, counts>>

HelloNumber ==
  /\ Main("number", "hello")
  /\ msg_number' = 1
  /\ message' = [NoMessage EXCEPT !.no = 1]
  /\ UNCHANGED <<frames, signals, sock, addr_in, addr_len, mainLoop,
                 template_file, sent, counts>>

(* Without memory for the message the program ends. *)
HelloTemplate ==
  /\ \/ Main("hello", "cat hello") /\ UNCHANGED sock
     \/ Main("hello", "failed") /\ ShutDown
  /\ template_file' = "Hello"
  /\ UNCHANGED <<frames, signals, addr_in, addr_len, mainLoop, msg_number,
                 message, sent, counts>>

HelloCat ==
  /\ Main("cat hello", "send hello")
  /\ message' = [message EXCEPT !.kind = template_file]
  /\ addr_in' = "group"
  /\ UNCHANGED <<frames, signals, sock, addr_len, mainLoop, msg_number,
                 template_file, sent, counts>>

(* The program ends if the Hello cannot be sent; else it sleeps a second.  *)
HelloSend ==
  /\ Main("send hello", IF sock = "open" THEN "enable" ELSE "failed")
  /\ Send("main", message)
  /\ UNCHANGED <<frames, signals, shared, message, counts>>

(* mainLoop = true, whatever a handler has made of it before. *)
EnableLoop ==
  /\ Main("enable", "test")
  /\ mainLoop' = TRUE
  /\ UNCHANGED <<frames, signals, sock, addr_in, addr_len, msg_number,
                 template_file, message, sent, counts>>

TestLoop ==
  /\ Main("test", IF mainLoop THEN "receive" ELSE "shutdown")
  /\ UNCHANGED <<frames, signals, shared, message, sent, counts>>

(* Mutant: addr_len is set to the size from the beginning. *)
ReceiveAtOnce(p) ==
  /\ received < MaxReceived
  /\ Main("receive", "test")
  /\ addr_in' = p
  /\ received' = received + 1
  /\ UNCHANGED <<frames, signals, sock, addr_len, mainLoop, msg_number,
                 template_file, message, sent, raised>>

(* recvfrom stores the sender in addr_in, in as many bytes as addr_len     *)
(* says: none the first time.  A Probe (with or without a MessageID) is    *)
(* counted, anything else ignored.                                         *)
Receive(p) ==
  /\ received < MaxReceived
  /\ \/ Main("receive", "test") /\ UNCHANGED message
     \/ /\ Main("receive", "count")
        /\ \E rel \in {p, Nobody} : message' = [NoMessage EXCEPT !.rel = rel]
  /\ addr_in' = IF addr_len THEN p ELSE addr_in
  /\ addr_len' = TRUE
  /\ received' = received + 1
  /\ UNCHANGED <<frames, signals, sock, mainLoop, msg_number, template_file,
                 sent, raised>>

(* recvfrom on a socket that was shut down comes back with nothing. *)
ReceiveNothing ==
  /\ sock = "shut"
  /\ Main("receive", "test")
  /\ UNCHANGED <<frames, signals, shared, message, sent, counts>>

(* msg_number++ is a load and a store. *)
MatchCount ==
  /\ Main("count", "store")
  /\ message' = [message EXCEPT !.no = msg_number + 1]
  /\ UNCHANGED <<frames, signals, shared, sent, counts>>

(* A Probe without MessageID is left here. *)
MatchStore ==
  /\ Main("store", IF message.rel = Nobody THEN "test" ELSE "template")
  /\ msg_number' = message.no
  /\ UNCHANGED <<frames, signals, sock, addr_in, addr_len, mainLoop,
                 template_file, message, sent, counts>>

MatchTemplate ==
  /\ Main("template", "cat")
  /\ template_file' = "ProbeMatches"
  /\ UNCHANGED <<frames, signals, sock, addr_in, addr_len, mainLoop,
                 msg_number, message, sent, counts>>

(* Without memory there is no answer. *)
MatchCat ==
  /\ \/ /\ Main("cat", "send")
        /\ message' = [message EXCEPT !.kind = template_file]
     \/ Main("cat", "test") /\ UNCHANGED message
  /\ UNCHANGED <<frames, signals, shared, sent, counts>>

MatchSend ==
  /\ Main("send", "test")
  /\ Send("main", message)
  /\ UNCHANGED <<frames, signals, shared, message, counts>>

Leave ==
  /\ Main("shutdown", "done")
  /\ ShutDown
  /\ UNCHANGED <<frames, signals, addr_in, addr_len, mainLoop, msg_number,
                 template_file, message, sent, counts>>

-------------------------------------------------------------------------------
(* Signals. *)

Raise(s) ==
  /\ ~Ended
  /\ raised < MaxSignals
  /\ raised' = raised + 1
  /\ signals' = signals \cup {s}
  /\ UNCHANGED <<main, frames, shared, message, sent, received>>

(* A signal waits while its own handler runs; the other one does not. *)
Deliver(s) ==
  /\ ~Ended
  /\ s \in signals
  /\ \A i \in DOMAIN frames : frames[i].signal # s
  /\ signals' = signals \ {s}
  /\ frames' = Append(frames, [signal |-> s, at |-> "count",
                               message |-> NoMessage])
  /\ UNCHANGED <<main, shared, message, sent, counts>>

(* The innermost handler, which nothing but a handler interrupts. *)
Top == frames[Len(frames)]

Handler(from, to, m) ==
  /\ frames # <<>>
  /\ Top.at = from
  /\ frames' = [frames EXCEPT ![Len(frames)].at = to,
                              ![Len(frames)].message = m]
  /\ UNCHANGED <<main, signals, message, counts>>

(* Mutant: the number is not incremented. *)
ByeCountNot ==
  /\ Handler("count", "store", [NoMessage EXCEPT !.no = msg_number])
  /\ UNCHANGED <<shared, sent>>

ByeCount ==
  /\ Handler("count", "store", [NoMessage EXCEPT !.no = msg_number + 1])
  /\ UNCHANGED <<shared, sent>>

ByeStore ==
  /\ Handler("store", "template", Top.message)
  /\ msg_number' = Top.message.no
  /\ UNCHANGED <<sock, addr_in, addr_len, mainLoop, template_file, sent>>

ByeTemplate ==
  /\ Handler("template", "cat", Top.message)
  /\ template_file' = "Bye"
  /\ UNCHANGED <<sock, addr_in, addr_len, mainLoop, msg_number, sent>>

ByeCat ==
  /\ frames # <<>>
  /\ Handler("cat", "send", [Top.message EXCEPT !.kind = template_file])
  /\ UNCHANGED <<shared, sent>>

(* Without memory the handler goes on with a null pointer: a crash. *)
ByeCrash ==
  /\ frames # <<>> /\ Top.at = "cat"
  /\ main' = "failed"
  /\ frames' = <<>>
  /\ ShutDown
  /\ mainLoop' = FALSE
  /\ UNCHANGED <<signals, addr_in, addr_len, msg_number, template_file, message,
                 sent, counts>>

(* addr_in is whatever main has left there. *)
ByeSend ==
  /\ Handler("send", "shutdown", Top.message)
  /\ Send("handler", Top.message)
  /\ UNCHANGED shared

(* Mutant: the socket is not shut down. *)
ByeShutdownNot ==
  /\ Handler("shutdown", "flag", Top.message)
  /\ UNCHANGED <<shared, sent>>

ByeShutdown ==
  /\ Handler("shutdown", "flag", Top.message)
  /\ ShutDown
  /\ UNCHANGED <<addr_in, addr_len, mainLoop, msg_number, template_file, sent>>

ByeFlag ==
  /\ frames # <<>> /\ Top.at = "flag"
  /\ mainLoop' = FALSE
  /\ frames' = SubSeq(frames, 1, Len(frames) - 1)
  /\ UNCHANGED <<main, signals, sock, addr_in, addr_len, msg_number,
                 template_file, message, sent, counts>>

-------------------------------------------------------------------------------

MainStep ==
  \/ SocketBegin \/ HelloNumber \/ HelloTemplate \/ HelloCat \/ HelloSend
  \/ EnableLoop \/ TestLoop \/ ReceiveNothing
  \/ MatchCount \/ MatchStore \/ MatchTemplate \/ MatchCat \/ MatchSend
  \/ Leave

HandlerStep ==
  \/ ByeCount \/ ByeStore \/ ByeTemplate \/ ByeCat \/ ByeCrash \/ ByeSend
  \/ ByeShutdown \/ ByeFlag

WsdNext ==
  \/ MainStep \/ HandlerStep
  \/ \E p \in Probers : Receive(p)
  \/ \E s \in Signals : Raise(s) \/ Deliver(s)

WsdSpec == WsdInit /\ [][WsdNext]_wsdVars

(* The process runs, and signals reach it.  That anybody sends it anything *)
(* is not assumed.                                                         *)
WsdFairness ==
  /\ WF_wsdVars(MainStep)
  /\ WF_wsdVars(HandlerStep)
  /\ \A s \in Signals : WF_wsdVars(Deliver(s))

WsdFairSpec == WsdSpec /\ WsdFairness

-------------------------------------------------------------------------------
(* Properties. *)

InLoop == main \in {"test", "receive", "count", "store", "template", "cat",
                  "send", "shutdown"}

(* MessageNumber grows from one message to the next, although main and the *)
(* handlers, of which one may interrupt the other, increment the same      *)
(* variable with a load and a store: the one who was interrupted never     *)
(* gets to send the number that was used in between.                       *)
NumbersIncrease ==
  \A j \in DOMAIN sent : \A i \in 1..(j - 1) :
    sent[i].message.no < sent[j].message.no

(* After a Bye there is nothing but, at most, the Bye of the handler that  *)
(* was interrupted: no ProbeMatches that was being made and no Hello takes *)
(* it back.                                                                *)
ByeIsFinal ==
  \A j \in DOMAIN sent : \A i \in 1..(j - 1) :
    sent[i].message.kind = "Bye" => sent[j].message.kind = "Bye"

(* template_file and msg_uuid are shared: what the handler writes there    *)
(* never ends up in a message of main.                                     *)
NoMixture ==
  \A i \in DOMAIN sent :
    (sent[i].by = "handler") <=> (sent[i].message.kind = "Bye")

(* addr_in is where the last message came from: a Probe is answered to the *)
(* one who sent it (only the first answer can go to the group instead,     *)
(* when its Probe was the first message received, while addr_len was 0),   *)
(* but the Bye goes to the group that got the Hello only as long as no     *)
(* second message has been received.                                       *)
RightAddressee ==
  \A j \in DOMAIN sent :
    LET before == {sent[i].message.kind : i \in 1..(j - 1)}
    IN /\ sent[j].message.kind = "ProbeMatches" =>
            \/ sent[j].to = sent[j].message.rel
            \/ sent[j].to = "group" /\ "ProbeMatches" \notin before
       /\ sent[j].message.kind = "Bye" /\ "Hello" \in before
             /\ sent[j].after <= 1 => sent[j].to = "group"

(* A program that ends well has said Bye. *)
EndsWithBye ==
  main = "done" => \E i \in DOMAIN sent : sent[i].message.kind = "Bye"

(* A signal that arrives once the loop has been entered ends the program,  *)
(* whether main waits in recvfrom, is about to or answers a Probe, and     *)
(* though nobody may ever send to the port again.                          *)
SignalEndsLoop == (InLoop /\ signals # {}) ~> Ended

===============================================================================
