----------------------------- MODULE SerialLine -----------------------------
(***************************************************************************)
(* devices/backends/synta/protocol.py: the wire format of the Sky-Watcher  *)
(* motor controller, and SyntaLink.command, the conversation of one        *)
(* request and one reply at a time that every thread of the mount holds    *)
(* over one serial line.                                                   *)
(*                                                                         *)
(* A request may be lost or garbled on its way, and so may its reply.  One *)
(* that is not answered properly is sent again, once.  Characters are      *)
(* abstracted to the bytes they spell, a reply to the exchange it answers  *)
(* and to how it begins.                                                   *)
(***************************************************************************)
EXTENDS Integers, Sequences

CONSTANTS
  Threads,    (* worker threads with a command to send                      *)
  Nobody,     (* the lock is free                                           *)
  Prompt,     (* a reply that comes at all comes within REPLY_TIMEOUT_S     *)
  MaxExchanges(* a bound: the commands sent                                 *)

-----------------------------------------------------------------------------
(* The wire format                                                         *)

Byte == 0..255
HOME_COUNTS == 8388608

\* encode24: the low byte first, of the value's last 24 bits.
Encode24(value) == <<value % 256, (value \div 256) % 256, (value \div 65536) % 256>>

\* decode24: one, two or three bytes.
Decode24(bytes) ==
  LET byte(i) == IF i <= Len(bytes) THEN bytes[i] ELSE 0
  IN  byte(1) + 256 * byte(2) + 65536 * byte(3)

\* set_position, and position: an axis counts from the middle of the range.
SetPosition(counts) == Encode24(counts + HOME_COUNTS)
Position(bytes) == Decode24(bytes) - HOME_COUNTS

\* set_goto_target: a magnitude; the way is in the motion mode.
SetGotoTarget(increment) == Encode24(IF increment < 0 THEN -increment ELSE increment)

\* set_motion_mode's first digit: "fast" is not the same digit for a goto and
\* for a constant rate.
MotionMode(goto, fast) == IF goto THEN (IF fast THEN 0 ELSE 2) ELSE (IF fast THEN 3 ELSE 1)

\* AxisStatus.parse: three digits of one bit field each.
Bit(digit, n) == (digit \div n) % 2 = 1
AxisStatus(digits) ==
  [slewing |-> Bit(digits[1], 1), backward |-> Bit(digits[1], 2), fast |-> Bit(digits[1], 4),
   running |-> Bit(digits[2], 1), blocked |-> Bit(digits[2], 2),
   initialised |-> Bit(digits[3], 1), level_switch |-> Bit(digits[3], 2)]

-----------------------------------------------------------------------------
(* The conversation                                                        *)

\* How a reply begins: "=", whole or cut short; "!"; or anything else.
Form == {"value", "cut", "refusal", "noise"}
Reply == [to : Nat, form : Form]
None == [to |-> 0, form |-> "noise"]

VARIABLES
  pc,        (* where each thread is                                        *)
  holder,    (* _lock                                                       *)
  attempt,   (* the holder's attempt, 1 or 2                                *)
  exchange,  (* commands begun so far: the number of the newest             *)
  asked,     (* the exchange of each thread's last command                  *)
  requests,  (* those on their way to the controller, by exchange           *)
  coming,    (* the replies on their way back, by exchange                  *)
  input,     (* what has arrived and has not been read                      *)
  ran,       (* how often the controller has obeyed the newest exchange     *)
  answer     (* the reply each thread's last command returned               *)

vars == <<pc, holder, attempt, exchange, asked, requests, coming, input, ran, answer>>

Goes(t, phase) == pc' = [pc EXCEPT ![t] = phase]

\* Under the lock: the first attempt.
Begin(t) ==
  /\ pc[t] = "idle" /\ holder = Nobody
  /\ exchange < MaxExchanges
  /\ holder' = t
  /\ attempt' = 1
  /\ exchange' = exchange + 1
  /\ asked' = [asked EXCEPT ![t] = exchange + 1]
  /\ ran' = 0
  /\ answer' = [answer EXCEPT ![t] = None]
  /\ Goes(t, "sending")
  /\ UNCHANGED <<requests, coming, input>>

\* Transport.reset, which discards what has arrived, and write.
Send(t) ==
  /\ pc[t] = "sending"
  /\ input' = <<>>
  /\ requests' = Append(requests, exchange)
  /\ Goes(t, "reading")
  /\ UNCHANGED <<holder, attempt, exchange, asked, coming, ran, answer>>

\* The lock is given up, with or without an answer.
Return(t) == Goes(t, "idle") /\ holder' = Nobody /\ UNCHANGED attempt

\* A garbled reply, or none: again, or an error.
TryAgain(t) ==
  IF attempt = 1 THEN Goes(t, "sending") /\ attempt' = 2 /\ UNCHANGED holder
                 ELSE Return(t)

\* What has arrived begins as the first reply in it does: "=" is an answer,
\* however much of it there is, "!" an error.
Read(t) ==
  /\ pc[t] = "reading" /\ input # <<>>
  /\ input' = <<>>
  /\ \/ /\ Head(input).form \in {"value", "cut"}
        /\ answer' = [answer EXCEPT ![t] = Head(input)]
        /\ Return(t)
     \/ /\ Head(input).form = "refusal"
        /\ Return(t) /\ UNCHANGED answer
     \/ /\ Head(input).form = "noise"
        /\ TryAgain(t) /\ UNCHANGED answer
  /\ UNCHANGED <<exchange, asked, requests, coming, ran>>

\* REPLY_TIMEOUT_S is over.
TimeOut(t) ==
  /\ pc[t] = "reading" /\ input = <<>>
  /\ Prompt => requests = <<>> /\ coming = <<>>
  /\ TryAgain(t)
  /\ UNCHANGED <<exchange, asked, requests, coming, input, ran, answer>>

\* The controller gets the request, obeys or refuses it, and replies; a request
\* that arrives garbled is refused, or is nothing to it.
Obey ==
  /\ requests # <<>>
  /\ requests' = Tail(requests)
  /\ ran' = IF Head(requests) = exchange THEN ran + 1 ELSE ran
  /\ coming' = Append(coming, [to |-> Head(requests), form |-> "value"])
  /\ UNCHANGED <<pc, holder, attempt, exchange, asked, input, answer>>

Refuse ==
  /\ requests # <<>>
  /\ requests' = Tail(requests)
  /\ coming' = Append(coming, [to |-> Head(requests), form |-> "refusal"])
  /\ UNCHANGED <<pc, holder, attempt, exchange, asked, input, ran, answer>>

LoseRequest ==
  /\ requests # <<>>
  /\ requests' = Tail(requests)
  /\ UNCHANGED <<pc, holder, attempt, exchange, asked, coming, input, ran, answer>>

\* A reply arrives, garbled or cut short perhaps; or it is lost.
Arrive ==
  /\ coming # <<>>
  /\ \E form \in {Head(coming).form, "noise"} \cup
                 (IF Head(coming).form = "value" THEN {"cut"} ELSE {}) :
       input' = Append(input, [to |-> Head(coming).to, form |-> form])
  /\ coming' = Tail(coming)
  /\ UNCHANGED <<pc, holder, attempt, exchange, asked, requests, ran, answer>>

LoseReply ==
  /\ coming # <<>>
  /\ coming' = Tail(coming)
  /\ UNCHANGED <<pc, holder, attempt, exchange, asked, requests, input, ran, answer>>

Init ==
  /\ pc = [t \in Threads |-> "idle"]
  /\ holder = Nobody
  /\ attempt = 1
  /\ exchange = 0
  /\ requests = <<>>
  /\ asked = [t \in Threads |-> 0]
  /\ coming = <<>>
  /\ input = <<>>
  /\ ran = 0
  /\ answer = [t \in Threads |-> None]

Next ==
  \/ \E t \in Threads : Begin(t) \/ Send(t) \/ Read(t) \/ TimeOut(t)
  \/ Obey \/ Refuse \/ LoseRequest \/ Arrive \/ LoseReply

Spec == Init /\ [][Next]_vars

-----------------------------------------------------------------------------
(* Properties                                                              *)

TypeOK ==
  /\ pc \in [Threads -> {"idle", "sending", "reading"}]
  /\ holder \in Threads \cup {Nobody}
  /\ attempt \in {1, 2}
  /\ exchange \in Nat
  /\ asked \in [Threads -> Nat]
  /\ requests \in Seq(Nat)
  /\ coming \in Seq(Reply)
  /\ input \in Seq(Reply)
  /\ ran \in Nat
  /\ answer \in [Threads -> Reply]

\* "two overlapping requests on one serial line read each other's answers":
\* with a prompt controller no thread is ever given the answer to a command
\* that was not its own, whatever is lost, garbled and sent again.
AnswerIsOwn ==
  Prompt => \A t \in Threads : answer[t] # None => answer[t].to = asked[t]

\* "Retried once on a garbled reply": a command is obeyed at most once for each
\* time it was sent, and one that is answered has been.
ObeyedAsSent ==
  Prompt => /\ ran <= attempt
            /\ \A i \in DOMAIN input :
                 input[i].form \in {"value", "cut"} => ran >= 1

=============================================================================
