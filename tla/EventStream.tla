----------------------------- MODULE EventStream -----------------------------
(***************************************************************************)
(* The EventBus of core/events.py and its one kind of subscriber, the      *)
(* WebSocket handler of api/ws.py: what is published goes to a ring buffer *)
(* and to a bounded queue for each subscriber, and a dashboard that        *)
(* connects is sent the buffer, then the current state, then its queue.    *)
(*                                                                         *)
(* One piece of state is followed (the guiding state, say): its successive *)
(* values are numbered, and a message is the number it carries, or 0 for a *)
(* message about something else.  A dashboard shows the last one it got.   *)
(***************************************************************************)
EXTENDS Naturals, Sequences

CONSTANTS
  Clients,    (* dashboards                                                 *)
  History,    (* length of the ring buffer                                  *)
  QueueSize,  (* length of a subscriber's queue                             *)
  MaxChanges, (* bound on how often the state changes                       *)
  Explicit,   (* is the state sent on connecting, or only replayed?         *)
  Others,     (* is anything else published?                                *)
  Racing      (* may something be published between telling a client the    *)
              (* state and subscribing it?                                  *)

ASSUME SizeAssumption == {History, QueueSize} \subseteq Nat \ {0}
ASSUME BoundAssumption == MaxChanges \in Nat
ASSUME FlagsAssumption == {Explicit, Others, Racing} \subseteq BOOLEAN

VARIABLES
  truth,    (* the state's current value                                    *)
  history,  (* _history                                                     *)
  queue,    (* each subscriber's queue                                      *)
  phase,    (* how far each socket's handler is                             *)
  outbox,   (* what the handler has yet to send before it subscribes        *)
  seen      (* what each dashboard shows                                    *)

vars == <<truth, history, queue, phase, outbox, seen>>

Message == 0..MaxChanges

\* A deque with a maximal length, and a queue that sheds its oldest.
Pushed(s, m, max) == Append(IF Len(s) < max THEN s ELSE Tail(s), m)

Shows(c, m) == seen' = [seen EXCEPT ![c] = IF m = 0 THEN @ ELSE m]

-----------------------------------------------------------------------------
Publish(m) ==
  /\ Racing \/ \A c \in Clients : phase[c] # "telling"
  /\ history' = Pushed(history, m, History)
  /\ queue' = [c \in Clients |->
                 IF phase[c] = "live" THEN Pushed(queue[c], m, QueueSize) ELSE queue[c]]
  /\ UNCHANGED <<phase, outbox, seen>>

Change == /\ truth < MaxChanges
          /\ truth' = truth + 1
          /\ Publish(truth + 1)

PublishOther == /\ Others
                /\ UNCHANGED truth
                /\ Publish(0)

-----------------------------------------------------------------------------
\* A bug: the current state goes out before the replay.
MutantConnect(c) ==
  /\ phase[c] = "closed"
  /\ phase' = [phase EXCEPT ![c] = "replaying"]
  /\ outbox' = [outbox EXCEPT ![c] = history]
  /\ seen' = [seen EXCEPT ![c] = truth]
  /\ UNCHANGED <<truth, history, queue>>

\* The handler begins: recent() is a copy of the history as it stands.
Connect(c) ==
  /\ phase[c] = "closed"
  /\ phase' = [phase EXCEPT ![c] = "replaying"]
  /\ outbox' = [outbox EXCEPT ![c] = history]
  /\ seen' = [seen EXCEPT ![c] = 0]
  /\ UNCHANGED <<truth, history, queue>>

Replay(c) ==
  /\ phase[c] = "replaying" /\ outbox[c] # <<>>
  /\ Shows(c, Head(outbox[c]))
  /\ outbox' = [outbox EXCEPT ![c] = Tail(@)]
  /\ UNCHANGED <<truth, history, queue, phase>>

\* The current state is read, and its sending begins.
Current == IF Explicit THEN truth ELSE 0

Tell(c) ==
  /\ phase[c] = "replaying" /\ outbox[c] = <<>>
  /\ phase' = [phase EXCEPT ![c] = "telling"]
  /\ outbox' = [outbox EXCEPT ![c] = <<Current>>]
  /\ UNCHANGED <<truth, history, queue, seen>>

\* It has been sent: the handler subscribes, with nothing in its queue.
Subscribe(c) ==
  /\ phase[c] = "telling"
  /\ Shows(c, Head(outbox[c]))
  /\ outbox' = [outbox EXCEPT ![c] = <<>>]
  /\ phase' = [phase EXCEPT ![c] = "live"]
  /\ queue' = [queue EXCEPT ![c] = <<>>]
  /\ UNCHANGED <<truth, history>>

Send(c) ==
  /\ phase[c] = "live" /\ queue[c] # <<>>
  /\ Shows(c, Head(queue[c]))
  /\ queue' = [queue EXCEPT ![c] = Tail(@)]
  /\ UNCHANGED <<truth, history, phase, outbox>>

Close(c) ==
  /\ phase[c] # "closed"
  /\ phase' = [phase EXCEPT ![c] = "closed"]
  /\ outbox' = [outbox EXCEPT ![c] = <<>>]
  /\ queue' = [queue EXCEPT ![c] = <<>>]
  /\ UNCHANGED <<truth, history, seen>>

-----------------------------------------------------------------------------
Init ==
  /\ truth = 0
  /\ history = <<>>
  /\ queue = [c \in Clients |-> <<>>]
  /\ phase = [c \in Clients |-> "closed"]
  /\ outbox = [c \in Clients |-> <<>>]
  /\ seen = [c \in Clients |-> 0]

Next ==
  \/ Change \/ PublishOther
  \/ \E c \in Clients :
       Connect(c) \/ Replay(c) \/ Tell(c) \/ Subscribe(c) \/ Send(c) \/ Close(c)

Spec == Init /\ [][Next]_vars

-----------------------------------------------------------------------------
(* Properties                                                              *)

\* The bus holds what the code puts there, and no buffer outgrows its bound.
TypeOK ==
  /\ truth \in Message
  /\ history \in Seq(Message) /\ Len(history) <= History
  /\ queue \in [Clients -> Seq(Message)]
  /\ \A c \in Clients : Len(queue[c]) <= QueueSize
  /\ phase \in [Clients -> {"closed", "replaying", "telling", "live"}]
  /\ outbox \in [Clients -> Seq(Message)]
  /\ seen \in [Clients -> Message]

\* ws.py: "a stale event replayed from the buffer cannot overwrite it".  An
\* open dashboard is never taken back to an earlier state than it has shown,
\* however replay, telling and publishing interleave.
NeverGoesBack ==
  [][\A c \in Clients : phase[c] # "closed" => seen'[c] >= seen[c]]_vars

\* architecture.md: without the explicit state "a freshly opened dashboard"
\* would go on "claiming guiding is stopped while the loop runs".  A connected
\* dashboard with nothing left to be sent shows the current state.
CaughtUp ==
  \A c \in Clients : phase[c] = "live" /\ queue[c] = <<>> => seen[c] = truth
=============================================================================
