------------------------------ MODULE NightLog ------------------------------
(***************************************************************************)
(* The NightJournal of storage/journal.py beside the dashboards: one more  *)
(* subscriber of the event bus, which writes down what the running task    *)
(* says.  An update of a task carries the last of its messages; the        *)
(* journal remembers how many the update before it carried, and writes the *)
(* rest.  Messages are numbered in the order they are said.                *)
(***************************************************************************)
EXTENDS EventStream, Integers

CONSTANTS
  Carried,     (* the messages an update carries at most: 20 in the code    *)
  MaxMessages  (* bound: messages the task says                             *)

ASSUME CarriedAssumption == Carried \in Nat \ {0}
ASSUME MessagesAssumption == MaxMessages \in Nat

VARIABLES
  said,      (* how many messages the task has reported                     *)
  listening, (* the journal's queue: an update as `said` stood, or no update*)
  noted,     (* _seen_messages                                              *)
  log,       (* what log.txt holds of them                                  *)
  missed     (* history: the newest update was shed, or a line not written  *)

journal == <<said, listening, noted, log, missed>>

NoUpdate == -1
Update == -1..MaxMessages

\* No room was left for the newest update, and no newer one waits.
LastUpdateShed(waiting) ==
  /\ \E i \in DOMAIN listening : listening[i] # NoUpdate
  /\ \A i \in DOMAIN waiting : waiting[i] = NoUpdate

Hears(event) ==
  /\ listening' = Pushed(listening, event, QueueSize)
  /\ missed' = (missed \/ LastUpdateShed(listening'))
  /\ UNCHANGED <<noted, log>>

\* Task.report, with a message or without: an update of the task.
Report ==
  /\ said' \in {said, said + 1} \cap 0..MaxMessages
  /\ UNCHANGED truth
  /\ Publish(0)
  /\ Hears(said')

\* Whatever else is published reaches the journal's queue as well.
OtherNews == (Change \/ PublishOther) /\ Hears(NoUpdate) /\ UNCHANGED said

\* as_dict: the last messages, of all `n` there were by then.
Payload(n) == [i \in 1..(IF n < Carried THEN n ELSE Carried) |->
                 i + (IF n < Carried THEN 0 ELSE n - Carried)]

\* Bugs: what is remembered is how many were new; one too many.
MutantNoted(n) == Len(Payload(n)) - noted
Noted(n) == Len(Payload(n))

New(n) == SubSeq(Payload(n), noted + 1, Len(Payload(n)))

\* _handle: a line for each; or the folder cannot be written.
Note ==
  /\ listening # <<>>
  /\ listening' = Tail(listening)
  /\ LET n == Head(listening)
     IN IF n = NoUpdate THEN UNCHANGED <<noted, log, missed>>
        ELSE /\ noted' = Noted(n)
             /\ \/ log' = log \o New(n) /\ UNCHANGED missed
                \/ New(n) # <<>> /\ missed' = TRUE /\ UNCHANGED log
  /\ UNCHANGED <<vars, said>>

Dashboards ==
  \E c \in Clients :
    /\ Connect(c) \/ Replay(c) \/ Tell(c) \/ Subscribe(c) \/ Send(c) \/ Close(c)
    /\ UNCHANGED journal

LogInit ==
  Init /\ said = 0 /\ listening = <<>> /\ noted = 0 /\ log = <<>> /\ missed = FALSE
LogNext == Report \/ OtherNews \/ Note \/ Dashboards
LogSpec == LogInit /\ [][LogNext]_<<vars, journal>>

-----------------------------------------------------------------------------
(* Properties                                                              *)

\* log.txt: "every task and what it said".  No message is written twice or after
\* a later one, whatever updates were shed and whatever could not be written;
\* and a task that says no more than an update carries is recorded whole, once
\* the journal has caught up - unless updates were shed or the folder could not
\* be written.
RecordedInTurn ==
  /\ \A i, j \in DOMAIN log : i < j => log[i] < log[j]
  /\ listening = <<>> /\ ~missed /\ said <= Carried => Len(log) = said
=============================================================================
