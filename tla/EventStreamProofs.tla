------------------------- MODULE EventStreamProofs -------------------------
(***************************************************************************)
(* Proofs about EventStream, for any number of dashboards, any length of   *)
(* the buffers and any number of changes.                                  *)
(***************************************************************************)
EXTENDS NightLog, TLAPS

\* What a buffer says of the state: nothing newer than n; nothing older than
\* n; and the newer after the older.  Messages about something else are 0.
NoNewer(s, n) == \A i \in 1..Len(s) : s[i] <= n
NoOlder(s, n) == \A i \in 1..Len(s) : s[i] = 0 \/ n <= s[i]
InOrder(s) == \A i, j \in 1..Len(s) : i < j /\ s[j] # 0 => s[i] <= s[j]
WellKept(s, n) == s \in Seq(Message) /\ NoNewer(s, n) /\ InOrder(s)

\* What a dashboard will be sent before it is live is in its outbox, then in
\* its queue: none of it takes it back.
Pending(c) ==
  /\ seen[c] <= truth
  /\ phase[c] \in {"replaying", "telling"} => NoOlder(outbox[c], seen[c])
  /\ phase[c] = "telling" => outbox[c] # <<>>
  /\ phase[c] = "live" => NoOlder(queue[c], seen[c])

IInv ==
  /\ TypeOK
  /\ WellKept(history, truth)
  /\ \A c \in Clients : /\ WellKept(queue[c], truth)
                        /\ WellKept(outbox[c], truth)
                        /\ Pending(c)

-----------------------------------------------------------------------------
(* Buffers                                                                 *)

\* Sending the oldest message leaves a buffer in order, and nothing in it older
\* than what was sent.
LEMMA TailIsWellKept ==
  ASSUME NEW n \in Nat, NEW s \in Seq(Message), WellKept(s, n), s # <<>>
  PROVE  /\ WellKept(Tail(s), n)
         /\ Head(s) \in Message /\ Head(s) <= n
         /\ Head(s) # 0 => NoOlder(Tail(s), Head(s))
         /\ \A x \in Nat : NoOlder(s, x) =>
              (Head(s) = 0 \/ x <= Head(s)) /\ NoOlder(Tail(s), x)
<1>1. /\ Len(s) \in Nat \ {0} /\ Tail(s) \in Seq(Message) /\ Len(Tail(s)) = Len(s) - 1
      /\ \A i \in 1..Len(Tail(s)) : Tail(s)[i] = s[i + 1] /\ i + 1 \in 1..Len(s)
      /\ Head(s) = s[1] /\ 1 \in 1..Len(s)
  OBVIOUS
<1>2. \A i \in 1..Len(s) : s[i] \in Message
  OBVIOUS
<1> HIDE DEF Message
<1>3. WellKept(Tail(s), n)
  BY <1>1 DEF WellKept, NoNewer, InOrder
<1>4. Head(s) \in Message /\ Head(s) <= n
  BY <1>1, <1>2 DEF WellKept, NoNewer
<1>5. Head(s) # 0 => NoOlder(Tail(s), Head(s))
  BY <1>1 DEF WellKept, InOrder, NoOlder
<1>6. \A x \in Nat : NoOlder(s, x) =>
        (Head(s) = 0 \/ x <= Head(s)) /\ NoOlder(Tail(s), x)
  BY <1>1 DEF NoOlder
<1> QED
  BY <1>3, <1>4, <1>5, <1>6

\* A message put at the end of a buffer, newer than what is in it.
LEMMA AppendIsWellKept ==
  ASSUME NEW n \in Nat, NEW k \in Nat, n <= k,
         NEW s \in Seq(Message), WellKept(s, n),
         NEW m \in Message, m = 0 \/ n <= m, m <= k
  PROVE  /\ WellKept(Append(s, m), k)
         /\ \A x \in Nat : NoOlder(s, x) /\ x <= n => NoOlder(Append(s, m), x)
<1> DEFINE a == Append(s, m)
<1>1. /\ Len(s) \in Nat /\ a \in Seq(Message) /\ Len(a) = Len(s) + 1
      /\ \A i \in 1..Len(s) : a[i] = s[i]
      /\ a[Len(s) + 1] = m
  OBVIOUS
<1>2. \A i \in 1..Len(s) : s[i] \in Nat /\ s[i] <= n
  BY BoundAssumption DEF WellKept, NoNewer, Message
<1>3. m \in Nat
  BY BoundAssumption DEF Message
<1> HIDE DEF a
<1>4. \A i \in 1..Len(a) : i \in 1..Len(s) \/ i = Len(s) + 1
  BY <1>1
<1>5. NoNewer(a, k)
  BY <1>1, <1>2, <1>3, <1>4 DEF NoNewer
<1>6. InOrder(a)
  <2> SUFFICES ASSUME NEW i \in 1..Len(a), NEW j \in 1..Len(a), i < j, a[j] # 0
               PROVE  a[i] <= a[j]
    BY DEF InOrder
  <2>1. i \in 1..Len(s)
    BY <1>1
  <2>2. CASE j \in 1..Len(s)
    BY <1>1, <2>1, <2>2 DEF WellKept, InOrder
  <2>3. CASE j = Len(s) + 1
    BY <1>1, <1>2, <1>3, <2>1, <2>3
  <2> QED
    BY <1>4, <2>2, <2>3
<1>7. \A x \in Nat : NoOlder(s, x) /\ x <= n => NoOlder(a, x)
  BY <1>1, <1>3, <1>4 DEF NoOlder
<1>8. WellKept(a, k) /\ \A x \in Nat : NoOlder(s, x) /\ x <= n => NoOlder(a, x)
  BY <1>1, <1>5, <1>6, <1>7 DEF WellKept
<1> QED
  BY <1>8 DEF a

\* publish: a bounded buffer stays bounded and in order, full or not.
LEMMA PushedIsWellKept ==
  ASSUME NEW max \in Nat \ {0}, NEW n \in Nat, NEW k \in Nat, n <= k,
         NEW s \in Seq(Message), WellKept(s, n), Len(s) <= max,
         NEW m \in Message, m = 0 \/ n <= m, m <= k
  PROVE  /\ WellKept(Pushed(s, m, max), k) /\ Len(Pushed(s, m, max)) <= max
         /\ \A x \in Nat : NoOlder(s, x) /\ x <= n => NoOlder(Pushed(s, m, max), x)
<1>1. CASE Len(s) < max
  <2>1. Pushed(s, m, max) = Append(s, m) /\ Len(Append(s, m)) = Len(s) + 1
    BY <1>1 DEF Pushed
  <2> QED
    BY <1>1, <2>1, AppendIsWellKept
<1>2. CASE ~(Len(s) < max)
  <2>1. s # <<>> /\ Tail(s) \in Seq(Message) /\ Len(Tail(s)) = Len(s) - 1
    BY <1>2
  <2>2. WellKept(Tail(s), n) /\ \A x \in Nat : NoOlder(s, x) => NoOlder(Tail(s), x)
    BY <2>1, TailIsWellKept
  <2>3. Pushed(s, m, max) = Append(Tail(s), m) /\ Len(Append(Tail(s), m)) = Len(s)
    BY <1>2, <2>1 DEF Pushed
  <2>4. /\ WellKept(Append(Tail(s), m), k)
        /\ \A x \in Nat : NoOlder(Tail(s), x) /\ x <= n => NoOlder(Append(Tail(s), m), x)
    BY <2>1, <2>2, AppendIsWellKept
  <2> QED
    BY <2>2, <2>3, <2>4
<1> QED
  BY <1>1, <1>2

\* A buffer that says nothing newer than n says nothing newer than what follows.
LEMMA LaterIsWellKept ==
  ASSUME NEW n \in Nat, NEW k \in Nat, n <= k, NEW s \in Seq(Message), WellKept(s, n)
  PROVE  WellKept(s, k)
<1>1. \A i \in 1..Len(s) : s[i] \in Nat
  BY BoundAssumption DEF Message
<1> QED
  BY <1>1 DEF WellKept, NoNewer

\* An empty buffer keeps any promise.
LEMMA EmptyIsWellKept ==
  /\ \A n \in Nat : WellKept(<<>>, n)
  /\ \A x \in Nat : NoOlder(<<>>, x)
BY DEF WellKept, NoNewer, NoOlder, InOrder

-----------------------------------------------------------------------------
(* Steps                                                                   *)

\* A bus and its clients at the start.
LEMMA InitInv == Init => IInv
BY SizeAssumption, BoundAssumption, EmptyIsWellKept
  DEF Init, IInv, TypeOK, Pending, Message

\* Whatever is published, at whatever moment: the state is not behind it.
LEMMA PublishKeeps ==
  ASSUME IInv, NEW m \in Message, m = 0 \/ m = truth', truth' \in Message, m <= truth',
         truth <= truth', m = 0 \/ truth <= m, Publish(m)
  PROVE  IInv' /\ seen' = seen
<1> DEFINE Q(c) == Pushed(queue[c], m, QueueSize)
<1>1. truth \in Nat /\ truth' \in Nat /\ History \in Nat \ {0} /\ QueueSize \in Nat \ {0}
  BY SizeAssumption, BoundAssumption DEF IInv, TypeOK, Message
<1>2. /\ history' = Pushed(history, m, History)
      /\ \A c \in Clients : queue'[c] = IF phase[c] = "live" THEN Q(c) ELSE queue[c]
      /\ DOMAIN queue' = Clients /\ queue' = [c \in Clients |-> queue'[c]]
      /\ UNCHANGED <<phase, outbox, seen>>
  BY DEF Publish
<1>3. WellKept(history', truth') /\ Len(history') <= History
  BY <1>1, <1>2, PushedIsWellKept DEF IInv, TypeOK
<1>4. ASSUME NEW c \in Clients
      PROVE  /\ WellKept(queue'[c], truth') /\ Len(queue'[c]) <= QueueSize
             /\ WellKept(outbox'[c], truth')
             /\ Pending(c)'
  <2>1. /\ queue[c] \in Seq(Message) /\ Len(queue[c]) <= QueueSize
        /\ WellKept(queue[c], truth)
        /\ outbox[c] \in Seq(Message) /\ WellKept(outbox[c], truth)
        /\ seen[c] \in Nat /\ Pending(c)
    BY BoundAssumption DEF IInv, TypeOK, Message
  <2>2. WellKept(outbox'[c], truth')
    BY <1>1, <1>2, <2>1, LaterIsWellKept
  <2>3. /\ WellKept(queue'[c], truth') /\ Len(queue'[c]) <= QueueSize
        /\ phase[c] = "live" => NoOlder(queue'[c], seen[c])
    <3>1. CASE phase[c] = "live"
      BY <1>1, <1>2, <2>1, <3>1, PushedIsWellKept DEF Pending
    <3>2. CASE phase[c] # "live"
      BY <1>1, <1>2, <2>1, <3>2, LaterIsWellKept
    <3> QED
      BY <3>1, <3>2
  <2> QED
    BY <1>1, <1>2, <2>1, <2>2, <2>3 DEF Pending
<1>5. TypeOK'
  <2>1. queue' \in [Clients -> Seq(Message)]
    BY <1>2, <1>4 DEF WellKept
  <2> QED
    BY <1>2, <1>3, <1>4, <2>1 DEF IInv, TypeOK, WellKept
<1> QED
  BY <1>2, <1>3, <1>4, <1>5 DEF IInv

\* The bus is left alone, and so is every dashboard but one.
Alone(c) ==
  /\ UNCHANGED <<truth, history>>
  /\ queue' \in [Clients -> Seq(Message)]
  /\ phase' \in [Clients -> {"closed", "replaying", "telling", "live"}]
  /\ outbox' \in [Clients -> Seq(Message)]
  /\ seen' \in [Clients -> Message]
  /\ \A d \in Clients \ {c} : /\ queue'[d] = queue[d]
                              /\ phase'[d] = phase[d]
                              /\ outbox'[d] = outbox[d]
                              /\ seen'[d] = seen[d]

\* Then only that dashboard need be looked at.
LEMMA AloneKeeps ==
  ASSUME IInv, NEW c \in Clients, Alone(c),
         Len(queue'[c]) <= QueueSize,
         WellKept(queue'[c], truth), WellKept(outbox'[c], truth), Pending(c)',
         phase[c] = "closed" \/ seen[c] <= seen'[c]
  PROVE  /\ IInv'
         /\ \A d \in Clients : phase[d] # "closed" => seen'[d] >= seen[d]
<1>1. TypeOK'
  BY DEF IInv, TypeOK, Alone
<1>2. WellKept(history', truth')
  BY DEF IInv, Alone
<1>3. ASSUME NEW d \in Clients
      PROVE  WellKept(queue'[d], truth') /\ WellKept(outbox'[d], truth') /\ Pending(d)'
  BY <1>3 DEF IInv, Alone, Pending
<1>4. ASSUME NEW d \in Clients, phase[d] # "closed"
      PROVE  seen'[d] >= seen[d]
  <2>1. seen[d] \in Nat /\ seen'[d] \in Nat
    BY BoundAssumption DEF IInv, TypeOK, Alone, Message
  <2>2. d # c => seen'[d] = seen[d]
    BY DEF Alone
  <2> QED
    BY <1>4, <2>1, <2>2
<1> QED
  BY <1>1, <1>2, <1>3, <1>4 DEF IInv

\* Every step of a socket's handler keeps the invariant, and while the socket is
\* open what its dashboard shows does not go back.
LEMMA ClientKeeps ==
  ASSUME IInv, NEW c \in Clients,
         Connect(c) \/ Replay(c) \/ Tell(c) \/ Subscribe(c) \/ Send(c) \/ Close(c)
  PROVE  /\ IInv'
         /\ \A d \in Clients : phase[d] # "closed" => seen'[d] >= seen[d]
<1>1. /\ truth \in Nat /\ truth \in Message /\ 0 \in Message
      /\ \A d \in Clients : seen[d] \in Nat
      /\ QueueSize \in Nat \ {0}
  BY SizeAssumption, BoundAssumption DEF IInv, TypeOK, Message
<1>2. /\ queue[c] \in Seq(Message) /\ WellKept(queue[c], truth) /\ Len(queue[c]) <= QueueSize
      /\ outbox[c] \in Seq(Message) /\ WellKept(outbox[c], truth)
      /\ history \in Seq(Message) /\ WellKept(history, truth)
      /\ seen[c] \in Message /\ Pending(c)
  BY DEF IInv, TypeOK
<1> HIDE DEF Message
<1>3. Len(<<>>) = 0 /\ <<>> \in Seq(Message)
  OBVIOUS
<1>4. CASE Connect(c)
  <2>1. Alone(c) /\ phase'[c] = "replaying" /\ outbox'[c] = history /\ seen'[c] = 0
        /\ queue'[c] = queue[c] /\ phase[c] = "closed"
    BY <1>1, <1>2, <1>4 DEF Connect, Alone, IInv, TypeOK
  <2>2. NoOlder(history, 0)
    BY BoundAssumption, <1>2 DEF NoOlder, Message
  <2>3. Pending(c)'
    BY <1>1, <2>1, <2>2 DEF Pending, Alone
  <2> QED
    BY <1>1, <1>2, <2>1, <2>3, AloneKeeps DEF Alone
<1>5. CASE Replay(c)
  <2> DEFINE h == Head(outbox[c])
  <2>1. /\ outbox[c] # <<>> /\ phase[c] = "replaying"
        /\ seen' = [seen EXCEPT ![c] = IF h = 0 THEN seen[c] ELSE h]
        /\ outbox' = [outbox EXCEPT ![c] = Tail(outbox[c])]
        /\ UNCHANGED <<truth, history, queue, phase>>
    BY <1>5 DEF Replay, Shows
  <2>2. /\ WellKept(Tail(outbox[c]), truth) /\ Tail(outbox[c]) \in Seq(Message)
        /\ h \in Message /\ h <= truth
        /\ h # 0 => NoOlder(Tail(outbox[c]), h)
        /\ (h = 0 \/ seen[c] <= h) /\ NoOlder(Tail(outbox[c]), seen[c])
    BY <1>1, <1>2, <2>1, TailIsWellKept DEF Pending, WellKept
  <2> HIDE DEF h
  <2>3. Alone(c) /\ seen'[c] = (IF h = 0 THEN seen[c] ELSE h) /\ outbox'[c] = Tail(outbox[c])
    BY <1>2, <2>1, <2>2 DEF Alone, IInv, TypeOK
  <2>4. Pending(c)'
    BY <1>1, <1>2, <2>1, <2>2, <2>3 DEF Pending
  <2>5. /\ WellKept(queue'[c], truth) /\ Len(queue'[c]) <= QueueSize
        /\ WellKept(outbox'[c], truth)
        /\ seen[c] <= seen'[c]
    BY <1>1, <1>2, <2>1, <2>2, <2>3
  <2> QED
    BY <2>3, <2>4, <2>5, AloneKeeps
<1>6. CASE Tell(c)
  <2> DEFINE o == <<Current>>
  <2>1. /\ Current \in Message /\ Current <= truth /\ (Current = 0 \/ Current = truth)
        /\ o \in Seq(Message) /\ Len(o) = 1 /\ o[1] = Current /\ o # <<>>
    BY <1>1 DEF Current
  <2>2. /\ phase[c] = "replaying"
        /\ phase' = [phase EXCEPT ![c] = "telling"]
        /\ outbox' = [outbox EXCEPT ![c] = o]
        /\ UNCHANGED <<truth, history, queue, seen>>
    BY <1>6 DEF Tell
  <2> HIDE DEF o
  <2>3. WellKept(o, truth) /\ NoOlder(o, seen[c])
    BY <1>1, <1>2, <2>1 DEF WellKept, NoNewer, NoOlder, InOrder, Pending
  <2>4. Alone(c) /\ outbox'[c] = o /\ phase'[c] = "telling"
    BY <1>2, <2>1, <2>2 DEF Alone, IInv, TypeOK
  <2>5. Pending(c)'
    BY <1>2, <2>1, <2>2, <2>3, <2>4 DEF Pending
  <2>6. /\ WellKept(queue'[c], truth) /\ Len(queue'[c]) <= QueueSize
        /\ WellKept(outbox'[c], truth)
        /\ seen[c] <= seen'[c]
    BY <1>1, <1>2, <2>2, <2>3, <2>4
  <2> QED
    BY <2>4, <2>5, <2>6, AloneKeeps
<1>7. CASE Subscribe(c)
  <2> DEFINE h == Head(outbox[c])
  <2>1. /\ phase[c] = "telling" /\ outbox[c] # <<>>
        /\ seen' = [seen EXCEPT ![c] = IF h = 0 THEN seen[c] ELSE h]
        /\ outbox' = [outbox EXCEPT ![c] = <<>>]
        /\ phase' = [phase EXCEPT ![c] = "live"]
        /\ queue' = [queue EXCEPT ![c] = <<>>]
        /\ UNCHANGED <<truth, history>>
    BY <1>2, <1>7 DEF Subscribe, Shows, Pending
  <2>2. h \in Message /\ h <= truth /\ (h = 0 \/ seen[c] <= h)
    BY <1>1, <1>2, <2>1, TailIsWellKept DEF Pending
  <2> HIDE DEF h
  <2>3. /\ Alone(c) /\ seen'[c] = (IF h = 0 THEN seen[c] ELSE h)
        /\ outbox'[c] = <<>> /\ queue'[c] = <<>> /\ phase'[c] = "live"
    BY <1>2, <1>3, <2>1, <2>2 DEF Alone, IInv, TypeOK
  <2>4. seen'[c] \in Nat /\ seen'[c] <= truth
    BY <1>1, <1>2, <2>2, <2>3, BoundAssumption DEF Pending, Message
  <2>5. Pending(c)'
    BY <2>1, <2>3, <2>4, EmptyIsWellKept DEF Pending
  <2>6. /\ WellKept(queue'[c], truth) /\ Len(queue'[c]) <= QueueSize
        /\ WellKept(outbox'[c], truth)
        /\ seen[c] <= seen'[c]
    BY <1>1, <1>2, <1>3, <2>2, <2>3, EmptyIsWellKept
  <2> QED
    BY <2>3, <2>5, <2>6, AloneKeeps
<1>8. CASE Send(c)
  <2> DEFINE h == Head(queue[c])
  <2>1. /\ queue[c] # <<>> /\ phase[c] = "live"
        /\ seen' = [seen EXCEPT ![c] = IF h = 0 THEN seen[c] ELSE h]
        /\ queue' = [queue EXCEPT ![c] = Tail(queue[c])]
        /\ UNCHANGED <<truth, history, phase, outbox>>
    BY <1>8 DEF Send, Shows
  <2>2. /\ WellKept(Tail(queue[c]), truth) /\ Tail(queue[c]) \in Seq(Message)
        /\ Len(Tail(queue[c])) <= QueueSize
        /\ h \in Message /\ h <= truth
        /\ h # 0 => NoOlder(Tail(queue[c]), h)
        /\ (h = 0 \/ seen[c] <= h) /\ NoOlder(Tail(queue[c]), seen[c])
    <3>1. Len(Tail(queue[c])) <= QueueSize
      BY <1>1, <1>2, <2>1
    <3> QED
      BY <1>1, <1>2, <2>1, <3>1, TailIsWellKept DEF Pending, WellKept
  <2> HIDE DEF h
  <2>3. Alone(c) /\ seen'[c] = (IF h = 0 THEN seen[c] ELSE h) /\ queue'[c] = Tail(queue[c])
    BY <1>2, <2>1, <2>2 DEF Alone, IInv, TypeOK
  <2>4. Pending(c)'
    BY <1>1, <1>2, <2>1, <2>2, <2>3 DEF Pending
  <2>5. /\ WellKept(queue'[c], truth) /\ Len(queue'[c]) <= QueueSize
        /\ WellKept(outbox'[c], truth)
        /\ seen[c] <= seen'[c]
    BY <1>1, <1>2, <2>1, <2>2, <2>3
  <2> QED
    BY <2>3, <2>4, <2>5, AloneKeeps
<1>9. CASE Close(c)
  <2>1. /\ Alone(c) /\ seen' = seen
        /\ outbox'[c] = <<>> /\ queue'[c] = <<>> /\ phase'[c] = "closed"
    BY <1>2, <1>3, <1>9 DEF Close, Alone, IInv, TypeOK
  <2>2. Pending(c)'
    BY <1>2, <2>1 DEF Pending, Alone
  <2> QED
    BY <1>1, <1>3, <2>1, <2>2, EmptyIsWellKept, AloneKeeps
<1> QED
  BY <1>4, <1>5, <1>6, <1>7, <1>8, <1>9

\* The two together.
LEMMA StepInv ==
  IInv /\ [Next]_vars =>
    /\ IInv'
    /\ [\A c \in Clients : phase[c] # "closed" => seen'[c] >= seen[c]]_vars
<1> SUFFICES ASSUME IInv, [Next]_vars
             PROVE  IInv' /\ [\A c \in Clients : phase[c] # "closed" => seen'[c] >= seen[c]]_vars
  OBVIOUS
<1>1. CASE UNCHANGED vars
  BY <1>1 DEF vars, IInv, TypeOK, Pending
<1>2. truth \in Nat /\ \A c \in Clients : seen[c] \in Nat
  BY BoundAssumption DEF IInv, TypeOK, Message
<1>3. CASE Change
  <2>1. truth + 1 \in Message /\ truth' = truth + 1 /\ Publish(truth + 1)
    BY <1>2, <1>3, BoundAssumption DEF Change, Message
  <2> QED
    BY <1>2, <2>1, PublishKeeps
<1>4. CASE PublishOther
  <2>1. 0 \in Message /\ truth' = truth /\ truth \in Message /\ Publish(0)
    BY <1>4, BoundAssumption DEF PublishOther, Message, IInv, TypeOK
  <2> QED
    BY <1>2, <2>1, PublishKeeps
<1>5. ASSUME NEW c \in Clients,
             Connect(c) \/ Replay(c) \/ Tell(c) \/ Subscribe(c) \/ Send(c) \/ Close(c)
      PROVE  IInv' /\ [\A d \in Clients : phase[d] # "closed" => seen'[d] >= seen[d]]_vars
  BY <1>5, ClientKeeps
<1> QED
  BY <1>1, <1>3, <1>4, <1>5 DEF Next

\* No buffer outgrows its bound, and every field holds what the code puts there.
THEOREM BusIsTyped == Spec => []TypeOK
<1>1. IInv /\ [Next]_vars => IInv'
  BY StepInv
<1>2. IInv => TypeOK
  BY DEF IInv
<1> QED
  BY <1>1, <1>2, InitInv, PTL DEF Spec

\* However replay, telling, publishing and shedding interleave, an open
\* dashboard never shows an earlier state than one it has shown.
THEOREM DashboardsMoveOn == Spec => NeverGoesBack
<1>1. IInv /\ [Next]_vars => IInv'
  BY StepInv
<1>2. IInv /\ [Next]_vars =>
        [\A c \in Clients : phase[c] # "closed" => seen'[c] >= seen[c]]_vars
  BY StepInv
<1> QED
  BY <1>1, <1>2, InitInv, PTL DEF Spec, NeverGoesBack

-----------------------------------------------------------------------------
(* The bus and its sockets implement ForwardFeed                           *)

Watching == {c \in Clients : phase[c] # "closed"}

Feed == INSTANCE ForwardFeed
  WITH Watchers <- Clients, said <- truth, watching <- Watching, shown <- seen
MovesForward == Feed!Spec

\* Whatever is published reaches no dashboard yet.
LEMMA PublishingIsNotShowing ==
  ASSUME NEW m, Publish(m)
  PROVE  UNCHANGED <<Watching, seen>>
BY DEF Publish, Watching

\* A step of a socket's handler opens it, shows something, closes it, or none of these.
LEMMA HandlerFeeds ==
  ASSUME IInv, NEW c \in Clients,
         Connect(c) \/ Replay(c) \/ Tell(c) \/ Subscribe(c) \/ Send(c) \/ Close(c)
  PROVE  [Feed!Next]_<<truth, Watching, seen>>
<1>1. /\ phase \in [Clients -> {"closed", "replaying", "telling", "live"}]
      /\ seen \in [Clients -> Message] /\ truth' = truth
  BY DEF IInv, TypeOK, Connect, Replay, Tell, Subscribe, Send, Close
<1>2. IInv' /\ (phase[c] # "closed" => seen'[c] >= seen[c])
  BY ClientKeeps
<1>3. CASE Connect(c)
  <2>1. c \notin Watching /\ Watching' = Watching \cup {c}
    BY <1>1, <1>3 DEF Connect, Watching
  <2> QED
    BY <1>1, <1>3, <2>1 DEF Connect, Feed!Next, Feed!Arrives
<1>4. CASE Close(c)
  <2>1. c \in Watching /\ Watching' = Watching \ {c}
    BY <1>1, <1>4 DEF Close, Watching
  <2> QED
    BY <1>1, <1>4, <2>1 DEF Close, Feed!Next, Feed!Leaves
<1>5. CASE Tell(c)
  BY <1>1, <1>5 DEF Tell, Watching
<1>6. ASSUME NEW m, Shows(c, m), phase[c] # "closed", Watching' = Watching
      PROVE  Feed!Next
  <2>1. /\ seen[c] \in Nat /\ seen'[c] \in Nat /\ truth \in Nat
        /\ seen[c] <= seen'[c] /\ seen'[c] <= truth
    BY <1>1, <1>2, <1>6, BoundAssumption DEF IInv, TypeOK, Pending, Message
  <2>2. seen'[c] \in seen[c]..truth
    BY <2>1
  <2>3. seen' = [seen EXCEPT ![c] = seen'[c]]
    BY <1>1, <1>6 DEF Shows
  <2>4. c \in Watching
    BY <1>6 DEF Watching
  <2>5. Feed!Shows(c)
    BY <1>1, <1>6, <2>2, <2>3, <2>4 DEF Feed!Shows
  <2> QED
    BY <2>5 DEF Feed!Next
<1>7. CASE Replay(c) \/ Send(c) \/ Subscribe(c)
  <2>1. phase[c] # "closed" /\ \E m : Shows(c, m)
    BY <1>7 DEF Replay, Send, Subscribe
  <2>2. Watching' = Watching
    BY <1>1, <1>7 DEF Replay, Send, Subscribe, Watching
  <2> QED
    BY <1>6, <2>1, <2>2
<1> QED
  BY <1>3, <1>4, <1>5, <1>7

LEMMA StepFeeds == IInv /\ [Next]_vars => [Feed!Next]_<<truth, Watching, seen>>
<1> SUFFICES ASSUME IInv, [Next]_vars PROVE [Feed!Next]_<<truth, Watching, seen>>
  OBVIOUS
<1>1. CASE UNCHANGED vars
  BY <1>1 DEF vars, Watching
<1>2. CASE Change
  BY <1>2, PublishingIsNotShowing DEF Change, Feed!Next, Feed!Say
<1>3. CASE PublishOther
  BY <1>3, PublishingIsNotShowing DEF PublishOther
<1> QED
  BY <1>1, <1>2, <1>3, HandlerFeeds DEF Next

LEMMA InitFeeds == Init => Feed!Init
BY DEF Init, Feed!Init, Watching

\* events.py and ws.py together: whatever the buffers shed, whenever a dashboard comes
\* and goes, and wherever a change falls between the replay, the telling and the
\* subscription, each of its states is one the rig has been in, and the next a later one.
THEOREM DashboardsAreFed == Spec => MovesForward
<1>1. IInv /\ [Next]_vars => IInv'
  BY StepInv
<1> QED
  BY <1>1, InitInv, InitFeeds, StepFeeds, PTL DEF Spec, MovesForward, Feed!Spec

-----------------------------------------------------------------------------
(* The journal beside the dashboards                                       *)

\* The journal hears of updates in the order they were made, and never of one
\* that carries less than what it has noted.
HeardInTurn ==
  /\ noted <= Noted(said)
  /\ \A i \in DOMAIN listening : listening[i] # NoUpdate =>
       listening[i] <= said /\ noted <= Noted(listening[i])
  /\ \A i, j \in DOMAIN listening :
       i < j /\ listening[i] # NoUpdate /\ listening[j] # NoUpdate =>
         listening[i] <= listening[j]

\* What is written is in order, and nothing in it is newer than what is noted
\* until as much is noted as an update carries: then nothing more is written.
WrittenInTurn ==
  /\ \A i, j \in DOMAIN log : i < j => log[i] < log[j]
  /\ noted < Carried => \A i \in DOMAIN log : log[i] <= noted

\* Unless something was missed, the newest update waits or has been noted, and
\* a short task's notes are all in the file.
NothingIsMissing ==
  ~missed => /\ (\E i \in DOMAIN listening : listening[i] = said) \/ noted = Noted(said)
             /\ said <= Carried => Len(log) = noted

JournalTyped ==
  /\ said \in 0..MaxMessages
  /\ listening \in Seq(Update)
  /\ noted \in 0..Carried
  /\ log \in Seq(Nat)
  /\ missed \in BOOLEAN

JournalInv == JournalTyped /\ HeardInTurn /\ WrittenInTurn /\ NothingIsMissing

\* An update carries as many messages as were said, up to the most it can, and
\* they are the last ones.
LEMMA PayloadIsTheLast ==
  ASSUME NEW n \in Nat
  PROVE  /\ Payload(n) \in Seq(Nat) /\ Len(Payload(n)) = Noted(n)
         /\ Noted(n) = (IF n < Carried THEN n ELSE Carried) /\ Noted(n) \in 0..Carried
         /\ \A i \in 1..Noted(n) : Payload(n)[i] = i + (IF n < Carried THEN 0 ELSE n - Carried)
<1> DEFINE k == IF n < Carried THEN n ELSE Carried
           d == IF n < Carried THEN 0 ELSE n - Carried
<1>1. k \in Nat /\ d \in Nat /\ k <= Carried /\ Carried \in Nat
  BY CarriedAssumption
<1>2. Payload(n) = [i \in 1..k |-> i + d]
  BY DEF Payload
<1> HIDE DEF k, d
<1>3. Payload(n) \in Seq(Nat) /\ Len(Payload(n)) = k /\ \A i \in 1..k : Payload(n)[i] = i + d
  BY <1>1, <1>2
<1> QED
  BY <1>1, <1>3 DEF Noted, k, d

\* An update made later carries no less.
LEMMA NotedGrows ==
  ASSUME NEW m \in Nat, NEW n \in Nat, m <= n
  PROVE  Noted(m) <= Noted(n) /\ (Noted(m) < Carried => Noted(m) = m)
<1>1. /\ Noted(m) = (IF m < Carried THEN m ELSE Carried)
      /\ Noted(n) = (IF n < Carried THEN n ELSE Carried)
  BY PayloadIsTheLast
<1> QED
  BY <1>1, CarriedAssumption

\* What is new in an update is what it carries beyond what has been noted.
LEMMA NewIsTheRest ==
  ASSUME NEW n \in Nat, noted \in 0..Carried, noted <= Noted(n)
  PROVE  /\ New(n) \in Seq(Nat) /\ Len(New(n)) = Noted(n) - noted
         /\ \A i \in 1..(Noted(n) - noted) :
              New(n)[i] = noted + i + (IF n < Carried THEN 0 ELSE n - Carried)
<1> DEFINE p == Payload(n)
<1>1. p \in Seq(Nat) /\ Len(p) = Noted(n) /\ Noted(n) \in Nat /\ noted \in Nat
  BY PayloadIsTheLast, CarriedAssumption
<1>2. \A i \in 1..Noted(n) : p[i] = i + (IF n < Carried THEN 0 ELSE n - Carried)
  BY PayloadIsTheLast
<1>3. New(n) = SubSeq(p, noted + 1, Noted(n))
  BY <1>1 DEF New
<1> HIDE DEF p
<1>4. /\ New(n) \in Seq(Nat) /\ Len(New(n)) = Noted(n) - noted
      /\ \A i \in 1..(Noted(n) - noted) : New(n)[i] = p[noted + i]
  BY <1>1, <1>3
<1>5. \A i \in 1..(Noted(n) - noted) : noted + i \in 1..Noted(n)
  BY <1>1
<1> QED
  BY <1>2, <1>4, <1>5

\* Whatever the journal's queue is given and sheds, what waits is in turn, and
\* the newest update is there unless its shedding is recorded.
LEMMA HearsKeeps ==
  ASSUME JournalInv, NEW event \in Update, Hears(event),
         said' \in 0..MaxMessages, said <= said',
         event = said' \/ (event = NoUpdate /\ said' = said)
  PROVE  JournalInv'
<1> DEFINE rest == IF Len(listening) < QueueSize THEN listening ELSE Tail(listening)
           q == Append(rest, event)
           d == IF Len(listening) < QueueSize THEN 0 ELSE 1
<1>1. /\ listening \in Seq(Update) /\ Len(listening) \in Nat /\ QueueSize \in Nat \ {0}
      /\ MaxMessages \in Nat /\ said \in Nat /\ said' \in Nat /\ noted \in 0..Carried
      /\ noted' = noted /\ log' = log /\ Carried \in Nat
  BY SizeAssumption, MessagesAssumption, CarriedAssumption
     DEF JournalInv, JournalTyped, Hears
<1>2. /\ rest \in Seq(Update) /\ Len(rest) = Len(listening) - d /\ Len(rest) \in Nat
      /\ d \in {0, 1}
      /\ \A i \in 1..Len(rest) : rest[i] = listening[i + d] /\ i + d \in 1..Len(listening)
  BY <1>1
<1>3. q \in Seq(Update) /\ Len(q) = Len(rest) + 1 /\ q[Len(rest) + 1] = event
      /\ \A i \in 1..Len(rest) : q[i] = rest[i]
  BY <1>2
<1>4. listening' = q /\ missed' = (missed \/ LastUpdateShed(q))
  BY DEF Hears, Pushed
<1> HIDE DEF rest, q, d
<1>5. \A i \in DOMAIN q : \/ i = Len(rest) + 1 /\ q[i] = event
                          \/ i \in 1..Len(rest) /\ i + d \in DOMAIN listening
                             /\ q[i] = listening[i + d]
  BY <1>1, <1>2, <1>3, SMTT(30)
<1>6. \A i \in DOMAIN listening : listening[i] # NoUpdate => listening[i] \in Nat
  BY <1>1 DEF Update, NoUpdate
<1>7. noted <= Noted(said) /\ Noted(said) <= Noted(said')
  BY <1>1, NotedGrows, PayloadIsTheLast DEF JournalInv, HeardInTurn
<1>8. JournalTyped'
  BY <1>1, <1>3, <1>4 DEF JournalInv, JournalTyped, Hears, LastUpdateShed
<1>9. HeardInTurn'
  <2>1. noted' <= Noted(said')
    BY <1>1, <1>7, PayloadIsTheLast
  <2>2. \A i \in DOMAIN q : q[i] # NoUpdate => q[i] <= said' /\ noted <= Noted(q[i])
    BY <1>1, <1>5, <1>6, <1>7, <2>1 DEF JournalInv, HeardInTurn
  <2>3. ASSUME NEW i \in DOMAIN q, NEW j \in DOMAIN q, i < j, q[i] # NoUpdate, q[j] # NoUpdate
        PROVE  q[i] <= q[j]
    <3>1. i \in 1..Len(rest) /\ i + d \in DOMAIN listening /\ q[i] = listening[i + d]
      <4>1. i # Len(rest) + 1
        <5>1. j \in 1..(Len(rest) + 1)
          BY <1>3
        <5> QED
          BY <1>2, <2>3, <5>1
      <4> QED
        BY <1>5, <4>1
    <3>2. CASE j = Len(rest) + 1 /\ q[j] = event
      BY <1>1, <1>6, <2>3, <3>1, <3>2 DEF JournalInv, HeardInTurn
    <3>3. CASE j \in 1..Len(rest) /\ j + d \in DOMAIN listening /\ q[j] = listening[j + d]
      BY <1>1, <1>2, <2>3, <3>1, <3>3 DEF JournalInv, HeardInTurn
    <3> QED
      BY <1>5, <3>2, <3>3
  <2> QED
    BY <1>1, <1>4, <2>1, <2>2, <2>3 DEF HeardInTurn
<1>10. WrittenInTurn'
  BY <1>1 DEF JournalInv, WrittenInTurn
<1>11. NothingIsMissing'
  <2> SUFFICES ASSUME ~missed'
               PROVE  /\ (\E i \in DOMAIN q : q[i] = said') \/ noted = Noted(said')
                      /\ said' <= Carried => Len(log) = noted
    BY <1>1, <1>4 DEF NothingIsMissing
  <2>1. ~missed /\ ~LastUpdateShed(q)
    BY <1>4, <1>8 DEF JournalInv, JournalTyped
  <2>2. said' <= Carried => Len(log) = noted
    BY <1>1, <2>1 DEF JournalInv, NothingIsMissing
  <2>3. CASE event = said'
    BY <1>2, <1>3, <2>2, <2>3
  <2>4. CASE event = NoUpdate /\ said' = said
    <3>1. ASSUME NEW i \in DOMAIN listening, listening[i] = said
          PROVE  \E j \in DOMAIN q : q[j] = said
      <4>1. listening[i] # NoUpdate
        BY <1>6, <3>1, <1>1 DEF NoUpdate
      <4>2. PICK j \in DOMAIN q : q[j] # NoUpdate
        BY <2>1, <4>1 DEF LastUpdateShed
      <4>3. j \in 1..Len(rest) /\ j + d \in DOMAIN listening /\ q[j] = listening[j + d]
        BY <1>5, <2>4, <4>2
      <4>4. CASE i = 1 /\ d = 1
        <5>1. i < j + d /\ listening[i] <= listening[j + d] /\ listening[j + d] <= said
          BY <1>1, <1>2, <3>1, <4>1, <4>2, <4>3, <4>4 DEF JournalInv, HeardInTurn
        <5>2. listening[j + d] \in Nat
          BY <1>6, <4>2, <4>3
        <5> QED
          BY <1>1, <3>1, <4>3, <5>1, <5>2
      <4>5. CASE ~(i = 1 /\ d = 1)
        <5>1. i - d \in 1..Len(rest) /\ (i - d) + d = i
          BY <1>1, <1>2, <4>5
        <5>2. q[i - d] = listening[i] /\ i - d \in DOMAIN q
          BY <1>2, <1>3, <5>1, SMTT(30)
        <5> QED
          BY <3>1, <5>2
      <4> QED
        BY <4>4, <4>5
    <3> QED
      BY <1>1, <2>1, <2>2, <2>4, <3>1 DEF JournalInv, NothingIsMissing
  <2> QED
    BY <2>3, <2>4
<1> QED
  BY <1>8, <1>9, <1>10, <1>11 DEF JournalInv

\* What the journal takes from its queue is the oldest of what waits there.
Takes(n, q) ==
  /\ n \in Update /\ q \in Seq(Update) /\ listening' = q
  /\ n = NoUpdate => UNCHANGED <<noted, log, missed>>
  /\ n # NoUpdate => /\ n \in 0..said /\ noted <= Noted(n) /\ noted' = Noted(n)
                     /\ \/ log' = log \o New(n) /\ missed' = missed
                        \/ missed' = TRUE /\ log' = log
  /\ \A i \in DOMAIN q : q[i] # NoUpdate => /\ q[i] \in 0..said /\ noted <= Noted(q[i])
                                            /\ n # NoUpdate => n <= q[i]
  /\ \A i, j \in DOMAIN q :
       i < j /\ q[i] # NoUpdate /\ q[j] # NoUpdate => q[i] <= q[j]
  /\ (\E i \in DOMAIN listening : listening[i] = said) =>
       n = said \/ \E i \in DOMAIN q : q[i] = said

LEMMA TheOldestIsTaken ==
  ASSUME JournalInv, Note
  PROVE  \E n, q : Takes(n, q)
<1> DEFINE n == Head(listening)
           q == Tail(listening)
<1>1. /\ listening \in Seq(Update) /\ Len(listening) \in Nat /\ Len(listening) >= 1
      /\ MaxMessages \in Nat /\ said \in Nat
  BY MessagesAssumption DEF JournalInv, JournalTyped, Note
<1>2. /\ q \in Seq(Update) /\ Len(q) = Len(listening) - 1 /\ Len(q) \in Nat
      /\ \A i \in 1..Len(q) : q[i] = listening[i + 1]
      /\ n = listening[1] /\ n \in Update
  BY <1>1
<1>3. listening' = q /\ (n = NoUpdate => UNCHANGED <<noted, log, missed>>)
  BY DEF Note
<1>4. n # NoUpdate => /\ noted' = Noted(n)
                      /\ \/ log' = log \o New(n) /\ missed' = missed
                         \/ missed' = TRUE /\ log' = log
  BY DEF Note
<1> HIDE DEF n, q
<1>5. \A i \in DOMAIN listening : listening[i] # NoUpdate => listening[i] \in 0..said
  BY <1>1 DEF JournalInv, HeardInTurn, Update, NoUpdate
<1>6. 1 \in DOMAIN listening
  BY <1>1
<1>7. ASSUME NEW i \in DOMAIN q
      PROVE  i \in 1..Len(q) /\ i + 1 \in DOMAIN listening /\ q[i] = listening[i + 1]
  BY <1>1, <1>2
<1>8. ASSUME NEW i \in DOMAIN q, q[i] # NoUpdate
      PROVE  /\ q[i] \in 0..said /\ noted <= Noted(q[i]) /\ (n # NoUpdate => n <= q[i])
  <2>1. i \in 1..Len(q) /\ i + 1 \in DOMAIN listening /\ q[i] = listening[i + 1] /\ 1 < i + 1
    BY <1>2, <1>7
  <2> QED
    BY <1>2, <1>5, <1>6, <1>8, <2>1 DEF JournalInv, HeardInTurn
<1>9. ASSUME NEW i \in DOMAIN q, NEW j \in DOMAIN q, i < j, q[i] # NoUpdate, q[j] # NoUpdate
      PROVE  q[i] <= q[j]
  <2>1. /\ i + 1 \in DOMAIN listening /\ q[i] = listening[i + 1]
        /\ j + 1 \in DOMAIN listening /\ q[j] = listening[j + 1]
        /\ i + 1 < j + 1
    BY <1>2, <1>7, <1>9
  <2> QED
    BY <1>9, <2>1 DEF JournalInv, HeardInTurn
<1>10. ASSUME NEW i \in DOMAIN listening, listening[i] = said
       PROVE  n = said \/ \E j \in DOMAIN q : q[j] = said
  <2>1. CASE i = 1
    BY <1>2, <1>10, <2>1
  <2>2. CASE i # 1
    <3>1. i - 1 \in 1..Len(q) /\ (i - 1) + 1 = i
      BY <1>1, <1>2, <2>2
    <3>2. i - 1 \in DOMAIN q /\ q[i - 1] = listening[i]
      BY <1>2, <3>1
    <3> QED
      BY <1>10, <3>2
  <2> QED
    BY <2>1, <2>2
<1>11. n # NoUpdate => n \in 0..said /\ noted <= Noted(n)
  BY <1>2, <1>5, <1>6 DEF JournalInv, HeardInTurn
<1>12. Takes(n, q)
  BY <1>2, <1>3, <1>4, <1>8, <1>9, <1>10, <1>11 DEF Takes
<1> QED
  BY <1>12

\* An update about something else is not written down.
LEMMA NothingToNote ==
  ASSUME JournalInv, NEW q, Takes(NoUpdate, q), said' = said
  PROVE  JournalInv'
<1>1. /\ listening' = q /\ noted' = noted /\ log' = log /\ missed' = missed
      /\ said \in Nat /\ q \in Seq(Update)
  BY MessagesAssumption DEF Takes, JournalInv, JournalTyped
<1>2. JournalTyped' /\ WrittenInTurn'
  BY <1>1 DEF JournalInv, JournalTyped, WrittenInTurn
<1>3. HeardInTurn'
  BY <1>1 DEF Takes, JournalInv, HeardInTurn
<1>4. NoUpdate # said
  BY <1>1 DEF NoUpdate
<1>5. NothingIsMissing'
  BY <1>1, <1>4 DEF Takes, JournalInv, NothingIsMissing
<1> QED
  BY <1>2, <1>3, <1>5 DEF JournalInv

\* A sequence and what is put behind it.
LEMMA Behind ==
  ASSUME NEW a \in Seq(Nat), NEW b \in Seq(Nat), NEW k \in Nat, Len(b) = k
  PROVE  /\ a \o b \in Seq(Nat) /\ Len(a \o b) = Len(a) + k
         /\ \A i \in 1..Len(a) : (a \o b)[i] = a[i]
         /\ \A i \in 1..k : (a \o b)[Len(a) + i] = b[i]
<1>1. a \o b \in Seq(Nat) /\ Len(a \o b) = Len(a) + k /\ Len(a) \in Nat
  BY SMTT(30)
<1>2. \A i \in 1..Len(a) : (a \o b)[i] = a[i]
  OBVIOUS
<1>3. ASSUME NEW i \in 1..k
      PROVE  (a \o b)[Len(a) + i] = b[i]
  <2>1. Len(a) + i \in 1..(Len(a) + Len(b)) /\ Len(a) + i > Len(a) /\ (Len(a) + i) - Len(a) = i
    BY <1>1
  <2> QED
    BY <2>1
<1> QED
  BY <1>1, <1>2, <1>3

\* What is written of an update goes on where the file stopped.
LEMMA WritingGoesOn ==
  ASSUME JournalInv, NEW n \in Nat, noted <= Noted(n), noted' = Noted(n),
         log' = log \o New(n)
  PROVE  WrittenInTurn' /\ log' \in Seq(Nat) /\ Len(log') = Len(log) + (Noted(n) - noted)
<1> DEFINE d == IF n < Carried THEN 0 ELSE n - Carried
           k == Noted(n) - noted
           s == New(n)
<1>1. /\ Carried \in Nat \ {0} /\ noted \in 0..Carried /\ noted \in Nat
      /\ log \in Seq(Nat) /\ Len(log) \in Nat
  BY CarriedAssumption DEF JournalInv, JournalTyped
<1>2. /\ Noted(n) = (IF n < Carried THEN n ELSE Carried) /\ d \in Nat
  <2>1. Noted(n) = (IF n < Carried THEN n ELSE Carried)
    BY PayloadIsTheLast
  <2> QED
    BY <1>1, <2>1
<1>3. k \in Nat
  BY <1>1, <1>2
<1>4. s \in Seq(Nat) /\ Len(s) = k /\ \A i \in 1..k : s[i] = noted + i + d
  BY <1>1, NewIsTheRest
<1>5. Noted(n) < Carried => d = 0
  BY <1>1, <1>2
<1>6. log' = log \o s
  OBVIOUS
<1>7. k = 0 => noted = Noted(n)
  BY <1>1, <1>2
<1>8. k # 0 => noted < Carried
  BY <1>1, <1>2
<1>9. Noted(n) = noted + k
  BY <1>1, <1>2
<1> HIDE DEF s, d, k
<1>10. /\ log' \in Seq(Nat) /\ Len(log') = Len(log) + k
       /\ \A i \in 1..Len(log) : log'[i] = log[i]
       /\ \A i \in 1..k : log'[Len(log) + i] = s[i]
  BY <1>1, <1>3, <1>4, <1>6, Behind
<1>11. ASSUME NEW i \in DOMAIN log', i \notin 1..Len(log)
       PROVE  i - Len(log) \in 1..k /\ i \in Nat /\ log'[i] = noted + (i - Len(log)) + d
  <2>1. i \in Nat /\ i - Len(log) \in 1..k /\ Len(log) + (i - Len(log)) = i
    BY <1>1, <1>3, <1>10, <1>11
  <2> QED
    BY <1>4, <1>10, <2>1
<1>12. \A i \in 1..Len(log) : log[i] \in Nat /\ (k # 0 => log[i] <= noted)
  BY <1>1, <1>8 DEF JournalInv, WrittenInTurn
<1>13. ASSUME NEW i \in DOMAIN log', NEW j \in DOMAIN log', i < j
       PROVE  log'[i] < log'[j]
  <2>1. i \in 1..(Len(log) + k) /\ j \in 1..(Len(log) + k)
    BY <1>1, <1>3, <1>10
  <2>2. CASE j \in 1..Len(log)
    <3>1. i \in 1..Len(log) /\ i \in DOMAIN log /\ j \in DOMAIN log
      BY <1>1, <1>3, <1>13, <2>1, <2>2
    <3> QED
      BY <1>10, <1>13, <2>2, <3>1 DEF JournalInv, WrittenInTurn
  <2>3. CASE j \notin 1..Len(log)
    <3>1. j - Len(log) \in 1..k /\ log'[j] = noted + (j - Len(log)) + d
      BY <1>11, <2>3
    <3>2. CASE i \in 1..Len(log)
      <4>1. log'[i] = log[i] /\ log[i] \in Nat /\ log[i] <= noted
        BY <1>3, <1>10, <1>12, <3>1, <3>2
      <4>2. j - Len(log) \in Nat \ {0}
        BY <1>3, <3>1
      <4> QED
        <5> DEFINE x == j - Len(log)
        <5>1. x \in Nat \ {0} /\ log'[j] = noted + x + d
          BY <3>1, <4>2
        <5> HIDE DEF x
        <5> QED
          BY <1>1, <1>2, <4>1, <5>1
    <3>3. CASE i \notin 1..Len(log)
      <4>1. i - Len(log) \in 1..k /\ log'[i] = noted + (i - Len(log)) + d
        BY <1>11, <3>3
      <4>2. i - Len(log) < j - Len(log)
        BY <1>1, <1>3, <1>13, <2>1
      <4> QED
        BY <1>1, <1>2, <1>3, <3>1, <4>1, <4>2
    <3> QED
      BY <3>2, <3>3
  <2> QED
    BY <2>2, <2>3
<1>14. ASSUME Noted(n) < Carried, NEW i \in DOMAIN log'
       PROVE  log'[i] <= Noted(n)
  <2>1. CASE i \in 1..Len(log)
    <3>1. log'[i] = log[i] /\ log[i] \in Nat
      BY <1>10, <1>12, <2>1
    <3>2. noted < Carried
      BY <1>1, <1>3, <1>9, <1>14
    <3>3. log[i] <= noted
      BY <2>1, <3>2, <1>1 DEF JournalInv, WrittenInTurn
    <3> QED
      BY <1>1, <1>3, <1>9, <3>1, <3>3
  <2>2. CASE i \notin 1..Len(log)
    <3>1. i - Len(log) \in 1..k /\ log'[i] = noted + (i - Len(log)) + d
      BY <1>11, <2>2
    <3>2. i - Len(log) \in Nat /\ i - Len(log) <= k
      BY <1>3, <3>1
    <3> QED
      BY <1>1, <1>3, <1>5, <1>9, <1>14, <3>1, <3>2
  <2> QED
    BY <2>1, <2>2
<1>15. WrittenInTurn'
  BY <1>13, <1>14 DEF WrittenInTurn
<1> QED
  BY <1>10, <1>15 DEF k

\* Written or not, an update leaves the journal in order.
LEMMA AnUpdateIsNoted ==
  ASSUME JournalInv, NEW n, NEW q, n # NoUpdate, Takes(n, q), said' = said
  PROVE  JournalInv'
<1>1. /\ listening' = q /\ q \in Seq(Update) /\ noted' = Noted(n) /\ noted <= Noted(n)
      /\ (log' = log \o New(n) /\ missed' = missed) \/ (missed' = TRUE /\ log' = log)
      /\ missed \in BOOLEAN /\ said \in Nat /\ n \in Nat /\ n <= said
      /\ Carried \in Nat \ {0} /\ noted \in 0..Carried /\ said \in 0..MaxMessages
      /\ log \in Seq(Nat)
  BY MessagesAssumption, CarriedAssumption DEF Takes, JournalInv, JournalTyped
<1>2. Noted(n) \in 0..Carried /\ Noted(n) <= Noted(said) /\ (Noted(n) < Carried => Noted(n) = n)
      /\ Noted(said) \in 0..Carried
  BY <1>1, NotedGrows, PayloadIsTheLast
<1>3. CASE log' = log \o New(n) /\ missed' = missed
  <2>1. WrittenInTurn' /\ log' \in Seq(Nat) /\ Len(log') = Len(log) + (Noted(n) - noted)
    BY <1>1, <1>3, WritingGoesOn
  <2>2. JournalTyped'
    BY <1>1, <1>2, <1>3, <2>1 DEF JournalTyped
  <2>3. NothingIsMissing'
    <3> SUFFICES ASSUME ~missed
                 PROVE  /\ (\E i \in DOMAIN q : q[i] = said) \/ Noted(n) = Noted(said)
                        /\ said <= Carried => Len(log') = Noted(n)
      BY <1>1, <1>3 DEF NothingIsMissing
    <3>1. (\E i \in DOMAIN q : q[i] = said) \/ Noted(n) = Noted(said)
      BY <1>1, <1>2 DEF Takes, JournalInv, NothingIsMissing
    <3>2. said <= Carried => Len(log') = Noted(n)
      BY <1>1, <1>2, <2>1 DEF JournalInv, NothingIsMissing
    <3> QED
      BY <3>1, <3>2
  <2>4. HeardInTurn'
    <3>1. \A i \in DOMAIN q : q[i] # NoUpdate => q[i] \in Nat /\ n <= q[i] /\ q[i] <= said
      BY <1>1 DEF Takes
    <3>2. \A i \in DOMAIN q : q[i] # NoUpdate => Noted(n) <= Noted(q[i])
      BY <1>1, <3>1, NotedGrows
    <3> QED
      BY <1>1, <1>2, <3>1, <3>2 DEF Takes, HeardInTurn
  <2> QED
    BY <2>1, <2>2, <2>3, <2>4 DEF JournalInv
<1>4. CASE missed' = TRUE /\ log' = log
  <2>1. JournalTyped'
    BY <1>1, <1>2, <1>4 DEF JournalTyped
  <2>2. WrittenInTurn'
    BY <1>1, <1>2, <1>4 DEF JournalInv, WrittenInTurn
  <2>3. NothingIsMissing'
    BY <1>4 DEF NothingIsMissing
  <2>4. HeardInTurn'
    <3>1. \A i \in DOMAIN q : q[i] # NoUpdate => q[i] \in Nat /\ n <= q[i] /\ q[i] <= said
      BY <1>1 DEF Takes
    <3>2. \A i \in DOMAIN q : q[i] # NoUpdate => Noted(n) <= Noted(q[i])
      BY <1>1, <3>1, NotedGrows
    <3> QED
      BY <1>1, <1>2, <3>1, <3>2 DEF Takes, HeardInTurn
  <2> QED
    BY <2>1, <2>2, <2>3, <2>4 DEF JournalInv
<1> QED
  BY <1>1, <1>3, <1>4

\* Beside the dashboards' invariant, the journal's.
LEMMA LogInitInv == LogInit => IInv /\ JournalInv
<1> SUFFICES ASSUME LogInit PROVE IInv /\ JournalInv
  OBVIOUS
<1>1. /\ said = 0 /\ listening = <<>> /\ noted = 0 /\ log = <<>> /\ missed = FALSE
      /\ MaxMessages \in Nat /\ Carried \in Nat \ {0}
  BY MessagesAssumption, CarriedAssumption DEF LogInit
<1>2. Noted(0) = 0
  BY <1>1, PayloadIsTheLast
<1>3. JournalTyped /\ HeardInTurn /\ WrittenInTurn /\ NothingIsMissing
  <2>1. JournalTyped
    <3>1. listening \in Seq(Update) /\ log \in Seq(Nat)
      BY <1>1
    <3>2. 0 \in 0..MaxMessages /\ 0 \in 0..Carried
      BY <1>1
    <3> QED
      BY <1>1, <3>1, <3>2 DEF JournalTyped
  <2>2. DOMAIN listening = {} /\ DOMAIN log = {} /\ Len(log) = 0
    BY <1>1
  <2>3. noted = Noted(said) /\ noted <= Noted(said)
    BY <1>1, <1>2
  <2>4. HeardInTurn
    BY <2>2, <2>3 DEF HeardInTurn
  <2>5. WrittenInTurn
    BY <2>2 DEF WrittenInTurn
  <2>6. NothingIsMissing
    BY <1>1, <2>2, <2>3 DEF NothingIsMissing
  <2> QED
    BY <2>1, <2>4, <2>5, <2>6
<1> QED
  BY <1>3, InitInv DEF LogInit, JournalInv

MovesOn == \A c \in Clients : phase[c] # "closed" => seen'[c] >= seen[c]

\* A task's update is news of something else to the dashboards.
LEMMA LogStepInv ==
  IInv /\ JournalInv /\ [LogNext]_<<vars, journal>> =>
    /\ IInv' /\ JournalInv'
    /\ [MovesOn]_vars
<1> SUFFICES ASSUME IInv, JournalInv, [LogNext]_<<vars, journal>>
             PROVE  IInv' /\ JournalInv' /\ [MovesOn]_vars
  OBVIOUS
<1>1. /\ MaxMessages \in Nat /\ said \in 0..MaxMessages /\ truth \in Message /\ 0 \in Message
      /\ NoUpdate \in Update /\ \A c \in Clients : seen[c] \in Nat
  BY MessagesAssumption, BoundAssumption
     DEF JournalInv, JournalTyped, IInv, TypeOK, Message, Update, NoUpdate
<1>2. CASE UNCHANGED <<vars, journal>>
  <2>1. UNCHANGED vars /\ UNCHANGED journal
    BY <1>2
  <2>2. IInv'
    BY <2>1, StepInv
  <2>3. JournalInv'
    BY <2>1 DEF journal, JournalInv, JournalTyped, HeardInTurn, WrittenInTurn, NothingIsMissing
  <2> QED
    BY <2>1, <2>2, <2>3
<1>3. CASE Report
  <2>1. /\ truth' = truth /\ Publish(0) /\ Hears(said')
        /\ said' \in 0..MaxMessages /\ said <= said'
    BY <1>1, <1>3 DEF Report
  <2>2. IInv' /\ seen' = seen
    BY <1>1, <2>1, PublishKeeps, BoundAssumption DEF Message
  <2>3. JournalInv'
    BY <1>1, <2>1, HearsKeeps DEF Update
  <2> QED
    BY <1>1, <2>2, <2>3 DEF MovesOn
<1>4. CASE OtherNews
  <2>1. (Change \/ PublishOther) /\ Hears(NoUpdate) /\ said' = said
    BY <1>4 DEF OtherNews
  <2>2. IInv' /\ [MovesOn]_vars
    BY <2>1, StepInv DEF Next, MovesOn
  <2>3. JournalInv'
    BY <1>1, <2>1, HearsKeeps
  <2> QED
    BY <2>2, <2>3
<1>5. CASE Note
  <2>1. UNCHANGED vars /\ said' = said
    BY <1>5 DEF Note
  <2>2. IInv'
    BY <2>1, StepInv
  <2>3. PICK n, q : Takes(n, q)
    BY <1>5, TheOldestIsTaken
  <2>4. JournalInv'
    BY <2>1, <2>3, NothingToNote, AnUpdateIsNoted
  <2> QED
    BY <2>1, <2>2, <2>4
<1>6. CASE Dashboards
  <2>1. Next /\ UNCHANGED journal
    BY <1>6 DEF Dashboards, Next
  <2>2. IInv' /\ [MovesOn]_vars
    BY <2>1, StepInv DEF MovesOn
  <2>3. JournalInv'
    BY <2>1 DEF journal, JournalInv, JournalTyped, HeardInTurn, WrittenInTurn, NothingIsMissing
  <2> QED
    BY <2>2, <2>3
<1> QED
  BY <1>2, <1>3, <1>4, <1>5, <1>6 DEF LogNext

LEMMA LogInvAlways == LogSpec => [](IInv /\ JournalInv)
<1>1. IInv /\ JournalInv /\ [LogNext]_<<vars, journal>> => (IInv /\ JournalInv)'
  BY LogStepInv
<1> QED
  BY <1>1, LogInitInv, PTL DEF LogSpec

\* What the journal has written of a task is in the order it was said, each
\* message once, whatever its queue shed and whatever could not be written; and
\* a task no longer than an update is recorded whole unless something was.
THEOREM JournalIsInTurn == LogSpec => []RecordedInTurn
<1>1. JournalInv => RecordedInTurn
  <2> SUFFICES ASSUME JournalInv PROVE RecordedInTurn
    OBVIOUS
  <2>1. \A i, j \in DOMAIN log : i < j => log[i] < log[j]
    BY DEF JournalInv, WrittenInTurn
  <2>2. ASSUME listening = <<>>, ~missed, said <= Carried
        PROVE  Len(log) = said
    <3>1. Noted(said) = said
      BY <2>2, PayloadIsTheLast, MessagesAssumption, CarriedAssumption
         DEF JournalInv, JournalTyped
    <3>2. noted = Noted(said) /\ Len(log) = noted
      BY <2>2 DEF JournalInv, NothingIsMissing
    <3> QED
      BY <3>1, <3>2
  <2> QED
    BY <2>1, <2>2 DEF RecordedInTurn
<1> QED
  BY <1>1, LogInvAlways, PTL

\* And with the journal on the bus, and tasks that report to it, no open
\* dashboard is taken back.
THEOREM DashboardsMoveOnBesideIt == LogSpec => NeverGoesBack
<1>1. IInv /\ JournalInv /\ [LogNext]_<<vars, journal>> => [MovesOn]_vars
  BY LogStepInv
<1>2. LogSpec => [][MovesOn]_vars
  BY <1>1, LogInvAlways, PTL DEF LogSpec
<1> QED
  BY <1>2, PTL DEF NeverGoesBack, MovesOn

\* And they are fed as before.
THEOREM DashboardsAreFedBesideIt == LogSpec => MovesForward
<1>1. IInv /\ JournalInv /\ [LogNext]_<<vars, journal>> => [Feed!Next]_<<truth, Watching, seen>>
  <2> SUFFICES ASSUME IInv, [LogNext]_<<vars, journal>>
               PROVE  [Feed!Next]_<<truth, Watching, seen>>
    OBVIOUS
  <2>1. CASE Report
    BY <2>1, PublishingIsNotShowing DEF Report
  <2>2. CASE OtherNews \/ Dashboards
    BY <2>2, StepFeeds DEF OtherNews, Dashboards, Next
  <2>3. CASE Note \/ UNCHANGED <<vars, journal>>
    BY <2>3 DEF Note, vars, Watching
  <2> QED
    BY <2>1, <2>2, <2>3 DEF LogNext
<1>2. LogInit => Feed!Init
  BY InitFeeds DEF LogInit
<1> QED
  BY <1>1, <1>2, LogInvAlways, PTL DEF LogSpec, MovesForward, Feed!Spec
=============================================================================
