--------------------------- MODULE ObservatoryProofs ---------------------------
(***************************************************************************)
(* Proofs about Observatory, for any drivers, rates and number of requests *)
(* under way, through any number of crashes and restarts.                  *)
(***************************************************************************)
EXTENDS Observatory, SequenceTheorems, TLAPS

-----------------------------------------------------------------------------
(* What holds whatever overlaps                                            *)

\* The devices a switch has made and not registered yet, and the others that a
\* request has to do with.
Fresh(w) ==
  IF w.kind = "mount" THEN IF w.pc \in {"connect", "release"} THEN {w.new[1]} ELSE {}
  ELSE IF w.kind = "camera" THEN {w.new[1], w.new[2]} ELSE {}
Known(w) ==
  IF w.kind = "mount" THEN {w.old[1]}
  ELSE IF w.kind = "camera" THEN {w.old[1], w.old[2]}
  ELSE IF w.kind \in {"connect", "disconnect"} THEN {w.of} ELSE {}

\* Nobody else has to do with a device that is not registered.
FreshIsApart ==
  /\ \A p \in Requesters, role \in Roles : registry[role] \notin Fresh(works[p])
  /\ \A p, q \in Requesters : Fresh(works[p]) \cap Known(works[q]) = {}
  /\ \A p, q \in Requesters : p # q => Fresh(works[p]) \cap Fresh(works[q]) = {}

\* Who lets the old one go has the new one open.
Answered(w, devs) ==
  /\ w.kind = "mount" /\ w.pc = "release" => devs[w.new[1]].open
  /\ w.kind = "camera" /\ w.pc \in {"connect guide", "view", "stop", "release"} => devs[w.new[1]].open
  /\ w.kind = "camera" /\ w.pc \in {"view", "stop", "release"} => devs[w.new[2]].open
SwitchesAnswered == \A p \in Requesters : Answered(works[p], devices)

\* A role that is not lost has an open device, and not one that may still be undone.
Serves(role, d) ==
  Filled(role, d) /\ devices[d].open /\ \A p \in Requesters : d \notin Fresh(works[p])
RolesAreServed == process = "runs" => \A role \in Roles \ lost : \E d \in Numbers : Serves(role, d)

ShutIsQuiet == process = "shut" => Quiet

RigInv == TypeOK /\ FreshIsApart /\ SwitchesAnswered /\ RolesAreServed /\ ShutIsQuiet

-----------------------------------------------------------------------------
(* What holds until a switch overlaps                                      *)

\* The state file; the devices of the rig; who holds them; what is on.
Stored(m, c) == state = [mount |-> m, camera |-> c, rate |-> rate]
Driven(m, c) ==
  /\ devices[registry["mount"]].driver = m
  /\ devices[registry["mount"]].rate = RateOf(m, rate)
  /\ \A role \in {"camera", "guide"} : devices[registry[role]].driver = c
Held ==
  /\ guider.mount = registry["mount"] /\ guider.camera = registry["guide"]
  /\ view.camera = registry["camera"]
Drawn(sims, c) ==
  /\ sims = IF c = Simulator THEN {registry["camera"], registry["guide"]} ELSE {}
  /\ \A s \in sims : source[s] = registry["mount"]
OnlyOn(others) ==
  /\ \A d \in Numbers : devices[d].open => d \in others \/ \E role \in Roles : registry[role] = d
  /\ \A g \in DOMAIN guiders : guiders[g].loop \/ guiders[g].view => g = Len(guiders)
  /\ \A v \in DOMAIN views : views[v].on => v = Len(views)

\* No switch under way: everything agrees, and requests look at what is there.
UpToDate(w) ==
  /\ w.kind \in {"connect", "disconnect"} => w.of = registry[w.role]
  /\ w.kind = "guide" => w.of = Len(guiders)
InPlace ==
  /\ Stored(driver.mount, driver.camera) /\ Driven(driver.mount, driver.camera)
  /\ Held /\ Drawn(sensors, driver.camera) /\ OnlyOn({}) /\ view.on
Steady == InPlace /\ \A p \in Requesters : UpToDate(works[p])

\* A switch of the mount: up to the release the rig is what it was, but for the
\* driver's name; from then on the new mount is registered, and the guider stops.
MountStage(w) ==
  /\ driver.mount = w.to
  /\ Stored(w.was, driver.camera)
  /\ view.on /\ view.camera = registry["camera"]
  /\ Drawn(sensors, driver.camera)
  /\ w.pc \in {"connect", "release"} =>
       /\ Driven(w.was, driver.camera) /\ Held /\ OnlyOn({w.new[1]})
       /\ w.pc = "connect" => ~devices[w.new[1]].open
       /\ w.old[1] = registry["mount"]
       /\ devices[w.new[1]].driver = w.to /\ devices[w.new[1]].rate = RateOf(w.to, rate)
  /\ w.pc \in {"stop", "build"} =>
       /\ Driven(w.to, driver.camera) /\ OnlyOn({}) /\ ~guider.view
       /\ w.pc = "build" => ~guider.loop

\* A switch of the cameras: the rig is what it was to the end, but for the names,
\* the sensors and what has been stopped.
CameraStage(w) ==
  /\ driver.camera = w.to
  /\ Stored(driver.mount, w.was) /\ Driven(driver.mount, w.was)
  /\ Held /\ Drawn(w.sims, w.was) /\ OnlyOn({w.new[1], w.new[2]})
  /\ w.old[1] = registry["camera"] /\ w.old[2] = registry["guide"]
  /\ sensors = IF w.to = Simulator THEN {w.new[1], w.new[2]} ELSE {}
  /\ \A s \in sensors : source[s] = registry["mount"]
  /\ \A i \in {1, 2} : devices[w.new[i]].driver = w.to
  /\ view.on <=> w.pc \in {"connect", "connect guide", "undo"}
  /\ w.pc \in {"stop", "release"} => ~guider.view
  /\ w.pc = "release" => ~guider.loop

Alone(p) == \A q \in Requesters : q # p => works[q] = Idle
InTurn ==
  process = "runs" =>
    /\ ~Switching => Steady
    /\ \A p \in Requesters : works[p].kind = "mount" => Alone(p) /\ MountStage(works[p])
    /\ \A p \in Requesters : works[p].kind = "camera" => Alone(p) /\ CameraStage(works[p])

AllOff ==
  /\ \A d \in Numbers : ~devices[d].open
  /\ \A g \in DOMAIN guiders : ~guiders[g].loop /\ ~guiders[g].view
  /\ \A v \in DOMAIN views : ~views[v].on

TurnInv == ~overlapped => InTurn /\ (process = "shut" => AllOff)

-----------------------------------------------------------------------------
(* What steps do to devices, guiders and views                             *)

GuiderType == [mount : Numbers, camera : Numbers, view : BOOLEAN, loop : BOOLEAN]
ViewType == [camera : Numbers, on : BOOLEAN]

LEMMA Lengths ==
  ASSUME TypeOK
  PROVE  /\ Len(devices) \in Nat /\ Numbers = DOMAIN devices /\ \A d \in Numbers : devices[d] \in DeviceType
         /\ Len(guiders) \in DOMAIN guiders /\ Len(guiders) \in Nat /\ DOMAIN guiders = 1..Len(guiders)
         /\ Len(views) \in DOMAIN views /\ Len(views) \in Nat /\ DOMAIN views = 1..Len(views)
BY DEF TypeOK, Numbers

\* Devices keep their role and their driver; there may be more of them.
DevicesStay ==
  /\ devices' \in Seq(DeviceType) /\ Len(devices) <= Len(devices')
  /\ \A d \in Numbers : devices'[d].role = devices[d].role /\ devices'[d].driver = devices[d].driver

LEMMA OpenedOne ==
  ASSUME TypeOK, NEW a \in Numbers, NEW yes \in BOOLEAN, devices' = Opened(a, yes)
  PROVE  /\ DevicesStay /\ Len(devices') = Len(devices)
         /\ \A d \in Numbers : /\ devices'[d].rate = devices[d].rate
                               /\ devices'[d].open = IF d = a THEN yes ELSE devices[d].open
<1>1. devices \in Seq(DeviceType) /\ Len(devices) \in Nat /\ a \in 1..Len(devices)
      /\ Numbers = 1..Len(devices) /\ \A d \in Numbers : devices[d] \in DeviceType
  BY Lengths DEF TypeOK, Numbers
<1>2. [devices[a] EXCEPT !.open = yes] \in DeviceType
  BY <1>1 DEF DeviceType
<1>3. devices' = [devices EXCEPT ![a] = [devices[a] EXCEPT !.open = yes]]
  BY DEF Opened
<1>4. devices' \in Seq(DeviceType) /\ Len(devices') = Len(devices)
  BY <1>1, <1>2, <1>3
<1>5. \A d \in Numbers : devices'[d] = IF d = a THEN [devices[a] EXCEPT !.open = yes] ELSE devices[d]
  BY <1>1, <1>3
<1> QED
  BY <1>1, <1>4, <1>5 DEF DevicesStay, DeviceType

Closes(a, b) == devices' = [devices EXCEPT ![a].open = FALSE, ![b].open = FALSE]

LEMMA ClosedTwo ==
  ASSUME TypeOK, NEW a \in Numbers, NEW b \in Numbers, a # b, Closes(a, b)
  PROVE  /\ DevicesStay /\ Len(devices') = Len(devices)
         /\ \A d \in Numbers : /\ devices'[d].rate = devices[d].rate
                               /\ devices'[d].open = IF d \in {a, b} THEN FALSE ELSE devices[d].open
<1>1. devices \in Seq(DeviceType) /\ Len(devices) \in Nat /\ a \in 1..Len(devices) /\ b \in 1..Len(devices)
      /\ Numbers = 1..Len(devices) /\ \A d \in Numbers : devices[d] \in DeviceType
  BY Lengths DEF TypeOK, Numbers
<1> DEFINE x == [devices[a] EXCEPT !.open = FALSE]
           y == [devices[b] EXCEPT !.open = FALSE]
<1>2. x \in DeviceType /\ y \in DeviceType
  BY <1>1 DEF DeviceType
<1>3. x.role = devices[a].role /\ x.driver = devices[a].driver /\ x.rate = devices[a].rate /\ x.open = FALSE
  BY <1>1 DEF DeviceType
<1>4. y.role = devices[b].role /\ y.driver = devices[b].driver /\ y.rate = devices[b].rate /\ y.open = FALSE
  BY <1>1 DEF DeviceType
<1> DEFINE first == [devices EXCEPT ![a] = x]
<1>5. devices' = [first EXCEPT ![b] = y]
  BY <1>1 DEF Closes
<1> HIDE DEF x, y
<1>6. first \in Seq(DeviceType) /\ Len(first) = Len(devices)
      /\ \A d \in Numbers : first[d] = IF d = a THEN x ELSE devices[d]
  BY <1>1, <1>2
<1> HIDE DEF first
<1>7. /\ devices' \in Seq(DeviceType) /\ Len(devices') = Len(devices)
      /\ \A d \in Numbers : devices'[d] = IF d = b THEN y ELSE first[d]
  <2>1. first \in Seq(DeviceType) /\ b \in 1..Len(first) /\ Numbers = 1..Len(first)
    BY <1>1, <1>6
  <2> QED
    BY <1>2, <1>5, <1>6, <2>1, ExceptSeq
<1>8. \A d \in Numbers : devices'[d] = IF d = b THEN y ELSE IF d = a THEN x ELSE devices[d]
  BY <1>6, <1>7
<1>9. \A d \in Numbers : /\ devices'[d].role = devices[d].role /\ devices'[d].driver = devices[d].driver
                        /\ devices'[d].rate = devices[d].rate
  BY <1>3, <1>4, <1>8
<1>10. \A d \in Numbers : devices'[d].open = IF d \in {a, b} THEN FALSE ELSE devices[d].open
  BY <1>3, <1>4, <1>8
<1>11. DevicesStay
  BY <1>1, <1>7, <1>9 DEF DevicesStay
<1> HIDE DEF first
<1> QED
  BY <1>7, <1>9, <1>10, <1>11

LEMMA OneMade ==
  ASSUME TypeOK, NEW x \in DeviceType, devices' = Append(devices, x)
  PROVE  /\ DevicesStay /\ Len(devices') = Len(devices) + 1
         /\ devices'[Len(devices) + 1] = x /\ \A d \in Numbers : devices'[d] = devices[d]
<1>1. devices \in Seq(DeviceType) /\ Len(devices) \in Nat /\ Numbers = 1..Len(devices)
  BY DEF TypeOK, Numbers
<1> QED
  BY <1>1 DEF DevicesStay

LEMMA TwoMade ==
  ASSUME TypeOK, NEW x \in DeviceType, NEW y \in DeviceType, devices' = devices \o <<x, y>>
  PROVE  /\ DevicesStay /\ Len(devices') = Len(devices) + 2
         /\ devices'[Len(devices) + 1] = x /\ devices'[Len(devices) + 2] = y
         /\ \A d \in Numbers : devices'[d] = devices[d]
<1>1. devices \in Seq(DeviceType) /\ Len(devices) \in Nat /\ Numbers = 1..Len(devices)
      /\ <<x, y>> \in Seq(DeviceType) /\ Len(<<x, y>>) = 2
  BY DEF TypeOK, Numbers
<1>2. /\ devices' \in Seq(DeviceType) /\ Len(devices') = Len(devices) + 2
      /\ \A i \in 1..(Len(devices) + 2) :
           devices'[i] = IF i <= Len(devices) THEN devices[i] ELSE <<x, y>>[i - Len(devices)]
  BY <1>1, ConcatProperties
<1>3. devices'[Len(devices) + 1] = x /\ devices'[Len(devices) + 2] = y
  <2>1. Len(devices) + 1 - Len(devices) = 1 /\ Len(devices) + 2 - Len(devices) = 2
    BY <1>1
  <2> QED
    BY <1>1, <1>2, <2>1
<1>4. \A d \in Numbers : devices'[d] = devices[d]
  BY <1>1, <1>2
<1> QED
  BY <1>1, <1>2, <1>3, <1>4 DEF DevicesStay

\* A guider goes on or off, or is built; so is a view.
LEMMA LoopSet ==
  ASSUME TypeOK, NEW i \in DOMAIN guiders, NEW yes \in BOOLEAN,
         guiders' = [guiders EXCEPT ![i].loop = yes]
  PROVE  /\ guiders' \in Seq(GuiderType) /\ Len(guiders') = Len(guiders) /\ DOMAIN guiders' = DOMAIN guiders
         /\ \A g \in DOMAIN guiders :
              /\ guiders'[g].mount = guiders[g].mount /\ guiders'[g].camera = guiders[g].camera
              /\ guiders'[g].view = guiders[g].view
              /\ guiders'[g].loop = IF g = i THEN yes ELSE guiders[g].loop
<1> DEFINE x == [guiders[i] EXCEPT !.loop = yes]
<1>1. guiders \in Seq(GuiderType)
  BY DEF TypeOK, GuiderType
<1>2. DOMAIN guiders = 1..Len(guiders) /\ Len(guiders) \in Nat /\ \A g \in DOMAIN guiders : guiders[g] \in GuiderType
  BY <1>1
<1>3. /\ x \in GuiderType /\ x.loop = yes /\ x.view = guiders[i].view
      /\ x.mount = guiders[i].mount /\ x.camera = guiders[i].camera
  BY <1>2 DEF GuiderType
<1>4. guiders' = [guiders EXCEPT ![i] = x]
  OBVIOUS
<1> HIDE DEF x
<1>5. /\ guiders' \in Seq(GuiderType) /\ Len(guiders') = Len(guiders) /\ DOMAIN guiders' = DOMAIN guiders
      /\ \A g \in DOMAIN guiders : guiders'[g] = IF g = i THEN x ELSE guiders[g]
  BY <1>1, <1>2, <1>3, <1>4
<1> QED
  BY <1>3, <1>5

LEMMA IdleViewSet ==
  ASSUME TypeOK, NEW i \in DOMAIN guiders, NEW yes \in BOOLEAN,
         guiders' = [guiders EXCEPT ![i].view = yes]
  PROVE  /\ guiders' \in Seq(GuiderType) /\ Len(guiders') = Len(guiders) /\ DOMAIN guiders' = DOMAIN guiders
         /\ \A g \in DOMAIN guiders :
              /\ guiders'[g].mount = guiders[g].mount /\ guiders'[g].camera = guiders[g].camera
              /\ guiders'[g].loop = guiders[g].loop
              /\ guiders'[g].view = IF g = i THEN yes ELSE guiders[g].view
<1> DEFINE x == [guiders[i] EXCEPT !.view = yes]
<1>1. guiders \in Seq(GuiderType)
  BY DEF TypeOK, GuiderType
<1>2. DOMAIN guiders = 1..Len(guiders) /\ Len(guiders) \in Nat /\ \A g \in DOMAIN guiders : guiders[g] \in GuiderType
  BY <1>1
<1>3. /\ x \in GuiderType /\ x.view = yes /\ x.loop = guiders[i].loop
      /\ x.mount = guiders[i].mount /\ x.camera = guiders[i].camera
  BY <1>2 DEF GuiderType
<1>4. guiders' = [guiders EXCEPT ![i] = x]
  OBVIOUS
<1> HIDE DEF x
<1>5. /\ guiders' \in Seq(GuiderType) /\ Len(guiders') = Len(guiders) /\ DOMAIN guiders' = DOMAIN guiders
      /\ \A g \in DOMAIN guiders : guiders'[g] = IF g = i THEN x ELSE guiders[g]
  BY <1>1, <1>2, <1>3, <1>4
<1> QED
  BY <1>3, <1>5

LEMMA ViewSet ==
  ASSUME TypeOK, NEW yes \in BOOLEAN, views' = [views EXCEPT ![Len(views)].on = yes]
  PROVE  /\ views' \in Seq(ViewType) /\ views' # <<>> /\ Len(views') = Len(views)
         /\ \A v \in DOMAIN views : /\ views'[v].camera = views[v].camera
                                    /\ views'[v].on = IF v = Len(views) THEN yes ELSE views[v].on
<1> DEFINE i == Len(views)
           x == [views[i] EXCEPT !.on = yes]
<1>1. views \in Seq(ViewType) /\ views # <<>>
  BY DEF TypeOK, ViewType
<1>2. DOMAIN views = 1..Len(views) /\ i \in DOMAIN views /\ \A v \in DOMAIN views : views[v] \in ViewType
  BY <1>1
<1>3. x \in ViewType /\ x.on = yes /\ x.camera = views[i].camera
  BY <1>2 DEF ViewType
<1>4. views' = [views EXCEPT ![i] = x]
  OBVIOUS
<1> HIDE DEF x, i
<1>5. /\ views' \in Seq(ViewType) /\ Len(views') = Len(views)
      /\ \A v \in DOMAIN views : views'[v] = IF v = i THEN x ELSE views[v]
  BY <1>1, <1>2, <1>3, <1>4
<1>6. views' # <<>>
  BY <1>1, <1>5
<1> QED
  BY <1>3, <1>5, <1>6 DEF i

-----------------------------------------------------------------------------
(* Types                                                                   *)

\* TypeOK's parts, of devices, sources and guiders that are given.
FilledIn(devs, role, d) == d \in 1..Len(devs) /\ devs[d].role = role
FitsIn(w, devs, drawn, built) ==
  \/ w = Idle
  \/ /\ w \in [kind : {"mount"}, pc : {"connect", "release", "stop", "build"}, new : Seq(Nat),
                old : Seq(Nat), was : MountDrivers, sims : {{}}, to : MountDrivers]
     /\ FilledIn(devs, "mount", w.new[1]) /\ FilledIn(devs, "mount", w.old[1])
  \/ /\ w \in [kind : {"camera"}, pc : {"connect", "connect guide", "undo", "view", "stop", "release"},
                new : Seq(Nat), old : Seq(Nat), was : CameraDrivers, sims : SUBSET drawn,
                to : CameraDrivers]
     /\ FilledIn(devs, "camera", w.new[1]) /\ FilledIn(devs, "guide", w.new[2])
     /\ FilledIn(devs, "camera", w.old[1]) /\ FilledIn(devs, "guide", w.old[2])
  \/ /\ w \in [kind : {"connect", "disconnect"}, pc : {"wait"}, role : Roles, of : Nat]
     /\ FilledIn(devs, w.role, w.of)
  \/ w \in [kind : {"guide"}, pc : {"wait"}, of : built]

LEMMA FitsAll ==
  ASSUME TypeOK
  PROVE  \A p \in Requesters : FitsIn(works[p], devices, DOMAIN source, DOMAIN guiders)
BY DEF TypeOK, WorkIsTyped, FitsIn, Filled, FilledIn, Numbers

LEMMA FitsStill ==
  ASSUME NEW w, NEW d, NEW e, NEW s, NEW t, NEW g, NEW h,
         Len(d) \in Nat, Len(e) \in Nat, Len(d) <= Len(e), \A i \in 1..Len(d) : e[i].role = d[i].role,
         s \subseteq t, g \subseteq h, FitsIn(w, d, s, g)
  PROVE  FitsIn(w, e, t, h)
<1>1. \A role \in Roles : \A i : FilledIn(d, role, i) => FilledIn(e, role, i)
  BY DEF FilledIn
<1>2. CASE w = Idle
  BY <1>2 DEF FitsIn
<1>3. CASE w.kind = "mount" /\ w # Idle
  BY <1>1, <1>3 DEF FitsIn, Roles
<1>4. CASE w.kind = "camera" /\ w # Idle
  <2>1. w \in [kind : {"camera"}, pc : {"connect", "connect guide", "undo", "view", "stop", "release"},
                new : Seq(Nat), old : Seq(Nat), was : CameraDrivers, sims : SUBSET s,
                to : CameraDrivers]
    BY <1>4 DEF FitsIn
  <2>2. w \in [kind : {"camera"}, pc : {"connect", "connect guide", "undo", "view", "stop", "release"},
                new : Seq(Nat), old : Seq(Nat), was : CameraDrivers, sims : SUBSET t,
                to : CameraDrivers]
    BY <2>1
  <2> QED
    BY <1>1, <1>4, <2>2 DEF FitsIn, Roles
<1>5. CASE w.kind \in {"connect", "disconnect"} /\ w # Idle
  BY <1>1, <1>5 DEF FitsIn
<1>6. CASE w.kind = "guide" /\ w # Idle
  BY <1>6 DEF FitsIn
<1> QED
  BY <1>2, <1>3, <1>4, <1>5, <1>6 DEF FitsIn

\* The work of one request goes on.
Becomes(p, w) == Advances(p, w) /\ FitsIn(w, devices', DOMAIN source', DOMAIN guiders')

LEMMA Grows ==
  ASSUME TypeOK, DevicesStay
  PROVE  /\ Len(devices) \in Nat /\ Len(devices') \in Nat /\ Len(devices) <= Len(devices')
         /\ \A i \in 1..Len(devices) : devices'[i].role = devices[i].role
BY Lengths DEF DevicesStay, Numbers

LEMMA WorksFit ==
  ASSUME TypeOK, DevicesStay, DOMAIN source \subseteq DOMAIN source', DOMAIN guiders \subseteq DOMAIN guiders',
         works' = works \/ \E p \in Requesters : \E w : Becomes(p, w)
  PROVE  DOMAIN works' = Requesters
         /\ \A p \in Requesters : FitsIn(works'[p], devices', DOMAIN source', DOMAIN guiders')
<1>1. DOMAIN works = Requesters
      /\ \A p \in Requesters : FitsIn(works[p], devices, DOMAIN source, DOMAIN guiders)
  BY FitsAll DEF TypeOK
<1>2. Len(devices) \in Nat /\ Len(devices') \in Nat /\ Len(devices) <= Len(devices')
      /\ \A i \in 1..Len(devices) : devices'[i].role = devices[i].role
  BY Grows
<1>3. \A p \in Requesters : FitsIn(works[p], devices', DOMAIN source', DOMAIN guiders')
  BY <1>1, <1>2, FitsStill
<1>4. CASE works' = works
  BY <1>1, <1>3, <1>4
<1>5. ASSUME NEW q \in Requesters, NEW w, Becomes(q, w)
      PROVE  DOMAIN works' = Requesters
             /\ \A p \in Requesters : FitsIn(works'[p], devices', DOMAIN source', DOMAIN guiders')
  <2>1. /\ DOMAIN works' = Requesters /\ works'[q] = w
        /\ \A p \in Requesters : p # q => works'[p] = works[p]
    BY <1>1, <1>5 DEF Becomes, Advances
  <2> QED
    BY <1>3, <1>5, <2>1 DEF Becomes
<1> QED
  BY <1>4, <1>5

LEMMA MoreOfThem ==
  ASSUME NEW S, NEW T, S \subseteq T, NEW q \in Seq(S)
  PROVE  q \in Seq(T)
OBVIOUS

\* What is left to show of a step that makes devices or not, and forgets none.
LEMMA TypeFrom ==
  ASSUME TypeOK, DevicesStay, DOMAIN source \subseteq DOMAIN source', DOMAIN guiders \subseteq DOMAIN guiders',
         works' = works \/ \E p \in Requesters : \E w : Becomes(p, w),
         registry' \in [Roles -> Nat], \A role \in Roles : FilledIn(devices', role, registry'[role]),
         driver' \in [mount : MountDrivers, camera : CameraDrivers], rate' \in Rates,
         state' \in [mount : MountDrivers, camera : CameraDrivers, rate : Rates],
         source' \in [DOMAIN source' -> 1..Len(devices')], DOMAIN source' \subseteq 1..Len(devices'),
         sensors' \subseteq DOMAIN source',
         guiders' \in Seq([mount : 1..Len(devices'), camera : 1..Len(devices'), view : BOOLEAN, loop : BOOLEAN]),
         views' \in Seq([camera : 1..Len(devices'), on : BOOLEAN]), views' # <<>>,
         lost' \in SUBSET Roles, process' \in {"runs", "shut"}, overlapped' \in BOOLEAN,
         asked' \in 0..MaxRequests, restarts' \in 0..MaxRestarts
  PROVE  TypeOK'
<1>1. devices' \in Seq(DeviceType)
  BY DEF DevicesStay
<1>2. guiders' # <<>>
  BY DEF TypeOK
<1>3. DOMAIN works' = Requesters /\ \A p \in Requesters : WorkIsTyped(works[p])'
  BY WorksFit DEF WorkIsTyped, FitsIn, Filled, FilledIn, Numbers
<1> QED
  BY <1>1, <1>2, <1>3 DEF TypeOK, Numbers, Filled, FilledIn

LEMMA Carried ==
  ASSUME TypeOK, DevicesStay
  PROVE  /\ Len(devices') \in Nat /\ Numbers \subseteq 1..Len(devices')
         /\ \A role \in Roles : registry[role] \in Numbers /\ FilledIn(devices', role, registry[role])
         /\ source \in [DOMAIN source -> 1..Len(devices')] /\ DOMAIN source \subseteq 1..Len(devices')
         /\ guiders \in Seq([mount : 1..Len(devices'), camera : 1..Len(devices'), view : BOOLEAN, loop : BOOLEAN])
         /\ views \in Seq([camera : 1..Len(devices'), on : BOOLEAN]) /\ views # <<>>
<1>1. Len(devices) \in Nat /\ Len(devices') \in Nat /\ Len(devices) <= Len(devices') /\ Numbers = 1..Len(devices)
  BY Lengths DEF DevicesStay, Numbers
<1>2. Numbers \subseteq 1..Len(devices')
  BY <1>1
<1>3. \A role \in Roles : registry[role] \in Numbers /\ FilledIn(devices', role, registry[role])
  <2>1. \A role \in Roles : registry[role] \in Numbers /\ devices[registry[role]].role = role
    BY DEF TypeOK, Filled
  <2> QED
    BY <1>2, <2>1 DEF FilledIn, DevicesStay
<1>4. source \in [DOMAIN source -> 1..Len(devices')] /\ DOMAIN source \subseteq 1..Len(devices')
  <2>1. source \in [DOMAIN source -> Numbers] /\ DOMAIN source \subseteq Numbers
    BY DEF TypeOK
  <2> QED
    BY <1>2, <2>1
<1>5. guiders \in Seq([mount : 1..Len(devices'), camera : 1..Len(devices'), view : BOOLEAN, loop : BOOLEAN])
  <2>1. GuiderType \subseteq [mount : 1..Len(devices'), camera : 1..Len(devices'), view : BOOLEAN, loop : BOOLEAN]
    BY <1>2 DEF GuiderType
  <2>2. guiders \in Seq(GuiderType)
    BY DEF TypeOK, GuiderType
  <2> QED
    BY <2>1, <2>2, MoreOfThem
<1>6. views \in Seq([camera : 1..Len(devices'), on : BOOLEAN]) /\ views # <<>>
  <2>1. ViewType \subseteq [camera : 1..Len(devices'), on : BOOLEAN]
    BY <1>2 DEF ViewType
  <2>2. views \in Seq(ViewType) /\ views # <<>>
    BY DEF TypeOK, ViewType
  <2> QED
    BY <2>1, <2>2, MoreOfThem
<1> QED
  BY <1>1, <1>2, <1>3, <1>4, <1>5, <1>6

MountWorks == [kind : {"mount"}, pc : {"connect", "release", "stop", "build"}, new : Seq(Nat),
               old : Seq(Nat), was : MountDrivers, sims : {{}}, to : MountDrivers]
CameraWorks == [kind : {"camera"}, pc : {"connect", "connect guide", "undo", "view", "stop", "release"},
                new : Seq(Nat), old : Seq(Nat), was : CameraDrivers, sims : SUBSET DOMAIN source,
                to : CameraDrivers]
OtherWorks == [kind : {"connect", "disconnect"}, pc : {"wait"}, role : Roles, of : Nat]
GuideWorks == [kind : {"guide"}, pc : {"wait"}, of : DOMAIN guiders]

LEMMA Kinds ==
  /\ Idle.kind = "idle"
  /\ \A w \in MountWorks : w.kind = "mount"
  /\ \A w \in CameraWorks : w.kind = "camera"
  /\ \A w \in OtherWorks : w.kind \in {"connect", "disconnect"}
  /\ \A w \in GuideWorks : w.kind = "guide"
<1>1. Idle.kind = "idle"
  BY DEF Idle
<1>2. \A w \in MountWorks : w.kind = "mount"
  BY DEF MountWorks
<1>3. \A w \in CameraWorks : w.kind = "camera"
  BY DEF CameraWorks
<1>4. \A w \in OtherWorks : w.kind \in {"connect", "disconnect"}
  BY DEF OtherWorks
<1>5. \A w \in GuideWorks : w.kind = "guide"
  BY DEF GuideWorks
<1> QED
  BY <1>1, <1>2, <1>3, <1>4, <1>5

LEMMA WorksAre ==
  ASSUME TypeOK, NEW p \in Requesters
  PROVE  /\ works[p].kind = "mount" => /\ works[p] \in MountWorks
                                       /\ Filled("mount", works[p].new[1]) /\ Filled("mount", works[p].old[1])
         /\ works[p].kind = "camera" => /\ works[p] \in CameraWorks
                                        /\ Filled("camera", works[p].new[1]) /\ Filled("guide", works[p].new[2])
                                        /\ Filled("camera", works[p].old[1]) /\ Filled("guide", works[p].old[2])
         /\ works[p].kind \in {"connect", "disconnect"} =>
              works[p] \in OtherWorks /\ Filled(works[p].role, works[p].of)
         /\ works[p].kind = "guide" => works[p] \in GuideWorks
         /\ works[p].kind \in {"idle", "mount", "camera", "connect", "disconnect", "guide"}
         /\ works[p].kind = "idle" => works[p] = Idle
<1> DEFINE w == works[p]
<1>1. WorkIsTyped(w)
  BY DEF TypeOK
<1>2. \/ w = Idle
      \/ w \in MountWorks /\ Filled("mount", w.new[1]) /\ Filled("mount", w.old[1])
      \/ /\ w \in CameraWorks /\ Filled("camera", w.new[1]) /\ Filled("guide", w.new[2])
         /\ Filled("camera", w.old[1]) /\ Filled("guide", w.old[2])
      \/ w \in OtherWorks /\ Filled(w.role, w.of)
      \/ w \in GuideWorks
  BY <1>1 DEF WorkIsTyped, MountWorks, CameraWorks, OtherWorks, GuideWorks
<1> HIDE DEF w
<1>3. /\ w.kind = "mount" => /\ w \in MountWorks
                             /\ Filled("mount", w.new[1]) /\ Filled("mount", w.old[1])
      /\ w.kind = "camera" => /\ w \in CameraWorks
                              /\ Filled("camera", w.new[1]) /\ Filled("guide", w.new[2])
                              /\ Filled("camera", w.old[1]) /\ Filled("guide", w.old[2])
      /\ w.kind \in {"connect", "disconnect"} => w \in OtherWorks /\ Filled(w.role, w.of)
      /\ w.kind = "guide" => w \in GuideWorks
      /\ w.kind \in {"idle", "mount", "camera", "connect", "disconnect", "guide"}
      /\ w.kind = "idle" => w = Idle
  BY <1>2, Kinds
<1> QED
  BY <1>3 DEF w

\* What goes on is what it was, at another place.
LEMMA MovedOn ==
  ASSUME NEW w, NEW pc, NEW v, v = [w EXCEPT !.pc = pc],
         NEW devs, NEW drawn, NEW built, FitsIn(w, devs, drawn, built),
         \/ w.kind = "mount" /\ pc \in {"connect", "release", "stop", "build"}
         \/ w.kind = "camera" /\ pc \in {"connect", "connect guide", "undo", "view", "stop", "release"}
  PROVE  /\ v.kind = w.kind /\ v.new = w.new /\ v.old = w.old /\ v.was = w.was /\ v.sims = w.sims /\ v.to = w.to
         /\ v.pc = pc /\ FitsIn(v, devs, drawn, built)
<1> DEFINE C == [kind : {"camera"}, pc : {"connect", "connect guide", "undo", "view", "stop", "release"},
                 new : Seq(Nat), old : Seq(Nat), was : CameraDrivers, sims : SUBSET drawn, to : CameraDrivers]
           G == [kind : {"guide"}, pc : {"wait"}, of : built]
<1>1. \/ w = Idle
      \/ w \in MountWorks /\ FilledIn(devs, "mount", w.new[1]) /\ FilledIn(devs, "mount", w.old[1])
      \/ /\ w \in C /\ FilledIn(devs, "camera", w.new[1]) /\ FilledIn(devs, "guide", w.new[2])
         /\ FilledIn(devs, "camera", w.old[1]) /\ FilledIn(devs, "guide", w.old[2])
      \/ w \in OtherWorks \/ w \in G
  BY DEF FitsIn, MountWorks, OtherWorks
<1>2. (\A x \in C : x.kind = "camera") /\ (\A x \in G : x.kind = "guide")
  OBVIOUS
<1>3. CASE w.kind = "mount"
  <2>1. w \in MountWorks /\ FilledIn(devs, "mount", w.new[1]) /\ FilledIn(devs, "mount", w.old[1])
    <3> HIDE DEF C, G
    <3> QED
      BY <1>1, <1>2, <1>3, Kinds
  <2>2. pc \in {"connect", "release", "stop", "build"}
    BY <1>3
  <2>3. /\ v.kind = w.kind /\ v.new = w.new /\ v.old = w.old /\ v.was = w.was /\ v.sims = w.sims /\ v.to = w.to
        /\ v.pc = pc /\ v \in MountWorks
    BY <2>1, <2>2 DEF MountWorks
  <2> QED
    BY <2>1, <2>3 DEF FitsIn, MountWorks
<1>4. CASE w.kind = "camera"
  <2>1. w \in C /\ FilledIn(devs, "camera", w.new[1]) /\ FilledIn(devs, "guide", w.new[2])
        /\ FilledIn(devs, "camera", w.old[1]) /\ FilledIn(devs, "guide", w.old[2])
    <3> HIDE DEF C, G
    <3> QED
      BY <1>1, <1>2, <1>4, Kinds
  <2>2. pc \in {"connect", "connect guide", "undo", "view", "stop", "release"}
    BY <1>4
  <2>3. /\ v.kind = w.kind /\ v.new = w.new /\ v.old = w.old /\ v.was = w.was /\ v.sims = w.sims /\ v.to = w.to
        /\ v.pc = pc /\ v \in C
    BY <2>1, <2>2
  <2> QED
    BY <2>1, <2>3 DEF FitsIn
<1> QED
  BY <1>3, <1>4

\* A request's work changes, the others' does not.
LEMMA Advanced ==
  ASSUME TypeOK, NEW p \in Requesters, NEW w, Advances(p, w)
  PROVE  /\ DOMAIN works' = Requesters /\ works'[p] = w
         /\ \A q \in Requesters : q # p => works'[q] = works[q]
BY DEF TypeOK, Advances

-----------------------------------------------------------------------------
(* Whatever overlaps                                                       *)

LEMMA TheyWereMade ==
  ASSUME TypeOK, NEW p \in Requesters
  PROVE  Fresh(works[p]) \subseteq Numbers /\ Known(works[p]) \subseteq Numbers
BY WorksAre DEF Fresh, Known, Filled

LEMMA ApartKept ==
  ASSUME TypeOK, FreshIsApart, NEW p \in Requesters, NEW w, Advances(p, w),
         \A d \in Fresh(w) : d \in Fresh(works[p]) \/ d \notin Numbers,
         \A d \in Known(w) : d \in Known(works[p]) \/ \E role \in Roles : d = registry[role],
         \A role \in Roles : \/ registry'[role] = registry[role]
                             \/ registry'[role] \in Fresh(works[p]) \ Fresh(w)
  PROVE  FreshIsApart'
<1>1. works'[p] = w /\ \A q \in Requesters : q # p => works'[q] = works[q]
  BY Advanced
<1>2. \A q \in Requesters : Fresh(works[q]) \subseteq Numbers /\ Known(works[q]) \subseteq Numbers
  BY TheyWereMade
<1>3. \A role \in Roles : registry[role] \in Numbers
  BY DEF TypeOK, Filled
<1>4. ASSUME NEW q \in Requesters, NEW role \in Roles
      PROVE  registry'[role] \notin Fresh(works'[q])
  BY <1>1, <1>2, <1>3 DEF FreshIsApart
<1>5. ASSUME NEW q \in Requesters, NEW r \in Requesters, NEW d, d \in Fresh(works'[q]), d \in Known(works'[r])
      PROVE  FALSE
  BY <1>1, <1>2, <1>3, <1>5 DEF FreshIsApart
<1>6. ASSUME NEW q \in Requesters, NEW r \in Requesters, q # r, NEW d,
             d \in Fresh(works'[q]), d \in Fresh(works'[r])
      PROVE  FALSE
  BY <1>1, <1>2, <1>6 DEF FreshIsApart
<1> QED
  BY <1>4, <1>5, <1>6 DEF FreshIsApart

\* A request's step lets go of nothing but what it has to do with, and leaves every
\* role a device, its old one or another.
Spared(p) ==
  \A d \in Numbers : devices[d].open => devices'[d].open \/ d \in Known(works[p]) \cup Fresh(works[p])
StillServed(p, w, role) ==
  \/ /\ role \notin lost
     /\ \A d \in Numbers : devices[d].role = role /\ devices[d].open /\ d \notin Fresh(works[p])
                             => devices'[d].open
  \/ \E d \in 1..Len(devices') :
        /\ FilledIn(devices', role, d) /\ devices'[d].open /\ d \notin Fresh(w)
        /\ d \in Known(works[p]) \/ \E r \in Roles : registry'[r] = d

LEMMA RigFrom ==
  ASSUME RigInv, DevicesStay, NEW p \in Requesters, NEW w, Advances(p, w),
         \A d \in Fresh(w) : d \in Fresh(works[p]) \/ d \notin Numbers,
         \A d \in Known(w) : d \in Known(works[p]) \/ \E role \in Roles : d = registry[role],
         \A role \in Roles : \/ registry'[role] = registry[role]
                             \/ registry'[role] \in Fresh(works[p]) \ Fresh(w),
         Answered(w, devices'), Spared(p), \A role \in Roles \ lost' : StillServed(p, w, role),
         process' = process, process = "runs" \/ works[p] # Idle
  PROVE  FreshIsApart' /\ SwitchesAnswered' /\ RolesAreServed' /\ ShutIsQuiet'
<1>1. works'[p] = w /\ \A q \in Requesters : q # p => works'[q] = works[q]
  BY Advanced DEF RigInv
<1>2. \A q \in Requesters : Fresh(works[q]) \subseteq Numbers /\ Known(works[q]) \subseteq Numbers
  BY TheyWereMade DEF RigInv
<1>3. FreshIsApart'
  BY ApartKept DEF RigInv
<1>4. SwitchesAnswered'
  <2>1. SUFFICES ASSUME NEW q \in Requesters PROVE Answered(works'[q], devices')
    BY DEF SwitchesAnswered
  <2>2. CASE q # p
    <3>1. Answered(works[q], devices)
      BY DEF RigInv, SwitchesAnswered
    <3>2. \A d \in Fresh(works[q]) : devices[d].open => devices'[d].open
      BY <1>2, <2>2 DEF Spared, RigInv, FreshIsApart
    <3> QED
      BY <1>1, <2>2, <3>1, <3>2 DEF Answered, Fresh
  <2> QED
    BY <1>1, <2>2
<1>5. Numbers \subseteq 1..Len(devices')
  BY Carried DEF RigInv
<1>6. process' = "runs" /\ ShutIsQuiet'
  BY DEF RigInv, ShutIsQuiet, Quiet, TypeOK
<1>7. RolesAreServed'
  <2>1. SUFFICES ASSUME NEW role \in Roles \ lost'
                 PROVE  \E d \in 1..Len(devices') : Serves(role, d)'
    BY DEF RolesAreServed, Numbers
  <2>2. ASSUME NEW d \in 1..Len(devices'), FilledIn(devices', role, d), devices'[d].open,
               \A q \in Requesters : d \notin Fresh(works'[q])
        PROVE  Serves(role, d)'
    BY <2>2 DEF Serves, Filled, FilledIn, Numbers
  <2>3. CASE /\ role \notin lost
             /\ \A d \in Numbers : devices[d].role = role /\ devices[d].open /\ d \notin Fresh(works[p])
                                     => devices'[d].open
    <3>1. PICK d \in Numbers : Serves(role, d)
      BY <1>6, <2>3 DEF RigInv, RolesAreServed
    <3>2. d \in 1..Len(devices') /\ FilledIn(devices', role, d) /\ devices'[d].open
      BY <1>5, <2>3, <3>1 DEF Serves, Filled, FilledIn, DevicesStay
    <3>3. \A q \in Requesters : d \notin Fresh(works'[q])
      BY <1>1, <3>1 DEF Serves
    <3> QED
      BY <2>2, <3>2, <3>3
  <2>4. ASSUME NEW d \in 1..Len(devices'),
               FilledIn(devices', role, d), devices'[d].open, d \notin Fresh(w),
               d \in Known(works[p]) \/ \E r \in Roles : registry'[r] = d
        PROVE  \E e \in 1..Len(devices') : Serves(role, e)'
    <3>1. \A q \in Requesters : d \notin Fresh(works'[q])
      BY <1>1, <1>3, <2>4 DEF RigInv, FreshIsApart
    <3> QED
      BY <2>2, <2>4, <3>1
  <2> QED
    BY <2>3, <2>4 DEF StillServed
<1> QED
  BY <1>3, <1>4, <1>6, <1>7

LEMMA RoleNames == "mount" \in Roles /\ "camera" \in Roles /\ "guide" \in Roles
BY DEF Roles

\* The counts, within their bounds.
LEMMA ComesCounts ==
  ASSUME TypeOK, NEW s, Comes(s), overlapped' \in BOOLEAN, UNCHANGED restarts
  PROVE  asked' \in 0..MaxRequests /\ restarts' \in 0..MaxRestarts
<1>1. asked \in 0..MaxRequests /\ restarts \in 0..MaxRestarts
  BY DEF TypeOK
<1>2. MaxRequests \in Nat /\ asked < MaxRequests /\ asked' = asked + 1
  BY BoundsAssumption DEF Comes
<1> QED
  BY <1>1, <1>2

\* What the switch of the mount begins with.
LEMMA SwitchMountDoes ==
  ASSUME TypeOK, NEW p \in Requesters, NEW d \in MountDrivers, SwitchMount(p, d)
  PROVE  /\ DevicesStay /\ Len(devices') = Len(devices) + 1 /\ \A i \in Numbers : devices'[i] = devices[i]
         /\ devices'[Len(devices) + 1] = Device("mount", d, RateOf(d, rate))
         /\ Device("mount", d, RateOf(d, rate)) \in DeviceType
         /\ \E w : /\ Becomes(p, w) /\ w.kind = "mount" /\ w.pc = "connect"
                   /\ w.new[1] = Len(devices) + 1 /\ w.old[1] = registry["mount"]
                   /\ w.was = driver.mount /\ w.to = d
<1> DEFINE n == Len(devices) + 1
           x == Device("mount", d, RateOf(d, rate))
           w == [kind |-> "mount", pc |-> "connect", new |-> <<n>>,
                 old |-> <<registry["mount"]>>, was |-> driver.mount, sims |-> {}, to |-> d]
<1>1. RateOf(d, rate) \in Rates \cup {None}
  BY DEF RateOf, TypeOK
<1>2. x \in DeviceType /\ x.role = "mount"
  BY <1>1 DEF Device, DeviceType, Roles
<1>3. /\ DevicesStay /\ Len(devices') = n /\ devices'[n] = x
      /\ \A i \in Numbers : devices'[i] = devices[i]
  <2>1. devices' = Append(devices, x)
    BY DEF SwitchMount
  <2> QED
    BY <1>2, <2>1, OneMade
<1>4. Len(devices) \in Nat /\ driver.mount \in MountDrivers
  BY Lengths DEF TypeOK
<1>5. FilledIn(devices', "mount", n) /\ FilledIn(devices', "mount", registry["mount"]) /\ registry["mount"] \in Nat
  BY <1>2, <1>3, <1>4, Carried, RoleNames DEF FilledIn, Numbers
<1> HIDE DEF n, x
<1>6. w \in MountWorks /\ w.new[1] = n /\ w.old[1] = registry["mount"]
  BY <1>4, <1>5 DEF MountWorks, n
<1>7. FitsIn(w, devices', DOMAIN source', DOMAIN guiders')
  BY <1>5, <1>6 DEF FitsIn, MountWorks
<1>8. Advances(p, w)
  BY DEF SwitchMount, n
<1> QED
  BY <1>2, <1>3, <1>6, <1>7, <1>8 DEF Becomes, n, x

LEMMA SwitchMountSafe ==
  ASSUME RigInv, NEW p \in Requesters, NEW d \in MountDrivers, SwitchMount(p, d)
  PROVE  RigInv'
<1>1. TypeOK
  BY DEF RigInv
<1>2. /\ DevicesStay /\ Len(devices') = Len(devices) + 1 /\ \A i \in Numbers : devices'[i] = devices[i]
  BY <1>1, SwitchMountDoes
<1>3. PICK w : /\ Becomes(p, w) /\ w.kind = "mount" /\ w.pc = "connect"
               /\ w.new[1] = Len(devices) + 1 /\ w.old[1] = registry["mount"]
  BY <1>1, SwitchMountDoes
<1>4. /\ UNCHANGED <<registry, rate, state, sensors, source, guiders, views, process, lost, restarts>>
      /\ driver' = [driver EXCEPT !.mount = d] /\ Comes(TRUE) /\ works[p] = Idle
  BY DEF SwitchMount, services
<1>5. overlapped' \in BOOLEAN /\ process = "runs"
  BY <1>4 DEF Comes
<1>6. TypeOK'
  <2>1. driver' \in [mount : MountDrivers, camera : CameraDrivers]
    BY <1>1, <1>4 DEF TypeOK
  <2> QED
    BY <1>1, <1>2, <1>3, <1>4, <1>5, <2>1, Carried, ComesCounts, TypeFrom DEF TypeOK
<1>7. Fresh(works[p]) = {} /\ Known(works[p]) = {} /\ Fresh(w) = {Len(devices) + 1}
      /\ Known(w) = {registry["mount"]} /\ Len(devices) + 1 \notin Numbers
  BY <1>1, <1>3, <1>4, Kinds, Lengths DEF Fresh, Known, Numbers
<1>8. Answered(w, devices') /\ Spared(p)
  BY <1>2, <1>3 DEF Answered, Spared
<1>9. \A role \in Roles \ lost' : StillServed(p, w, role)
  BY <1>2, <1>4 DEF StillServed
<1> QED
  BY <1>2, <1>3, <1>4, <1>5, <1>6, <1>7, <1>8, <1>9, RigFrom, RoleNames DEF RigInv, Becomes

\* A request goes on to another place, or is over.
SourcesStay == DOMAIN source \subseteq DOMAIN source' /\ DOMAIN guiders \subseteq DOMAIN guiders'

Moved(w, pc) == [w EXCEPT !.pc = pc]
MayGo(w, pc) ==
  \/ w.kind = "mount" /\ pc \in {"connect", "release", "stop", "build"}
  \/ w.kind = "camera" /\ pc \in {"connect", "connect guide", "undo", "view", "stop", "release"}

LEMMA GoesOn ==
  ASSUME TypeOK, DevicesStay, SourcesStay, NEW p \in Requesters, NEW pc,
         MayGo(works[p], pc), Advances(p, Moved(works[p], pc))
  PROVE  \E w : /\ Becomes(p, w) /\ w.pc = pc
                /\ w.kind = works[p].kind /\ w.new = works[p].new /\ w.old = works[p].old
                /\ w.was = works[p].was /\ w.sims = works[p].sims /\ w.to = works[p].to
<1> DEFINE o == works[p]
           w == Moved(o, pc)
<1>1. FitsIn(o, devices, DOMAIN source, DOMAIN guiders)
  BY FitsAll
<1>2. Len(devices) \in Nat /\ Len(devices') \in Nat /\ Len(devices) <= Len(devices')
      /\ \A i \in 1..Len(devices) : devices'[i].role = devices[i].role
  BY Grows
<1>3. FitsIn(o, devices', DOMAIN source', DOMAIN guiders')
  BY <1>1, <1>2, FitsStill DEF SourcesStay
<1> HIDE DEF o
<1>4. \/ o.kind = "mount" /\ pc \in {"connect", "release", "stop", "build"}
      \/ o.kind = "camera" /\ pc \in {"connect", "connect guide", "undo", "view", "stop", "release"}
  BY DEF MayGo, o
<1>5. /\ w.kind = o.kind /\ w.new = o.new /\ w.old = o.old /\ w.was = o.was /\ w.sims = o.sims /\ w.to = o.to
      /\ w.pc = pc /\ FitsIn(w, devices', DOMAIN source', DOMAIN guiders')
  BY <1>3, <1>4, MovedOn DEF Moved
<1>6. Advances(p, w)
  BY DEF o
<1> HIDE DEF w
<1> QED
  BY <1>5, <1>6 DEF Becomes, o

LEMMA Ends ==
  ASSUME NEW p, Advances(p, Idle)
  PROVE  Becomes(p, Idle) /\ Fresh(Idle) = {} /\ Known(Idle) = {} /\ \A devs : Answered(Idle, devs)
BY Kinds DEF Becomes, FitsIn, Fresh, Known, Answered

LEMMA MountAnswersSafe ==
  ASSUME RigInv, NEW p \in Requesters, MountAnswers(p)
  PROVE  RigInv'
<1>1. TypeOK /\ works[p].kind = "mount" /\ works[p].pc = "connect"
  BY DEF RigInv, MountAnswers, Busy
<1>2. /\ works[p] \in MountWorks /\ works[p].was \in MountDrivers
      /\ works[p].new[1] \in Numbers /\ works[p].old[1] \in Numbers
  BY <1>1, WorksAre DEF Filled, MountWorks
<1>3. /\ UNCHANGED <<registry, rate, state, sensors, source, guiders, views, process, overlapped, lost, asked, restarts>>
      /\ works[p] # Idle
  BY <1>1, Kinds DEF MountAnswers, services, counts
<1>4. Fresh(works[p]) = {works[p].new[1]} /\ Known(works[p]) = {works[p].old[1]}
  BY <1>1 DEF Fresh, Known
<1>5. CASE devices' = Opened(works[p].new[1], TRUE) /\ Advances(p, [works[p] EXCEPT !.pc = "release"])
           /\ UNCHANGED driver
  <2>1. /\ DevicesStay
        /\ \A d \in Numbers : devices'[d].open = IF d = works[p].new[1] THEN TRUE ELSE devices[d].open
    <3>1. works[p].new[1] \in Numbers /\ devices' = Opened(works[p].new[1], TRUE)
      BY <1>2, <1>5
    <3> QED
      BY <1>1, <3>1, OpenedOne
  <2>2. SourcesStay /\ MayGo(works[p], "release") /\ Advances(p, Moved(works[p], "release"))
    BY <1>1, <1>3, <1>5 DEF SourcesStay, Moved, MayGo
  <2>3. PICK w : Becomes(p, w) /\ w.pc = "release" /\ w.kind = works[p].kind /\ w.new = works[p].new
                 /\ w.old = works[p].old
    BY <1>1, <2>1, <2>2, GoesOn
  <2>4. TypeOK'
    BY <1>1, <1>3, <1>5, <2>1, <2>3, Carried, TypeFrom DEF TypeOK
  <2>5. Fresh(w) = Fresh(works[p]) /\ Known(w) = Known(works[p])
    BY <1>1, <2>3 DEF Fresh, Known
  <2>6. Answered(w, devices') /\ Spared(p) /\ \A role \in Roles \ lost' : StillServed(p, w, role)
    BY <1>1, <1>2, <1>3, <2>1, <2>3 DEF Answered, Spared, StillServed
  <2> QED
    BY <1>3, <2>1, <2>3, <2>4, <2>5, <2>6, RigFrom DEF RigInv, Becomes
<1>6. CASE driver' = [driver EXCEPT !.mount = works[p].was] /\ Advances(p, Idle) /\ UNCHANGED devices
  <2>1. DevicesStay
    BY <1>1, <1>6, Lengths DEF DevicesStay, TypeOK
  <2>2. driver' \in [mount : MountDrivers, camera : CameraDrivers]
    BY <1>1, <1>2, <1>6 DEF TypeOK
  <2>3. Becomes(p, Idle) /\ Fresh(Idle) = {} /\ Known(Idle) = {} /\ Answered(Idle, devices')
    BY <1>6, Ends
  <2>4. TypeOK'
    BY <1>1, <1>3, <2>1, <2>2, <2>3, Carried, TypeFrom DEF TypeOK
  <2>5. Spared(p) /\ \A role \in Roles \ lost' : StillServed(p, Idle, role)
    BY <1>3, <1>6 DEF Spared, StillServed
  <2> QED
    BY <1>3, <2>1, <2>3, <2>4, <2>5, RigFrom DEF RigInv, Becomes
<1> QED
  BY <1>5, <1>6 DEF MountAnswers

LEMMA MountReleasedSafe ==
  ASSUME RigInv, NEW p \in Requesters, MountReleased(p)
  PROVE  RigInv'
<1>1. TypeOK /\ works[p].kind = "mount" /\ works[p].pc = "release"
  BY DEF RigInv, MountReleased, Busy
<1>2. /\ Filled("mount", works[p].new[1]) /\ works[p].new[1] \in Numbers /\ works[p].old[1] \in Numbers
      /\ Filled("mount", works[p].old[1])
  BY <1>1, WorksAre DEF Filled
<1>3. /\ UNCHANGED <<driver, rate, state, sensors, views, process, overlapped, asked, restarts>>
      /\ works[p] # Idle /\ registry' = [registry EXCEPT !["mount"] = works[p].new[1]]
      /\ source' = [s \in DOMAIN source |-> IF s \in sensors THEN works[p].new[1] ELSE source[s]]
      /\ guiders' = [guiders EXCEPT ![Len(guiders)].view = FALSE]
      /\ devices' = Opened(works[p].old[1], FALSE)
      /\ Advances(p, Moved(works[p], "stop"))
      /\ lost' = lost \ {"mount"}
  BY <1>1, Kinds DEF Moved, MountReleased, settings, counts
<1>4. Fresh(works[p]) = {works[p].new[1]} /\ Known(works[p]) = {works[p].old[1]}
  BY <1>1 DEF Fresh, Known
<1>5. /\ DevicesStay /\ Len(devices') = Len(devices)
      /\ \A d \in Numbers : devices'[d].open = IF d = works[p].old[1] THEN FALSE ELSE devices[d].open
  BY <1>1, <1>2, <1>3, OpenedOne
<1>6. /\ guiders' \in Seq(GuiderType) /\ DOMAIN guiders' = DOMAIN guiders
  BY <1>1, <1>3, IdleViewSet, Lengths
<1>7. source' \in [DOMAIN source' -> Numbers] /\ DOMAIN source' = DOMAIN source
  BY <1>1, <1>2, <1>3 DEF TypeOK
<1>8. registry \in [Roles -> Nat] /\ registry' \in [Roles -> Nat] /\ registry'["mount"] = works[p].new[1]
      /\ \A role \in Roles : role # "mount" => registry'[role] = registry[role]
  <2>1. registry \in [Roles -> Nat] /\ works[p].new[1] \in Nat
    BY <1>1, <1>2, Lengths DEF TypeOK, Numbers
  <2> QED
    BY <1>3, <2>1, RoleNames
<1>9. SourcesStay /\ MayGo(works[p], "stop") /\ Advances(p, Moved(works[p], "stop"))
  BY <1>1, <1>3, <1>6, <1>7 DEF SourcesStay, MayGo
<1>10. PICK w : Becomes(p, w) /\ w.pc = "stop" /\ w.kind = works[p].kind /\ w.new = works[p].new
               /\ w.old = works[p].old
  BY <1>1, <1>5, <1>9, GoesOn
<1>11. Numbers = 1..Len(devices')
  BY <1>5 DEF Numbers
<1>12. FilledIn(devices', "mount", works[p].new[1])
  BY <1>2, <1>5, <1>11 DEF Filled, FilledIn, DevicesStay
<1>13. TypeOK'
  <2>1. \A role \in Roles : FilledIn(devices', role, registry'[role])
    BY <1>1, <1>5, <1>8, <1>12, Carried
  <2>2. guiders' \in Seq([mount : 1..Len(devices'), camera : 1..Len(devices'), view : BOOLEAN, loop : BOOLEAN])
    BY <1>6, <1>11 DEF GuiderType
  <2> QED
    BY <1>1, <1>3, <1>5, <1>6, <1>7, <1>8, <1>10, <1>11, <2>1, <2>2, Carried, TypeFrom DEF TypeOK
<1>14. Fresh(w) = {} /\ Known(w) = Known(works[p])
  BY <1>1, <1>10 DEF Fresh, Known
<1>15. Answered(w, devices') /\ Spared(p)
  BY <1>1, <1>4, <1>5, <1>10 DEF Answered, Spared
<1>16. devices'[works[p].new[1]].open
  <2>1. devices[works[p].new[1]].open /\ works[p].new[1] # works[p].old[1]
    BY <1>1, <1>4 DEF RigInv, SwitchesAnswered, Answered, FreshIsApart
  <2> QED
    BY <1>2, <1>5, <2>1
<1>17. ASSUME NEW role \in Roles \ lost'
       PROVE  StillServed(p, w, role)
  <2>1. CASE role = "mount"
    <3>1. works[p].new[1] \in 1..Len(devices') /\ registry'["mount"] = works[p].new[1]
      BY <1>2, <1>8, <1>11
    <3> QED
      BY <1>12, <1>14, <1>16, <2>1, <3>1, RoleNames DEF StillServed
  <2>2. CASE role # "mount"
    BY <1>2, <1>3, <1>5, <2>2 DEF StillServed, Filled
  <2> QED
    BY <2>1, <2>2
<1> QED
  BY <1>3, <1>4, <1>5, <1>8, <1>10, <1>13, <1>14, <1>15, <1>17, RigFrom DEF RigInv, Becomes

\* Steps that leave devices, roles and the process alone.
LEMMA SameDevices ==
  ASSUME TypeOK, devices' = devices
  PROVE  DevicesStay /\ Numbers = 1..Len(devices')
BY Lengths DEF DevicesStay, TypeOK, Numbers

LEMMA RigOfTheSame ==
  ASSUME RigInv, TypeOK', devices' = devices, registry' = registry, lost' = lost, process' = process,
         NEW p \in Requesters, NEW w, Advances(p, w), process = "runs" \/ works[p] # Idle,
         Fresh(w) \subseteq Fresh(works[p]),
         \A d \in Known(w) : d \in Known(works[p]) \/ \E role \in Roles : d = registry[role],
         Answered(w, devices)
  PROVE  RigInv'
<1>1. DevicesStay
  BY SameDevices DEF RigInv
<1>2. Answered(w, devices') /\ Spared(p) /\ \A role \in Roles \ lost' : StillServed(p, w, role)
  BY DEF Spared, StillServed
<1>3. \A role \in Roles : registry'[role] = registry[role]
  OBVIOUS
<1>4. FreshIsApart' /\ SwitchesAnswered' /\ RolesAreServed' /\ ShutIsQuiet'
  BY <1>1, <1>2, <1>3, RigFrom
<1> QED
  BY <1>4 DEF RigInv

\* What most steps leave of the types.
LEMMA TypeOfTheSame ==
  ASSUME TypeOK, DevicesStay, DOMAIN guiders \subseteq DOMAIN guiders',
         works' = works \/ \E p \in Requesters : \E w : Becomes(p, w),
         UNCHANGED <<registry, driver, rate, source, sensors, restarts>>,
         state' \in [mount : MountDrivers, camera : CameraDrivers, rate : Rates],
         guiders' \in Seq([mount : 1..Len(devices'), camera : 1..Len(devices'), view : BOOLEAN, loop : BOOLEAN]),
         views' \in Seq([camera : 1..Len(devices'), on : BOOLEAN]), views' # <<>>,
         lost' \in SUBSET Roles, process' \in {"runs", "shut"}, overlapped' \in BOOLEAN,
         asked' \in 0..MaxRequests
  PROVE  TypeOK'
<1>1. /\ registry' \in [Roles -> Nat] /\ driver' \in [mount : MountDrivers, camera : CameraDrivers]
      /\ rate' \in Rates /\ sensors' \subseteq DOMAIN source' /\ restarts' \in 0..MaxRestarts
      /\ DOMAIN source \subseteq DOMAIN source'
  BY DEF TypeOK
<1>2. /\ \A role \in Roles : FilledIn(devices', role, registry'[role])
      /\ source' \in [DOMAIN source' -> 1..Len(devices')] /\ DOMAIN source' \subseteq 1..Len(devices')
  BY Carried
<1> QED
  BY <1>1, <1>2, TypeFrom

LEMMA GuiderMade ==
  ASSUME TypeOK, DevicesStay, NEW yes \in BOOLEAN, NEW reg \in [Roles -> 1..Len(devices')],
         guiders' = Append(guiders, NewGuider(reg, yes))
  PROVE  /\ guiders' \in Seq([mount : 1..Len(devices'), camera : 1..Len(devices'), view : BOOLEAN, loop : BOOLEAN])
         /\ DOMAIN guiders \subseteq DOMAIN guiders' /\ Len(guiders') = Len(guiders) + 1
         /\ guiders'[Len(guiders')] = NewGuider(reg, yes)
         /\ \A g \in DOMAIN guiders : guiders'[g] = guiders[g]
<1> DEFINE S == [mount : 1..Len(devices'), camera : 1..Len(devices'), view : BOOLEAN, loop : BOOLEAN]
<1>1. NewGuider(reg, yes) \in S
  BY RoleNames DEF NewGuider
<1>2. guiders \in Seq(S)
  BY Carried
<1> HIDE DEF S
<1>3. /\ guiders' \in Seq(S) /\ Len(guiders') = Len(guiders) + 1 /\ Len(guiders) \in Nat
      /\ guiders'[Len(guiders')] = NewGuider(reg, yes)
      /\ \A g \in 1..Len(guiders) : guiders'[g] = guiders[g]
      /\ DOMAIN guiders = 1..Len(guiders) /\ DOMAIN guiders' = 1..Len(guiders')
  BY <1>1, <1>2
<1> QED
  BY <1>3 DEF S

LEMMA GuiderStopsSafe ==
  ASSUME RigInv, NEW p \in Requesters, GuiderStops(p)
  PROVE  RigInv'
<1> DEFINE pc == IF works[p].kind = "mount" THEN "build" ELSE "release"
<1>1. TypeOK /\ works[p].kind \in {"mount", "camera"} /\ works[p].pc = "stop"
  BY DEF RigInv, GuiderStops, Busy, Switches
<1>2. /\ UNCHANGED <<devices, registry, driver, rate, state, sensors, source, views, process, overlapped, lost,
                     asked, restarts>>
      /\ works[p] # Idle /\ Advances(p, Moved(works[p], pc))
      /\ guiders' = [guiders EXCEPT ![Len(guiders)].loop = FALSE]
  BY <1>1, Kinds DEF GuiderStops, settings, counts, Moved
<1>3. DevicesStay /\ Numbers = 1..Len(devices')
  BY <1>1, <1>2, SameDevices
<1>4. /\ guiders' \in Seq([mount : 1..Len(devices'), camera : 1..Len(devices'), view : BOOLEAN, loop : BOOLEAN])
      /\ DOMAIN guiders' = DOMAIN guiders
  BY <1>1, <1>2, <1>3, LoopSet, Lengths DEF GuiderType
<1>5. SourcesStay /\ MayGo(works[p], pc)
  BY <1>1, <1>2, <1>4 DEF SourcesStay, MayGo
<1>6. PICK w : Becomes(p, w) /\ w.pc = pc /\ w.kind = works[p].kind /\ w.new = works[p].new
               /\ w.old = works[p].old
  BY <1>1, <1>2, <1>3, <1>5, GoesOn
<1>7. TypeOK'
  BY <1>1, <1>2, <1>3, <1>4, <1>6, Carried, TypeOfTheSame DEF TypeOK
<1>8. Fresh(w) = Fresh(works[p]) /\ Known(w) = Known(works[p])
  BY <1>1, <1>6 DEF Fresh, Known
<1>9. Answered(w, devices)
  BY <1>1, <1>6 DEF Answered, RigInv, SwitchesAnswered
<1> QED
  BY <1>2, <1>6, <1>7, <1>8, <1>9, RigOfTheSame DEF Becomes

LEMMA MountBuildsSafe ==
  ASSUME RigInv, NEW p \in Requesters, MountBuilds(p)
  PROVE  RigInv'
<1>1. TypeOK /\ works[p].kind = "mount" /\ works[p].pc = "build"
  BY DEF RigInv, MountBuilds, Busy
<1>2. /\ UNCHANGED <<devices, registry, driver, rate, sensors, source, views, process, overlapped, lost,
                     asked, restarts>>
      /\ works[p] # Idle /\ Advances(p, Idle) /\ guiders' = Append(guiders, NewGuider(registry, FALSE))
      /\ state' = [state EXCEPT !.mount = driver.mount, !.rate = rate]
  BY <1>1, Kinds DEF MountBuilds, counts
<1>3. DevicesStay /\ Numbers = 1..Len(devices')
  BY <1>1, <1>2, SameDevices
<1>4. registry \in [Roles -> 1..Len(devices')]
  BY <1>1, <1>3, Carried DEF TypeOK
<1>5. /\ guiders' \in Seq([mount : 1..Len(devices'), camera : 1..Len(devices'), view : BOOLEAN, loop : BOOLEAN])
      /\ DOMAIN guiders \subseteq DOMAIN guiders'
  BY <1>1, <1>2, <1>3, <1>4, GuiderMade
<1>6. state' \in [mount : MountDrivers, camera : CameraDrivers, rate : Rates]
  BY <1>1, <1>2 DEF TypeOK
<1>7. Becomes(p, Idle) /\ Fresh(Idle) = {} /\ Known(Idle) = {} /\ Answered(Idle, devices)
  BY <1>2, Ends
<1>8. TypeOK'
  BY <1>1, <1>2, <1>3, <1>5, <1>6, <1>7, Carried, TypeOfTheSame DEF TypeOK
<1> QED
  BY <1>2, <1>7, <1>8, RigOfTheSame DEF Becomes

LEMMA ViewStoppedSafe ==
  ASSUME RigInv, NEW p \in Requesters, ViewStopped(p)
  PROVE  RigInv'
<1>1. TypeOK /\ works[p].kind = "camera" /\ works[p].pc = "view"
  BY DEF RigInv, ViewStopped, Busy
<1>2. /\ UNCHANGED <<devices, registry, driver, rate, state, sensors, source, views, process, overlapped, lost,
                     asked, restarts>>
      /\ works[p] # Idle /\ Advances(p, Moved(works[p], "stop"))
      /\ guiders' = [guiders EXCEPT ![Len(guiders)].view = FALSE]
  BY <1>1, Kinds DEF ViewStopped, settings, counts, Moved
<1>3. DevicesStay /\ Numbers = 1..Len(devices')
  BY <1>1, <1>2, SameDevices
<1>4. /\ guiders' \in Seq([mount : 1..Len(devices'), camera : 1..Len(devices'), view : BOOLEAN, loop : BOOLEAN])
      /\ DOMAIN guiders' = DOMAIN guiders
  BY <1>1, <1>2, <1>3, IdleViewSet, Lengths DEF GuiderType
<1>5. SourcesStay /\ MayGo(works[p], "stop")
  BY <1>1, <1>2, <1>4 DEF SourcesStay, MayGo
<1>6. PICK w : Becomes(p, w) /\ w.pc = "stop" /\ w.kind = works[p].kind /\ w.new = works[p].new
               /\ w.old = works[p].old
  BY <1>1, <1>2, <1>3, <1>5, GoesOn
<1>7. TypeOK'
  BY <1>1, <1>2, <1>3, <1>4, <1>6, Carried, TypeOfTheSame DEF TypeOK
<1>8. Fresh(w) = Fresh(works[p]) /\ Known(w) = Known(works[p])
  BY <1>1, <1>6 DEF Fresh, Known
<1>9. Answered(w, devices)
  BY <1>1, <1>6 DEF Answered, RigInv, SwitchesAnswered
<1> QED
  BY <1>2, <1>6, <1>7, <1>8, <1>9, RigOfTheSame DEF Becomes

\* What a switch of the cameras has to do with.
LEMMA CameraParts ==
  ASSUME TypeOK, NEW p \in Requesters, works[p].kind = "camera"
  PROVE  /\ works[p] # Idle /\ works[p] \in CameraWorks
         /\ works[p].new[1] \in Numbers /\ works[p].new[2] \in Numbers /\ works[p].new[1] # works[p].new[2]
         /\ works[p].old[1] \in Numbers /\ works[p].old[2] \in Numbers /\ works[p].old[1] # works[p].old[2]
         /\ devices[works[p].new[1]].role = "camera" /\ devices[works[p].new[2]].role = "guide"
         /\ devices[works[p].old[1]].role = "camera" /\ devices[works[p].old[2]].role = "guide"
         /\ Fresh(works[p]) = {works[p].new[1], works[p].new[2]}
         /\ Known(works[p]) = {works[p].old[1], works[p].old[2]}
BY Kinds, WorksAre DEF Filled, Fresh, Known

LEMMA CamerasAnswerSafe ==
  ASSUME RigInv, NEW p \in Requesters, CamerasAnswer(p)
  PROVE  RigInv'
<1>1. TypeOK /\ works[p].kind = "camera" /\ works[p] # Idle
  BY CameraParts DEF RigInv, CamerasAnswer
<1>2. UNCHANGED <<registry, driver, rate, state, source, sensors, guiders, process, overlapped, lost, asked, restarts>>
  BY DEF CamerasAnswer, counts
<1>3. SourcesStay
  BY <1>2 DEF SourcesStay
<1>4. ASSUME NEW a \in Numbers, devices' = Opened(a, TRUE), NEW pc, MayGo(works[p], pc),
             views' \in Seq(ViewType), views' # <<>>,
             Advances(p, Moved(works[p], pc)),
             ASSUME NEW w, w.pc = pc, w.kind = works[p].kind, w.new = works[p].new,
                    \A d \in Numbers : devices'[d].open = IF d = a THEN TRUE ELSE devices[d].open
             PROVE  Answered(w, devices')
      PROVE  RigInv'
  <2>1. /\ DevicesStay /\ Len(devices') = Len(devices)
        /\ \A d \in Numbers : devices'[d].open = IF d = a THEN TRUE ELSE devices[d].open
    BY <1>1, <1>4, OpenedOne
  <2>2. PICK w : Becomes(p, w) /\ w.pc = pc /\ w.kind = works[p].kind /\ w.new = works[p].new
                 /\ w.old = works[p].old
    BY <1>1, <1>3, <1>4, <2>1, GoesOn
  <2>3. views' \in Seq([camera : 1..Len(devices'), on : BOOLEAN])
    BY <1>4, <2>1 DEF ViewType, Numbers
  <2>4. TypeOK'
    BY <1>1, <1>2, <1>4, <2>1, <2>2, <2>3, Carried, TypeOfTheSame DEF TypeOK
  <2>5. Fresh(w) = Fresh(works[p]) /\ Known(w) = Known(works[p])
    BY <1>1, <2>2 DEF Fresh, Known
  <2>6. Answered(w, devices')
    BY <1>4, <2>1, <2>2
  <2>7. Spared(p) /\ \A role \in Roles \ lost' : StillServed(p, w, role)
    BY <1>2, <2>1 DEF Spared, StillServed
  <2> QED
    BY <1>1, <1>2, <2>1, <2>2, <2>4, <2>5, <2>6, <2>7, RigFrom DEF RigInv, Becomes
<1>5. /\ works[p].new[1] \in Numbers /\ works[p].new[2] \in Numbers
      /\ views \in Seq(ViewType) /\ views # <<>> /\ Len(views) \in DOMAIN views
  BY <1>1, CameraParts, Lengths DEF TypeOK, ViewType
<1>6. CASE works[p].pc = "connect" /\ devices' = Opened(works[p].new[1], TRUE)
           /\ Advances(p, [works[p] EXCEPT !.pc = "connect guide"]) /\ UNCHANGED views
  <2>1. Advances(p, Moved(works[p], "connect guide")) /\ MayGo(works[p], "connect guide")
    BY <1>1, <1>6 DEF Moved, MayGo
  <2>2. ASSUME NEW w, w.pc = "connect guide", w.kind = works[p].kind, w.new = works[p].new,
               \A d \in Numbers : devices'[d].open = IF d = works[p].new[1] THEN TRUE ELSE devices[d].open
        PROVE  Answered(w, devices')
    BY <1>1, <1>5, <2>2 DEF Answered
  <2> QED
    BY <1>4, <1>5, <1>6, <2>1, <2>2
<1>7. CASE works[p].pc = "connect guide" /\ devices' = Opened(works[p].new[2], TRUE)
           /\ views' = [views EXCEPT ![Len(views)].on = FALSE]
           /\ Advances(p, [works[p] EXCEPT !.pc = "view"])
  <2>1. Advances(p, Moved(works[p], "view")) /\ MayGo(works[p], "view")
    BY <1>1, <1>7 DEF Moved, MayGo
  <2>2. ASSUME NEW w, w.pc = "view", w.kind = works[p].kind, w.new = works[p].new,
               \A d \in Numbers : devices'[d].open = IF d = works[p].new[2] THEN TRUE ELSE devices[d].open
        PROVE  Answered(w, devices')
    <3>1. devices[works[p].new[1]].open
      BY <1>1, <1>7 DEF RigInv, SwitchesAnswered, Answered
    <3> QED
      BY <1>1, <1>5, <2>2, <3>1 DEF Answered
  <2>3. views' \in Seq(ViewType) /\ views' # <<>>
    BY <1>1, <1>5, <1>7, ViewSet
  <2> QED
    BY <1>4, <1>5, <1>7, <2>1, <2>2, <2>3
<1>8. CASE works[p].pc \in {"connect", "connect guide"} /\ Advances(p, [works[p] EXCEPT !.pc = "undo"])
           /\ UNCHANGED <<devices, views>>
  <2>1. Advances(p, Moved(works[p], "undo")) /\ MayGo(works[p], "undo")
    BY <1>1, <1>8 DEF Moved, MayGo
  <2>2. DevicesStay
    BY <1>1, <1>8, SameDevices
  <2>3. PICK w : Becomes(p, w) /\ w.pc = "undo" /\ w.kind = works[p].kind /\ w.new = works[p].new
                 /\ w.old = works[p].old
    BY <1>1, <1>3, <2>1, <2>2, GoesOn
  <2>4. TypeOK'
    BY <1>1, <1>2, <1>8, <2>2, <2>3, Carried, TypeOfTheSame DEF TypeOK
  <2>5. Fresh(w) = Fresh(works[p]) /\ Known(w) = Known(works[p]) /\ Answered(w, devices)
    BY <1>1, <2>3 DEF Fresh, Known, Answered
  <2> QED
    BY <1>1, <1>2, <1>8, <2>3, <2>4, <2>5, RigOfTheSame DEF Becomes
<1> QED
  BY <1>6, <1>7, <1>8 DEF CamerasAnswer

LEMMA CamerasUndoneSafe ==
  ASSUME RigInv, NEW p \in Requesters, CamerasUndone(p)
  PROVE  RigInv'
<1>1. TypeOK /\ works[p].kind = "camera"
  BY DEF RigInv, CamerasUndone, Busy
<1> DEFINE a == works[p].new[1]
           b == works[p].new[2]
<1>2. /\ UNCHANGED <<registry, rate, state, source, guiders, views, process, overlapped, lost, asked, restarts>>
      /\ driver' = [driver EXCEPT !.camera = works[p].was] /\ sensors' = works[p].sims
      /\ Advances(p, Idle) /\ Closes(a, b)
  BY DEF CamerasUndone, services, counts, Closes
<1>3. works[p] # Idle /\ works[p] \in CameraWorks /\ a \in Numbers /\ b \in Numbers /\ a # b /\ Fresh(works[p]) = {a, b}
  BY <1>1, CameraParts
<1> HIDE DEF a, b
<1>4. /\ DevicesStay
      /\ \A d \in Numbers : devices'[d].open = IF d \in {a, b} THEN FALSE ELSE devices[d].open
  BY <1>1, <1>2, <1>3, ClosedTwo
<1>5. driver' \in [mount : MountDrivers, camera : CameraDrivers] /\ sensors' \subseteq DOMAIN source
  <2>1. works[p].was \in CameraDrivers /\ works[p].sims \subseteq DOMAIN source
    BY <1>3 DEF CameraWorks
  <2> QED
    BY <1>1, <1>2, <2>1 DEF TypeOK
<1>6. Becomes(p, Idle) /\ Fresh(Idle) = {} /\ Known(Idle) = {} /\ Answered(Idle, devices')
  BY <1>2, Ends
<1>7. TypeOK'
  BY <1>1, <1>2, <1>4, <1>5, <1>6, Carried, TypeFrom DEF TypeOK
<1>8. Spared(p) /\ \A role \in Roles \ lost' : StillServed(p, Idle, role)
  BY <1>2, <1>3, <1>4 DEF Spared, StillServed
<1> QED
  BY <1>2, <1>3, <1>4, <1>6, <1>7, <1>8, RigFrom DEF RigInv

LEMMA CamerasReleasedSafe ==
  ASSUME RigInv, NEW p \in Requesters, CamerasReleased(p)
  PROVE  RigInv'
<1>1. TypeOK /\ works[p].kind = "camera" /\ works[p].pc = "release"
  BY DEF RigInv, CamerasReleased, Busy
<1> DEFINE a == works[p].old[1]
           b == works[p].old[2]
           c == works[p].new[1]
           g == works[p].new[2]
           reg == [registry EXCEPT !["camera"] = c, !["guide"] = g]
<1>2. /\ UNCHANGED <<driver, rate, sensors, source, process, overlapped, asked, restarts>>
      /\ registry' = reg /\ guiders' = Append(guiders, NewGuider(reg, TRUE)) /\ views' = Append(views, NewView(reg))
      /\ state' = [state EXCEPT !.camera = works[p].to] /\ lost' = lost \ {"camera", "guide"}
      /\ Advances(p, Idle) /\ Closes(a, b)
  BY DEF CamerasReleased, counts, Closes
<1>3. /\ works[p] # Idle /\ works[p] \in CameraWorks /\ a \in Numbers /\ b \in Numbers /\ a # b
      /\ c \in Numbers /\ g \in Numbers /\ devices[c].role = "camera" /\ devices[g].role = "guide"
      /\ devices[a].role = "camera" /\ devices[b].role = "guide"
      /\ Fresh(works[p]) = {c, g} /\ Known(works[p]) = {a, b}
  BY <1>1, CameraParts
<1>4. devices[c].open /\ devices[g].open /\ c \notin {a, b} /\ g \notin {a, b}
  BY <1>1, <1>3 DEF RigInv, SwitchesAnswered, Answered, FreshIsApart
<1> HIDE DEF a, b, c, g
<1>5. /\ DevicesStay /\ Len(devices') = Len(devices)
      /\ \A d \in Numbers : devices'[d].open = IF d \in {a, b} THEN FALSE ELSE devices[d].open
  BY <1>1, <1>2, <1>3, ClosedTwo
<1>6. Numbers = 1..Len(devices')
  BY <1>5 DEF Numbers
<1>7. /\ registry'["camera"] = c /\ registry'["guide"] = g /\ registry'["mount"] = registry["mount"]
      /\ registry' \in [Roles -> Numbers] /\ registry' \in [Roles -> Nat]
  <2>1. registry \in [Roles -> Numbers] /\ Numbers \subseteq Nat
    <3>1. registry \in [Roles -> Nat] /\ \A role \in Roles : registry[role] \in Numbers
      BY <1>1 DEF TypeOK, Filled
    <3>2. Numbers \subseteq Nat
      BY <1>1, Lengths DEF Numbers
    <3> QED
      BY <3>1, <3>2
  <2> QED
    BY <1>2, <1>3, <2>1, RoleNames DEF Roles
<1>8. /\ guiders' \in Seq([mount : 1..Len(devices'), camera : 1..Len(devices'), view : BOOLEAN, loop : BOOLEAN])
      /\ DOMAIN guiders \subseteq DOMAIN guiders'
  <2>1. guiders' = Append(guiders, NewGuider(registry', TRUE)) /\ registry' \in [Roles -> 1..Len(devices')]
    BY <1>2, <1>6, <1>7
  <2> HIDE DEF reg
  <2> QED
    BY <1>1, <1>5, <2>1, GuiderMade
<1>9. views' \in Seq([camera : 1..Len(devices'), on : BOOLEAN]) /\ views' # <<>>
  <2>1. NewView(registry') \in ViewType
    BY <1>7, RoleNames DEF NewView, ViewType
  <2>2. views \in Seq(ViewType) /\ views' = Append(views, NewView(registry'))
    BY <1>1, <1>2 DEF TypeOK, ViewType
  <2>3. views' \in Seq(ViewType) /\ views' # <<>>
    BY <2>1, <2>2
  <2> QED
    BY <1>6, <2>3 DEF ViewType
<1> HIDE DEF reg
<1>10. state' \in [mount : MountDrivers, camera : CameraDrivers, rate : Rates]
  <2>1. works[p].to \in CameraDrivers
    BY <1>3 DEF CameraWorks
  <2> QED
    BY <1>1, <1>2, <2>1 DEF TypeOK
<1>11. Becomes(p, Idle) /\ Fresh(Idle) = {} /\ Known(Idle) = {} /\ Answered(Idle, devices')
  BY <1>2, Ends
<1>12. \A role \in Roles : FilledIn(devices', role, registry'[role])
  <2>1. FilledIn(devices', "camera", c) /\ FilledIn(devices', "guide", g)
    BY <1>3, <1>5, <1>6 DEF FilledIn, DevicesStay
  <2>2. FilledIn(devices', "mount", registry["mount"])
    BY <1>1, <1>5, Carried, RoleNames
  <2> QED
    BY <1>7, <2>1, <2>2 DEF Roles
<1>13. TypeOK'
  BY <1>1, <1>2, <1>5, <1>7, <1>8, <1>9, <1>10, <1>11, <1>12, Carried, TypeFrom DEF TypeOK
<1>14. Spared(p)
  BY <1>3, <1>5 DEF Spared
<1>15. ASSUME NEW role \in Roles \ lost'
       PROVE  StillServed(p, Idle, role)
  <2>1. CASE role = "mount"
    BY <1>2, <1>3, <1>5, <2>1 DEF StillServed
  <2>2. ASSUME NEW d \in Numbers, registry'[role] = d, devices[d].open, d \notin {a, b}
        PROVE  StillServed(p, Idle, role)
    BY <1>5, <1>6, <1>11, <1>12, <2>2 DEF StillServed
  <2>3. CASE role = "camera"
    BY <1>3, <1>4, <1>7, <2>2, <2>3
  <2>4. CASE role = "guide"
    BY <1>3, <1>4, <1>7, <2>2, <2>4
  <2> QED
    BY <2>1, <2>3, <2>4 DEF Roles
<1>16. \A role \in Roles : \/ registry'[role] = registry[role]
                           \/ registry'[role] \in Fresh(works[p]) \ Fresh(Idle)
  BY <1>3, <1>7, <1>11 DEF Roles
<1> QED
  BY <1>2, <1>3, <1>5, <1>11, <1>13, <1>14, <1>15, <1>16, RigFrom DEF RigInv

LEMMA SwitchCameraDoes ==
  ASSUME TypeOK, NEW p \in Requesters, NEW d \in CameraDrivers, SwitchCamera(p, d)
  PROVE  /\ DevicesStay /\ Len(devices') = Len(devices) + 2 /\ \A i \in Numbers : devices'[i] = devices[i]
         /\ devices'[Len(devices) + 1] = Device("camera", d, None)
         /\ devices'[Len(devices) + 2] = Device("guide", d, None)
         /\ sensors' = IF d = Simulator THEN {Len(devices) + 1, Len(devices) + 2} ELSE {}
         /\ source' = [s \in DOMAIN source \cup sensors' |->
                         IF s \in sensors' THEN registry["mount"] ELSE source[s]]
         /\ \E w : /\ Becomes(p, w) /\ w.kind = "camera" /\ w.pc = "connect"
                   /\ w.new[1] = Len(devices) + 1 /\ w.new[2] = Len(devices) + 2
                   /\ w.old[1] = registry["camera"] /\ w.old[2] = registry["guide"]
                   /\ w.was = driver.camera /\ w.sims = sensors /\ w.to = d
<1> DEFINE c == Len(devices) + 1
           g == Len(devices) + 2
           x == Device("camera", d, None)
           y == Device("guide", d, None)
           w == [kind |-> "camera", pc |-> "connect", new |-> <<c, g>>,
                 old |-> <<registry["camera"], registry["guide"]>>, was |-> driver.camera, sims |-> sensors, to |-> d]
<1>1. /\ Len(devices) \in Nat /\ driver.camera \in CameraDrivers /\ sensors \subseteq DOMAIN source
      /\ (Len(devices) + 1) + 1 = g
  BY Lengths DEF TypeOK
<1>2. /\ devices' = devices \o <<x, y>> /\ sensors' = IF d = Simulator THEN {c, g} ELSE {}
      /\ source' = [s \in DOMAIN source \cup sensors' |-> IF s \in sensors' THEN registry["mount"] ELSE source[s]]
      /\ Advances(p, w)
  BY <1>1 DEF SwitchCamera
<1>3. x \in DeviceType /\ y \in DeviceType /\ x.role = "camera" /\ y.role = "guide"
  BY DEF Device, DeviceType, Roles
<1> HIDE DEF x, y
<1>4. /\ DevicesStay /\ Len(devices') = g /\ devices'[c] = x /\ devices'[g] = y
      /\ \A i \in Numbers : devices'[i] = devices[i]
  BY <1>2, <1>3, TwoMade
<1>5. /\ FilledIn(devices', "camera", c) /\ FilledIn(devices', "guide", g)
      /\ FilledIn(devices', "camera", registry["camera"]) /\ FilledIn(devices', "guide", registry["guide"])
      /\ registry["camera"] \in Nat /\ registry["guide"] \in Nat
  BY <1>1, <1>3, <1>4, Carried, RoleNames DEF FilledIn, Numbers
<1>6. DOMAIN source \subseteq DOMAIN source'
  BY <1>2
<1> HIDE DEF c, g
<1>7. /\ w.kind = "camera" /\ w.pc = "connect" /\ w.new[1] = c /\ w.new[2] = g
      /\ w.old[1] = registry["camera"] /\ w.old[2] = registry["guide"]
      /\ w.was = driver.camera /\ w.sims = sensors /\ w.to = d
  OBVIOUS
<1>8. c \in Nat /\ g \in Nat
  BY <1>1 DEF c, g
<1>9. w \in [kind : {"camera"}, pc : {"connect", "connect guide", "undo", "view", "stop", "release"},
             new : Seq(Nat), old : Seq(Nat), was : CameraDrivers, sims : SUBSET DOMAIN source',
             to : CameraDrivers]
  BY <1>1, <1>5, <1>6, <1>8
<1>10. Becomes(p, w)
  BY <1>2, <1>5, <1>7, <1>9 DEF Becomes, FitsIn
<1> HIDE DEF w
<1> QED
  BY <1>2, <1>4, <1>7, <1>10 DEF c, g, x, y

LEMMA SwitchCameraSafe ==
  ASSUME RigInv, NEW p \in Requesters, NEW d \in CameraDrivers, SwitchCamera(p, d)
  PROVE  RigInv'
<1>1. TypeOK
  BY DEF RigInv
<1>2. /\ DevicesStay /\ Len(devices') = Len(devices) + 2 /\ \A i \in Numbers : devices'[i] = devices[i]
      /\ sensors' = IF d = Simulator THEN {Len(devices) + 1, Len(devices) + 2} ELSE {}
      /\ source' = [s \in DOMAIN source \cup sensors' |->
                      IF s \in sensors' THEN registry["mount"] ELSE source[s]]
  BY <1>1, SwitchCameraDoes
<1>3. PICK w : /\ Becomes(p, w) /\ w.kind = "camera" /\ w.pc = "connect"
               /\ w.new[1] = Len(devices) + 1 /\ w.new[2] = Len(devices) + 2
               /\ w.old[1] = registry["camera"] /\ w.old[2] = registry["guide"]
  BY <1>1, SwitchCameraDoes
<1>4. /\ UNCHANGED <<registry, rate, state, guiders, views, process, lost, restarts>>
      /\ driver' = [driver EXCEPT !.camera = d] /\ Comes(TRUE) /\ works[p] = Idle
  BY DEF SwitchCamera, services
<1>5. overlapped' \in BOOLEAN /\ process = "runs"
  BY <1>4 DEF Comes
<1>6. driver' \in [mount : MountDrivers, camera : CameraDrivers]
  BY <1>1, <1>4 DEF TypeOK
<1>7. /\ sensors' \subseteq DOMAIN source' /\ DOMAIN source \subseteq DOMAIN source'
      /\ DOMAIN source' \subseteq 1..Len(devices') /\ source' \in [DOMAIN source' -> 1..Len(devices')]
  <2>1. /\ Len(devices) \in Nat /\ registry["mount"] \in 1..Len(devices')
        /\ source \in [DOMAIN source -> 1..Len(devices')] /\ DOMAIN source \subseteq 1..Len(devices')
    BY <1>1, <1>2, Carried, Lengths, RoleNames DEF FilledIn
  <2>2. sensors' \subseteq 1..Len(devices')
    BY <1>2, <2>1
  <2>3. DOMAIN source' = DOMAIN source \cup sensors'
    BY <1>2
  <2>4. source' \in [DOMAIN source' -> 1..Len(devices')]
    BY <1>2, <2>1
  <2> QED
    BY <2>1, <2>2, <2>3, <2>4
<1>8. TypeOK'
  BY <1>1, <1>2, <1>3, <1>4, <1>5, <1>6, <1>7, Carried, ComesCounts, TypeFrom DEF TypeOK
<1>9. /\ Fresh(works[p]) = {} /\ Known(works[p]) = {} /\ Fresh(w) = {Len(devices) + 1, Len(devices) + 2}
      /\ Known(w) = {registry["camera"], registry["guide"]}
      /\ Len(devices) + 1 \notin Numbers /\ Len(devices) + 2 \notin Numbers
  BY <1>1, <1>3, <1>4, Kinds, Lengths DEF Fresh, Known, Numbers
<1>10. Answered(w, devices') /\ Spared(p) /\ \A role \in Roles \ lost' : StillServed(p, w, role)
  BY <1>2, <1>3, <1>4 DEF Answered, Spared, StillServed
<1> QED
  BY <1>2, <1>3, <1>4, <1>5, <1>8, <1>9, <1>10, RigFrom, RoleNames DEF RigInv, Becomes

LEMMA ConnectSafe ==
  ASSUME RigInv, NEW p \in Requesters, NEW role \in Roles, Connect(p, role)
  PROVE  RigInv'
<1>1. TypeOK /\ Comes(FALSE) /\ works[p] = Idle
  BY DEF RigInv, Connect
<1>2. UNCHANGED <<devices, registry, driver, rate, state, sensors, source, guiders, views, process, lost, restarts>>
  BY DEF Connect, settings, services
<1>3. DevicesStay /\ overlapped' \in BOOLEAN /\ process = "runs"
  BY <1>1, <1>2, SameDevices DEF Comes
<1>4. PICK kind \in {"connect", "disconnect"} :
        Advances(p, [kind |-> kind, pc |-> "wait", role |-> role, of |-> registry[role]])
  BY DEF Connect
<1> DEFINE w == [kind |-> kind, pc |-> "wait", role |-> role, of |-> registry[role]]
<1>5. registry[role] \in Nat /\ FilledIn(devices', role, registry[role])
  BY <1>1, <1>3, Carried DEF TypeOK
<1>6. Becomes(p, w)
  BY <1>4, <1>5 DEF Becomes, FitsIn
<1>7. w.kind \in {"connect", "disconnect"} /\ w.of = registry[role]
  OBVIOUS
<1> HIDE DEF w
<1>8. asked' \in 0..MaxRequests /\ restarts' \in 0..MaxRestarts
  BY <1>1, <1>2, <1>3, ComesCounts
<1>9. TypeOK'
  BY <1>1, <1>2, <1>3, <1>6, <1>8, Carried, TypeOfTheSame DEF TypeOK
<1>10. Fresh(w) = {} /\ Known(w) = {registry[role]} /\ Answered(w, devices)
  BY <1>7 DEF Fresh, Known, Answered
<1> QED
  BY <1>2, <1>3, <1>6, <1>9, <1>10, RigOfTheSame DEF Becomes

LEMMA ConnectedSafe ==
  ASSUME RigInv, NEW p \in Requesters, Connected(p)
  PROVE  RigInv'
<1>1. TypeOK /\ works[p].kind \in {"connect", "disconnect"}
  BY DEF RigInv, Connected, Busy
<1>2. /\ UNCHANGED <<registry, driver, rate, state, sensors, source, guiders, views, process, overlapped, asked, restarts>>
      /\ Advances(p, Idle)
  BY DEF Connected, settings, services, counts
<1> DEFINE d == works[p].of
           r == works[p].role
<1>3. works[p] # Idle /\ d \in Numbers /\ devices[d].role = r /\ r \in Roles /\ Known(works[p]) = {d}
      /\ Fresh(works[p]) = {}
  BY <1>1, WorksAre, Kinds DEF OtherWorks, Filled, Known, Fresh
<1>4. Becomes(p, Idle) /\ Fresh(Idle) = {} /\ Known(Idle) = {} /\ \A devs : Answered(Idle, devs)
  BY <1>2, Ends
<1>5. CASE UNCHANGED <<devices, lost>>
  <2>1. DevicesStay
    BY <1>1, <1>5, SameDevices
  <2>2. TypeOK'
    BY <1>1, <1>2, <1>4, <1>5, <2>1, Carried, TypeOfTheSame DEF TypeOK
  <2> QED
    BY <1>2, <1>3, <1>4, <1>5, <2>2, RigOfTheSame
<1>6. ASSUME NEW yes \in BOOLEAN, devices' = Opened(d, yes), lost' = IF yes THEN lost \ {r} ELSE lost \cup {r}
      PROVE  RigInv'
  <2> HIDE DEF d, r
  <2>1. /\ DevicesStay /\ Len(devices') = Len(devices)
        /\ \A i \in Numbers : devices'[i].open = IF i = d THEN yes ELSE devices[i].open
    BY <1>1, <1>3, <1>6, OpenedOne
  <2>2. lost' \in SUBSET Roles
    BY <1>1, <1>3, <1>6 DEF TypeOK
  <2>3. TypeOK'
    BY <1>1, <1>2, <1>4, <2>1, <2>2, Carried, TypeOfTheSame DEF TypeOK
  <2>4. Spared(p)
    BY <1>3, <2>1 DEF Spared
  <2>5. ASSUME NEW role \in Roles \ lost'
        PROVE  StillServed(p, Idle, role)
    <3>1. CASE role # r
      BY <1>3, <1>6, <2>1, <2>5, <3>1 DEF StillServed
    <3>2. CASE role = r
      <4>1. yes = TRUE
        BY <1>6, <2>5, <3>2
      <4>2. FilledIn(devices', r, d) /\ devices'[d].open
        BY <1>3, <2>1, <4>1 DEF FilledIn, DevicesStay, Numbers
      <4> QED
        BY <1>3, <1>4, <2>1, <3>2, <4>2 DEF StillServed, Numbers
    <3> QED
      BY <3>1, <3>2
  <2> QED
    BY <1>2, <1>3, <1>4, <2>1, <2>3, <2>4, <2>5, RigFrom DEF RigInv
<1> QED
  BY <1>5, <1>6 DEF Connected

LEMMA StartGuidingSafe ==
  ASSUME RigInv, NEW p \in Requesters, StartGuiding(p)
  PROVE  RigInv'
<1> DEFINE w == [kind |-> "guide", pc |-> "wait", of |-> Len(guiders)]
<1>1. TypeOK /\ Comes(FALSE) /\ works[p] = Idle /\ Advances(p, w)
  BY DEF RigInv, StartGuiding
<1>2. UNCHANGED <<devices, registry, driver, rate, state, sensors, source, guiders, views, process, lost, restarts>>
  BY DEF StartGuiding, settings, services
<1>3. DevicesStay /\ overlapped' \in BOOLEAN /\ process = "runs"
  BY <1>1, <1>2, SameDevices DEF Comes
<1>4. Becomes(p, w)
  BY <1>1, <1>2, Lengths DEF Becomes, FitsIn
<1>5. w.kind = "guide"
  OBVIOUS
<1> HIDE DEF w
<1>6. asked' \in 0..MaxRequests /\ restarts' \in 0..MaxRestarts
  BY <1>1, <1>2, <1>3, ComesCounts
<1>7. TypeOK'
  BY <1>1, <1>2, <1>3, <1>4, <1>6, Carried, TypeOfTheSame DEF TypeOK
<1>8. Fresh(w) = {} /\ Known(w) = {} /\ Answered(w, devices)
  BY <1>5 DEF Fresh, Known, Answered
<1> QED
  BY <1>1, <1>2, <1>3, <1>7, <1>8, RigOfTheSame

LEMMA GuidingStartsSafe ==
  ASSUME RigInv, NEW p \in Requesters, GuidingStarts(p)
  PROVE  RigInv'
<1>1. TypeOK /\ works[p].kind = "guide"
  BY DEF RigInv, GuidingStarts, Busy
<1>2. /\ UNCHANGED <<devices, registry, driver, rate, state, sensors, source, views, process, overlapped, lost,
                     asked, restarts>>
      /\ guiders' = [guiders EXCEPT ![works[p].of].loop = TRUE] /\ Advances(p, Idle)
  BY DEF GuidingStarts, settings, counts
<1>3. works[p].of \in DOMAIN guiders /\ works[p] # Idle
  BY <1>1, WorksAre, Kinds DEF GuideWorks
<1>4. DevicesStay /\ Numbers = 1..Len(devices')
  BY <1>1, <1>2, SameDevices
<1>5. /\ guiders' \in Seq([mount : 1..Len(devices'), camera : 1..Len(devices'), view : BOOLEAN, loop : BOOLEAN])
      /\ DOMAIN guiders' = DOMAIN guiders
  BY <1>1, <1>2, <1>3, <1>4, LoopSet DEF GuiderType
<1>6. Becomes(p, Idle) /\ Fresh(Idle) = {} /\ Known(Idle) = {} /\ Answered(Idle, devices)
  BY <1>2, Ends
<1>7. TypeOK'
  BY <1>1, <1>2, <1>4, <1>5, <1>6, Carried, TypeOfTheSame DEF TypeOK
<1> QED
  BY <1>2, <1>3, <1>6, <1>7, RigOfTheSame

LEMMA StopGuidingSafe ==
  ASSUME RigInv, StopGuiding
  PROVE  RigInv'
<1>1. TypeOK /\ process = "runs"
  BY DEF RigInv, StopGuiding
<1>2. /\ UNCHANGED <<devices, registry, driver, rate, state, sensors, source, views, works, process, overlapped, lost,
                     asked, restarts>>
      /\ guiders' = [guiders EXCEPT ![Len(guiders)].loop = FALSE]
  BY DEF StopGuiding, settings, counts
<1>3. DevicesStay /\ Numbers = 1..Len(devices')
  BY <1>1, <1>2, SameDevices
<1>4. /\ guiders' \in Seq([mount : 1..Len(devices'), camera : 1..Len(devices'), view : BOOLEAN, loop : BOOLEAN])
      /\ DOMAIN guiders' = DOMAIN guiders
  BY <1>1, <1>2, <1>3, LoopSet, Lengths DEF GuiderType
<1>5. TypeOK'
  BY <1>1, <1>2, <1>3, <1>4, Carried, TypeOfTheSame DEF TypeOK
<1>6. FreshIsApart' /\ SwitchesAnswered'
  BY <1>2 DEF RigInv, FreshIsApart, SwitchesAnswered
<1>7. RolesAreServed' /\ ShutIsQuiet'
  BY <1>2 DEF RigInv, RolesAreServed, Serves, Filled, Numbers, ShutIsQuiet, Quiet
<1> QED
  BY <1>5, <1>6, <1>7 DEF RigInv

LEMMA RateSet ==
  ASSUME TypeOK, NEW m \in Numbers, NEW r \in Rates \cup {None}, devices' = [devices EXCEPT ![m].rate = r]
  PROVE  /\ DevicesStay /\ Len(devices') = Len(devices)
         /\ \A d \in Numbers : /\ devices'[d].open = devices[d].open
                               /\ devices'[d].rate = IF d = m THEN r ELSE devices[d].rate
<1> DEFINE x == [devices[m] EXCEPT !.rate = r]
<1>1. devices \in Seq(DeviceType) /\ Len(devices) \in Nat /\ m \in 1..Len(devices)
      /\ Numbers = 1..Len(devices) /\ \A d \in Numbers : devices[d] \in DeviceType
  BY Lengths DEF TypeOK, Numbers
<1>2. /\ x \in DeviceType /\ x.role = devices[m].role /\ x.driver = devices[m].driver /\ x.open = devices[m].open
      /\ x.rate = r
  BY <1>1 DEF DeviceType
<1>3. devices' = [devices EXCEPT ![m] = x]
  OBVIOUS
<1> HIDE DEF x
<1>4. /\ devices' \in Seq(DeviceType) /\ Len(devices') = Len(devices)
      /\ \A d \in Numbers : devices'[d] = IF d = m THEN x ELSE devices[d]
  BY <1>1, <1>2, <1>3
<1> QED
  BY <1>1, <1>2, <1>4 DEF DevicesStay

\* Where every request and every role is what it was, and as many devices open.
LEMMA RigOfTheOpen ==
  ASSUME RigInv, TypeOK', DevicesStay, Len(devices') = Len(devices), UNCHANGED <<registry, works, lost, process>>,
         \A d \in Numbers : devices'[d].open = devices[d].open
  PROVE  RigInv'
<1>1. FreshIsApart' /\ ShutIsQuiet'
  BY DEF RigInv, FreshIsApart, ShutIsQuiet, Quiet
<1>2. \A p \in Requesters : Fresh(works[p]) \subseteq Numbers
  BY TheyWereMade DEF RigInv
<1>3. SwitchesAnswered'
  <2>1. SUFFICES ASSUME NEW p \in Requesters PROVE Answered(works[p], devices')
    BY DEF SwitchesAnswered
  <2>2. Answered(works[p], devices)
    BY DEF RigInv, SwitchesAnswered
  <2> QED
    BY <1>2, <2>2 DEF Answered, Fresh
<1>4. RolesAreServed'
  <2>1. ASSUME NEW role \in Roles, NEW d \in Numbers, Serves(role, d) PROVE Serves(role, d)'
    BY <2>1 DEF Serves, Filled, DevicesStay, Numbers
  <2> QED
    BY <2>1 DEF RigInv, RolesAreServed, Numbers
<1> QED
  BY <1>1, <1>3, <1>4 DEF RigInv

LEMMA SetRateSafe ==
  ASSUME RigInv, NEW r \in Rates, SetRate(r)
  PROVE  RigInv'
<1> DEFINE m == registry["mount"]
<1>1. TypeOK /\ Comes(FALSE) /\ rate' = r /\ devices' = [devices EXCEPT ![m].rate = RateOf(devices[m].driver, r)]
  BY DEF RigInv, SetRate
<1>2. /\ UNCHANGED <<registry, driver, sensors, source, guiders, views, works, process, lost, restarts>>
      /\ state' = [state EXCEPT !.mount = driver.mount, !.rate = r]
  BY DEF SetRate, services
<1>3. m \in Numbers /\ RateOf(devices[m].driver, r) \in Rates \cup {None}
  BY <1>1, RoleNames DEF TypeOK, Filled, RateOf
<1> HIDE DEF m
<1>4. DevicesStay /\ Len(devices') = Len(devices) /\ \A d \in Numbers : devices'[d].open = devices[d].open
  BY <1>1, <1>3, RateSet
<1>5. state' \in [mount : MountDrivers, camera : CameraDrivers, rate : Rates]
  BY <1>1, <1>2 DEF TypeOK
<1>6. overlapped' \in BOOLEAN
  BY <1>1 DEF Comes
<1>7. asked' \in 0..MaxRequests /\ restarts' \in 0..MaxRestarts
  BY <1>1, <1>2, <1>6, ComesCounts
<1>8. registry' \in [Roles -> Nat] /\ driver' \in [mount : MountDrivers, camera : CameraDrivers]
      /\ sensors' \subseteq DOMAIN source' /\ lost' \in SUBSET Roles /\ process' \in {"runs", "shut"}
  BY <1>1, <1>2 DEF TypeOK
<1>9. TypeOK'
  BY <1>1, <1>2, <1>4, <1>5, <1>6, <1>7, <1>8, Carried, TypeFrom
<1> QED
  BY <1>2, <1>4, <1>9, RigOfTheOpen

\* An orderly end.
LEMMA ShutdownDoes ==
  ASSUME TypeOK, Shutdown
  PROVE  /\ DevicesStay /\ Len(devices') = Len(devices)
         /\ \A d \in Numbers : /\ devices'[d].rate = devices[d].rate
                               /\ devices'[d].open = IF \E role \in Roles : registry[role] = d THEN FALSE
                                                     ELSE devices[d].open
         /\ guiders' \in Seq(GuiderType) /\ DOMAIN guiders' = DOMAIN guiders
         /\ \A g \in DOMAIN guiders :
              /\ guiders'[g].view = IF g = Len(guiders) THEN FALSE ELSE guiders[g].view
              /\ guiders'[g].loop = IF g = Len(guiders) THEN FALSE ELSE guiders[g].loop
         /\ views' \in Seq(ViewType) /\ views' # <<>> /\ DOMAIN views' = DOMAIN views
         /\ \A v \in DOMAIN views : views'[v].on = IF v = Len(views) THEN FALSE ELSE views[v].on
<1>1. /\ devices' = [d \in DOMAIN devices |->
                       IF \E role \in Roles : registry[role] = d
                       THEN [devices[d] EXCEPT !.open = FALSE] ELSE devices[d]]
      /\ guiders' = [guiders EXCEPT ![Len(guiders)].view = FALSE, ![Len(guiders)].loop = FALSE]
      /\ views' = [views EXCEPT ![Len(views)].on = FALSE]
  BY DEF Shutdown
<1>2. /\ devices \in Seq(DeviceType) /\ Len(devices) \in Nat /\ Numbers = DOMAIN devices
      /\ DOMAIN devices = 1..Len(devices) /\ \A d \in Numbers : devices[d] \in DeviceType
  BY Lengths DEF TypeOK, Numbers
<1>3. ASSUME NEW d \in Numbers
      PROVE  /\ devices'[d] \in DeviceType /\ devices'[d].role = devices[d].role
             /\ devices'[d].driver = devices[d].driver /\ devices'[d].rate = devices[d].rate
             /\ devices'[d].open = IF \E role \in Roles : registry[role] = d THEN FALSE ELSE devices[d].open
  <2>1. devices[d] \in DeviceType
    BY <1>2
  <2>2. CASE \E role \in Roles : registry[role] = d
    <3>1. devices'[d] = [devices[d] EXCEPT !.open = FALSE]
      BY <1>1, <1>2, <2>2
    <3> QED
      BY <2>1, <2>2, <3>1 DEF DeviceType
  <2>3. CASE ~\E role \in Roles : registry[role] = d
    BY <1>1, <1>2, <2>1, <2>3
  <2> QED
    BY <2>2, <2>3
<1>4. devices' \in Seq(DeviceType) /\ Len(devices') = Len(devices)
  <2>1. DOMAIN devices' = 1..Len(devices)
    BY <1>1, <1>2
  <2>2. devices' \in [1..Len(devices) -> DeviceType]
    BY <1>1, <1>2, <1>3
  <2> QED
    BY <1>2, <2>1, <2>2
<1>5. DevicesStay
  <2>1. \A d \in Numbers : devices'[d].role = devices[d].role /\ devices'[d].driver = devices[d].driver
    BY <1>3
  <2> QED
    BY <1>2, <1>4, <2>1 DEF DevicesStay
<1>6. /\ guiders' \in Seq(GuiderType) /\ DOMAIN guiders' = DOMAIN guiders
      /\ \A g \in DOMAIN guiders :
           /\ guiders'[g].view = IF g = Len(guiders) THEN FALSE ELSE guiders[g].view
           /\ guiders'[g].loop = IF g = Len(guiders) THEN FALSE ELSE guiders[g].loop
  <2> DEFINE i == Len(guiders)
             x == [guiders[i] EXCEPT !.view = FALSE, !.loop = FALSE]
  <2>1. guiders \in Seq(GuiderType) /\ i \in DOMAIN guiders
    BY Lengths DEF TypeOK, GuiderType
  <2>2. DOMAIN guiders = 1..Len(guiders) /\ Len(guiders) \in Nat /\ \A g \in DOMAIN guiders : guiders[g] \in GuiderType
    BY <2>1
  <2>3. x \in GuiderType /\ x.loop = FALSE /\ x.view = FALSE
    BY <2>1, <2>2 DEF GuiderType
  <2>4. guiders' = [guiders EXCEPT ![i] = x]
    BY <1>1, <2>1, <2>2
  <2> HIDE DEF x
  <2>5. /\ guiders' \in Seq(GuiderType) /\ DOMAIN guiders' = DOMAIN guiders
        /\ \A g \in DOMAIN guiders : guiders'[g] = IF g = i THEN x ELSE guiders[g]
    BY <2>1, <2>2, <2>3, <2>4
  <2> QED
    BY <2>3, <2>5
<1>7. /\ views' \in Seq(ViewType) /\ views' # <<>> /\ DOMAIN views' = DOMAIN views
      /\ \A v \in DOMAIN views : views'[v].on = IF v = Len(views) THEN FALSE ELSE views[v].on
  BY <1>1, ViewSet
<1> QED
  BY <1>3, <1>4, <1>5, <1>6, <1>7

LEMMA ShutdownSafe ==
  ASSUME RigInv, Shutdown
  PROVE  RigInv'
<1>1. TypeOK /\ Quiet /\ process' = "shut"
  BY DEF RigInv, Shutdown
<1>2. UNCHANGED <<registry, driver, rate, state, sensors, source, works, overlapped, lost, asked, restarts>>
  BY DEF Shutdown, settings, counts
<1>3. /\ DevicesStay /\ Len(devices') = Len(devices)
      /\ guiders' \in Seq(GuiderType) /\ DOMAIN guiders' = DOMAIN guiders
      /\ views' \in Seq(ViewType) /\ views' # <<>>
  BY <1>1, ShutdownDoes
<1>4. /\ guiders' \in Seq([mount : 1..Len(devices'), camera : 1..Len(devices'), view : BOOLEAN, loop : BOOLEAN])
      /\ views' \in Seq([camera : 1..Len(devices'), on : BOOLEAN])
  BY <1>3 DEF GuiderType, ViewType, Numbers
<1>5. TypeOK'
  BY <1>1, <1>2, <1>3, <1>4, TypeOfTheSame DEF TypeOK
<1>6. FreshIsApart' /\ ShutIsQuiet' /\ RolesAreServed'
  BY <1>1, <1>2 DEF RigInv, FreshIsApart, ShutIsQuiet, Quiet, RolesAreServed
<1>7. SwitchesAnswered'
  BY <1>1, <1>2, Kinds DEF Quiet, SwitchesAnswered, Answered
<1> QED
  BY <1>5, <1>6, <1>7 DEF RigInv

-----------------------------------------------------------------------------
(* A process that starts                                                   *)

Started ==
  \E stored \in [mount : MountDrivers, camera : CameraDrivers, rate : Rates], answering \in SUBSET Roles :
     LET b == Built(stored, answering)
     IN /\ state = stored /\ rate = stored.rate
        /\ devices = b.devices /\ registry = b.registry /\ driver = b.driver
        /\ sensors = b.sensors /\ source = b.source
        /\ guiders = <<b.guider>> /\ views = <<b.view>>
        /\ lost = Roles \ answering /\ works = [p \in Requesters |-> Idle]
        /\ process = "runs" /\ overlapped = FALSE
        /\ asked = 0 /\ restarts \in 0..MaxRestarts

\* What is built, spelled out.
LEMMA WhatIsBuilt ==
  ASSUME NEW stored \in [mount : MountDrivers, camera : CameraDrivers, rate : Rates],
         NEW answering \in SUBSET Roles, NEW b, b = Built(stored, answering)
  PROVE  /\ b.devices \in Seq(DeviceType) /\ Len(b.devices) = 3
         /\ b.devices[1].role = "mount" /\ b.devices[2].role = "camera" /\ b.devices[3].role = "guide"
         /\ b.devices[1].open = ("mount" \in answering) /\ b.devices[2].open = ("camera" \in answering)
         /\ b.devices[3].open = ("guide" \in answering)
         /\ b.devices[1].driver = stored.mount /\ b.devices[2].driver = stored.camera
         /\ b.devices[3].driver = stored.camera /\ b.devices[1].rate = RateOf(stored.mount, stored.rate)
         /\ b.registry \in [Roles -> Nat]
         /\ b.registry["mount"] = 1 /\ b.registry["camera"] = 2 /\ b.registry["guide"] = 3
         /\ b.driver = [mount |-> stored.mount, camera |-> stored.camera]
         /\ b.sensors = (IF stored.camera = Simulator THEN {2, 3} ELSE {})
         /\ b.source = [s \in b.sensors |-> 1]
         /\ b.guider = [mount |-> 1, camera |-> 3, view |-> TRUE, loop |-> FALSE]
         /\ b.view = [camera |-> 2, on |-> TRUE]
<1> DEFINE drivers == [mount |-> stored.mount, camera |-> stored.camera, guide |-> stored.camera]
           number == [mount |-> 1, camera |-> 2, guide |-> 3]
           r == RateOf(stored.mount, stored.rate)
           m == [role |-> "mount", driver |-> stored.mount, rate |-> r, open |-> ("mount" \in answering)]
           c == [role |-> "camera", driver |-> stored.camera, rate |-> None, open |-> ("camera" \in answering)]
           g == [role |-> "guide", driver |-> stored.camera, rate |-> None, open |-> ("guide" \in answering)]
<1>1. r \in Rates \cup {None}
  BY DEF RateOf
<1> HIDE DEF r
<1>2. m \in DeviceType /\ c \in DeviceType /\ g \in DeviceType
  BY <1>1, RoleNames DEF DeviceType
<1>3. b.devices = <<m, c, g>>
  <2>1. [Device("mount", stored.mount, r) EXCEPT !.open = ("mount" \in answering)] = m
    BY DEF Device
  <2>2. [Device("camera", stored.camera, None) EXCEPT !.open = ("camera" \in answering)] = c
    BY DEF Device
  <2>3. [Device("guide", stored.camera, None) EXCEPT !.open = ("guide" \in answering)] = g
    BY DEF Device
  <2>4. b.devices = <<[Device("mount", stored.mount, r) EXCEPT !.open = ("mount" \in answering)],
                      [Device("camera", stored.camera, None) EXCEPT !.open = ("camera" \in answering)],
                      [Device("guide", stored.camera, None) EXCEPT !.open = ("guide" \in answering)]>>
    BY DEF Built, r
  <2> QED
    BY <2>1, <2>2, <2>3, <2>4
<1>4. /\ b.registry = number /\ b.driver = [mount |-> stored.mount, camera |-> stored.camera]
      /\ b.sensors = (IF stored.camera = Simulator THEN {2, 3} ELSE {})
      /\ b.source = [s \in b.sensors |-> 1]
      /\ b.guider = NewGuider(number, TRUE) /\ b.view = NewView(number)
  BY DEF Built
<1>5. number \in [Roles -> Nat] /\ number["mount"] = 1 /\ number["camera"] = 2 /\ number["guide"] = 3
  BY DEF Roles
<1> HIDE DEF m, c, g, number
<1>6. /\ b.guider = [mount |-> 1, camera |-> 3, view |-> TRUE, loop |-> FALSE]
      /\ b.view = [camera |-> 2, on |-> TRUE]
  BY <1>4, <1>5 DEF NewGuider, NewView
<1>7. b.devices \in Seq(DeviceType) /\ Len(b.devices) = 3
      /\ b.devices[1] = m /\ b.devices[2] = c /\ b.devices[3] = g
  BY <1>2, <1>3
<1>8. /\ m.role = "mount" /\ c.role = "camera" /\ g.role = "guide"
      /\ m.open = ("mount" \in answering) /\ c.open = ("camera" \in answering) /\ g.open = ("guide" \in answering)
      /\ m.driver = stored.mount /\ c.driver = stored.camera /\ g.driver = stored.camera /\ m.rate = r
  BY DEF m, c, g
<1> QED
  BY <1>4, <1>5, <1>6, <1>7, <1>8 DEF r

LEMMA StartedSafe == Started => RigInv
<1> SUFFICES ASSUME Started PROVE RigInv
  OBVIOUS
<1>1. PICK stored \in [mount : MountDrivers, camera : CameraDrivers, rate : Rates], answering \in SUBSET Roles :
        LET b == Built(stored, answering)
        IN /\ state = stored /\ rate = stored.rate
           /\ devices = b.devices /\ registry = b.registry /\ driver = b.driver
           /\ sensors = b.sensors /\ source = b.source
           /\ guiders = <<b.guider>> /\ views = <<b.view>>
           /\ lost = Roles \ answering /\ works = [p \in Requesters |-> Idle]
           /\ process = "runs" /\ overlapped = FALSE
           /\ asked = 0 /\ restarts \in 0..MaxRestarts
  BY DEF Started
<1> DEFINE b == Built(stored, answering)
<1>2. /\ b.devices \in Seq(DeviceType) /\ Len(b.devices) = 3
      /\ b.devices[1].role = "mount" /\ b.devices[2].role = "camera" /\ b.devices[3].role = "guide"
      /\ b.devices[1].open = ("mount" \in answering) /\ b.devices[2].open = ("camera" \in answering)
      /\ b.devices[3].open = ("guide" \in answering)
      /\ b.registry \in [Roles -> Nat]
      /\ b.registry["mount"] = 1 /\ b.registry["camera"] = 2 /\ b.registry["guide"] = 3
      /\ b.driver = [mount |-> stored.mount, camera |-> stored.camera]
      /\ b.sensors = (IF stored.camera = Simulator THEN {2, 3} ELSE {})
      /\ b.source = [s \in b.sensors |-> 1]
      /\ b.guider = [mount |-> 1, camera |-> 3, view |-> TRUE, loop |-> FALSE]
      /\ b.view = [camera |-> 2, on |-> TRUE]
  BY WhatIsBuilt
<1>3. /\ devices = b.devices /\ registry = b.registry /\ driver = b.driver
      /\ sensors = b.sensors /\ source = b.source /\ guiders = <<b.guider>> /\ views = <<b.view>>
  BY <1>1
<1> HIDE DEF b
<1>4. /\ devices \in Seq(DeviceType) /\ Numbers = 1..3 /\ Len(devices) = 3
      /\ devices[1].role = "mount" /\ devices[2].role = "camera" /\ devices[3].role = "guide"
      /\ devices[1].open = ("mount" \in answering) /\ devices[2].open = ("camera" \in answering)
      /\ devices[3].open = ("guide" \in answering)
      /\ registry \in [Roles -> Nat]
      /\ registry["mount"] = 1 /\ registry["camera"] = 2 /\ registry["guide"] = 3
      /\ driver = [mount |-> stored.mount, camera |-> stored.camera]
      /\ sensors = (IF stored.camera = Simulator THEN {2, 3} ELSE {})
      /\ source = [s \in sensors |-> 1]
  BY <1>2, <1>3 DEF Numbers
<1>5. /\ guiders = <<[mount |-> 1, camera |-> 3, view |-> TRUE, loop |-> FALSE]>>
      /\ views = <<[camera |-> 2, on |-> TRUE]>>
  BY <1>2, <1>3
<1>6. /\ state = stored /\ rate = stored.rate /\ lost = Roles \ answering /\ works = [p \in Requesters |-> Idle]
      /\ process = "runs" /\ overlapped = FALSE /\ asked = 0 /\ restarts \in 0..MaxRestarts
  BY <1>1
<1>7. \A role \in Roles : Filled(role, registry[role])
  BY <1>4 DEF Roles, Filled
<1>8. TypeOK
  <2>1. /\ driver \in [mount : MountDrivers, camera : CameraDrivers] /\ rate \in Rates
        /\ state \in [mount : MountDrivers, camera : CameraDrivers, rate : Rates]
    BY <1>4, <1>6
  <2>2. /\ source \in [DOMAIN source -> Numbers] /\ DOMAIN source \subseteq Numbers
        /\ sensors \subseteq DOMAIN source
    BY <1>4
  <2>3. /\ guiders \in Seq([mount : Numbers, camera : Numbers, view : BOOLEAN, loop : BOOLEAN]) /\ guiders # <<>>
        /\ views \in Seq([camera : Numbers, on : BOOLEAN]) /\ views # <<>>
    BY <1>4, <1>5
  <2>4. DOMAIN works = Requesters /\ \A p \in Requesters : WorkIsTyped(works[p])
    BY <1>6 DEF WorkIsTyped
  <2>5. /\ lost \in SUBSET Roles /\ process \in {"runs", "shut"} /\ overlapped \in BOOLEAN
        /\ asked \in 0..MaxRequests /\ restarts \in 0..MaxRestarts
    <3>1. MaxRequests \in Nat
      BY BoundsAssumption
    <3>2. 0 \in 0..MaxRequests
      BY <3>1
    <3> QED
      BY <1>6, <3>2
  <2> QED
    BY <1>4, <1>7, <2>1, <2>2, <2>3, <2>4, <2>5 DEF TypeOK
<1>9. \A p \in Requesters : Fresh(works[p]) = {} /\ Known(works[p]) = {} /\ Answered(works[p], devices)
  BY <1>6, Kinds DEF Fresh, Known, Answered
<1>10. FreshIsApart /\ SwitchesAnswered /\ ShutIsQuiet
  BY <1>6, <1>9 DEF FreshIsApart, SwitchesAnswered, ShutIsQuiet
<1>11. RolesAreServed
  <2>1. ASSUME NEW role \in Roles \ lost PROVE devices[registry[role]].open
    BY <1>4, <1>6, <2>1 DEF Roles
  <2> QED
    BY <1>7, <1>9, <2>1 DEF RolesAreServed, Serves, Filled
<1> QED
  BY <1>8, <1>10, <1>11 DEF RigInv

LEMMA InitIsStarted == Init => Started
<1> SUFFICES ASSUME Init PROVE Started
  OBVIOUS
<1>1. PICK answering \in SUBSET Roles, r \in Rates :
        LET stored == [mount |-> FirstMount, camera |-> FirstCamera, rate |-> r]
            b == Built(stored, answering)
        IN /\ state = stored /\ rate = r
           /\ devices = b.devices /\ registry = b.registry /\ driver = b.driver
           /\ sensors = b.sensors /\ source = b.source
           /\ guiders = <<b.guider>> /\ views = <<b.view>>
           /\ lost = Roles \ answering
  BY DEF Init
<1> DEFINE stored == [mount |-> FirstMount, camera |-> FirstCamera, rate |-> r]
<1>2. stored \in [mount : MountDrivers, camera : CameraDrivers, rate : Rates] /\ stored.rate = r
  BY DriversAssumption
<1>3. /\ works = [p \in Requesters |-> Idle] /\ process = "runs" /\ overlapped = FALSE
      /\ asked = 0 /\ restarts \in 0..MaxRestarts
  BY BoundsAssumption DEF Init
<1> HIDE DEF stored
<1>4. LET b == Built(stored, answering)
      IN /\ state = stored /\ rate = stored.rate
         /\ devices = b.devices /\ registry = b.registry /\ driver = b.driver
         /\ sensors = b.sensors /\ source = b.source
         /\ guiders = <<b.guider>> /\ views = <<b.view>>
         /\ lost = Roles \ answering
  BY <1>1, <1>2 DEF stored
<1> QED
  BY <1>2, <1>3, <1>4 DEF Started

LEMMA RestartIsStarted ==
  ASSUME TypeOK, NEW answering \in SUBSET Roles, Restart(answering)
  PROVE  Started'
<1>1. state \in [mount : MountDrivers, camera : CameraDrivers, rate : Rates]
  BY DEF TypeOK
<1>2. LET b == Built(state, answering)
      IN /\ state' = state /\ rate' = state.rate
         /\ devices' = b.devices /\ registry' = b.registry /\ driver' = b.driver
         /\ sensors' = b.sensors /\ source' = b.source
         /\ guiders' = <<b.guider>> /\ views' = <<b.view>>
         /\ lost' = Roles \ answering
  BY DEF Restart
<1>3. /\ works' = [p \in Requesters |-> Idle] /\ process' = "runs" /\ overlapped' = FALSE /\ asked' = 0
  BY DEF Restart
<1>4. restarts' \in 0..MaxRestarts
  BY BoundsAssumption DEF Restart, TypeOK
<1> QED
  BY <1>1, <1>2, <1>3, <1>4 DEF Started

LEMMA StartedLater == Started' => RigInv'
BY StartedSafe, PTL

LEMMA RestartSafe ==
  ASSUME RigInv, NEW answering \in SUBSET Roles, Restart(answering)
  PROVE  RigInv'
BY RestartIsStarted, StartedLater DEF RigInv

LEMMA RigKept == RigInv /\ [Next]_vars => RigInv'
<1> SUFFICES ASSUME RigInv, [Next]_vars PROVE RigInv'
  OBVIOUS
<1>1. CASE UNCHANGED vars
  <2>1. UNCHANGED <<devices, registry, driver, rate, state, sensors, source, guiders, views, works, process,
                    overlapped, lost, asked, restarts>>
    BY <1>1 DEF vars
  <2>2. /\ devices' \in Seq(DeviceType) /\ Numbers' = Numbers
        /\ registry' \in [Roles -> Nat] /\ \A role \in Roles : Filled(role, registry[role])'
    BY <2>1 DEF RigInv, TypeOK, Filled, Numbers
  <2>3. DOMAIN works' = Requesters /\ \A q \in Requesters : WorkIsTyped(works[q])'
    <3>1. DOMAIN works = Requesters /\ \A q \in Requesters : WorkIsTyped(works[q])
      BY DEF RigInv, TypeOK
    <3>2. \A role, d : Filled(role, d) => Filled(role, d)'
      BY <2>1 DEF Filled, Numbers
    <3> SUFFICES ASSUME NEW q \in Requesters PROVE WorkIsTyped(works[q])'
      BY <2>1, <3>1
    <3>3. PICK w : w = works[q] /\ w = works'[q] /\ WorkIsTyped(w)
      BY <2>1, <3>1
    <3>4. guiders' = guiders /\ source' = source
      BY <2>1
    <3>5. WorkIsTyped(w)'
      BY <3>2, <3>3, <3>4, Zenon DEF WorkIsTyped
    <3> QED
      BY <3>3, <3>5
  <2>4. TypeOK'
    BY <2>1, <2>2, <2>3 DEF RigInv, TypeOK
  <2>5. DevicesStay
    BY <2>1, SameDevices DEF RigInv
  <2> QED
    BY <2>1, <2>4, <2>5, RigOfTheOpen
<1>2. ASSUME NEW p \in Requesters, NEW d \in MountDrivers, SwitchMount(p, d) PROVE RigInv'
  BY <1>2, SwitchMountSafe
<1>3. ASSUME NEW p \in Requesters, MountAnswers(p) PROVE RigInv'
  BY <1>3, MountAnswersSafe
<1>4. ASSUME NEW p \in Requesters, MountReleased(p) PROVE RigInv'
  BY <1>4, MountReleasedSafe
<1>5. ASSUME NEW p \in Requesters, GuiderStops(p) PROVE RigInv'
  BY <1>5, GuiderStopsSafe
<1>6. ASSUME NEW p \in Requesters, MountBuilds(p) PROVE RigInv'
  BY <1>6, MountBuildsSafe
<1>7. ASSUME NEW p \in Requesters, NEW d \in CameraDrivers, SwitchCamera(p, d) PROVE RigInv'
  BY <1>7, SwitchCameraSafe
<1>8. ASSUME NEW p \in Requesters, CamerasAnswer(p) PROVE RigInv'
  BY <1>8, CamerasAnswerSafe
<1>9. ASSUME NEW p \in Requesters, CamerasUndone(p) PROVE RigInv'
  BY <1>9, CamerasUndoneSafe
<1>10. ASSUME NEW p \in Requesters, ViewStopped(p) PROVE RigInv'
  BY <1>10, ViewStoppedSafe
<1>11. ASSUME NEW p \in Requesters, CamerasReleased(p) PROVE RigInv'
  BY <1>11, CamerasReleasedSafe
<1>12. ASSUME NEW p \in Requesters, NEW role \in Roles, Connect(p, role) PROVE RigInv'
  BY <1>12, ConnectSafe
<1>13. ASSUME NEW p \in Requesters, Connected(p) PROVE RigInv'
  BY <1>13, ConnectedSafe
<1>14. ASSUME NEW p \in Requesters, StartGuiding(p) PROVE RigInv'
  BY <1>14, StartGuidingSafe
<1>15. ASSUME NEW p \in Requesters, GuidingStarts(p) PROVE RigInv'
  BY <1>15, GuidingStartsSafe
<1>16. CASE StopGuiding
  BY <1>16, StopGuidingSafe
<1>17. ASSUME NEW r \in Rates, SetRate(r) PROVE RigInv'
  BY <1>17, SetRateSafe
<1>18. CASE Shutdown
  BY <1>18, ShutdownSafe
<1>19. ASSUME NEW answering \in SUBSET Roles, Restart(answering) PROVE RigInv'
  BY <1>19, RestartSafe
<1> QED
  BY <1>1, <1>2, <1>3, <1>4, <1>5, <1>6, <1>7, <1>8, <1>9, <1>10, <1>11, <1>12, <1>13, <1>14, <1>15, <1>16,
     <1>17, <1>18, <1>19 DEF Next

LEMMA RigAlways == Spec => []RigInv
<1>1. Init => RigInv
  BY InitIsStarted, StartedSafe
<1> QED
  BY <1>1, RigKept, PTL DEF Spec

\* Every device, service and pending request is one that was made, and every role is
\* filled by a device of that role, whatever overlaps, fails or restarts (Observatory,
\* runtime.py).
THEOREM TypeSafety == Spec => []TypeOK
<1>1. RigInv => TypeOK
  BY DEF RigInv
<1> QED
  BY <1>1, RigAlways, PTL

\* However switches, connections and failures overlap, the rig does not let go of its
\* last device of a role: one that was not disconnected by hand, and answered at the
\* start, has an open device (switch_mount and switch_camera of runtime.py).
THEOREM TheRigKeepsADevice == Spec => []AlwaysADevice
<1>1. RigInv => AlwaysADevice
  BY DEF RigInv, RolesAreServed, Serves, Filled, AlwaysADevice
<1> QED
  BY <1>1, RigAlways, PTL

-----------------------------------------------------------------------------
(* Until a switch overlaps                                                 *)

LEMMA NobodySwitches ==
  ASSUME RigInv, TurnInv, ~overlapped, process = "runs", ~Switching
  PROVE  Steady
BY DEF TurnInv, InTurn

LEMMA InASwitch ==
  ASSUME RigInv, TurnInv, ~overlapped, NEW p \in Requesters
  PROVE  /\ works[p] # Idle => process = "runs"
         /\ works[p].kind = "mount" => Alone(p) /\ MountStage(works[p])
         /\ works[p].kind = "camera" => Alone(p) /\ CameraStage(works[p])
         /\ works[p] # Idle /\ works[p].kind \notin Switches => ~Switching
<1>1. works[p] # Idle => process = "runs"
  BY DEF RigInv, ShutIsQuiet, Quiet, TypeOK
<1>2. works[p].kind \in Switches => works[p] # Idle
  BY Kinds DEF Switches
<1>3. /\ works[p].kind = "mount" => Alone(p) /\ MountStage(works[p])
      /\ works[p].kind = "camera" => Alone(p) /\ CameraStage(works[p])
  BY <1>1, <1>2 DEF TurnInv, InTurn, Switches
<1>4. ASSUME works[p] # Idle, works[p].kind \notin Switches, Switching
      PROVE  FALSE
  <2>1. PICK q \in Requesters : works[q].kind \in Switches
    BY <1>4 DEF Switching
  <2>2. Alone(q)
    BY <1>1, <1>4, <2>1 DEF TurnInv, InTurn, Switches
  <2> QED
    BY <1>4, <2>1, <2>2 DEF Alone
<1> QED
  BY <1>1, <1>3, <1>4

\* What is to be shown of a step, by what is under way after it.
LEMMA TurnToNobody ==
  ASSUME process' = "runs", Steady', \A q \in Requesters : works'[q].kind \notin Switches
  PROVE  TurnInv'
BY DEF TurnInv, InTurn, Switches

LEMMA TurnIsOver ==
  ASSUME TypeOK, NEW p \in Requesters, Alone(p), Advances(p, Idle), process' = "runs", InPlace'
  PROVE  TurnInv'
<1>1. \A q \in Requesters : works'[q] = Idle
  BY Advanced DEF Alone
<1>2. \A q \in Requesters : UpToDate(works[q])' /\ works'[q].kind \notin Switches
  BY <1>1, Kinds DEF UpToDate, Switches
<1> QED
  BY <1>2, TurnToNobody DEF Steady

LEMMA TurnOfOne ==
  ASSUME TypeOK, NEW p \in Requesters, Alone(p), NEW w, Advances(p, w),
         \/ w.kind = "mount" /\ MountStage(w)'
         \/ w.kind = "camera" /\ CameraStage(w)',
         process' = "runs"
  PROVE  TurnInv'
<1>1. works'[p] = w /\ \A q \in Requesters : q # p => works'[q] = Idle
  BY Advanced DEF Alone
<1>2. Alone(p)'
  BY <1>1 DEF Alone
<1>3. \A q \in Requesters : works'[q].kind \in Switches => q = p
  BY <1>1, Kinds DEF Switches
<1>4. Switching'
  BY <1>1 DEF Switching, Switches
<1>5. works'[p].kind = "mount" => MountStage(works[p])'
  BY <1>1 DEF MountStage
<1>6. works'[p].kind = "camera" => CameraStage(works[p])'
  BY <1>1 DEF CameraStage
<1>7. \A q \in Requesters : works'[q].kind = "mount" => Alone(q)' /\ MountStage(works[q])'
  BY <1>2, <1>3, <1>5 DEF Switches
<1>8. \A q \in Requesters : works'[q].kind = "camera" => Alone(q)' /\ CameraStage(works[q])'
  BY <1>2, <1>3, <1>6 DEF Switches
<1> QED
  BY <1>4, <1>7, <1>8 DEF TurnInv, InTurn

\* What a step that leaves it alone keeps.
LEMMA DrivenStays ==
  ASSUME TypeOK, DevicesStay, UNCHANGED <<registry, rate>>,
         \A d \in Numbers : devices'[d].rate = devices[d].rate
  PROVE  \A m, c : Driven(m, c) => Driven(m, c)'
<1>1. \A role \in Roles : registry[role] \in Numbers
  BY DEF TypeOK, Filled
<1>2. \A role \in Roles : devices'[registry[role]].driver = devices[registry[role]].driver
                          /\ devices'[registry[role]].rate = devices[registry[role]].rate
  BY <1>1 DEF DevicesStay
<1> QED
  BY <1>2 DEF Driven, Roles

LEMMA HeldStays ==
  ASSUME TypeOK, UNCHANGED <<registry, views>>, Len(guiders') = Len(guiders),
         \A g \in DOMAIN guiders : guiders'[g].mount = guiders[g].mount /\ guiders'[g].camera = guiders[g].camera
  PROVE  Held => Held'
BY Lengths DEF Held, guider, view

LEMMA SwitchMountTurn ==
  ASSUME RigInv, TurnInv, NEW p \in Requesters, NEW d \in MountDrivers, SwitchMount(p, d), ~overlapped'
  PROVE  TurnInv'
<1>1. TypeOK
  BY DEF RigInv
<1>2. /\ DevicesStay /\ Len(devices') = Len(devices) + 1 /\ \A i \in Numbers : devices'[i] = devices[i]
      /\ devices'[Len(devices) + 1] = Device("mount", d, RateOf(d, rate))
  BY <1>1, SwitchMountDoes
<1>3. PICK w : /\ Becomes(p, w) /\ w.kind = "mount" /\ w.pc = "connect"
               /\ w.new[1] = Len(devices) + 1 /\ w.old[1] = registry["mount"]
               /\ w.was = driver.mount /\ w.to = d
  BY <1>1, SwitchMountDoes
<1>4. /\ UNCHANGED <<registry, rate, state, sensors, source, guiders, views, process, lost, restarts>>
      /\ driver' = [driver EXCEPT !.mount = d] /\ Comes(TRUE)
  BY DEF SwitchMount, services
<1>5. process = "runs" /\ ~overlapped /\ ~Switching /\ Quiet
  BY <1>4 DEF Comes
<1>6. InPlace
  BY <1>5, NobodySwitches DEF Steady
<1>7. Alone(p)
  BY <1>5 DEF Alone, Quiet
<1>8. driver'.mount = d /\ driver'.camera = driver.camera
  BY <1>1, <1>4 DEF TypeOK
<1>9. Stored(w.was, driver.camera)' /\ view'.on /\ view'.camera = registry'["camera"] /\ Drawn(sensors, driver.camera)'
  BY <1>3, <1>4, <1>6, <1>8 DEF InPlace, Stored, view, Held, Drawn
<1>10. Driven(w.was, driver.camera)' /\ Held'
  <2>1. PICK m, c : m = driver.mount /\ c = driver.camera
    OBVIOUS
  <2>2. Driven(m, c) /\ Held
    BY <1>6, <2>1 DEF InPlace
  <2>3. Driven(m, c)'
    BY <1>1, <1>2, <1>4, <2>2, DrivenStays
  <2>4. w.was = m /\ driver'.camera = c
    BY <1>3, <1>8, <2>1
  <2>5. Driven(w.was, driver.camera)'
    BY <2>3, <2>4 DEF Driven
  <2> QED
    BY <1>1, <1>4, <2>2, <2>5, HeldStays
<1>11. /\ devices'[w.new[1]].open = FALSE /\ devices'[w.new[1]].driver = d
       /\ devices'[w.new[1]].rate = RateOf(d, rate)
  BY <1>2, <1>3 DEF Device
<1>12. OnlyOn({w.new[1]})'
  <2>1. OnlyOn({})
    BY <1>6 DEF InPlace
  <2>2. ASSUME NEW i \in 1..Len(devices'), devices'[i].open
        PROVE  \E role \in Roles : registry'[role] = i
    <3>1. i \in Numbers
      BY <1>1, <1>2, <1>3, <1>11, <2>2, Lengths DEF Numbers
    <3> QED
      BY <1>2, <1>4, <2>1, <2>2, <3>1 DEF OnlyOn
  <2> QED
    BY <1>4, <2>1, <2>2 DEF OnlyOn, Numbers
<1>13. MountStage(w)'
  BY <1>3, <1>4, <1>8, <1>9, <1>10, <1>11, <1>12 DEF MountStage
<1> QED
  BY <1>1, <1>3, <1>4, <1>5, <1>7, <1>13, TurnOfOne DEF Becomes

LEMMA MountAnswersTurn ==
  ASSUME RigInv, TurnInv, NEW p \in Requesters, MountAnswers(p), ~overlapped'
  PROVE  TurnInv'
<1>1. TypeOK /\ works[p].kind = "mount" /\ works[p].pc = "connect" /\ works[p] # Idle
  BY Kinds DEF RigInv, MountAnswers, Busy
<1>2. /\ UNCHANGED <<registry, rate, state, sensors, source, guiders, views, process>> /\ ~overlapped
  BY DEF MountAnswers, services
<1>3. process = "runs" /\ Alone(p) /\ MountStage(works[p])
  BY <1>1, <1>2, InASwitch
<1>4. PICK m, c, t, n : m = works[p].was /\ c = driver.camera /\ t = works[p].to /\ n = works[p].new[1]
  OBVIOUS
<1>5. n \in Numbers /\ works[p].was \in MountDrivers
  BY <1>1, <1>4, WorksAre DEF Filled, MountWorks
<1>6. /\ Driven(m, c) /\ Held /\ OnlyOn({n}) /\ ~devices[n].open /\ works[p].old[1] = registry["mount"]
      /\ devices[n].driver = t /\ devices[n].rate = RateOf(t, rate)
      /\ driver.mount = t /\ Stored(m, c) /\ view.on /\ view.camera = registry["camera"]
      /\ Drawn(sensors, c)
  BY <1>1, <1>3, <1>4 DEF MountStage
<1>7. CASE devices' = Opened(n, TRUE) /\ Advances(p, [works[p] EXCEPT !.pc = "release"]) /\ UNCHANGED driver
  <2>1. /\ DevicesStay /\ Len(devices') = Len(devices)
        /\ \A d \in Numbers : /\ devices'[d].rate = devices[d].rate
                              /\ devices'[d].open = IF d = n THEN TRUE ELSE devices[d].open
    BY <1>1, <1>5, <1>7, OpenedOne
  <2>2. SourcesStay /\ MayGo(works[p], "release") /\ Advances(p, Moved(works[p], "release"))
    BY <1>1, <1>2, <1>7 DEF SourcesStay, Moved, MayGo
  <2>3. PICK w : Becomes(p, w) /\ w.pc = "release" /\ w.kind = works[p].kind /\ w.new = works[p].new
                 /\ w.old = works[p].old /\ w.was = works[p].was /\ w.to = works[p].to
    BY <1>1, <2>1, <2>2, GoesOn
  <2>4. Driven(m, c)' /\ Held'
    BY <1>1, <1>2, <1>6, <2>1, DrivenStays, HeldStays
  <2>5. OnlyOn({n})'
    BY <1>2, <1>6, <2>1 DEF OnlyOn, Numbers
  <2>6. Stored(m, c)' /\ view'.on /\ view'.camera = registry'["camera"] /\ Drawn(sensors, c)' /\ driver'.camera = c
        /\ driver'.mount = t
    BY <1>2, <1>4, <1>6, <1>7 DEF Stored, view, Drawn
  <2>7. devices'[n].driver = t /\ devices'[n].rate = RateOf(t, rate')
    BY <1>2, <1>5, <1>6, <2>1 DEF DevicesStay
  <2>8. w.was = m /\ w.new[1] = n /\ w.to = t /\ w.old[1] = registry'["mount"]
    BY <1>2, <1>4, <1>6, <2>3
  <2>9. MountStage(w)'
    BY <2>3, <2>4, <2>5, <2>6, <2>7, <2>8 DEF MountStage
  <2> QED
    BY <1>1, <1>2, <1>3, <2>3, <2>9, TurnOfOne DEF Becomes
<1>8. CASE driver' = [driver EXCEPT !.mount = works[p].was] /\ Advances(p, Idle) /\ UNCHANGED devices
  <2>1. driver'.mount = m /\ driver'.camera = c
    BY <1>1, <1>4, <1>8 DEF TypeOK
  <2>2. OnlyOn({})
    BY <1>6 DEF OnlyOn
  <2>3. InPlace'
    BY <1>2, <1>6, <1>8, <2>1, <2>2 DEF InPlace, Stored, Driven, Held, Drawn, OnlyOn, view, guider, Numbers
  <2> QED
    BY <1>1, <1>2, <1>3, <1>8, <2>3, TurnIsOver
<1> QED
  BY <1>4, <1>7, <1>8 DEF MountAnswers

LEMMA MountReleasedTurn ==
  ASSUME RigInv, TurnInv, NEW p \in Requesters, MountReleased(p), ~overlapped'
  PROVE  TurnInv'
<1>1. TypeOK /\ works[p].kind = "mount" /\ works[p].pc = "release" /\ works[p] # Idle
  BY Kinds DEF RigInv, MountReleased, Busy
<1> DEFINE n == works[p].new[1]
           o == works[p].old[1]
<1>2. /\ UNCHANGED <<driver, rate, state, sensors, views, process>> /\ ~overlapped
      /\ registry' = [registry EXCEPT !["mount"] = n]
      /\ source' = [s \in DOMAIN source |-> IF s \in sensors THEN n ELSE source[s]]
      /\ guiders' = [guiders EXCEPT ![Len(guiders)].view = FALSE]
      /\ devices' = Opened(o, FALSE)
      /\ Advances(p, Moved(works[p], "stop"))
  BY DEF Moved, MountReleased, settings
<1>3. process = "runs" /\ Alone(p) /\ MountStage(works[p])
  BY <1>1, <1>2, InASwitch
<1>4. n \in Numbers /\ o \in Numbers /\ devices[o].role = "mount" /\ devices[n].role = "mount"
  BY <1>1, WorksAre DEF Filled
<1>5. PICK m, c, t : m = works[p].was /\ c = driver.camera /\ t = works[p].to
  OBVIOUS
<1>6. /\ Driven(m, c) /\ Held /\ OnlyOn({n}) /\ o = registry["mount"]
      /\ devices[n].driver = t /\ devices[n].rate = RateOf(t, rate)
      /\ driver.mount = t /\ Stored(m, c) /\ view.on /\ view.camera = registry["camera"]
      /\ Drawn(sensors, c)
  BY <1>1, <1>3, <1>5 DEF MountStage
<1> HIDE DEF n, o
<1>7. /\ DevicesStay /\ Len(devices') = Len(devices)
      /\ \A d \in Numbers : /\ devices'[d].rate = devices[d].rate
                            /\ devices'[d].open = IF d = o THEN FALSE ELSE devices[d].open
  BY <1>1, <1>2, <1>4, OpenedOne
<1>8. /\ guiders' \in Seq(GuiderType) /\ Len(guiders') = Len(guiders) /\ DOMAIN guiders' = DOMAIN guiders
      /\ \A g \in DOMAIN guiders : /\ guiders'[g].loop = guiders[g].loop
                                   /\ guiders'[g].view = IF g = Len(guiders) THEN FALSE ELSE guiders[g].view
  BY <1>1, <1>2, IdleViewSet, Lengths
<1>9. registry'["mount"] = n /\ \A role \in Roles : role # "mount" => registry'[role] = registry[role]
  BY <1>1, <1>2, RoleNames DEF TypeOK
<1>10. SourcesStay /\ MayGo(works[p], "stop")
  BY <1>1, <1>2, <1>8 DEF SourcesStay, MayGo
<1>11. PICK w : Becomes(p, w) /\ w.pc = "stop" /\ w.kind = works[p].kind /\ w.new = works[p].new
                /\ w.old = works[p].old /\ w.was = works[p].was /\ w.to = works[p].to
  BY <1>1, <1>2, <1>7, <1>10, GoesOn
<1>12. Driven(t, c)'
  <2>1. devices'[n].driver = t /\ devices'[n].rate = RateOf(t, rate')
    BY <1>2, <1>4, <1>6, <1>7 DEF DevicesStay
  <2>2. ASSUME NEW role \in {"camera", "guide"}
        PROVE  devices'[registry'[role]].driver = c
    <3>1. role \in Roles /\ registry'[role] = registry[role] /\ registry[role] \in Numbers
      BY <1>1, <1>9 DEF Roles, TypeOK, Filled
    <3> QED
      BY <1>6, <1>7, <3>1 DEF Driven, DevicesStay
  <2> QED
    BY <1>9, <2>1, <2>2 DEF Driven
<1>13. OnlyOn({})'
  <2>1. ASSUME NEW d \in Numbers, devices'[d].open
        PROVE  \E role \in Roles : registry'[role] = d
    <3>1. d # o /\ devices[d].open
      BY <1>7, <2>1
    <3>2. d = n \/ \E role \in Roles : role # "mount" /\ registry[role] = d
      BY <1>6, <3>1 DEF OnlyOn
    <3> QED
      BY <1>9, <3>2, RoleNames
  <2>2. \A g \in DOMAIN guiders' : guiders'[g].loop \/ guiders'[g].view => g = Len(guiders')
    BY <1>6, <1>8 DEF OnlyOn
  <2> QED
    BY <1>2, <1>6, <1>7, <2>1, <2>2 DEF OnlyOn, Numbers
<1>14. ~guider'.view
  BY <1>1, <1>8, Lengths DEF guider
<1>15. Drawn(sensors, c)'
  <2>1. \A s \in sensors : s \in DOMAIN source
    BY <1>1 DEF TypeOK
  <2> QED
    BY <1>2, <1>6, <1>9, <2>1, RoleNames DEF Drawn
<1>16. Stored(m, c)' /\ view'.on /\ view'.camera = registry'["camera"] /\ driver'.mount = t /\ driver'.camera = c
  BY <1>2, <1>5, <1>6, <1>9, RoleNames DEF Stored, view
<1>17. MountStage(w)'
  BY <1>5, <1>11, <1>12, <1>13, <1>14, <1>15, <1>16 DEF MountStage
<1> QED
  BY <1>1, <1>2, <1>3, <1>11, <1>17, TurnOfOne DEF Becomes

\* The guider of the rig is told to stop: its loop, its idle view, or both.
LEMMA GuiderOff ==
  ASSUME TypeOK, UNCHANGED <<devices, registry, driver, rate, state, sensors, source, views>>,
         \/ guiders' = [guiders EXCEPT ![Len(guiders)].loop = FALSE]
         \/ guiders' = [guiders EXCEPT ![Len(guiders)].view = FALSE]
  PROVE  /\ Len(guiders') = Len(guiders)
         /\ guider'.loop => guider.loop
         /\ guider'.view => guider.view
         /\ guiders' = [guiders EXCEPT ![Len(guiders)].loop = FALSE] => ~guider'.loop
         /\ guiders' = [guiders EXCEPT ![Len(guiders)].view = FALSE] => ~guider'.view
         /\ Held => Held'
         /\ \A others : OnlyOn(others) => OnlyOn(others)'
         /\ \A m, c : (Driven(m, c) => Driven(m, c)') /\ (Stored(m, c) => Stored(m, c)')
         /\ \A sims, c : Drawn(sims, c) => Drawn(sims, c)'
<1>1. Len(guiders) \in DOMAIN guiders
  BY Lengths
<1>2. /\ Len(guiders') = Len(guiders) /\ DOMAIN guiders' = DOMAIN guiders
      /\ \A g \in DOMAIN guiders : /\ guiders'[g].mount = guiders[g].mount
                                   /\ guiders'[g].camera = guiders[g].camera
                                   /\ guiders'[g].loop => guiders[g].loop
                                   /\ guiders'[g].view => guiders[g].view
      /\ guiders' = [guiders EXCEPT ![Len(guiders)].loop = FALSE] => ~guiders'[Len(guiders)].loop
      /\ guiders' = [guiders EXCEPT ![Len(guiders)].view = FALSE] => ~guiders'[Len(guiders)].view
  <2>1. CASE guiders' = [guiders EXCEPT ![Len(guiders)].loop = FALSE]
    <3>1. /\ Len(guiders') = Len(guiders) /\ DOMAIN guiders' = DOMAIN guiders
          /\ \A g \in DOMAIN guiders :
              /\ guiders'[g].mount = guiders[g].mount /\ guiders'[g].camera = guiders[g].camera
              /\ guiders'[g].view = guiders[g].view
              /\ guiders'[g].loop = IF g = Len(guiders) THEN FALSE ELSE guiders[g].loop
      BY <1>1, <2>1, LoopSet
    <3>2. guiders' = [guiders EXCEPT ![Len(guiders)].view = FALSE] => ~guiders'[Len(guiders)].view
      BY <1>1, IdleViewSet
    <3> QED
      BY <1>1, <3>1, <3>2
  <2>2. CASE guiders' = [guiders EXCEPT ![Len(guiders)].view = FALSE]
    <3>1. /\ Len(guiders') = Len(guiders) /\ DOMAIN guiders' = DOMAIN guiders
          /\ \A g \in DOMAIN guiders :
              /\ guiders'[g].mount = guiders[g].mount /\ guiders'[g].camera = guiders[g].camera
              /\ guiders'[g].loop = guiders[g].loop
              /\ guiders'[g].view = IF g = Len(guiders) THEN FALSE ELSE guiders[g].view
      BY <1>1, <2>2, IdleViewSet
    <3>2. guiders' = [guiders EXCEPT ![Len(guiders)].loop = FALSE] => ~guiders'[Len(guiders)].loop
      BY <1>1, LoopSet
    <3> QED
      BY <1>1, <3>1, <3>2
  <2> QED
    BY <2>1, <2>2
<1>3. /\ guider'.loop => guider.loop
      /\ guider'.view => guider.view
      /\ guiders' = [guiders EXCEPT ![Len(guiders)].loop = FALSE] => ~guider'.loop
      /\ guiders' = [guiders EXCEPT ![Len(guiders)].view = FALSE] => ~guider'.view
  BY <1>1, <1>2 DEF guider
<1>4. Held => Held'
  BY <1>2, HeldStays
<1>5. \A others : OnlyOn(others) => OnlyOn(others)'
  BY <1>2 DEF OnlyOn, Numbers
<1>6. /\ \A m, c : (Driven(m, c) => Driven(m, c)') /\ (Stored(m, c) => Stored(m, c)')
      /\ \A sims, c : Drawn(sims, c) => Drawn(sims, c)'
  BY DEF Driven, Stored, Drawn
<1> QED
  BY <1>2, <1>3, <1>4, <1>5, <1>6

\* A stage of a switch whose guider is told to stop.
LEMMA StageOfTheSame ==
  ASSUME TypeOK, UNCHANGED <<devices, registry, driver, rate, state, sensors, source, views>>,
         \/ guiders' = [guiders EXCEPT ![Len(guiders)].loop = FALSE]
         \/ guiders' = [guiders EXCEPT ![Len(guiders)].view = FALSE],
         NEW w
  PROVE  /\ MountStage(w) => MountStage(w)'
         /\ CameraStage(w) => CameraStage(w)'
         /\ InPlace => InPlace'
<1>1. PICK m, c, s : m = driver.mount /\ c = driver.camera /\ s = sensors
  OBVIOUS
<1>2. m = driver'.mount /\ c = driver'.camera /\ s = sensors' /\ view' = view
  BY <1>1 DEF view
<1>3. /\ guider'.loop => guider.loop
      /\ guider'.view => guider.view
      /\ Held => Held'
      /\ \A others : OnlyOn(others) => OnlyOn(others)'
      /\ \A mm, cc : (Driven(mm, cc) => Driven(mm, cc)') /\ (Stored(mm, cc) => Stored(mm, cc)')
      /\ \A sims, cc : Drawn(sims, cc) => Drawn(sims, cc)'
  BY GuiderOff
<1>4. ASSUME MountStage(w) PROVE MountStage(w)'
  <2>1. /\ m = w.to /\ Stored(w.was, c) /\ view.on /\ view.camera = registry["camera"] /\ Drawn(s, c)
        /\ w.pc \in {"connect", "release"} =>
             /\ Driven(w.was, c) /\ Held /\ OnlyOn({w.new[1]})
             /\ w.pc = "connect" => ~devices[w.new[1]].open
             /\ w.old[1] = registry["mount"]
             /\ devices[w.new[1]].driver = w.to /\ devices[w.new[1]].rate = RateOf(w.to, rate)
        /\ w.pc \in {"stop", "build"} =>
             /\ Driven(w.to, c) /\ OnlyOn({}) /\ ~guider.view
             /\ w.pc = "build" => ~guider.loop
    BY <1>1, <1>4 DEF MountStage
  <2>2. /\ m = w.to /\ Stored(w.was, c)' /\ view'.on /\ view'.camera = registry'["camera"] /\ Drawn(s, c)'
        /\ w.pc \in {"connect", "release"} =>
             /\ Driven(w.was, c)' /\ Held' /\ OnlyOn({w.new[1]})'
             /\ w.pc = "connect" => ~devices'[w.new[1]].open
             /\ w.old[1] = registry'["mount"]
             /\ devices'[w.new[1]].driver = w.to /\ devices'[w.new[1]].rate = RateOf(w.to, rate')
        /\ w.pc \in {"stop", "build"} =>
             /\ Driven(w.to, c)' /\ OnlyOn({})' /\ ~guider'.view
             /\ w.pc = "build" => ~guider'.loop
    BY <1>2, <1>3, <2>1
  <2> QED
    BY <1>2, <2>2 DEF MountStage
<1>5. ASSUME CameraStage(w) PROVE CameraStage(w)'
  <2>1. /\ c = w.to /\ Stored(m, w.was) /\ Driven(m, w.was)
        /\ Held /\ Drawn(w.sims, w.was) /\ OnlyOn({w.new[1], w.new[2]})
    BY <1>1, <1>5 DEF CameraStage
  <2>2. /\ c = w.to /\ Stored(m, w.was)' /\ Driven(m, w.was)'
        /\ Held' /\ Drawn(w.sims, w.was)' /\ OnlyOn({w.new[1], w.new[2]})'
    BY <1>3, <2>1
  <2> QED
    BY <1>2, <1>3, <1>5, <2>2 DEF CameraStage
<1>6. ASSUME InPlace PROVE InPlace'
  BY <1>1, <1>2, <1>3, <1>6 DEF InPlace
<1> QED
  BY <1>4, <1>5, <1>6

LEMMA GuiderStopsTurn ==
  ASSUME RigInv, TurnInv, NEW p \in Requesters, GuiderStops(p), ~overlapped'
  PROVE  TurnInv'
<1> DEFINE pc == IF works[p].kind = "mount" THEN "build" ELSE "release"
<1>1. TypeOK /\ works[p].kind \in {"mount", "camera"} /\ works[p].pc = "stop" /\ works[p] # Idle
  BY Kinds DEF RigInv, GuiderStops, Busy, Switches
<1>2. /\ UNCHANGED <<devices, registry, driver, rate, state, sensors, source, views, process>> /\ ~overlapped
      /\ Advances(p, Moved(works[p], pc)) /\ guiders' = [guiders EXCEPT ![Len(guiders)].loop = FALSE]
  BY DEF GuiderStops, settings, Moved
<1>3. /\ process = "runs" /\ Alone(p)
      /\ works[p].kind = "mount" => MountStage(works[p])
      /\ works[p].kind = "camera" => CameraStage(works[p])
  BY <1>1, <1>2, InASwitch
<1>4. PICK o : o = works[p]
  OBVIOUS
<1>5. /\ MountStage(o) => MountStage(o)'
      /\ CameraStage(o) => CameraStage(o)'
  BY <1>1, <1>2, StageOfTheSame
<1>6. ~guider'.loop /\ DOMAIN guiders' = DOMAIN guiders
  BY <1>1, <1>2, GuiderOff, LoopSet, Lengths
<1>7. SourcesStay /\ MayGo(works[p], pc) /\ DevicesStay
  BY <1>1, <1>2, <1>6, SameDevices DEF SourcesStay, MayGo
<1>8. PICK w : /\ Becomes(p, w) /\ w.pc = pc /\ w.kind = o.kind /\ w.new = o.new
               /\ w.old = o.old /\ w.was = o.was /\ w.sims = o.sims /\ w.to = o.to
  BY <1>1, <1>2, <1>4, <1>7, GoesOn
<1>9. CASE o.kind = "mount"
  <2>1. MountStage(o)' /\ o.pc = "stop" /\ w.pc = "build"
    BY <1>1, <1>3, <1>4, <1>5, <1>8, <1>9
  <2>2. MountStage(w)'
    BY <1>6, <1>8, <2>1 DEF MountStage
  <2> QED
    BY <1>1, <1>2, <1>3, <1>8, <1>9, <2>2, TurnOfOne DEF Becomes
<1>10. CASE o.kind = "camera"
  <2>1. CameraStage(o)' /\ o.pc = "stop" /\ w.pc = "release"
    BY <1>1, <1>3, <1>4, <1>5, <1>8, <1>10
  <2>2. CameraStage(w)'
    BY <1>6, <1>8, <2>1 DEF CameraStage
  <2> QED
    BY <1>1, <1>2, <1>3, <1>8, <1>10, <2>2, TurnOfOne DEF Becomes
<1> QED
  BY <1>1, <1>4, <1>9, <1>10

LEMMA ViewStoppedTurn ==
  ASSUME RigInv, TurnInv, NEW p \in Requesters, ViewStopped(p), ~overlapped'
  PROVE  TurnInv'
<1>1. TypeOK /\ works[p].kind = "camera" /\ works[p].pc = "view" /\ works[p] # Idle
  BY Kinds DEF RigInv, ViewStopped, Busy
<1>2. /\ UNCHANGED <<devices, registry, driver, rate, state, sensors, source, views, process>> /\ ~overlapped
      /\ Advances(p, Moved(works[p], "stop")) /\ guiders' = [guiders EXCEPT ![Len(guiders)].view = FALSE]
  BY DEF ViewStopped, settings, Moved
<1>3. process = "runs" /\ Alone(p) /\ CameraStage(works[p])
  BY <1>1, <1>2, InASwitch
<1>4. PICK o : o = works[p]
  OBVIOUS
<1>5. CameraStage(o)'
  BY <1>1, <1>2, <1>3, <1>4, StageOfTheSame
<1>6. ~guider'.view /\ DOMAIN guiders' = DOMAIN guiders
  BY <1>1, <1>2, GuiderOff, IdleViewSet, Lengths
<1>7. SourcesStay /\ MayGo(works[p], "stop") /\ DevicesStay
  BY <1>1, <1>2, <1>6, SameDevices DEF SourcesStay, MayGo
<1>8. PICK w : /\ Becomes(p, w) /\ w.pc = "stop" /\ w.kind = o.kind /\ w.new = o.new
               /\ w.old = o.old /\ w.was = o.was /\ w.sims = o.sims /\ w.to = o.to
  BY <1>1, <1>2, <1>4, <1>7, GoesOn
<1>9. CameraStage(w)'
  BY <1>1, <1>4, <1>5, <1>6, <1>8 DEF CameraStage
<1> QED
  BY <1>1, <1>2, <1>3, <1>4, <1>8, <1>9, TurnOfOne DEF Becomes

LEMMA StopGuidingTurn ==
  ASSUME RigInv, TurnInv, StopGuiding, ~overlapped'
  PROVE  TurnInv'
<1>1. /\ UNCHANGED <<devices, registry, driver, rate, state, sensors, source, views, works, process>> /\ ~overlapped
      /\ guiders' = [guiders EXCEPT ![Len(guiders)].loop = FALSE] /\ TypeOK /\ process = "runs"
  BY DEF RigInv, StopGuiding, settings
<1>2. \A w : /\ MountStage(w) => MountStage(w)'
             /\ CameraStage(w) => CameraStage(w)'
  BY <1>1, StageOfTheSame
<1>3. InPlace => InPlace'
  BY <1>1, StageOfTheSame
<1>4. \A w : UpToDate(w) => UpToDate(w)'
  BY <1>1, LoopSet, Lengths DEF UpToDate
<1>5. \A q \in Requesters : /\ MountStage(works[q]) => MountStage(works[q])'
                            /\ CameraStage(works[q]) => CameraStage(works[q])'
                            /\ UpToDate(works[q]) => UpToDate(works[q])'
  <2>1. TAKE q \in Requesters
  <2>2. PICK w : w = works[q] /\ w = works'[q]
    BY <1>1
  <2>3. /\ MountStage(w) => MountStage(w)'
        /\ CameraStage(w) => CameraStage(w)'
        /\ UpToDate(w) => UpToDate(w)'
    BY <1>2, <1>4
  <2>4. MountStage(works[q]) => MountStage(works[q])'
    BY <2>2, <2>3 DEF MountStage
  <2>5. CameraStage(works[q]) => CameraStage(works[q])'
    BY <2>2, <2>3 DEF CameraStage
  <2>6. UpToDate(works[q]) => UpToDate(works[q])'
    BY <2>2, <2>3 DEF UpToDate
  <2> QED
    BY <2>4, <2>5, <2>6
<1>6. Switching' <=> Switching
  BY <1>1 DEF Switching
<1>7. \A q \in Requesters : Alone(q) => Alone(q)'
  BY <1>1 DEF Alone
<1> QED
  BY <1>1, <1>3, <1>5, <1>6, <1>7 DEF TurnInv, InTurn, Steady

LEMMA MountBuildsTurn ==
  ASSUME RigInv, TurnInv, NEW p \in Requesters, MountBuilds(p), ~overlapped'
  PROVE  TurnInv'
<1>1. TypeOK /\ works[p].kind = "mount" /\ works[p].pc = "build" /\ works[p] # Idle
  BY Kinds DEF RigInv, MountBuilds, Busy
<1>2. /\ UNCHANGED <<devices, registry, driver, rate, sensors, source, views, process>> /\ ~overlapped
      /\ Advances(p, Idle) /\ guiders' = Append(guiders, NewGuider(registry, FALSE))
      /\ state' = [state EXCEPT !.mount = driver.mount, !.rate = rate]
  BY DEF MountBuilds
<1>3. process = "runs" /\ Alone(p) /\ MountStage(works[p])
  BY <1>1, <1>2, InASwitch
<1>4. PICK m, c : m = driver.mount /\ c = driver.camera
  OBVIOUS
<1>5. /\ Driven(m, c) /\ OnlyOn({}) /\ ~guider.view /\ ~guider.loop /\ Drawn(sensors, c)
      /\ view.on /\ view.camera = registry["camera"] /\ Stored(works[p].was, c)
  BY <1>1, <1>3, <1>4 DEF MountStage
<1>6. registry \in [Roles -> 1..Len(devices')] /\ DevicesStay
  BY <1>1, <1>2, SameDevices, Carried DEF TypeOK
<1>7. /\ DOMAIN guiders \subseteq DOMAIN guiders' /\ Len(guiders') = Len(guiders) + 1
      /\ guiders'[Len(guiders')] = NewGuider(registry, FALSE)
      /\ \A g \in DOMAIN guiders : guiders'[g] = guiders[g]
      /\ guiders' \in Seq([mount : 1..Len(devices'), camera : 1..Len(devices'), view : BOOLEAN, loop : BOOLEAN])
  BY <1>1, <1>2, <1>6, GuiderMade
<1>8. Held'
  BY <1>2, <1>5, <1>7 DEF Held, guider, view, NewGuider
<1>9. \A g \in DOMAIN guiders' : guiders'[g].loop \/ guiders'[g].view => g = Len(guiders')
  <2>1. \A g \in DOMAIN guiders : ~guiders[g].loop /\ ~guiders[g].view
    BY <1>1, <1>5, Lengths DEF OnlyOn, guider
  <2>2. \A g \in DOMAIN guiders' : g \in DOMAIN guiders \/ g = Len(guiders')
    BY <1>1, <1>7, Lengths
  <2> QED
    BY <1>7, <2>1, <2>2
<1>10. OnlyOn({})'
  BY <1>2, <1>5, <1>9 DEF OnlyOn, Numbers
<1>11. Stored(m, c)'
  <2>1. state \in [mount : MountDrivers, camera : CameraDrivers, rate : Rates] /\ state.camera = c
    BY <1>1, <1>5 DEF TypeOK, Stored
  <2> QED
    BY <1>2, <1>4, <2>1 DEF Stored
<1>12. Driven(m, c)' /\ Drawn(sensors, c)' /\ view'.on
  BY <1>2, <1>5 DEF Driven, Drawn, view
<1>13. InPlace'
  BY <1>2, <1>4, <1>8, <1>10, <1>11, <1>12 DEF InPlace
<1> QED
  BY <1>1, <1>2, <1>3, <1>13, TurnIsOver

LEMMA SwitchCameraTurn ==
  ASSUME RigInv, TurnInv, NEW p \in Requesters, NEW d \in CameraDrivers, SwitchCamera(p, d), ~overlapped'
  PROVE  TurnInv'
<1>1. TypeOK
  BY DEF RigInv
<1>2. /\ DevicesStay /\ Len(devices') = Len(devices) + 2 /\ \A i \in Numbers : devices'[i] = devices[i]
      /\ devices'[Len(devices) + 1] = Device("camera", d, None)
      /\ devices'[Len(devices) + 2] = Device("guide", d, None)
      /\ sensors' = IF d = Simulator THEN {Len(devices) + 1, Len(devices) + 2} ELSE {}
      /\ source' = [s \in DOMAIN source \cup sensors' |->
                      IF s \in sensors' THEN registry["mount"] ELSE source[s]]
  BY <1>1, SwitchCameraDoes
<1>3. PICK w : /\ Becomes(p, w) /\ w.kind = "camera" /\ w.pc = "connect"
               /\ w.new[1] = Len(devices) + 1 /\ w.new[2] = Len(devices) + 2
               /\ w.old[1] = registry["camera"] /\ w.old[2] = registry["guide"]
               /\ w.was = driver.camera /\ w.sims = sensors /\ w.to = d
  BY <1>1, SwitchCameraDoes
<1>4. /\ UNCHANGED <<registry, rate, state, guiders, views, process, lost, restarts>>
      /\ driver' = [driver EXCEPT !.camera = d] /\ Comes(TRUE)
  BY DEF SwitchCamera, services
<1>5. process = "runs" /\ ~overlapped /\ ~Switching /\ Quiet
  BY <1>4 DEF Comes
<1>6. PICK m, c, sims : m = driver.mount /\ c = driver.camera /\ sims = sensors
  OBVIOUS
<1>7. /\ Stored(m, c) /\ Driven(m, c) /\ Held /\ Drawn(sims, c) /\ OnlyOn({}) /\ view.on
  BY <1>5, <1>6, NobodySwitches DEF Steady, InPlace
<1>8. Alone(p)
  BY <1>5 DEF Alone, Quiet
<1>9. driver'.mount = m /\ driver'.camera = d
  BY <1>1, <1>4, <1>6 DEF TypeOK
<1>10. w.was = c /\ w.sims = sims /\ w.to = d
  BY <1>3, <1>6
<1>11. Stored(m, c)' /\ Held' /\ view'.on
  BY <1>4, <1>7 DEF Stored, Held, guider, view
<1>12. Driven(m, c)'
  BY <1>1, <1>2, <1>4, <1>7, DrivenStays
<1>13. /\ devices'[w.new[1]].open = FALSE /\ devices'[w.new[1]].driver = d
       /\ devices'[w.new[2]].open = FALSE /\ devices'[w.new[2]].driver = d
  BY <1>2, <1>3 DEF Device
<1>14. OnlyOn({w.new[1], w.new[2]})'
  <2>1. ASSUME NEW i \in 1..Len(devices'), devices'[i].open
        PROVE  \E role \in Roles : registry'[role] = i
    <3>1. i \in Numbers
      BY <1>1, <1>2, <1>3, <1>13, <2>1, Lengths DEF Numbers
    <3> QED
      BY <1>2, <1>4, <1>7, <2>1, <3>1 DEF OnlyOn
  <2> QED
    BY <1>4, <1>7, <2>1 DEF OnlyOn, Numbers
<1>15. Drawn(sims, c)'
  <2>1. sims \subseteq DOMAIN source
    BY <1>1, <1>6 DEF TypeOK
  <2>2. \A s \in sims : source'[s] = registry["mount"]
    BY <1>2, <1>7, <2>1 DEF Drawn
  <2> QED
    BY <1>4, <1>7, <2>2 DEF Drawn
<1>16. /\ sensors' = IF d = Simulator THEN {w.new[1], w.new[2]} ELSE {}
       /\ \A s \in sensors' : source'[s] = registry'["mount"]
  BY <1>2, <1>3, <1>4
<1>17. CameraStage(w)'
  BY <1>3, <1>4, <1>9, <1>10, <1>11, <1>12, <1>13, <1>14, <1>15, <1>16 DEF CameraStage
<1> QED
  BY <1>1, <1>3, <1>4, <1>5, <1>8, <1>17, TurnOfOne DEF Becomes

\* A switch of the cameras, spelled out over what a step does not change.
LEMMA CameraStageIs ==
  ASSUME RigInv, TurnInv, ~overlapped, NEW p \in Requesters, works[p].kind = "camera",
         NEW o, o = works[p]
  PROVE  /\ process = "runs" /\ Alone(p) /\ TypeOK /\ works[p] # Idle /\ CameraStage(o)
         /\ driver.camera = o.to /\ Stored(driver.mount, o.was) /\ Driven(driver.mount, o.was)
         /\ Held /\ Drawn(o.sims, o.was) /\ OnlyOn({o.new[1], o.new[2]})
         /\ o.old[1] = registry["camera"] /\ o.old[2] = registry["guide"]
         /\ sensors = IF o.to = Simulator THEN {o.new[1], o.new[2]} ELSE {}
         /\ \A s \in sensors : source[s] = registry["mount"]
         /\ devices[o.new[1]].driver = o.to /\ devices[o.new[2]].driver = o.to
         /\ view.on <=> o.pc \in {"connect", "connect guide", "undo"}
         /\ o.pc \in {"stop", "release"} => ~guider.view
         /\ o.pc = "release" => ~guider.loop
         /\ o.new[1] \in Numbers /\ o.new[2] \in Numbers /\ o.new[1] # o.new[2]
         /\ o.old[1] \in Numbers /\ o.old[2] \in Numbers /\ o.old[1] # o.old[2]
<1>1. TypeOK /\ works[p] # Idle
  BY Kinds DEF RigInv
<1>2. process = "runs" /\ Alone(p) /\ CameraStage(o)
  BY <1>1, InASwitch
<1>3. /\ o.new[1] \in Numbers /\ o.new[2] \in Numbers /\ o.new[1] # o.new[2]
      /\ o.old[1] \in Numbers /\ o.old[2] \in Numbers /\ o.old[1] # o.old[2]
  BY <1>1, CameraParts
<1> QED
  BY <1>1, <1>2, <1>3 DEF CameraStage

\* Its steps up to the release of the old ones: what is left of the stage.
LEMMA CameraGoesOn ==
  ASSUME TypeOK, NEW p \in Requesters, Alone(p), NEW o, CameraStage(o),
         o.new[1] \in Numbers, o.new[2] \in Numbers,
         NEW w, Advances(p, w), w.kind = "camera",
         w.new = o.new, w.old = o.old, w.was = o.was, w.sims = o.sims, w.to = o.to,
         DevicesStay, Len(devices') = Len(devices),
         UNCHANGED <<registry, driver, rate, state, source, sensors, guiders>>, process' = "runs",
         \A d \in Numbers : devices'[d].rate = devices[d].rate,
         \A d \in Numbers : devices'[d].open => devices[d].open \/ d \in {o.new[1], o.new[2]},
         Len(views') = Len(views), \A v \in DOMAIN views : views'[v].camera = views[v].camera,
         \A v \in DOMAIN views' : views'[v].on => v = Len(views'),
         w.pc \in {"connect guide", "undo", "view"},
         view'.on <=> w.pc \in {"connect", "connect guide", "undo"}
  PROVE  TurnInv'
<1>1. /\ driver.camera = o.to /\ Stored(driver.mount, o.was) /\ Driven(driver.mount, o.was)
      /\ Held /\ Drawn(o.sims, o.was) /\ OnlyOn({o.new[1], o.new[2]})
      /\ o.old[1] = registry["camera"] /\ o.old[2] = registry["guide"]
      /\ sensors = IF o.to = Simulator THEN {o.new[1], o.new[2]} ELSE {}
      /\ \A s \in sensors : source[s] = registry["mount"]
      /\ devices[o.new[1]].driver = o.to /\ devices[o.new[2]].driver = o.to
  BY DEF CameraStage
<1>2. PICK m : m = driver.mount /\ m = driver'.mount
  OBVIOUS
<1>3. Stored(m, o.was)' /\ Driven(m, o.was)' /\ Drawn(o.sims, o.was)'
  <2>1. Stored(m, o.was)' /\ Drawn(o.sims, o.was)'
    BY <1>1, <1>2 DEF Stored, Drawn
  <2>2. Driven(m, o.was)'
    BY <1>1, <1>2, DrivenStays
  <2> QED
    BY <2>1, <2>2
<1>4. Held'
  <2>1. view'.camera = view.camera /\ guider' = guider
    BY <1>1, Lengths DEF view, guider
  <2> QED
    BY <1>1, <2>1 DEF Held
<1>5. OnlyOn({o.new[1], o.new[2]})'
  BY <1>1 DEF OnlyOn, Numbers
<1>6. devices'[o.new[1]].driver = o.to /\ devices'[o.new[2]].driver = o.to
  BY <1>1 DEF DevicesStay
<1>7. CameraStage(w)'
  BY <1>1, <1>2, <1>3, <1>4, <1>5, <1>6 DEF CameraStage
<1> QED
  BY <1>7, TurnOfOne

LEMMA CamerasAnswerTurn ==
  ASSUME RigInv, TurnInv, NEW p \in Requesters, CamerasAnswer(p), ~overlapped'
  PROVE  TurnInv'
<1>1. works[p].kind = "camera" /\ ~overlapped
  BY DEF CamerasAnswer
<1>2. UNCHANGED <<registry, driver, rate, state, source, sensors, guiders, process>> /\ SourcesStay
  BY DEF CamerasAnswer, SourcesStay
<1>3. PICK o, a, b : o = works[p] /\ a = o.new[1] /\ b = o.new[2]
  OBVIOUS
<1>4. TypeOK
  BY DEF RigInv
<1>5. process' = "runs" /\ Alone(p) /\ CameraStage(o) /\ o.new[1] \in Numbers /\ o.new[2] \in Numbers
  BY <1>1, <1>2, <1>3, CameraStageIs
<1>6. /\ a \in Numbers /\ b \in Numbers /\ OnlyOn({a, b})
      /\ view.on <=> o.pc \in {"connect", "connect guide", "undo"}
  BY <1>1, <1>3, CameraStageIs
<1>7. /\ \A v \in DOMAIN views : views[v].on => v = Len(views)
      /\ Len(views) \in DOMAIN views /\ DOMAIN views = 1..Len(views)
  BY <1>4, <1>6, Lengths DEF OnlyOn
<1>8. CASE o.pc = "connect" /\ devices' = Opened(a, TRUE)
           /\ Advances(p, [works[p] EXCEPT !.pc = "connect guide"]) /\ UNCHANGED views
  <2>1. /\ DevicesStay /\ Len(devices') = Len(devices)
        /\ \A d \in Numbers : /\ devices'[d].rate = devices[d].rate
                              /\ devices'[d].open = IF d = a THEN TRUE ELSE devices[d].open
    BY <1>4, <1>6, <1>8, OpenedOne
  <2>2. DevicesStay
    BY <2>1
  <2>3. PICK pc : pc = "connect guide"
    OBVIOUS
  <2>4. Advances(p, Moved(works[p], pc)) /\ MayGo(works[p], pc)
    BY <1>1, <1>8, <2>3 DEF Moved, MayGo
  <2>5. PICK w : /\ Becomes(p, w) /\ w.pc = pc /\ w.kind = works[p].kind /\ w.new = works[p].new
                 /\ w.old = works[p].old /\ w.was = works[p].was /\ w.sims = works[p].sims /\ w.to = works[p].to
    BY <1>2, <1>4, <2>2, <2>4, GoesOn
  <2>6. view'.on <=> w.pc \in {"connect", "connect guide", "undo"}
    BY <1>6, <1>8, <2>3, <2>5 DEF view
  <2>7. \A d \in Numbers : devices'[d].open => devices[d].open \/ d \in {o.new[1], o.new[2]}
    BY <1>3, <2>1
  <2>8. /\ Len(views') = Len(views) /\ \A v \in DOMAIN views : views'[v].camera = views[v].camera
        /\ \A v \in DOMAIN views' : views'[v].on => v = Len(views')
    BY <1>7, <1>8
  <2>9. Len(devices') = Len(devices) /\ \A d \in Numbers : devices'[d].rate = devices[d].rate
    BY <2>1
  <2>10. /\ Advances(p, w) /\ w.kind = "camera" /\ w.new = o.new /\ w.old = o.old /\ w.was = o.was
        /\ w.sims = o.sims /\ w.to = o.to /\ w.pc \in {"connect guide", "undo", "view"}
    BY <1>1, <1>3, <2>3, <2>5 DEF Becomes
  <2> QED
    BY <1>2, <1>5, <1>4, <2>2, <2>6, <2>7, <2>8, <2>9, <2>10, CameraGoesOn
<1>9. CASE o.pc = "connect guide" /\ devices' = Opened(b, TRUE)
           /\ views' = [views EXCEPT ![Len(views)].on = FALSE]
           /\ Advances(p, [works[p] EXCEPT !.pc = "view"])
  <2>1. /\ DevicesStay /\ Len(devices') = Len(devices)
        /\ \A d \in Numbers : /\ devices'[d].rate = devices[d].rate
                              /\ devices'[d].open = IF d = b THEN TRUE ELSE devices[d].open
    BY <1>4, <1>6, <1>9, OpenedOne
  <2>2. Advances(p, Moved(works[p], "view")) /\ MayGo(works[p], "view")
    BY <1>1, <1>9 DEF Moved, MayGo
  <2>3. PICK w : /\ Becomes(p, w) /\ w.pc = "view" /\ w.kind = works[p].kind /\ w.new = works[p].new
                 /\ w.old = works[p].old /\ w.was = works[p].was /\ w.sims = works[p].sims /\ w.to = works[p].to
    BY <1>2, <1>4, <2>1, <2>2, GoesOn
  <2>4. /\ views' \in Seq(ViewType) /\ Len(views') = Len(views)
        /\ \A v \in DOMAIN views : /\ views'[v].camera = views[v].camera
                                   /\ views'[v].on = IF v = Len(views) THEN FALSE ELSE views[v].on
    BY <1>4, <1>9, ViewSet
  <2>5. ~view'.on /\ \A v \in DOMAIN views' : views'[v].on => v = Len(views')
    <3>1. DOMAIN views' = DOMAIN views
      BY <1>7, <2>4
    <3> QED
      BY <1>7, <2>4, <3>1 DEF view
  <2>6. view'.on <=> w.pc \in {"connect", "connect guide", "undo"}
    BY <2>3, <2>5
  <2>7. \A d \in Numbers : devices'[d].open => devices[d].open \/ d \in {o.new[1], o.new[2]}
    BY <1>3, <2>1
  <2> QED
    BY <1>1, <1>2, <1>3, <1>5, <1>4, <2>1, <2>3, <2>4, <2>5, <2>6, <2>7, CameraGoesOn DEF Becomes
<1>10. CASE o.pc \in {"connect", "connect guide"} /\ Advances(p, [works[p] EXCEPT !.pc = "undo"])
           /\ UNCHANGED <<devices, views>>
  <2>1. DevicesStay
    BY <1>4, <1>10, SameDevices
  <2>2. Advances(p, Moved(works[p], "undo")) /\ MayGo(works[p], "undo")
    BY <1>1, <1>10 DEF Moved, MayGo
  <2>3. PICK w : /\ Becomes(p, w) /\ w.pc = "undo" /\ w.kind = works[p].kind /\ w.new = works[p].new
                 /\ w.old = works[p].old /\ w.was = works[p].was /\ w.sims = works[p].sims /\ w.to = works[p].to
    BY <1>2, <1>4, <2>1, <2>2, GoesOn
  <2>4. view'.on <=> w.pc \in {"connect", "connect guide", "undo"}
    BY <1>6, <1>10, <2>3 DEF view
  <2> QED
    BY <1>1, <1>2, <1>3, <1>5, <1>4, <1>7, <1>10, <2>1, <2>3, <2>4, CameraGoesOn DEF Becomes
<1> QED
  BY <1>3, <1>8, <1>9, <1>10 DEF CamerasAnswer

LEMMA CamerasUndoneTurn ==
  ASSUME RigInv, TurnInv, NEW p \in Requesters, CamerasUndone(p), ~overlapped'
  PROVE  TurnInv'
<1>1. works[p].kind = "camera" /\ works[p].pc = "undo" /\ ~overlapped
  BY DEF CamerasUndone, Busy
<1>2. PICK o, a, b, m, c : o = works[p] /\ a = o.new[1] /\ b = o.new[2] /\ m = driver.mount /\ c = o.was
  OBVIOUS
<1>3. /\ UNCHANGED <<registry, rate, state, source, guiders, views, process>>
      /\ driver' = [driver EXCEPT !.camera = c] /\ sensors' = o.sims
      /\ Advances(p, Idle) /\ Closes(a, b)
  BY <1>2 DEF CamerasUndone, services, Closes
<1>4. /\ process = "runs" /\ Alone(p) /\ TypeOK
      /\ Stored(m, c) /\ Driven(m, c) /\ Held /\ Drawn(o.sims, c) /\ OnlyOn({a, b})
      /\ a \in Numbers /\ b \in Numbers /\ a # b
      /\ view.on <=> o.pc \in {"connect", "connect guide", "undo"}
  BY <1>1, <1>2, CameraStageIs
<1>5. /\ DevicesStay /\ Len(devices') = Len(devices)
      /\ \A d \in Numbers : /\ devices'[d].rate = devices[d].rate
                            /\ devices'[d].open = IF d \in {a, b} THEN FALSE ELSE devices[d].open
  BY <1>3, <1>4, ClosedTwo
<1>6. driver'.mount = m /\ driver'.camera = c
  BY <1>2, <1>3, <1>4 DEF TypeOK
<1>7. Stored(m, c)' /\ Held' /\ view'.on
  BY <1>1, <1>2, <1>3, <1>4 DEF Stored, Held, guider, view
<1>8. Driven(m, c)'
  BY <1>3, <1>4, <1>5, DrivenStays
<1>9. Drawn(o.sims, c)'
  BY <1>3, <1>4 DEF Drawn
<1>10. OnlyOn({})'
  BY <1>3, <1>4, <1>5 DEF OnlyOn, Numbers
<1>11. InPlace'
  BY <1>3, <1>6, <1>7, <1>8, <1>9, <1>10 DEF InPlace
<1> QED
  BY <1>3, <1>4, <1>11, TurnIsOver

LEMMA CamerasReleasedTurn ==
  ASSUME RigInv, TurnInv, NEW p \in Requesters, CamerasReleased(p), ~overlapped'
  PROVE  TurnInv'
<1>1. works[p].kind = "camera" /\ works[p].pc = "release" /\ ~overlapped
  BY DEF CamerasReleased, Busy
<1>2. PICK o, a, b, y, z, m, c :
        /\ o = works[p] /\ a = o.new[1] /\ b = o.new[2] /\ y = o.old[1] /\ z = o.old[2]
        /\ m = driver.mount /\ c = o.to
  OBVIOUS
<1>3. /\ UNCHANGED <<driver, rate, sensors, source, process>>
      /\ registry' = [registry EXCEPT !["camera"] = a, !["guide"] = b]
      /\ guiders' = Append(guiders, NewGuider(registry', TRUE)) /\ views' = Append(views, NewView(registry'))
      /\ state' = [state EXCEPT !.camera = c] /\ Advances(p, Idle) /\ Closes(y, z)
  BY <1>2 DEF CamerasReleased, Closes
<1>4. /\ process = "runs" /\ Alone(p) /\ TypeOK
      /\ driver.camera = c /\ Stored(m, o.was) /\ Driven(m, o.was)
      /\ Held /\ OnlyOn({a, b})
      /\ y = registry["camera"] /\ z = registry["guide"]
      /\ sensors = IF c = Simulator THEN {a, b} ELSE {}
      /\ \A s \in sensors : source[s] = registry["mount"]
      /\ devices[a].driver = c /\ devices[b].driver = c
      /\ ~view.on /\ ~guider.view /\ ~guider.loop
      /\ a \in Numbers /\ b \in Numbers /\ y \in Numbers /\ z \in Numbers /\ y # z
  <2>1. works[p].kind = "camera" /\ o = works[p] /\ o.pc = "release"
    BY <1>1, <1>2
  <2>2. /\ process = "runs" /\ Alone(p) /\ TypeOK
        /\ driver.camera = o.to /\ Stored(driver.mount, o.was) /\ Driven(driver.mount, o.was)
        /\ Held /\ OnlyOn({o.new[1], o.new[2]})
        /\ o.old[1] = registry["camera"] /\ o.old[2] = registry["guide"]
        /\ sensors = IF o.to = Simulator THEN {o.new[1], o.new[2]} ELSE {}
    BY <1>1, <2>1, CameraStageIs
  <2>3. /\ \A s \in sensors : source[s] = registry["mount"]
        /\ devices[o.new[1]].driver = o.to /\ devices[o.new[2]].driver = o.to
        /\ ~view.on /\ ~guider.view /\ ~guider.loop
        /\ o.new[1] \in Numbers /\ o.new[2] \in Numbers
        /\ o.old[1] \in Numbers /\ o.old[2] \in Numbers /\ o.old[1] # o.old[2]
    BY <1>1, <2>1, CameraStageIs
  <2> QED
    BY <1>2, <2>2, <2>3
<1>5. /\ DevicesStay /\ Len(devices') = Len(devices)
      /\ \A d \in Numbers : /\ devices'[d].rate = devices[d].rate
                            /\ devices'[d].open = IF d \in {y, z} THEN FALSE ELSE devices[d].open
  BY <1>3, <1>4, ClosedTwo
<1>6. registry'["camera"] = a /\ registry'["guide"] = b /\ registry'["mount"] = registry["mount"]
  BY <1>3, <1>4, RoleNames DEF TypeOK
<1>7. registry' \in [Roles -> 1..Len(devices')]
  <2>1. registry \in [Roles -> Nat] /\ registry["mount"] \in Numbers /\ Numbers = 1..Len(devices') /\ DOMAIN registry = Roles
    BY <1>4, <1>5, RoleNames DEF TypeOK, Filled, Numbers
  <2>2. DOMAIN registry' = Roles /\ registry' = [r \in Roles |-> registry'[r]]
    BY <1>3, <2>1
  <2>3. \A role \in Roles : registry'[role] \in 1..Len(devices')
    BY <1>4, <1>6, <2>1 DEF Roles
  <2> QED
    BY <2>2, <2>3
<1>8. /\ Len(guiders') = Len(guiders) + 1
      /\ guiders'[Len(guiders')] = NewGuider(registry', TRUE)
      /\ \A g \in DOMAIN guiders : guiders'[g] = guiders[g]
      /\ guiders' \in Seq([mount : 1..Len(devices'), camera : 1..Len(devices'), view : BOOLEAN, loop : BOOLEAN])
  BY <1>3, <1>4, <1>5, <1>7, GuiderMade
<1>9. /\ Len(views') = Len(views) + 1 /\ views'[Len(views')] = NewView(registry')
      /\ \A v \in DOMAIN views : views'[v] = views[v]
      /\ DOMAIN views' = 1..Len(views') /\ DOMAIN views = 1..Len(views) /\ Len(views) \in Nat
  <2>1. views \in Seq(ViewType) /\ NewView(registry') \in ViewType
    BY <1>4, <1>6 DEF TypeOK, ViewType, NewView
  <2> QED
    BY <1>3, <2>1
<1>10. Held' /\ view'.on
  BY <1>8, <1>9 DEF Held, guider, view, NewGuider, NewView
<1>11. \A g \in DOMAIN guiders' : guiders'[g].loop \/ guiders'[g].view => g = Len(guiders')
  <2>1. \A g \in DOMAIN guiders : ~guiders[g].loop /\ ~guiders[g].view
    BY <1>4, Lengths DEF OnlyOn, guider
  <2>2. \A g \in DOMAIN guiders' : g \in DOMAIN guiders \/ g = Len(guiders')
    BY <1>4, <1>8, Lengths
  <2> QED
    BY <1>8, <2>1, <2>2
<1>12. \A v \in DOMAIN views' : views'[v].on => v = Len(views')
  <2>1. \A v \in DOMAIN views : ~views[v].on
    BY <1>4, Lengths DEF OnlyOn, view
  <2>2. \A v \in DOMAIN views' : v \in DOMAIN views \/ v = Len(views')
    BY <1>9
  <2> QED
    BY <1>9, <2>1, <2>2
<1>13. ASSUME NEW d \in Numbers, devices'[d].open
       PROVE  \E role \in Roles : registry'[role] = d
  <2>1. d \notin {y, z} /\ devices[d].open
    BY <1>5, <1>13
  <2>2. d \in {a, b} \/ d = registry["mount"]
    BY <1>4, <2>1 DEF OnlyOn, Roles
  <2> QED
    BY <1>6, <2>2, RoleNames
<1>14. OnlyOn({})'
  BY <1>5, <1>11, <1>12, <1>13 DEF OnlyOn, Numbers
<1>15. Stored(m, c)'
  <2>1. state \in [mount : MountDrivers, camera : CameraDrivers, rate : Rates] /\ state.mount = m /\ state.rate = rate
    BY <1>4 DEF TypeOK, Stored
  <2> QED
    BY <1>3, <2>1 DEF Stored
<1>16. Driven(m, c)'
  <2>1. registry["mount"] \in Numbers
    BY <1>4, RoleNames DEF TypeOK, Filled
  <2>2. /\ devices'[registry["mount"]].driver = m /\ devices'[registry["mount"]].rate = RateOf(m, rate')
        /\ devices'[a].driver = c /\ devices'[b].driver = c
    BY <1>3, <1>4, <1>5, <2>1 DEF Driven, DevicesStay
  <2> QED
    BY <1>6, <2>2 DEF Driven
<1>17. Drawn(sensors, c)'
  BY <1>3, <1>4, <1>6 DEF Drawn
<1>18. InPlace'
  BY <1>2, <1>3, <1>4, <1>10, <1>14, <1>15, <1>16, <1>17 DEF InPlace
<1> QED
  BY <1>3, <1>4, <1>18, TurnIsOver

\* Another request, while nobody switches.
LEMMA NobodySwitchesStill ==
  ASSUME TypeOK, ~Switching, NEW p \in Requesters, NEW w, Advances(p, w), w.kind \notin Switches,
         process' = "runs", InPlace', UpToDate(w)',
         \A v : UpToDate(v) => UpToDate(v)', \A q \in Requesters : UpToDate(works[q])
  PROVE  TurnInv'
<1>1. works'[p] = w /\ \A q \in Requesters : q # p => works'[q] = works[q]
  BY Advanced
<1>2. \A q \in Requesters : works'[q].kind \notin Switches
  BY <1>1 DEF Switching
<1>3. ASSUME NEW q \in Requesters PROVE UpToDate(works[q])'
  <2>1. PICK v : v = works'[q]
    OBVIOUS
  <2>2. UpToDate(v)'
    <3>1. CASE q = p
      BY <1>1, <2>1, <3>1 DEF UpToDate
    <3>2. CASE q # p
      BY <1>1, <2>1, <3>2
    <3> QED
      BY <3>1, <3>2
  <2> QED
    BY <2>1, <2>2 DEF UpToDate
<1> QED
  BY <1>2, <1>3, TurnToNobody DEF Steady

LEMMA ConnectTurn ==
  ASSUME RigInv, TurnInv, NEW p \in Requesters, NEW role \in Roles, Connect(p, role), ~overlapped'
  PROVE  TurnInv'
<1>1. Comes(FALSE) /\ UNCHANGED <<devices, registry, driver, rate, state, sensors, source, guiders, views, process>>
  BY DEF Connect, settings, services
<1>2. TypeOK /\ process = "runs" /\ ~overlapped /\ ~Switching
  BY <1>1 DEF RigInv, Comes
<1>3. Steady
  BY <1>2, NobodySwitches
<1>4. PICK w : Advances(p, w) /\ w.kind \in {"connect", "disconnect"} /\ w.of = registry[role] /\ w.role = role
  BY DEF Connect
<1>5. InPlace'
  BY <1>1, <1>3 DEF Steady, InPlace, Stored, Driven, Held, Drawn, OnlyOn, view, guider, Numbers
<1>6. UpToDate(w)' /\ (\A v : UpToDate(v) => UpToDate(v)') /\ w.kind \notin Switches
  BY <1>1, <1>4 DEF UpToDate, Switches
<1> QED
  BY <1>1, <1>2, <1>3, <1>4, <1>5, <1>6, NobodySwitchesStill DEF Steady

LEMMA StartGuidingTurn ==
  ASSUME RigInv, TurnInv, NEW p \in Requesters, StartGuiding(p), ~overlapped'
  PROVE  TurnInv'
<1>1. Comes(FALSE) /\ UNCHANGED <<devices, registry, driver, rate, state, sensors, source, guiders, views, process>>
  BY DEF StartGuiding, settings, services
<1>2. TypeOK /\ process = "runs" /\ ~overlapped /\ ~Switching
  BY <1>1 DEF RigInv, Comes
<1>3. Steady
  BY <1>2, NobodySwitches
<1>4. PICK w : Advances(p, w) /\ w.kind = "guide" /\ w.of = Len(guiders)
  BY DEF StartGuiding
<1>5. InPlace'
  BY <1>1, <1>3 DEF Steady, InPlace, Stored, Driven, Held, Drawn, OnlyOn, view, guider, Numbers
<1>6. UpToDate(w)' /\ (\A v : UpToDate(v) => UpToDate(v)') /\ w.kind \notin Switches
  BY <1>1, <1>4 DEF UpToDate, Switches
<1> QED
  BY <1>1, <1>2, <1>3, <1>4, <1>5, <1>6, NobodySwitchesStill DEF Steady

\* A request that is no switch is under way: then nobody switches.
LEMMA AnotherRequest ==
  ASSUME RigInv, TurnInv, ~overlapped, NEW p \in Requesters, works[p].kind \in {"connect", "disconnect", "guide"}
  PROVE  TypeOK /\ process = "runs" /\ ~Switching /\ Steady
<1>1. works[p] # Idle /\ works[p].kind \notin Switches
  BY Kinds DEF Switches
<1> QED
  BY <1>1, InASwitch, NobodySwitches DEF RigInv

LEMMA OverIsUpToDate == UpToDate(Idle)' /\ Idle.kind \notin Switches
BY Kinds DEF UpToDate, Switches

LEMMA ConnectedTurn ==
  ASSUME RigInv, TurnInv, NEW p \in Requesters, Connected(p), ~overlapped'
  PROVE  TurnInv'
<1>1. /\ UNCHANGED <<registry, driver, rate, state, sensors, source, guiders, views, process>>
      /\ ~overlapped /\ works[p].kind \in {"connect", "disconnect"} /\ Advances(p, Idle)
  BY DEF Connected, settings, services, Busy
<1>2. TypeOK /\ process = "runs" /\ ~Switching /\ Steady
  BY <1>1, AnotherRequest
<1> DEFINE d == works[p].of
<1>3. d \in Numbers /\ \E role \in Roles : registry[role] = d
  <2>1. d \in Numbers /\ works[p].role \in Roles
    BY <1>1, <1>2, WorksAre DEF OtherWorks, Filled
  <2>2. d = registry[works[p].role]
    BY <1>1, <1>2 DEF Steady, UpToDate
  <2> QED
    BY <2>1, <2>2
<1> HIDE DEF d
<1>4. PICK m, c : m = driver.mount /\ c = driver.camera /\ m = driver'.mount /\ c = driver'.camera
  BY <1>1
<1>5. Stored(m, c) /\ Driven(m, c) /\ Held /\ Drawn(sensors, c) /\ OnlyOn({}) /\ view.on
  BY <1>2, <1>4 DEF Steady, InPlace
<1>6. /\ DevicesStay /\ Len(devices') = Len(devices) /\ \A i \in Numbers : devices'[i].rate = devices[i].rate
      /\ \A i \in Numbers : devices'[i].open => devices[i].open \/ i = d
  <2>1. CASE devices' = devices
    BY <1>2, <2>1, SameDevices
  <2>2. ASSUME NEW yes \in BOOLEAN, devices' = Opened(d, yes)
        PROVE  /\ DevicesStay /\ Len(devices') = Len(devices) /\ \A i \in Numbers : devices'[i].rate = devices[i].rate
               /\ \A i \in Numbers : devices'[i].open => devices[i].open \/ i = d
    BY <1>2, <1>3, <2>2, OpenedOne
  <2> QED
    BY <2>1, <2>2 DEF Connected, d
<1>7. Stored(m, c)' /\ Held' /\ Drawn(sensors, c)' /\ view'.on
  BY <1>1, <1>5 DEF Stored, Held, Drawn, view, guider
<1>8. Driven(m, c)'
  BY <1>1, <1>2, <1>5, <1>6, DrivenStays
<1>9. OnlyOn({})'
  BY <1>1, <1>3, <1>5, <1>6 DEF OnlyOn, Numbers
<1>10. InPlace'
  BY <1>4, <1>7, <1>8, <1>9 DEF InPlace
<1>11. \A v : UpToDate(v) => UpToDate(v)'
  BY <1>1 DEF UpToDate
<1> QED
  BY <1>1, <1>2, <1>10, <1>11, OverIsUpToDate, NobodySwitchesStill DEF Steady

LEMMA GuidingStartsTurn ==
  ASSUME RigInv, TurnInv, NEW p \in Requesters, GuidingStarts(p), ~overlapped'
  PROVE  TurnInv'
<1>1. /\ UNCHANGED <<devices, registry, driver, rate, state, sensors, source, views, process>>
      /\ ~overlapped /\ works[p].kind = "guide" /\ Advances(p, Idle)
      /\ guiders' = [guiders EXCEPT ![works[p].of].loop = TRUE]
  BY DEF GuidingStarts, settings, Busy
<1>2. TypeOK /\ process = "runs" /\ ~Switching /\ Steady
  BY <1>1, AnotherRequest
<1>3. works[p].of = Len(guiders) /\ Len(guiders) \in DOMAIN guiders
  BY <1>1, <1>2, Lengths DEF Steady, UpToDate
<1>4. /\ Len(guiders') = Len(guiders) /\ DOMAIN guiders' = DOMAIN guiders
      /\ \A g \in DOMAIN guiders :
           /\ guiders'[g].mount = guiders[g].mount /\ guiders'[g].camera = guiders[g].camera
           /\ guiders'[g].view = guiders[g].view
           /\ guiders'[g].loop = IF g = Len(guiders) THEN TRUE ELSE guiders[g].loop
  BY <1>1, <1>2, <1>3, LoopSet
<1>5. Held'
  BY <1>1, <1>2, <1>4, HeldStays DEF Steady, InPlace
<1>6. OnlyOn({})'
  BY <1>1, <1>2, <1>4 DEF OnlyOn, Numbers, Steady, InPlace
<1>7. InPlace'
  BY <1>1, <1>2, <1>5, <1>6 DEF Steady, InPlace, Stored, Driven, Drawn, view
<1>8. \A v : UpToDate(v) => UpToDate(v)'
  BY <1>1, <1>4 DEF UpToDate
<1> QED
  BY <1>1, <1>2, <1>7, <1>8, OverIsUpToDate, NobodySwitchesStill DEF Steady

LEMMA SetRateTurn ==
  ASSUME RigInv, TurnInv, NEW r \in Rates, SetRate(r), ~overlapped'
  PROVE  TurnInv'
<1>1. /\ Comes(FALSE) /\ rate' = r
      /\ devices' = [devices EXCEPT ![registry["mount"]].rate = RateOf(devices[registry["mount"]].driver, r)]
      /\ UNCHANGED <<registry, driver, sensors, source, guiders, views, works, process>>
      /\ state' = [state EXCEPT !.mount = driver.mount, !.rate = r]
  BY DEF SetRate, services
<1>2. TypeOK /\ process = "runs" /\ ~overlapped /\ ~Switching
  BY <1>1 DEF RigInv, Comes
<1>3. Steady
  BY <1>2, NobodySwitches
<1>4. PICK m, c : m = driver.mount /\ c = driver.camera /\ m = driver'.mount /\ c = driver'.camera
  BY <1>1
<1>5. Stored(m, c) /\ Driven(m, c) /\ Held /\ Drawn(sensors, c) /\ OnlyOn({}) /\ view.on
  BY <1>3, <1>4 DEF Steady, InPlace
<1>6. registry["mount"] \in Numbers /\ RateOf(m, r) \in Rates \cup {None} /\ devices[registry["mount"]].driver = m
  BY <1>2, <1>5, RoleNames DEF TypeOK, Filled, RateOf, Driven
<1>7. /\ DevicesStay /\ Len(devices') = Len(devices)
      /\ \A d \in Numbers : /\ devices'[d].open = devices[d].open
                            /\ devices'[d].rate = IF d = registry["mount"] THEN RateOf(m, r) ELSE devices[d].rate
  BY <1>1, <1>2, <1>6, RateSet
<1>8. Stored(m, c)'
  <2>1. state \in [mount : MountDrivers, camera : CameraDrivers, rate : Rates] /\ state.camera = c
    BY <1>2, <1>5 DEF TypeOK, Stored
  <2> QED
    BY <1>1, <1>4, <2>1 DEF Stored
<1>9. Driven(m, c)'
  <2>1. \A role \in Roles : registry[role] \in Numbers
    BY <1>2 DEF TypeOK, Filled
  <2>2. \A role \in Roles : devices'[registry[role]].driver = devices[registry[role]].driver
    BY <1>7, <2>1 DEF DevicesStay
  <2>3. devices'[registry["mount"]].rate = RateOf(m, r)
    BY <1>6, <1>7
  <2> QED
    BY <1>1, <1>5, <2>2, <2>3 DEF Driven, Roles
<1>10. OnlyOn({})'
  BY <1>1, <1>5, <1>7 DEF OnlyOn, Numbers
<1>11. Held' /\ Drawn(sensors, c)' /\ view'.on
  BY <1>1, <1>5 DEF Held, Drawn, view, guider
<1>12. InPlace'
  BY <1>1, <1>4, <1>8, <1>9, <1>10, <1>11 DEF InPlace
<1>13. \A q \in Requesters : UpToDate(works[q])' /\ works'[q].kind \notin Switches
  BY <1>1, <1>2, <1>3 DEF Steady, UpToDate, Switching
<1> QED
  BY <1>1, <1>2, <1>12, <1>13, TurnToNobody DEF Steady

LEMMA ShutdownTurn ==
  ASSUME RigInv, TurnInv, Shutdown, ~overlapped'
  PROVE  TurnInv'
<1>1. process = "runs" /\ Quiet /\ process' = "shut" /\ ~overlapped /\ TypeOK
  BY DEF RigInv, Shutdown
<1>2. ~Switching
  BY <1>1, Kinds DEF Quiet, Switching, Switches
<1>3. OnlyOn({})
  BY <1>1, <1>2, NobodySwitches DEF Steady, InPlace
<1>4. /\ Len(devices') = Len(devices)
      /\ \A d \in Numbers : devices'[d].open = IF \E role \in Roles : registry[role] = d THEN FALSE
                                               ELSE devices[d].open
      /\ DOMAIN guiders' = DOMAIN guiders
      /\ \A g \in DOMAIN guiders : /\ guiders'[g].view = IF g = Len(guiders) THEN FALSE ELSE guiders[g].view
                                   /\ guiders'[g].loop = IF g = Len(guiders) THEN FALSE ELSE guiders[g].loop
      /\ DOMAIN views' = DOMAIN views
      /\ \A v \in DOMAIN views : views'[v].on = IF v = Len(views) THEN FALSE ELSE views[v].on
  BY <1>1, ShutdownDoes
<1>5. AllOff'
  BY <1>3, <1>4 DEF AllOff, OnlyOn, Numbers
<1> QED
  BY <1>1, <1>5 DEF TurnInv, InTurn

LEMMA StartedTurn == Started => TurnInv
<1> SUFFICES ASSUME Started PROVE TurnInv
  OBVIOUS
<1>1. PICK stored \in [mount : MountDrivers, camera : CameraDrivers, rate : Rates], answering \in SUBSET Roles :
        LET b == Built(stored, answering)
        IN /\ state = stored /\ rate = stored.rate
           /\ devices = b.devices /\ registry = b.registry /\ driver = b.driver
           /\ sensors = b.sensors /\ source = b.source
           /\ guiders = <<b.guider>> /\ views = <<b.view>>
           /\ lost = Roles \ answering /\ works = [p \in Requesters |-> Idle]
           /\ process = "runs" /\ overlapped = FALSE
           /\ asked = 0 /\ restarts \in 0..MaxRestarts
  BY DEF Started
<1> DEFINE b == Built(stored, answering)
<1>2. /\ b.devices \in Seq(DeviceType) /\ Len(b.devices) = 3
      /\ b.devices[1].driver = stored.mount /\ b.devices[2].driver = stored.camera
      /\ b.devices[3].driver = stored.camera /\ b.devices[1].rate = RateOf(stored.mount, stored.rate)
      /\ b.registry["mount"] = 1 /\ b.registry["camera"] = 2 /\ b.registry["guide"] = 3
      /\ b.driver = [mount |-> stored.mount, camera |-> stored.camera]
      /\ b.sensors = (IF stored.camera = Simulator THEN {2, 3} ELSE {})
      /\ b.source = [s \in b.sensors |-> 1]
      /\ b.guider = [mount |-> 1, camera |-> 3, view |-> TRUE, loop |-> FALSE]
      /\ b.view = [camera |-> 2, on |-> TRUE]
  BY WhatIsBuilt
<1>3. /\ devices = b.devices /\ registry = b.registry /\ driver = b.driver
      /\ sensors = b.sensors /\ source = b.source /\ guiders = <<b.guider>> /\ views = <<b.view>>
      /\ state = stored /\ rate = stored.rate /\ works = [p \in Requesters |-> Idle] /\ process = "runs"
  BY <1>1
<1> HIDE DEF b
<1>4. \A p \in Requesters : works[p] = Idle
  BY <1>3
<1>5. guider = b.guider /\ view = b.view /\ DOMAIN guiders = {1} /\ DOMAIN views = {1}
      /\ Len(guiders) = 1 /\ Len(views) = 1
  BY <1>3 DEF guider, view
<1>6. /\ driver.camera = stored.camera
      /\ registry["mount"] = 1 /\ registry["camera"] = 2 /\ registry["guide"] = 3
      /\ sensors = (IF stored.camera = Simulator THEN {2, 3} ELSE {})
      /\ source = [s \in sensors |-> 1] /\ Len(devices) = 3
  BY <1>2, <1>3
<1>7. Stored(driver.mount, driver.camera)
  BY <1>2, <1>3 DEF Stored
<1>8. Driven(driver.mount, driver.camera)
  BY <1>2, <1>3 DEF Driven
<1>9. Held /\ view.on
  BY <1>2, <1>3, <1>5 DEF Held
<1>10. Drawn(sensors, driver.camera)
  BY <1>6 DEF Drawn
<1>11. OnlyOn({})
  <2>1. \A d \in Numbers : \E role \in Roles : registry[role] = d
    BY <1>6, RoleNames DEF Numbers
  <2> QED
    BY <1>5, <2>1 DEF OnlyOn
<1>12. InPlace
  BY <1>7, <1>8, <1>9, <1>10, <1>11 DEF InPlace
<1>13. \A p \in Requesters : UpToDate(works[p]) /\ works[p].kind \notin Switches
  BY <1>4, Kinds DEF UpToDate, Switches
<1> QED
  BY <1>3, <1>12, <1>13 DEF TurnInv, InTurn, Steady, Switches

LEMMA StartedInTurn == Started' => TurnInv'
BY StartedTurn, PTL

LEMMA TurnKept == RigInv /\ TurnInv /\ [Next]_vars => TurnInv'
<1> SUFFICES ASSUME RigInv, TurnInv, [Next]_vars, ~overlapped' PROVE TurnInv'
  BY DEF TurnInv
<1>1. CASE UNCHANGED vars
  <2>1. UNCHANGED <<devices, registry, driver, rate, state, sensors, source, guiders, views, works, process, overlapped>>
    BY <1>1 DEF vars
  <2>2. Switching' <=> Switching
    BY <2>1 DEF Switching
  <2>3. Steady => Steady'
    BY <2>1 DEF Steady, InPlace, Stored, Driven, Held, Drawn, OnlyOn, view, guider, Numbers, UpToDate
  <2>4. \A p \in Requesters : /\ MountStage(works[p]) => MountStage(works[p])'
                              /\ Alone(p) => Alone(p)'
    BY <2>1 DEF MountStage, Stored, Driven, Held, Drawn, OnlyOn, view, guider, Numbers, Alone
  <2>5. \A p \in Requesters : CameraStage(works[p]) => CameraStage(works[p])'
    BY <2>1 DEF CameraStage, Stored, Driven, Held, Drawn, OnlyOn, view, guider, Numbers
  <2>6. AllOff => AllOff'
    BY <2>1 DEF AllOff, Numbers
  <2> QED
    BY <2>1, <2>2, <2>3, <2>4, <2>5, <2>6 DEF TurnInv, InTurn
<1>2. ASSUME NEW p \in Requesters, NEW d \in MountDrivers, SwitchMount(p, d) PROVE TurnInv'
  BY <1>2, SwitchMountTurn
<1>3. ASSUME NEW p \in Requesters, MountAnswers(p) PROVE TurnInv'
  BY <1>3, MountAnswersTurn
<1>4. ASSUME NEW p \in Requesters, MountReleased(p) PROVE TurnInv'
  BY <1>4, MountReleasedTurn
<1>5. ASSUME NEW p \in Requesters, GuiderStops(p) PROVE TurnInv'
  BY <1>5, GuiderStopsTurn
<1>6. ASSUME NEW p \in Requesters, MountBuilds(p) PROVE TurnInv'
  BY <1>6, MountBuildsTurn
<1>7. ASSUME NEW p \in Requesters, NEW d \in CameraDrivers, SwitchCamera(p, d) PROVE TurnInv'
  BY <1>7, SwitchCameraTurn
<1>8. ASSUME NEW p \in Requesters, CamerasAnswer(p) PROVE TurnInv'
  BY <1>8, CamerasAnswerTurn
<1>9. ASSUME NEW p \in Requesters, CamerasUndone(p) PROVE TurnInv'
  BY <1>9, CamerasUndoneTurn
<1>10. ASSUME NEW p \in Requesters, ViewStopped(p) PROVE TurnInv'
  BY <1>10, ViewStoppedTurn
<1>11. ASSUME NEW p \in Requesters, CamerasReleased(p) PROVE TurnInv'
  BY <1>11, CamerasReleasedTurn
<1>12. ASSUME NEW p \in Requesters, NEW role \in Roles, Connect(p, role) PROVE TurnInv'
  BY <1>12, ConnectTurn
<1>13. ASSUME NEW p \in Requesters, Connected(p) PROVE TurnInv'
  BY <1>13, ConnectedTurn
<1>14. ASSUME NEW p \in Requesters, StartGuiding(p) PROVE TurnInv'
  BY <1>14, StartGuidingTurn
<1>15. ASSUME NEW p \in Requesters, GuidingStarts(p) PROVE TurnInv'
  BY <1>15, GuidingStartsTurn
<1>16. CASE StopGuiding
  BY <1>16, StopGuidingTurn
<1>17. ASSUME NEW r \in Rates, SetRate(r) PROVE TurnInv'
  BY <1>17, SetRateTurn
<1>18. CASE Shutdown
  BY <1>18, ShutdownTurn
<1>19. ASSUME NEW answering \in SUBSET Roles, Restart(answering) PROVE TurnInv'
  BY <1>19, RestartIsStarted, StartedInTurn DEF RigInv
<1> QED
  BY <1>1, <1>2, <1>3, <1>4, <1>5, <1>6, <1>7, <1>8, <1>9, <1>10, <1>11, <1>12, <1>13, <1>14, <1>15, <1>16,
     <1>17, <1>18, <1>19 DEF Next

LEMMA TurnAlways == Spec => [](RigInv /\ TurnInv)
<1>1. Init => RigInv /\ TurnInv
  BY InitIsStarted, StartedSafe, StartedTurn
<1> QED
  BY <1>1, RigKept, TurnKept, PTL DEF Spec

LEMMA RestedIsInPlace == RigInv /\ TurnInv /\ Rested => InPlace
<1> SUFFICES ASSUME RigInv, TurnInv, Rested PROVE InPlace
  OBVIOUS
<1>1. process = "runs" /\ Quiet /\ ~overlapped
  BY DEF Rested
<1>2. ~Switching
  BY <1>1, Kinds DEF Quiet, Switching, Switches
<1> QED
  BY <1>1, <1>2, NobodySwitches DEF Steady

\* When no request is under way and none overlapped a switch, the state file holds
\* what the rig drives, so that a restart comes up on it: whatever did not answer,
\* was undone or was cut short by a crash on the way (runtime.py, _save_state).
THEOREM WhatIsStoredIsDriven == Spec => []StoredIsDriven
<1>1. RigInv /\ TurnInv => StoredIsDriven
  BY RestedIsInPlace DEF StoredIsDriven, InPlace, Stored, Driven
<1> QED
  BY <1>1, TurnAlways, PTL

\* Then too, the guider, the live view and the simulated sensors hold the devices that
\* are registered, and none that was replaced (_build_guider, _start_preview).
THEOREM ServicesAreOnTheRig == Spec => []OnTheRig
<1>1. RigInv /\ TurnInv => OnTheRig
  BY RestedIsInPlace DEF OnTheRig, InPlace, Held, Drawn
<1> QED
  BY <1>1, TurnAlways, PTL

\* And nothing that was replaced goes on: no device, guide loop or view; an orderly
\* shutdown leaves nothing on at all (switch_mount, switch_camera, shutdown).
THEOREM NothingGoesOn == Spec => []NothingLeaks
<1>1. ASSUME RigInv, TurnInv, Rested
      PROVE  /\ On.devices \subseteq {registry[role] : role \in Roles}
             /\ On.guiders \subseteq {Len(guiders)}
             /\ On.views \subseteq {Len(views)}
  <2>1. OnlyOn({})
    BY <1>1, RestedIsInPlace DEF InPlace
  <2> QED
    BY <2>1 DEF OnlyOn, On
<1>2. ASSUME TurnInv, process = "shut", ~overlapped
      PROVE  On = [devices |-> {}, guiders |-> {}, views |-> {}]
  <2>1. AllOff
    BY <1>2 DEF TurnInv
  <2> QED
    BY <2>1 DEF AllOff, On
<1>3. RigInv /\ TurnInv => NothingLeaks
  BY <1>1, <1>2 DEF NothingLeaks
<1> QED
  BY <1>3, TurnAlways, PTL
=============================================================================
