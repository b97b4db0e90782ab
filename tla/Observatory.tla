----------------------------- MODULE Observatory -----------------------------
(***************************************************************************)
(* Observatory of runtime.py: which devices fill the roles of the registry *)
(* and which services hold them, while clients switch drivers, connect,    *)
(* disconnect, guide and change the slew rate, and across restarts.        *)
(*                                                                         *)
(* A switch of the mount or of the cameras is a coroutine that awaits      *)
(* between its steps; nothing keeps another request out meanwhile.  A      *)
(* guider and a live view hold the devices they were built with.  The      *)
(* two sensors of a camera driver come and go together.                    *)
(***************************************************************************)
EXTENDS Naturals, Sequences, FiniteSets

CONSTANTS
  MountDrivers, CameraDrivers,
  Simulator,    (* the driver whose sensors draw what a mount points at    *)
  FirstMount, FirstCamera,   (* the settings' drivers                      *)
  Rates,        (* slew rates                                              *)
  Requesters,   (* handlers of requests that await: as many at a time  *)
  MaxRequests,  (* bound: requests in a run of the process                 *)
  MaxRestarts,  (* bound                                                   *)
  None          (* no slew rate, of a device that has none                 *)

Roles == {"mount", "camera", "guide"}

ASSUME DriversAssumption ==
  FirstMount \in MountDrivers /\ FirstCamera \in CameraDrivers
ASSUME BoundsAssumption == {MaxRequests, MaxRestarts} \subseteq Nat
ASSUME RatesAssumption == Rates # {} /\ None \notin Rates

VARIABLES
  devices,   (* every device made: its role, driver, rate, and whether it is open *)
  registry,  (* the device that fills each role                            *)
  driver,    (* mount_driver and camera_driver                             *)
  rate,      (* mount_slew_rate                                            *)
  state,     (* the state file: drivers and rate                           *)
  sensors,   (* _cameras: the simulated sensors the rig believes it has    *)
  source,    (* for each of those ever made, the mount it draws for        *)
  guiders,   (* every guider built: its devices, its idle view, its loop   *)
  views,     (* every live view built: its camera, and whether it runs     *)
  works,     (* what each request has come to                              *)
  process,   (* whether it "runs" or was "shut"                               *)
  overlapped,(* history: a request came in the middle of a switch          *)
  lost,      (* history: roles whose device was disconnected, or did not answer at the start *)
  asked, restarts   (* counts, for the bounds                              *)

vars == <<devices, registry, driver, rate, state, sensors, source, guiders, views,
          works, process, overlapped, lost, asked, restarts>>
services == <<guiders, views>>
settings == <<driver, rate, state>>
counts == <<asked, restarts>>

guider == guiders[Len(guiders)]
view == views[Len(views)]
Idle == [kind |-> "idle"]
Quiet == \A p \in Requesters : works[p] = Idle
Busy(p, kinds, pc) == works[p].kind \in kinds /\ works[p].pc = pc
Switches == {"mount", "camera"}
Switching == \E p \in Requesters : works[p].kind \in Switches

Device(role, d, r) == [role |-> role, driver |-> d, rate |-> r, open |-> FALSE]
Opened(d, yes) == [devices EXCEPT ![d].open = yes]
Advances(p, w) == works' = [works EXCEPT ![p] = w]

\* _build_guider and _start_preview, on what is registered by then.
NewGuider(reg, viewed) ==
  [mount |-> reg["mount"], camera |-> reg["guide"], view |-> viewed, loop |-> FALSE]
NewView(reg) == [camera |-> reg["camera"], on |-> TRUE]

\* A request may come at any time.  That a switch and another request overlap
\* is noted, for the properties.
Comes(switches) ==
  /\ process = "runs"
  /\ asked < MaxRequests /\ asked' = asked + 1
  /\ overlapped' = (overlapped \/ Switching \/ (switches /\ ~Quiet))

\* The simulated mount has no slew rate to set.
RateOf(d, r) == IF d = Simulator THEN None ELSE r

-----------------------------------------------------------------------------
(* switch_mount.                                                           *)

SwitchMount(p, d) ==
  /\ Comes(TRUE) /\ works[p] = Idle
  /\ devices' = Append(devices, Device("mount", d, RateOf(d, rate)))
  /\ driver' = [driver EXCEPT !.mount = d]
  /\ Advances(p, [kind |-> "mount", pc |-> "connect", new |-> <<Len(devices) + 1>>,
                  old |-> <<registry["mount"]>>, was |-> driver.mount, sims |-> {}, to |-> d])
  /\ UNCHANGED <<registry, rate, state, sensors, source, services, process, lost, restarts>>

\* A bug: the mount that is let go is stopped before the new one has answered.
MutantMountAnswers(p) ==
  /\ Busy(p, {"mount"}, "connect")
  /\ \/ devices' = [devices EXCEPT ![works[p].new[1]].open = TRUE, ![works[p].old[1]].open = FALSE]
        /\ Advances(p, [works[p] EXCEPT !.pc = "release"])
        /\ UNCHANGED driver
     \/ devices' = Opened(works[p].old[1], FALSE)
        /\ driver' = [driver EXCEPT !.mount = works[p].was]
        /\ Advances(p, Idle)
  /\ UNCHANGED <<registry, rate, state, sensors, source, services, process, overlapped, lost, counts>>

\* Connected, or not: then the driver is what it was.
MountAnswers(p) ==
  /\ Busy(p, {"mount"}, "connect")
  /\ \/ /\ devices' = Opened(works[p].new[1], TRUE)
        /\ Advances(p, [works[p] EXCEPT !.pc = "release"])
        /\ UNCHANGED driver
     \/ /\ driver' = [driver EXCEPT !.mount = works[p].was]
        /\ Advances(p, Idle)
        /\ UNCHANGED devices
  /\ UNCHANGED <<registry, rate, state, sensors, source, services, process, overlapped, lost, counts>>

\* The previous mount is let go; then the new one is registered, the simulated
\* sensors turn to it, and the guider's idle view is told to stop.
MountReleased(p) ==
  /\ Busy(p, {"mount"}, "release")
  /\ devices' = Opened(works[p].old[1], FALSE)
  /\ registry' = [registry EXCEPT !["mount"] = works[p].new[1]]
  /\ source' = [s \in DOMAIN source |-> IF s \in sensors THEN works[p].new[1] ELSE source[s]]
  /\ guiders' = [guiders EXCEPT ![Len(guiders)].view = FALSE]
  /\ Advances(p, [works[p] EXCEPT !.pc = "stop"])
  /\ lost' = lost \ {"mount"}
  /\ UNCHANGED <<settings, sensors, views, process, overlapped, counts>>

\* A bug: the loop is left to run on the mount that was let go.
MutantGuiderStops(p) ==
  /\ Busy(p, Switches, "stop")
  /\ Advances(p, [works[p] EXCEPT !.pc = IF works[p].kind = "mount" THEN "build" ELSE "release"])
  /\ UNCHANGED <<devices, registry, settings, sensors, source, services, process, overlapped, lost, counts>>

\* self.guider is read again for each call, whichever it is by now.
GuiderStops(p) ==
  /\ Busy(p, Switches, "stop")
  /\ guiders' = [guiders EXCEPT ![Len(guiders)].loop = FALSE]
  /\ Advances(p, [works[p] EXCEPT !.pc = IF works[p].kind = "mount" THEN "build" ELSE "release"])
  /\ UNCHANGED <<devices, registry, settings, sensors, source, views, process, overlapped, lost, counts>>

\* A bug: the driver is not remembered.
MutantMountBuilds(p) ==
  /\ Busy(p, {"mount"}, "build")
  /\ guiders' = Append(guiders, NewGuider(registry, FALSE))
  /\ Advances(p, Idle)
  /\ UNCHANGED <<devices, registry, settings, sensors, source, views, process, overlapped, lost, counts>>

\* The guider holds its mount, so there is a new one; its idle view does not run.
MountBuilds(p) ==
  /\ Busy(p, {"mount"}, "build")
  /\ guiders' = Append(guiders, NewGuider(registry, FALSE))
  /\ state' = [state EXCEPT !.mount = driver.mount, !.rate = rate]
  /\ Advances(p, Idle)
  /\ UNCHANGED <<devices, registry, driver, rate, sensors, source, views, process, overlapped, lost, counts>>

-----------------------------------------------------------------------------
(* switch_camera.                                                          *)

\* Simulated sensors draw for the mount they are made with.
SwitchCamera(p, d) ==
  /\ Comes(TRUE) /\ works[p] = Idle
  /\ d # driver.camera
  /\ LET camera == Len(devices) + 1
         new == {camera, camera + 1}
     IN /\ devices' = devices \o <<Device("camera", d, None), Device("guide", d, None)>>
        /\ sensors' = IF d = Simulator THEN new ELSE {}
        /\ source' = [s \in DOMAIN source \cup sensors' |->
                        IF s \in sensors' THEN registry["mount"] ELSE source[s]]
        /\ Advances(p, [kind |-> "camera", pc |-> "connect", new |-> <<camera, camera + 1>>,
                        old |-> <<registry["camera"], registry["guide"]>>,
                        was |-> driver.camera, sims |-> sensors, to |-> d])
  /\ driver' = [driver EXCEPT !.camera = d]
  /\ UNCHANGED <<registry, rate, state, services, process, lost, restarts>>

\* Connected one after the other.  If either does not answer, both are
\* disconnected and all is as it was.
CamerasAnswer(p) ==
  /\ works[p].kind = "camera"
  /\ \/ /\ works[p].pc = "connect"
        /\ devices' = Opened(works[p].new[1], TRUE)
        /\ Advances(p, [works[p] EXCEPT !.pc = "connect guide"])
        /\ UNCHANGED <<driver, sensors, views>>
     \/ /\ works[p].pc = "connect guide"
        /\ devices' = Opened(works[p].new[2], TRUE)
        /\ views' = [views EXCEPT ![Len(views)].on = FALSE]
        /\ Advances(p, [works[p] EXCEPT !.pc = "view"])
        /\ UNCHANGED <<driver, sensors>>
     \/ /\ works[p].pc \in {"connect", "connect guide"}
        /\ Advances(p, [works[p] EXCEPT !.pc = "undo"])
        /\ UNCHANGED <<devices, driver, sensors, views>>
  /\ UNCHANGED <<registry, rate, state, source, guiders, process, overlapped, lost, counts>>

\* A bug: the drivers' names are put back, but not the sensors.
MutantCamerasUndone(p) ==
  /\ Busy(p, {"camera"}, "undo")
  /\ devices' = [devices EXCEPT ![works[p].new[1]].open = FALSE, ![works[p].new[2]].open = FALSE]
  /\ driver' = [driver EXCEPT !.camera = works[p].was]
  /\ Advances(p, Idle)
  /\ UNCHANGED <<registry, rate, state, sensors, source, services, process, overlapped, lost, counts>>

CamerasUndone(p) ==
  /\ Busy(p, {"camera"}, "undo")
  /\ devices' = [devices EXCEPT ![works[p].new[1]].open = FALSE, ![works[p].new[2]].open = FALSE]
  /\ driver' = [driver EXCEPT !.camera = works[p].was]
  /\ sensors' = works[p].sims
  /\ Advances(p, Idle)
  /\ UNCHANGED <<registry, rate, state, source, services, process, overlapped, lost, counts>>

\* The live view is down; the guider's idle view is told to stop.
ViewStopped(p) ==
  /\ Busy(p, {"camera"}, "view")
  /\ guiders' = [guiders EXCEPT ![Len(guiders)].view = FALSE]
  /\ Advances(p, [works[p] EXCEPT !.pc = "stop"])
  /\ UNCHANGED <<devices, registry, settings, sensors, source, views, process, overlapped, lost, counts>>

\* The previous pair is let go, then everything is built on the new one.
CamerasReleased(p) ==
  /\ Busy(p, {"camera"}, "release")
  /\ LET reg == [registry EXCEPT !["camera"] = works[p].new[1], !["guide"] = works[p].new[2]] IN
     /\ registry' = reg
     /\ guiders' = Append(guiders, NewGuider(reg, TRUE))
     /\ views' = Append(views, NewView(reg))
  /\ devices' = [devices EXCEPT ![works[p].old[1]].open = FALSE, ![works[p].old[2]].open = FALSE]
  /\ state' = [state EXCEPT !.camera = works[p].to]
  /\ lost' = lost \ {"camera", "guide"}
  /\ Advances(p, Idle)
  /\ UNCHANGED <<driver, rate, sensors, source, process, overlapped, counts>>

-----------------------------------------------------------------------------
(* The other requests.                                                     *)

\* The device is looked up when the request comes; the answer takes its time.
Connect(p, role) ==
  /\ Comes(FALSE) /\ works[p] = Idle
  /\ \E kind \in {"connect", "disconnect"} :
        Advances(p, [kind |-> kind, pc |-> "wait", role |-> role, of |-> registry[role]])
  /\ UNCHANGED <<devices, registry, settings, sensors, source, services, process, lost, restarts>>

Connected(p) ==
  /\ \/ /\ Busy(p, {"connect"}, "wait")
        /\ \/ devices' = Opened(works[p].of, TRUE) /\ lost' = lost \ {works[p].role}
           \/ UNCHANGED <<devices, lost>>
     \/ /\ Busy(p, {"disconnect"}, "wait")
        /\ devices' = Opened(works[p].of, FALSE)
        /\ lost' = lost \cup {works[p].role}
  /\ Advances(p, Idle)
  /\ UNCHANGED <<registry, settings, sensors, source, services, process, overlapped, counts>>

\* Guiding starts when a star has been found, on the guider it was asked of.
StartGuiding(p) ==
  /\ Comes(FALSE) /\ works[p] = Idle
  /\ Advances(p, [kind |-> "guide", pc |-> "wait", of |-> Len(guiders)])
  /\ UNCHANGED <<devices, registry, settings, sensors, source, services, process, lost, restarts>>

GuidingStarts(p) ==
  /\ Busy(p, {"guide"}, "wait")
  /\ guiders' = [guiders EXCEPT ![works[p].of].loop = TRUE]
  /\ Advances(p, Idle)
  /\ UNCHANGED <<devices, registry, settings, sensors, source, views, process, overlapped, lost, counts>>

StopGuiding ==
  /\ process = "runs"
  /\ guider.loop
  /\ guiders' = [guiders EXCEPT ![Len(guiders)].loop = FALSE]
  /\ UNCHANGED <<devices, registry, settings, sensors, source, views, works, process, overlapped, lost, counts>>

\* set_slew_rate, which tells the mount in place, and remembers the driver too.
SetRate(r) ==
  /\ Comes(FALSE)
  /\ rate' = r
  /\ LET m == registry["mount"]
     IN devices' = [devices EXCEPT ![m].rate = RateOf(devices[m].driver, r)]
  /\ state' = [state EXCEPT !.mount = driver.mount, !.rate = r]
  /\ UNCHANGED <<registry, driver, sensors, source, services, works, process, lost, restarts>>

-----------------------------------------------------------------------------
(* The process comes and goes.                                             *)

\* shutdown, which the server calls when its requests are answered.
Shutdown ==
  /\ process = "runs" /\ Quiet
  /\ process' = "shut"
  /\ views' = [views EXCEPT ![Len(views)].on = FALSE]
  /\ guiders' = [guiders EXCEPT ![Len(guiders)].view = FALSE, ![Len(guiders)].loop = FALSE]
  /\ devices' = [d \in DOMAIN devices |->
                   IF \E role \in Roles : registry[role] = d
                   THEN [devices[d] EXCEPT !.open = FALSE] ELSE devices[d]]
  /\ UNCHANGED <<registry, settings, sensors, source, works, overlapped, lost, counts>>

\* build: the drivers and the rate of the state file, whichever devices answer.
Built(stored, answering) ==
  LET drivers == [mount |-> stored.mount, camera |-> stored.camera, guide |-> stored.camera]
      number == [mount |-> 1, camera |-> 2, guide |-> 3]
      sims == IF stored.camera = Simulator THEN {2, 3} ELSE {}
      made(role) == [Device(role, drivers[role],
                            IF role = "mount" THEN RateOf(stored.mount, stored.rate) ELSE None)
                     EXCEPT !.open = (role \in answering)]
  IN [devices |-> <<made("mount"), made("camera"), made("guide")>>,
      registry |-> number,
      driver |-> [mount |-> stored.mount, camera |-> stored.camera],
      sensors |-> sims,
      source |-> [s \in sims |-> 1],
      guider |-> NewGuider(number, TRUE),
      view |-> NewView(number)]

\* The process starts again, after an orderly end or a crash at any moment.
Restart(answering) ==
  /\ restarts < MaxRestarts /\ restarts' = restarts + 1
  /\ LET b == Built(state, answering)
     IN /\ devices' = b.devices /\ registry' = b.registry /\ driver' = b.driver
        /\ sensors' = b.sensors /\ source' = b.source
        /\ guiders' = <<b.guider>> /\ views' = <<b.view>>
  /\ rate' = state.rate
  /\ process' = "runs" /\ overlapped' = FALSE
  /\ lost' = Roles \ answering
  /\ works' = [p \in Requesters |-> Idle]
  /\ asked' = 0
  /\ UNCHANGED state

Init ==
  /\ \E answering \in SUBSET Roles, r \in Rates :
        LET stored == [mount |-> FirstMount, camera |-> FirstCamera, rate |-> r]
            b == Built(stored, answering)
        IN /\ state = stored /\ rate = r
           /\ devices = b.devices /\ registry = b.registry /\ driver = b.driver
           /\ sensors = b.sensors /\ source = b.source
           /\ guiders = <<b.guider>> /\ views = <<b.view>>
           /\ lost = Roles \ answering
  /\ works = [p \in Requesters |-> Idle]
  /\ process = "runs" /\ overlapped = FALSE
  /\ asked = 0 /\ restarts = 0

Next ==
  \/ \E p \in Requesters :
        \/ \E d \in MountDrivers : SwitchMount(p, d)
        \/ MountAnswers(p) \/ MountReleased(p) \/ GuiderStops(p) \/ MountBuilds(p)
        \/ \E d \in CameraDrivers : SwitchCamera(p, d)
        \/ CamerasAnswer(p) \/ CamerasUndone(p) \/ ViewStopped(p) \/ CamerasReleased(p)
        \/ \E role \in Roles : Connect(p, role)
        \/ Connected(p) \/ StartGuiding(p) \/ GuidingStarts(p)
  \/ StopGuiding
  \/ \E r \in Rates : SetRate(r)
  \/ Shutdown
  \/ \E answering \in SUBSET Roles : Restart(answering)

Spec == Init /\ [][Next]_vars

-----------------------------------------------------------------------------
(* Properties.                                                             *)

Numbers == 1..Len(devices)
Rested == process = "runs" /\ Quiet /\ ~overlapped

\* Every device, service and pending request is one that was made, and what fills
\* a role, or is to, is a device of that role.
DeviceType ==
  [role : Roles, driver : MountDrivers \cup CameraDrivers, rate : Rates \cup {None}, open : BOOLEAN]
Filled(role, d) == d \in Numbers /\ devices[d].role = role
WorkIsTyped(w) ==
  \/ w = Idle
  \/ /\ w \in [kind : {"mount"}, pc : {"connect", "release", "stop", "build"}, new : Seq(Nat),
                old : Seq(Nat), was : MountDrivers, sims : {{}}, to : MountDrivers]
     /\ Filled("mount", w.new[1]) /\ Filled("mount", w.old[1])
  \/ /\ w \in [kind : {"camera"}, pc : {"connect", "connect guide", "undo", "view", "stop", "release"},
                new : Seq(Nat), old : Seq(Nat), was : CameraDrivers, sims : SUBSET DOMAIN source,
                to : CameraDrivers]
     /\ Filled("camera", w.new[1]) /\ Filled("guide", w.new[2])
     /\ Filled("camera", w.old[1]) /\ Filled("guide", w.old[2])
  \/ /\ w \in [kind : {"connect", "disconnect"}, pc : {"wait"}, role : Roles, of : Nat]
     /\ Filled(w.role, w.of)
  \/ w \in [kind : {"guide"}, pc : {"wait"}, of : DOMAIN guiders]
TypeOK ==
  /\ devices \in Seq(DeviceType)
  /\ registry \in [Roles -> Nat] /\ \A role \in Roles : Filled(role, registry[role])
  /\ driver \in [mount : MountDrivers, camera : CameraDrivers]
  /\ rate \in Rates
  /\ state \in [mount : MountDrivers, camera : CameraDrivers, rate : Rates]
  /\ source \in [DOMAIN source -> Numbers] /\ DOMAIN source \subseteq Numbers
  /\ sensors \subseteq DOMAIN source
  /\ guiders \in Seq([mount : Numbers, camera : Numbers, view : BOOLEAN, loop : BOOLEAN])
  /\ guiders # <<>>
  /\ views \in Seq([camera : Numbers, on : BOOLEAN]) /\ views # <<>>
  /\ DOMAIN works = Requesters /\ \A p \in Requesters : WorkIsTyped(works[p])
  /\ lost \in SUBSET Roles /\ process \in {"runs", "shut"} /\ overlapped \in BOOLEAN
  /\ asked \in 0..MaxRequests /\ restarts \in 0..MaxRestarts

\* When no request is pending and none overlapped a switch, what is stored, named
\* and driven is one: the state file holds the drivers and the rate the rig names
\* (_mount_driver_out, _camera_driver_out), so that a restart comes up on them;
\* the mount is of that driver and runs at that rate, and both sensors are of one
\* driver ("both sensors move together", routes/devices.py) - whatever failed on
\* the way.
StoredIsDriven ==
  Rested =>
    /\ state = [mount |-> driver.mount, camera |-> driver.camera, rate |-> rate]
    /\ devices[registry["mount"]].driver = driver.mount
    /\ devices[registry["mount"]].rate = RateOf(driver.mount, rate)
    /\ \A role \in {"camera", "guide"} : devices[registry[role]].driver = driver.camera

\* Then too, whatever holds a device holds the registered one: the guide loop its
\* mount and its sensor, the live view its camera, the simulated sensors the
\* mount they draw for.
OnTheRig ==
  Rested =>
    /\ guider.mount = registry["mount"] /\ guider.camera = registry["guide"]
    /\ view.camera = registry["camera"] /\ view.on
    /\ sensors = IF driver.camera = Simulator THEN {registry["camera"], registry["guide"]} ELSE {}
    /\ \A s \in sensors : source[s] = registry["mount"]

\* Then too, nothing that was replaced goes on: its devices are let go, its guide
\* loop and its views are off.  And an orderly shutdown leaves nothing on at all.
On == [devices |-> {d \in Numbers : devices[d].open},
       guiders |-> {g \in DOMAIN guiders : guiders[g].loop \/ guiders[g].view},
       views   |-> {v \in DOMAIN views : views[v].on}]
NothingLeaks ==
  /\ Rested => /\ On.devices \subseteq {registry[role] : role \in Roles}
               /\ On.guiders \subseteq {Len(guiders)}
               /\ On.views \subseteq {Len(views)}
  /\ process = "shut" /\ ~overlapped => On = [devices |-> {}, guiders |-> {}, views |-> {}]

\* Whatever overlaps, the rig never lets go of its last device of a role: unless
\* it was disconnected by hand or did not answer at the start, one is connected
\* ("the new one is built and connected before the old one is let go").
AlwaysADevice ==
  process = "runs" =>
    \A role \in Roles \ lost : \E d \in Numbers : devices[d].role = role /\ devices[d].open

=============================================================================
