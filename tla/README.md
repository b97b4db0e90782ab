# Formal models of astropi

astropi runs an astrophotography rig from one Python process: a FastAPI server, a German equatorial
mount on a serial line, an imaging and a guide sensor behind a vendor SDK, long tasks that use them,
and browsers that watch. Everything shares one asyncio event loop. What is hard in it is not what
a function computes but what happens between two awaits: coroutines that checked something before
they waited, worker threads that outlive the coroutine that sent them, cancellations that land in
a clean-up, two browsers pressing two buttons, a process that dies between two files. That is what these modules model.

Run from this directory: `tlc -config Tasks.cfg MCTaskEngine`, `tlapm TaskEngineProofs.tla`.
Paths below are relative to `src/astropi/` in the repository.

## Contents

1. [The system](#1-the-system)
2. [Conventions of the models](#2-conventions-of-the-models)
3. [The modules](#3-the-modules)
4. [The runs](#4-the-runs)
5. [Fairness](#5-fairness)
6. [What is proved](#6-what-is-proved)
7. [Where the code and the properties part](#7-where-the-code-and-the-properties-part)
8. [What is only model-checked, and what is not modelled](#8-what-is-only-model-checked-and-what-is-not-modelled)
9. [Plan](#9-plan)

## 1. The system

| Component | State it keeps | Operations | Correct when |
|---|---|---|---|
| **Synta mount** `devices/backends/synta/mount.py` | controller's motion per axis; `_expect`, `_cruise`, `_tracking`, `_track_on_arrival`, `_parked`, `_fault`, watchdog strikes, the asyncio `_lock` | slew, wait, abort, track, park, home, nudge, rate offset, declination step, pulse, clear fault; the watchdog | a halt holds until cleared; every fast motion ends; parked means home; nothing but a runaway is halted |
| **Synta protocol** `…/synta/protocol.py` | a serial port or socket, a lock | one command, one reply, retried once | a number arrives as it was sent; an answer is the answer to the command |
| **Task engine** `sequencing/task.py` | `_runner`, `_current`, `_order`, progress of each task | submit, cancel, run, trim | one task at a time, clean-up included; reports agree with runners; cancelling stops the motors |
| **Task bodies** `sequencing/tasks/` | a plan and its progress | centre, capture, focus, calibrate, reframe, polar, zenith, session, assistant | steps in order, frames saved before they are counted, failures recorded |
| **Live view** `services/preview.py` | `_paused`, `_lock`, the stream task | start, stop, pause, reconfigure | stands down for whoever has a claim, and comes back |
| **Imaging camera** `devices/backends/zwo/camera.py` | `_lock`, `_io`, `_applied`, `_state`; the sensor behind the SDK; the cooler's ramp | expose, stream, abort, set a control, cool | the sensor is at rest and set up as asked when an exposure starts |
| **Guiding** `services/guiding.py` | `_state`, `_calibration`, `_lock_position`, `_ra_offset`, `_task`; the rate offset in the mount | calibrate, start, stop, dither, invalidate; the guide loop; an idle preview | one loop; what it reports is so; no offset left behind |
| **Event bus, socket** `core/events.py`, `api/ws.py` | a ring buffer, a bounded queue per subscriber | publish, replay, tell the current state, subscribe, drain | no dashboard is taken back to an earlier state, none stalls the publisher |
| **Guide model** `services/guidemodel.py` | a window of frames with what was sent between them; the fit | observe, fit, move the reference | the drift it sees is the sky's; corrections bring the star back and do not chase |
| **Night journal** `storage/journal.py` | what it has seen of each task; `log.txt`, `frames.csv` | listen, write, record a frame | every message once and in turn |
| **Observatory** `runtime.py`, `devices/registry.py`, `api/routes/devices.py` | the registry of devices, the drivers' names, the slew rate, the guider, the live view, the state file | start up, shut down, switch mount, switch camera, connect, disconnect, set the slew rate | what is stored, named, connected and driven agree; a failed switch leaves the rig as it was |
| **Imaging sessions** `api/routes/imaging.py`, `storage/imaging.py`, `storage/archive.py`, `storage/darklib.py`, `sequencing/tasks/frames.py` | a file per session, frames and their table, the dark library | create, change, start, redo, rename, delete; shoot a group | what is counted is on disk; a row names its file; linked groups follow; a crash or a deletion does not bring old things back |
| **Polar alignment** `api/routes/polar.py`, `services/twopointpolar.py`, `services/polaralign.py`, `sequencing/tasks/polar.py` | kept frames, shots, the fit, the knobs' reading; a sweep's points | capture, accept, drop, reset, live, pin; sweep, refine | a fit is of its frames, frames of one axis |
| **Settings and plans** `storage/state.py`, `storage/sessions.py` | one JSON file each | get, put | replaced whole |
| **Services** `services/` (others) | none that lasts | star detection, plate solving, catalogue, ephemeris, planning | numerical |
| **Simulator** `devices/backends/simulator/` | a simulated mount, focuser, sensors and sky | the device interfaces | stands in for hardware |
| **API and dashboard** `api/`, `web/` | none | translate HTTP to calls; render | refuses what would collide |

**How they interact.** Routes and tasks call the mount, the camera and the guider directly: these
are plain method calls on the one event loop, and each device protects itself with its own
`asyncio.Lock`. Blocking I/O (serial commands, SDK calls) goes to worker threads with
`asyncio.to_thread`, which a cancelled coroutine stops waiting for but cannot stop. The task
engine holds the live view down (`preview.paused()`) while a task runs; `tasks.busy` is the
refusal that routes consult. The guide loop drives the mount through the mount's rate offset and
declination steps. Everything publishes on the event bus, from which each browser's socket drains.

**Which behaviours are hard.** Guards that are evaluated before an await and relied on after it
(`_require_motion`, `start`, `_refuse_while_busy`); locks that are released while a thread still
works; a `finally` that itself awaits; a watchdog that samples a moving mount once a second; `stop`
and `cancel` called by two clients; queues that drop; a frame measured against a lock point that
moved while it was exposed; several files that change together. `PROJECT.json` lists each such hazard at the
line where it bites, with the property that would catch it.

## 2. Conventions of the models

- One variable per field the code keeps, named for it. A coroutine's place is a program counter
  whose values are the awaits it can be suspended at; the code between two awaits is one action,
  because nothing else runs meanwhile.
- An asyncio lock is a sequence: its holder, then its waiters, first come first served, as
  `asyncio.Lock` is.
- A worker thread is one step, taken when its commands are done. If its coroutine was cancelled
  meanwhile, the thread is kept (`orphans`, `threads`) and takes effect later, at any time.
- Sky coordinates, counts, pixels and exposure times are abstracted to what the guards and the
  properties tell apart: how an axis turns and whether it is home; whom a sensor is set up for;
  whether the tracking rate is offset.
- What a property needs to know of the past and the code does not keep is a *history variable*, and
  is called one where it is declared: `clean`, `disturbed`, `orderly`, `cut`, `torn`, `astray`,
  `overlapped`, `overtaken`, `muddled`, `missed`. Actions set them, no guard reads them. A property
  with such a hypothesis is checked in *every* behaviour, and the hypothesis says exactly what spoils
  it: section 7 lists what happens then.
- `Mutant…` definitions are plausible bugs in the definition that follows them. They are used by
  nothing: substituting one shows that a property can fail.

## 3. The modules

| Module | Models | |
|---|---|---|
| `SyntaMount` | the mount driver, its clients, its watchdog and its motors | state machine |
| `SyntaMountProofs` | types and the halt, for all constants; guiding is not halted; one client's motions and parking; the line below the mount and its geometry | proofs |
| `MountGeometry` | axis angles and the sky: both ways, syncs, limits, nudges | operators |
| `SerialLine` | the wire format, and a command's conversation over a bad line | operators and state machine |
| `ExclusiveUse` | what a shared thing promises: one user at a time; the task engine, the preview's lock, the camera's and the polar alignment's implement it | abstract specification |
| `TaskEngine` | the engine, its runners, cancellation and clean-up | state machine |
| `TaskEngineProofs` | one at a time; the frames, fits and shots of polar alignment | proofs |
| `BlocksInTurn` | what a session plan promises: block after block, each done or failed | abstract specification |
| `NightRun` | the task bodies on the simulated rig, beside an operator | state machine; implements `BlocksInTurn` |
| `NightRunProofs` | lights are filed right; reports are so; slack is taken up; blocks in turn | proofs |
| `ImagingSessions` | sessions, frames and files, with crashes | state machine |
| `ImagingSessionsProofs` | counts and names agree with files; links follow; the deleted stays so | proofs |
| `Observatory` | switching, connecting and letting go of devices, with restarts | state machine |
| `ObservatoryProofs` | the rig keeps a device; what is stored, driven and served is one | proofs |
| `CameraSharing` | the live view, the imaging camera and the sensor | state machine |
| `CameraSharingProofs` | exposures start clean; nobody is refused; both locks are exclusive | proofs |
| `GuidingLoop` | the guider's requests, its loop and the offset it leaves in the mount | state machine |
| `GuidingLoopProofs` | no offset is left; the mount is not shared; the guider says what it does; the window is one track, corrections converge, dithers settle | proofs |
| `DriftGuiding` | what the loop measures, fits and corrects, on one axis | state machine, closed loop |
| `PolarAlignment` | the two-point alignment and the sweep | state machine |
| `ForwardFeed` | what a dashboard is promised: values the state has had, never an earlier one | abstract specification |
| `EventStream` | bus, history, queues, the socket's three phases | state machine; implements `ForwardFeed` |
| `NightLog` | `EventStream` with the journal as one more subscriber | composition |
| `EventStreamProofs` | bounds; dashboards move on and are fed; the journal is in turn | proofs |
| `MC…` | TLC instances: definitions of constants, symmetry sets | |

### SyntaMount

`axis` is the controller's own state: `still`, `track`, `rate` (a pulse), `cruise` and `near` (a
constant-rate slew, far from and close to its target), `goto` (the controller's own), `coast` (told to stop), `runaway` and
`beyond` (not listening; further from home than any move could take it). `expect`, `cruise`,
`tracking`, `trackOnArrival`, `parked`, `fault`, `strikes` are the driver's fields of the same name;
`lastSeen` and `jumped` are what two successive readings tell the watchdog; `pos` is where an axis
is as far as parking can tell; `clean` is a history variable: the halt in force found no move in
flight.

Each operation is an action that makes its checks and queues for the lock (`SlewTo`, `Park`,
`PulseGuide`, …), followed by one for each hand-over to a thread (`Aim`, `StartMove`, `SetRate`,
`Stepped`, `Poll`, …). `JobHalts` is any of these ending in `_await_stopped`'s halt, `JobFails` in
a serial error. `Cancel` may strike at any await; if the coroutine had a thread out it becomes an
orphan, and the lock goes to the next in line at once. `WatchWakes` and `Watch` are one reading of
the watchdog, with `_judge` as `Wrong`, `Strikes`, `Allowed` and `MayBeTooFast`. `Physics` and
`BreaksDown` are the motors.

### MountGeometry

The functions from `_sky_from_axes` to `move_by`, with angles in whole arc seconds instead of
floating-point degrees. `offset` is what a sync leaves (`_sync_offset`). The altitude limit, which
needs the site's trigonometry, is left out. It is a module of operators: there is nothing to run,
and the theorems quantify over every angle.

### SerialLine

`Encode24`, `Decode24`, `MotionMode`, … are the wire format on bytes. The conversation has a request on
its way, a reply on its way back and what has arrived unread; each may be lost, garbled, cut short or
late, and the controller may refuse. `Prompt` is the assumption of the theorems: a reply that comes at
all comes within `REPLY_TIMEOUT_S`, which is what the time-out was chosen for. Without it a late
answer can be taken for the next command's (section 7).

### TaskEngine and ExclusiveUse

`stage` is where a runner is: created, entering the camera guard, in the body, in its clean-up,
over. A cancellation is asked for (`Cancel`) and lands at the task's next await (`Delivered`): a task
in a slew that cleans up (`CleansUp`, from `zenith.py`) goes to its clean-up, others end. `cancel`
awaits the runner (`waiting`, `Returns`). `Owner`, the task whose runner is alive, is the refinement
mapping to `ExclusiveUse`.

### NightRun and BlocksInTurn

A task is a list of steps (`Programs`, `BlockProgram`): centre, focus, shoot, sweep, zenith, and the
three of a reframing. The first is under way, at the await named by `pc`. A session is a list of such
lists, and `BlockOver` steps over a failure. The mount is the simulator's: a slew is a coroutine of
its own (`slew`), which goes on without the task that began it, and ends tracking; `abort_slew`
cancels it and with it whoever waits for it. The operator slews, parks, aborts, switches tracking and
cancels the task at any moment. `active` is the target that lights are filed under, `filed` the last
light with where the telescope was. The focuser has slack in its gears and an end.
The refinement mapping to `BlocksInTurn` takes the outcomes so far, and whether a session runs.

### ImagingSessions

A request runs from its load to its save without an await, so it is one action; what a crash can leave of
one half done is an action of its own (`torn`). The group task (`Begin`, `CoolingEnds`, `ExposureFound`, `FrameArrives`,
`FrameWritten`) loads, changes and saves between its awaits; a cancelled task leaves
the thread that writes its frame (`strays`). `files` holds each frame's folder, whether it is set aside,
and what the table says. `Relink` is `relink`, with the fields copied together as one value. A crash
loses `task`, `current` and the strays, and keeps the files.

### Observatory

`devices` are all that were ever made, `registry` those in force. A switch is a coroutine that may
be suspended at each of its awaits (`connect`, letting the old ones go, stopping the guider's view and loop);
other requests come between. `guiders` and `views` are all that were ever built, each with the devices it
holds. `state` is the file a restart reads. `overlapped` records that a switch and another request
overlapped; `lost`, the roles that somebody disconnected or that did not answer at the start.

### CameraSharing

Users enter `paused()` (a capture through the API, a task through the engine's guard), expose any
number of times, and leave. The live view films whenever it is `Wanted`, holds the preview's lock
and the camera's, and can be interrupted, which cancels its stream. `Calls` are the awaits of SDK
calls in threads. `setup` is whom the sensor is really set up for, `applied` whom `_applied` says.
`disturbed` records that a call overtook an abandoned one, was cut short as the video starts, or
wrote only some of the settings. `Askers` expose without standing the view down, as polar refinement does.

### GuidingLoop

`Handlers` are requests (and the dithers of a capture task); `Loops` the asyncio tasks `start`
creates. `offset` is `_ra_offset` as the service believes it, `rate` whether the mount's rate is
offset, and the two differ in the middle of a command, which is where a cancellation hurts: `cut`
records one. `orderly` says that no request came while another was under way, that no calibration was asked for
beside a loop, no dither without one, and that no task began during a request. The loop's arithmetic (what is a lost star, how
large a correction) is left to choice here.

### DriftGuiding

One axis of the mount, corrected by a rate offset, by pulses, or as declination, one way only. The sky
drifts the star by a whole number of pixels in a tick. `Frame` is `_guide_once` with what follows it in
`_correct`; `Commanded` the mount's answer. `rows` is `PixelModel`'s window; a fit of frames that lie on a
line is exact, of others it is any drift. A dither, the pick of another star and lost frames come at any
moment, a limited number of times (`troubles`); `stale` is how far the lock point has moved since
the frame under way read it, and `muddled` records that such a frame, or one after a gap longer
than is counted, entered the window. `Reach`, the edge of the sensor, is a bound: a star beyond it stays
where it is, and the lock point is not moved to it or from it.

### PolarAlignment

By hand: a request waits for the session's lock, exposes, solves, and adds its shot; `accept`,
`drop_last`, `repin` and `reset` take no lock. A frame is known by where the mount stood (`at`) and how
the knobs had been turned (`turn`), which is what the axis depends on, and by the measurement it was
asked for (`of`). By sweep: a task of the engine, with the service it took at its start. `set_site`
replaces the service. `PolarAlignment` and `DriftGuiding` have names of their own for what every
module has (`PolarInit`, `DriftNext`, `Nothing`), so that one module can extend them and the module
they work beside.

### EventStream and NightLog

One piece of state (the guiding state, say) is followed through the bus; its values are numbered,
other messages are 0. `phase` is how far a socket's handler has come: replaying the history, sending
the current state (read before the send begins), subscribed. A dashboard shows (`seen`) the last
value it was sent. `NightLog` adds a task that reports and the journal, whose queue gets the same
messages: `noted` is `_seen_messages`, `Payload` the last messages an update carries.
`ForwardFeed` has no buffers: whoever watches is shown any value between the last one shown and the
present one. The mapping takes `truth` for what is said, sockets that are not closed for those who watch, and `seen` for
what they are shown.

## 4. The runs

| Run | Instance | Shows |
|---|---|---|
| `MountHalt` | 1 client that slews and clears faults; cruising moves, declination may run away, failing commands, waits that run out, cancellations and a thread left behind, watchdog | `TypeOK`; `HaltHolds`: after a halt that found no move in flight nothing is driven until `clear_fault`; `MotionEnds` (liveness): every fast motion ends |
| `MountMoves` | 1 client, 14 operations, cruising, no faults; `slew_to` always followed by its wait | `MovesStayInTravel`, `ParkedAtHome`; `MotionHasAnOwner`: an axis that cruises is one the wait will stop, one at guide rate has a coroutine that will |
| `MountMovesAfterHalt` | 2 clients, watchdog | **violation**: `HaltRefusesMoves`, see section 7 |
| `Tasks` | 3 tasks, one cleaning up, 2 clients cancelling, history of 2 | `EngineInv`: one at a time, and the truth about each; `CancelReturns` (liveness), `RigIsExclusive` (refinement) |
| `Camera` | a capture and a task beside the live view; cancellations, aborts, failing calls and half-written settings, reconfiguration; abandoned threads overtake later ones | `ClaimsAreServed`, `SensorIsReady`, `WaitersGetIn` and `LiveViewReturns` (liveness) |
| `Guide` | 2 handlers asking for anything, tasks that come and go, failing devices, colliding exposures, 2 loops | `NoOffsetLeft`; `MountIsNotShared` and `SaysWhatItDoes` while requests came one at a time; `StopReturns` (liveness) |
| `Drift` | each kind of correction, drifts of −1, 0 and 1 pixel a tick, dithers of 3, window of 3 ticks | `WindowIsOneTrack`, `NeverOvercorrects`, `SettledIsThere`, `ComesBack` (liveness) |
| `Events` | 2 dashboards, history of 3, queues of 2, 2 changes, a task with 3 messages of which an update carries 2, anything else at any time | `NeverGoesBack`, `RecordedInTurn` |
| `Imaging` | 2 sessions of 2 names, groups of 2 frames, 3 frames in all, 1 redo, a change of the lights' setup, crashes | `CountedIsOnDisk`; `NothingDangles`: rows, the library's sets and the night log name what is there; `LinkedFollow`, `DeletedStaysDeleted`, `CompletesInFull` |
| `Night` | 9 kinds of task, 2 targets, a plan of 2 blocks, 2 tasks, 2 requests of the operator, 2 passes of centring | `LightsAreFiledWhereTaken`, `ReportsAreTrue`, `SlackIsTakenUp`, `RunsInTurn` (refinement), `RunEnds` (liveness) |
| `Observatory` | 2 mount and 2 camera drivers, 2 slew rates, 2 requests at a time, 3 in all, 1 restart or crash | `StoredIsDriven`, `OnTheRig`, `NothingLeaks`, `AlwaysADevice` |
| `Polar` | 2 dashboards, 3 readings of the RA axis, 4 shots and sweeps, 1 turn of the knobs, 1 reset or change of site | `FitIsOfItsFrames`, `OneMeasurement`, `KnobsGoForward` |

Every module states its variables' types as `TypeOK`. The runs list it where it is proved or a
property is not enough without it (`MountHalt`, and `Tasks` within `EngineInv`); in the others it holds as well, and
can be added to the configuration.

**Bounds, and why they are enough.** *Clients*: two coroutines are the least that interleave; where
one is used, the watchdog, the motors and an orphaned thread are the other actors, and the theorems
of section 6 cover every number. *`MaxOrphans = 1`, `MaxThreads = 2`*: one thread that outlives its
coroutine is enough to act at the wrong time; two let it be overtaken. *Tasks = 3,
`History = 2`*: one more task than is remembered, so trimming happens. *Loops = 2*: a guide loop and
one that replaces it; when both are used up no further start succeeds, but everything else goes on.
*`QueueSize = 2` < `History = 3`*: queues overflow, and a dashboard can be replayed more than its
queue would hold. *`MaxChanges = 2`*: enough for an older and a newer value to be in different
buffers at once. *`Carried = 2` < `MaxMessages = 3`* (20 in the code): a task says more than an update
carries. *Imaging*: a group of two frames can be half done, and the third frame leaves one for a
redo, a second session or the library. *Night*: two blocks are enough for a failure to be stepped over, two
passes for a correction between two looks, two tasks for one to find what the other left. *Observatory*: two requests that
overlap and a third that finds what they left. *Polar*: two frames to fit, one to be dropped, one live; two kept shots (4 in the code) of four.
*Drift*: a window of three ticks forgets, fits need two frames (6 in the code), a dither of three
pixels is within the search radius of four and beyond it together with a drift. The bounds on
`strikes` and on counters are the code's own.

**Deadlock** is checked except in `Tasks`, `Imaging`, `Night`, `Observatory`, `Polar` and `Drift`, which stop where their
bounds on tasks, frames, requests or troubles are used up.

**Instances that restrict the code's callers.** `MountMoves` takes one request at a time; `Imaging` has
`Shared = FALSE` (two sessions of a night never bear the same name); `Camera` has no `Askers`. Their properties are about what the
components do then, and section 7 says what happens otherwise.

## 5. Fairness

Nobody is assumed to call anything, nor a task of the engine (`TaskEngine`) to come to its end. What is assumed:

- the event loop resumes a coroutine that can go on (weak fairness on each coroutine's continuing
  actions), which asyncio's ready queue guarantees; a lock goes to its first waiter;
- worker threads and SDK calls return (timeouts in `protocol.py` and `sdk.py`);
- the watchdog's sleep ends;
- an axis that turns gets somewhere (strong fairness, because retuning it may briefly disable the
  action);
- in `CameraSharing`, whoever is inside `paused()` leaves it in the end, though its next exposure may always come first: hence strong
  fairness for `Leave`;
- in `DriftGuiding`, the guide loop goes on (weak fairness of its own steps together: it is one
  asyncio task that waits for an exposure or for the mount, each of which ends);
- in `NightRun`, the task's steps go on, and the simulator's slew and focuser arrive: they are
  timers of the same event loop. A step that may end in several ways (solved or not) is one
  action, so that nothing is said about which way it takes.

`Fairness` in each module is the conjunction of just these. The other modules have no liveness
property and no fairness.

## 6. What is proved

All by TLAPS, from the assumptions named in the modules: the constants' types, and that the
distinguished value (`None`, `Gone`, `Watchdog`) is none of the set's. The bounds are constants like any
other: each theorem holds for every value of them.

**SyntaMountProofs.** `TypeSafety == Spec => []TypeOK` and `HaltSafety == Spec => []HaltHolds`, for
any set of clients and operations, with cancellations, orphans, bad lines and runaways as
adversarial as the constants allow. `HaltHolds` is not inductive: that nothing turns now does not
prevent a coroutine past its guards from turning it next. `HaltInv` adds why it does: after such a
halt no coroutine and no orphan has a move to make (`NothingToStart`), and nothing is remembered
that would start one (`NothingRemembered`: no tracking, none to begin on arrival, no cruise). The
proof has one lemma per group of actions: calls, which the fault refuses; continuations, of which
only harmless ones remain; failures and cancellations; the watchdog; the motors.

Three properties are those of one client (`Alone`): section 7 shows what a second does to each.
`MotionIsOwned` proves `Spec => []MotionHasAnOwner` and `TravelIsKept` `Spec => []MovesStayInTravel`
for a client that waits for the slews it begins and whose commands are carried out (`Sure`), the
first on axes that may break down as they please, the second on axes that do as they are told; the
watchdog may look or not. `OwnInv` adds what each place in the code knows: an axis that cruises has
its wait going on, a move about to start will have one, and a rate on declination is
one end of a pulse or the other. `ParkedIsHome` proves `Spec => []ParkedAtHome` for any operations,
with answers lost, waits that run out, late slews and cancellations, provided that no cancelled
coroutine leaves a thread behind (`NoStrays`) and the axes do as they are told. `ParkedAtHome` says
nothing of how park gets there; `HomeInv` follows it: while park waits, each axis is at home or on
its way there with that move expected, so that the watchdog finds nothing to halt (`HomeBound`);
a parked mount stands (`Standing`), and nobody is about to move it (`StaysHome`).

**A mount that guides is not halted** (`SyntaMountProofs`). `GuidingIsNotHalted` proves `Spec => [](~fault)` of any number of
coroutines that track, offset the rate, step the declination, stop, wait, unpark and clear faults (`Guiding`:
what the guide loop sends by default, and what may be asked for beside it), cancelled at any await, with bad lines, late answers and threads
left behind, on axes that do as they are told. So `HaltsOnlyForRunaways`, which does not hold of the driver
at large (section 7), holds of guiding. That there is no fault is far from inductive. `GuidingInv` says that the watchdog has nothing
to hold against the mount: right ascension turns at its tracking rate only while tracking is on, declination
not at all, nothing is remembered that would turn them otherwise, no strike is counted (`Explained`); and every coroutine at its await, and every
thread left behind, will do no more than keep it so (`Waits`, `MayDo`): whoever is to set a rate is to set the tracking rate, and tracking
is on by then, since nothing here ever switches it off.

**TaskEngineProofs.** `EngineSafety == Spec => []EngineInv`: `TypeOK`, `OneAtATime` and `ReportsAgree`
are inductive together. `OneAtATime` alone is not, since that a terminal task is over is
what lets `Busy` mean what it says. `EngineIsExclusive == Spec => RigIsExclusive` is the refinement:
`Submit` maps to `Take`, every way for a runner to end to `Leave`, the rest to stuttering; the lemma
`OwnerIsRunner` shows that the CHOOSE in `Owner` has no choice.

**EventStreamProofs.** `BusIsTyped == Spec => []TypeOK` and `DashboardsMoveOn == Spec =>
NeverGoesBack`. The invariant says that each buffer is in order, that nothing in a queue is older
than what its dashboard shows or is about to be told, and nothing anywhere newer than the truth
(`IInv`). `DashboardsAreFed == Spec => MovesForward` is the refinement of `ForwardFeed`, which says in one
specification that nothing is shown before it was so, nor taken back: `Change` maps to `Say`, connecting and closing to `Arrives` and
`Leaves`, each message shown, the current state on subscribing included, to `Shows`, the
rest to stuttering. `DashboardsAreFedBesideIt` is the same of `NightLog`. Lemmas about `Append`, `Tail` and `Pushed` say that they keep a sequence so ("well kept").
Of the composition with the journal, `JournalIsInTurn == LogSpec => []RecordedInTurn` and
`DashboardsMoveOnBesideIt == LogSpec => NeverGoesBack`, for any number of messages and any `Carried`.
`JournalInv` adds that the updates in the journal's queue are in order and count no fewer messages
than it has noted (`HeardInTurn`), that the log is in order and ends where `noted` is, and that with
nothing shed the last update heard or to be heard is the last said (`NothingIsMissing`).

**GuidingLoopProofs.** For any handlers, any number of loops and every failure: `NothingIsLeftBehind
== Spec => []NoOffsetLeft`, `TheMountIsNotShared` and `ItSaysWhatItDoes` for `MountIsNotShared` and
`SaysWhatItDoes`. None is inductive. `GuideInv` says who will take an offset back: an offset the
service believes in belongs to a loop that corrects, or to a stop that waits for one
(`OffsetHasAnOwner`); one that the mount has is believed in, or somebody is about to restore it
(`RateHasAnOwner`). While requests come one at a time (`orderly`) it adds that each is alone
(`OneRequest`), that every loop is the service's or awaited by its stop (`LoopsAreKnown`), and what each phase of a
request still knows of what it checked when it began (`PhasesAgree`).

**CameraSharingProofs.** `ExposuresStartClean == Spec => []SensorIsReady`, for any parties,
`Askers` included; `NobodyIsRefused` proves `Spec => []ClaimsAreServed` from `Askers = {}`, which is what section 7
says it takes. `SharingInv` ties the locks to the places (`LocksAgree`: in line exactly if not idle, past the line only at
its head, the camera held exactly on it) and, while nothing is `disturbed`, gives each state of the sensor somebody,
or an abandoned thread, who will end it (`SensorIsOwned`), the order the threads are in
(`ThreadsInOrder`), and `setup = applied` (`SetUpIsKept`).
`OneAtATimeInside` and `OneOnTheCamera` are two refinements of `ExclusiveUse`. By the first the preview's lock lets in
one after another: the user is whoever of its `Lockers`, the live view among them, is past the line (`Insider`); each step, be it an interruption, a failure or a
cancellation, moves one party, so it is enough to look at where that one was and is
(`StepsGo`). By the second the camera's own lock does, for every party, `Askers` included: `cam` is its user. Neither has a hypothesis: a
thread that was abandoned is not a user, and what it can still do to the sensor is what `SensorIsReady` is about.

**ImagingSessionsProofs.** `CountedFramesAreThere` proves `Spec => []CountedIsOnDisk` from `~Shared`, and without any hypothesis
`NamesComeToSomething` (`NothingDangles`), `FollowersFollow` (`LinkedFollow`), `DeletedIsDeleted` (the action
property `DeletedStaysDeleted`) and `RunsComplete` (`CompletesInFull`), for any sessions, names, counts
and crashes. `ImagingInv` adds what a task carries across its awaits (`TaskIsSound`), that frames are
numbered, so that a new one is new (`FramesAreNumbered`), that a folder is one session's (`FoldersAreOwned`),
and that what a task will count next is on disk when it does (`TaskCounts`). The actions are first reduced to what
they come to (`StepKind`): the preservation lemmas reason about those kinds, not about the code's branches.
`CountingKeeps`, `RelinkFollows` and `AsideMoves` are the lemmas about the operators.

**ObservatoryProofs.** `TheRigKeepsADevice == Spec => []AlwaysADevice`, with no hypothesis about what overlaps:
by `RigInv`, a device that a switch has made and may still undo is known to that switch alone (`FreshIsApart`), and who lets an
old device go has its new one open (`SwitchesAnswered`), so each role keeps a device that is open and that nobody may undo
(`RolesAreServed`). `WhatIsStoredIsDriven`, `ServicesAreOnTheRig` and `NothingGoesOn` prove `StoredIsDriven`, `OnTheRig` and
`NothingLeaks` by `TurnInv`: while no request overlapped a switch, either nobody switches and everything is
in place (`Steady`), or one request does, alone, and `MountStage` or `CameraStage` says which of the old rig and the new
stands at each of its awaits. For any drivers, rates, requests, crashes and restarts.

**NightRunProofs.** `LightsAreFiled == Spec => []LightsAreFiledWhereTaken`, `ReportsAreSo` (`ReportsAreTrue`) and
`SlackIsGone` (`SlackIsTakenUp`), for any kinds of task, any plan, targets and counts, and any operator. What the
proof assumes of the constants is what the code gives them: a plan's blocks ask for lights of a target, the slack of the
gears is no more than the backlash the focuser is sent below by (`Slack <= Backlash`), and `None` is no value.
None of the three is inductive. `NightInv` adds what each await of a task still knows: that a task that has not begun its step has
done nothing of it, and counts within its bounds (`TaskIsSound`); that the blocks that are over have an
outcome, those to come have no light, and the one that runs has the lights it counts (`SessionIsCounted`); that while the mount is not `astray` it is at the active target, and a slew that
was named leads there (`MountIsKnown`), that a goto's target is the active one for as long as there is one, and what it saw is so
unless it was moved (`TaskIsOnTarget`), so that a light on its way to disk bears the right label (`LightsAreRight`); and, at each await of the focus run, where the
focuser is headed and that it goes up (`FocusIsMeasured`). The steps of the tasks are
grouped by what they do to the mount and the target (`Stays`, the ends of steps, slews and waits), and each part of the
invariant has a lemma for each group. `BlocksRunInTurn == Spec => Turns!Init /\ [][Turns!Next]_<<Hows, Session>>` is the safety half of
`RunsInTurn`: the end of a block maps to `BlockEnds`, a cancelled session to `Cancelled`, a submission to `Starts`, the
rest to stuttering; its other half, that no run goes on for ever, is liveness.

**Polar alignment** (`TaskEngineProofs`). For any dashboards, readings, shots kept, turns and resets: `FitsAreOfTheirFrames`, `MeasurementIsOne` and
`KnobsFollow` for `FitIsOfItsFrames`, `OneMeasurement` and `KnobsGoForward`. What makes them inductive (`PolarInv`): the
lock is held by at most one request, the one past its wait (`LockIsHeld`); nothing kept is numbered beyond the last
shot, and a shot being solved is that one (`ShotsAreNumbered`); frames, shots, the last solve and the shot under way are of the
measurement in hand unless a reset overtook them, and of one turn of the knobs until they are adjusted
(`SessionIsOne`); every list of frames on the way to those kept has a fit (`FitStands`), so that
dropping one never leaves a fit that is not of the rest; and a sweep under way has points of its own and no axis yet (`SweepIsOne`).
`OneShotAtATime == PolarSpec => ShotsAreExclusive` shows that shots implement `ExclusiveUse`: the user is whoever exposes or solves, which
`LockIsHeld` shows to be the lock's holder; `reset`, which takes no lock, is no exception.

**The drift of a star** (`GuidingLoopProofs`). For any set of drifts and of dithers, any window,
limits and number of troubles: `WindowIsTrue` for
`WindowIsOneTrack`, and `CorrectionsConverge` for `NeverOvercorrects` if a correction may be as large as what the sky does in a
frame (`KeepsUp`; a star that drifts faster than the mount may be corrected is not held, by any loop). Three parts are added to the
types: the rows are in order of age, the newest of now (`RowsInOrder`); a correction leaves at
the end of a frame, before anything else was sent (`TurnsAgree`); and, which is the point, the star *is* where its newest row,
the drift since and what was sent since put it (`StarIsOnTrack`), so that the next frame lies on the line of the
earlier ones. For `NeverOvercorrects` the invariant also follows a correction to the frame that shows it
(`CorrectedIsCloser`): what is taken back is a share of the offset, and limiting it to `MaxUnits` never turns it round. `Reach` and
`MaxTroubles` are constants like the others. `DithersSettle` proves
`SettledIsThere` if `Hold` is three ticks or more (`Patient`; the code waits 8 to 10 s, with frames of 2 s unless set
otherwise), however strong corrections are. `HeldInPlace` says why: from the second tick of small errors on, the star
is near the lock at this frame and the next, provided that the correction on its way answers a small error, and that the
third tick makes sure of.

Each of these modules also proves its `TypeOK` (`TypeSafety`, `PolarTypeSafety`, `DriftTypeSafety`).

**The line below the mount** (`SyntaMountProofs`, `Line!…`). On the wire format: `EncodingIsUndone` (for every number of 24 bits),
`PositionsAreReadBack`, and `ModesAreDistinct` (no two kinds of motion are sent as the same digit). On the
conversation, on a line whose replies come in time or never (`Prompt`): `NoCrossedAnswers`, no thread is given the answer to
another's command, for any number of threads, losses and garbling; `RetriedOnce`, a command is obeyed
at most once for each of its two sendings, and one that is answered has been obeyed. The invariant,
`LineInv`, is that there is at most one request or reply on the line, of the exchange that the lock's
holder began. `SerialLine` is not run by TLC: the theorems cover every instance.

**The mount's geometry** (`SyntaMountProofs`, `Sky!…`). For every angle, in whole arc seconds:

- `FoldIsAPointing` and `AxesPointThere`: the axes computed for a place and a side of the pier point there, from that side;
- `SyncReadsBack`: after a sync the mount reads back the place it was told, and the axes have not moved;
- `GotoReadsBack`: after a goto it reads back its target, whatever was synced before, *if* the target's
  declination less the offset's lies within −90° ≤ δ < 90°. The premise is necessary: section 7;
- `CounterweightStaysDown`: a slew that begins with the counterweight down, a quarter turn and the
  meridian margin at most from home, ends so and is so on the way; `NoFlipNearTheMeridian`: a
  target within the margin is reached without changing sides;
- `LimitsAgree`: the two checks of the axis limit, before the lock and under it, agree; and a limit of
  half a turn or more refuses nothing (the default is 185°);
- `NudgesGoTheirWay`: a nudge north raises the declination, one west the hour angle, on either side of the pier.

The proofs split on the side of the pier and on which way an angle wraps; each leaf is linear
arithmetic, to which the lemmas about `%` reduce the angles.

## 7. Where the code and the properties part

One run is a counterexample to what the repository says of itself.

- **`MountMovesAfterHalt`** (`docs/hardware.md`: "Once halted, the mount refuses every move"). A
  coroutine checks for a fault and then waits for the lock. If the watchdog, holding the lock, halts
  the mount meanwhile, the coroutine goes on to start the motors. `HaltHolds` is what remains true, with
  `clean` for its hypothesis; re-checking `_fault` under the lock would make the stronger one hold.

The others are conditions of the passing properties, either a history variable in the property or a
restriction of the instance. To see one, drop the hypothesis from the property, or change the
constant, and run the named configuration with that property alone.

**The mount**

| Property | Does not hold when | Because | Reproduce in |
|---|---|---|---|
| `MovesStayInTravel` | a slew is begun by `POST /mount/slew`, which nobody waits for | a cruise is stopped only by `wait_for_slew`'s poll | `MountMoves`, `Ops` with `"slew_to"` |
| `MotionHasAnOwner`, of a cruise | two clients move different axes; or a wait runs out or fails and another move begins | `_start_goto` empties `_cruise` | `MountMoves`, two clients |
| `ParkedAtHome` | another client aborts | `wait_for_slew` returns normally | `MountMoves`, two clients |
| `MotionHasAnOwner`, of a pulse | the pulse is cancelled while its start command is in a thread | the `try` begins after that await | `MountMoves`, `Cancellations`, `MaxOrphans = 1` |
| `HaltsOnlyForRunaways` | a right-ascension pulse runs with tracking off; a slew begins and ends between two readings; an abort or homing clears the expectation of a pulse that waits for the lock; two pulses are each found running down at successive readings | the watchdog compares two readings and knows of no other move. Without pulses, slews and switching tracking off it holds: `GuidingIsNotHalted` | `MountHalt`, `Unreliable = {}` |
| `GotoReadsBack` | the declination offset of a sync carries the target over a pole | the axes go beyond the pole, where the position reads back half a turn away | premise of the theorem |
| `LimitsAgree` | always, by default: nothing is ever refused | 185° is more than any target needs, so a mount synced to the wrong star is not caught by it | the theorem's second half |
| `NoCrossedAnswers` | a reply comes about when its time-out ends (`~Prompt`) | it is there to be read when the next command reads; nothing in a reply says what it answers | premise of the theorem |

What is proved of an answer is also whose it is, not that it is whole: a partial reply that begins
with `=` is taken as complete (`protocol.py:185`), although the docstring says a partial frame is retried.

**Tasks and the night**

| Property | Does not hold when | Because |
|---|---|---|
| `CancelStopsMotors` (`TaskEngine`, checked by no run) | a task is cancelled twice | the second cancel lands in `zenith.py`'s `await abort_slew()` and cuts it short: "Cancelling the task has to stop the motors". Add it to `Tasks` |
| `LightsAreFiledWhereTaken` without `astray` | the mount is moved by a route or a polar sweep, or a goto is refused or cut short | the active target is named by a goto, before its slew, and by nothing else |
| `RunEnds` for reframing | no frame solves, or the camera is not turned | the loop has no other end (`reframe.py:214`) |
| `RecordedInTurn` beyond `Carried` | a task says more than twenty things | an update carries the last twenty messages (`task.py:122`) and the journal takes the list's length for what it has seen (`journal.py:148`): after the twentieth nothing more of the task is written, although `journal.py:4` promises "every task and what it said" |

Further behaviours that the night model has and no property speaks against: a block's `centred`
says that centring was asked for (`session.py:88`), and reframing reports a match after a second centring
whose result it does not look at (`reframe.py:175`); a block that fails reports no frame of those it saved; a failed
autofocus leaves the focuser at the top of its sweep; a sweep near zero is clamped, and backlash is
not taken up there, nor at a best position that the fit puts beyond the focuser's other end (`simulator/focuser.py:79`
stops the way down and the way up at one place), which is what the two conditions of `SlackIsTakenUp` exclude; guiding is not stopped for a slew; a cancelled goto leaves the slew running; with the simulator, an
abort by the operator cancels the whole task that waits for the slew, where the Synta driver's wait
returns as if it had arrived. In `assistant.py` the four legs are north, north, south, north, so that they
end two legs north of where they began.

**Cameras and guiding**

| Property | Does not hold when | Because |
|---|---|---|
| `SensorIsReady` without `disturbed` | the live view is interrupted in `start_video_capture`; a setting fails half way; an abandoned call is overtaken | it stands before its `try`; `_applied` is updated only when all succeeded; threads cannot be cancelled |
| `ClaimsAreServed` with `Askers = {refine}` | somebody exposes outside `paused()` | `routes/polar.py` does |
| `MountIsNotShared` without `orderly` | two starts overlap | the guard precedes three awaits |
| `SaysWhatItDoes`, `MountIsNotShared` without `orderly` | a calibration is asked for while the loop runs, or a task begins during one | neither is looked at, or only once |
| `SaysWhatItDoes` without `orderly` | a dither follows a stop | the guard looks at `_lock_position`, which a stop leaves |
| `NoOffsetLeft` without `cut` | a stop cancels the loop in `set_ra_rate_offset` | `_ra_offset` is assigned after it |
| `WindowIsOneTrack`, `NeverOvercorrects` without `muddled` | a dither, or the pick of a star, falls into an exposure; a star is lost for more than 30 s | the frame is measured against the old lock point and enters the new window; what was sent meanwhile is counted for 30 s only |
| `SettledIsThere` without `muddled` and `blind` | as above; or the star is lost while a dither waits | the wait looks at the last sample, which is from before |
| `SettledIsThere` with `Hold` of one tick or two | an exposure is half as long as the wait, or longer | the wait counts from a sample that may be from before the dither, and ends before the last correction's sample is in |

`ComesBack` needs no hypothesis but that the star is within the search radius: what a disturbance leaves in
the window is forgotten. A guide camera exposed through `/camera/expose?role=guide` collides with the guider, since
that route does not take its lock (`Collides`); the loop then ends, and says so.

**Storage, devices and polar alignment**

| Property | Does not hold when | Because |
|---|---|---|
| `CountedIsOnDisk` with `Shared = TRUE` | two sessions of a night bear one name | they share a folder, and the redo of one sets the frames of the other aside |
| `CountedIsOnDisk`, `NothingDangles` without `torn` | the process dies in a redo, or between a frame and what tells of it | several files change one after the other; `session.json` and `set.json` are written in place |
| `LinkedFollow` beyond an exposure found | resumed flats look for their exposure again | dark flats that were shot follow the new one |
| `StoredIsDriven`, `OnTheRig`, `NothingLeaks` without `overlapped` | a request comes while a switch is under way | the field is set before the await: a switch to the same driver returns at once with the old camera; the slew rate goes to the mount that leaves; a guide start goes on with the guider that is replaced |
| `OneMeasurement` without `overtaken` | a reset comes while a shot is exposed or solved | `reset` takes no lock; a live frame then finds no fit (`polar.py:332`) |
| `FitIsOfItsFrames` across services | the site is changed during a sweep | the sweep goes on with the service that was replaced |

Also in these models: a session renamed while it is shot has its frames in two folders; a deleted session loses
the frame in flight; a stray thread adds a frame without a row; dropping a frame may fail *after* it was
dropped, when the site was changed; a refinement takes the mount to be where the sweep left it.

**The event bus.** `CaughtUp` (a dashboard that has read everything shows the present) does not hold when a change is published
between reading the state and subscribing, since `ws.py` subscribes last, nor after a flood, since queues drop their oldest, whatever it is.

## 8. What is only model-checked, and what is not modelled

*Only model-checked*: every liveness property (`MotionEnds`, `CancelReturns`, `StopReturns`,
`WaitersGetIn`, `LiveViewReturns`, `ComesBack`, `RunEnds`, and the liveness in `RunsInTurn`): the prover
does not do liveness under fairness, nor ENABLED. Every invariant and every action property of the
passing runs is a theorem; where it is one only under a hypothesis, section 6 names that, and
section 7 shows what happens without it. The modules use no recursive definitions.

*Not modelled*, and why:

- floating-point mathematics: seeing and worm, the fit of polar frames, ephemeris and planning, star
  detection and plate solving. What is modelled of them is whether they succeed and of what their
  result is; their numbers are out of the model checker's reach;
- the cooler: its ramp, and the camera's controls;
- the vendor SDK's binding, beyond the success, failure and delay of its calls; the idle preview of the guide sensor;
- connecting to and disconnecting from the Synta controller, its inquiries and the worm readings; a
  right-ascension pulse with tracking off; backlash of the mount; the UDP transport of the line;
- a write of the state file or of a plan that fails (each is replaced whole, by a rename);
- the simulator's rendered sky; the legacy import, which runs once by hand; HTTP and configuration
  (pure translation); the dashboard, which is JavaScript in a browser.

`PROJECT.json` lists every component with its status.

## 9. Plan

Done: the mount with its halt, its geometry and its line; the task engine and its abstract
specification; the task bodies on a rig with an operator, and what a session promises; the live view and the camera; guiding, as
requests and as a closed loop; the event bus, what it promises a dashboard, and the journal; imaging sessions with crashes; the observatory's switches;
polar alignment.

Models worth adding: the cooler's ramp under overlapping requests; a right-ascension axis with a third state,
stopped, so that tracking switched off stays off; the mount's connection, with the motors at `disconnect`.
