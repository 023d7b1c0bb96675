# A verification development for linux-dummy-drivers

The repository is a collection of small Linux kernel modules.  Each one shows
how a subsystem is driven, with memory in the place of hardware.  This
directory holds TLA+ modules for the parts of them that keep state, TLC
configurations that check the modules on small instances, and TLAPS proofs.

Paths below are relative to the repository's `src/`.

## 1. Inventory

### v4l2 streaming path (`v4l2/video.c`)
* *State*: `struct dummy_video`: the list `queued_bufs` under
  `queued_bufs_slock`, the counter `sequence`, the timer; in each buffer a
  sequence number and the picture copied into it.  videobuf2 (vb2) adds the
  state of every buffer, the buffers it keeps until streaming starts, the
  list of completed buffers, and the flag for a sleeping `DQBUF`.  Around the
  queue: the files open on the node, which of them owns the queue, and how
  far the module's exit function is.
* *Operations*: `queue_setup`, `buf_prepare`, `buf_queue`,
  `start_streaming`, `stop_streaming`, and the timer callback
  `dummy_video_timer_func`, which re-arms its own timer; open, close and
  `dummy_video_drv_unregister`.
* *Interaction*: every queue ioctl holds `vb_queue_mlock`.  The callback
  holds no mutex; it meets the ioctls at the spinlock and in
  `vb2_buffer_done()`.  `DQBUF` gives the mutex up while it sleeps.
* *Hard*: a stop against a callback at any point of its work; a callback that
  re-arms what `timer_delete_sync()` waits for; an empty list that must not
  end the timer chain; a buffer filled while no lock is held; the int
  counter reduced modulo a `size_t`; an exit function that deletes the timer
  before it takes the mutex under which the timer is started.
* *Correct when*: each buffer is in exactly one place, nothing runs after a
  stop, frames come in order, numbered without a gap, and whoever waits is
  served; and an unload finds no timer, callback, buffer or
  lock holder.

### Driver registration (twelve modules)
* *State*: what a driver has acquired: chrdev region, class, device, and what
  its subsystem gives it.
* *Operations*: the register function with its `goto` chain, the unregister
  function, in each of `template`, `static_call`, `firmware`, `regulator`
  (provider and consumer), `gpio`, `i2c`, `spi`, `fbdev`, `drm`, `v4l2`, `net`.
* *Interaction*: class names are global; devres and kobject ownership release
  some resources along with others.
* *Hard*: a failure at any step; results not looked at, a stale `ret`; two
  releases of the same thing; the order in which owners go.
* *Correct when*: a module that is gone has left nothing, has released
  nothing it did not hold, and a module that stays has all it is for.

### fbdev deferred I/O (`fbdev/dummy-fb.c`)
* *State*: the pages dirtied since the last flush, which pages are writable
  without a fault, the delayed work, the dirty area being computed.
* *Operations*: `dummy_fb_deferred_io`, `dummy_fb_write`; the fault and the
  work are fb_defio's.
* *Interaction*: applications store through a mapping at any time, also
  during a flush; `write()` copies first and schedules afterwards.
* *Hard*: bytes of pages rounded to lines; a store between write-protection
  and the emptying of the list; a loop variable read after the loop.
* *Correct when*: each store ends up in a reported area.

### i2c transfer engine (`i2c/i2c.c`)
* *State*: `struct dummy_i2c`: `msgs`, `curr_msg`, `byte_left`, `byte_pos`, a
  completion, the address and direction registers.
* *Operations*: `dummy_i2c_xfer`, `dummy_i2c_do_msgs`,
  `dummy_i2c_send_start`, `dummy_i2c_isr`, `dummy_i2c_send_stop`,
  `dummy_i2c_hw_init` on a timeout.
* *Interaction*: clients come in one at a time by the adapter's bus lock, and
  find the fields as the last one left them.
* *Hard*: the completion comes before anybody waits for it; `byte_left--`
  leaves the counter at its largest value; the reset after a timeout.
* *Correct when*: transfers are played whole, in order, one at a time, and no
  message waits for its timeout.

### Dummy bus (`bus/dummy_bus`, `bus/basic_bus`)
* *State*: which bus, device and driver modules are loaded; the lists of the
  bus; for each device its driver (`dev->driver`) and its lock; for each
  driver the devices its `probe()` was told of.
* *Operations*: `dummy_bus_init`/`_exit`, `dummy_bus_match`,
  `dummy_bus_probe`, `dummy_bus_remove`, registration and deletion of devices
  and drivers, `bind` and `unbind` in sysfs.
* *Interaction*: each insmod and rmmod is a thread.  A device that is added
  walks the drivers, a driver that is added walks the devices; both may reach
  the same pair, in either order, and serialise at the device's lock.
* *Hard*: two walks that must not both miss the pair nor both bind it; a
  driver's module going while a walk is about to call its `probe()`; a match
  evaluated before the lock and used after it; the sentinel of `id_table`; a
  static device whose memory goes with its module while a walk refers to it.
* *Correct when*: a pair that matches finds each other, probes and removes
  alternate, and no code is called that is not in memory.

### DRM display pipe (`drm/drm_simple_display_pipe/drm.c`)
* *State*: the states of CRTC and plane, the mapping of the framebuffer, the
  unplugged flag with its read-side sections, and how far
  `dummy_drm_unregister` is.
* *Operations*: the pipe's `begin_fb_access`, `disable`, `update`,
  `end_fb_access`, `enable`; `drm_dev_unplug`, `drm_atomic_helper_shutdown`,
  `device_destroy`.
* *Interaction*: commits come from files, from a file's last commit after the
  file is closed, and from the fbdev client in the kernel, which keeps no
  reference to the module; unload races with all of them.
* *Hard*: an update just before or just behind `drm_dev_enter()` when the
  device is unplugged; a section that is not left; the order of the three
  calls, about which the function has a comment.
* *Correct when*: memory is freed last, nothing is drawn after unplugging,
  and the exit function returns.

### The smaller parts
| component | state | status |
|---|---|---|
| v4l2 format ioctls | none: they return constants | not modelled |
| fbdev drawing and colours | pseudo palette | not modelled |
| net device | the core's: counters, address, carrier | registration only |
| spi transfers | none: a transfer is logged | registration only |
| regulator operations | a flag and a voltage, set by nobody in the repository | registration only |
| gpio operations | none: constants | registration only |
| static_call demonstration | none after load | registration only |
| hello | none | not modelled |
| framebuffer tools (`tests/`, `tools/`) | user programs, pure I/O | not modelled |

## 2. Modules

| module | models | checked as |
|---|---|---|
| `CaptureQueue` | what a capture device promises an application | abstract |
| `DummyVideo` | `v4l2/video.c`, streaming | `MCDummyVideo` |
| `DummyVideo_proof` | its inductive invariant, proved | |
| `DummyVideoOrder_proof` | numbering, sizes and the refinement of `CaptureQueue`, proved | |
| `VideoNode` | `v4l2/video.c`, files and unloading, around `DummyVideo` | `MCVideoNode` |
| `VideoNode_proof` | that it implements `DummyVideo` and `CaptureQueue`; its safety, proved | |
| `DriverLifecycle` | register and unregister functions, over any scripts | `MCDriverLifecycle` |
| `DriverScripts` | the scripts of the twelve drivers | `MCDriverLifecycle` |
| `DriverLifecycle_proof` | proofs about `DriverLifecycle` | |
| `DeferredIo` | `fbdev/dummy-fb.c`, dirty tracking | `MCDeferredIo` |
| `DeferredIo_proof` | its safety, proved | |
| `SerialBus` | what an I2C adapter promises its clients | abstract |
| `DummyI2c` | `i2c/i2c.c`, transfers | `MCDummyI2c` |
| `DummyI2c_proof` | its safety and the refinement of `SerialBus`, proved | |
| `Matchmaker` | what a bus promises devices and drivers | abstract |
| `DummyBus` | `bus/dummy_bus` and `bus/basic_bus` | `MCDummyBus` |
| `DummyBus_proof` | its safety and the refinement of `Matchmaker`, proved | |
| `DrmPipe` | `drm/drm_simple_display_pipe/drm.c`, commits and unloading | itself |
| `DrmPipe_proof` | its safety, proved | |

Operators named `X_Something` under a comment "Faulty variant" stand for
plausible mistakes in `X`.  No specification uses them: they are what the
properties are tried on.

### DummyVideo
Every lock region and every lock-free stretch of the callback is an action:
`TimerPop` (the spinlock section of `dummy_video_timer_func`), `TimerFill`
(`memcpy`), `TimerStamp` (`sequence++`), `TimerComplete`
(`vb2_buffer_done`), `TimerResched` (`resched:`).  `stop_streaming` is
`StopTimer` (`timer_delete_sync`), `StopDrain` (one round of the while loop),
`StopDrained`, and `StopFinish` for what vb2 does afterwards.  The queue
ioctls are one action each, as they hold the mutex: `Reqbufs`, `CreateBufs`,
`PrepareBuf`, `Qbuf`, `StreamOn`, `Dqbuf`, `DqbufWait`/`DqbufWake`/
`DqbufGiveUp`, `CancelIdle`, `StopBegin`.  A stop may start between any two
steps of the callback and the callback may run between any two steps of a
stop.  vb2 is external: it appears by what it does to the buffer states and
by the driver operations it calls.

### VideoNode
Composes `DummyVideo` with the files of the node.  Every ioctl is now one of
a file that may use the queue (`MayUse`: vb2 answers `EBUSY` to all but the
owner); `REQBUFS` and `CREATE_BUFS` make the caller the owner.  `DQBUF` is
`FallAsleep` and `WakeUp`, and `sleeper` remembers in whose file: after
STREAMOFF the owner may give the queue up with a `REQBUFS` of 0 buffers while
its sleeper is still on the way out.  The owner's `close()` is `CloseOwner`, or, in a session, `CloseBegin` followed by the
steps of the stop.  `Rmmod` waits for the last file, because
`dummy_video_fops` names its `.owner`; `UnregisterTimer`, `UnregisterLock`
and `Unregistered` are the exit function.  `DummyVideo` by itself leaves the
application free to do anything; `NodeImplementsQueue` shows that the node
does nothing else.

### DriverLifecycle and DriverScripts
`DriverLifecycle` is an interpreter.  A script lists the acquisitions of a
register function, whether each result is tested, what the label it jumps to
releases, and what is returned; and the releases of the unregister function.
Each acquisition may fail at each load.  `Family` says what the kernel
releases along with something (devres with its device), `Tolerant` which
releases do nothing for something that is not there.  `StepAfter`, `Label`,
`Result` and `Exit` are the choices a single token of the code makes: the next
step, the label of a goto, what is returned and what the unregister function
calls.  `DriverScripts` holds the scripts, one definition for each driver;
these are what to update when a register function changes.

Four conditions on a script, to be read off the code without running it, say
when it is right: `Leakproof` (each chain covers all that may be held),
`Thorough` (each result that matters is looked at), `Tidy` (each release finds
what it releases, and devres does not release it again) and `Grounded` (what
something stands on is there when it is acquired and goes after it).

### DeferredIo
The work is three steps (`WorkStart`, `Report`, `Put`); stores, faults and
write() come in between.  `unreported` and `written` are history variables:
what has been stored and not been in a reported area.  The arithmetic of the
driver's loop is in `y_cur`, `y_end`, `Top`, `DirtyArea`, `Wide`.  `Wide({})`
is `BOOLEAN`: the driver reads a variable it has not assigned.

### DummyI2c
One action for each stretch of `dummy_i2c_do_msgs`: `Reinit`, `SendStart`,
`IsrByte` (one test of the loop condition, with its decrement), `SendStop`,
`Wait`, `Return`.  `Xfer` is the core taking the bus lock.  `wire` is a
history variable: what a logic analyser would show of the transfer.

### DummyBus
The driver core is external, and its order is what matters: a device is in
the list before it walks (`dummy_device_init`, `DeviceAttach`, `DeviceAsks`,
`DeviceProbes`, `DeviceAskedAll`), and holds its own lock all the way; a
driver is in the list before it walks (`dummy_bus_register_driver`,
`DriverAsks`, `DriverLocks`, `DriverProbes`, `DriverAskedAll`), calls
`match()` without a lock and then takes the device's, where it looks again.
Unregistering unlinks, waits for walks that stand at the driver, and detaches
one device at a time.  `dummy_bus_match` is the loop over `id_table`,
`basic_bus_match` the comparison of names.  `DeviceReleased` shows what a
static device means: a driver's thread that still refers to it goes to
`"fault"` and stays there.  `parted[r]` is a history variable: the devices
that lost a driver after `r` had passed them, which nobody offers to `r` again;
a driver loaded after the loss must bind.

### DrmPipe
One action for each callback, in the order of the atomic commit tail; update
is split at `drm_dev_enter()`, so that unplugging comes in between.  The exit
function is the sequence `dummy_drm_unregister`; each call that waits is two
actions, one for what it starts and one for its return.

### Abstract specifications and how they are implemented
* `DummyVideo!Capture` maps the driver to `CaptureQueue`.  The abstract queue
  is what stop has already put on the done list in error, then the buffer in
  the callback's hands, then `queued_bufs`, then what vb2 still keeps.  The
  done list has its buffers in error at the end; `Completed` is where they
  start, and what comes before is the abstract list of filled buffers.  A fill
  is `TimerComplete`; a cancellation is `StopFinish` (or `CancelIdle`); all
  else stutters or maps to submit, start and collect.
* `DummyI2c!Bus` maps the engine to `SerialBus`: `Return` is the step in which
  a request is served, with the frames seen on the wire.
* `DummyBus!Agency` maps the bus to `Matchmaker`, which knows who is present and
  who is bound to whom, and where bindings come only between a present device
  and a present driver that fits it.  All the walking, locking and
  unlinking stutters.

## 3. Runs

| run | shows |
|---|---|
| `video_safety` | ownership of buffers, clean stop, live timer, numbering, and that what may be allocated may be queued |
| `video_node` | two files compete for the queue and the module may go: buffers and sessions have an open owner, a sleeper has its file open and no other file owns the queue beside it, the exit function meets a quiet driver, the driver implements `CaptureQueue`; a queued buffer is filled or cancelled, a stop returns, a sleeper in `DQBUF` is served |
| `video_wrap` | violated: the animation does not loop where the counter changes sign or wraps |
| `lifecycle` | template, static_call, firmware, i2c and net leave nothing behind, release nothing twice and stay loaded only when complete, with drm loaded beside them under the template's class name |
| `regulator_leak` | violated: the regulator driver leaks its device when its last step fails |
| `video_stray` | violated: unloading the video driver frees a static object |
| `gpio_incomplete` | violated: the GPIO driver stays loaded without its chip |
| `fb_flush` | every store is reported over its whole width, none is missed between two flushes, and each write() is followed by a flush |
| `fb_write` | violated: a flush after write() alone reports an area that is inside out |
| `i2c_transfer` | the engine implements `SerialBus`; no byte outside a message, no reset |
| `bus_binding` | two devices and two drivers on either bus implement `Matchmaker`; no pair is missed, probes and removes pair up, no call goes into a module that is gone |
| `drm_unload` | the pipe is freed when it is off and nobody can reach it, nothing is drawn after unplugging, the exit function returns |

### Bounds and why they are enough
* `Buffers`: three for safety (one in the callback's hands, one in the list,
  one completed or with the application: every pair of places is inhabited
  and order among two of a kind matters).  They are interchangeable for the
  driver, so `video_safety` uses symmetry; `video_node`, which checks
  liveness and refinement, does not.
* `video_node`: two files and two buffers.  Only one file can own the queue, so
  two are an owner and someone who is refused, or who comes next; a third
  adds another of the latter.  Deadlock is not checked: the module may be gone.
* `FrameCount` 3, `SeqLimit` 8 (4 in `video_node`), `SizeLimit` 16 (8):
  as in the code the widths are powers of two that the animation's length does
  not divide, so the remainder jumps at the sign change and at the wrap.
* `Sizes`: the smallest plane size `queue_setup` accepts and one less.
* `MaxActive` 2: class names are the only thing through which two modules
  meet, and a name is a matter between two.  Loads are not counted: a driver
  may be loaded again and again.
* fbdev: 5 lines of 4 bytes in pages of 9 bytes.  Lines 2 and 4 lie in two
  pages each and the last page reaches beyond the screen, as in the code
  (307200 bytes are 75 pages exactly there, yet lines do straddle, 960 not
  dividing 4096).  Two threads in write() in `fb_flush`.
* i2c: `Width` 4 for a u32; messages of 0 to 3 bytes reach both ends of the
  counter.  Two clients suffice for one to find what another left.
* bus: two devices and two drivers.  On `dummy_bus` one driver lists both
  devices, in the first and in the second entry of its table, and the other
  competes for the first device with a `probe()` that may fail and without a
  `remove()`; on `basic_bus` each driver has one device.  So both walks have
  more than one stop, two drivers meet at one device, and one driver has two
  devices to give up.
* drm: no constants.  One commit runs at a time in the kernel too, so nothing
  is cut off.  Deadlock is not checked: the run ends with the module gone.

### Fairness and why the code justifies it
* `WF_vars(TimerNext)`: an armed timer fires, and a running callback takes no
  lock that is held across a sleep.
* `SF_vars(StopTimer)`: `timer_delete_sync()` retries until it finds the
  callback idle.  The callback is idle once in each period, but not
  continuously, so weak fairness would let the loop miss it every time.
* `WF_vars(StopDrain)`, `StopDrained`, `StopFinish`: a thread that holds the
  mutex goes on.  `SF_vars(DqbufWake)`, `SF_vars(DqbufGiveUp(TRUE))`: a woken
  sleeper competes for the mutex with others and gets it now and then.
* No application is assumed to queue, dequeue, start or stop anything.
* `DeferredIo`: a pending work runs, to its end, and a thread in write() gets
  to its `schedule_delayed_work()`.  No store and no fault is assumed.
* `DummyI2c`: the client in the driver goes on; the bus lock is a queueing
  rt_mutex, so each waiter gets it (strong fairness of `Xfer(c)`).
* `VideoNode`: that of `DummyVideo`, unchanged.  No file is assumed to be
  closed and no module to be unloaded.
* `DrmPipe`: a commit in progress goes on and so does the exit function (weak
  fairness of each step).  `SF_vars(Unplugged)`: the client may commit again
  and again, and is in between commits infinitely often but not for good;
  cancelling its work comes through nevertheless.
* `DummyBus`: none; only safety and refinement are claimed.

## 4. Proofs

All theorems hold for every value of the constants that satisfies the named
assumptions:

* `DummyVideo`: `BufferAssumption`, `SizeAssumption`, `WidthAssumption`: any
  number of buffers (finite or not), any sizes, any animation of at least one
  frame, a size_t at least as wide as an int.
* `DriverLifecycle`: a family contains its owner, scripts are made of steps.
* `DeferredIo`: `GeometryAssumption`: at least two columns and three lines,
  and a page of at least two lines.  The driver takes the width of the area
  from `y_end > 1`, which is right only where each page ends below line 1.
* `DummyI2c`: requests are nonempty sequences of messages whose length fits
  the counter; any width of the counter.
* `VideoNode`: any files; `NoFile` is none of them.
* `DummyBus`: `ActorAssumption`: devices and drivers are distinct;
  `TableAssumption`: an `id_table` ends in its only empty entry and a device
  has a name, as in `bus/dummy_bus/driver.c`.
* `DrmPipe` has no constants.

The arguments:

* `TypeCorrect`: `TypeOK` of `DummyVideo`.  It is inductive as it stands; the
  part that is more than a type is that frame indices stay within `frames[]`
  (`FrameIndexInRange`), sign extension and all.
* `Invariance`: `Inv == TypeOK /\ Ownership /\ Control`.  `Ownership` alone is
  not inductive: `StopFinish` and `Reqbufs` throw lists away, which loses no
  buffer only because nothing is left with the driver by then; that is
  `Control`, the part that relates the control points of the stop and of the
  callback to each other and to the lists.  `Control` in turn needs
  nothing of `Ownership` but its typing.
* `NumberedInOrderHolds` carries `Ordered` along with `Inv`: the completed
  frames, with the one being handed back, are numbered up to the counter
  modulo its width (`CountOn`, `ModRound`); `Ownership` shows that stamping or
  re-queueing a buffer renumbers none of them.  `AllocatedIsQueueableHolds`
  carries the sizes along with `Inv` in the same way.
* `DriverImplementsQueue`: every step of the driver is a step of
  `CaptureQueue` or a stutter.  `RInv` adds to `Inv` what the callback has done
  to the buffer in its hands (`Halfway`: picture and number belong together,
  and the counter is one ahead once the number is given) and that buffers in
  error come last on the done list, and not at all while a session runs
  (`ErrorsLast`), so that `Completed` is well defined.  Most of the work is in
  the order: popping, completing in error and vb2's handing over of pending
  buffers move a boundary in one abstract sequence and leave the sequence as
  it is.  `Ownership` is what makes renumbering the buffer in hand invisible in
  the list of filled ones.
* `OwnershipHolds`, `StopIsCleanHolds`, `TimerAliveHolds` follow.
  `StopIsClean` says that the set of buffers with the driver is empty when the
  list is and the callback holds none, which is where `Ownership` comes in.
* `NoLeakHolds`: if every checked driver's script is `Leakproof` then no module
  that is gone has left anything, for any scripts of any length, any other
  drivers beside them and any failures.  The
  invariant `LInv` bounds what a driver holds: by what its register function
  has come to, and in a cleanup by what the rest of the chain will still
  release.  `Leakproof` is a property of a script alone; regulator, consumer,
  spi and fbdev do not have it.  TLC checks the invariant for the five
  directly, without the hypothesis, and evaluates the hypothesis for
  their scripts (`ConformingAssumption` in `MCDriverLifecycle`).
* `LifecycleTypeCorrect`: `TypeOK` is not inductive; `TypeInv` adds that a
  register function is at most one past its last step.
  `LoadedIsCompleteHolds`: if every checked driver's script is `Thorough`
  (each result that matters is looked at, and a failure is returned as one)
  then it stays loaded only with all it is for.  `KInv` says that what register
  has passed is held, and that a cleanup ends in an unloaded module.
  `ConformingAssumption` covers `Thorough` too, and the next two.
* `NoStrayHolds` and `SupportHeldHolds`: if every checked driver's script is
  `Tidy`, nothing is released that is not held or that the kernel releases
  again; if it is `Grounded`, nothing held ever lacks what it stands on.
  `NoStray` needs a lower bound on what is held as well as an upper one: a
  release is right only if its object is there for certain.  `Bracket` has
  both, `Sure` below and `Acquired` above; between the two are the resources
  whose acquisition nobody checks.  `Neat` and `Upright` add that the rest of
  a cleanup in progress is in order for what is held now, which each release
  passes on to the next (a list of releases that is in order remains so when
  its head is gone, and for fewer things held).

* `DeferredIo_proof` first settles the geometry: what a quotient is bounded by
  (`Quotient`, `QuotientAtLeast`, `QuotientBelow`), that `Min` and `Max` of the
  sets the loop ranges over exist (`MinOfNats`, `MaxOfNats`, from the
  well-foundedness of the naturals), that the lines of a page lie between
  `y_cur` and `y_end` (`PageLines`), and that the area of a list covers all of
  them (`AreaOfList`).  The invariant `DInv` then adds that no page is writable
  while the work runs, so nothing is stored between the report and the moment
  the list is emptied, and that the area in hand is the one of that list.
  `WritesPending` is inductive by itself.
* `DummyI2c_proof`: `IInv` says who is in the driver and with which message
  (`Playing`), where the completion stands at each point of the loop
  (`Signalled`), and that the direction is the message's (`Targeted`).  None
  of the properties is inductive without `Playing`.
  `EngineImplementsBus` adds `Wired`: what has been on the wire is all frames
  of the messages before the current one (`Before`) and the part of the
  current one that has been played.  The frames of a request are defined by
  flattening, which is a recursive function; that it exists, and so can be
  unfolded, is proved from the well-foundedness of the naturals
  (`FlatExists`, `FlattenIs`, `BeforeExists`).
* `VideoNode_proof`: `NodeInv` adds to the queue's `Inv` who answers for what
  is allocated or streaming and in whose file a `DQBUF` sleeps
  (`OwnerAnswers`), that a close has no
  sleeper beside it (`ClosingInv`), and that no file is open once rmmod has
  begun.  From these `NodeStepIsStep`: every step of the node is one of
  `DummyVideo` or leaves it alone, the exit function's `timer_delete_sync()`
  included, since it finds the timer dead.  So `NodeImplementsQueue`, and all
  that is proved of `DummyVideo` holds of the node, `NodeKeepsPromises` (the
  refinement of `CaptureQueue`) among it.  `UnloadIsQuiet` is then
  `OwnerAnswers` with no file to answer, together with `Control`.
* `DummyBus_proof`: `BusInv`.  `DeviceHand` and `DriverHand` say what a walk
  knows of what it has in hand, which is why a driver that is still to be
  probed cannot go; `LockInv` that whoever holds a device's lock finds it
  unbound and is alone, which makes `ProbesPaired` inductive; `WalkInv` that
  walks start from nothing.  `NoMissedBinding` speaks of the end of both walks
  and is not inductive: `NoLostPair` says what is true before, that one of the
  two still has the other ahead of it or in hand (`Pending`).
  `MatchIsSupport` shows that the loop over `id_table` finds each listed name.
  `BusImplementsMatchmaker` proves the refinement step by step from `BusInv`.
* `DrmPipe_proof`: `CommitInv` relates the hardware's state to the old and the
  new state at each point of a commit, `ExitInv` what each call of the exit
  function leaves for the next.  `DestroyedLast` needs both: that the pipe is
  off when it is freed is the result of the shutdown's own commit.

Only model-checked: liveness, which is beyond the prover here.  That includes
the fairness in the specifications of `CaptureQueue` and `SerialBus`: what is
proved of these two refinements is `Safety`, the initial states and the steps,
and the runs check all of `CaptureRefined` and `BusRefined`.  Every invariant
of a passing run is proved.

## 5. Findings

1. `regulator/regulator.c:176`, `regulator/consumer.c:44`: the last step's
   failure returns past the cleanup (`regulator_leak`).
2. `v4l2/video.c:392`: the release callback `kfree`s a static object
   (`video_stray`).
3. `gpio/gpio.c:127`: the result of `devm_gpiochip_add_data()` is dropped and a
   stale `ret` tested (`gpio_incomplete`).
4. `v4l2/video.c:115`: the frame index jumps when the counter turns negative
   and when it wraps (`video_wrap`); at one frame every 40 ms that takes more
   than two years.
5. `fbdev/dummy-fb.c:168`: a flush with an empty page list reads an
   uninitialised variable and reports an empty area (`fb_write`).

## 6. Not modelled, and why

* In `DummyVideo`: `USERPTR` and `read()` are other entrances to the same
  operations; timestamps are copied and looked at by nobody; the null test of
  `vaddr` succeeds for vmalloc memory; time is not modelled, so neither is the
  40 ms period.
* In `VideoNode`: a load that fails (that is `DriverScripts`), and a second
  load, which starts from fresh memory.
* In `DriverLifecycle`: what a register function does besides acquiring and
  releasing; module references; a device opened during an unload.  Seven
  scripts are outside the passing run because a property does not hold of
  them.  Three are in the runs of the findings, and of the others
  `spi` fails `NoLeak`, `NoStray` and `LoadedIsComplete`;
  `fbdev` fails `NoLeak`, `LoadedIsComplete` and
  `SupportHeld`; `consumer` fails `NoLeak`; `drm` fails
  `NoStray` and is loaded beside the checked ones.
* In `DeferredIo`: the length of the delay, the flush on the last close, and
  `fillrect`, `copyarea` and `imageblit`, which store without a fault and
  schedule nothing.
* In `DummyI2c`: register writes, which go nowhere; values of the bytes.
* In `DummyBus`: references to kobjects, uevents, deferred probing, which the
  repository's drivers do not ask for; the two buses at once, as both are named
  `dummy-bus`.
* In `DrmPipe`: the mode list, the connector and the damage's coordinates; a
  commit that fails its check changes nothing.
* `v4l2/frames.h`, 108159 of the repository's 111199 lines of C, is generated
  picture data; of it only the number of frames matters (`FRAME_COUNT` of
  `video.c`), as `FrameCount`.
* v4l2 format ioctls, gpio and spi operations, `static_call`, `hello`:
  constants returned, or pure output.
* net: `dummy_xmit` adds to per-cpu counters of the core and frees the packet;
  the other callbacks hand over to the core or test one attribute.
* regulator: `enable` sets a flag and `set_voltage` keeps a number, but the one
  consumer in the repository takes the supply and calls neither.
* fbdev drawing and colours: library calls, and `setcolreg`, which fills one
  entry of a table that nothing here reads.
* The `tests/` and `tools/` beside the drm, fbdev and spi drivers: user
  programs that read or draw pixels, or send a transfer.

## 7. Plan

1. Invariants and safety refinements are proved; further proofs are about the
   scripts: which of the four disciplines each of the twelve drivers keeps,
   stated beside `DriverScripts`.
2. Pure operators: `setcolreg` with `chan_to_field`, and fbview's pixel
   conversion, each against a reference definition.
