------------------------------ MODULE VideoNode ------------------------------
(***************************************************************************)
(* The device node of v4l2/video.c around the queue of DummyVideo: files   *)
(* that are opened and closed, the one of them that owns the queue, and    *)
(* the unloading of the module, which ends in dummy_video_drv_unregister() *)
(* deleting the timer, taking both mutexes and removing the node.          *)
(*                                                                         *)
(* dummy_video_fops sets .owner, so every open file keeps the module, and  *)
(* .release to vb2_fop_release(), so the owner's close() frees the queue.  *)
(* A module is loaded once here: another insmod starts from fresh memory.  *)
(***************************************************************************)
EXTENDS DummyVideo

CONSTANTS
    Files,      \* open file descriptions of /dev/videoN
    NoFile      \* "no file"

ASSUME FileAssumption == NoFile \notin Files

VARIABLES
    module,     \* "live", or where the exit function is, or "gone"
    files,      \* files that are open
    owner,      \* vb2: q->owner
    sleeper     \* the file whose DQBUF is asleep

nodeVars == <<module, files, owner, sleeper>>
allVars  == <<vars, nodeVars>>

ModulePcs == {"live", "timer", "lock", "unregister", "gone"}

\* vb2_queue_is_busy(): a queue that has an owner serves nobody else.
MayUse(f) == f \in files /\ owner \in {NoFile, f}
-----------------------------------------------------------------------------
(* Files.  v4l2_fh_open(): the module must not be on its way out.           *)

Open(f) ==
    /\ module = "live"
    /\ f \notin files
    /\ files' = files \cup {f}
    /\ UNCHANGED <<vars, module, owner, sleeper>>

\* Faulty variant: .release = v4l2_fh_release, the queue is not released.
CloseOwner_KeepsQueue(f) ==
    /\ QueueLockFree /\ ~dqWaiting
    /\ files' = files \ {f}
    /\ UNCHANGED <<vars, owner>>

\* vb2_fop_release() of the owner, with no session to be stopped first.
CloseOwner(f) ==
    /\ CancelIdle(TRUE)
    /\ files' = files \ {f}
    /\ owner' = NoFile

\* Anybody else's close() takes the queue mutex and finds nothing to do.
CloseOther(f) ==
    /\ QueueLockFree
    /\ files' = files \ {f}
    /\ UNCHANGED <<vars, owner>>

\* A file is released when no ioctl uses it any more.
Close(f) ==
    /\ f \in files /\ f # sleeper
    /\ \/ owner = f /\ CloseOwner(f)
       \/ owner # f /\ CloseOther(f)
    /\ UNCHANGED <<module, sleeper>>

\* The owner's close() in a session goes through stop_streaming() first.
CloseBegin(f) ==
    /\ f \in files /\ owner = f /\ f # sleeper
    /\ StopBegin(TRUE)
    /\ UNCHANGED nodeVars

\* What STREAMOFF or close() has left to do; close() then lets go of the file.
Stop ==
    \/ /\ StopTimer \/ StopDrain \/ StopDrained
       /\ UNCHANGED nodeVars
    \/ /\ StopFinish
       /\ files' = IF closing THEN files \ {owner} ELSE files
       /\ owner' = IF closing THEN NoFile ELSE owner
       /\ UNCHANGED <<module, sleeper>>

\* The ioctls that allocate make the caller the owner; REQBUFS with count 0
\* lets go of the queue.
Allocate(f) ==
    /\ MayUse(f)
    /\ \/ \E new \in SUBSET Buffers :
             /\ Reqbufs(new)
             /\ owner' = IF new = {} THEN NoFile ELSE f
       \/ \E new \in SUBSET Buffers, size \in Sizes :
             /\ CreateBufs(new, size)
             /\ owner' = f
    /\ UNCHANGED <<module, files, sleeper>>

\* The other ioctls.
Ioctl(f) ==
    /\ MayUse(f)
    /\ \/ \E b \in Buffers : PrepareBuf(b) \/ Qbuf(b)
       \/ StreamOn
       \/ Dqbuf
       \/ CancelIdle(FALSE) \/ StopBegin(FALSE)
    /\ UNCHANGED nodeVars

\* DQBUF falls asleep in its file, and goes on later whoever has the queue
\* by then: the owner is compared on entry only.
FallAsleep(f) ==
    /\ MayUse(f)
    /\ DqbufWait
    /\ sleeper' = f
    /\ UNCHANGED <<module, files, owner>>

WakeUp ==
    /\ DqbufWake \/ \E stopped \in BOOLEAN : DqbufGiveUp(stopped)
    /\ sleeper' = NoFile
    /\ UNCHANGED <<module, files, owner>>

Callback == TimerNext /\ UNCHANGED nodeVars
-----------------------------------------------------------------------------
(* Unloading                                                               *)

\* Faulty variant: dummy_video_fops without .owner, an open file does not
\* keep the module.
ModuleUnused_NoOwner == TRUE

ModuleUnused == files = {}

Rmmod ==
    /\ module = "live"
    /\ ModuleUnused
    /\ module' = "timer"
    /\ UNCHANGED <<vars, files, owner, sleeper>>

\* dummy_video_drv_unregister(): timer_delete_sync(), ...
UnregisterTimer ==
    /\ module = "timer"
    /\ CallbackDone
    /\ timerArmed' = FALSE
    /\ module' = "lock"
    /\ UNCHANGED <<bufVars, vb2Vars, stopVars, queued_bufs, sequence,
                   timerPc, timerBuf, files, owner, sleeper>>

\* ... vb_queue_mlock and v4l2_mlock, ...
UnregisterLock ==
    /\ module = "lock"
    /\ QueueLockFree
    /\ module' = "unregister"
    /\ UNCHANGED <<vars, files, owner, sleeper>>

\* ... the node, the mutexes and the last reference: the memory is freed.
Unregistered ==
    /\ module = "unregister"
    /\ module' = "gone"
    /\ UNCHANGED <<vars, files, owner, sleeper>>

Unregister == UnregisterTimer \/ UnregisterLock \/ Unregistered
-----------------------------------------------------------------------------
NodeInit ==
    /\ Init
    /\ module = "live" /\ files = {} /\ owner = NoFile /\ sleeper = NoFile

NodeNext ==
    \/ \E f \in Files : Open(f) \/ Close(f) \/ CloseBegin(f)
    \/ \E f \in Files : Allocate(f) \/ Ioctl(f) \/ FallAsleep(f)
    \/ WakeUp
    \/ Stop \/ Callback
    \/ Rmmod \/ Unregister

NodeSpec == NodeInit /\ [][NodeNext]_allVars

\* The timer, a stop and a woken sleeper go on as in DummyVideo.
NodeFairSpec == NodeSpec /\ Fairness
-----------------------------------------------------------------------------
(* Properties                                                              *)

\* Every variable keeps its type; q->owner never points to a closed file.
NodeTypeOK ==
    /\ module \in ModulePcs
    /\ files \subseteq Files
    /\ owner \in files \cup {NoFile}
    /\ sleeper \in Files \cup {NoFile}

\* Buffers and a session belong to a file that is still open: there is a
\* close() to come that stops and frees them.  So does a sleeper in DQBUF;
\* its file may have given the queue up in the meantime, with STREAMOFF and
\* REQBUFS of 0 buffers, but nobody else gets it before the sleeper is out:
\* no DQBUF takes a buffer of another file.
OwnerAnswers ==
    /\ Allocated # {} \/ streaming => owner \in files
    /\ dqWaiting => sleeper \in files /\ owner \in {sleeper, NoFile}

\* From the moment the exit function starts, nothing is left that could arm
\* the timer behind its timer_delete_sync(), run its callback in memory that
\* is freed, or hold the mutexes it takes.
UnloadIsQuiet ==
    module # "live" =>
        /\ files = {} /\ owner = NoFile
        /\ ~timerArmed /\ timerPc = "idle"
        /\ Allocated = {} /\ queued_bufs = <<>>
        /\ QueueLockFree /\ ~streaming /\ ~dqWaiting
=============================================================================
