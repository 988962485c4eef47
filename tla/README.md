# A verification project for rkadk

rkadk is the application development kit of a camera SoC: a C library that
records video to files, takes photos, plays files, serves live streams and
manages the storage, on top of the vendor's media library (rockit, `RK_MPI_*`).
This directory holds TLA+ models of its concurrent parts, the TLC
configurations that check them on small instances, and TLAPS proofs about them.
`PROJECT.json` maps every definition of the models to the lines it stands for.

To run: `tlc -config X.cfg M.tla` for a pair of the table in section 4,
`tlapm M_proof.tla` for the proofs of section 5.

## 1. Inventory: the system and what makes it correct

### How the parts interact

```
 application ── Create/Start/Stop/ManualSplit/Reset/Destroy ──► Recorder ──► Muxer
     │                                                            │          ▲  │
     ├── VideoInit/AudioInit ──► Stream ───┐                      │   frames │  │ files
     ├── Init/DeInit ──► RTSP, RTMP, Photo ┼──► Media channels ◄──┘          │  ▼
     │                                     │    (counts, binds,    get-buffer│ device
     │                                     └──►  callbacks) ── threads ──────┘  │
     ├── SetDataSource/Play/Seek/Stop ──► Player ◄── files ─────────────────────┤
     └── Init/GetFileList/Format ──► Storage ── inotify, remove() ──────────────┘
```

The library is multi-threaded, has no process of its own and keeps nothing
across a crash except the recorded files and the configuration files.  Threads share handles;
some fields are protected by mutexes, many flags are plain variables.

### Components

| Component (source) | State it keeps | Operations and threads | What is hard | What makes it correct | Module |
|---|---|---|---|---|---|
| Muxer: frame hand-off (`muxer/rkadk_muxer.c`, `common/rkadk_signal.c`, `common/rkadk_thread.c`) | free lists `stVFree`, `stAFree`; `stProcList`; a semaphore used as a signal; user counts of the media buffers; `bEnableStream`, `exit_flag` | callbacks `Write{Video,Audio}Frame` (encoder threads), thread `RKADK_MUXER_Proc`, `Start`, `Stop`, `Enable`, `Disable` | a non-atomic "give if below the maximum"; exhaustion of the cells; stop and destroy against waiting threads; a failing medium | no lost wake-up, no lost or shared cell, buffers counted, frames in order, stop and destroy complete | `MuxerQueue` |
| Muxer: files of a stream (same file) | `bMuxering`, `startTime`, `lapseTimeStamp`, split flags, `bIOError` | `CheckEnd`, `Close`, opening, writing, retrying, `ManualSplit` | flags set by the application without a lock while the thread is in the middle of `Close` or `CheckEnd`; retries of the same cell | files begin and end in turn with their events, last as long as configured, keep time | `MuxerFile`, `FileEvents` |
| Muxer: pre-recording (same file) | `stPreRecParam`: two lists, the time of the first frame, the mode; `bReseting` | `PreRecPush`, `GetPreRecCell`, `PreRecProc`, `RKADK_MUXER_Reset`, `ResetParam` | two lists under two mutexes, one of them changed under the other's; `Reset` starts the new thread before the lists are released | a file begins with the newest frames from a key frame on, in order and without a hole, each buffer counted | `PreRecord` |
| Muxer: AOV (same file, `aov/rkadk_aov.c`) | `stAovHandle` | `AovProc` thread, `EnterSleep` | built only with `ENABLE_AOV`, over a library that suspends the system | — | not modelled |
| Recorder (`record/rkadk_record.c`) | handle per camera, stream count, the attributes given to each encoder | `Create`, `Destroy`, `Reset`, thumbnail channels | roll-back of partial creation; a reset that compares, corrects and applies | what was acquired is released exactly once; a reset settles and gives what a creation would | `MediaSessions`, `RecordReset` |
| Media channels (`common/rkadk_media_comm.c`) | per module (VI, VPSS, VENC, AI, AENC, VO) a table of channels with reference counts, bind counts, callback tables | `RKADK_MPI_*_Init/DeInit`, `Bind/UnBind`, `GetVencBuffer/StopGetVencBuffer` with one thread per encoder channel | users come and go in any order; failures in the middle; a table changed under a mutex and read without | a channel exists exactly while it has users; a callback runs only while its user is registered; each user gets each frame once | `MediaTables`, `MediaVenc` |
| Stream, RTSP, RTMP, photo and display paths (`stream/`, `live/`, `photo/`, `display/rkadk_disp.c`, `common/rkadk_thumb_comm.c`) | handles and channels | `Init/DeInit`, `VideoReset`, `AudioInit/DeInit` | partial failure of a sequence of acquisitions, shared channels | every failed opening gives back what it took; an open path works whatever others do; a close succeeds | `MediaSessions` |
| Photo (`photo/rkadk_photo.c`) | handle without a mutex: `u32PhotoCnt`, `bReseting`, two or three encoders, slice buffers | `Init`, `DeInit`, `TakePhoto`, `Reset`; threads `GetJpeg`, `SliceProc` | photos in a row; a late thumbnail; a reset that tests and sets flags beside a shot | as many photos as asked for, of one size, each with its own thumbnail; a shot ends; slices make up the photo | `PhotoShoot`, `PhotoSlices` |
| Player (`player/rkadk_player.c`) | `enStatus`, `bStopSendStream`, `enSeekStatus`, positions | `SetDataSource`, `Prepare`, `Play`, `Pause`, `Seek`, `Stop`, `Destroy`; the demuxer's two threads and the sending thread | `Stop` and `Seek` against threads that read the state unlocked; end of file against `Stop`; half a `Prepare` | no thread uses a released channel, nothing is kept, frames are shown in order, a seek ends, `Stop` returns | `Player` |
| Parameters (`param/rkadk_param.c`, `rkadk_struct2ini.c`) | the configuration in memory, ini files, copies of the video input's attributes | `Init`, `SetCamParam`, `SetCommParam`, `SetDefault` | one value kept in several files and several copies; a file written in two steps; an unlock too many | memory and files agree; a killed program starts again; a node has the size of the streams that take theirs from it | `Param` |
| Storage: file lists and deletion (`storage/rkadk_storage.c`) | per folder: a list sorted by time, its length and space; thresholds | scan thread (repair, deletion), inotify monitor thread | events lag behind the device; `remove()` without the mutex; the window before the watches | lists true and complete; space is freed; the file being recorded stays | `StorageFiles` |
| Storage: device and messages (same file) | mount status, message queue, thread ids | uevent listener, message thread, `DevAdd/DevRemove`, `Format`, `Init/Deinit` | status written by three threads; a thread joined by two | the scan thread ends when the device goes; no use of freed lists; a good device gets mounted | `StorageDevice` |
| Thumbnail formats, message queue wrapper, OSD, UI, audio codecs, demuxer, log | data formats, wrappers | — | little concurrency of their own | conversions | not modelled |
| Third-party code (cJSON, iniparser), examples, binary libraries | — | — | — | not part of the program | — |

What storage calls `rkfsck` and what the media library does is not in the
repository; it is modelled from how `src/src` uses it (frames arrive with a user
count, a get call fails after its timeout, a buffer is reused after its last
release, fsck lists every file of a folder once).

### Hazards

The `hazards` list of `PROJECT.json` names, line by line, what can go wrong and
which properties would notice.  A few have none, with the reason: the model has
the behaviour and no property forbids it (section 6), or it lies outside what the
modules model (section 7).

## 2. Modules

| Module | Models | State ↔ code | Actions ↔ code |
|---|---|---|---|
| `MuxerQueue` | the hand-off of one stream | `free`, `procList`, `frame`, `ref` are the lists, `cell->pMbBlk` and the buffers' user counts; `sem` the semaphore; `give` the two halves of `RKADK_SIGNAL_Give`; `ppc`, `cpc`, `kpc` the positions of callbacks, muxer thread, application | one action per critical section or unlocked read: `Deliver`, `CellGet`, `CellPush`, `Return`; `ThreadLoop`, `SignalTaken`/`SignalTimeout`, `CellPop`, `Process`, `CellFree`, `CheckExit`; `Start`, `Stop`, `Destroy`, `Disable`, `JoinAndRelease` |
| `MuxerFile` | what the muxer thread does with each cell | the handle's fields under their own names; `cell` the popped cell | one action per branch of `RKADK_MUXER_Proc`, `CheckEnd` and `Close`, cut where another thread can set a flag in between; `Start`, `Stop`/`StopSplit`, `ManualSplit`/`SplitDuration` |
| `FileEvents` | abstract: what a stream promises about files and events | `file`, `failed`, `ev` | `Begin`, `WriteFirst`, `WriteError`, `End`, `Announce` |
| `PreRecord` | the lists of frames kept before a file begins | `preList` is `stPreRecParam`'s lists, `procList`, `free` and `ref` as in `MuxerQueue`; `h` the handle's switches, type and mode | the callbacks' `PreRecPush` and hand-off, the thread's steps of `PreRecProc`, `RKADK_MUXER_Reset`, `ResetParam`, `Disable` |
| `RecordReset` | what a reset compares and gives to the encoders (pure functions) | configuration, sensor rate, attributes of the encoders | `ResetNeeded`, `ResetVideo`, `VideoReset`; `Created` is what a creation gives |
| `MediaTables` | the tables of channels and binds (pure functions) | `cnt`, `bind` the counts; `on`, `wire`, `cb` what runs, is bound and is called | one operator per `RKADK_MPI_*` call, from the tables and the failing library calls to the tables and a result |
| `MediaSessions` | recorder, preview, audio stream, RTSP, RTMP, photo and display as users of `MediaTables` | a script of calls per user and job (open, reset, close); `job` is where it is; `mem` what a script keeps | `Open`, `Reset`, `Close`, one `Step` per call with the roll-back of a failure, `Resize` and `SetRecordType` of the configuration |
| `MediaAlone` | one user of `MediaSessions` by itself | a local state: where its job is, what it was given, what a failure told it to be free (`View`) | `Follow`: its own calls with every answer the others can cause, jobs beginning and ending, changes of what all share |
| `MediaVenc` | one encoder channel with its users, against the thread | `slot` is `cb[]`, `getCnt` is `s32GetCnt`, `initCnt` is `s32InitCnt`, `mutex` is `vencMutex`; `gpc`, `gi`, `gfn`, `ghandle` the thread's locals | user steps of `RKADK_MPI_VENC_Init/DeInit`, `GetVencBuffer`, `StopGetVencBuffer` and the failure paths of `RKADK_STREAM_VideoInit`; the thread's loop with its unlocked reads one by one |
| `PhotoShoot` | the photo handle between two threads of the application and the photo thread | the handle's fields; `recv`, `buf` what the encoders owe and hold; `thr` the thread | `TakePhoto`, `Init`, `DeInit`, `Reset` cut at their unlocked tests; the loops of `GetJpeg` and `SliceProc` |
| `PhotoSlices` | how a photo is cut into slices (pure functions) | rows | `SetSliceParam`, `SetViSliceParam`, the parts' rows |
| `Player` | application, demuxer's threads and sending thread of one player | `h` the handle, `chans` the channels, `vdec`/`adec` the decoders' buffers, `rd`, `snd`, `app` the positions | `SetDataSource`, `Prepare`, `Play`, `Pause`, `Seek`, `Stop`, `Destroy` in their steps; the demuxer's callbacks; the loop of the sending thread |
| `Param` | the configuration in memory, in files and in copies | `mem`, `vi`, the sections of the two files, `th` the callers, `bInit` | loading with upgrade and checks, `SetCamParam`, `SetCommParam`, `SetDefault`, each file saved in its steps; a crash between any two |
| `StorageFiles` | the lists and the deletion of old files on a mounted device | `list`, `total`, `autoDel` under the code's names; `disk`, `opened`, `events` the file system and inotify; `spc`, `mpc` the positions of the two threads | `Repair`, `StartMonitor`; `LookAtFolder`, `Remove`, `DropEntry`, `LookAtSpace`, `SumSpace`; `AddWatch`, `TakeNew`, `TakeIn`, `Check`, `AddEntry`, `TakeOut`, `DelEntry`; the application's `Create`, `Reopen`, `Write`, `Close`, `Delete` |
| `StorageDevice` | the device: plugging, mounting, formatting, the threads' lives | `status`, `fileScanTid`, `fsckQuit`, `folder`, `msgs`, `uevents` | `Plug`, `Unplug`; `Listen`, `Receive`; `DevAdd`, `DevRemove` for both callers; the steps of the scan and monitor threads; `StorageLooks`, `StorageListens` and `ListenerBinds` for `Init`; `Format`, `Deinit` |
| `MC…` | the small instances | | |
| `…_proof` | the proofs (section 5) | | |

How they fit together: `MuxerQueue` reduces what the thread does with a frame to
"a file may be opened or closed" (`Process`); `MuxerFile` details exactly that
and reduces the queue to "some frame comes next" (`Pop`); `PreRecord` keeps the
order and the counting of frames and leaves signals and failing files to the two.
`MuxerFile` implements `FileEvents` under the mapping `Events`.  `MuxerQueue`
destroys a stream when all its callbacks are idle: that is what
`StopGetVencBuffer` gives the last user of a channel, by joining the thread;
`MediaVenc` models the case of several users, where it does not.  `MediaSessions`
composes all users over one set of tables, with a call per step, and takes the
callbacks' table as a set; `MediaVenc` is one entry of it in detail.  `MediaAlone`
takes `MediaSessions` apart again, user by user, for its proof.
`StorageDevice` starts and ends the threads that `StorageFiles` follows.

In every module the definitions under "Seeded faults" are wrong forms of
definitions of the module, used by no specification: putting one in the place of
the right definition makes the property it is paired with in `PROJECT.json` fail.

### Decisions about the models

- A step of a thread is what it does under one mutex, or one unlocked access
  that another thread can interfere with.  Steps on a thread's own data are
  merged with their neighbours.
- `MuxerFile` counts time in frame periods; a LAPSE stream delivers a frame in
  `Fps` periods and divides its time stamp.  The product `u32Duration * 1000000`
  is taken modulo `Wrap`, as an unsigned is.
- `PreRecord` numbers the frames, which are their time stamps.  Two threads that
  change one list at a time without a common mutex are undefined behaviour; the
  history `apart` says that no callback was between the two lists when a file took
  them, and the files of which it is false are marked `spoilt` and not judged.
  `late` marks a file begun with a callback of before a reset still under way, which
  may leave a hole but not a disorder.
- `MediaVenc` stores and clears the fields of a slot one by one in any order, and
  the thread may keep the callback it tested or read it again: the accesses are
  a data race, and these are the outcomes the compiler and the machine can produce.
- `MediaSessions` writes a user's job as a script of steps
  `[op, on, undo, skip]`: when the call `op` on `on` fails, the calls in `undo`
  follow, and the job is over or goes on after `skip` steps.  The history `held`
  has what each user was given and has not given back, `faults` counts the calls
  that failed.  `MCMediaSessions` names in `Unhandled` the failures the code does
  not handle (section 6); the run has all others.  `SetAencAttr` of RTSP and RTMP has
  the failure path the code gives it, but fails for null pointers only, which its
  callers never pass: no run takes that path.
- `Player` counts time in frames, and a decoded sound frame fills the output's
  cache.  `SeekIsQuick` assumes of the demuxer that it reads nothing from the target
  on before `RKADK_PLAYER_Seek` returns from starting it, and `Reading` that it refuses
  to start while it runs.  Play and Pause may fail at each of their calls; that
  `RK_MPI_AO_ResumeChn` and `RK_MPI_VO_ResumeChn` succeed in Stop is assumed.  The
  application stops at any time; `StopReturns` leaves out the stops that interrupt a
  seek and those after a Play that could not create its thread (`Unsent`), for they
  may wait for ever (section 6).
- `Param` takes a section of a file as one number.  An operation changes the memory
  and leaves a list of what it has still to do (sections to save, default files to
  copy, streams to match), which its thread goes through in order, holding the mutex.  A file is read, opened (and
  truncated) and written in three steps, and the program may be killed between any
  two; `hasDefaults` says that the default files are there at the next start.
  `Careful` excludes a second caller in the window of the double unlock (section 6).
- `PhotoShoot` lets a thumbnail come at any time or too late.  Three histories name
  what its properties leave out, each a race of the code that the model has (section
  6): `crossed`, that `TakePhoto` and `Reset` each made their unlocked tests before the
  other had set what it tests; `late`, that a thumbnail came between the time-out of
  `SliceProc` and its stop of the encoder; and `clean`, false of a shot accepted while
  the thread still ended the one before or a reset was under way, whose main
  encoder did not start or of which a slice failed.
- `StorageFiles` gives every file name one size and lets modification times be
  anything from a small set, for the clock of a camera jumps.  Files are not
  moved (`IN_MOVED_TO`), `remove()` fails only for files that are gone, the
  kernel's event queue does not overflow (16384 events), and the application does
  not delete a file it has open; if the scan thread does, the file just loses its
  name.  `FileListSave`/`FileListLoad` are called by nothing.
- `StorageDevice` has one device and one mount path.  `Init` looks at the device
  (`StorageLooks`, its two looks in one step), starts the threads (`StorageListens`)
  and returns; the listener binds its socket later (`ListenerBinds`), and what
  happens to the device until then is heard by nobody (`unheard`).  The socket and the threads
  are assumed to be there for the asking.  A format may fail and leave the device
  as it was, or unformatted.  `Slow` excludes the interleavings listed at `Calm…` in
  the module, which the code does not exclude.
- `RecordReset` assumes `LapseFits` where its theorems say so: the rate of a LAPSE
  file is not above the sensor's (section 6).
- Allocation failures are left out.

## 3. Fairness

The specifications with liveness properties assume weak fairness of each thread
that can take a step, which is what the kernel's scheduler gives, and of the
remaining steps of a library call that has begun: of `Muxer`, each `Producer`,
`Give` and `Control` in `MuxerQueue`; of `Thread` and each user's `Returns` in
`MediaVenc`; of `Scan` and `Monitor` in `StorageFiles`; of `Listener`, `Message`,
`Going` and each scan and monitor thread in `StorageDevice`; of `Continues` (the
rest of a call), the demuxer's two threads and `Sender` in `Player`; of the photo
thread, the rest of a shot and of a reset and of each encoder in `PhotoShoot`.
Nothing is assumed about timeouts (`sem_timedwait` need never expire, `GetTimeout`
need never fail), about new frames, about the medium (it may fail and stay broken),
and about what the application calls next and what happens to the device.  In
`MediaVenc` the callbacks are assumed to return; that the recorder's callback does
so is what `DestroyReturns` in `MuxerQueue` is about.

## 4. Runs

| Run | Module, config | Instance and bounds | Shows |
|---|---|---|---|
| `muxer_queue` | `MCMuxerQueue`, `MuxerQueue.cfg` | video pool of two cells, audio pool of one, two time stamps alive, medium may fail | `NoLostWakeup`, `CellOwnership`, `BufferCount`, `ListSorted`, `NothingHeldAtEnd` |
| `muxer_queue_live` | `MCMuxerQueue`, `MuxerQueueLive.cfg` | video alone with two cells, three time stamps, so that the pool runs dry | `QueueDrains`, `StopClosesFile`, `DestroyReturns` |
| `muxer_file` | `MCMuxerFile`, `MuxerFile.cfg` | each record type; files of 3 frame periods, split files of 2; 5 frames | `NormalFileIsFull`, `FileEventsHold`, `PtsInOrder` |
| `pre_record` | `MCPreRecord`, `PreRecord.cfg` | six pictures, one packet of sound, a key frame every two; a cache of one second; files of 4, split files of 2; modes NONE and SINGLE, SPLIT by a manual split; three operations. Its `ASSUME` checks `RecordReset` for two streams of a few values each | `FileInOrder`, `FileWhole`, `BuffersCounted` |
| `sessions` | `MCMediaSessions`, `MediaSessions.cfg` | the default channel configuration; six users on one thread with one failing call, and three users (recorder, audio stream, RTMP) on a thread each. Its `ASSUME`s check `LocalsClosed` and `SessionsAssumption` (section 5) | `Accounted`, `OpenPathWorks`, `CallbacksHaveOwners`, `CloseSucceeds` |
| `media_venc` | `MCMediaVenc`, `MediaVenc.cfg` | three users, two slots, failing thread creation and bind | `EveryUserServedOnce`, `ChannelOutlivesThread`, `StopReturns` |
| `photo` | `MCPhotoShoot`, `PhotoShoot.cfg` | shots of one and two photos, whole or in two slices; three shots, one re-initialisation, one reset; starts that fail. Its `ASSUME` checks `PhotoSlices` for pictures of up to 40 rows | `PicturesCounted`, `ThumbOfShot`, `OneSizePerShot`, `ShotEnds` |
| `player` | `MCPlayer`, `Player.cfg` | files of three packets with picture, sound or both, sound not coded; two buffers of pictures, one of sound; seeks to 2; five operations, at any time | `NoUseAfterRelease`, `NothingKept`, `ShownInOrder`, `SeekEnds`, `StopReturns` |
| `param` | `MCParam`, `Param.cfg` | the streams and nodes of the RV1106 configuration, two sizes, two values, four forms of the first files; two callers, four operations, two crashes | `SavedIsMemory`, `Survives`, `NodesFitStreams` |
| `storage_files` | `MCStorageFiles`, `StorageFiles.cfg` | a share folder of two files, a counting folder; two times; one file opened for writing | `ListedIsReal`, `AllListed`, `RecordingKept` |
| `storage_live` | `MCStorageFiles`, `StorageFilesLive.cfg` | two share folders with the code's default limits of 50 and a counting one, a file each, one of them damaged; a device that fills up, with shares equal, unequal and stale; one write | `CleansUp`: while space is low and a folder exceeds its share, files go. A full device where none does is among the states and stays full |
| `storage_device` | `MCStorageDevice`, `StorageDevice.cfg` | a device there at the start or not, plugged twice, also before the listener listens, and formatted twice, failures included; five scan threads | `FoldersAlive`, `DeinitReturns`, `GetsMounted` |

Why these bounds are enough for the cases that matter: in the queue two cells of
one pool can be out of order and can be exhausted, the second pool gives the
second producer and, with the application, three givers of a signal of maximum
one; in the files a normal file, a split file and the file after it fit into five
frames, and a file, its pre-recorded frames and the next file into six; in the
channel three users exceed the two slots, so that a slot is reused while the
thread walks the table; among the sessions every pair of users that shares a
camera, a group, an encoder or a bind is in one lineup, and one failure meets each
call of each script while the others are open; three photos put a late thumbnail
beside the next shot and the one after; three packets are frames before, at and
after the target of a seek; two crashes put one in the repair of the other's
files; in the storage two files of one folder can be in either order with equal or
different times, and one of them can be deleted, created again and closed while
events about it are queued; a device that is plugged again is added while the
threads of the first time end.  `Pts`, `MaxClock`, `MaxT`, `MaxOps`, `MaxCrashes`,
`MaxShots`, `MaxInits`, `MaxResets`, `MaxWrites`, `MaxPlugs`, `MaxFormats`,
`MaxScans` and `maxFaults` are bounds of the models; everything else is a parameter
of the code.

`TypeOK` of `MuxerQueue`, `MuxerFile`, `MediaVenc` and `PhotoShoot` is part of the
inductive invariants of section 5; that of `StorageFiles` documents its variables, and
its proof has the types it needs in `Device`, `Lists` and `Threads`.

`CHECK_DEADLOCK FALSE`: a destroyed stream, a recording whose bounded clock has
run out, users that are gone for good, an application that has made its bounded
number of calls and a crashed process stop, and should.

## 5. Proofs

Each holds for every value of the constants under the named assumptions of its
module.  The inductive invariants were checked by TLC on the instances of section 4
before they were proved.

**`MuxerQueue_proof`** (`QueueAssumption`, `NoneAssumption`): any number of
producers, cells and time stamps and any maximum of the signal.

1. `Phases` relates positions to data: a callback has a frame exactly while it is
   not idle and a cell exactly between `CellGet` and `CellPush`; the muxer thread
   has a cell exactly between `CellPop` and `CellFree`; after `Disable` the
   callbacks are idle and the stream is disabled.  `TypeOK /\ Phases` is inductive
   (`InitPhases`, `NextPhases`).
2. `NoLostWakeup` is inductive with it (`NextAwake`).  The point is `GiveRead`: a
   giver that finds the value at its maximum leaves, and then the value is
   positive, so `Awaited` still holds.
3. `CellOwnership` is not inductive: that a popped cell is in no other place needs
   `Carried` (a cell carries a frame exactly while it is queued or in the muxer
   thread's hand).  `Owned` is their conjunction, with a lemma per action that
   moves a cell.  `InsertAtProperties`, `InsertAtRange` and `HeadAndTail` say what
   inserting and popping do to a list.
4. `ListSorted` follows for `CellPush` from `InsertPositions` (no later time stamp
   before the place, one after it) and the order of the list so far; the other
   actions shorten the list or leave it.  That the time stamp of a queued cell does
   not change needs `Owned`.
5. `BufferCount` counts sets of cells and callbacks with the cardinality theorems;
   `JoinAndRelease` subtracts the cells of the list at once.
6. The value of the signal may exceed its maximum, by less than the number of
   givers: `NextBounded` counts the callers that have passed the test of the value
   and not yet posted.

**`MuxerFile_proof`** (`FileAssumption`): any durations, frame rates, split
durations and bounds.  `Places` says what a file may hold where the thread is; its
core is that an open file without a frame and without a failed write is about to
get the key frame it was begun for.  From it every step is a step of `FileEvents`
or a stutter (`StepHolds`), hence `FilesAreAnnounced`, the refinement.
`DurationIsKept` needs `Splits` (a stream that records a manual split began its file
as one, whatever Stop does to the flag meanwhile) and that the duration fits the
32 bits in which the code multiplies it: `Duration <= Wrap`.  `TimeGoesOn` needs
`Times`, which ties the last time written to the clock, or to `lapseTimeStamp` in an
AOV_LAPSE recording.

**`MediaVenc_proof`** (`VencAssumption`): any users and any number of slots.
`Locks` says which calls hold `vencMutex`; `Table` that the slot of the user that
holds it is half stored, every other one unused or whole, and no callback in two;
`Counts` that `s32InitCnt` and `s32GetCnt` are the numbers of the users that hold
the channel and that are registered, or gave up without unregistering; `Alive`
that the thread runs only with a user registered or joining it; `Served` that a
user that stays has been called for the frame in hand exactly if the thread is past
its slot.  `Served` depends on `Table` in the step that reads the callback a second
time: the callback kept from the test and the one now in the slot may differ, but
neither is one that has stayed in another slot.  `ServedOnce` and `ChannelIsThere`
follow.

What a reset of a recorder gives to the encoders, `RecordReset`, is proved in the
same module: any number of streams, any rates, bitrates, sizes, codecs,
multiples and any rate of the sensor.  A second reset finds nothing to do
(`Settles`, `VideoSettles`), a reset gives what a creation would but for the mode of
the rate control (`LikeCreate`), and it does not resize a stream that shows a
picture in its picture (`PipKeeps`).

The parameters, `Param`, are proved there too (`ParamAssumption`, `Careful`): any
threads, streams, nodes, sizes, values and first files, any number of operations and
of crashes.

1. `Alone`: one operation is under way at a time.  The mutex alone does not give it,
   for `PARAM_TYPE_RES` unlocks twice; with `Careful` whoever is about to unlock again
   finds no one in the window.
2. `Debts`: what a section of a file lacks of the memory is still owed by the list of
   the operation.  It is inductive only where the file in hand counts as
   written from its reading on, truncated or not, and where default files are copied
   before anything is saved (`CopiesFirst`).  At the end of an operation nothing is
   owed, hence `FilesAreSaved`.
3. `Valid` and `Keeps`: what is in use is valid and of the default files' version.  So
   after a crash between operations `RKADK_PARAM_Init` neither repairs nor replaces
   what it loads, hence `SettingsSurvive`; the nodes are excepted, for the streams are
   matched anew.
4. `Copies` and `Sized`: a stream that takes its size from a node has the copy of it
   or is still in the list to be matched; and each node has the size of one of its
   streams, or such a stream is still in the list.  The second is what survives a
   program killed between the saves of a stream and of its node, and with the first
   gives `NodesFit`.  It needs `OneNode`: such a stream is named by one node, as in all
   files of `src/inicfg`; otherwise it is false (section 6).

**`PreRecord_proof`** (`PreRecordAssumption`): any group of pictures, rate, length
of the cache and of the files, pool, modes and bounds.  `Typed` and `Stages` say
where callbacks, thread and application may be at a time.  Three arguments build on
them, each using the one before.

1. Buffers.  `Counted` writes the users of a buffer as the number of places that
   have the frame, as a sum over the lists (`Hits`, with `HitsConcat` and its
   companions for appending, taking a part and releasing), and so does not mention
   which list loses a frame to which.  A new frame has no user: `Known` bounds
   every frame in the lists, in hand and in the file by the next one to come.
   Hence `BuffersAreCounted`.
2. Order.  The pre-record lists rise (`Sorted`).  What `PreRecProc` needs is that no
   callback is between its two lists while the thread takes them (`apart`): the
   thread holds the lists' mutex from `release` to `audio`, and no callback gets from
   `pre` to `get` meanwhile.  Then `Taken` holds (the list was empty when the
   pictures came, and begins with a key frame), and `Ordered`: `stProcList` rises
   behind the cell in hand and behind what is written.  `Begins` says that a file
   being opened is empty.  Hence `FilesAreInOrder`.
3. Completeness.  The list of pictures is a row of consecutive ones up to the newest
   (`Gapless`), so that if it has at least a second of them (`TakesLists`) and a group is at
   most a second, one of them is a key frame (`KeyAmong`) and the thread never
   releases `stProcList` for nothing.  `Chained` says that every picture after one
   that is queued, in hand or written last is queued; it is cut only by a stop or a
   reset (`Halted`, `Histories`).  Hence `RecordingIsWhole`, under `Gop <= Rate`; without
   that it is false (section 6).

**`Player_proof`** (`TimesAssumption` for the pictures): any files, lengths, rooms,
targets and bounds.  `ByStatus` says what exists in each status (EOF may be set by
the sending thread after Stop has set STOP, and then stays while everything is
released), `ByPlace` the same for the steps inside Stop and Play.
`UsedOnlyWhileThere` and `NothingIsKept` follow; that Prepare creates all or leaves
nothing is `PreparedAll`, a case split over the failing call.

`PicturesInOrder` needs to know where every picture is: those in the decoder are in
order, between the last one taken and the next one the demuxer reads (`Order`); the
first picture, which the sending thread keeps while it waits for the sound, is
the last one taken, and in a file with sound it goes on only from the target
(`First`); while a seek waits for the demuxer's callback there is no picture
anywhere (`SeekInv`); and a player that is not playing is empty, or only the demuxer
works because Play could not create the sending thread, so that a seek that opens
it anew begins with nothing (`Fresh`).

**`PhotoShoot_proof`**: any counts, slices, failures and bounds.  What is in hand
depends on the thread's place (`PlacesOK`); a shot is counted or sent to the encoder
only while nothing of the one before is left (`Shooting`), nothing is left when the
handle is made again (`Gone`).  With them `PicturesCounted` is inductive (so
`u32PhotoCnt`, which is unsigned, is never decremented at zero).  `OneSizePerShot` needs
`Sized`: while a shot is counted, or about to be, and its tests and those of a reset did
not cross, no reset is past its test and the picture in hand has the encoder's size.
That a reset which marked itself keeps new shots out is the last part of `Shooting`.

`ThumbsOfTheirShot` follows from what is left of the thumbnails when a shot is
accepted.  Nothing is: every thumbnail owed or in hand is that of a photo to come
(`NoneLeft`), for the thread has taken one for every photo it cut into slices, or
has stopped their encoder and emptied it after the last of a shot of whole photos.  A
time-out in slices leaves one owed, which the stop that follows takes back, unless it
came first (`late`).

`PhotoSlices` is proved in the same module, for pictures and slices of any height.
The slices cover the photo once, all full but the last (`SlicesArePhoto`); enlarging
them ends with few enough (`RetryIsLast`).

**`StorageFiles_proof`**: any files, folders, limits, sizes, times and bounds.  The
lists are judged by the sets of their files.  Only what was closed once is listed, on
its way into a list or chosen for deletion (`Closed`), which gives `RecordingsAreKept`.
What the monitor thread is about to add is on the disk or its deletion is queued
(`Coming`); with it `ListedIsReal` is inductive.  `AllListed` needs the order of the
events: a file that is there again after it was deleted may be taken out of the
list by the old event, but behind that event is one of its closing (`Follows`).

The threads of `StorageDevice` are proved about in the same module (`Slow`): any
number of pluggings, formattings and scan threads.  `OneScan` says that the only thread alive is
the one in `fileScanTid`, so that a join waits for it; it is kept because whatever
starts a thread finds none: an added device is the first thing to be handled
(`AddIsFirst`), for it was plugged when the removal of the last was handled, or when no
event had been heard at all because the listener had not bound its socket, and a
formatting either has joined the thread or was told that the device is not
formatted, which is never the status while a scan thread is in its loop
(`StatusOfScan`).  `FoldersStayAlive` follows.

**`MediaSessions_proof`** (`SessionsAssumption`, `LocalsClosed`): any users, channels,
pairs, paths, threads, interleavings of calls and failures.  What the users' scripts
do one by one is an assumption, what they do together is the theorem.

`LocalsClosed` is about each user alone.  It says of a set `Locals` of its local states
that the first is in it, that what `Follow`s one is in it whatever the others do
meanwhile, and that in none of them the user makes a call that could harm another
(`Fits`): it releases only what it has or what no other can have, takes apart only
binds it is going to put together again, and meets only failures the code copes with.
For the default configuration TLC computes the sets and checks the assumption in the
run `sessions`, without any interleaving.  A theorem about all configurations is not
to be had, for the code accepts ones in which two users collide; of another one the
assumption is to be checked in the same way, also where the interleavings of all its
users are out of TLC's reach.  `SessionsAssumption` says that
the tables are large enough and that no user makes an encoder another one takes.

`IInv` has these parts.
1. `Ledger`: each count in the tables is the number of references the users have
   (`Tally`), and what is counted runs (`Sound`).  A call reads and changes the tables
   of its own channel only, and what it does there depends on the others by the count
   alone: one lemma per call says so, from `InitEffects` to `CallEffects`.  `TallyMore` and
   `TallyLess` carry the cardinalities over.
2. `Known`: each user is in one of its `Locals`.  Its own step follows by `CallEffects`;
   another user's leaves it there because that one's call `Fits` (`OtherNext`).
   A user that was told by a failure that it is the first on a device must know
   this until its roll-back is over; that is why `Known` needs `Apart`, and `Apart` one thread.
3. `Turns`: on one thread one user is busy.
4. `Mended`: a bind that is counted but not made is about to be made by the reset
   of a user that took it apart.

From them: `CountsAreReferences` (`Accounted`), `PathsWork` (`OpenPathWorks`),
`CallbacksAreOwned` (`CallbacksHaveOwners`) and `ClosesSucceed` (`CloseSucceeds`).

Only model-checked: liveness (`QueueDrains`, `StopClosesFile`, `DestroyReturns`,
`StopReturns` of two modules, `CleansUp`, `SeekEnds`, `ShotEnds`, `DeinitReturns`,
`GetsMounted`), which this prover does not handle, and the scripts of single users for the
default configuration (`LocalsClosed`), which are computations.  Every invariant and
every action property without fairness that a run checks is a theorem.

## 6. Observations

What the code does and a reader may not expect.  Each was met while modelling; the
models contain it unless a line says how it is excluded.

Muxer:
- A destroyed stream can leave its file open: `exit_flag` is set after the thread's
  last look at `bEnableStream`, and the loop ends without closing (`rkadk_muxer.c`
  1430).  A stop before the destroy avoids it (`StopClosesFile`).
- A manual split that is accepted while `RKADK_MUXER_Close` runs is forgotten: its
  last statement resets `bEnableSplit` (996).
- A retried LAPSE frame has its time stamp divided once more.
- A duration of 4295 s and more overflows 32 bits (1179).
- The lists kept before a file have a group of pictures more than the pre-record
  time, but the thread takes them as soon as they have a second (1200).  With a
  group longer than a second (`Gop > Rate`; the configurations of `src/inicfg` have them
  equal) a second manual split soon after the first finds no key frame in them: by
  then `stProcList` is released and the lists are empty (1219, 1230), and the file
  misses the pictures that were in them.  TLC finds it with `Gop = 4`, `Rate = 2`.
- A callback past the test of `bReseting` (774) pushes into lists that
  `RKADK_MUXER_Reset` releases; `PreRecProc` releases `stProcList` under another mutex
  than the callbacks take (1219).

Media channels and their users:
- A callback may be called while it is removed, with a handle about to be freed.
- Failures the users do not handle, left out by `Unhandled`: a failed bind leaves the
  callback registered (`rkadk_stream.c` 457; the model of one channel has it);
  `VPSS_DeInit` follows a failed `VPSS_Init` (`rkadk_stream.c` 378); the `failed:` path
  of the recorder releases what was never acquired (`rkadk_record.c` 758); a failed
  `VI_EnableChn` disables the camera under other channels (`rkadk_media_comm.c` 900);
  a VPSS channel that cannot be enabled leaves its group counted (380).
- The roll-back of a failed opening releases a channel by its number, whether this
  opening took it or not.  On one thread a user told by a failed `VPSS_Init` or
  `VI_Init` that it was the first on the device releases what nobody has; with
  another user on a thread of its own, that user may have taken the channel in between and
  loses it (`RKADK_DISP_Init`, and the openings of recorder, stream and RTMP).
  Hence the lineup with several threads has no failures, and `Apart` in section 5.
- RTSP stops its callback only if its encoder is also that of the recorder or the
  preview (`bVencChnMux`, `rkadk_rtsp.c` 745).  With an encoder of its own it leaves the
  callback in the table with a handle it frees; in the default configuration, that
  of the run, the encoder is shared.
- After a failed reset of the picture `bReseting` stays true and the recorder drops
  frames until a reset succeeds (`rkadk_record.c` 2069).
- A `lapse_multiple` of 0 is accepted (`rkadk_param.c` 4002) and divided by
  (`rkadk_record.c` 372).  A LAPSE rate above the sensor's is divided again by every
  reset; a change of the rate control's mode alone is never taken; `ResetCheck` ends
  at the first stream that differs.

Photo and player:
- After a failed start of the main encoder `u32PhotoCnt` stays set and no photo can be
  taken (`rkadk_photo.c` 1799); a failed `mmap` ends the thread (657), as does a slice
  that cannot be scaled, sent or read (448, 459, 496, 557): no photo is taken until the
  next `Init`.
- `TakePhoto` tests `u32PhotoCnt` and `bReseting` (1755, 1760) and counts the shot later
  (1784); `Reset` tests the count (1844) and marks itself later (1874); neither takes
  a lock.  When the two cross, both go on and the encoder is changed in the midst
  of the shot, whose photos may be of two sizes.  `OneSizePerShot` is violated without `~crossed`.
- When the thumbnail of a photo in slices does not come in time, `SliceProc` stops its
  encoder without the `ResetChn` of its other paths (530 against 529 and 706).  One that comes
  between the time-out (517) and the stop (532) stays and goes with the next
  photo, whose own goes with the one after, and so on.  `ThumbOfShot` is violated without `~late`.
- A shot accepted while the thread ends the one before it (696-706: the count is 0, the
  encoders are stopped next) is stopped with it, and `u32PhotoCnt` stays set.  `ShotEnds`
  and `ThumbOfShot` say nothing of it (`clean`).
- End of file and Stop set the status unlocked: EOF may replace STOP after everything
  was released (`rkadk_player.c` 1807, 3093), and Play and Pause may replace EOF.
- Stop during a seek may wait for ever for the demuxer's callback (2030).  When Play
  cannot create the sending thread (3031) it leaves the demuxer running; once the
  decoder is full the callback waits in `RK_MPI_VDEC_SendStream` (1971), and the Stop that
  joins it (3119) waits with it.  Hence the two conditions of `StopReturns`, which is
  violated without either.

Parameters and storage:
- `PARAM_TYPE_RES` unlocks a mutex that is unlocked again at the end (`rkadk_param.c`
  3962, 4028, 4065), hence `Careful`.
- A stream that takes its size from a node and is named by two moves to the other
  node when its size changes and leaves the first at its old size (`rkadk_param.c` 1985),
  also under a stream that stays there and has another.  TLC finds it with a
  photo on two nodes; no file of `src/inicfg` has such a stream.
- Where the limits of the share folders add up to 100, as the defaults of 50 and 50 do
  (`rkadk_storage.c` 1529, 1533), a device on which every folder keeps to its own fills
  up and stays full: files are deleted only of a folder above its limit (966).
  `CleansUp` says no more than that, and is false if it is to say that space comes back.
- The second loop of `Repair` skips the entry after each one it removes and leaves
  `totalSpace` as it was (684).  With such a stale total a folder above its share
  is not seen to be: `CleansUp` is violated without `stale = {}`.
- A failed `remove()` reads the end of the list again without the mutex (`rkadk_storage.c`
  925): it gives up another file or reads through NULL.
- `s32AutoDel = 0` does not switch the deletion off, for the thresholds overwrite it
  (946).  Files closed between the mount callback and the watches are never listed.
- A device plugged between Init's look at it (1565-1574) and the listener's bind (1407),
  which may come after Init has returned, is not mounted until it is plugged again or
  formatted; one pulled out then is still thought mounted.  `GetsMounted` is violated
  without `~unheard`.
- After a format that fails and leaves the device unformatted the status stays unmounted,
  for which Format refuses (1847): only plugging it again helps.
- When `GetDiskSize` fails (883) or the monitor thread cannot be created (896) the
  scan thread ends and the status stays mounted: no file is listed or deleted.
- An unmount between the scan thread's test and its setting of the status is lost
  (874, 877), and Format and the message thread may both join the scan thread (1861),
  hence `Slow`.

## 7. Not modelled

- AOV (`ENABLE_AOV`): the behaviour is that of a suspended system, in a library the
  repository does not hold; with it the message queue wrapper, which only its thread
  uses.
- The picture in picture (AVS) channels, several streams of one recorder over one
  muxer (they share no state), a failing `RKADK_MUXER_Enable`, the third encoder of
  compressed photo input, raw RTSP sources and snapshots of the player, and the raw
  PCM thread of the audio stream.
- The building and parsing of thumbnails in JPEG and MP4 files, the MP3 encoder and
  decoder and the demuxer's adapter: data formats and third-party codecs.
- OSD and UI: sequences of media library calls on regions and layers of their own,
  without concurrency and without shared counts.
- The servers of RTSP and RTMP, `rkfsck` and the media library: not in the repository;
  external definitions say what `src/src` relies on.
- Log, version, examples, third-party code.
