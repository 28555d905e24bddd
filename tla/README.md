# PPHelper: a TLA+ verification project

PPHelper is an Android Xposed module for three apps of one vendor
(`zuiyouLite`, `zuiyou`, `ppx`).  It has two halves:

* **Java** (`src/app/src/main/java/cn/lliiooll/pphelper/`): the start-up inside
  the host app, the search for the host's obfuscated classes and the cache of
  what was found, the hooks, settings screens, downloads, and a screen that
  sends a voice file.
* **C** (`src/app/src/main/cpp/`): the command line program of FFmpeg 6.0, built
  as a library and called through `native.cpp` to convert voice files, inside
  the host's process.

The C half is where threads and queues are, the Java half is where files,
versions and process deaths are.  The project models both.

Contents: [inventory](#inventory), [modules](#modules), [runs](#runs),
[findings](#findings), [observations](#observations), [proofs](#proofs),
[not modelled](#not-modelled), [plan](#plan), [how to run](#how-to-run).

How a conversion goes through the parts: the dialog (`Session`) starts a command;
`opt_map` and `create_streams` (`StreamMaps`) connect input streams, filter graphs
and output streams; one thread per input file (`Demuxer`) sends packets to the
main loop (`Transcode`), which decodes, filters (`VideoSync` decides how often a
frame is shown), encodes or copies them, and hands them to one thread per output
file (`Muxer`) through a `ThreadQueue`; with `-shortest` and `-frames` a `SyncQueue`
cuts the streams to a common length on the way.

## Inventory

For each component: its state, its operations, with whom it interacts, what is
hard about it, and what makes it correct.

### Thread queue and object pool (`thread_queue.c`, `objpool.c`): modelled

*State*: a bounded fifo of (stream, object), two flags per stream
(`FINISHED_SEND`, `FINISHED_RECV`), one mutex, **one condition variable for
everybody**, a stack of recycled objects.
*Operations*: `tq_send`, `tq_send_finish`, `tq_receive`, `tq_receive_finish`,
`tq_alloc`, `tq_free`; `objpool_get`, `objpool_release`.
*Interaction*: the main thread sends packets to a muxer thread; either side
can end a stream alone.
*Hard*: wake-ups (the end of a stream set by `tq_send` is not broadcast),
conditions tested before a wait and not after it, objects that are recycled
while others are queued.
*Correct when*: nothing is lost, duplicated, reordered or overwritten; the end
of a stream is told once and last; nobody sleeps while what it waits for is
there.

### Muxer of one output file (`ffmpeg_mux.c`): modelled for the most part

*State*: per stream a growing *muxing queue* of packets that came before the
header, their size, `MUXER_FINISHED`; the thread queue; the muxer thread; the
error that the thread returns; the trailer.
*Operations*: `of_stream_init`, `of_output_packet`, `of_write_trailer`,
`of_close`, and in the thread `muxer_thread`, `sync_queue_process`,
`write_packet`.
*Interaction*: main thread and muxer thread through the thread queue, and
`pthread_join`.
*Hard*: the hand-over from the muxing queues to the thread queue while the
thread is already running, failures in the middle of it, a thread that ends
while the main thread sleeps in `tq_send`, errors that are only known at the
join.
*Correct when*: the file holds a prefix of what was handed over, all of it if no
error is reported; every call returns; nothing is left when the file is closed.

### Sync queue (`sync_queue.c`): modelled

*State*: per stream a fifo, a time base, the largest time seen (head), a frame
limit; over all streams the head that is farthest behind and the finished
stream that ended first.
*Operations*: `sq_add_stream`, `sq_set_tb`, `sq_limit_frames`, `sq_send`,
`sq_receive` with its heartbeat on overflow.
*Interaction*: the muxer thread (for any stream) or the encoders (for their
own stream) send and receive in one thread.
*Hard*: cached minima that must be updated in every order of ends, overtakings
and heartbeats; missing timestamps; rounding between time bases.
*Correct when*: no stream becomes longer than one that limits it, and what may
come out does come out.

### Demuxer threads (`ffmpeg_demux.c`): modelled for the most part

*State*: per input file a thread, a message queue of packets with an error code
for each side, the queue of audio durations used for looping, `loop`, the
length `d->duration` of what was read, per stream the smallest and the largest
timestamp, `eof_reached`.
*Operations*: `input_thread`, `seek_to_start`, `ts_fixup`, `ifile_get_packet`,
`thread_start`, `thread_stop`, `ifile_close`; in `ffmpeg.c`, `decode_flush`.
*Interaction*: the main thread takes packets, and at the mark between two passes
of a looped file it flushes its decoders and sends back the length of their last
frames.
*Hard*: two queues in opposite directions between two threads; a
non-blocking send that falls back to a blocking one; a loop takes an error for
the end of a pass; a stop at any point.
*Correct when*: each pass is delivered once, whole and in order; times grow over
the joints; lengths are those of the pass that ended; calls return.

### Transcoding scheduler (`ffmpeg.c`): modelled for the most part

*State*: `finished`, `inputs_done`, `unavailable`, `initialized` of output
streams, `eagain` and `eof_reached` of input files, the frames inside decoders,
graphs, sinks and encoders, `received_sigterm`.
*Operations*: `transcode`, `transcode_step`, `choose_output`,
`transcode_from_filter`, `process_input`, `process_input_packet`,
`ifilter_send_frame`, `send_filter_eof`, `reap_filters`, `flush_encoders`,
`got_eagain` / `reset_eagain`, `do_streamcopy`.
*Hard*: progress when the chosen output waits for an input that is not ready;
flags that have to be cleared for the loop not to spin; graphs that are
configured late or again; ends that come in every order.
*Correct when*: nothing is lost on its way, every output is complete, the
outputs are interleaved, and the loop ends.

### Time stamps of video (`do_video_out` in `ffmpeg.c`): modelled

*State*: `next_pts`, the frame kept from before, how often it was shown lately.
*Operations*: `video_sync_process`, `do_video_out`, the end of a graph.
*Hard*: thresholds and roundings that must fit together over many frames.
*Correct when*: the encoder's times grow, a constant rate has no holes, and the
output does not drift from the input.

### Options and opening of files (`ffmpeg_opt.c`, `ffmpeg_mux_init.c`, `ffmpeg_filter.c`): the choice of streams is modelled

*State*: the list of maps of an output file, flags of input streams (`discard`,
`decoding_needed`, `processing_needed`), the outputs of graphs that feed no
stream yet, the output streams.
*Operations*: `init_complex_filters`, `opt_map`, `create_streams` with `map_auto_*`
and `map_manual`, `of_open`, `check_filter_outputs`.
*Hard*: flags set at different places; maps that later options take back; a best
stream chosen by two nested loops with different scores.
*Correct when*: what is read, decoded and written fits together; maps are
obeyed; the automatic choice is the best stream.

### Session (`AudioSend`, `PDialogVoice`, `FFmpeg.java`, `native.cpp`, `run`, `ffmpeg_cleanup`): modelled for the most part

*State*: the overlay and the dialog, the static `FFmpeg.callBack`, the copies of
chosen voices and the converted files, the counter and the array of input files,
posted messages.
*Hard*: the program was written to run once per process; here it runs once per
voice file.  Counters that are not reset, a static overwritten before a posted
message reads it, `exit` in the host's process, files deleted by a callback that
another command has posted.
*Correct when*: the host is handed the voice chosen last, and the file stays until
the next one.

### Downloads (`DownloadManager`, `IOUtils`, `MediaStoreUtils`): modelled, in `Session`

Each download is a task that empties one shared directory and then writes into
it, and ends with a message to the main thread.  *Correct when*: what is
announced as downloaded is the file that was asked for.

### Cache of deobfuscated classes (`HookBus`, `DexUtils`, `PConfig`, the hooks' `needObf`/`doObf`): modelled for one of the apps

*State*: the cache file, the saved version of the host app, the switches of the
hooks, the counter `obfs`, the static class names of the hooks.
*Operations*: `HookBus.init`, `initZuiyouLite`, the task behind the splash
screen, `DexUtils.obf` and `reCache`, `PConfig.cache` (read and write),
`needObf`, `doObf`, `init`.
*Interaction*: main thread and background task, one after the other, through the
file; the process can be killed at any point, the host app updated in between.
*Correct when*: hooks that can work do work, with the classes of the installed
version; nothing found is lost; loading ends.

### The rest

Hardware devices (`ffmpeg_hw.c`), start-up and activity proxy (`startup/`,
`lifecycle/`), other host hooks and screens, vendored code: see
[not modelled](#not-modelled).

## Modules

| module | models | state and actions |
|---|---|---|
| `StreamChannel` | what `thread_queue.h` promises: a bounded channel of several streams that either side can end | abstract |
| `ThreadQueue` | `thread_queue.c`, `objpool.c` | one action per critical section; a call that reaches `pthread_cond_wait` puts its thread into `waiting` and is resumed by `ResumeSend` or a new turn of `tq_receive` |
| `ThreadQueue_proofs`, `Muxer_proofs`, `Demuxer_proofs`, `ObfCache_proofs`, `Session_proofs`, `SyncQueue_proofs`, `Transcode_proofs`, `VideoSync_proofs` | proofs about these modules | |
| `Muxer` | `ffmpeg_mux.c`, composed with an instance of `ThreadQueue` (one sender, one receiver) | `main` is where the main thread is inside a call, `thread` where the muxer thread is |
| `SyncQueue` | `sync_queue.c` and the loops of its two clients | the fields of the two structs are the record `sq`; each C function is an operator from record to record, `sq_send` and `sq_receive` are actions |
| `Demuxer` | `ffmpeg_demux.c` for one file | `thread` is where `input_thread` is, `main` where the main thread is in `ifile_get_packet`, `decode_flush` or `ifile_close`; one action per operation on a queue |
| `Transcode` | the main loop of `ffmpeg.c` | `pc` is the function that runs, `chosen` the output of this step, `cur` the file or stream it reads; `dec`, `graph`, `sink`, `ost[o].enc`, `ost[o].out` are where a frame can be |
| `VideoSync` | `do_video_out` for one stream | one action per filtered frame and one for the end of the graph |
| `StreamMaps` | the choice and connection of streams | `pc`, `i`, `j` are the loops over graphs, files and options; `used` are the flags of input streams |
| `Session` | overlay, dialog, commands, callback, downloads, the process | `main` is where the main thread is in a command, `task[d]` where a download is |
| `ObfCache` | the cache of deobfuscated classes | `pc` is where the thread that loads is; one action per read or write of the file |

The `MC` modules give the constants values for TLC.

### Abstractions

* **Packets and frames** are numbers or `[stream, pts]` with what the properties
  tell apart (a format, whether it is a keyframe, its place in the file).  In
  `ThreadQueue` the payload is kept in a memory (`content`) addressed by pool
  objects, so that an object handed out twice would be seen.
* **Allocation** may fail wherever the code checks for it and the failure
  changes what follows (`SendNoMemory`, `queue_packet`, `ThreadStarts`,
  `ReadUnusable`).
* **Locks**: every function of `thread_queue.c` and of libavutil's message queue
  runs under one mutex, so a critical section is an atomic action.
* **Muxer** leaves out the sync queue of the file (it has a module of its own),
  bitstream filters, the SDP file of several rtp outputs and the DTS repair:
  they change what a packet contains and not the order of calls.  A packet
  has size one.
* **Demuxer**: a decoder gives the length of its last frame once it got a packet,
  or not yet; a read may fail or give something unusable at any point; DTS are
  moved like PTS.  The bound on passes is `MaxPasses`.
* **Transcode**: decoders, encoders and filters keep the last `DecDelay`,
  `EncDelay`, `Latency` frames they were given and change none.  A graph of
  several inputs merges them by time; graphs without inputs (sources) are left out.  `Eager` graphs pass frames on without a
  request, `drops` are graphs that give nothing.  The demuxers are an `arrived`
  set: a file has its next message, or not yet.
* **VideoSync** counts time in twentieths of a frame: all thresholds of the code
  (0, 0.5, 0.6, 1.1 frames) are whole numbers of them, and frames come at odd
  times, so that none is hit exactly (the code adds 1 / 2^17 of a frame for the
  same reason).
* **StreamMaps**: a stream is a type, a size, its default and attached-picture
  flags, and whether packets of it came while the file was probed
  (`AVSTREAM_EVENT_FLAG_NEW_PACKETS`); a score is the code's sum, with the two
  bonuses as constants that a size may exceed.  A specifier is `""` or a type.  Options are processed as the code does,
  one per action, so that an early `exit_program` leaves what it would leave.
* **Session**: file names made of the time are unique.  Input and lifecycle
  calls may overtake a posted message, messages of one `Handler` may not.
  The switch `voiceAutoCovert` keeps its value for a behaviour (`PDialogVoice`
  reads it again at lines 113 and 149).  `insertVideo` stands for both functions of
  `MediaStoreUtils`: the media store gets what is in the file, or refuses it, of which
  the caller does not hear.
  Freed memory that the next command counts as its own is `"wild"`.
* **ObfCache** abstracts the list of classes found for a key to one class or
  `None`.  Hooks differ in what their `doObf` checks and their `init` loads, which are
  constants: `AudioDownloadHook` has three keys, takes the first class of two without
  asking whether there is one (`TakesFirst`: an exception, which the task catches, with
  any part of the fields set), never scans again, and loads one class (`Loads`).  A read of a file that holds an entry without a class returns any part
  of the others, because the order of lines is the one of a hash map.
* **Time** in `SyncQueue` and `Demuxer` is counted in a unit, and a time base is a
  number of them; comparison and rescaling are those of libavutil, with rounding.
  The run of `SyncQueue` uses time bases that divide the default one: with others
  `sq_set_tb`, called after a heartbeat, rounds a head by up to half a tick, and
  the order of two heads that are closer than that can change.

### Type invariants

Every module states its types and capacities as `TypeOK`, as documentation and as
the base of proofs.  For `ThreadQueue`, where the capacities of queue and pool are
part of it, `Muxer`, `SyncQueue` and `Transcode` it is a theorem, and no run repeats
it.

### Variants

Definitions under a comment that starts with *Variant*, or that names what the
variant leaves out, are the code with a plausible mistake (a dropped guard, a
forgotten broadcast, a missing merge); their names are the definition's with a
suffix.  They are not part of any specification; substituting one for the
definition below it must break the property `PROJECT.json` pairs it with, which
shows that the property depends on that code.

## Runs

| run | question | bounds |
|---|---|---|
| `thread_queue` | safety of the queue and refinement of the channel | 2 streams, 2 senders, capacity 2, 3 objects with a pool of 1, 4 items |
| `muxer` | order, truth of the status, cleaning up, and that every call returns, through every failure | 2 streams, 2 packets each, queue of 1, muxing queues from 1 to 2, threshold 1 |
| `sync_queue` | safety for both clients, `-shortest`, `-frames` and both | 3 streams, 2 frames each, 2 time bases that divide the default one |
| `demuxer` | passes, times and durations of a looped file, calls and closing | 5 files of up to 3 packets in 2 streams, loops 0, 1 and for ever up to 3 passes, queue of 2 |
| `transcode` | nothing is lost, outputs are complete, interleaved and ended, and the loop ends | 2 files of up to 7 packets (plain; a change of format; a loop and an empty stream), 3 streams, 2 graphs, 2 copies, 2 output files |
| `video_sync` | times grow, a constant rate neither drifts nor has holes | 5 frames with 7 gaps, 5 methods, 3 durations, 2 thresholds, 2 recording times |
| `stream_maps` | streams are connected, maps obeyed, the best chosen | 7 sets of inputs, 6 of graphs, all lists of up to 3 of 8 map options, several outputs |
| `session` | the right voice is sent and kept, downloads disturb each other only where they share | 2 activities, 3 voices, 2 downloads of the same file, kills anywhere |
| `obf_cache` | loading works, ends, loses nothing, uses no wrong class | 3 hooks, 5 keys of which `init` loads 3, any subset found, kills anywhere, an update to a version with new names |
| three `violation` runs | the findings below | as the run of the same module |

*Why the bounds are enough.*  Each bound lets the interesting case happen and be
followed by more: a queue of capacity 1 or 2 is full, drained and full again; a
pool of 1 overflows, is reused and runs empty; the muxing queue of 1 grows, hits
its limit and is refused; with three streams of two frames one can be behind, one
overtake, one end, and frames still wait; with two marks in a message queue of two
a pass can end while the main thread still flushes for the one before; four
frames are needed for a frame dropped, repeated, and both again.  A second command
is the first that finds what the first one left, a third one the first that finds
both.  Bounds on counters (`MaxItems`, `MaxPackets`, `MaxEofs`, `MaxFrames`,
`MaxVersion`, `MaxPasses`, `MaxClicks`) are guards of the actions and named in the
CONSTANTS.  *Symmetry*: addresses of objects and payloads are compared for
equality only, so they are symmetric in `thread_queue`; the activities are
in `session`; the runs with liveness properties use no symmetry.

*Deadlock* is checked in every run but two: a user who does nothing more leaves
`Session` where it is, and `StreamMaps` ends when the command line is read or
refused.  Elsewhere a finished conversion, a closed file and the end of a loop are
explicit stuttering actions (`Done`, `Closed`, `Over`).  `WaitForEachOther` of
`Demuxer` is one as well: it is the deadlock described under
[observations](#observations), allowed explicitly so that no other one goes
unnoticed.  `tq_receive` by itself never blocks its module: a wait is a state, and
a spurious wake-up is possible.

*Fairness* is weak and says that the operating system runs a thread that can run:

* `Muxer!FairSpec`: of the steps inside a call of the main thread and of the
  muxer thread.  Nothing is assumed about what the caller does next, so
  `EveryCallReturns` speaks of calls that were made.  Spurious wake-ups are not
  needed: they are no steps of `Muxer`.
* `Demuxer!FairSpec`: of `input_thread` and of the steps inside a call of the main
  thread.  Reading a packet is a step of the thread: a read answers in the end,
  with a packet, an end or an error.
* `Transcode!FairSpec`: of the main loop and, for each file, of `Arrive`: its
  demuxer thread answers in the end.  This is what `Demuxer` shows of
  `CallsReturn`.
* `ObfCache!FairSpec`: of the loading steps of the thread that loads; kills,
  switches and splash screens are not fair.

*What some properties say and do not say.*  `CallsReturn` and
`StopEndsUnlessLooping` are about a thread that may fail, end or be looping at each
step; the exception of the second is real.  `TimesGrow` of `Demuxer` speaks of files
whose own times grow: for others the code promises nothing; and of audio streams
only if there are any, because `seek_to_start` does not ask how long the last frame
of a video is then.  `NothingLost` excepts graphs that were reconfigured with frames
inside.  `CompleteAtEnd` is about a run that nobody interrupts; `OutputsEnd` says what
is left of it under a signal, a failure of a graph or of a muxer: an end, and nothing
behind it.  `CopiesStayTogether` bounds how far a copy runs ahead of one from another
file: `choose_output` takes the one that is most behind, and lets nobody pass while
that one waits.  `AloneIsWhole` says that nobody deletes or overwrites the file of an
undisturbed download before it is read; that the media store takes it, nobody
promises.  `SentFileIsKept` is about converted voices: without the conversion the
copy is deleted right after the callback.  `RightClasses` says of the keys that `init`
does not load only that they hold no wrong class, and `CacheKeepsLoaded` says of
`AudioDownloadHook`, which may be loaded with some keys missing, that what it was
given is kept.  `KeepsUp` is the reason for the constants 0.6 and 1.1 in
`video_sync_process`.

## Findings

Each is a run that TLC ends with a counterexample to something the repository
itself says.

1. **A stream that does not limit can become the queue head**
   (`sync_queue.c:133`), when it is stream 0; it is never replaced and outlasts
   the stream that limits.  (`NoOtherIsLonger` in `limiting_stream_last`)
2. **`needObf` after the version was saved** (`HookBus.java:203`): after an
   update a hook can be left to the task by the main thread and be passed over
   by the task.  (`NeedObfIsRight`)
3. **The second command of a process counts files of the first one**
   (`ffmpeg.c:559`): `ffmpeg_cleanup` frees `input_files` and leaves
   `nb_input_files`, so that the next file is appended behind elements that
   nobody has written, and `ist_iter` follows them.  (`CountIsNumberOfElements`)
   The model stops at `ist_iter`; the program may die earlier, because
   `nb_filtergraphs` is left in the same way and its array is null, and
   `Session`'s states behind that point are more than the program has.

## Observations

Behaviour met while modelling that a maintainer may want to know.  The models
contain it; the properties are stated so that they hold beside it.

* `ifile_close` can wait for ever for a thread that waits for audio durations
  (`ffmpeg_demux.c:141` and `:355`): the thread has no way to learn of the stop.
  `WaitForEachOther` is that state.
* `muxing_queue_data_size` never decreases (`ffmpeg_mux.c:432`): the size is read
  from a packet that was moved away.
* A limiting stream that ends without a frame leaves the sync queue without a
  head, and the other streams buffer without bound (`sync_queue.c:219`); a packet
  without a timestamp but with a duration is not recognised as untimed
  (`sync_queue.c:78`).
* `DexUtils.obf` compares sizes, not keys (`DexUtils.java:28`), although it promises
  "根据条件找到的类", the classes found according to the conditions (line 22): on a
  first start the look-up of the second hook is answered by the entry of the first, the
  only one in the file.  Hooks that scan again for a missing key recover
  (`RescanningHooksWork`); `AudioDownloadHook` does not: with one entry in the file,
  as when `NoMark` is switched off, its three fields stay empty, no key of it is scanned
  for, and every later start ends in the same way until another hook adds an entry.
* `AudioDownloadHook.init` loads `DEOBF_AIO3` only (`AudioDownloadHook.java:77`): it
  succeeds with `DEOBF_AIO1` and `DEOBF_AIO2` empty or from before an update.  Its
  `doObf` throws on a key without a class (`:280`, `:283`), after some keys or none.
* With audio, `d->duration` is the longest *audio* stream, so that the frames of a
  longer video overlap the next pass.
* "frame duplication too large" (`ffmpeg.c:1209`) skips a frame and leaves
  `next_pts` behind, so that the frames that follow are skipped for the same
  reason; a frame kept and then dropped by the end of the stream is counted
  twice; `KF_FORCE_SOURCE_NO_DROP` resets `dropped_keyframe` before it is tested
  (`ffmpeg.c:1143`).
* A negative `-map` that matches the first stream of file 0 also disables maps of
  labels made before it; it is accepted whenever any map exists; and
  `-map x?` that matches nothing leaves the automatic selection on
  (`ffmpeg_opt.c:405`).
* Within a file a default stream of unknown size hides videos below the bonus of
  5000000, and then loses to a video of another file whose size is known; if none of its
  packets came, no video is taken at all (`ffmpeg_mux_init.c:883` and `:893`).  The bonus does not decide always: a 4K video has more
  pixels, and a stream whose packets came early beats a default one whose packets did
  not.
* The fourth command of a process writes through a null pointer, if it gets that
  far (`cmdutils.c:987`).
* Two downloads share the directory that each of them empties: one started beside
  another can announce an empty or mixed file (`DownloadManager.java:114`), which
  is why `AloneIsWhole` speaks of those that had it to themselves.
* A failed transfer is announced as a download (`DownloadManager.java:98`), and so is
  one that the media store refused (`MediaStoreUtils.java:28` and `:56` log the error):
  the file is deleted in both cases, so a download that was transferred whole can be
  lost (`DownloadManager.java:79` and `:137`).

## Proofs

`ThreadQueue_proofs` proves, for any number of streams, senders, objects
and items, and any capacity of queue and pool:

| theorem | property |
|---|---|
| `TypeCorrect` | `TypeOK`, with the capacities |
| `DeliversInOrder` | `InOrder` |
| `ObjectsAreNotShared` | `ObjectsNotShared` |
| `EofIsOnceAndLast` | `EofOnceAndLast` |
| `DoneIsForGood` | `DoneIsFinal` |
| `NoWakeupIsMissed` | `NoMissedWakeup` |
| `NothingBehindFinish` | `NoWriteBehindFinish` |
| `Refinement` | `ImplementsChannel`: every step is one of `StreamChannel` or a stutter |

*Assumptions*: the named `ASSUME`s of `ThreadQueue`: at least one stream,
a positive capacity, a receiver that is no sender, one owner (sending thread) per
stream, a blank that is no item.

*Argument.*  The inductive invariant `IInv` is the conjunction of the seven
properties; none of the interesting ones is inductive alone.  `InOrder` needs
`ObjectsNotShared`: overwriting a pool object must not touch a queued one.
`TypeOK` needs it as well, because the consumer reads its item through the
object.  `NoMissedWakeup` and `EofOnceAndLast` need `NoWriteBehindFinish`: a
sender that sleeps in `tq_send` has tested `FINISHED_SEND` before it went to
sleep only, and nothing but the ownership of streams keeps another call from
ending its stream in the meantime.  `NextCases` splits `Next` into one case per
outcome of an operation; each `Step...` lemma has one step per case.

`Muxer_proofs` proves, for any number of streams, packets and ends, and any sizes
of the thread queue, the pool and the muxing queues:

| theorem | property |
|---|---|
| `FileInOrder` | `WrittenInOrder` |
| `StatusTellsTruth` | `StatusIsTrue` |
| `QueueStaysBounded` | `MuxingQueueBounded` |
| `ClosedIsEmpty` | `NothingLeft` |
| `TypeCorrect` | `TypeOK` |

*Assumptions*: `MuxAssumption`: at least one stream, a positive size of the thread
queue and of a new muxing queue, natural numbers for the other sizes and bounds.

*Argument.*  `QueueStep` shows that every step of `Muxer` before `tq_free` is a step of
the thread queue, so its invariant (`IInv` of `ThreadQueue_proofs`, taken over with
`INSTANCE`) holds as long as there is a queue.  `Base` adds the types and where
the two threads can be while there is no queue, one, or none any more.  Four
invariants follow a packet of a stream from the call to the file, each
by the set of packets at one place:

* `StreamInv`: the packets the queue accepted are the first ones that were taken;
  what waits in `tq_send`, and behind it in the muxing queue, is not among them and
  in order; and while the stream has not ended, or nothing went wrong, nothing that
  was taken is anywhere else.  One packet can be: the one of a `tq_send`
  that failed, until the main thread sees the error (`Lost`).
* `SendInv`, `EndInv`: why a send fails, and who ends a stream.  `tq_send` fails with
  EOF because the muxer thread refused the stream, which it only does when the file
  is full, when a write failed, or when everybody has ended; the last cannot
  be while a send runs, because the main thread marks a stream finished no later
  than the queue does.  That is why an ended stream has nothing in its muxing
  queue unless there was an error.
* `DrainInv`: `thread_start` leaves empty queues behind its loop.
* `WriteInv`: the file holds what was received, except for the packet in the muxer
  thread's hands.

`Offer` is the step all ways into `tq_send` share (a new packet, one of a muxing
queue, a send that was woken up).  `SameStart` turns the sets back
into sequences: of two increasing sequences, one whose members are the first
members of the other is how the other begins.  `StatusInv` then only has to follow
the error codes: when the thread is joined without an error, `FileComplete` adds up
the sets.  `CapInv`, for the size of the muxing queues, counts ends as well,
which have no size in `muxing_queue_data_size` and are the reason for `MaxEofs` in the
bound.

`Demuxer_proofs` proves, for any file, `-stream_loop`, number of streams and size
of the queues:

| theorem | property |
|---|---|
| `PassesKeepOrder` | `PassesInOrder` |
| `DurationsMatch` | `DurationsArePaired` |
| `TimesGrowOn` | `TimesGrow` |

*Assumptions*: those of `Demuxer`: finitely many streams, positive time bases and
frame lengths, queues that hold something.  Nothing is assumed of the times in a
file; `TimesGrow` itself speaks of streams whose times grow there.

*Argument.*  `OrderInv` says of what the main thread has taken followed by what is
queued (`Sent`) that each message follows the one before (`Chain`) and that its last
one is where the thread is (`Reading`); it needs the end to be seen once the queue is
empty only.  `MarkInv` counts: from the mark on that ends a pass, the
durations the thread has, those that are queued and those the main thread has
still to send are together as many as there are audio streams, and before the mark
is taken none was sent for this pass.  Two passes cannot meet in the queue of
durations because the thread waits for all of one before it reads the next,
although the main thread may still be flushing decoders for the first.

`TimesGrow` then follows from three facts.  `LeastInv`: from the end of the first pass
on `min_pts` is not behind any time the stream has in the file, moved by the
offset alone, because nothing was added in that pass (`FirstInv`).  `CountInv`: while
the thread awaits durations, each audio stream is either counted (the duration
is at least `max_pts - min_pts` in its time base) or its last frame is still to
come; with `MarkInv` none is when the last one is received (`LastIsCounted`).  That the
longest stream wins is not enough: the comparison starts over when the duration
is 0, and it must not shrink then (`UpdateCounts`).  `TimeInv`: each time that was
told belongs to a packet read in this pass, or is not behind any that this pass
is going to have; `RestartKeepsTimes` shows it for the next pass, where the
rounding of `av_rescale_q` does no harm, since the nearest to something that is at
least a whole number is at least that number (`RescaleLeast`).  `ifile_close` throws
packets and marks away and may leave the thread waiting; `CountInv` has a case for
that.

`ObfCache_proofs` proves, for any hooks, keys and versions, over kills, switches and
updates:

| theorem | property |
|---|---|
| `NoWrongClass` | `RightClasses` |
| `FileKeepsLoaded` | `CacheKeepsLoaded` |
| `RescannersWork` | `RescanningHooksWork` |

*Assumptions*: those of `ObfCache`: finitely many keys per hook, at least one, that no
two hooks share, and for each version a class that can be loaded for each key.
`HookAssumption` holds of the hooks in the repository.  Which keys `init` loads, which
hooks scan again and which take the first class unasked are arbitrary.

*Argument.*  `DexInv`: each class in the file and in memory was found in the dex file of
the installed version or of one before.  `LoadSets`: whether or not `doObf` throws, a
field it changes is one of its own hook and gets what it was given for that key.
`FieldInv`: each field is from some version up to the installed one, and what a hook
whose init succeeded has loaded are classes of the installed one; with fresh names, a
name that was found in any version and can be loaded in this one is the name of the
right class.  For `FileKeepsLoaded` one set is followed, the keys that are in the file or in the
scan that is being saved (`Kept`): only a kill makes it smaller (`KeptStep`), and
each hook that scans again and that the loop has passed has its keys in it
(`KeepInv`), and so has every field that was set, for whichever hook (`FieldsKept`).  For `RescannersWork`,
`WorkInv` says that a hook that does not work yet is being looked up, or is still to
come and misses a key in the file, so that `needObf` will say so.

`Session_proofs` proves, for any number of activities, voices, downloads, files
and directories, over kills and new processes:

| theorem | property |
|---|---|
| `LastChoiceWins` | `LastChoiceIsSentLast` |
| `HandedFileStays` | `SentFileIsKept` |
| `UndisturbedIsWhole` | `AloneIsWhole` |
| `OnlyFailuresStay` | `LeftOversAreFailures` |

*Assumptions*: the named `ASSUME`s of `Session`: a natural number bounds the
clicks, and a file name is in one directory.

*Argument.*  Two inductive invariants, because voices and downloads share
nothing but the looper.  `Voices`: a command or a posted finish is there only
with the conversion switched on, and then `callBack` is the last choice
(`VoiceInv`); when the finish runs, a conversion of that choice is in the
directory (`FileInv`), which is what makes the static harmless and keeps the
file.  `Disks`: a posted message is about one download that waits for it
(`PostedInv`), who writes into a file has its name and was not deleted with it
(`WritersInv`), and an undisturbed download that runs is the only one in its
directory (`AloneAt`), also between the deletion of an old file and the creation of the
new one.  When it is done, the store was given all of it, or refused it.  `OthersAlone` is the step every download action uses: a
step that changes files of its own directory cannot touch an undisturbed
download, since that one would have to share the directory.
`CountIsNumberOfElements` is not a theorem: it is violated (Findings).

`SyncQueue_proofs` proves, for any number of streams, frames, limits and buffer sizes,
for both clients; for any time bases in the muxer, but in the encoders only for those
that divide the default one, and partly only if stream 0 limits (last column):

| theorem | property | of the constants |
|---|---|---|
| `EndShared` | `EndIsShared` | `ExactBases` |
| `HeadIsLeast` | `HeadIsSmallest` | `ExactBases`, `FirstLimits` |
| `NoneIsLonger` | `NoOtherIsLonger` | `ExactBases`, `FirstLimits` |
| `NothingIsHeldBack` | `NothingHeldBack` | `ExactBases`, `FirstLimits` |
| `TypeCorrect` | `TypeOK` | |

*Assumptions*: those of `SyncQueue`, with `NoTsAssumption`: a timestamp is later than
what `AV_NOPTS_VALUE` stands for, in any time base.  Two hypotheses are stated by the
theorems, because the code does not guarantee them.  `FirstLimits`: stream 0 limits
the queue.  It does with `-shortest`, where all streams limit; without it
`NoOtherIsLonger` is false, which is the finding the run `limiting_stream_last` shows.
`ExactBases`: where encoders use the queue, the time base of a stream divides the one
`sq_add_stream` gave it (one second), as `1/sample_rate` and `1/fps` do.  Otherwise
`sq_set_tb` rounds a head that a heartbeat has moved, and the order of heads may
change.  The muxer sets all time bases first, and needs no such hypothesis.

*Argument.*  `QueueInv` says of one record `sq` how its fields go together: heads are
above `NoTs` (`Above`), the finished head (`EndSharedBut`), the queue head
(`HeadSmallest`, and `HeadWaits`: it is missing only while a limiting stream has no
timestamp), and what `over` means.  Each C function has a lemma that it keeps
`QueueInv` and lets no head go back (`Later`): `FinishInv`, `UpdateInv`, `OverflowInv`.
Inside of `stream_update_ts` the invariant is broken for the stream that moves
(`EndSharedBut(q, {s})`) until `finish_stream` mends it (`FinishShares`); `HeadFound` is
the search for the head.  The loop of `overflow_heartbeat` is a recursive function over
the streams; `EachHeartbeat` shows by the least counterexample that what one
heartbeat keeps all of them keep.  `IInv` adds the clients: `NoneLonger` follows from
the queue head and `Later`, and `MuxServed` and `EncoderServed` say who was left with a
frame that is not ready: for an encoder that was told EOF, only when the queue is over,
after which no head moves.

`VideoSync_proofs` proves `EncoderTimesGrow`, that `TimesGrow` holds for every
length of a frame, every set of gaps, durations, thresholds and recording times,
and any number of frames, under `UnitAssumption` and `LimitAssumption` of
`VideoSync`.  The invariant relates the frame encoded last to `next_pts`
and `last_frame` (`Paced`): the next frame starts after it in time, and right
after it with a constant rate; until the recording time is reached, the frame
kept for repetition is not older than it.  `Rounds` is what makes the clipping
of a frame that begins in the past (`Delta`) enough: rounding a time not before
frame `q` gives no frame before `q`.  `Maximum` finds the greatest element of a set of
naturals by well-foundedness.  `DoesNotDrift` proves `KeepsUp` under
`Punctual`: durations are not negative and `-frame_drop_threshold` is at most half a
frame (the option is meant for negative values; a threshold of several frames would
drop what the output lacks).  `ConstantRate` says what `video_sync_process`
does with a frame that ends `e` after what was shown: if it is dropped, `e` is at most
half a frame, otherwise what is left of `e` is between -2.1 and 0.5 frames.
`KeepsUp` is inductive with `OnTime`, because times that do not go back leave `e` no
smaller than what the frame before it left.

`Transcode_proofs` proves, for any files, streams, copies, filter graphs, delays and
recording times, over slow demuxers, failing muxers and signals:

| theorem | property |
|---|---|
| `FramesAreNotLost` | `NothingLost` |
| `OutputsAreComplete` | `CompleteAtEnd` |
| `EveryOutputEnds` | `OutputsEnd` |
| `FinishedWasInitialized` | `FinishedIsInitialized` |
| `TypeCorrect` | `TypeOK`, with the frames that decoders and encoders may hold |

*Assumptions*: the named `ASSUME`s of `Transcode`: streams and files are numbers, a
graph has an input and a stream feeds at most one graph, an eager graph has one
input, a packet has a time and a format, a recording time is a natural number.  Nothing
is assumed of the order of packets, of keyframes or of how many streams, graphs and
files there are.  `CompleteAtEnd` itself asks for `InOrder`, that time does not run
backwards in the input of an output, where it says what the output holds: the first
packet or frame behind the recording time finishes the output, and one in time that
came later would be missing.  Its other half, the end, and `NothingLost` need no order.
All contents of the run `transcode` are in order.

*Argument.*  `Good` says of the record of one output stream that what is finished is
initialized and that nothing comes behind an end; `Grows` that a step keeps it
good and takes nothing back, `Quiet` that it tells no end besides.  Each function of
the code that changes such a record has a lemma that says which of the two it is
(`OutputPacket`, `CopyIsQuiet`, `EncodeIsQuiet`, `ReapedIsQuiet`, `EndCopiesGrows`,
`FlushedEnds`), and `QuietSteps` shows that only three actions are not quiet.  What
makes `EveryOutputEnds` inductive is `EndInv`: who was told the end of its stream
(`Ended`), while the end of a file is passed on, after it, and while all is drained.
An encoded stream that was never initialized gets its end only if the formats of all
inputs of its graph are known; that they are when `flush_encoders` runs is the half
of `Ended` that is about graphs (`FormatsKept`, `FormatKnown`): `send_filter_eof` sets
a format or ends the program.  That a copy gets no packet after its end is its other
side: the end is told when all of the file was read.  `FinishedWasInitialized` needs
`PlaceInv`: `transcode_from_filter` runs for a configured graph only, so the flush that
closes its outputs has initialized them.

`FramesAreNotLost` is not inductive, for two reasons.  It says nothing of what is
still to be read, so `Chain` compares with the whole file: what was encoded, what is at
the sink, in the graph, in its queue, in the decoder and *unread* is what the file
holds of that input.  And a graph could be configured with frames already inside, or
told the end of an input that goes on: `GraphInv` says that a configured graph has
nothing queued and an unconfigured one nothing inside, that its buffers keep the inputs
apart, and that while the loop runs, an input whose end it was told has nothing to
come.  Each place a frame passes has a lemma (`send_frame_to_filters` and
`configure_filtergraph` move it within `Ahead`, `transcode_from_filter` from there to the
sink, `reap_filters` from the sink to the encoder), and `Served`, `InLine` and `Relinks`
say what such a move keeps.

`OutputsAreComplete` adds the other side of `Chain` for what is *finished*
(`FlowInv`): such an output was given all that `Expected` allows, and, when
the loop was left, has put it out.  That needs the order: the frames of a sink rise and
are before all that is ahead of the graph (`Order`; a graph of several inputs
gives the earliest frame that it holds, and only when all other inputs have one or have
ended), so nothing in time is behind the frame that is late.  `CopyInv` is the same
for copies, over what was read instead of what was sent: all from the first
keyframe on, until a packet is late (`CopiedOn`), and finished only for that or at the
end of the file (`CopyEnds`).  `LeftInv` says that the loop is left by itself only when
no output is unfinished.

*Selections.*  Both compare sequences from which the packets of one stream were
selected.  `Only` selects with a recursive function and not with `SelectSeq`, whose
`RECURSIVE` form the provers cannot expand.  What it does with an empty sequence, with
one more element and with two sequences put together (`OnlyEmpty`, `OnlyAppend`,
`OnlyConcat`) is what everything above uses.  The induction these
lemmas need is written out: a set of lengths at which the claim fails has a least
member (`Least`, from the well-foundedness of `<`), and the step below it is the
contradiction.

*Only model-checked*: `CopiesStayTogether` of
`Transcode`, the properties of `StreamMaps`, and liveness
(`EveryCallReturns`, `CallsReturn` and the like), which is out of the prover's reach.
`StreamMaps` computes with folds and selections over the streams of all files
(`FileBest`, `Best`, `Fitting`, `Added`), and `MapsAreObeyed` counts options: each would need
lemmas like those of `Only`, which are not written yet.  `CopiesStayTogether` counts the frames
between two times, with a bound that holds for files whose packets are in the
order of their times: it needs, besides that order, which graphs
keep a file back and how long `choose_output` prefers another one.

## Not modelled

* *Decoders, encoders, filters, formats*: libav*, which is not in the repository.
* *Time stamps other than those of encoded video*: `ts_discontinuity_process`, the
  DTS of copies and their repair in `write_packet`; forced keyframes; subtitles.
* *Options*: the splitting of a command line into groups and the tables of
  options (`cmdutils.c`, `opt_common.c`), `-map_channel`, `-map_metadata`: formatting
  and look-ups, no state that two actors share.
* *Hardware devices* (`ffmpeg_hw.c`): a table of devices by name.
* *Start-up and activity proxy* (`startup/`, `lifecycle/`): reflection on Android's
  classes; whether a wrapped intent is right is decided outside the repository.
* *Host hooks and screens* other than `AudioSend` and those of `ObfCache`: each
  is a substitution in one method of the host app.
* *Two splash screens at a time* in `HookBus`: two tasks that read and write one
  cache file.
* *The recursion of the voice dialog's list* (`PDialogVoice.java:87`): a
  subdirectory makes it list its parent again, in a new task, without end.
* *Vendored code*: `cpp/include/lib*`, `mmkv/`, `dexkit/` are declarations and other
  people's libraries, modelled only from how the code uses them (marked
  external).

## Plan

Done, in this order: `ThreadQueue` with `StreamChannel` and proofs, `Muxer`,
`ObfCache`, `SyncQueue`, `Demuxer`, `Transcode`, `Session` with the downloads,
`VideoSync`, `StreamMaps`, the proofs about `Session`, `VideoSync`, `ObfCache`,
`Demuxer`, `Muxer`, `SyncQueue` and `Transcode`.  To come:

1. Proofs: `CopiesStayTogether` for streams in the order of their times; the loops
   of `StreamMaps` as functions on lengths, as `Only` is, to prove `MapsAreObeyed`.
2. An abstract specification of an output file that `Muxer` implements.

## How to run

In this directory, `tlc -config MCMuxer.cfg MCMuxer.tla` and so on for the
runs of `PROJECT.json`; `tlapm ThreadQueue_proofs.tla`
and so on for the proofs.
