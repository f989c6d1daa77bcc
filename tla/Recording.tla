------------------------------ MODULE Recording ------------------------------
(***************************************************************************)
(* Recordings of MainSubnode: commands that start, stop and delete them,   *)
(* the callbacks of the device that feed them, and the writer threads that *)
(* bring IMU rows (CsvDataWriter) and images (ImageDataWriter for the SLAM *)
(* cameras, RgbImageDataWriter for the RGB camera) to disk.                *)
(*                                                                         *)
(* Commands run in a goal thread, one at a time.  The callbacks run in the *)
(* main thread, which calls release() when the subnode quits; a goal       *)
(* thread that the destroyed action server has not joined (ActionCommands, *)
(* Exit) may still be inside a command then.  The state lock protects the  *)
(* flags, not the writers.                                                 *)
(*                                                                         *)
(* A sample is a number and the recording that was on when its callback    *)
(* looked.  Contents, formats and paths are left out; one CSV writer       *)
(* stands for those of the two IMUs, which share nothing.                  *)
(***************************************************************************)
EXTENDS Integers, Sequences, FiniteSets

CONSTANTS
  CsvBuffer,       \* bufferSize_ of CsvDataWriter
  QueueLimit,      \* bufferSize_ of the image writers
  MaxRecordings,   \* bound: recordings that are begun
  MaxSamples,      \* bound: callbacks of the device
  MaxDeletes,      \* bound: delete_record commands
  Helpers,         \* helper processes: screen capture, microphone
  Detached         \* may a goal thread outlive disconnect()?

ASSUME RecordingAssumption ==
  /\ CsvBuffer \in Nat \ {0}
  /\ QueueLimit \in Nat \ {0}
  /\ MaxRecordings \in Nat
  /\ MaxSamples \in Nat
  /\ MaxDeletes \in Nat
  /\ Detached \in BOOLEAN

Threads == {"goal", "main"}
Nothing == [mode |-> "none", helpers |-> {}]
ImageModes == {"slam", "rgb"}
Modes == {"none", "both"} \cup ImageModes
Worker == {"none", "running", "ended"}   \* a std::thread until it is joined
Sessions == 0..MaxRecordings
Samples == [id : 1..MaxSamples, session : Sessions]

VARIABLES
  recordFlag,   \* recordFlag_
  finalizing,   \* recordFinalizing_
  mode,         \* recordImageMode_
  session,      \* the recording begun last; recordPath_ names its folder
  stateLock,    \* holder of recordStateLock_, or "free"
  pc,           \* where each thread stands in cmdStartRecord, cmdStopRecord
  wanted,       \* what the start_record under way asks for
  csv,          \* the CSV writer: flags, buffer_, writeQueue_, thread
  image,        \* the two image writers: flags, saveQueue_, thread
  data,         \* where the main thread stands in a callback
  helpers,      \* helper processes of the member variables
  leaving,      \* helper processes that cmdStopRecord has taken over
  disk,         \* samples in the folder of each recording
  deleted,      \* recordings whose folder delete_record has removed
  settled,      \* samples whose callback ended while their recording was on
  quit,         \* the event loop of the main thread has ended
  used          \* events used up

flagVars == <<recordFlag, finalizing, mode, session, stateLock>>
helperVars == <<helpers, leaving>>
vars == <<recordFlag, finalizing, mode, session, stateLock, pc, wanted, csv,
          image, data, helpers, leaving, disk, deleted, settled, quit, used>>

StartSteps == {"open_csv", "open_image", "go", "helpers"}
StopSteps == {"take", "csv_flush", "csv_clear", "csv_stop", "csv_join",
              "image_stop", "image_join", "image_clear", "helpers_stop",
              "finish"}
DataSteps == {"idle", "csv_check", "csv_push", "csv_queue", "csv_clear",
              "slam_flag", "image_check", "image_push"}
Batches == SUBSET Samples

TypeOK ==
  /\ recordFlag \in BOOLEAN /\ finalizing \in BOOLEAN
  /\ mode \in {"none"} \cup ImageModes
  /\ session \in Sessions
  /\ stateLock \in Threads \cup {"free"}
  /\ pc \in [Threads -> {"idle", "gone"} \cup StartSteps \cup StopSteps]
  /\ wanted \in [mode : Modes, helpers : SUBSET Helpers]
  /\ csv \in [open : BOOLEAN, stop : BOOLEAN, thread : Worker, file : Sessions,
              buffer : SUBSET Samples, queue : Seq(Batches)]
  /\ image \in [ImageModes -> [open : BOOLEAN, stop : BOOLEAN, thread : Worker,
                               file : Sessions, queue : Seq(Samples)]]
  /\ data \in [pc : DataSteps, sample : Samples \cup {<<>>}, rgb : BOOLEAN,
               writer : ImageModes]
  /\ helpers \subseteq Helpers /\ leaving \subseteq Helpers
  /\ disk \in [Sessions -> SUBSET Samples]
  /\ deleted \subseteq Sessions
  /\ settled \subseteq Samples
  /\ quit \in BOOLEAN
  /\ used \in [samples : 0..MaxSamples, deletes : 0..MaxDeletes]

Init ==
  /\ recordFlag = FALSE /\ finalizing = FALSE /\ mode = "none"
  /\ session = 0 /\ stateLock = "free"
  /\ pc = [t \in Threads |-> "idle"]
  /\ wanted = Nothing
  /\ csv = [open |-> FALSE, stop |-> FALSE, thread |-> "none", file |-> 0,
            buffer |-> {}, queue |-> <<>>]
  /\ image = [m \in ImageModes |-> [open |-> FALSE, stop |-> FALSE,
                             thread |-> "none", file |-> 0, queue |-> <<>>]]
  /\ data = [pc |-> "idle", sample |-> <<>>, rgb |-> FALSE, writer |-> "slam"]
  /\ helpers = {} /\ leaving = {}
  /\ disk = [s \in Sessions |-> {}]
  /\ deleted = {}
  /\ settled = {}
  /\ quit = FALSE
  /\ used = [samples |-> 0, deletes |-> 0]

Goto(t, step) == pc' = [pc EXCEPT ![t] = step]

---------------------------------------------------------------------------
(* start_record: cmdStartRecord, under the state lock from its checks to    *)
(* its return                                                               *)

MayStart == ~recordFlag /\ ~finalizing

BeginStart(t) ==
  /\ pc[t] = "idle" /\ t = "goal" /\ stateLock = "free" /\ ~quit
  /\ session < MaxRecordings
  /\ MayStart
  /\ \E m \in Modes, h \in SUBSET Helpers :
        wanted' = [mode |-> m, helpers |-> h]
  /\ session' = session + 1
  /\ stateLock' = t
  /\ Goto(t, "open_csv")
  /\ UNCHANGED <<recordFlag, finalizing, mode, csv, image, data, helpers,
                 leaving, disk, deleted, settled, quit, used>>

\* A start that fails returns and releases the lock.
FailStart(t) == stateLock' = "free" /\ wanted' = Nothing /\ Goto(t, "idle")

\* CsvDataWriter::open; the file may not be writable.  Neither buffer_ nor
\* writeQueue_ is emptied.
OpenCsv(t) ==
  /\ pc[t] = "open_csv"
  /\ \/ /\ csv' = [csv EXCEPT !.open = TRUE, !.stop = FALSE, !.thread = "running",
                              !.file = session]
        /\ Goto(t, "open_image")
        /\ UNCHANGED <<stateLock, wanted>>
     \/ FailStart(t) /\ UNCHANGED csv
  /\ UNCHANGED <<recordFlag, finalizing, mode, session, image, data, helpers,
                 leaving, disk, deleted, settled, quit, used>>

\* The two image modes exclude each other: the CSV writer is closed again
\* (csv_flush and the steps after it), without a recording to finish.
\* ImageDataWriter::open and RgbImageDataWriter::open keep what saveQueue_ holds.
OpenImage(t) ==
  /\ pc[t] = "open_image"
  /\ \/ /\ wanted.mode = "both"
        /\ Goto(t, "csv_flush")
        /\ UNCHANGED image
     \/ /\ wanted.mode = "none"
        /\ Goto(t, "go")
        /\ UNCHANGED image
     \/ /\ wanted.mode \in ImageModes
        /\ image' = [image EXCEPT ![wanted.mode] =
             [@ EXCEPT !.open = TRUE, !.stop = FALSE, !.thread = "running",
                       !.file = session]]
        /\ Goto(t, "go")
  /\ UNCHANGED <<flagVars, wanted, csv, data, helpers, leaving, disk, deleted,
                 settled, quit, used>>

GoOn(t) ==
  /\ pc[t] = "go"
  /\ mode' = wanted.mode
  /\ recordFlag' = TRUE
  /\ Goto(t, "helpers")
  /\ UNCHANGED <<finalizing, session, stateLock, wanted, csv, image, data,
                 helpers, leaving, disk, deleted, settled, quit, used>>

\* startScreenCaptureWorker and startMicRecordWorker: a process may not start.
Launched(asked) == SUBSET asked

\* waitForExternalWorkerReady: it reports ready in time, or it is stopped.
Ready(launched) == SUBSET launched

\* The recording goes on without the helpers that are not ready, with a warning.
StartHelpers(t) ==
  /\ pc[t] = "helpers"
  /\ \E launched \in Launched(wanted.helpers) : \E ready \in Ready(launched) :
        helpers' = (helpers \ wanted.helpers) \cup ready
  /\ stateLock' = "free"
  /\ wanted' = Nothing
  /\ Goto(t, "idle")
  /\ UNCHANGED <<recordFlag, finalizing, mode, session, csv, image, data,
                 leaving, disk, deleted, settled, quit, used>>

---------------------------------------------------------------------------
(* stop_record: cmdStopRecord, also called by stop_device, estop and        *)
(* onRelease                                                                *)

BeginStop ==
  /\ pc["goal"] = "idle" /\ ~quit
  /\ recordFlag
  /\ Goto("goal", "take")
  /\ UNCHANGED <<flagVars, wanted, csv, image, data, helperVars, disk, deleted,
                 settled, quit, used>>

\* Under the lock the flag goes down and the helpers are taken over; a thread
\* that comes second is refused.
TakeOver(t) ==
  /\ pc[t] = "take" /\ stateLock = "free"
  /\ IF recordFlag
       THEN /\ recordFlag' = FALSE
            /\ finalizing' = TRUE
            /\ leaving' = helpers
            /\ helpers' = {}
            /\ Goto(t, "csv_flush")
       ELSE /\ Goto(t, IF t = "main" THEN "gone" ELSE "idle")
            /\ UNCHANGED <<recordFlag, finalizing, helperVars>>
  /\ UNCHANGED <<mode, session, stateLock, wanted, csv, image, data, disk,
                 deleted, settled, quit, used>>

\* Faulty variant: close() forgets the rows that are not queued yet.
FlushNothing(t) ==
  /\ pc[t] = "csv_flush"
  /\ Goto(t, "csv_clear")
  /\ UNCHANGED <<flagVars, wanted, csv, image, data, helperVars, disk, deleted,
                 settled, quit, used>>

\* CsvDataWriter::close queues what is left in buffer_ and clears it ...
FlushCsv(t) ==
  /\ pc[t] = "csv_flush"
  /\ IF csv.buffer # {}
       THEN /\ csv' = [csv EXCEPT !.queue = Append(@, csv.buffer)]
            /\ Goto(t, "csv_clear")
       ELSE Goto(t, "csv_stop") /\ UNCHANGED csv
  /\ UNCHANGED <<flagVars, wanted, image, data, helperVars, disk, deleted,
                 settled, quit, used>>

ClearCsv(t) ==
  /\ pc[t] = "csv_clear"
  /\ csv' = [csv EXCEPT !.buffer = {}]
  /\ Goto(t, "csv_stop")
  /\ UNCHANGED <<flagVars, wanted, image, data, helperVars, disk, deleted,
                 settled, quit, used>>

\* Faulty variant: the thread is waited for and never told.
StopCsvUntold(t) ==
  /\ pc[t] = "csv_stop"
  /\ Goto(t, "csv_join")
  /\ UNCHANGED <<flagVars, wanted, csv, image, data, helperVars, disk, deleted,
                 settled, quit, used>>

\* ... tells the thread to stop ...
StopCsv(t) ==
  /\ pc[t] = "csv_stop"
  /\ csv' = [csv EXCEPT !.stop = TRUE]
  /\ Goto(t, "csv_join")
  /\ UNCHANGED <<flagVars, wanted, image, data, helperVars, disk, deleted,
                 settled, quit, used>>

\* ... and closes the file when it has ended.  A start that failed is over.
JoinCsv(t) ==
  /\ pc[t] = "csv_join"
  /\ csv.thread = "ended"
  /\ csv' = [csv EXCEPT !.open = FALSE, !.thread = "none"]
  /\ IF stateLock = t THEN FailStart(t)
                      ELSE Goto(t, "image_stop") /\ UNCHANGED <<stateLock, wanted>>
  /\ UNCHANGED <<recordFlag, finalizing, mode, session, image, data, helperVars,
                 disk, deleted, settled, quit, used>>

\* The image writers that are open: at most the one of the recording.
OpenImages == {m \in ImageModes : image[m].open}

StopImage(t) ==
  /\ pc[t] = "image_stop"
  /\ image' = [m \in ImageModes |->
       IF m \in OpenImages THEN [image[m] EXCEPT !.stop = TRUE] ELSE image[m]]
  /\ Goto(t, "image_join")
  /\ UNCHANGED <<flagVars, wanted, csv, data, helperVars, disk, deleted,
                 settled, quit, used>>

\* ImageDataWriter::close leaves its queue alone, RgbImageDataWriter::close
\* empties it before it counts as closed.
JoinImage(t) ==
  /\ pc[t] = "image_join"
  /\ \A m \in OpenImages : image[m].thread = "ended"
  /\ image' = [m \in ImageModes |->
       IF m \notin OpenImages THEN image[m]
       ELSE [image[m] EXCEPT !.thread = "none", !.open = (m = "rgb"),
                             !.queue = IF m = "rgb" THEN <<>> ELSE @]]
  /\ Goto(t, "image_clear")
  /\ UNCHANGED <<flagVars, wanted, csv, data, helperVars, disk, deleted,
                 settled, quit, used>>

CloseImage(t) ==
  /\ pc[t] = "image_clear"
  /\ image' = [image EXCEPT !["rgb"].open = FALSE]
  /\ Goto(t, "helpers_stop")
  /\ UNCHANGED <<flagVars, wanted, csv, data, helperVars, disk, deleted,
                 settled, quit, used>>

\* Faulty variant: a helper that does not end when it is told to is left alone.
StopHelpersGently(t) ==
  /\ pc[t] = "helpers_stop"
  /\ \E stubborn \in SUBSET leaving : leaving' = stubborn
  /\ Goto(t, "finish")
  /\ UNCHANGED <<flagVars, wanted, csv, image, data, helpers, disk, deleted,
                 settled, quit, used>>

\* stopExternalWorker terminates a helper and kills one that does not end.
StopHelpers(t) ==
  /\ pc[t] = "helpers_stop"
  /\ leaving' = {}
  /\ Goto(t, "finish")
  /\ UNCHANGED <<flagVars, wanted, csv, image, data, helpers, disk, deleted,
                 settled, quit, used>>

Finish(t) ==
  /\ pc[t] = "finish" /\ stateLock = "free"
  /\ mode' = "none"
  /\ finalizing' = FALSE
  /\ Goto(t, IF t = "main" THEN "gone" ELSE "idle")
  /\ UNCHANGED <<recordFlag, session, stateLock, wanted, csv, image, data,
                 helperVars, disk, deleted, settled, quit, used>>

StopThread(t) ==
  \/ TakeOver(t) \/ FlushCsv(t) \/ ClearCsv(t) \/ StopCsv(t) \/ JoinCsv(t)
  \/ StopImage(t) \/ JoinImage(t) \/ CloseImage(t) \/ StopHelpers(t)
  \/ Finish(t)

---------------------------------------------------------------------------
(* The writer threads                                                       *)

\* CsvDataWriter::writeWorker: a batch at a time; rows of a folder that has
\* been removed go to the unlinked file.
CsvWrite ==
  /\ csv.thread = "running" /\ csv.queue # <<>>
  /\ csv' = [csv EXCEPT !.queue = Tail(@)]
  /\ disk' = IF csv.file \in deleted THEN disk
             ELSE [disk EXCEPT ![csv.file] = @ \cup Head(csv.queue)]
  /\ UNCHANGED <<flagVars, pc, wanted, image, data, helperVars, deleted,
                 settled, quit, used>>

CsvExit ==
  /\ csv.thread = "running" /\ csv.stop /\ csv.queue = <<>>
  /\ csv' = [csv EXCEPT !.thread = "ended"]
  /\ UNCHANGED <<flagVars, pc, wanted, image, data, helperVars, disk, deleted,
                 settled, quit, used>>

\* saveWorker and saveImageData: the RGB writer makes its folder again if it has
\* been removed, the SLAM writer finds no folder to write to.
ImageWrite(m) ==
  /\ image[m].thread = "running" /\ image[m].queue # <<>>
  /\ image' = [image EXCEPT ![m].queue = Tail(@)]
  /\ disk' = IF m = "slam" /\ image[m].file \in deleted THEN disk
             ELSE [disk EXCEPT ![image[m].file] = @ \cup {Head(image[m].queue)}]
  /\ UNCHANGED <<flagVars, pc, wanted, csv, data, helperVars, deleted, settled,
                 quit, used>>

ImageExit(m) ==
  /\ image[m].thread = "running" /\ image[m].stop /\ image[m].queue = <<>>
  /\ image' = [image EXCEPT ![m].thread = "ended"]
  /\ UNCHANGED <<flagVars, pc, wanted, csv, data, helperVars, disk, deleted,
                 settled, quit, used>>

Writers == CsvWrite \/ CsvExit \/ \E m \in ImageModes : ImageWrite(m) \/ ImageExit(m)

---------------------------------------------------------------------------
(* The callbacks of the device, in the main thread                          *)

NewSample == [id |-> used.samples + 1, session |-> session]

\* imuDataCallback: a callback that finds no recording writes nothing.
ImuData ==
  /\ data.pc = "idle" /\ ~quit /\ used.samples < MaxSamples
  /\ recordFlag
  /\ data' = [data EXCEPT !.pc = "csv_check", !.sample = NewSample]
  /\ used' = [used EXCEPT !.samples = @ + 1]
  /\ UNCHANGED <<flagVars, pc, wanted, csv, image, helperVars, disk, deleted,
                 settled, quit>>

Idle == [data EXCEPT !.pc = "idle", !.rgb = FALSE, !.writer = "slam", !.sample = <<>>]

\* The sample of a callback that ends while its recording is on is settled.
Settle ==
  settled' = IF recordFlag /\ session = data.sample.session
               THEN settled \cup {data.sample} ELSE settled

\* CsvDataWriter::writeData takes no lock around its flags and buffer_.
CheckCsv ==
  /\ data.pc = "csv_check"
  /\ data' = IF csv.open /\ ~csv.stop THEN [data EXCEPT !.pc = "csv_push"] ELSE Idle
  /\ UNCHANGED <<flagVars, pc, wanted, csv, image, helperVars, disk, deleted,
                 settled, quit, used>>

PushCsv ==
  /\ data.pc = "csv_push"
  /\ LET buffer == csv.buffer \cup {data.sample} IN
       /\ csv' = [csv EXCEPT !.buffer = buffer]
       /\ IF Cardinality(buffer) >= CsvBuffer
            THEN data' = [data EXCEPT !.pc = "csv_queue"] /\ UNCHANGED settled
            ELSE data' = Idle /\ Settle
  /\ UNCHANGED <<flagVars, pc, wanted, image, helperVars, disk, deleted, quit,
                 used>>

QueueCsv ==
  /\ data.pc = "csv_queue"
  /\ csv' = [csv EXCEPT !.queue = Append(@, csv.buffer)]
  /\ data' = [data EXCEPT !.pc = "csv_clear"]
  /\ UNCHANGED <<flagVars, pc, wanted, image, helperVars, disk, deleted,
                 settled, quit, used>>

EmptyCsv ==
  /\ data.pc = "csv_clear"
  /\ csv' = [csv EXCEPT !.buffer = {}]
  /\ data' = Idle
  /\ Settle
  /\ UNCHANGED <<flagVars, pc, wanted, image, helperVars, disk, deleted, quit,
                 used>>

\* imageDataCallback decides about the RGB writer first and reads the flag again
\* for the SLAM writer, which every recording offers its images.
ImageData ==
  /\ data.pc = "idle" /\ ~quit /\ used.samples < MaxSamples
  /\ recordFlag
  /\ data' = [data EXCEPT !.pc = "slam_flag", !.sample = NewSample,
                          !.rgb = (mode = "rgb")]
  /\ used' = [used EXCEPT !.samples = @ + 1]
  /\ UNCHANGED <<flagVars, pc, wanted, csv, image, helperVars, disk, deleted,
                 settled, quit>>

ToRgb == IF data.rgb /\ data.writer = "slam"
           THEN [data EXCEPT !.pc = "image_check", !.writer = "rgb"]
           ELSE Idle

SlamFlag ==
  /\ data.pc = "slam_flag"
  /\ data' = IF recordFlag THEN [data EXCEPT !.pc = "image_check"] ELSE ToRgb
  /\ UNCHANGED <<flagVars, pc, wanted, csv, image, helperVars, disk, deleted,
                 settled, quit, used>>

\* writeData of the image writers asks only whether the writer is open ...
CheckImage ==
  /\ data.pc = "image_check"
  /\ data' = IF image[data.writer].open THEN [data EXCEPT !.pc = "image_push"]
                                        ELSE ToRgb
  /\ UNCHANGED <<flagVars, pc, wanted, csv, image, helperVars, disk, deleted,
                 settled, quit, used>>

\* ... and drops the image when the queue is full.
PushImage ==
  /\ data.pc = "image_push"
  /\ data' = ToRgb
  /\ IF Len(image[data.writer].queue) < QueueLimit
       THEN /\ image' = [image EXCEPT ![data.writer].queue = Append(@, data.sample)]
            /\ Settle
       ELSE UNCHANGED <<image, settled>>
  /\ UNCHANGED <<flagVars, pc, wanted, csv, helperVars, disk, deleted, quit,
                 used>>

Callback ==
  \/ CheckCsv \/ PushCsv \/ QueueCsv \/ EmptyCsv
  \/ SlamFlag \/ CheckImage \/ PushImage

---------------------------------------------------------------------------
(* delete_record and the end of the subnode                                 *)

\* cmdDeleteRecord removes a folder without a look at the recording.
DeleteRecord ==
  /\ pc["goal"] = "idle" /\ ~quit /\ used.deletes < MaxDeletes
  /\ \E s \in 1..session :
        /\ s \notin deleted
        /\ deleted' = deleted \cup {s}
        /\ disk' = [disk EXCEPT ![s] = {}]
  /\ used' = [used EXCEPT !.deletes = @ + 1]
  /\ UNCHANGED <<flagVars, pc, wanted, csv, image, data, helperVars, settled,
                 quit>>

Quit ==
  /\ ~quit /\ data.pc = "idle"
  /\ quit' = TRUE
  /\ UNCHANGED <<flagVars, pc, wanted, csv, image, data, helperVars, disk,
                 deleted, settled, used>>

\* release() in the main thread: onRelease stops a recording that is on.
Release ==
  /\ quit /\ pc["main"] = "idle"
  /\ Detached \/ pc["goal"] = "idle"
  /\ Goto("main", IF recordFlag THEN "take" ELSE "gone")
  /\ UNCHANGED <<flagVars, wanted, csv, image, data, helperVars, disk, deleted,
                 settled, quit, used>>

Next ==
  \/ BeginStart("goal") \/ OpenCsv("goal") \/ OpenImage("goal") \/ GoOn("goal")
  \/ StartHelpers("goal")
  \/ BeginStop
  \/ \E t \in Threads : StopThread(t)
  \/ Writers
  \/ ImuData \/ ImageData \/ Callback
  \/ DeleteRecord \/ Quit \/ Release

Spec == Init /\ [][Next]_vars

StartThread(t) == OpenCsv(t) \/ OpenImage(t) \/ GoOn(t) \/ StartHelpers(t)

\* Threads run.
FairSpec ==
  /\ Spec
  /\ \A t \in Threads : WF_vars(StopThread(t)) /\ WF_vars(StartThread(t))
  /\ WF_vars(CsvWrite \/ CsvExit)
  /\ \A m \in ImageModes : WF_vars(ImageWrite(m) \/ ImageExit(m))
  /\ WF_vars(Callback)

---------------------------------------------------------------------------
(* Properties                                                               *)

Finished(s) == s < session \/ (s = session /\ ~recordFlag /\ ~finalizing /\ stateLock = "free")

\* A sample whose callback ended while its recording was on is in the folder of
\* that recording when it is finished, and in no other; cmdStopRecord, the
\* writers' close() and the callbacks in the other thread decide.
SettledIsSaved ==
  \A x \in settled :
     /\ Finished(x.session) /\ x.session \notin deleted => x \in disk[x.session]
     /\ \A s \in Sessions \ {x.session} : x \notin disk[s]

\* No helper process outlives the recording it was started for (a consequence of
\* ContractSpec): cmdStopRecord and onRelease stop them.
HelpersEndWithRecording ==
  ~recordFlag /\ ~finalizing /\ stateLock = "free" => helpers = {} /\ leaving = {}

\* What a recording looks like from outside.
Phase == IF recordFlag THEN "on" ELSE IF finalizing THEN "ending"
         ELSE IF stateLock # "free" THEN "starting" ELSE "off"
Owed == [s \in Sessions |-> {x \in settled : x.session = s}]

Contract == INSTANCE RecordingContract
  WITH Folders <- Sessions, Sample <- Samples, Helper <- Helpers,
       phase <- Phase, current <- session, owed <- Owed, folder <- disk,
       removed <- deleted, running <- helpers \cup leaving

\* Commands, callbacks and writer threads together keep the promise of a recording: it
\* is finished only when what arrived while it was on is in its folder and its helper
\* processes have ended, however cmdStopRecord and the callbacks interleave.
ContractSpec == Contract!Spec

\* A recording that is being finished gets finished, whatever the callbacks
\* still push: until then every start_record is refused.
FinalizingEnds == finalizing ~> ~finalizing
=============================================================================
