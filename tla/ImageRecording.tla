--------------------------- MODULE ImageRecording ---------------------------
(***************************************************************************)
(* The way of a camera frame into a recording.  NativeGlassesAdapter puts  *)
(* its image into the shared memory, where the preview reads it too        *)
(* (CameraPreview), and sends only the data about it, with the number of   *)
(* the image, or 0 when it did not fit.  imageDataCallback, in the same    *)
(* thread, reads the image back when a recording needs it, feeds it to the *)
(* CameraSnapshotWorker and hands it to the image writers.                 *)
(*                                                                         *)
(* Recordings begin and end in the goal thread meanwhile.  The worker has  *)
(* a thread of its own, which takes a picture at the start and one every   *)
(* minute, and adds a row of mean colours to a file every second; stop()   *)
(* takes the last picture and the last row in the goal thread.  A call     *)
(* through the pointer that the goal thread has emptied, or into a worker  *)
(* that is gone, is undefined; here it ends the subnode.                   *)
(*                                                                         *)
(* A frame is its number.  One camera stands for both, which have slots    *)
(* and numbers of their own.  Errors of the disk are left out, and what    *)
(* the writers do with an image that they have accepted is Recording.      *)
(***************************************************************************)
EXTENDS Integers, Sequences

CONSTANTS
  MaxFrames,       \* bound: frames of the camera that are not throttled
  MaxRecordings    \* bound: recordings that are begun

ASSUME ImageAssumption == MaxFrames \in Nat /\ MaxRecordings \in Nat

VARIABLES
  shm,         \* the number published last, and the frame it stands for
  lastRead,    \* lastCameraRecordReadSeq_
  callback,    \* the message under way, with the image that was read back
  frames,      \* frames so far
  saved,       \* what the image writers have accepted, in order
  recording,   \* recordFlag_ and recordImageMode_
  begun,       \* recordings so far
  goal,        \* where the goal thread stands in start_record and stop_record
  owned,       \* cameraSnapshotWorker_ is not null
  worker,      \* the worker: running_, workerThread_, latestFrames_
  inRow,       \* threads that are writing a row of camera_rgb.csv
  pictures,    \* frames in the last pictures of the thread and of stop()
  wanted,      \* the latest frame when the recording was stopped
  crashed      \* undefined behaviour has ended the process

cameraVars == <<shm, frames>>
recordVars == <<recording, begun>>
snapshotVars == <<goal, owned, worker, inRow, pictures, wanted>>
vars == <<shm, lastRead, callback, frames, saved, recording, begun, goal, owned,
          worker, inRow, pictures, wanted, crashed>>

Frames == 0..MaxFrames   \* 0: no image
ImageModes == {"none", "slam", "rgb"}
NoCallback == [pc |-> "idle", frame |-> 0, number |-> 0, rgb |-> FALSE, image |-> 0]
NoWorker == [running |-> FALSE, thread |-> "none", latest |-> 0]
NoPictures == [thread |-> 0, end |-> 0]
RowSteps == {"first_row", "row"}

TypeOK ==
  /\ shm \in [number : Frames, frame : Frames]
  /\ lastRead \in Frames /\ frames \in Frames /\ wanted \in Frames
  /\ callback \in [pc : {"idle", "read", "look", "call", "inside", "slam", "rgb"},
                   frame : Frames, number : Frames, rgb : BOOLEAN, image : Frames]
  /\ saved \in Seq([writer : ImageModes, frame : Frames, number : Frames,
                    image : Frames])
  /\ recording \in [flag : BOOLEAN, mode : ImageModes]
  /\ begun \in 0..MaxRecordings
  /\ goal \in {"idle", "begun", "made", "on", "taken", "end", "row", "join", "finish"}
  /\ owned \in BOOLEAN /\ crashed \in BOOLEAN
  /\ worker \in [running : BOOLEAN, latest : Frames,
                 thread : {"none", "first", "loop", "woken", "minute", "ended"}
                            \cup RowSteps]
  /\ inRow \subseteq {"goal", "thread"}
  /\ pictures \in [thread : Frames, end : Frames]

Init ==
  /\ shm = [number |-> 0, frame |-> 0]
  /\ lastRead = 0
  /\ callback = NoCallback
  /\ frames = 0
  /\ saved = <<>>
  /\ recording = [flag |-> FALSE, mode |-> "none"]
  /\ begun = 0
  /\ goal = "idle" /\ owned = FALSE
  /\ worker = NoWorker
  /\ inRow = {} /\ pictures = NoPictures /\ wanted = 0
  /\ crashed = FALSE

---------------------------------------------------------------------------
(* The main thread                                                          *)

\* imageDataCallback looks once whether the image is needed at all, and whether the
\* RGB writer wants it.
RgbRecording == recording.flag /\ recording.mode = "rgb"
Needed == owned \/ recording.flag

\* writeFrame refuses an image that does not fit into a slot; the segment may not be
\* there at all.
CameraEvent ==
  /\ callback.pc = "idle" /\ frames < MaxFrames
  /\ frames' = frames + 1
  /\ \E number \in {0, shm.number + 1} :
       /\ shm' = IF number = 0 THEN shm ELSE [number |-> number, frame |-> frames + 1]
       /\ callback' = [pc |-> IF Needed THEN "read" ELSE "slam", frame |-> frames + 1,
                       number |-> number, rgb |-> RgbRecording, image |-> 0]
  /\ UNCHANGED <<lastRead, saved, recordVars, snapshotVars, crashed>>

\* imagePayloadFromSharedMemory asks for something newer than what it has read, and
\* at least for the image of the message.
Wanted == IF callback.number > lastRead THEN callback.number - 1 ELSE lastRead

\* Faulty variant: what has been read is forgotten.
NotRemembered(number) == lastRead

Remembered(number) == number

\* readLatestFrame: the latest image, when it is newer than what is wanted.
ReadBack ==
  /\ callback.pc = "read"
  /\ LET found == shm.number > Wanted IN
       /\ lastRead' = Remembered(IF found THEN shm.number ELSE Wanted)
       /\ callback' = [callback EXCEPT !.pc = "look",
                                       !.image = IF found THEN shm.frame ELSE 0]
  /\ UNCHANGED <<cameraVars, saved, recordVars, snapshotVars, crashed>>

\* shouldPublish lets a frame through to the worker at most five times a second.
HeldBack == BOOLEAN

LookForWorker ==
  /\ callback.pc = "look"
  /\ \E held \in HeldBack :
       callback' = [callback EXCEPT !.pc =
         IF owned /\ ~held /\ callback.image # 0 THEN "call" ELSE "slam"]
  /\ UNCHANGED <<cameraVars, lastRead, saved, recordVars, snapshotVars, crashed>>

\* The worker is called through what the pointer holds now.
CallWorker ==
  /\ callback.pc = "call"
  /\ IF owned THEN callback' = [callback EXCEPT !.pc = "inside"] /\ UNCHANGED crashed
              ELSE crashed' = TRUE /\ UNCHANGED callback
  /\ UNCHANGED <<cameraVars, lastRead, saved, recordVars, snapshotVars>>

\* updateFrame, under the lock of the latest frames.
UpdateFrame ==
  /\ callback.pc = "inside"
  /\ worker' = [worker EXCEPT !.latest = callback.image]
  /\ callback' = [callback EXCEPT !.pc = "slam"]
  /\ UNCHANGED <<cameraVars, lastRead, saved, recordVars, goal, owned, inRow,
                 pictures, wanted, crashed>>

\* A message without an image is dropped by saveImageData; a writer may be closed or
\* full.
Save(writer) ==
  \/ UNCHANGED saved
  \/ /\ callback.image # 0
     /\ saved' = Append(saved, [writer |-> writer, frame |-> callback.frame,
                                number |-> callback.number, image |-> callback.image])

\* The SLAM writer is asked when there is a recording now ...
ToSlamWriter ==
  /\ callback.pc = "slam"
  /\ callback' = [callback EXCEPT !.pc = "rgb"]
  /\ IF recording.flag /\ recording.mode = "slam" THEN Save("slam") ELSE UNCHANGED saved
  /\ UNCHANGED <<cameraVars, lastRead, recordVars, snapshotVars, crashed>>

\* ... and the RGB writer when there was one in the beginning, if it is still open.
ToRgbWriter ==
  /\ callback.pc = "rgb"
  /\ callback' = NoCallback
  /\ IF callback.rgb /\ recording.mode = "rgb" THEN Save("rgb") ELSE UNCHANGED saved
  /\ UNCHANGED <<cameraVars, lastRead, recordVars, snapshotVars, crashed>>

MainThread ==
  \/ CameraEvent \/ ReadBack \/ LookForWorker \/ CallWorker \/ UpdateFrame
  \/ ToSlamWriter \/ ToRgbWriter

---------------------------------------------------------------------------
(* The goal thread                                                          *)

\* cmdStartRecord raises its flags ...
BeginRecording ==
  /\ goal = "idle" /\ begun < MaxRecordings
  /\ \E mode \in ImageModes : recording' = [flag |-> TRUE, mode |-> mode]
  /\ begun' = begun + 1 /\ goal' = "begun"
  /\ UNCHANGED <<cameraVars, lastRead, callback, saved, owned, worker, inRow,
                 pictures, wanted, crashed>>

\* ... makes a worker if it is asked for one ...
MakeWorker ==
  /\ goal = "begun"
  /\ \/ owned' = TRUE /\ goal' = "made"
     \/ goal' = "on" /\ UNCHANGED owned
  /\ UNCHANGED <<cameraVars, lastRead, callback, saved, recordVars, worker, inRow,
                 pictures, wanted, crashed>>

\* ... and start() begins its thread.
StartWorker ==
  /\ goal = "made" /\ goal' = "on"
  /\ worker' = [worker EXCEPT !.running = TRUE, !.thread = "first"]
  /\ UNCHANGED <<cameraVars, lastRead, callback, saved, recordVars, owned, inRow,
                 pictures, wanted, crashed>>

\* cmdStopRecord lowers the flag and moves the worker to a pointer of its own, under a
\* lock that the callback does not take.
StopRecording ==
  /\ goal = "on"
  /\ recording' = [recording EXCEPT !.flag = FALSE]
  /\ owned' = FALSE
  /\ goal' = IF owned THEN "taken" ELSE "finish"
  /\ wanted' = worker.latest
  /\ UNCHANGED <<cameraVars, lastRead, callback, saved, begun, worker, inRow, pictures,
                 crashed>>

\* stop(), when the other writers are closed.
StopRunning ==
  /\ goal = "taken" /\ goal' = "end"
  /\ worker' = [worker EXCEPT !.running = FALSE]
  /\ UNCHANGED <<cameraVars, lastRead, callback, saved, recordVars, owned, inRow,
                 pictures, wanted, crashed>>

SaveEndSnapshot ==
  /\ goal = "end" /\ goal' = "row"
  /\ pictures' = [pictures EXCEPT !.end = worker.latest]
  /\ UNCHANGED <<cameraVars, lastRead, callback, saved, recordVars, owned, worker,
                 inRow, wanted, crashed>>

\* Faulty variant: the thread is detached.
DetachThread ==
  /\ goal = "join" /\ goal' = "finish"
  /\ UNCHANGED <<cameraVars, lastRead, callback, saved, recordVars, owned, worker,
                 inRow, pictures, wanted, crashed>>

\* The thread is joined, the file is closed, and the worker goes with the pointer: a
\* callback that is inside it goes on without it.
JoinThread ==
  /\ goal = "join" /\ worker.thread = "ended" /\ goal' = "finish"
  /\ crashed' = (callback.pc = "inside")
  /\ UNCHANGED <<cameraVars, lastRead, callback, saved, recordVars, owned, worker,
                 inRow, pictures, wanted>>

FinishRecording ==
  /\ goal = "finish" /\ goal' = "idle"
  /\ recording' = [recording EXCEPT !.mode = "none"]
  /\ worker' = NoWorker /\ pictures' = NoPictures /\ wanted' = 0
  /\ UNCHANGED <<cameraVars, lastRead, callback, saved, begun, owned, inRow, crashed>>

---------------------------------------------------------------------------
(* The thread of the worker: mainLoop                                       *)

\* saveStartSnapshot waits for a first frame, for the stop or for five seconds.
SaveStartSnapshot ==
  /\ worker.thread = "first"
  /\ worker' = [worker EXCEPT !.thread = "first_row"]
  /\ pictures' = [pictures EXCEPT !.thread = worker.latest]
  /\ UNCHANGED <<cameraVars, lastRead, callback, saved, recordVars, goal, owned, inRow,
                 wanted, crashed>>

SleepASecond ==
  /\ worker.thread = "loop"
  /\ worker' = [worker EXCEPT !.thread = IF worker.running THEN "woken" ELSE "ended"]
  /\ UNCHANGED <<cameraVars, lastRead, callback, saved, recordVars, goal, owned, inRow,
                 pictures, wanted, crashed>>

\* A row is due after every second.
WakeUp ==
  /\ worker.thread = "woken"
  /\ worker' = [worker EXCEPT !.thread = IF worker.running THEN "row" ELSE "ended"]
  /\ UNCHANGED <<cameraVars, lastRead, callback, saved, recordVars, goal, owned, inRow,
                 pictures, wanted, crashed>>

\* Is a picture due?
Due == BOOLEAN

SaveMinuteSnapshot ==
  /\ worker.thread = "minute"
  /\ worker' = [worker EXCEPT !.thread = "loop"]
  /\ \E due \in Due : pictures' = IF due THEN [pictures EXCEPT !.thread = worker.latest]
                                       ELSE pictures
  /\ UNCHANGED <<cameraVars, lastRead, callback, saved, recordVars, goal, owned, inRow,
                 wanted, crashed>>

---------------------------------------------------------------------------
(* Rows of camera_rgb.csv, by both threads                                  *)

MayWriteRow == {t \in {"goal", "thread"} :
                  IF t = "goal" THEN goal = "row" ELSE worker.thread \in RowSteps}

\* logRgbValues and writeRgbRow: one text stream, no lock.
BeginRow(t) ==
  /\ t \in MayWriteRow \ inRow
  /\ inRow' = inRow \cup {t}
  /\ UNCHANGED <<cameraVars, lastRead, callback, saved, recordVars, goal, owned, worker,
                 pictures, wanted, crashed>>

EndRow(t) ==
  /\ t \in inRow
  /\ inRow' = inRow \ {t}
  /\ IF t = "goal"
       THEN goal' = "join" /\ UNCHANGED worker
       ELSE /\ worker' = [worker EXCEPT !.thread = IF @ = "row" THEN "minute" ELSE "loop"]
            /\ UNCHANGED goal
  /\ UNCHANGED <<cameraVars, lastRead, callback, saved, recordVars, owned, pictures,
                 wanted, crashed>>

---------------------------------------------------------------------------

GoalThread ==
  \/ BeginRecording \/ MakeWorker \/ StartWorker \/ StopRecording \/ StopRunning
  \/ SaveEndSnapshot \/ BeginRow("goal") \/ EndRow("goal") \/ JoinThread
  \/ FinishRecording

WorkerThread ==
  \/ SaveStartSnapshot \/ BeginRow("thread") \/ EndRow("thread")
  \/ SleepASecond \/ WakeUp \/ SaveMinuteSnapshot

Next == ~crashed /\ (MainThread \/ GoalThread \/ WorkerThread)

Spec == Init /\ [][Next]_vars

---------------------------------------------------------------------------
(* Properties                                                               *)

\* imageDataCallback: a message whose image has been published is saved with this
\* image, however many frames were passed over before it; and no writer gets an image
\* twice or after a later one, whatever was refused and however recordings followed
\* one another.
ImagesInOrder ==
  /\ \A i \in DOMAIN saved : saved[i].number # 0 => saved[i].image = saved[i].frame
  /\ \A i, j \in DOMAIN saved :
       i < j /\ saved[i].writer = saved[j].writer => saved[i].image < saved[j].image

\* cmdStopRecord: when it goes on after the worker, the last picture is as new as what
\* had been fed when the recording was stopped, and nobody
\* writes into the folder any more, which may be deleted next.
StoppedIsComplete ==
  goal = "finish" =>
    /\ pictures.end >= wanted
    /\ worker.thread \in {"none", "ended"} /\ inRow = {}
=============================================================================
