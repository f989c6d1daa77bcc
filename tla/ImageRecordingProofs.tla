------------------------ MODULE ImageRecordingProofs ------------------------
(***************************************************************************)
(* Machine-checked proofs about the two ways in which pictures get into a  *)
(* data set: ImageRecording, for every number of frames and of recordings, *)
(* and RawCapture, for every number of frames, captures, commands and      *)
(* reboots.  The two share no variable.                                    *)
(***************************************************************************)
EXTENDS ImageRecording, RawCapture, TLAPS

---------------------------------------------------------------------------
(* Types *)

Callbacks == [pc : {"idle", "read", "look", "call", "inside", "slam", "rgb"},
              frame : Frames, number : Frames, rgb : BOOLEAN, image : Frames]
SavedImages == [writer : ImageModes, frame : Frames, number : Frames, image : Frames]
ThreadSteps == {"none", "first", "loop", "woken", "minute", "ended"} \cup RowSteps
Workers == [running : BOOLEAN, latest : Frames, thread : ThreadSteps]
GoalSteps == {"idle", "begun", "made", "on", "taken", "end", "row", "join", "finish"}
Slots == [number : Frames, frame : Frames]
Recordings == [flag : BOOLEAN, mode : ImageModes]
Pictures == [thread : Frames, end : Frames]

\* TypeOK with names for its sets.
Typed ==
  /\ shm \in Slots
  /\ lastRead \in Frames /\ frames \in Frames /\ wanted \in Frames
  /\ callback \in Callbacks /\ saved \in Seq(SavedImages)
  /\ recording \in Recordings
  /\ begun \in 0..MaxRecordings
  /\ goal \in GoalSteps
  /\ owned \in BOOLEAN /\ crashed \in BOOLEAN
  /\ worker \in Workers
  /\ inRow \subseteq {"goal", "thread"}
  /\ pictures \in Pictures

LEMMA AllTyped == Typed <=> TypeOK
  BY DEF Typed, TypeOK, Callbacks, SavedImages, ThreadSteps, Workers, GoalSteps, Slots,
         Recordings, Pictures

---------------------------------------------------------------------------
(* The inductive invariant *)

\* Frames and numbers of the slot go up together, and nobody is ahead of it.
SlotIsNewest ==
  /\ shm.number <= frames /\ shm.frame <= frames
  /\ lastRead <= shm.number
  /\ worker.latest <= shm.frame

\* The slot does not change while a message is under way: its image is the one of the
\* message, if it has one, and what has been read back is what is in the slot.
CallbackOwnsSlot ==
  /\ callback.pc = "idle" => callback = NoCallback
  /\ callback.pc = "read" => callback.image = 0
  /\ callback.pc \in {"call", "inside"} => callback.image # 0
  /\ callback.number # 0 => callback.number = shm.number /\ callback.frame = shm.frame
  /\ callback.image # 0 => callback.image = shm.frame /\ lastRead = shm.number

\* Whose turn with the image of the message is still to come.
Waiting(pc, writer) == pc \in
  {"look", "call", "inside", "slam"} \cup (IF writer = "rgb" THEN {"rgb"} ELSE {})

\* What has been saved came from the slot, and an image that has not been read, or that
\* a writer has not been offered yet, is newer than all of it.
SavedIsOlder ==
  \A i \in DOMAIN saved :
    /\ saved[i].image <= shm.frame
    /\ lastRead < shm.number => saved[i].image < shm.frame
    /\ saved[i].writer \in {"slam", "rgb"}
    /\ callback.image # 0 /\ Waiting(callback.pc, saved[i].writer) => saved[i].image < shm.frame

\* A worker is there between MakeWorker and FinishRecording, owned by the member
\* variable until StopRecording takes it over; without it nobody is inside it.
WorkerLife ==
  /\ owned => goal \in {"made", "on"}
  /\ goal = "made" => owned /\ worker.thread = "none"
  /\ ~owned /\ goal \in {"idle", "begun", "on"} => worker = NoWorker
  /\ ~crashed /\ callback.pc = "inside" =>
       owned \/ goal \in {"taken", "end", "row", "join"}
  /\ goal = "finish" => worker.thread \in {"none", "ended"}
  /\ goal \in {"idle", "begun", "made", "on"} => pictures.end = 0

\* Rows are written where the thread stands.
RowsInPlace == inRow \subseteq MayWriteRow

\* What was wanted at the stop is still there for the last picture, or in it.
StopIsComplete ==
  /\ goal \in {"taken", "end"} => wanted <= worker.latest
  /\ goal \in {"row", "join", "finish"} => wanted <= pictures.end

ImageInv ==
  /\ Typed
  /\ SlotIsNewest /\ CallbackOwnsSlot /\ SavedIsOlder
  /\ WorkerLife /\ RowsInPlace /\ StopIsComplete
  /\ ImagesInOrder

---------------------------------------------------------------------------
(* Every step keeps it *)

LEMMA CallbackUpdate ==
  ASSUME NEW c \in Callbacks,
         NEW pc \in {"idle", "read", "look", "call", "inside", "slam", "rgb"},
         NEW image \in Frames
  PROVE  /\ [c EXCEPT !.pc = pc] \in Callbacks
         /\ [c EXCEPT !.pc = pc, !.image = image] \in Callbacks
  BY DEF Callbacks

LEMMA WorkerUpdate ==
  ASSUME NEW w \in Workers, NEW thread \in ThreadSteps
  PROVE  [w EXCEPT !.thread = thread] \in Workers
  BY DEF Workers

LEMMA EmptyTypes ==
  /\ NoCallback \in Callbacks /\ NoWorker \in Workers /\ NoPictures \in Pictures
  /\ 0 \in Frames
  BY ImageAssumption DEF NoCallback, NoWorker, NoPictures, Callbacks, Workers, Pictures,
     ThreadSteps, Frames

LEMMA SaveType ==
  ASSUME Typed, NEW writer \in {"slam", "rgb"}, Save(writer)
  PROVE  saved' \in Seq(SavedImages)
<1>1. [writer |-> writer, frame |-> callback.frame, number |-> callback.number,
       image |-> callback.image] \in SavedImages
  BY DEF Typed, Callbacks, SavedImages, ImageModes
<1> QED
  BY <1>1 DEF Save, Typed

LEMMA TypeStep ==
  ASSUME ImageInv, Next
  PROVE  Typed'
<1> USE ImageAssumption DEF Typed, cameraVars, recordVars, snapshotVars
<1>0. Typed
  BY DEF ImageInv
<1>1. CASE CameraEvent
  <2>1. frames + 1 \in Frames /\ shm.number + 1 \in Frames
    BY <1>0, <1>1 DEF CameraEvent, Frames, Slots, ImageInv, SlotIsNewest
  <2>2. shm' \in Slots /\ callback' \in Callbacks
    BY <1>0, <1>1, <2>1, EmptyTypes DEF CameraEvent, Slots, Callbacks, RgbRecording, Needed,
       Recordings
  <2> QED
    BY <1>0, <1>1, <2>1, <2>2 DEF CameraEvent
<1>2. CASE ReadBack
  <2>1. Wanted \in Frames
    BY <1>0 DEF Wanted, Callbacks, Frames
  <2>2. lastRead' \in Frames /\ callback' \in Callbacks
    BY <1>0, <1>2, <2>1, CallbackUpdate, EmptyTypes DEF ReadBack, Remembered, Slots
  <2> QED
    BY <1>0, <1>2, <2>2 DEF ReadBack
<1>3. CASE LookForWorker
  <2>1. callback' \in Callbacks
    BY <1>0, <1>3, CallbackUpdate DEF LookForWorker
  <2> QED
    BY <1>0, <1>3, <2>1 DEF LookForWorker
<1>4. CASE CallWorker
  <2>1. callback' \in Callbacks
    BY <1>0, <1>4, CallbackUpdate DEF CallWorker
  <2> QED
    BY <1>0, <1>4, <2>1 DEF CallWorker
<1>5. CASE UpdateFrame
  <2>1. callback' \in Callbacks /\ worker' \in Workers
    BY <1>0, <1>5, CallbackUpdate DEF UpdateFrame, Callbacks, Workers
  <2> QED
    BY <1>0, <1>5, <2>1 DEF UpdateFrame
<1>6. CASE ToSlamWriter
  <2>1. callback' \in Callbacks /\ saved' \in Seq(SavedImages)
    BY <1>0, <1>6, CallbackUpdate, SaveType DEF ToSlamWriter
  <2> QED
    BY <1>0, <1>6, <2>1 DEF ToSlamWriter
<1>7. CASE ToRgbWriter
  <2>1. callback' \in Callbacks /\ saved' \in Seq(SavedImages)
    BY <1>0, <1>7, EmptyTypes, SaveType DEF ToRgbWriter
  <2> QED
    BY <1>0, <1>7, <2>1 DEF ToRgbWriter
<1>8. CASE BeginRecording
  BY <1>0, <1>8 DEF BeginRecording, Recordings, GoalSteps
<1>9. CASE MakeWorker
  BY <1>0, <1>9 DEF MakeWorker, GoalSteps
<1>10. CASE StartWorker
  BY <1>0, <1>10 DEF StartWorker, GoalSteps, Workers, ThreadSteps
<1>11. CASE StopRecording
  BY <1>0, <1>11 DEF StopRecording, GoalSteps, Recordings, Workers
<1>12. CASE StopRunning
  BY <1>0, <1>12 DEF StopRunning, GoalSteps, Workers
<1>13. CASE SaveEndSnapshot
  BY <1>0, <1>13 DEF SaveEndSnapshot, GoalSteps, Workers, Pictures
<1>14. CASE JoinThread
  BY <1>0, <1>14 DEF JoinThread, GoalSteps
<1>15. CASE FinishRecording
  BY <1>0, <1>15, EmptyTypes DEF FinishRecording, GoalSteps, Recordings, ImageModes
<1>16. CASE SaveStartSnapshot
  BY <1>0, <1>16 DEF SaveStartSnapshot, Workers, ThreadSteps, RowSteps, Pictures
<1>17. CASE SleepASecond \/ WakeUp
  <2>1. PICK thread \in {"woken", "row", "ended"} :
          worker' = [worker EXCEPT !.thread = thread]
    BY <1>17 DEF SleepASecond, WakeUp
  <2>2. worker' \in Workers
    BY <1>0, <2>1, WorkerUpdate DEF ThreadSteps, RowSteps
  <2> QED
    BY <1>0, <1>17, <2>2 DEF SleepASecond, WakeUp
<1>18. CASE SaveMinuteSnapshot
  BY <1>0, <1>18 DEF SaveMinuteSnapshot, Workers, ThreadSteps, Pictures
<1>19. CASE \E t \in {"goal", "thread"} : BeginRow(t)
  BY <1>0, <1>19 DEF BeginRow
<1>20. CASE \E t \in {"goal", "thread"} : EndRow(t)
  <2>1. \/ worker' = worker
        \/ \E thread \in {"minute", "loop"} : worker' = [worker EXCEPT !.thread = thread]
    BY <1>20 DEF EndRow
  <2>2. worker' \in Workers
    BY <1>0, <2>1, WorkerUpdate DEF ThreadSteps
  <2> QED
    BY <1>0, <1>20, <2>2 DEF EndRow, GoalSteps
<1> QED
  BY <1>1, <1>2, <1>3, <1>4, <1>5, <1>6, <1>7, <1>8, <1>9, <1>10, <1>11, <1>12, <1>13,
     <1>14, <1>15, <1>16, <1>17, <1>18, <1>19, <1>20
     DEF Next, MainThread, GoalThread, WorkerThread

---------------------------------------------------------------------------
(* What each thread leaves alone *)

LEMMA FramesAreOfMain ==
  ASSUME GoalThread \/ WorkerThread
  PROVE  UNCHANGED <<shm, lastRead, callback, frames, saved>>
  BY DEF GoalThread, WorkerThread, BeginRecording, MakeWorker, StartWorker, StopRecording,
     StopRunning, SaveEndSnapshot, JoinThread, FinishRecording, SaveStartSnapshot,
     SleepASecond, WakeUp, SaveMinuteSnapshot, BeginRow, EndRow, cameraVars

LEMMA RecordingIsOfGoal ==
  ASSUME MainThread
  PROVE  /\ UNCHANGED <<recordVars, goal, owned, inRow, pictures, wanted>>
         /\ ~UpdateFrame => worker' = worker
  BY DEF MainThread, CameraEvent, ReadBack, LookForWorker, CallWorker, UpdateFrame,
     ToSlamWriter, ToRgbWriter, snapshotVars, recordVars

\* Of the worker the other threads change no frame, except where it is done away with.
LEMMA LatestIsOfMain ==
  ASSUME Typed, GoalThread \/ WorkerThread
  PROVE  worker'.latest = worker.latest \/ (goal = "finish" /\ worker' = NoWorker)
  BY DEF Typed, Workers, GoalThread, WorkerThread, BeginRecording, MakeWorker, StartWorker,
     StopRecording, StopRunning, SaveEndSnapshot, JoinThread, FinishRecording,
     SaveStartSnapshot, SleepASecond, WakeUp, SaveMinuteSnapshot, BeginRow, EndRow

---------------------------------------------------------------------------
(* The frames *)

LEMMA SlotStep ==
  ASSUME ImageInv, Next
  PROVE  SlotIsNewest'
<1> USE DEF ImageInv, Typed, Frames, SlotIsNewest
<1>1. CASE CameraEvent
  BY <1>1 DEF CameraEvent, snapshotVars, Slots, Workers
<1>2. CASE ReadBack
  BY <1>2 DEF ReadBack, Wanted, Remembered, CallbackOwnsSlot, Slots, Callbacks,
     cameraVars, snapshotVars
<1>3. CASE UpdateFrame
  BY <1>3 DEF UpdateFrame, CallbackOwnsSlot, Workers, Callbacks, Slots, cameraVars
<1>4. CASE LookForWorker \/ CallWorker \/ ToSlamWriter \/ ToRgbWriter
  BY <1>4 DEF LookForWorker, CallWorker, ToSlamWriter, ToRgbWriter, cameraVars, snapshotVars
<1>5. CASE GoalThread \/ WorkerThread
  <2>1. worker'.latest <= worker.latest
    BY <1>5, LatestIsOfMain DEF NoWorker, Workers
  <2>2. worker'.latest <= shm.frame
    BY <1>5, <2>1, TypeStep DEF Workers, Slots
  <2> QED
    BY <1>5, <2>2, FramesAreOfMain
<1> QED
  BY <1>1, <1>2, <1>3, <1>4, <1>5 DEF Next, MainThread

LEMMA CallbackStep ==
  ASSUME ImageInv, Next
  PROVE  CallbackOwnsSlot'
<1> USE DEF ImageInv, Typed, Callbacks, Slots, Frames, CallbackOwnsSlot, NoCallback
<1>1. CASE CameraEvent
  BY <1>1 DEF CameraEvent
<1>2. CASE ReadBack
  BY <1>2 DEF ReadBack, Wanted, Remembered, SlotIsNewest, cameraVars
<1>3. CASE LookForWorker
  BY <1>3 DEF LookForWorker, cameraVars
<1>4. CASE CallWorker
  BY <1>4 DEF CallWorker, cameraVars
<1>5. CASE UpdateFrame
  BY <1>5 DEF UpdateFrame, cameraVars
<1>6. CASE ToSlamWriter \/ ToRgbWriter
  BY <1>6 DEF ToSlamWriter, ToRgbWriter, cameraVars
<1>7. CASE GoalThread \/ WorkerThread
  BY <1>7, FramesAreOfMain
<1> QED
  BY <1>1, <1>2, <1>3, <1>4, <1>5, <1>6, <1>7 DEF Next, MainThread

\* What one more image may be: the newest, read back by the message under way.
LEMMA SaveStep ==
  ASSUME ImageInv, NEW writer \in {"slam", "rgb"}, Save(writer),
         Waiting(callback.pc, writer), shm' = shm
  PROVE  \A i \in DOMAIN saved' :
           \/ i \in DOMAIN saved /\ saved'[i] = saved[i]
           \/ /\ i = Len(saved) + 1 /\ Len(saved') = Len(saved) + 1
              /\ callback.image # 0
              /\ saved'[i] = [writer |-> writer, frame |-> callback.frame,
                               number |-> callback.number, image |-> shm.frame]
<1> USE DEF ImageInv, Typed
<1>1. CASE saved' = saved
  BY <1>1
<1>2. CASE saved' # saved
  <2> DEFINE new == [writer |-> writer, frame |-> callback.frame,
                     number |-> callback.number, image |-> callback.image]
  <2>1. callback.image # 0 /\ saved' = Append(saved, new)
    BY <1>2 DEF Save
  <2>2. callback.image = shm.frame
    BY <2>1 DEF CallbackOwnsSlot
  <2>3. new \in SavedImages
    BY DEF Callbacks, SavedImages, ImageModes
  <2> HIDE DEF new
  <2>4. /\ Len(saved') = Len(saved) + 1 /\ DOMAIN saved' = 1..(Len(saved) + 1)
        /\ DOMAIN saved = 1..Len(saved) /\ saved'[Len(saved) + 1] = new
        /\ \A i \in DOMAIN saved : saved'[i] = saved[i]
    BY <2>1, <2>3
  <2> QED
    BY <2>1, <2>2, <2>4 DEF new
<1> QED
  BY <1>1, <1>2

\* The images are saved in ToSlamWriter and ToRgbWriter only, each for its writer.
LEMMA SavingSteps ==
  ASSUME ImageInv, Next
  PROVE  \/ saved' = saved
         \/ \E writer \in {"slam", "rgb"} :
              /\ Save(writer) /\ Waiting(callback.pc, writer)
              /\ UNCHANGED <<shm, lastRead>>
              /\ callback'.pc = (IF writer = "slam" THEN "rgb" ELSE "idle")
<1>1. CASE ToSlamWriter
  BY <1>1 DEF ToSlamWriter, Waiting, cameraVars, ImageInv, Typed, Callbacks
<1>2. CASE ToRgbWriter
  BY <1>2 DEF ToRgbWriter, Waiting, cameraVars, NoCallback
<1>3. CASE CameraEvent \/ ReadBack \/ LookForWorker \/ CallWorker \/ UpdateFrame
  BY <1>3 DEF CameraEvent, ReadBack, LookForWorker, CallWorker, UpdateFrame
<1>4. CASE GoalThread \/ WorkerThread
  BY <1>4, FramesAreOfMain
<1> QED
  BY <1>1, <1>2, <1>3, <1>4 DEF Next, MainThread

LEMMA OlderStep ==
  ASSUME ImageInv, Next
  PROVE  SavedIsOlder'
<1> USE DEF ImageInv, Typed, Callbacks, Slots, Frames, Waiting
<1>0. \A i \in DOMAIN saved : saved[i].image \in Nat /\ saved[i].image <= shm.frame
  <2>1. \A i \in DOMAIN saved : saved[i] \in SavedImages
    OBVIOUS
  <2> QED
    BY <2>1 DEF SavedIsOlder, SavedImages
<1>1. CASE saved' = saved
  <2>1. CASE CameraEvent
    BY <1>0, <1>1, <2>1 DEF CameraEvent, SavedIsOlder, SlotIsNewest
  <2>2. CASE ReadBack
    BY <1>0, <1>1, <2>2 DEF ReadBack, Wanted, Remembered, SavedIsOlder, SlotIsNewest,
       CallbackOwnsSlot, cameraVars
  <2>3. CASE LookForWorker
    BY <1>0, <1>1, <2>3 DEF LookForWorker, SavedIsOlder, cameraVars
  <2>4. CASE CallWorker
    BY <1>0, <1>1, <2>4 DEF CallWorker, SavedIsOlder, cameraVars
  <2>7. CASE UpdateFrame
    BY <1>0, <1>1, <2>7 DEF UpdateFrame, SavedIsOlder, cameraVars
  <2>5. CASE ToSlamWriter \/ ToRgbWriter
    BY <1>0, <1>1, <2>5 DEF ToSlamWriter, ToRgbWriter, NoCallback, SavedIsOlder, cameraVars
  <2>6. CASE GoalThread \/ WorkerThread
    BY <2>6, FramesAreOfMain DEF SavedIsOlder
  <2> QED
    BY <2>1, <2>2, <2>3, <2>4, <2>5, <2>6, <2>7 DEF Next, MainThread
<1>2. CASE saved' # saved
  <2>1. PICK writer \in {"slam", "rgb"} :
          /\ Save(writer) /\ Waiting(callback.pc, writer)
          /\ UNCHANGED <<shm, lastRead>>
          /\ callback'.pc = (IF writer = "slam" THEN "rgb" ELSE "idle")
    BY <1>2, SavingSteps
  <2>2. callback.image # 0
    BY <1>2, <2>1 DEF Save
  <2>3. callback.image = shm.frame /\ lastRead = shm.number
    BY <2>2 DEF CallbackOwnsSlot
  <2>4. ~(lastRead' < shm'.number)
    BY <2>1, <2>3
  <2> SUFFICES ASSUME NEW i \in DOMAIN saved'
               PROVE  /\ saved'[i].image <= shm.frame
                      /\ saved'[i].writer \in {"slam", "rgb"}
                      /\ Waiting(callback'.pc, saved'[i].writer) => saved'[i].image < shm.frame
    BY <2>1, <2>4 DEF SavedIsOlder
  <2>5. CASE i \in DOMAIN saved /\ saved'[i] = saved[i]
    <3>1. Waiting(callback'.pc, saved[i].writer) => Waiting(callback.pc, saved[i].writer)
      BY <2>1
    <3> QED
      BY <2>2, <2>5, <3>1 DEF SavedIsOlder
  <2>6. CASE saved'[i] = [writer |-> writer, frame |-> callback.frame,
                          number |-> callback.number, image |-> shm.frame]
    BY <2>1, <2>6
  <2> QED
    BY <2>1, <2>5, <2>6, SaveStep
<1> QED
  BY <1>1, <1>2

LEMMA OrderStep ==
  ASSUME ImageInv, Next
  PROVE  ImagesInOrder'
<1> USE DEF ImageInv, Typed, Callbacks, Slots, Frames, SavedImages
<1>1. CASE saved' = saved
  BY <1>1 DEF ImagesInOrder
<1>2. CASE saved' # saved
  <2>1. PICK writer \in {"slam", "rgb"} :
          Save(writer) /\ Waiting(callback.pc, writer) /\ UNCHANGED <<shm, lastRead>>
    BY <1>2, SavingSteps
  <2>2. callback.image # 0
    BY <1>2, <2>1 DEF Save
  <2> DEFINE new == [writer |-> writer, frame |-> callback.frame,
                     number |-> callback.number, image |-> shm.frame]
             Kept(i) == i \in DOMAIN saved /\ saved'[i] = saved[i]
             Added(i) == i = Len(saved) + 1 /\ saved'[i] = new
  <2>3. \A i \in DOMAIN saved' : Kept(i) \/ Added(i)
    BY <2>1, SaveStep
  <2>4. new.number # 0 => new.image = new.frame
    BY DEF CallbackOwnsSlot
  <2>5. \A i \in DOMAIN saved : saved[i].writer = writer => saved[i].image < new.image
    BY <2>1, <2>2 DEF SavedIsOlder
  <2>6. DOMAIN saved = 1..Len(saved) /\ Len(saved) \in Nat
    OBVIOUS
  <2>9. new.writer = writer
    OBVIOUS
  <2> HIDE DEF new
  <2>7. ASSUME NEW i \in DOMAIN saved'
        PROVE  saved'[i].number # 0 => saved'[i].image = saved'[i].frame
    BY <2>3, <2>4 DEF ImagesInOrder
  <2>8. ASSUME NEW i \in DOMAIN saved', NEW j \in DOMAIN saved', i < j,
               saved'[i].writer = saved'[j].writer
        PROVE  saved'[i].image < saved'[j].image
    <3>1. CASE Kept(i) /\ Kept(j)
      BY <2>8, <3>1 DEF ImagesInOrder
    <3>2. CASE Kept(i) /\ Added(j)
      <4>1. saved[i].writer = writer
        BY <2>8, <2>9, <3>2
      <4>2. saved[i].image < new.image
        BY <2>5, <3>2, <4>1
      <4> QED
        BY <3>2, <4>2
    <3>3. CASE Added(i)
      <4>1. j \in 1..(Len(saved) + 1)
        BY <2>3, <2>6
      <4> QED
        BY <2>6, <2>8, <3>3, <4>1
    <3> QED
      BY <2>3, <3>1, <3>2, <3>3
  <2> QED
    BY <2>7, <2>8 DEF ImagesInOrder
<1> QED
  BY <1>1, <1>2

---------------------------------------------------------------------------
(* The worker *)

LEMMA WorkerStep ==
  ASSUME ImageInv, Next
  PROVE  WorkerLife'
<1> USE DEF WorkerLife, NoWorker
<1>0. ~crashed /\ Typed /\ WorkerLife
  BY DEF ImageInv, Next
<1>1. CASE MainThread
  <2>1. UNCHANGED <<goal, owned, pictures>>
    BY <1>1, RecordingIsOfGoal
  <2>2. CASE callback.pc = "call" /\ CallWorker
    BY <1>0, <2>1, <2>2 DEF CallWorker, snapshotVars, Typed, Callbacks
  <2>3. CASE UpdateFrame
    BY <1>0, <2>1, <2>3 DEF UpdateFrame, Typed, Callbacks, Workers
  <2>4. CASE CameraEvent \/ ReadBack \/ LookForWorker \/ ToSlamWriter \/ ToRgbWriter
    <3>1. callback'.pc # "inside"
      <4>1. CASE CameraEvent \/ ToRgbWriter
        BY <4>1 DEF CameraEvent, ToRgbWriter, NoCallback
      <4>2. CASE ReadBack
        BY <1>0, <4>2 DEF ReadBack, Typed, Callbacks
      <4>3. CASE LookForWorker \/ ToSlamWriter
        BY <1>0, <4>3 DEF LookForWorker, ToSlamWriter, Typed, Callbacks
      <4> QED
        BY <2>4, <4>1, <4>2, <4>3
    <3>2. worker' = worker
      BY <2>4 DEF CameraEvent, ReadBack, LookForWorker, ToSlamWriter, ToRgbWriter,
         snapshotVars
    <3> QED
      BY <1>0, <2>1, <3>1, <3>2
  <2> QED
    BY <1>1, <2>2, <2>3, <2>4 DEF MainThread, CallWorker
<1>2. CASE GoalThread \/ WorkerThread
  <2>1. callback' = callback
    BY <1>2, FramesAreOfMain
  <2> USE <1>0, <2>1 DEF Typed, Workers, Pictures
  <2>2. CASE BeginRecording \/ MakeWorker \/ StartWorker
    BY <2>2 DEF BeginRecording, MakeWorker, StartWorker
  <2>3. CASE StopRecording \/ StopRunning \/ SaveEndSnapshot
    BY <2>3 DEF StopRecording, StopRunning, SaveEndSnapshot
  <2>4. CASE JoinThread
    BY <2>4 DEF JoinThread
  <2>8. CASE FinishRecording
    BY <2>8 DEF FinishRecording, NoPictures
  <2>5. CASE BeginRow("goal") \/ BeginRow("thread")
    BY <2>5 DEF BeginRow
  <2>6. CASE EndRow("goal") \/ EndRow("thread")
    BY <2>6 DEF EndRow, ImageInv, RowsInPlace, MayWriteRow, RowSteps
  <2>7. CASE SaveStartSnapshot \/ SleepASecond \/ WakeUp \/ SaveMinuteSnapshot
    BY <2>7 DEF SaveStartSnapshot, SleepASecond, WakeUp, SaveMinuteSnapshot
  <2> QED
    BY <1>2, <2>2, <2>3, <2>4, <2>5, <2>6, <2>7, <2>8 DEF GoalThread, WorkerThread
<1> QED
  BY <1>1, <1>2 DEF Next

LEMMA RowsStep ==
  ASSUME ImageInv, Next
  PROVE  RowsInPlace'
<1> USE DEF ImageInv, Typed, Workers, RowsInPlace, MayWriteRow, RowSteps
<1>1. CASE MainThread
  <2>1. worker'.thread = worker.thread
    BY <1>1, RecordingIsOfGoal DEF UpdateFrame
  <2> QED
    BY <1>1, <2>1, RecordingIsOfGoal
<1>2. CASE BeginRecording \/ MakeWorker
  BY <1>2 DEF BeginRecording, MakeWorker
<1>9. CASE StartWorker
  BY <1>9 DEF StartWorker, WorkerLife, NoWorker
<1>3. CASE StopRecording \/ StopRunning \/ SaveEndSnapshot
  BY <1>3 DEF StopRecording, StopRunning, SaveEndSnapshot
<1>4. CASE JoinThread \/ FinishRecording
  BY <1>4 DEF JoinThread, FinishRecording, WorkerLife, NoWorker
<1>5. CASE BeginRow("goal") \/ BeginRow("thread")
  BY <1>5 DEF BeginRow
<1>6. CASE EndRow("goal")
  BY <1>6 DEF EndRow
<1>7. CASE EndRow("thread")
  BY <1>7 DEF EndRow
<1>8. CASE SaveStartSnapshot \/ SleepASecond \/ WakeUp \/ SaveMinuteSnapshot
  BY <1>8 DEF SaveStartSnapshot, SleepASecond, WakeUp, SaveMinuteSnapshot
<1> QED
  BY <1>1, <1>2, <1>3, <1>4, <1>5, <1>6, <1>7, <1>8, <1>9 DEF Next, GoalThread, WorkerThread

LEMMA StopStep ==
  ASSUME ImageInv, Next
  PROVE  StopIsComplete'
<1> USE DEF ImageInv, Typed, Workers, Pictures, Frames, StopIsComplete
<1>1. CASE MainThread
  <2>1. UNCHANGED <<goal, wanted, pictures>>
    BY <1>1, RecordingIsOfGoal
  <2>2. worker.latest <= worker'.latest
    BY <1>1, RecordingIsOfGoal DEF UpdateFrame, CallbackOwnsSlot, SlotIsNewest, Slots,
       Callbacks
  <2> QED
    BY <2>1, <2>2, TypeStep
<1>2. CASE BeginRecording \/ MakeWorker \/ StartWorker
  BY <1>2 DEF BeginRecording, MakeWorker, StartWorker
<1>3. CASE StopRecording
  BY <1>3 DEF StopRecording, WorkerLife, NoWorker
<1>4. CASE StopRunning \/ SaveEndSnapshot
  BY <1>4 DEF StopRunning, SaveEndSnapshot
<1>5. CASE JoinThread \/ FinishRecording
  BY <1>5 DEF JoinThread, FinishRecording
<1>6. CASE BeginRow("goal") \/ BeginRow("thread")
  BY <1>6 DEF BeginRow
<1>7. CASE EndRow("goal") \/ EndRow("thread")
  BY <1>7 DEF EndRow, RowsInPlace, MayWriteRow
<1>8. CASE SaveStartSnapshot \/ SleepASecond \/ WakeUp \/ SaveMinuteSnapshot
  BY <1>8 DEF SaveStartSnapshot, SleepASecond, WakeUp, SaveMinuteSnapshot
<1> QED
  BY <1>1, <1>2, <1>3, <1>4, <1>5, <1>6, <1>7, <1>8 DEF Next, GoalThread, WorkerThread

---------------------------------------------------------------------------
(* The theorems *)

LEMMA InitInv == Init => ImageInv
<1> SUFFICES ASSUME Init
             PROVE  ImageInv
  OBVIOUS
<1> USE ImageAssumption DEF Init
<1>1. Typed
  <2>1. saved \in Seq(SavedImages) /\ shm \in Slots /\ recording \in Recordings
    BY EmptyTypes DEF Slots, Recordings, ImageModes
  <2>2. callback \in Callbacks /\ worker \in Workers /\ pictures \in Pictures
    BY EmptyTypes
  <2>3. /\ lastRead \in Frames /\ frames \in Frames /\ wanted \in Frames
        /\ goal \in GoalSteps
    BY EmptyTypes DEF GoalSteps
  <2>4. begun \in 0..MaxRecordings
    BY ImageAssumption
  <2>5. owned \in BOOLEAN /\ crashed \in BOOLEAN /\ inRow = {}
    OBVIOUS
  <2> QED
    BY <2>1, <2>2, <2>3, <2>4, <2>5 DEF Typed
<1>2. SlotIsNewest /\ CallbackOwnsSlot
  BY DEF SlotIsNewest, CallbackOwnsSlot, NoCallback, NoWorker
<1>3. SavedIsOlder /\ ImagesInOrder
  BY DEF SavedIsOlder, ImagesInOrder
<1>4. WorkerLife /\ RowsInPlace /\ StopIsComplete
  BY DEF WorkerLife, NoCallback, NoPictures, RowsInPlace, StopIsComplete
<1> QED
  BY <1>1, <1>2, <1>3, <1>4 DEF ImageInv

LEMMA StutterInv ==
  ASSUME ImageInv, UNCHANGED vars
  PROVE  ImageInv'
  BY DEF vars, ImageInv, Typed, SlotIsNewest, CallbackOwnsSlot, SavedIsOlder, Waiting,
     WorkerLife, RowsInPlace, MayWriteRow, StopIsComplete, ImagesInOrder

LEMMA InvHolds == Spec => []ImageInv
<1>1. ImageInv /\ [Next]_vars => ImageInv'
  BY StutterInv, TypeStep, SlotStep, CallbackStep, OlderStep, OrderStep, WorkerStep,
     RowsStep, StopStep DEF ImageInv
<1> QED
  BY <1>1, InitInv, PTL DEF Spec

\* Numbers, frames and the steps of the three threads stay what they are declared to be,
\* however many frames and recordings there are.
THEOREM TypeCorrect == Spec => []TypeOK
<1>1. ImageInv => TypeOK
  BY AllTyped DEF ImageInv
<1> QED
  BY <1>1, InvHolds, PTL

\* imageDataCallback hands every writer the image that belongs to the message, and none
\* twice or out of order.
THEOREM SavedInOrder == Spec => []ImagesInOrder
<1>1. ImageInv => ImagesInOrder
  BY DEF ImageInv
<1> QED
  BY <1>1, InvHolds, PTL

\* When cmdStopRecord goes on after stop(), the worker's last picture is as new as the
\* frame it had been fed at the stop and no thread writes rows any more.
THEOREM StopCompletesPictures == Spec => []StoppedIsComplete
<1>1. ImageInv => StoppedIsComplete
  <2> SUFFICES ASSUME ImageInv, goal = "finish"
               PROVE  /\ pictures.end >= wanted
                      /\ worker.thread \in {"none", "ended"} /\ inRow = {}
    BY DEF StoppedIsComplete
  <2>1. pictures.end >= wanted
    BY DEF ImageInv, StopIsComplete, Typed, Pictures, Frames
  <2>2. worker.thread \in {"none", "ended"}
    BY DEF ImageInv, WorkerLife
  <2>3. inRow = {}
    BY <2>2 DEF ImageInv, RowsInPlace, MayWriteRow, RowSteps
  <2> QED
    BY <2>1, <2>2, <2>3
<1> QED
  BY <1>1, InvHolds, PTL

---------------------------------------------------------------------------
(* The raw capture                                                         *)

\* The sets of RawCapture's TypeOK, and TypeOK with names for them.
RawDevices == [initialized : BOOLEAN, started : BOOLEAN, rgb : BOOLEAN,
                 ssh : BOOLEAN, meta : {0} \cup RgbFrames]
RawGlasses == [up : BOOLEAN, streams : BOOLEAN,
                  raw : {0} \cup Shots, frame : {0} \cup Shots]
RawCaptures == [stage : Stages, name : {0} \cup Names, meta : {0} \cup RgbFrames,
                  released : BOOLEAN]
RawDisks == [raw : SUBSET Rows, frames : [Rows -> Nat], metadata : [Names -> Nat],
               info : Nat, config : Nat]
RawUse == [frames : 0..MaxRgbFrames, captures : 0..MaxCaptures,
               commands : 0..MaxCommands, reboots : 0..MaxReboots]

RawTyped ==
  /\ device \in RawDevices /\ glasses \in RawGlasses /\ capture \in RawCaptures
  /\ reboots \in Nat /\ disk \in RawDisks /\ used \in RawUse

LEMMA RawAllTyped == RawTyped <=> CaptureTypeOK
  BY DEF RawTyped, CaptureTypeOK, RawDevices, RawGlasses, RawCaptures, RawDisks, RawUse

\* The raw files of a name, and the rows of the text files, which belong to them.
RowsAreUnique == \A a, b \in disk.raw : a.name = b.name => a = b
FrameRowsBelong ==
  \A row \in Rows : disk.frames[row] > 0 => disk.frames[row] = 1 /\ row \in disk.raw
MetadataBelongs ==
  \A n \in Names : disk.metadata[n] > 0 => disk.metadata[n] = 1 /\ Exists(n)
\* A frame file on the glasses is of the shot of their raw file.
GlassesAreOfOneShot == glasses.frame # 0 => glasses.frame = glasses.raw
\* A capture has found no file of its name until it has fetched one, and adds to the
\* text files once.
CaptureIsWhereItStands ==
  /\ capture.stage # "idle" => capture.name \in Names
  /\ capture.stage \in {"release", "reboot", "boot", "shoot", "fetch"} =>
       ~Exists(capture.name)
  /\ capture.stage \in {"sidecars", "finish"} =>
       Exists(capture.name) /\ disk.metadata[capture.name] = 0
  /\ capture.stage = "sidecars" =>
       /\ glasses.raw # 0 /\ [name |-> capture.name, shot |-> glasses.raw] \in disk.raw
       /\ \A row \in Rows : row.name = capture.name => disk.frames[row] = 0

\* What is stored is of one shot, and the capture that runs adds to it in order.
ShotInv ==
  /\ RawTyped /\ RowsAreUnique /\ FrameRowsBelong /\ MetadataBelongs
  /\ GlassesAreOfOneShot /\ CaptureIsWhereItStands

---------------------------------------------------------------------------
LEMMA RawInit ==
  ASSUME CaptureInit PROVE ShotInv
<1> USE CaptureAssumption DEF CaptureAssumption, CaptureInit
<1>1. RawTyped
  BY DEF RawTyped, RawDevices, RawGlasses, RawCaptures, RawDisks, RawUse, Idle, Stages
<1>2. RowsAreUnique /\ FrameRowsBelong /\ MetadataBelongs /\ GlassesAreOfOneShot
  BY DEF RowsAreUnique, FrameRowsBelong, MetadataBelongs, GlassesAreOfOneShot
<1>3. CaptureIsWhereItStands
  BY DEF CaptureIsWhereItStands, Idle
<1> QED BY <1>1, <1>2, <1>3 DEF ShotInv

LEMMA RawUpdates ==
  ASSUME RawTyped
  PROVE  /\ Released(device) \in RawDevices
         /\ Down(glasses) \in RawGlasses
         /\ [glasses EXCEPT !.streams = FALSE] \in RawGlasses
         /\ [glasses EXCEPT !.streams = TRUE] \in RawGlasses
         /\ Cleaned \in RawGlasses
         /\ Idle \in RawCaptures
         /\ \A stage \in Stages : [capture EXCEPT !.stage = stage] \in RawCaptures
  BY DEF RawTyped, Released, RawDevices, Down, RawGlasses, Cleaned,
     Idle, RawCaptures, Stages

\* Every step keeps the types.
LEMMA RawTypeStep ==
  ASSUME ShotInv, CaptureNext
  PROVE  RawTyped'
<1>0. RawTyped
  BY DEF ShotInv
<1> USE <1>0, RawUpdates, CaptureAssumption DEF CaptureAssumption
<1>1. CASE NewFrame
  <2>1. used.frames + 1 \in 1..MaxRgbFrames  BY <1>1 DEF RawTyped, RawUse, NewFrame
  <2>2. device' \in RawDevices  BY <1>1, <2>1 DEF NewFrame, RawTyped, RawDevices, RgbFrames
  <2>3. used' \in RawUse  BY <1>1, <2>1 DEF NewFrame, RawTyped, RawUse
  <2> QED BY <1>1, <2>2, <2>3 DEF NewFrame, RawTyped
<1>2. CASE AsyncReboot
  BY <1>2 DEF AsyncReboot, RawTyped
<1>3. CASE GlassesReboot
  BY <1>3 DEF GlassesReboot, RawTyped, RawUse
<1>4. CASE GlassesBoot
  BY <1>4 DEF GlassesBoot, RawTyped, RawGlasses
<1>5. ASSUME Command PROVE used' \in RawUse /\ UNCHANGED <<capture, reboots>>
  BY <1>5 DEF Command, RawTyped, RawUse
<1>6. CASE InitDevice
  <2>1. device' \in RawDevices /\ glasses' \in RawGlasses
    <3> DEFINE cleared(ssh) == [device EXCEPT !.initialized = FALSE, !.started = FALSE,
                                            !.ssh = ssh]
    <3>1. PICK ssh \in BOOLEAN :
            device' \in {[cleared(ssh) EXCEPT !.initialized = TRUE],
                         cleared(ssh), Released(cleared(ssh))}
      BY <1>6 DEF InitDevice
    <3>2. device' \in RawDevices
      BY <3>1 DEF RawTyped, RawDevices, Released
    <3>3. glasses' \in {glasses, [glasses EXCEPT !.streams = FALSE]}
      BY <1>6 DEF InitDevice
    <3> QED BY <3>2, <3>3 DEF RawTyped
  <2> QED BY <1>5, <1>6, <2>1 DEF InitDevice, RawTyped
<1>7. CASE StartDevice
  <2>1. device' \in RawDevices  BY <1>7 DEF StartDevice, RawTyped, RawDevices
  <2> QED BY <1>5, <1>7, <2>1 DEF StartDevice, RawTyped
<1>8. CASE StopDevice
  <2>1. device' \in RawDevices  BY <1>8 DEF StopDevice, RawTyped, RawDevices
  <2> QED BY <1>5, <1>8, <2>1 DEF StopDevice, RawTyped
<1>9. CASE ReleaseDevice
  BY <1>5, <1>9 DEF ReleaseDevice, RawTyped
<1>10. CASE RecordStopped
  <2>1. disk' \in {[disk EXCEPT !.info = @ + 1], [disk EXCEPT !.info = @ + 1, !.config = @ + 1]}
    BY <1>10 DEF RecordStopped
  <2>2. disk.info + 1 \in Nat /\ disk.config + 1 \in Nat  BY DEF RawTyped, RawDisks
  <2>3. disk' \in RawDisks  BY <2>1, <2>2 DEF RawTyped, RawDisks
  <2> QED BY <1>5, <1>10, <2>3 DEF RecordStopped, RawTyped
<1>11. CASE BeginCapture
  <2>1. used' \in RawUse /\ used.captures + 1 \in 1..MaxCaptures
    BY <1>11 DEF BeginCapture, RawTyped, RawUse
  <2>2. capture' \in RawCaptures
    BY <1>11, <2>1 DEF BeginCapture, RawTyped, RawCaptures, RawDevices, Stages, Names,
       RgbFrames, NameOfFrame, NameByClock
  <2> QED BY <1>11, <2>1, <2>2 DEF BeginCapture, RawTyped
<1>12. CASE ReleaseForCapture
  BY <1>12 DEF ReleaseForCapture, RawTyped, ToStage, Stages
<1>13. CASE RebootBefore
  BY <1>13 DEF RebootBefore, RawTyped, ToStage, Fails, Stages
<1>14. CASE WaitForBoot
  BY <1>14 DEF WaitForBoot, RawTyped, ToStage, Fails, Stages
<1>15. CASE Shoot
  <2>1. capture' \in RawCaptures
    BY <1>15 DEF Shoot, RawTyped, ToStage, Fails, Stages
  <2>2. used.captures \in {0} \cup Shots
    BY DEF RawTyped, RawUse, Shots
  <2>3. glasses' \in RawGlasses
    BY <1>15, <2>2 DEF Shoot, RawTyped, RawGlasses
  <2> QED BY <1>15, <2>1, <2>3 DEF Shoot, RawTyped
<1>16. CASE FetchRaw
  <2>1. capture' \in RawCaptures
    BY <1>16 DEF FetchRaw, RawTyped, ToStage, Fails, Stages
  <2>2. capture.name \in Names
    BY <1>16 DEF FetchRaw, ShotInv, CaptureIsWhereItStands
  <2>3. [name |-> capture.name, shot |-> glasses.raw] \in Rows
    BY <2>2 DEF RawTyped, RawGlasses, Rows, Shots
  <2>4. disk' \in RawDisks
    BY <1>16, <2>3 DEF FetchRaw, RawTyped, RawDisks, Without
  <2> QED BY <1>16, <2>1, <2>4 DEF FetchRaw, RawTyped
<1>17. CASE FetchSidecars
  <2>1. disk' \in RawDisks
    BY <1>17 DEF FetchSidecars, RawTyped, RawDisks
  <2> QED BY <1>17, <2>1 DEF FetchSidecars, RawTyped, ToStage, Stages
<1>18. CASE FinishCapture
  <2>1. disk' \in RawDisks
    BY <1>18 DEF FinishCapture, RawTyped, RawDisks
  <2> QED BY <1>18, <2>1 DEF FinishCapture, RawTyped
<1> QED
  BY <1>1, <1>2, <1>3, <1>4, <1>6, <1>7, <1>8, <1>9, <1>10, <1>11, <1>12, <1>13, <1>14, <1>15,
     <1>16, <1>17, <1>18 DEF CaptureNext, CaptureStep

\* The steps that leave the capture where it stands change no file of a shot.
LEMMA OthersKeepShots ==
  ASSUME ShotInv, capture' = capture, disk'.raw = disk.raw, disk'.frames = disk.frames,
         disk'.metadata = disk.metadata, glasses'.raw = glasses.raw,
         glasses'.frame = glasses.frame
  PROVE  /\ RowsAreUnique' /\ FrameRowsBelong' /\ MetadataBelongs'
         /\ GlassesAreOfOneShot' /\ CaptureIsWhereItStands'
  BY DEF ShotInv, RowsAreUnique, FrameRowsBelong, MetadataBelongs, GlassesAreOfOneShot,
     CaptureIsWhereItStands, Exists

\* Every step keeps the rest: only FetchRaw adds a file, the two after it add rows.
LEMMA RawStep ==
  ASSUME ShotInv, CaptureNext
  PROVE  /\ RowsAreUnique' /\ FrameRowsBelong' /\ MetadataBelongs'
         /\ GlassesAreOfOneShot' /\ CaptureIsWhereItStands'
<1>0. RawTyped /\ RowsAreUnique /\ FrameRowsBelong /\ MetadataBelongs /\ GlassesAreOfOneShot
      /\ CaptureIsWhereItStands
  BY DEF ShotInv
<1>1. CASE \/ NewFrame \/ AsyncReboot \/ GlassesReboot \/ GlassesBoot
           \/ InitDevice \/ StartDevice \/ StopDevice \/ ReleaseDevice
           \/ RecordStopped
  <2>1. capture' = capture
    BY <1>1 DEF NewFrame, AsyncReboot, GlassesReboot, GlassesBoot, Command,
       InitDevice, StartDevice, StopDevice, ReleaseDevice, RecordStopped
  <2>2. /\ glasses'.raw = glasses.raw /\ glasses'.frame = glasses.frame
    BY <1>0, <1>1 DEF NewFrame, AsyncReboot, GlassesReboot, GlassesBoot, Command,
       InitDevice, StartDevice, StopDevice, ReleaseDevice, RecordStopped, Down,
       RawTyped, RawGlasses
  <2>3. /\ disk'.raw = disk.raw /\ disk'.frames = disk.frames /\ disk'.metadata = disk.metadata
    BY <1>0, <1>1 DEF NewFrame, AsyncReboot, GlassesReboot, GlassesBoot, Command,
       InitDevice, StartDevice, StopDevice, ReleaseDevice, RecordStopped,
       RawTyped, RawDisks
  <2> QED BY <2>1, <2>2, <2>3, OthersKeepShots
<1>2. CASE BeginCapture
  <2>1. capture'.stage \in {"release", "shoot"} /\ ~Exists(capture'.name)
    BY <1>2 DEF BeginCapture, SkipsExisting
  <2>2. capture' \in RawCaptures /\ capture'.name \in Names
    <3>1. device.meta \in {0} \cup RgbFrames /\ device.started \in BOOLEAN
      BY <1>0 DEF RawTyped, RawDevices
    <3>2. NameOfFrame(device.meta) \in Names \/ device.meta = 0
      BY <3>1, CaptureAssumption DEF NameOfFrame, Names, RgbFrames, CaptureAssumption
    <3>3. NameByClock(used.captures + 1) \in Names
      BY <1>0, <1>2, CaptureAssumption
         DEF BeginCapture, RawTyped, RawUse, NameByClock, Names, CaptureAssumption
    <3>4. PICK direct \in BOOLEAN, name \in Names :
            capture' = [stage |-> IF device.started /\ ~direct THEN "release" ELSE "shoot",
                        name |-> name, meta |-> device.meta,
                        released |-> device.started /\ ~direct]
      BY <1>2, <3>2, <3>3 DEF BeginCapture
    <3> QED BY <3>1, <3>4 DEF RawCaptures, Stages
  <2>3. UNCHANGED <<disk, glasses>>  BY <1>2 DEF BeginCapture
  <2> QED BY <1>0, <2>1, <2>2, <2>3 DEF RowsAreUnique, FrameRowsBelong, MetadataBelongs,
          GlassesAreOfOneShot, CaptureIsWhereItStands, Exists
<1>3. CASE ReleaseForCapture \/ RebootBefore \/ WaitForBoot
  <2>1. /\ glasses'.raw = glasses.raw /\ glasses'.frame = glasses.frame /\ disk' = disk
    BY <1>0, <1>3 DEF ReleaseForCapture, RebootBefore, WaitForBoot, Down,
       RawTyped, RawGlasses
  <2>2. \/ capture' = Idle
        \/ /\ capture.stage \in {"release", "reboot", "boot"} /\ capture'.name = capture.name
           /\ capture'.stage \in {"reboot", "boot", "shoot"}
    BY <1>0, <1>3 DEF ReleaseForCapture, RebootBefore, WaitForBoot, ToStage, Fails,
       RawTyped, RawCaptures
  <2> QED BY <1>0, <2>1, <2>2 DEF RowsAreUnique, FrameRowsBelong, MetadataBelongs,
          GlassesAreOfOneShot, CaptureIsWhereItStands, Exists, Idle
<1>4. CASE Shoot
  <2>1. GlassesAreOfOneShot' /\ disk' = disk
    BY <1>0, <1>4 DEF Shoot, Cleaned, GlassesAreOfOneShot, RawTyped, RawGlasses
  <2>2. \/ capture' = Idle
        \/ /\ capture.stage = "shoot" /\ capture'.name = capture.name
           /\ capture'.stage = "fetch"
    BY <1>0, <1>4 DEF Shoot, ToStage, Fails, RawTyped, RawCaptures
  <2> QED BY <1>0, <2>1, <2>2 DEF RowsAreUnique, FrameRowsBelong, MetadataBelongs,
          CaptureIsWhereItStands, Exists, Idle
<1>5. CASE FetchRaw
  <2>0. capture.stage = "fetch" /\ capture.name \in Names /\ ~Exists(capture.name)
    BY <1>0, <1>5 DEF FetchRaw, CaptureIsWhereItStands
  <2>1. Without(capture.name) = disk.raw
    BY <2>0 DEF Without, Exists
  <2>2. disk'.frames = disk.frames /\ disk'.metadata = disk.metadata /\ glasses' = glasses
    BY <1>0, <1>5 DEF FetchRaw, RawTyped, RawDisks
  <2>3. \A row \in Rows : row.name = capture.name => disk.frames[row] = 0
    BY <1>0, <2>0 DEF FrameRowsBelong, Exists, RawTyped, RawDisks
  <2>4. disk.metadata[capture.name] = 0
    BY <1>0, <2>0 DEF MetadataBelongs, RawTyped, RawDisks
  <2> DEFINE new == [name |-> capture.name, shot |-> glasses.raw]
  <2>5. CASE disk'.raw = disk.raw /\ capture' = Idle
    BY <1>0, <2>2, <2>5 DEF RowsAreUnique, FrameRowsBelong, MetadataBelongs,
       GlassesAreOfOneShot, CaptureIsWhereItStands, Exists, Idle
  <2>6. CASE /\ glasses.raw # 0 /\ disk'.raw = disk.raw \cup {new}
             /\ capture'.stage = "sidecars" /\ capture'.name = capture.name
    <3>1. RowsAreUnique'
      BY <1>0, <2>0, <2>6 DEF RowsAreUnique, Exists
    <3>2. FrameRowsBelong' /\ MetadataBelongs' /\ GlassesAreOfOneShot'
      BY <1>0, <2>2, <2>6 DEF FrameRowsBelong, MetadataBelongs, GlassesAreOfOneShot, Exists
    <3>3. new \in disk'.raw
      BY <2>6
    <3>4. (Exists(capture.name))'
      BY <3>3, <2>6 DEF Exists
    <3>5. CaptureIsWhereItStands'
      BY <2>0, <2>2, <2>3, <2>4, <2>6, <3>3, <3>4 DEF CaptureIsWhereItStands, Exists
    <3> QED BY <3>1, <3>2, <3>5
  <2>7. \/ disk'.raw = disk.raw /\ capture' = Idle
        \/ /\ glasses.raw # 0 /\ disk'.raw = disk.raw \cup {new}
           /\ capture'.stage = "sidecars" /\ capture'.name = capture.name
    BY <1>0, <1>5, <2>1 DEF FetchRaw, ToStage, Fails, RawTyped, RawDisks, RawCaptures
  <2> QED BY <2>5, <2>6, <2>7
<1>6. CASE FetchSidecars
  <2> DEFINE new == [name |-> capture.name, shot |-> glasses.frame]
  <2>0. /\ capture.stage = "sidecars" /\ capture.name \in Names
        /\ Exists(capture.name) /\ disk.metadata[capture.name] = 0
        /\ glasses.raw # 0 /\ [name |-> capture.name, shot |-> glasses.raw] \in disk.raw
        /\ \A row \in Rows : row.name = capture.name => disk.frames[row] = 0
    BY <1>0, <1>6 DEF FetchSidecars, CaptureIsWhereItStands
  <2>1. /\ capture'.stage = "finish" /\ capture'.name = capture.name
        /\ disk'.raw = disk.raw /\ disk'.metadata = disk.metadata /\ glasses' = glasses
    BY <1>0, <1>6 DEF FetchSidecars, ToStage, RawTyped, RawDisks, RawCaptures
  <2>2. FrameRowsBelong'
    <3>1. CASE disk' = disk
      BY <1>0, <3>1 DEF FrameRowsBelong
    <3>2. CASE /\ glasses.frame # 0
               /\ disk' = [disk EXCEPT !.frames[new] = @ + 1]
      <4>1. new \in disk.raw /\ new \in Rows /\ disk.frames[new] = 0
        BY <1>0, <2>0, <3>2 DEF GlassesAreOfOneShot, RawTyped, RawDisks
      <4>2. disk'.frames = [disk.frames EXCEPT ![new] = 1]
        BY <1>0, <3>2, <4>1 DEF RawTyped, RawDisks
      <4> QED BY <1>0, <2>1, <4>1, <4>2 DEF FrameRowsBelong, RawTyped, RawDisks
    <3> QED BY <1>6, <3>1, <3>2 DEF FetchSidecars
  <2> QED BY <1>0, <2>0, <2>1, <2>2 DEF RowsAreUnique, MetadataBelongs, GlassesAreOfOneShot,
          CaptureIsWhereItStands, Exists
<1>7. CASE FinishCapture
  <2>0. /\ capture.stage = "finish" /\ capture.name \in Names
        /\ Exists(capture.name) /\ disk.metadata[capture.name] = 0
    BY <1>0, <1>7 DEF FinishCapture, CaptureIsWhereItStands
  <2>1. /\ capture' = Idle /\ glasses' = glasses
        /\ disk'.raw = disk.raw /\ disk'.frames = disk.frames
    BY <1>0, <1>7 DEF FinishCapture, RawTyped, RawDisks
  <2>2. disk'.metadata \in {disk.metadata, [disk.metadata EXCEPT ![capture.name] = 1]}
    BY <1>0, <1>7, <2>0 DEF FinishCapture, RawTyped, RawDisks
  <2>3. MetadataBelongs'
    BY <1>0, <2>0, <2>1, <2>2 DEF MetadataBelongs, Exists, RawTyped, RawDisks
  <2> QED BY <1>0, <2>1, <2>3 DEF RowsAreUnique, FrameRowsBelong, GlassesAreOfOneShot,
          CaptureIsWhereItStands, Idle
<1> QED
  BY <1>1, <1>2, <1>3, <1>4, <1>5, <1>6, <1>7 DEF CaptureNext, CaptureStep

LEMMA ShotInvHolds == CaptureSpec => []ShotInv
<1>1. ShotInv /\ [CaptureNext]_captureVars => ShotInv'
  <2>1. CASE UNCHANGED captureVars
    BY <2>1 DEF captureVars, ShotInv, RawTyped, RowsAreUnique, FrameRowsBelong, MetadataBelongs,
       GlassesAreOfOneShot, CaptureIsWhereItStands, Exists
  <2> QED BY <2>1, RawTypeStep, RawStep DEF ShotInv
<1> QED BY <1>1, RawInit, PTL DEF CaptureSpec

\* The stages of a raw capture, the files on the glasses and the rows of the data set stay
\* what they are declared to be, however many frames, captures and reboots there are.
THEOREM RawTypes == CaptureSpec => []CaptureTypeOK
<1>1. ShotInv => CaptureTypeOK  BY RawAllTyped DEF ShotInv
<1> QED BY <1>1, ShotInvHolds, PTL

\* cmdCaptureRawFrame stores under one name what is of one shot, with at most one row in
\* each text file, wherever it fails and whoever reboots the glasses.
THEOREM RawFilesOfOneShot == CaptureSpec => []OneShotPerName
<1>1. ShotInv => OneShotPerName
  BY DEF ShotInv, RowsAreUnique, FrameRowsBelong, MetadataBelongs, RawTyped, RawDisks,
     OneShotPerName
<1> QED BY <1>1, ShotInvHolds, PTL

=============================================================================
