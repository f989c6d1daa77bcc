--------------------------- MODULE RecordingProofs ---------------------------
(***************************************************************************)
(* Machine-checked proofs about Recording, for every size of the buffers,  *)
(* every set of helpers and however many recordings, samples and deletions *)
(* there are, with and without a goal thread that outlives the subnode.    *)
(***************************************************************************)
EXTENDS Recording, TLAPS

---------------------------------------------------------------------------
(* Sequences *)

Elements(q) == {q[i] : i \in DOMAIN q}

LEMMA EmptyElements == Elements(<<>>) = {}
  BY DEF Elements

LEMMA ElementsOf ==
  ASSUME NEW S, NEW q \in Seq(S)
  PROVE  Elements(q) \subseteq S
<1>1. \A i \in DOMAIN q : q[i] \in S
  OBVIOUS
<1> QED
  BY <1>1 DEF Elements

LEMMA AppendElements ==
  ASSUME NEW S, NEW q \in Seq(S), NEW e \in S
  PROVE  Append(q, e) \in Seq(S) /\ Elements(Append(q, e)) = Elements(q) \cup {e}
<1> DEFINE r == Append(q, e)
<1>1. /\ r \in Seq(S) /\ Len(q) \in Nat
      /\ DOMAIN q = 1..Len(q) /\ DOMAIN r = 1..(Len(q) + 1)
      /\ r[Len(q) + 1] = e /\ \A i \in DOMAIN q : r[i] = q[i]
  OBVIOUS
<1> HIDE DEF r
<1>2. DOMAIN r = DOMAIN q \cup {Len(q) + 1}
  BY <1>1
<1> QED
  BY <1>1, <1>2 DEF Elements, r

LEMMA TailElements ==
  ASSUME NEW S, NEW q \in Seq(S), q # <<>>
  PROVE  /\ Head(q) \in S /\ Tail(q) \in Seq(S)
         /\ Elements(q) = {Head(q)} \cup Elements(Tail(q))
<1> DEFINE r == Tail(q)
<1>1. /\ r \in Seq(S) /\ Head(q) \in S /\ Head(q) = q[1]
      /\ Len(q) \in Nat /\ Len(q) > 0
      /\ DOMAIN q = 1..Len(q) /\ DOMAIN r = 1..(Len(q) - 1)
      /\ \A i \in DOMAIN r : r[i] = q[i + 1]
  OBVIOUS
<1> HIDE DEF r
<1>2. ASSUME NEW i \in DOMAIN q
      PROVE  q[i] \in {Head(q)} \cup Elements(r)
  <2>1. CASE i = 1
    BY <1>1, <2>1
  <2>2. CASE i # 1
    <3>1. i - 1 \in DOMAIN r /\ r[i - 1] = q[i]
      BY <1>1, <2>2
    <3> QED
      BY <3>1 DEF Elements
  <2> QED
    BY <2>1, <2>2
<1>3. ASSUME NEW i \in DOMAIN r
      PROVE  r[i] \in Elements(q)
  <2>1. i + 1 \in DOMAIN q
    BY <1>1
  <2> QED
    BY <1>1, <2>1 DEF Elements
<1>4. Head(q) \in Elements(q)
  <2>1. 1 \in DOMAIN q
    BY <1>1
  <2> QED
    BY <1>1, <2>1 DEF Elements
<1> QED
  BY <1>1, <1>2, <1>3, <1>4 DEF Elements, r

---------------------------------------------------------------------------
(* Types *)

Wishes == [mode : Modes, helpers : SUBSET Helpers]
CsvWriters == [open : BOOLEAN, stop : BOOLEAN, thread : Worker, file : Sessions,
               buffer : SUBSET Samples, queue : Seq(Batches)]
ImageWriters == [open : BOOLEAN, stop : BOOLEAN, thread : Worker, file : Sessions,
                 queue : Seq(Samples)]
Callbacks == [pc : DataSteps, sample : Samples \cup {<<>>}, rgb : BOOLEAN,
              writer : ImageModes]
Steps == {"idle", "gone"} \cup StartSteps \cup StopSteps
Counts == [samples : 0..MaxSamples, deletes : 0..MaxDeletes]

\* TypeOK with names for its sets.
Typed ==
  /\ recordFlag \in BOOLEAN /\ finalizing \in BOOLEAN /\ quit \in BOOLEAN
  /\ mode \in {"none"} \cup ImageModes
  /\ session \in Sessions
  /\ stateLock \in Threads \cup {"free"}
  /\ pc \in [Threads -> Steps]
  /\ wanted \in Wishes
  /\ csv \in CsvWriters /\ image \in [ImageModes -> ImageWriters]
  /\ data \in Callbacks
  /\ helpers \subseteq Helpers /\ leaving \subseteq Helpers
  /\ disk \in [Sessions -> SUBSET Samples]
  /\ deleted \subseteq Sessions /\ settled \subseteq Samples
  /\ used \in Counts

LEMMA AllTyped == Typed <=> TypeOK
  BY DEF Typed, TypeOK, Wishes, CsvWriters, ImageWriters, Callbacks, Steps, Counts

---------------------------------------------------------------------------
(* The inductive invariant *)

\* The steps that close the CSV writer belong to a stop or, under the state lock, to a
\* start that fails.
FlushSteps == {"csv_flush", "csv_clear", "csv_stop", "csv_join"}
CloseSteps == FlushSteps \cup {"image_stop", "image_join", "image_clear",
                               "helpers_stop", "finish"}
Stopping(t) == pc[t] \in CloseSteps /\ stateLock # t

\* One thread at a time starts or finishes a recording.
OneAtATime ==
  /\ stateLock # "main" /\ pc["main"] \notin StartSteps
  /\ pc["goal"] \in StartSteps => stateLock = "goal"
  /\ stateLock = "goal" =>
       /\ pc["goal"] \in StartSteps \cup FlushSteps
       /\ ~finalizing
       /\ recordFlag <=> pc["goal"] = "helpers"
  /\ pc["goal"] = "go" => wanted.mode # "both"
  /\ recordFlag => ~finalizing
  /\ finalizing <=> \E t \in Threads : Stopping(t)
  /\ \A t, u \in Threads : Stopping(t) /\ Stopping(u) => t = u

\* Where the recording begun last stands.
Stage == IF recordFlag THEN "on"
         ELSE IF Stopping("goal") THEN pc["goal"]
         ELSE IF Stopping("main") THEN pc["main"]
         ELSE "off"

\* Helpers belong to the recording that is on, or to the one that is being finished.
HelpersHeld ==
  /\ Stage # "on" => helpers = {}
  /\ Stage \in {"on", "off", "finish"} => leaving = {}

\* The CSV writer writes into the folder of the recording until it is told to stop.
CsvUp ==
  (Stage \in {"on", "csv_flush", "csv_clear", "csv_stop"} \/ pc["goal"] \in {"open_image", "go"})
    => csv.open /\ ~csv.stop /\ csv.thread = "running" /\ csv.file = session

ImageUp(m) ==
  image[m].thread = "running" /\ ~image[m].stop /\ image[m].file = session

\* So does the image writer the recording asked for; the other one is closed.
ImagesUp ==
  \A m \in ImageModes :
    /\ image[m].thread = "running" => image[m].open
    /\ image[m].open =>
         /\ Stage \notin {"helpers_stop", "finish"}
         /\ Stage = "on" => ImageUp(m) /\ mode = m
         /\ Stage = "off" => pc["goal"] = "go" /\ ImageUp(m) /\ wanted.mode = m
         /\ Stage = "image_clear" => m = "rgb" /\ image[m].thread # "running"

Queued == UNION Elements(csv.queue)
Pushed(m) == Elements(image[m].queue)
Kept(x) == x.session \in deleted \/ x \in disk[x.session]

\* Samples have numbers of their own, and no sample is anywhere before its callback.
Old(x) == x.id <= used.samples
Numbered ==
  /\ \A x \in settled \cup csv.buffer \cup Queued : Old(x)
  /\ \A m \in ImageModes : \A x \in Pushed(m) : Old(x)
  /\ \A s \in Sessions : \A x \in disk[s] : Old(x)
  /\ data.pc # "idle" => Old(data.sample)

\* A sample that was settled is on its way to the folder of its recording, which is
\* not finished before it has arrived.
Placed(x) ==
  /\ x.session <= session
  /\ x \in csv.buffer =>
       x.session = session /\ Stage \in {"on", "csv_flush", "csv_clear"}
  /\ x \in Queued =>
       /\ x.session = session /\ Stage \in {"on"} \cup FlushSteps
       /\ csv.file = session /\ csv.thread = "running"
  /\ \A m \in ImageModes : x \in Pushed(m) =>
       /\ x.session = session
       /\ Stage \in {"on", "image_stop", "image_join"} \cup FlushSteps
       /\ image[m].file = session /\ image[m].thread = "running"
  /\ \/ Kept(x)
     \/ x \in Queued
     \/ \E m \in ImageModes : x \in Pushed(m)
     \/ x \in csv.buffer /\ Stage \in {"on", "csv_flush"}
  /\ data.pc = "csv_clear" /\ x \in csv.buffer => Kept(x) \/ x \in Queued
  /\ \A s \in Sessions \ {x.session} : x \notin disk[s]
OnItsWay == \A x \in settled : Placed(x)

ImageSteps == {"slam_flag", "image_check", "image_push"}
Live == recordFlag /\ data.sample.session = session

\* The sample of a callback under way is not settled yet; while its recording is on, it
\* is where the callback has put it and in no other folder.
UnderWay ==
  data.pc # "idle" =>
    /\ data.sample \in Samples /\ data.sample \notin settled
    /\ data.sample.session <= session
    /\ stateLock = "goal" /\ ~recordFlag => data.sample.session < session
    /\ Live =>
         /\ \A s \in Sessions \ {session} : data.sample \notin disk[s]
         /\ data.pc = "csv_queue" => data.sample \in csv.buffer
         /\ data.pc = "csv_clear" => Kept(data.sample) \/ data.sample \in Queued
         /\ data.rgb /\ data.pc \in ImageSteps => mode = "rgb"
         /\ data.pc = "image_push" => image[data.writer].open
         /\ \A m \in ImageModes : data.sample \in Pushed(m) => image[m].open

RecordingInv ==
  /\ Typed /\ OneAtATime /\ HelpersHeld /\ CsvUp /\ ImagesUp
  /\ Numbered /\ OnItsWay /\ UnderWay

---------------------------------------------------------------------------
(* Control: one thread at a time *)

\* The actions that leave flags, locks and commands alone.
Bystanders ==
  Writers \/ ImuData \/ ImageData \/ Callback \/ DeleteRecord \/ Quit

LEMMA BystandersLeaveControl ==
  ASSUME Bystanders
  PROVE  UNCHANGED <<flagVars, pc, wanted, helperVars>>
  BY DEF Bystanders, Writers, CsvWrite, CsvExit, ImageWrite, ImageExit, ImuData, ImageData,
     Callback, CheckCsv, PushCsv, QueueCsv, EmptyCsv, SlamFlag, CheckImage, PushImage,
     DeleteRecord, Quit, Settle

LEMMA Actions ==
  ASSUME Next
  PROVE  \/ BeginStart("goal") \/ OpenCsv("goal") \/ OpenImage("goal") \/ GoOn("goal")
         \/ StartHelpers("goal") \/ BeginStop \/ Release \/ Bystanders
         \/ \E t \in Threads :
              \/ TakeOver(t) \/ FlushCsv(t) \/ ClearCsv(t) \/ StopCsv(t) \/ JoinCsv(t)
              \/ StopImage(t) \/ JoinImage(t) \/ CloseImage(t) \/ StopHelpers(t)
              \/ Finish(t)
  BY DEF Next, StopThread, Bystanders

LEMMA ControlStep ==
  ASSUME Typed, OneAtATime, Next
  PROVE  OneAtATime'
<1> USE DEF Typed, OneAtATime, Stopping, CloseSteps, FlushSteps, StartSteps, Steps, StopSteps,
            Threads, Goto, flagVars, helperVars
<1>1. CASE BeginStart("goal")
  BY <1>1 DEF BeginStart, MayStart
<1>2. CASE OpenCsv("goal")
  BY <1>2 DEF OpenCsv, FailStart
<1>3. CASE OpenImage("goal")
  <2>1. /\ pc["goal"] = "open_image"
        /\ UNCHANGED <<flagVars, wanted>>
        /\ \/ Goto("goal", "csv_flush")
           \/ Goto("goal", "go") /\ wanted.mode # "both"
    BY <1>3 DEF OpenImage, ImageModes
  <2> QED
    BY <2>1
<1>4. CASE GoOn("goal")
  BY <1>4 DEF GoOn
<1>5. CASE StartHelpers("goal")
  BY <1>5 DEF StartHelpers
<1>6. CASE BeginStop
  BY <1>6 DEF BeginStop
<1>7. CASE Release
  BY <1>7 DEF Release
<1>8. CASE Bystanders
  BY <1>8, BystandersLeaveControl
<1>9. ASSUME NEW t \in Threads, TakeOver(t)
      PROVE  OneAtATime'
  BY <1>9 DEF TakeOver
<1>10. ASSUME NEW t \in Threads, FlushCsv(t) \/ ClearCsv(t) \/ StopCsv(t)
       PROVE  OneAtATime'
  BY <1>10 DEF FlushCsv, ClearCsv, StopCsv
<1>11. ASSUME NEW t \in Threads, JoinCsv(t)
       PROVE  OneAtATime'
  BY <1>11 DEF JoinCsv, FailStart
<1>12. ASSUME NEW t \in Threads,
              StopImage(t) \/ JoinImage(t) \/ CloseImage(t) \/ StopHelpers(t)
       PROVE  OneAtATime'
  <2>1. /\ UNCHANGED flagVars /\ UNCHANGED wanted
        /\ pc[t] \in {"image_stop", "image_join", "image_clear", "helpers_stop"}
        /\ \E step \in {"image_join", "image_clear", "helpers_stop", "finish"} : Goto(t, step)
    BY <1>12 DEF StopImage, JoinImage, CloseImage, StopHelpers
  <2> QED
    BY <2>1
<1>13. ASSUME NEW t \in Threads, Finish(t)
       PROVE  OneAtATime'
  BY <1>13 DEF Finish
<1> QED
  BY Actions, <1>1, <1>2, <1>3, <1>4, <1>5, <1>6, <1>7, <1>8, <1>9, <1>10, <1>11, <1>12, <1>13

\* What becomes of the recording with each action.
LEMMA StageKept ==
  ASSUME Typed, OneAtATime, UNCHANGED <<recordFlag, stateLock, pc>>
  PROVE  Stage' = Stage
  BY DEF Stage, Stopping

LEMMA StageOfStart ==
  ASSUME Typed, OneAtATime
  PROVE  /\ BeginStart("goal") \/ OpenCsv("goal") \/ OpenImage("goal")
              => Stage = "off" /\ Stage' = "off"
         /\ GoOn("goal") => Stage = "off" /\ Stage' = "on"
         /\ StartHelpers("goal") => Stage = "on" /\ Stage' = "on"
<1> USE DEF Typed, OneAtATime, Stage, Stopping, CloseSteps, FlushSteps, StartSteps, Steps,
            StopSteps, Threads, Goto, flagVars
<1>1. BeginStart("goal") => Stage = "off" /\ Stage' = "off"
  BY DEF BeginStart, MayStart
<1>2. OpenCsv("goal") => Stage = "off" /\ Stage' = "off"
  BY DEF OpenCsv, FailStart
<1>3. OpenImage("goal") => Stage = "off" /\ Stage' = "off"
  <2> SUFFICES ASSUME OpenImage("goal")
               PROVE  Stage = "off" /\ Stage' = "off"
    OBVIOUS
  <2>1. /\ pc["goal"] = "open_image" /\ UNCHANGED flagVars
        /\ \E step \in {"csv_flush", "go"} : Goto("goal", step)
    BY DEF OpenImage
  <2> QED
    BY <2>1
<1>4. GoOn("goal") => Stage = "off" /\ Stage' = "on"
  BY DEF GoOn
<1>5. StartHelpers("goal") => Stage = "on" /\ Stage' = "on"
  BY DEF StartHelpers
<1> QED
  BY <1>1, <1>2, <1>3, <1>4, <1>5

LEMMA StageOfStop ==
  ASSUME Typed, OneAtATime, NEW t \in Threads
  PROVE  /\ TakeOver(t) => IF recordFlag THEN Stage = "on" /\ Stage' = "csv_flush"
                                         ELSE Stage' = Stage
         /\ FlushCsv(t) \/ ClearCsv(t) \/ StopCsv(t) \/ JoinCsv(t) =>
              IF stateLock = t THEN Stage = "off" /\ Stage' = "off"
                               ELSE Stage = pc[t] /\ Stage' = pc'[t]
         /\ StopImage(t) \/ JoinImage(t) \/ CloseImage(t) \/ StopHelpers(t) =>
              Stage = pc[t] /\ Stage' = pc'[t]
         /\ Finish(t) => Stage = "finish" /\ Stage' = "off"
<1> USE DEF Typed, OneAtATime, Stage, Stopping, CloseSteps, FlushSteps, StartSteps, Steps,
            StopSteps, Threads, Goto, flagVars
<1>1. ASSUME TakeOver(t)
      PROVE  IF recordFlag THEN Stage = "on" /\ Stage' = "csv_flush" ELSE Stage' = Stage
  BY <1>1 DEF TakeOver
<1>2. ASSUME FlushCsv(t) \/ ClearCsv(t) \/ StopCsv(t)
      PROVE  IF stateLock = t THEN Stage = "off" /\ Stage' = "off"
                              ELSE Stage = pc[t] /\ Stage' = pc'[t]
  <2>1. /\ UNCHANGED flagVars /\ pc[t] \in {"csv_flush", "csv_clear", "csv_stop"}
        /\ \E step \in {"csv_clear", "csv_stop", "csv_join"} : Goto(t, step)
    BY <1>2 DEF FlushCsv, ClearCsv, StopCsv
  <2> QED
    BY <2>1
<1>3. ASSUME JoinCsv(t)
      PROVE  IF stateLock = t THEN Stage = "off" /\ Stage' = "off"
                              ELSE Stage = pc[t] /\ Stage' = pc'[t]
  BY <1>3 DEF JoinCsv, FailStart
<1>4. ASSUME StopImage(t) \/ JoinImage(t) \/ CloseImage(t) \/ StopHelpers(t)
      PROVE  Stage = pc[t] /\ Stage' = pc'[t]
  <2>1. /\ UNCHANGED flagVars
        /\ pc[t] \in {"image_stop", "image_join", "image_clear", "helpers_stop"}
        /\ \E step \in {"image_join", "image_clear", "helpers_stop", "finish"} : Goto(t, step)
    BY <1>4 DEF StopImage, JoinImage, CloseImage, StopHelpers
  <2> QED
    BY <2>1
<1>5. ASSUME Finish(t)
      PROVE  Stage = "finish" /\ Stage' = "off"
  BY <1>5 DEF Finish
<1> QED
  BY <1>1, <1>2, <1>3, <1>4, <1>5

LEMMA StageOfOthers ==
  ASSUME Typed, OneAtATime
  PROVE  /\ BeginStop \/ Release => Stage' = Stage
         /\ Bystanders => Stage' = Stage
<1>1. BeginStop \/ Release => Stage' = Stage
  BY DEF BeginStop, Release, Typed, OneAtATime, Stage, Stopping, CloseSteps, FlushSteps,
     StartSteps, Steps, StopSteps, Threads, Goto, flagVars
<1>2. Bystanders => Stage' = Stage
  BY BystandersLeaveControl, StageKept DEF flagVars
<1> QED
  BY <1>1, <1>2

---------------------------------------------------------------------------
(* Type correctness *)

LEMMA GotoType ==
  ASSUME pc \in [Threads -> Steps], NEW t \in Threads, NEW step \in Steps, Goto(t, step)
  PROVE  pc' \in [Threads -> Steps]
  BY DEF Goto

LEMMA NothingType == Nothing \in Wishes
  BY DEF Nothing, Wishes, Modes

LEMMA CsvType ==
  ASSUME NEW w \in CsvWriters
  PROVE  /\ [w EXCEPT !.open = TRUE, !.stop = FALSE, !.thread = "running", !.file = session]
              \in CsvWriters
              \/ session \notin Sessions
         /\ \A queue \in Seq(Batches) : [w EXCEPT !.queue = queue] \in CsvWriters
  BY DEF CsvWriters, Worker

LEMMA ImageType ==
  ASSUME NEW w \in ImageWriters
  PROVE  /\ [w EXCEPT !.open = TRUE, !.stop = FALSE, !.thread = "running", !.file = session]
              \in ImageWriters
              \/ session \notin Sessions
         /\ [w EXCEPT !.thread = "ended"] \in ImageWriters
         /\ \A queue \in Seq(Samples) : [w EXCEPT !.queue = queue] \in ImageWriters
  BY DEF ImageWriters, Worker

LEMMA DataType ==
  ASSUME NEW d \in Callbacks
  PROVE  /\ \A step \in DataSteps : [d EXCEPT !.pc = step] \in Callbacks
         /\ \A step \in DataSteps, x \in Samples :
              /\ [d EXCEPT !.pc = step, !.sample = x] \in Callbacks
              /\ \A rgb \in BOOLEAN :
                   [d EXCEPT !.pc = step, !.sample = x, !.rgb = rgb] \in Callbacks
         /\ [d EXCEPT !.pc = "image_check", !.writer = "rgb"] \in Callbacks
         /\ [d EXCEPT !.pc = "idle", !.rgb = FALSE, !.writer = "slam", !.sample = <<>>]
              \in Callbacks
  BY DEF Callbacks, DataSteps, ImageModes

LEMMA CallbackTypes ==
  ASSUME data \in Callbacks
  PROVE  Idle \in Callbacks /\ ToRgb \in Callbacks
<1>1. Idle \in Callbacks
  BY DataType DEF Idle, DataSteps, ImageModes
<1>2. ToRgb \in Callbacks
  BY <1>1, DataType DEF ToRgb, DataSteps, ImageModes
<1> QED
  BY <1>1, <1>2

\* While a callback is under way its sample is there.
SampleThere == data.pc # "idle" => data.sample \in Samples

LEMMA SettleType ==
  ASSUME settled \subseteq Samples, data.sample \in Samples, Settle
  PROVE  settled' \subseteq Samples
  BY DEF Settle

LEMMA TypeOfStart ==
  ASSUME Typed, OneAtATime,
         \/ BeginStart("goal") \/ OpenCsv("goal") \/ OpenImage("goal") \/ GoOn("goal")
         \/ StartHelpers("goal") \/ BeginStop \/ Release
  PROVE  Typed'
<1> USE RecordingAssumption DEF Typed, flagVars, helperVars, Threads
<1>1. CASE BeginStart("goal")
  <2>1. session' \in Sessions /\ wanted' \in Wishes
    BY <1>1 DEF BeginStart, Sessions, Wishes
  <2>2. pc' \in [Threads -> Steps]
    BY <1>1, GotoType DEF BeginStart, Steps, StartSteps
  <2> QED
    BY <1>1, <2>1, <2>2 DEF BeginStart
<1>2. CASE OpenCsv("goal")
  <2>1. csv' \in CsvWriters
    BY <1>2, CsvType DEF OpenCsv
  <2>2. pc' \in [Threads -> Steps]
    BY <1>2, GotoType DEF OpenCsv, FailStart, Steps, StartSteps
  <2> QED
    BY <1>2, <2>1, <2>2, NothingType DEF OpenCsv, FailStart
<1>3. CASE OpenImage("goal")
  <2>1. image' \in [ImageModes -> ImageWriters]
    <3>1. image[wanted.mode] \in ImageWriters \/ wanted.mode \notin ImageModes
      OBVIOUS
    <3>2. wanted.mode \in ImageModes =>
            [image[wanted.mode] EXCEPT !.open = TRUE, !.stop = FALSE, !.thread = "running",
                                       !.file = session] \in ImageWriters
      BY <3>1, ImageType
    <3> QED
      BY <1>3, <3>2 DEF OpenImage
  <2>2. pc' \in [Threads -> Steps]
    BY <1>3, GotoType DEF OpenImage, Steps, StartSteps, StopSteps
  <2> QED
    BY <1>3, <2>1, <2>2 DEF OpenImage
<1>4. CASE GoOn("goal")
  <2>1. mode' \in {"none"} \cup ImageModes
    BY <1>4 DEF GoOn, OneAtATime, Wishes, Modes
  <2>2. pc' \in [Threads -> Steps]
    BY <1>4, GotoType DEF GoOn, Steps, StartSteps
  <2> QED
    BY <1>4, <2>1, <2>2 DEF GoOn
<1>5. CASE StartHelpers("goal")
  <2>1. helpers' \subseteq Helpers
    BY <1>5 DEF StartHelpers, Launched, Ready, Wishes
  <2>2. pc' \in [Threads -> Steps]
    BY <1>5, GotoType DEF StartHelpers, Steps
  <2> QED
    BY <1>5, <2>1, <2>2, NothingType DEF StartHelpers
<1>6. CASE BeginStop
  <2>1. pc' \in [Threads -> Steps]
    BY <1>6, GotoType DEF BeginStop, Steps, StopSteps
  <2> QED
    BY <1>6, <2>1 DEF BeginStop
<1>7. CASE Release
  <2>1. pc' \in [Threads -> Steps]
    BY <1>7, GotoType DEF Release, Steps, StopSteps
  <2> QED
    BY <1>7, <2>1 DEF Release
<1> QED
  BY <1>1, <1>2, <1>3, <1>4, <1>5, <1>6, <1>7

LEMMA TypeOfStop ==
  ASSUME Typed, NEW t \in Threads, StopThread(t)
  PROVE  Typed'
<1> USE DEF Typed, flagVars, helperVars
<1>0. pc' \in [Threads -> Steps]
  <2>1. \E step \in Steps : Goto(t, step)
    BY DEF StopThread, TakeOver, FlushCsv, ClearCsv, StopCsv, JoinCsv, FailStart, StopImage,
       JoinImage, CloseImage, StopHelpers, Finish, Steps, StopSteps
  <2> QED
    BY <2>1, GotoType
<1>1. CASE TakeOver(t)
  BY <1>0, <1>1 DEF TakeOver
<1>2. CASE FlushCsv(t)
  <2>1. csv.queue \in Seq(Batches) /\ csv.buffer \in Batches
    BY DEF CsvWriters, Batches
  <2>2. Append(csv.queue, csv.buffer) \in Seq(Batches)
    BY <2>1, AppendElements
  <2>3. csv' \in CsvWriters
    BY <1>2, <2>2, CsvType DEF FlushCsv
  <2> QED
    BY <1>0, <1>2, <2>3 DEF FlushCsv
<1>3. CASE ClearCsv(t) \/ StopCsv(t)
  <2>1. csv' \in CsvWriters
    BY <1>3 DEF ClearCsv, StopCsv, CsvWriters
  <2> QED
    BY <1>0, <1>3, <2>1 DEF ClearCsv, StopCsv
<1>4. CASE JoinCsv(t)
  <2>1. csv' \in CsvWriters
    BY <1>4 DEF JoinCsv, Worker, CsvWriters
  <2> QED
    BY <1>0, <1>4, <2>1, NothingType DEF JoinCsv, FailStart
<1>5. CASE StopImage(t)
  <2>1. \A m \in ImageModes : [image[m] EXCEPT !.stop = TRUE] \in ImageWriters
    BY DEF ImageWriters
  <2>2. image' \in [ImageModes -> ImageWriters]
    BY <1>5, <2>1 DEF StopImage
  <2> QED
    BY <1>0, <1>5, <2>2 DEF StopImage
<1>6. CASE JoinImage(t)
  <2>1. ASSUME NEW m \in ImageModes
        PROVE  [image[m] EXCEPT !.thread = "none", !.open = (m = "rgb"),
                                !.queue = IF m = "rgb" THEN <<>> ELSE @] \in ImageWriters
    <3>1. <<>> \in Seq(Samples) /\ image[m] \in ImageWriters
      OBVIOUS
    <3>2. (IF m = "rgb" THEN <<>> ELSE image[m].queue) \in Seq(Samples)
      BY <3>1 DEF ImageWriters
    <3> QED
      BY <3>1, <3>2 DEF ImageWriters, Worker
  <2>2. image' \in [ImageModes -> ImageWriters]
    BY <1>6, <2>1 DEF JoinImage
  <2> QED
    BY <1>0, <1>6, <2>2 DEF JoinImage
<1>7. CASE CloseImage(t)
  <2>1. image' \in [ImageModes -> ImageWriters]
    BY <1>7 DEF CloseImage, ImageWriters
  <2> QED
    BY <1>0, <1>7, <2>1 DEF CloseImage
<1>8. CASE StopHelpers(t)
  BY <1>0, <1>8 DEF StopHelpers
<1>9. CASE Finish(t)
  BY <1>0, <1>9 DEF Finish
<1> QED
  BY <1>1, <1>2, <1>3, <1>4, <1>5, <1>6, <1>7, <1>8, <1>9 DEF StopThread

LEMMA TypeOfBystanders ==
  ASSUME Typed, SampleThere, Bystanders
  PROVE  Typed'
<1> USE RecordingAssumption DEF Typed, flagVars, helperVars
<1>1. CASE CsvWrite
  <2>1. csv.queue \in Seq(Batches) /\ csv.file \in Sessions
    BY DEF CsvWriters
  <2>2. Head(csv.queue) \in Batches /\ Tail(csv.queue) \in Seq(Batches)
    BY <1>1, <2>1, TailElements DEF CsvWrite
  <2>3. csv' \in CsvWriters /\ disk' \in [Sessions -> SUBSET Samples]
    BY <1>1, <2>1, <2>2 DEF CsvWrite, CsvWriters, Batches
  <2> QED
    BY <1>1, <2>3 DEF CsvWrite
<1>2. CASE CsvExit
  <2>1. csv' \in CsvWriters
    BY <1>2 DEF CsvExit, CsvWriters, Worker
  <2> QED
    BY <1>2, <2>1 DEF CsvExit
<1>3. CASE \E m \in ImageModes : ImageWrite(m)
  <2>1. PICK m \in ImageModes : ImageWrite(m)
    BY <1>3
  <2>2. image[m] \in ImageWriters /\ image[m].queue \in Seq(Samples)
        /\ image[m].file \in Sessions
    BY DEF ImageWriters
  <2>3. Head(image[m].queue) \in Samples /\ Tail(image[m].queue) \in Seq(Samples)
    BY <2>1, <2>2, TailElements DEF ImageWrite
  <2>4. image' \in [ImageModes -> ImageWriters] /\ disk' \in [Sessions -> SUBSET Samples]
    BY <2>1, <2>2, <2>3 DEF ImageWrite, ImageWriters
  <2> QED
    BY <2>1, <2>4 DEF ImageWrite
<1>4. CASE \E m \in ImageModes : ImageExit(m)
  <2>1. image' \in [ImageModes -> ImageWriters]
    <3>1. PICK m \in ImageModes : ImageExit(m)
      BY <1>4
    <3>2. [image[m] EXCEPT !.thread = "ended"] \in ImageWriters
      BY ImageType
    <3> QED
      BY <3>1, <3>2 DEF ImageExit
  <2> QED
    BY <1>4, <2>1 DEF ImageExit
<1>5. CASE ImuData \/ ImageData
  <2>1. NewSample \in Samples /\ used' \in Counts
    BY <1>5 DEF ImuData, ImageData, NewSample, Samples, Counts
  <2>2. data' \in Callbacks
    <3>1. CASE ImuData
      BY <2>1, <3>1, DataType DEF ImuData, DataSteps
    <3>2. CASE ImageData
      BY <2>1, <3>2, DataType DEF ImageData, DataSteps
    <3> QED
      BY <1>5, <3>1, <3>2
  <2> QED
    BY <1>5, <2>1, <2>2 DEF ImuData, ImageData
<1>6. CASE CheckCsv \/ SlamFlag \/ CheckImage
  <2>1. data' \in Callbacks
    <3>1. CASE CheckCsv
      BY <3>1, DataType, CallbackTypes DEF CheckCsv, DataSteps
    <3>2. CASE SlamFlag
      BY <3>2, DataType, CallbackTypes DEF SlamFlag, DataSteps
    <3>3. CASE CheckImage
      BY <3>3, DataType, CallbackTypes DEF CheckImage, DataSteps
    <3> QED
      BY <1>6, <3>1, <3>2, <3>3
  <2> QED
    BY <1>6, <2>1 DEF CheckCsv, SlamFlag, CheckImage
<1>7. CASE PushCsv
  <2>1. data.sample \in Samples
    BY <1>7 DEF PushCsv, SampleThere
  <2>2. csv' \in CsvWriters
    BY <1>7, <2>1 DEF PushCsv, CsvWriters
  <2>3. data' \in Callbacks
    BY <1>7, DataType, CallbackTypes DEF PushCsv, DataSteps
  <2>4. settled' \subseteq Samples
    BY <1>7, <2>1, SettleType DEF PushCsv
  <2> QED
    BY <1>7, <2>2, <2>3, <2>4 DEF PushCsv
<1>8. CASE QueueCsv
  <2>1. csv.queue \in Seq(Batches) /\ csv.buffer \in Batches
    BY DEF CsvWriters, Batches
  <2>2. Append(csv.queue, csv.buffer) \in Seq(Batches)
    BY <2>1, AppendElements
  <2>3. csv' \in CsvWriters
    BY <1>8, <2>2, CsvType DEF QueueCsv
  <2>4. data' \in Callbacks
    BY <1>8, DataType DEF QueueCsv, DataSteps
  <2> QED
    BY <1>8, <2>3, <2>4 DEF QueueCsv
<1>9. CASE EmptyCsv
  <2>1. csv' \in CsvWriters /\ data' \in Callbacks
    BY <1>9, CallbackTypes DEF EmptyCsv, CsvWriters
  <2>2. settled' \subseteq Samples
    BY <1>9, SettleType DEF EmptyCsv, SampleThere
  <2> QED
    BY <1>9, <2>1, <2>2 DEF EmptyCsv
<1>10. CASE PushImage
  <2>1. data.sample \in Samples /\ data.writer \in ImageModes
    BY <1>10 DEF PushImage, SampleThere, Callbacks
  <2>2. image[data.writer] \in ImageWriters /\ image[data.writer].queue \in Seq(Samples)
    BY <2>1 DEF ImageWriters
  <2>3. Append(image[data.writer].queue, data.sample) \in Seq(Samples)
    BY <2>1, <2>2, AppendElements
  <2>4. image' \in [ImageModes -> ImageWriters]
    <3>1. [image[data.writer] EXCEPT !.queue = Append(@, data.sample)] \in ImageWriters
      BY <2>2, <2>3, ImageType
    <3> QED
      BY <1>10, <2>1, <3>1 DEF PushImage
  <2>5. settled' \subseteq Samples /\ data' \in Callbacks
    BY <1>10, <2>1, SettleType, CallbackTypes DEF PushImage
  <2> QED
    BY <1>10, <2>4, <2>5 DEF PushImage
<1>11. CASE DeleteRecord
  <2>1. \A s \in 1..session : s \in Sessions
    BY DEF Sessions
  <2>2. deleted' \subseteq Sessions /\ disk' \in [Sessions -> SUBSET Samples]
    BY <1>11, <2>1 DEF DeleteRecord
  <2>3. used' \in Counts
    BY <1>11 DEF DeleteRecord, Counts
  <2> QED
    BY <1>11, <2>2, <2>3 DEF DeleteRecord
<1>12. CASE Quit
  BY <1>12 DEF Quit
<1> QED
  BY <1>1, <1>2, <1>3, <1>4, <1>5, <1>6, <1>7, <1>8, <1>9, <1>10, <1>11, <1>12
     DEF Bystanders, Writers, Callback

LEMMA TypeStep ==
  ASSUME RecordingInv, Next
  PROVE  Typed'
<1>1. SampleThere
  BY DEF RecordingInv, UnderWay, SampleThere
<1> QED
  BY <1>1, TypeOfStart, TypeOfStop, TypeOfBystanders DEF Next, RecordingInv, Bystanders

---------------------------------------------------------------------------
(* Helpers and writers *)

LEMMA HelpersStep ==
  ASSUME RecordingInv, Next
  PROVE  HelpersHeld'
<1> USE DEF RecordingInv, HelpersHeld
<1>1. CASE BeginStart("goal") \/ OpenCsv("goal") \/ OpenImage("goal") \/ GoOn("goal")
  BY <1>1, StageOfStart DEF BeginStart, OpenCsv, OpenImage, GoOn
<1>2. CASE StartHelpers("goal")
  BY <1>2, StageOfStart DEF StartHelpers
<1>3. CASE BeginStop \/ Release
  BY <1>3, StageOfOthers DEF BeginStop, Release, helperVars
<1>4. CASE Bystanders
  BY <1>4, StageOfOthers, BystandersLeaveControl DEF helperVars
<1>5. ASSUME NEW t \in Threads, TakeOver(t)
      PROVE  HelpersHeld'
  BY <1>5, StageOfStop DEF TakeOver, helperVars
<1>6. ASSUME NEW t \in Threads, FlushCsv(t) \/ ClearCsv(t) \/ StopCsv(t)
      PROVE  HelpersHeld'
  <2>1. Stage' \in {"off", "csv_clear", "csv_stop", "csv_join"} /\ UNCHANGED helperVars
    BY <1>6, StageOfStop DEF FlushCsv, ClearCsv, StopCsv, Goto, Typed
  <2>2. Stage' = "off" => Stage = "off"
    BY <1>6, StageOfStop DEF FlushCsv, ClearCsv, StopCsv, Goto, Typed
  <2>3. Stage # "on"
    BY <1>6, StageOfStop DEF FlushCsv, ClearCsv, StopCsv
  <2> QED
    BY <2>1, <2>2, <2>3 DEF helperVars
<1>7. ASSUME NEW t \in Threads, JoinCsv(t)
      PROVE  HelpersHeld'
  BY <1>7, StageOfStop DEF JoinCsv, FailStart, Goto, Typed, helperVars, OneAtATime
<1>8. ASSUME NEW t \in Threads, StopImage(t) \/ JoinImage(t) \/ CloseImage(t)
      PROVE  HelpersHeld'
  <2>1. /\ Stage \in {"image_stop", "image_join", "image_clear"}
        /\ Stage' \in {"image_join", "image_clear", "helpers_stop"}
        /\ UNCHANGED helperVars
    BY <1>8, StageOfStop DEF StopImage, JoinImage, CloseImage, Goto, Typed
  <2> QED
    BY <2>1 DEF helperVars
<1>9. ASSUME NEW t \in Threads, StopHelpers(t)
      PROVE  HelpersHeld'
  BY <1>9, StageOfStop DEF StopHelpers
<1>10. ASSUME NEW t \in Threads, Finish(t)
       PROVE  HelpersHeld'
  BY <1>10, StageOfStop DEF Finish, helperVars
<1> QED
  BY Actions, <1>1, <1>2, <1>3, <1>4, <1>5, <1>6, <1>7, <1>8, <1>9, <1>10

LEMMA CsvStep ==
  ASSUME RecordingInv, Next
  PROVE  CsvUp'
<1> USE DEF RecordingInv, CsvUp
<1>0. csv \in CsvWriters /\ pc \in [Threads -> Steps] /\ Threads = {"goal", "main"}
  BY DEF Typed, Threads
<1> USE DEF CsvWriters
<1>1. CASE BeginStart("goal")
  BY <1>0, <1>1, StageOfStart DEF BeginStart, Goto
<1>2. CASE OpenCsv("goal")
  BY <1>0, <1>2, StageOfStart DEF OpenCsv, FailStart, Goto
<1>3. CASE OpenImage("goal")
  <2>1. UNCHANGED <<csv, session>> /\ pc["goal"] = "open_image"
    BY <1>3 DEF OpenImage, flagVars
  <2> QED
    BY <2>1, <1>3, StageOfStart
<1>4. CASE GoOn("goal")
  BY <1>0, <1>4, StageOfStart DEF GoOn, Goto
<1>5. CASE StartHelpers("goal")
  BY <1>0, <1>5, StageOfStart DEF StartHelpers, Goto
<1>6. CASE BeginStop \/ Release
  BY <1>0, <1>6, StageOfOthers DEF BeginStop, Release, Goto, flagVars
<1>7. CASE Bystanders
  <2>1. Stage' = Stage /\ UNCHANGED <<pc, session>>
    BY <1>7, StageOfOthers, BystandersLeaveControl DEF flagVars
  <2>2. csv' = csv \/ CsvWrite \/ CsvExit \/ PushCsv \/ QueueCsv \/ EmptyCsv
    BY <1>7 DEF Bystanders, Writers, Callback, ImageWrite, ImageExit, ImuData, ImageData,
       CheckCsv, SlamFlag, CheckImage, PushImage, DeleteRecord, Quit
  <2>3. CASE CsvExit
    BY <1>0, <2>1, <2>3 DEF CsvExit
  <2>4. CASE csv' = csv \/ CsvWrite \/ PushCsv \/ QueueCsv \/ EmptyCsv
    <3>1. UNCHANGED <<csv.open, csv.stop, csv.thread, csv.file>>
      BY <1>0, <2>4 DEF CsvWrite, PushCsv, QueueCsv, EmptyCsv
    <3> QED
      BY <2>1, <3>1
  <2> QED
    BY <2>2, <2>3, <2>4
<1>8. ASSUME NEW t \in Threads, TakeOver(t)
      PROVE  CsvUp'
  BY <1>0, <1>8, StageOfStop DEF TakeOver, Goto
<1>9. ASSUME NEW t \in Threads, FlushCsv(t) \/ ClearCsv(t) \/ StopCsv(t) \/ JoinCsv(t)
      PROVE  CsvUp'
  <2>1. /\ session' = session
        /\ pc'["goal"] \in {"open_image", "go"} => pc["goal"] \in {"open_image", "go"} /\ t = "main"
    BY <1>0, <1>9 DEF FlushCsv, ClearCsv, StopCsv, JoinCsv, FailStart, Goto, flagVars
  <2>2. CASE t = "main" /\ pc["goal"] \in {"open_image", "go"}
    BY <1>0, <1>9, <2>2 DEF OneAtATime, StartSteps, Stopping, CloseSteps, FlushSteps,
       FlushCsv, ClearCsv, StopCsv, JoinCsv
  <2>3. CASE pc'["goal"] \notin {"open_image", "go"}
    <3>1. CASE FlushCsv(t) \/ ClearCsv(t)
      <4>1. UNCHANGED <<csv.open, csv.stop, csv.thread, csv.file>>
        BY <1>0, <3>1 DEF FlushCsv, ClearCsv
      <4>2. Stage' \in {"on", "csv_flush", "csv_clear", "csv_stop"} =>
              Stage \in {"on", "csv_flush", "csv_clear", "csv_stop"}
        BY <3>1, StageOfStop DEF FlushCsv, ClearCsv
      <4> QED
        BY <2>1, <2>3, <4>1, <4>2
    <3>2. CASE StopCsv(t) \/ JoinCsv(t)
      <4>1. Stage' \in {"off", "csv_join", "image_stop"}
        BY <1>0, <3>2, StageOfStop DEF StopCsv, JoinCsv, FailStart, Goto
      <4> QED
        BY <2>3, <4>1
    <3> QED
      BY <1>9, <3>1, <3>2
  <2> QED
    BY <2>1, <2>2, <2>3
<1>10. ASSUME NEW t \in Threads,
              StopImage(t) \/ JoinImage(t) \/ CloseImage(t) \/ StopHelpers(t) \/ Finish(t)
       PROVE  CsvUp'
  <2>1. Stage' \in {"off", "image_join", "image_clear", "helpers_stop", "finish"}
    BY <1>0, <1>10, StageOfStop
       DEF StopImage, JoinImage, CloseImage, StopHelpers, Finish, Goto
  <2>2. /\ UNCHANGED <<csv, session>>
        /\ pc'["goal"] \in {"open_image", "go"} => pc["goal"] \in {"open_image", "go"}
    BY <1>0, <1>10 DEF StopImage, JoinImage, CloseImage, StopHelpers, Finish, Goto, flagVars
  <2> QED
    BY <2>1, <2>2
<1> QED
  BY Actions, <1>1, <1>2, <1>3, <1>4, <1>5, <1>6, <1>7, <1>8, <1>9, <1>10

LEMMA ImagesStep ==
  ASSUME RecordingInv, Next
  PROVE  ImagesUp'
<1> USE DEF RecordingInv, ImagesUp, ImageUp
<1>0. /\ image \in [ImageModes -> ImageWriters] /\ pc \in [Threads -> Steps]
      /\ Threads = {"goal", "main"} /\ ImageModes = {"slam", "rgb"}
  BY DEF Typed, Threads, ImageModes
<1> USE DEF ImageWriters
<1>1. CASE BeginStart("goal")
  BY <1>0, <1>1, StageOfStart DEF BeginStart, Goto
<1>2. CASE OpenCsv("goal")
  BY <1>0, <1>2, StageOfStart DEF OpenCsv, FailStart, Goto
<1>3. CASE OpenImage("goal")
  <2>1. /\ Stage = "off" /\ Stage' = "off" /\ pc["goal"] = "open_image"
        /\ UNCHANGED <<mode, wanted, session>>
    BY <1>3, StageOfStart DEF OpenImage, flagVars
  <2>2. \A m \in ImageModes : ~image[m].open
    BY <2>1
  <2>3. CASE image' = image
    BY <2>1, <2>2, <2>3
  <2>4. CASE /\ wanted.mode \in ImageModes /\ Goto("goal", "go")
             /\ image' = [image EXCEPT ![wanted.mode] =
                  [@ EXCEPT !.open = TRUE, !.stop = FALSE, !.thread = "running",
                            !.file = session]]
    <3>1. pc'["goal"] = "go"
      BY <1>0, <2>4 DEF Goto
    <3>2. ASSUME NEW m \in ImageModes, m # wanted.mode
          PROVE  image'[m] = image[m]
      BY <1>0, <2>4, <3>2
    <3>3. ImageUp(wanted.mode)'
      BY <1>0, <2>1, <2>4
    <3>4. image'[wanted.mode].open
      BY <1>0, <2>1, <2>4
    <3> QED
      BY <2>1, <2>2, <3>1, <3>2, <3>3, <3>4
  <2> QED
    BY <1>3, <2>3, <2>4 DEF OpenImage
<1>4. CASE GoOn("goal")
  BY <1>0, <1>4, StageOfStart DEF GoOn, Goto
<1>5. CASE StartHelpers("goal")
  BY <1>0, <1>5, StageOfStart DEF StartHelpers, Goto
<1>6. CASE BeginStop \/ Release
  BY <1>0, <1>6, StageOfOthers DEF BeginStop, Release, Goto, flagVars
<1>7. CASE Bystanders
  <2>1. Stage' = Stage /\ UNCHANGED <<pc, session, mode, wanted>>
    BY <1>7, StageOfOthers, BystandersLeaveControl DEF flagVars
  <2>2. \/ image' = image \/ PushImage
        \/ \E m \in ImageModes : ImageWrite(m) \/ ImageExit(m)
    BY <1>7 DEF Bystanders, Writers, Callback, CsvWrite, CsvExit, ImuData, ImageData,
       CheckCsv, PushCsv, QueueCsv, EmptyCsv, SlamFlag, CheckImage, DeleteRecord, Quit
  <2>3. CASE \E m \in ImageModes : ImageExit(m)
    BY <1>0, <2>1, <2>3 DEF ImageExit
  <2>4. CASE image' = image \/ PushImage \/ \E m \in ImageModes : ImageWrite(m)
    <3>1. \A m \in ImageModes :
            UNCHANGED <<image[m].open, image[m].stop, image[m].thread, image[m].file>>
      BY <1>0, <2>4 DEF PushImage, ImageWrite
    <3> QED
      BY <2>1, <3>1
  <2> QED
    BY <2>2, <2>3, <2>4
<1>8. ASSUME NEW t \in Threads, TakeOver(t)
      PROVE  ImagesUp'
  <2>1. /\ UNCHANGED <<image, session, mode, wanted>>
        /\ pc["goal"] = "go" => pc'["goal"] = "go"
    BY <1>0, <1>8 DEF TakeOver, Goto
  <2>2. Stage' = Stage \/ Stage' = "csv_flush"
    BY <1>8, StageOfStop
  <2> QED
    BY <2>1, <2>2
<1>9. ASSUME NEW t \in Threads, FlushCsv(t) \/ ClearCsv(t) \/ StopCsv(t) \/ JoinCsv(t)
      PROVE  ImagesUp'
  <2>1. /\ UNCHANGED <<image, session, mode>> /\ pc[t] \in FlushSteps
        /\ pc'[t] \in FlushSteps \cup {"idle", "image_stop"}
    BY <1>0, <1>9 DEF FlushCsv, ClearCsv, StopCsv, JoinCsv, FailStart, Goto, flagVars, FlushSteps
  <2>2. CASE stateLock = t
    <3>1. Stage = "off" /\ Stage' = "off" /\ t = "goal"
      BY <1>0, <1>9, <2>2, StageOfStop DEF OneAtATime
    <3>2. \A m \in ImageModes : ~image[m].open
      BY <2>1, <3>1 DEF FlushSteps
    <3> QED
      BY <2>1, <3>1, <3>2
  <2>3. CASE stateLock # t
    <3>1. Stage' \in FlushSteps \cup {"idle", "image_stop"} /\ Stage' = pc'[t]
      BY <1>9, <2>1, <2>3, StageOfStop
    <3>2. pc'[t] # "idle"
      BY <1>0, <1>9, <2>3 DEF FlushCsv, ClearCsv, StopCsv, JoinCsv, Goto
    <3> QED
      BY <2>1, <3>1, <3>2 DEF FlushSteps
  <2> QED
    BY <2>2, <2>3
<1>10. ASSUME NEW t \in Threads, StopImage(t)
       PROVE  ImagesUp'
  <2>1. Stage = "image_stop" /\ Stage' = "image_join"
    BY <1>0, <1>10, StageOfStop DEF StopImage, Goto
  <2>2. \A m \in ImageModes : UNCHANGED <<image[m].open, image[m].thread>>
    BY <1>0, <1>10 DEF StopImage
  <2> QED
    BY <2>1, <2>2
<1>11. ASSUME NEW t \in Threads, JoinImage(t)
       PROVE  ImagesUp'
  <2>1. Stage' = "image_clear"
    BY <1>0, <1>11, StageOfStop DEF JoinImage, Goto
  <2>2. ASSUME NEW m \in ImageModes
        PROVE  /\ image'[m].thread = "running" => image'[m].open
               /\ image'[m].open => m = "rgb" /\ image'[m].thread # "running"
    <3>1. CASE m \in OpenImages
      <4>1. image'[m] = [image[m] EXCEPT !.thread = "none", !.open = (m = "rgb"),
                                         !.queue = IF m = "rgb" THEN <<>> ELSE @]
        BY <1>11, <3>1 DEF JoinImage
      <4>2. image[m] \in ImageWriters
        BY <1>0
      <4>3. image'[m].thread = "none" /\ image'[m].open = (m = "rgb")
        BY <4>1, <4>2
      <4> QED
        BY <4>3
    <3>2. CASE m \notin OpenImages
      BY <1>11, <3>2 DEF JoinImage, OpenImages
    <3> QED
      BY <3>1, <3>2
  <2> QED
    BY <2>1, <2>2
<1>12. ASSUME NEW t \in Threads, CloseImage(t)
       PROVE  ImagesUp'
  <2>1. Stage = "image_clear" /\ Stage' = "helpers_stop"
    BY <1>0, <1>12, StageOfStop DEF CloseImage, Goto
  <2>2. \A m \in ImageModes : ~image'[m].open /\ UNCHANGED image[m].thread
    BY <1>0, <1>12, <2>1 DEF CloseImage
  <2>3. \A m \in ImageModes : image[m].thread # "running"
    BY <2>1
  <2> QED
    BY <2>1, <2>2, <2>3
<1>13. ASSUME NEW t \in Threads, StopHelpers(t) \/ Finish(t)
       PROVE  ImagesUp'
  <2>1. Stage \in {"helpers_stop", "finish"} /\ image' = image
    BY <1>13, StageOfStop DEF StopHelpers, Finish
  <2>2. \A m \in ImageModes : ~image[m].open
    BY <2>1
  <2> QED
    BY <2>1, <2>2
<1> QED
  BY Actions, <1>1, <1>2, <1>3, <1>4, <1>5, <1>6, <1>7, <1>8, <1>9, <1>10, <1>11, <1>12, <1>13

---------------------------------------------------------------------------
(* Samples *)

LEMMA QueueTypes ==
  ASSUME Typed
  PROVE  /\ csv.queue \in Seq(Batches) /\ csv.buffer \in Batches
         /\ \A m \in ImageModes : image[m].queue \in Seq(Samples)
  BY DEF Typed, CsvWriters, ImageWriters, Batches

\* What the CSV writer's steps do with its buffer, its queue and the folders.
LEMMA CsvContents ==
  ASSUME Typed
  PROVE  /\ csv' = [csv EXCEPT !.queue = Append(@, csv.buffer)] =>
              /\ Queued' = Queued \cup csv.buffer /\ csv'.buffer = csv.buffer
              /\ csv'.file = csv.file /\ csv'.thread = csv.thread
         /\ csv' = [csv EXCEPT !.queue = Tail(@)] /\ csv.queue # <<>> =>
              /\ Queued = Queued' \cup Head(csv.queue) /\ csv'.buffer = csv.buffer
              /\ csv'.file = csv.file /\ csv'.thread = csv.thread
<1>1. csv.queue \in Seq(Batches) /\ csv.buffer \in Batches
  BY QueueTypes
<1>2. ASSUME csv' = [csv EXCEPT !.queue = Append(@, csv.buffer)]
      PROVE  /\ Queued' = Queued \cup csv.buffer /\ csv'.buffer = csv.buffer
             /\ csv'.file = csv.file /\ csv'.thread = csv.thread
  <2>1. /\ csv'.queue = Append(csv.queue, csv.buffer) /\ csv'.buffer = csv.buffer
        /\ csv'.file = csv.file /\ csv'.thread = csv.thread
    BY <1>2 DEF Typed, CsvWriters
  <2>2. Elements(csv'.queue) = Elements(csv.queue) \cup {csv.buffer}
    BY <1>1, <2>1, AppendElements
  <2> QED
    BY <2>1, <2>2 DEF Queued
<1>3. ASSUME csv' = [csv EXCEPT !.queue = Tail(@)], csv.queue # <<>>
      PROVE  /\ Queued = Queued' \cup Head(csv.queue) /\ csv'.buffer = csv.buffer
             /\ csv'.file = csv.file /\ csv'.thread = csv.thread
  <2>1. /\ csv'.queue = Tail(csv.queue) /\ csv'.buffer = csv.buffer
        /\ csv'.file = csv.file /\ csv'.thread = csv.thread
    BY <1>3 DEF Typed, CsvWriters
  <2>2. Elements(csv.queue) = {Head(csv.queue)} \cup Elements(csv'.queue)
    BY <1>1, <1>3, <2>1, TailElements
  <2> QED
    BY <2>1, <2>2 DEF Queued
<1> QED
  BY <1>2, <1>3

LEMMA ImageContents ==
  ASSUME Typed, NEW m \in ImageModes
  PROVE  /\ data.sample \in Samples /\ image' = [image EXCEPT ![m].queue = Append(@, data.sample)]
              => /\ Pushed(m)' = Pushed(m) \cup {data.sample}
                 /\ \A n \in ImageModes \ {m} : image'[n] = image[n]
                 /\ \A n \in ImageModes :
                      UNCHANGED <<image[n].open, image[n].file, image[n].thread>>
         /\ image' = [image EXCEPT ![m].queue = Tail(@)] /\ image[m].queue # <<>>
              => /\ Pushed(m) = Pushed(m)' \cup {Head(image[m].queue)}
                 /\ \A n \in ImageModes \ {m} : image'[n] = image[n]
                 /\ \A n \in ImageModes :
                      UNCHANGED <<image[n].open, image[n].file, image[n].thread>>
<1>0. image[m].queue \in Seq(Samples)
  BY QueueTypes
<1>1. ASSUME data.sample \in Samples, image' = [image EXCEPT ![m].queue = Append(@, data.sample)]
      PROVE  /\ Pushed(m)' = Pushed(m) \cup {data.sample}
             /\ \A n \in ImageModes \ {m} : image'[n] = image[n]
             /\ \A n \in ImageModes :
                  UNCHANGED <<image[n].open, image[n].file, image[n].thread>>
  <2>1. /\ image'[m].queue = Append(image[m].queue, data.sample)
        /\ \A n \in ImageModes \ {m} : image'[n] = image[n]
        /\ \A n \in ImageModes : UNCHANGED <<image[n].open, image[n].file, image[n].thread>>
    BY <1>1 DEF Typed, ImageWriters
  <2>2. Elements(image'[m].queue) = Elements(image[m].queue) \cup {data.sample}
    BY <1>0, <1>1, <2>1, AppendElements
  <2> QED
    BY <2>1, <2>2 DEF Pushed
<1>2. ASSUME image' = [image EXCEPT ![m].queue = Tail(@)], image[m].queue # <<>>
      PROVE  /\ Pushed(m) = Pushed(m)' \cup {Head(image[m].queue)}
             /\ \A n \in ImageModes \ {m} : image'[n] = image[n]
             /\ \A n \in ImageModes :
                  UNCHANGED <<image[n].open, image[n].file, image[n].thread>>
  <2>1. /\ image'[m].queue = Tail(image[m].queue)
        /\ \A n \in ImageModes \ {m} : image'[n] = image[n]
        /\ \A n \in ImageModes : UNCHANGED <<image[n].open, image[n].file, image[n].thread>>
    BY <1>2 DEF Typed, ImageWriters
  <2>2. Elements(image[m].queue) = {Head(image[m].queue)} \cup Elements(image'[m].queue)
    BY <1>0, <1>2, <2>1, TailElements
  <2> QED
    BY <2>1, <2>2 DEF Pushed
<1> QED
  BY <1>1, <1>2

\* Where samples go: nothing new comes up outside the callbacks.
Moved ==
  /\ used'.samples = used.samples
  /\ \A x \in settled' : x \in settled \/ (data.pc # "idle" /\ x = data.sample)
  /\ \A x \in csv'.buffer : x \in csv.buffer \/ (data.pc # "idle" /\ x = data.sample)
  /\ Queued' \subseteq Queued \cup csv.buffer
  /\ \A m \in ImageModes : \A x \in Pushed(m)' :
       x \in Pushed(m) \/ (data.pc # "idle" /\ x = data.sample)
  /\ \A s \in Sessions : \A x \in disk'[s] :
       x \in disk[s] \/ x \in Queued \/ \E m \in ImageModes : x \in Pushed(m)
  /\ data'.pc # "idle" => data.pc # "idle" /\ data'.sample = data.sample

LEMMA MovedStep ==
  ASSUME Numbered, Moved
  PROVE  Numbered'
  BY DEF Numbered, Moved, Old

LEMMA CommandsMove ==
  ASSUME Typed,
         \/ BeginStart("goal") \/ OpenCsv("goal") \/ OpenImage("goal") \/ GoOn("goal")
         \/ StartHelpers("goal") \/ BeginStop \/ Release
         \/ \E t \in Threads : StopThread(t)
  PROVE  /\ Moved /\ UNCHANGED <<settled, disk, deleted, data, used>>
         /\ csv'.buffer \in {csv.buffer, {}}
         /\ Queued \subseteq Queued'
<1>0. /\ csv \in CsvWriters /\ image \in [ImageModes -> ImageWriters]
      /\ \A m \in ImageModes : image[m] \in ImageWriters
  BY DEF Typed
<1>1. UNCHANGED <<settled, disk, deleted, data, used>>
  BY DEF BeginStart, OpenCsv, OpenImage, GoOn, StartHelpers, BeginStop, Release, StopThread,
     TakeOver, FlushCsv, ClearCsv, StopCsv, JoinCsv, StopImage, JoinImage, CloseImage,
     StopHelpers, Finish
<1>2. /\ csv'.buffer \in {csv.buffer, {}}
      /\ Queued' \in {Queued, Queued \cup csv.buffer}
  <2>1. \/ csv'.buffer = csv.buffer /\ csv'.queue = csv.queue
        \/ csv'.buffer = {} /\ csv'.queue = csv.queue
        \/ csv' = [csv EXCEPT !.queue = Append(@, csv.buffer)]
    <3>1. CASE BeginStart("goal") \/ OpenImage("goal") \/ GoOn("goal")
               \/ StartHelpers("goal") \/ BeginStop \/ Release
      BY <3>1 DEF BeginStart, OpenImage, GoOn, StartHelpers, BeginStop, Release
    <3>2. CASE OpenCsv("goal")
      BY <1>0, <3>2 DEF OpenCsv, CsvWriters
    <3>3. ASSUME NEW t \in Threads, FlushCsv(t)
          PROVE  csv' = csv \/ csv' = [csv EXCEPT !.queue = Append(@, csv.buffer)]
      BY <3>3 DEF FlushCsv
    <3>4. ASSUME NEW t \in Threads, ClearCsv(t) \/ StopCsv(t) \/ JoinCsv(t)
          PROVE  csv'.buffer \in {csv.buffer, {}} /\ csv'.queue = csv.queue
      BY <1>0, <3>4 DEF ClearCsv, StopCsv, JoinCsv, CsvWriters
    <3>5. ASSUME NEW t \in Threads,
                 TakeOver(t) \/ StopImage(t) \/ JoinImage(t) \/ CloseImage(t)
                   \/ StopHelpers(t) \/ Finish(t)
          PROVE  csv' = csv
      BY <3>5 DEF TakeOver, StopImage, JoinImage, CloseImage, StopHelpers, Finish
    <3> QED
      BY <3>1, <3>2, <3>3, <3>4, <3>5 DEF StopThread
  <2> QED
    BY <2>1, CsvContents DEF Queued
<1>3. \A m \in ImageModes : Pushed(m)' \subseteq Pushed(m)
  <2>1. ASSUME NEW m \in ImageModes
        PROVE  image'[m].queue \in {image[m].queue, <<>>}
    <3>1. CASE OpenImage("goal")
      <4>1. CASE image' = image
        BY <4>1
      <4>2. CASE image' = [image EXCEPT ![wanted.mode] =
                   [@ EXCEPT !.open = TRUE, !.stop = FALSE, !.thread = "running",
                             !.file = session]]
        <5>1. CASE m = wanted.mode
          BY <1>0, <4>2, <5>1 DEF ImageWriters
        <5>2. CASE m # wanted.mode
          BY <1>0, <4>2, <5>2
        <5> QED
          BY <5>1, <5>2
      <4> QED
        BY <3>1, <4>1, <4>2 DEF OpenImage
    <3>2. ASSUME NEW t \in Threads, StopImage(t)
          PROVE  image'[m].queue = image[m].queue
      BY <1>0, <3>2 DEF StopImage, ImageWriters
    <3>3. ASSUME NEW t \in Threads, CloseImage(t)
          PROVE  image'[m].queue = image[m].queue
      BY <1>0, <3>3 DEF CloseImage, ImageWriters
    <3>4. ASSUME NEW t \in Threads, JoinImage(t)
          PROVE  image'[m].queue \in {image[m].queue, <<>>}
      <4>1. CASE m \in OpenImages
        <5>1. image'[m] = [image[m] EXCEPT !.thread = "none", !.open = (m = "rgb"),
                                           !.queue = IF m = "rgb" THEN <<>> ELSE @]
          BY <3>4, <4>1 DEF JoinImage
        <5>2. image'[m].queue = IF m = "rgb" THEN <<>> ELSE image[m].queue
          BY <1>0, <5>1 DEF ImageWriters
        <5> QED
          BY <5>2
      <4>2. CASE m \notin OpenImages
        BY <3>4, <4>2 DEF JoinImage
      <4> QED
        BY <4>1, <4>2
    <3>5. CASE BeginStart("goal") \/ OpenCsv("goal") \/ GoOn("goal")
               \/ StartHelpers("goal") \/ BeginStop \/ Release
      BY <3>5 DEF BeginStart, OpenCsv, GoOn, StartHelpers, BeginStop, Release
    <3>6. ASSUME NEW t \in Threads,
                 TakeOver(t) \/ FlushCsv(t) \/ ClearCsv(t) \/ StopCsv(t) \/ JoinCsv(t)
                   \/ StopHelpers(t) \/ Finish(t)
          PROVE  image' = image
      BY <3>6 DEF TakeOver, FlushCsv, ClearCsv, StopCsv, JoinCsv, StopHelpers, Finish
    <3> QED
      BY <3>1, <3>2, <3>3, <3>4, <3>5, <3>6 DEF StopThread
  <2> QED
    BY <2>1, EmptyElements DEF Pushed
<1> QED
  BY <1>1, <1>2, <1>3 DEF Moved

LEMMA ToRgbSample ==
  ASSUME data \in Callbacks
  PROVE  /\ Idle.pc = "idle"
         /\ ToRgb.pc \in {"idle", "image_check"}
         /\ ToRgb.pc # "idle" => /\ ToRgb.sample = data.sample /\ ToRgb.rgb = data.rgb
                                /\ data.rgb /\ data.writer = "slam"
  BY DEF Callbacks, ToRgb, Idle

\* Which writer's contents an action of the bystanders touches.
LEMMA BystandersMove ==
  ASSUME Typed, SampleThere, Bystanders, ~(ImuData \/ ImageData)
  PROVE  Moved
<1>0. /\ csv \in CsvWriters /\ image \in [ImageModes -> ImageWriters]
      /\ \A m \in ImageModes : image[m] \in ImageWriters
      /\ data \in Callbacks /\ disk \in [Sessions -> SUBSET Samples]
  BY DEF Typed
<1>1. CASE CsvWrite
  <2>1. /\ csv' = [csv EXCEPT !.queue = Tail(@)] /\ csv.queue # <<>>
        /\ UNCHANGED <<used, settled, image, data>>
    BY <1>1 DEF CsvWrite
  <2>2. Queued = Queued' \cup Head(csv.queue) /\ csv'.buffer = csv.buffer
    BY <2>1, CsvContents
  <2>3. \A s \in Sessions : \A x \in disk'[s] : x \in disk[s] \/ x \in Head(csv.queue)
    BY <1>0, <1>1 DEF CsvWrite
  <2> QED
    BY <2>1, <2>2, <2>3 DEF Moved, Pushed
<1>2. CASE CsvExit
  BY <1>0, <1>2 DEF CsvExit, Moved, Pushed, Queued, CsvWriters
<1>3. ASSUME NEW m \in ImageModes, ImageWrite(m)
      PROVE  Moved
  <2>1. /\ image' = [image EXCEPT ![m].queue = Tail(@)] /\ image[m].queue # <<>>
        /\ UNCHANGED <<used, settled, csv, data>>
    BY <1>3 DEF ImageWrite
  <2>2. /\ Pushed(m) = Pushed(m)' \cup {Head(image[m].queue)}
        /\ \A n \in ImageModes \ {m} : image'[n] = image[n]
    BY <2>1, ImageContents
  <2>3. \A s \in Sessions : \A x \in disk'[s] : x \in disk[s] \/ x = Head(image[m].queue)
    BY <1>0, <1>3 DEF ImageWrite
  <2>4. \A n \in ImageModes : Pushed(n)' \subseteq Pushed(n)
    BY <2>2 DEF Pushed
  <2> QED
    BY <2>1, <2>2, <2>3, <2>4 DEF Moved, Queued
<1>4. ASSUME NEW m \in ImageModes, ImageExit(m)
      PROVE  Moved
  <2>1. \A n \in ImageModes : image'[n].queue = image[n].queue
    BY <1>0, <1>4 DEF ImageExit, ImageWriters
  <2>2. UNCHANGED <<used, settled, csv, data, disk>>
    BY <1>4 DEF ImageExit
  <2> QED
    BY <2>1, <2>2 DEF Moved, Queued, Pushed
<1>5. CASE CheckCsv \/ SlamFlag \/ CheckImage
  <2>1. UNCHANGED <<used, settled, csv, image, disk>> /\ data.pc # "idle"
    BY <1>5 DEF CheckCsv, SlamFlag, CheckImage
  <2>2. data'.pc # "idle" => data'.sample = data.sample
    BY <1>0, <1>5, ToRgbSample DEF CheckCsv, SlamFlag, CheckImage, Callbacks
  <2> QED
    BY <2>1, <2>2 DEF Moved, Queued, Pushed
<1>6. CASE PushCsv
  <2>1. /\ UNCHANGED <<used, image, disk>> /\ data.pc # "idle"
        /\ csv'.buffer = csv.buffer \cup {data.sample} /\ csv'.queue = csv.queue
        /\ settled' \subseteq settled \cup {data.sample}
    BY <1>0, <1>6 DEF PushCsv, CsvWriters, Settle
  <2>2. data'.pc # "idle" => data'.sample = data.sample
    BY <1>0, <1>6, ToRgbSample DEF PushCsv, Callbacks
  <2> QED
    BY <2>1, <2>2 DEF Moved, Queued, Pushed
<1>7. CASE QueueCsv
  <2>1. /\ UNCHANGED <<used, settled, image, disk>> /\ data.pc # "idle"
        /\ csv' = [csv EXCEPT !.queue = Append(@, csv.buffer)]
        /\ data'.sample = data.sample
    BY <1>0, <1>7 DEF QueueCsv, Callbacks
  <2> QED
    BY <2>1, CsvContents DEF Moved, Pushed
<1>8. CASE EmptyCsv
  <2>1. /\ UNCHANGED <<used, image, disk>> /\ data.pc # "idle"
        /\ csv'.buffer = {} /\ csv'.queue = csv.queue
        /\ settled' \subseteq settled \cup {data.sample}
    BY <1>0, <1>8 DEF EmptyCsv, CsvWriters, Settle
  <2>2. data'.pc = "idle"
    BY <1>0, <1>8, ToRgbSample DEF EmptyCsv
  <2> QED
    BY <2>1, <2>2 DEF Moved, Queued, Pushed
<1>9. CASE PushImage
  <2>1. /\ UNCHANGED <<used, csv, disk>> /\ data.pc # "idle"
        /\ settled' \subseteq settled \cup {data.sample}
    BY <1>9 DEF PushImage, Settle
  <2>2. data'.pc # "idle" => data'.sample = data.sample
    BY <1>0, <1>9, ToRgbSample DEF PushImage
  <2>3. data.writer \in ImageModes /\ data.sample \in Samples
    BY <1>0, <2>1 DEF Callbacks, SampleThere
  <2>4. \A m \in ImageModes : Pushed(m)' \subseteq Pushed(m) \cup {data.sample}
    <3>1. CASE image' = image
      BY <3>1 DEF Pushed
    <3>2. CASE image' = [image EXCEPT ![data.writer].queue = Append(@, data.sample)]
      <4>0. PICK w \in ImageModes : w = data.writer
        BY <2>3
      <4>1. /\ Pushed(w)' = Pushed(w) \cup {data.sample}
            /\ \A n \in ImageModes \ {w} : image'[n] = image[n]
        BY <2>3, <3>2, <4>0, ImageContents
      <4>2. \A n \in ImageModes \ {w} : Pushed(n)' = Pushed(n)
        BY <4>1 DEF Pushed
      <4> QED
        BY <4>1, <4>2
    <3> QED
      BY <1>9, <3>1, <3>2 DEF PushImage
  <2> QED
    BY <2>1, <2>2, <2>4 DEF Moved, Queued
<1>10. CASE DeleteRecord
  <2>1. /\ used'.samples = used.samples /\ UNCHANGED <<settled, csv, image, data>>
        /\ \A s \in Sessions : disk'[s] \subseteq disk[s]
    BY <1>0, <1>10 DEF DeleteRecord, Typed, Counts
  <2> QED
    BY <2>1 DEF Moved, Queued, Pushed
<1>11. CASE Quit
  BY <1>11 DEF Quit, Moved, Queued, Pushed
<1> QED
  BY <1>1, <1>2, <1>3, <1>4, <1>5, <1>6, <1>7, <1>8, <1>9, <1>10, <1>11
     DEF Bystanders, Writers, Callback

LEMMA NumberedStep ==
  ASSUME RecordingInv, Next
  PROVE  Numbered'
<1>1. CASE ImuData \/ ImageData
  <2>1. /\ UNCHANGED <<csv, image, disk, settled>>
        /\ used'.samples = used.samples + 1 /\ data'.sample = NewSample
    BY <1>1 DEF ImuData, ImageData, RecordingInv, Typed, Counts, Callbacks
  <2>2. used.samples \in Nat
    BY DEF RecordingInv, Typed, Counts
  <2>3. ASSUME NEW x \in Samples, Old(x)
        PROVE  x.id <= used'.samples
    BY <2>1, <2>2, <2>3 DEF Old, Samples
  <2>4. /\ settled \cup csv.buffer \cup Queued \subseteq Samples
        /\ \A m \in ImageModes : Pushed(m) \subseteq Samples
        /\ \A s \in Sessions : disk[s] \subseteq Samples
    <3>1. Queued \subseteq Samples
      BY QueueTypes DEF Queued, Elements, Batches, RecordingInv
    <3>2. \A m \in ImageModes : Pushed(m) \subseteq Samples
      BY QueueTypes DEF Pushed, Elements, RecordingInv
    <3> QED
      BY <3>1, <3>2, QueueTypes DEF RecordingInv, Typed, Batches
  <2>5. NewSample.id <= used'.samples
    BY <2>1, <2>2 DEF NewSample
  <2> QED
    BY <2>1, <2>3, <2>4, <2>5 DEF RecordingInv, Numbered, Queued, Pushed, Old
<1>2. CASE Bystanders /\ ~(ImuData \/ ImageData)
  BY <1>2, BystandersMove, MovedStep DEF RecordingInv, UnderWay, SampleThere
<1>3. CASE ~Bystanders
  BY <1>3, CommandsMove, MovedStep DEF RecordingInv, Next, Bystanders
<1> QED
  BY <1>1, <1>2, <1>3

---------------------------------------------------------------------------
(* Settled samples *)

Arrived(x) ==
  Kept(x) /\ x \notin csv.buffer /\ x \notin Queued /\ \A m \in ImageModes : x \notin Pushed(m)

LEMMA AllArrived ==
  ASSUME OnItsWay, NEW x \in settled, Stage \in {"off", "image_clear", "helpers_stop", "finish"}
  PROVE  Arrived(x)
  BY DEF OnItsWay, Placed, Arrived, FlushSteps

\* What has arrived stays where it is.
LEMMA ArrivedStays ==
  ASSUME Typed, OnItsWay, NEW x \in settled, Arrived(x), Moved, session <= session',
         session' \in Sessions, Kept(x)', data.pc # "idle" => data.sample # x,
         \A s \in Sessions : disk'[s] \subseteq disk[s]
  PROVE  Placed(x)'
<1>1. x \notin csv'.buffer /\ x \notin Queued' /\ \A m \in ImageModes : x \notin Pushed(m)'
  BY DEF Arrived, Moved
<1>2. x.session <= session'
  BY DEF OnItsWay, Placed, Typed, Samples, Sessions
<1>3. \A s \in Sessions \ {x.session} : x \notin disk'[s]
  BY DEF OnItsWay, Placed
<1> QED
  BY <1>1, <1>2, <1>3 DEF Placed

\* A step that leaves the contents, the folders and the writers' threads alone.
LEMMA Untouched ==
  ASSUME OnItsWay, NEW x \in settled,
         UNCHANGED <<session, disk, deleted>>,
         UNCHANGED <<csv.buffer, csv.queue, csv.file, csv.thread>>,
         \A m \in ImageModes :
           UNCHANGED <<image[m].queue, image[m].file, image[m].thread>>,
         \/ Stage' = Stage
         \/ Stage = "on" /\ Stage' = "csv_flush"
         \/ Stage = "csv_stop" /\ Stage' = "csv_join"
         \/ Stage = "image_stop" /\ Stage' = "image_join",
         data'.pc = "csv_clear" => data.pc = "csv_clear"
  PROVE  Placed(x)'
<1>1. Queued' = Queued /\ \A m \in ImageModes : Pushed(m)' = Pushed(m)
  BY DEF Queued, Pushed
<1> QED
  BY <1>1 DEF OnItsWay, Placed, Kept, FlushSteps

LEMMA PlacedByStart ==
  ASSUME RecordingInv, Typed', NEW x \in settled,
         \/ BeginStart("goal") \/ OpenCsv("goal") \/ OpenImage("goal") \/ GoOn("goal")
         \/ StartHelpers("goal") \/ BeginStop \/ Release
  PROVE  Placed(x)'
<1>1. CASE BeginStart("goal") \/ OpenCsv("goal") \/ OpenImage("goal") \/ GoOn("goal")
  <2>1. Stage = "off"
    BY <1>1, StageOfStart DEF RecordingInv
  <2>2. Arrived(x)
    BY <2>1, AllArrived DEF RecordingInv
  <2>3. Moved /\ UNCHANGED <<settled, disk, deleted, data>>
    BY <1>1, CommandsMove DEF RecordingInv
  <2>4. session <= session'
    BY <1>1 DEF BeginStart, OpenCsv, OpenImage, GoOn, flagVars, RecordingInv, Typed, Sessions
  <2>5. Kept(x)' /\ (data.pc # "idle" => data.sample # x)
    BY <2>2, <2>3 DEF Arrived, Kept, RecordingInv, UnderWay
  <2> QED
    BY <2>2, <2>3, <2>4, <2>5, ArrivedStays DEF RecordingInv, Typed
<1>2. CASE StartHelpers("goal") \/ BeginStop \/ Release
  <2>1. Stage' = Stage
    BY <1>2, StageOfStart, StageOfOthers DEF RecordingInv
  <2>2. UNCHANGED <<session, disk, deleted, csv, image, data>>
    BY <1>2 DEF StartHelpers, BeginStop, Release, flagVars
  <2> QED
    BY <2>1, <2>2, Untouched DEF RecordingInv
<1> QED
  BY <1>1, <1>2

LEMMA PlacedByStop ==
  ASSUME RecordingInv, Typed', NEW x \in settled, NEW t \in Threads, StopThread(t)
  PROVE  Placed(x)'
<1>0. /\ Moved /\ UNCHANGED <<session, settled, disk, deleted, data>>
      /\ Typed /\ OnItsWay /\ pc[t] \in Steps
  <2>1. session' = session
    BY DEF StopThread, TakeOver, FlushCsv, ClearCsv, StopCsv, JoinCsv, StopImage, JoinImage,
       CloseImage, StopHelpers, Finish, flagVars
  <2> QED
    BY <2>1, CommandsMove DEF RecordingInv, Typed
<1>1. ASSUME Arrived(x)
      PROVE  Placed(x)'
  <2>1. Kept(x)' /\ (data.pc # "idle" => data.sample # x)
    BY <1>0, <1>1 DEF Arrived, Kept, RecordingInv, UnderWay
  <2> QED
    BY <1>0, <1>1, <2>1, ArrivedStays DEF Typed, Sessions
<1>2. CASE TakeOver(t)
  <2>1. Stage' = Stage \/ (Stage = "on" /\ Stage' = "csv_flush")
    BY <1>2, StageOfStop DEF RecordingInv
  <2> QED
    BY <1>0, <1>2, <2>1, Untouched DEF TakeOver
<1>3. CASE FlushCsv(t) /\ stateLock # t
  <2>1. Stage = "csv_flush" /\ Stage' = pc'[t]
    BY <1>3, StageOfStop DEF FlushCsv, RecordingInv
  <2>2. csv.file = session /\ csv.thread = "running" /\ image' = image
    BY <1>3, <2>1 DEF RecordingInv, CsvUp, FlushCsv
  <2>3. CASE csv.buffer # {}
    <3>1. csv' = [csv EXCEPT !.queue = Append(@, csv.buffer)] /\ Stage' = "csv_clear"
      BY <1>0, <1>3, <2>1, <2>3 DEF FlushCsv, Goto, Typed
    <3>2. /\ Queued' = Queued \cup csv.buffer /\ csv'.buffer = csv.buffer
          /\ csv'.file = csv.file /\ csv'.thread = csv.thread
      BY <1>0, <3>1, CsvContents
    <3>3. \A m \in ImageModes : Pushed(m)' = Pushed(m)
      BY <2>2 DEF Pushed
    <3> QED
      BY <1>0, <2>1, <2>2, <3>1, <3>2, <3>3 DEF OnItsWay, Placed, Kept, FlushSteps
  <2>4. CASE csv.buffer = {}
    <3>1. csv' = csv /\ Stage' = "csv_stop"
      BY <1>0, <1>3, <2>1, <2>4 DEF FlushCsv, Goto, Typed
    <3>2. Queued' = Queued /\ \A m \in ImageModes : Pushed(m)' = Pushed(m)
      BY <2>2, <3>1 DEF Queued, Pushed
    <3> QED
      BY <1>0, <2>1, <2>2, <2>4, <3>1, <3>2 DEF OnItsWay, Placed, Kept, FlushSteps
  <2> QED
    BY <2>3, <2>4
<1>4. CASE ClearCsv(t) /\ stateLock # t
  <2>1. Stage = "csv_clear" /\ Stage' = "csv_stop"
    BY <1>0, <1>4, StageOfStop DEF ClearCsv, RecordingInv, Goto, Typed
  <2>2. /\ csv'.buffer = {} /\ image' = image
        /\ UNCHANGED <<csv.queue, csv.file, csv.thread>>
    BY <1>0, <1>4 DEF ClearCsv, Typed, CsvWriters
  <2>3. Queued' = Queued /\ \A m \in ImageModes : Pushed(m)' = Pushed(m)
    BY <2>2 DEF Queued, Pushed
  <2> QED
    BY <1>0, <2>1, <2>2, <2>3 DEF OnItsWay, Placed, Kept, FlushSteps
<1>5. CASE StopCsv(t) /\ stateLock # t
  <2>1. Stage = "csv_stop" /\ Stage' = "csv_join"
    BY <1>0, <1>5, StageOfStop DEF StopCsv, RecordingInv, Goto, Typed
  <2>2. image' = image /\ UNCHANGED <<csv.buffer, csv.queue, csv.file, csv.thread>>
    BY <1>0, <1>5 DEF StopCsv, Typed, CsvWriters
  <2> QED
    BY <1>0, <2>1, <2>2, Untouched
<1>6. CASE JoinCsv(t) /\ stateLock # t
  <2>1. Stage = "csv_join" /\ Stage' = "image_stop"
    BY <1>0, <1>6, StageOfStop DEF JoinCsv, RecordingInv, Goto, Typed
  <2>2. /\ csv.thread = "ended" /\ image' = image
        /\ UNCHANGED <<csv.buffer, csv.queue>>
    BY <1>0, <1>6 DEF JoinCsv, Typed, CsvWriters
  <2>3. Queued' = Queued /\ \A m \in ImageModes : Pushed(m)' = Pushed(m)
    BY <2>2 DEF Queued, Pushed
  <2> QED
    BY <1>0, <2>1, <2>2, <2>3 DEF OnItsWay, Placed, Kept, FlushSteps
<1>7. CASE (FlushCsv(t) \/ ClearCsv(t) \/ StopCsv(t) \/ JoinCsv(t)) /\ stateLock = t
  BY <1>1, <1>7, AllArrived, StageOfStop DEF RecordingInv
<1>8. CASE StopImage(t)
  <2>1. Stage = "image_stop" /\ Stage' = "image_join"
    BY <1>0, <1>8, StageOfStop DEF StopImage, RecordingInv, Goto, Typed
  <2>2. /\ csv' = csv
        /\ \A m \in ImageModes :
             UNCHANGED <<image[m].queue, image[m].file, image[m].thread>>
    BY <1>0, <1>8 DEF StopImage, Typed, ImageWriters
  <2> QED
    BY <1>0, <2>1, <2>2, Untouched
<1>9. CASE JoinImage(t)
  <2>1. Stage = "image_join"
    BY <1>0, <1>9, StageOfStop DEF JoinImage, RecordingInv
  <2>2. \A m \in ImageModes : x \notin Pushed(m)
    BY <1>0, <1>9 DEF JoinImage, OpenImages, OnItsWay, Placed, RecordingInv, ImagesUp
  <2>3. Arrived(x)
    BY <1>0, <2>1, <2>2 DEF OnItsWay, Placed, Arrived, FlushSteps
  <2> QED
    BY <1>1, <2>3
<1>10. CASE CloseImage(t) \/ StopHelpers(t) \/ Finish(t)
  <2>1. Stage \in {"image_clear", "helpers_stop", "finish"}
    BY <1>0, <1>10, StageOfStop DEF CloseImage, StopHelpers, RecordingInv
  <2> QED
    BY <1>0, <1>1, <2>1, AllArrived
<1> QED
  BY <1>2, <1>3, <1>4, <1>5, <1>6, <1>7, <1>8, <1>9, <1>10 DEF StopThread

LEMMA PlacedByWriters ==
  ASSUME RecordingInv, NEW x \in settled, Writers
  PROVE  Placed(x)'
<1>0. /\ Typed /\ Placed(x) /\ Stage' = Stage
      /\ csv \in CsvWriters /\ image \in [ImageModes -> ImageWriters]
      /\ \A m \in ImageModes : image[m] \in ImageWriters
      /\ disk \in [Sessions -> SUBSET Samples] /\ x \in Samples /\ x.session \in Sessions
      /\ x.session \in Int
  <2>1. x \in Samples
    BY DEF RecordingInv, Typed
  <2> QED
    BY <2>1, StageOfOthers DEF RecordingInv, Typed, OnItsWay, Bystanders, Samples, Sessions
<1>1. CASE CsvWrite
  <2>1. /\ csv' = [csv EXCEPT !.queue = Tail(@)] /\ csv.queue # <<>>
        /\ UNCHANGED <<session, deleted, image, data>>
        /\ disk' = IF csv.file \in deleted THEN disk
                   ELSE [disk EXCEPT ![csv.file] = @ \cup Head(csv.queue)]
    BY <1>1 DEF CsvWrite, flagVars
  <2>2. /\ Queued = Queued' \cup Head(csv.queue)
        /\ csv'.buffer = csv.buffer /\ csv'.file = csv.file /\ csv'.thread = csv.thread
    BY <1>0, <2>1, CsvContents
  <2>3. \A m \in ImageModes : Pushed(m)' = Pushed(m)
    BY <2>1 DEF Pushed
  <2>4. \A s \in Sessions \ {x.session} : x \notin disk'[s]
    BY <1>0, <2>1, <2>2 DEF Placed
  <2>5. Kept(x) \/ x \in Queued => Kept(x)' \/ x \in Queued'
    <3>1. CASE x \in Head(csv.queue)
      <4>1. csv.file = x.session
        BY <1>0, <2>2, <3>1 DEF Placed
      <4> QED
        BY <1>0, <2>1, <3>1, <4>1 DEF Kept
    <3>2. CASE x \notin Head(csv.queue)
      BY <1>0, <2>1, <2>2, <3>2 DEF Kept
    <3> QED
      BY <3>1, <3>2
  <2> QED
    BY <1>0, <2>1, <2>2, <2>3, <2>4, <2>5 DEF Placed
<1>2. CASE CsvExit
  <2>1. /\ csv.queue = <<>> /\ csv'.buffer = csv.buffer /\ csv'.queue = csv.queue
        /\ UNCHANGED <<session, deleted, disk, image, data>>
    BY <1>0, <1>2 DEF CsvExit, CsvWriters, flagVars
  <2>2. Queued = {} /\ Queued' = {} /\ \A m \in ImageModes : Pushed(m)' = Pushed(m)
    BY <2>1, EmptyElements DEF Queued, Pushed
  <2> QED
    BY <1>0, <2>1, <2>2 DEF Placed, Kept
<1>3. ASSUME NEW m \in ImageModes, ImageWrite(m)
      PROVE  Placed(x)'
  <2>1. /\ image' = [image EXCEPT ![m].queue = Tail(@)] /\ image[m].queue # <<>>
        /\ UNCHANGED <<session, deleted, csv, data>>
        /\ disk' = IF m = "slam" /\ image[m].file \in deleted THEN disk
                   ELSE [disk EXCEPT ![image[m].file] = @ \cup {Head(image[m].queue)}]
    BY <1>3 DEF ImageWrite, flagVars
  <2>2. /\ Pushed(m) = Pushed(m)' \cup {Head(image[m].queue)}
        /\ \A n \in ImageModes \ {m} : image'[n] = image[n]
        /\ \A n \in ImageModes : UNCHANGED <<image[n].open, image[n].file, image[n].thread>>
    BY <1>0, <2>1, ImageContents
  <2>3. Queued' = Queued /\ \A n \in ImageModes \ {m} : Pushed(n)' = Pushed(n)
    BY <2>1, <2>2 DEF Queued, Pushed
  <2>4. \A s \in Sessions \ {x.session} : x \notin disk'[s]
    BY <1>0, <2>1, <2>2 DEF Placed
  <2>5. Kept(x) => Kept(x)'
    BY <1>0, <2>1 DEF Kept
  <2>6. x \in Pushed(m) => Kept(x)' \/ x \in Pushed(m)'
    <3>1. CASE x = Head(image[m].queue)
      <4>1. image[m].file = x.session
        BY <1>0, <2>2, <3>1 DEF Placed
      <4> QED
        BY <1>0, <2>1, <3>1, <4>1 DEF Kept
    <3>2. CASE x # Head(image[m].queue)
      BY <2>2, <3>2
    <3> QED
      BY <3>1, <3>2
  <2> QED
    BY <1>0, <2>1, <2>2, <2>3, <2>4, <2>5, <2>6 DEF Placed
<1>4. ASSUME NEW m \in ImageModes, ImageExit(m)
      PROVE  Placed(x)'
  <2>1. /\ image[m].queue = <<>> /\ image'[m].queue = <<>>
        /\ \A n \in ImageModes \ {m} : image'[n] = image[n]
        /\ UNCHANGED <<session, deleted, disk, csv, data>>
    BY <1>0, <1>4 DEF ImageExit, ImageWriters, flagVars
  <2>2. /\ Pushed(m) = {} /\ Pushed(m)' = {} /\ Queued' = Queued
        /\ \A n \in ImageModes \ {m} : Pushed(n)' = Pushed(n)
    BY <2>1, EmptyElements DEF Queued, Pushed
  <2> QED
    BY <1>0, <2>1, <2>2 DEF Placed, Kept
<1> QED
  BY <1>1, <1>2, <1>3, <1>4 DEF Writers

LEMMA PlacedByCallback ==
  ASSUME RecordingInv, NEW x \in settled, ImuData \/ ImageData \/ Callback
  PROVE  Placed(x)'
<1>0. /\ Typed /\ OnItsWay /\ Placed(x) /\ Stage' = Stage
      /\ csv \in CsvWriters /\ data \in Callbacks
      /\ data.pc # "idle" => data.sample # x /\ data.sample \in Samples
  BY StageOfOthers DEF RecordingInv, Typed, OnItsWay, UnderWay, Bystanders
<1>1. CASE ImuData \/ ImageData \/ CheckCsv \/ SlamFlag \/ CheckImage
  <2>1. UNCHANGED <<session, disk, deleted, csv, image>>
    BY <1>1 DEF ImuData, ImageData, CheckCsv, SlamFlag, CheckImage, flagVars
  <2>2. data'.pc # "csv_clear"
    <3>1. CASE ImuData \/ ImageData
      BY <1>0, <3>1 DEF ImuData, ImageData, Callbacks
    <3>2. CASE CheckCsv \/ SlamFlag \/ CheckImage
      BY <1>0, <3>2, ToRgbSample DEF CheckCsv, SlamFlag, CheckImage, Callbacks
    <3> QED
      BY <1>1, <3>1, <3>2
  <2> QED
    BY <1>0, <2>1, <2>2, Untouched
<1>2. CASE PushCsv
  <2>1. /\ csv'.buffer = csv.buffer \cup {data.sample} /\ x # data.sample
        /\ UNCHANGED <<csv.queue, csv.file, csv.thread>>
        /\ UNCHANGED <<session, disk, deleted, image>>
    BY <1>0, <1>2 DEF PushCsv, CsvWriters, flagVars
  <2>2. data'.pc # "csv_clear"
    BY <1>0, <1>2, ToRgbSample DEF PushCsv, Callbacks
  <2>3. Queued' = Queued /\ \A m \in ImageModes : Pushed(m)' = Pushed(m)
    BY <2>1 DEF Queued, Pushed
  <2> QED
    BY <1>0, <2>1, <2>2, <2>3 DEF Placed, Kept
<1>3. CASE QueueCsv
  <2>1. /\ csv' = [csv EXCEPT !.queue = Append(@, csv.buffer)]
        /\ UNCHANGED <<session, disk, deleted, image>>
    BY <1>3 DEF QueueCsv, flagVars
  <2>2. /\ Queued' = Queued \cup csv.buffer /\ csv'.buffer = csv.buffer
        /\ csv'.file = csv.file /\ csv'.thread = csv.thread
    BY <1>0, <2>1, CsvContents
  <2>3. \A m \in ImageModes : Pushed(m)' = Pushed(m)
    BY <2>1 DEF Pushed
  <2>4. x \in csv.buffer => csv.file = session /\ csv.thread = "running"
    BY <1>0 DEF Placed, RecordingInv, CsvUp
  <2> QED
    BY <1>0, <2>1, <2>2, <2>3, <2>4 DEF Placed, Kept, FlushSteps
<1>4. CASE EmptyCsv
  <2>1. /\ csv'.buffer = {} /\ data.pc = "csv_clear"
        /\ UNCHANGED <<csv.queue, csv.file, csv.thread>>
        /\ UNCHANGED <<session, disk, deleted, image>>
    BY <1>0, <1>4 DEF EmptyCsv, CsvWriters, flagVars
  <2>2. Queued' = Queued /\ \A m \in ImageModes : Pushed(m)' = Pushed(m)
    BY <2>1 DEF Queued, Pushed
  <2> QED
    BY <1>0, <2>1, <2>2 DEF Placed, Kept
<1>5. CASE PushImage
  <2>1. /\ UNCHANGED <<session, disk, deleted, csv>>
        /\ x # data.sample /\ data.sample \in Samples
    BY <1>0, <1>5 DEF PushImage, flagVars
  <2>2. data'.pc # "csv_clear"
    BY <1>0, <1>5, ToRgbSample DEF PushImage
  <2>3. /\ Queued' = Queued
        /\ \A m \in ImageModes :
             /\ x \in Pushed(m)' <=> x \in Pushed(m)
             /\ UNCHANGED <<image[m].file, image[m].thread>>
    <3>1. CASE image' = image
      BY <2>1, <3>1 DEF Queued, Pushed
    <3>2. CASE image' = [image EXCEPT ![data.writer].queue = Append(@, data.sample)]
      <4>0. PICK w \in ImageModes : w = data.writer
        BY <1>0 DEF Callbacks
      <4>1. /\ Pushed(w)' = Pushed(w) \cup {data.sample}
            /\ \A n \in ImageModes \ {w} : image'[n] = image[n]
            /\ \A n \in ImageModes : UNCHANGED <<image[n].file, image[n].thread>>
        BY <1>0, <2>1, <3>2, <4>0, ImageContents
      <4>2. \A n \in ImageModes \ {w} : Pushed(n)' = Pushed(n)
        BY <4>1 DEF Pushed
      <4> QED
        BY <2>1, <4>1, <4>2 DEF Queued
    <3> QED
      BY <1>5, <3>1, <3>2 DEF PushImage
  <2> QED
    BY <1>0, <2>1, <2>2, <2>3 DEF Placed, Kept
<1> QED
  BY <1>1, <1>2, <1>3, <1>4, <1>5 DEF Callback

LEMMA PlacedByDelete ==
  ASSUME RecordingInv, NEW x \in settled, DeleteRecord \/ Quit
  PROVE  Placed(x)'
<1>0. /\ Typed /\ OnItsWay /\ Placed(x) /\ Stage' = Stage
      /\ disk \in [Sessions -> SUBSET Samples]
  BY StageOfOthers DEF RecordingInv, Typed, OnItsWay, Bystanders
<1>1. CASE DeleteRecord
  <2>1. UNCHANGED <<session, csv, image, data>>
    BY <1>1 DEF DeleteRecord, flagVars
  <2>2. Queued' = Queued /\ \A m \in ImageModes : Pushed(m)' = Pushed(m)
    BY <2>1 DEF Queued, Pushed
  <2>3. \A s \in Sessions : disk'[s] \subseteq disk[s]
    BY <1>0, <1>1 DEF DeleteRecord
  <2>4. Kept(x) => Kept(x)'
    BY <1>0, <1>1 DEF DeleteRecord, Kept, Samples
  <2> QED
    BY <1>0, <2>1, <2>2, <2>3, <2>4 DEF Placed
<1>2. CASE Quit
  BY <1>0, <1>2, Untouched DEF Quit, flagVars
<1> QED
  BY <1>1, <1>2

\* A sample that becomes settled has been put where its recording will find it.
LEMMA PlacedWhenSettled ==
  ASSUME RecordingInv, Next, NEW x \in settled', x \notin settled
  PROVE  Placed(x)'
<1>0. /\ Typed /\ csv \in CsvWriters /\ data \in Callbacks
  BY DEF RecordingInv, Typed
<1>1. \/ PushCsv \/ EmptyCsv
      \/ PushImage /\ image' = [image EXCEPT ![data.writer].queue = Append(@, data.sample)]
  <2>1. ~Bystanders => settled' = settled
    BY CommandsMove, <1>0 DEF Next, Bystanders
  <2> QED
    BY <2>1 DEF Bystanders, Writers, CsvWrite, CsvExit, ImageWrite, ImageExit, ImuData,
       ImageData, Callback, CheckCsv, QueueCsv, SlamFlag, CheckImage, DeleteRecord, Quit,
       PushImage
<1>2. /\ data.pc # "idle" /\ x = data.sample /\ recordFlag /\ x.session = session
      /\ UNCHANGED <<session, disk, deleted>>
  BY <1>1 DEF PushCsv, EmptyCsv, PushImage, Settle, flagVars
<1>3. /\ Live /\ x \in Samples /\ session \in Int
      /\ \A s \in Sessions \ {session} : x \notin disk[s]
  BY <1>2 DEF RecordingInv, UnderWay, Live, Typed, Sessions
<1>4. Stage = "on" /\ Stage' = "on"
  <2>1. Bystanders
    BY <1>1 DEF Bystanders, Callback
  <2> QED
    BY <1>2, <2>1, StageOfOthers DEF Stage, RecordingInv
<1>5. csv.file = session /\ csv.thread = "running"
  BY <1>4 DEF RecordingInv, CsvUp
<1>6. \A m \in ImageModes : x \in Pushed(m) => image[m].file = session /\ image[m].thread = "running"
  BY <1>2, <1>3, <1>4 DEF RecordingInv, UnderWay, ImagesUp, ImageUp
<1>7. CASE PushCsv
  <2>1. /\ csv'.buffer = csv.buffer \cup {x} /\ data' = Idle
        /\ UNCHANGED <<csv.queue, csv.file, csv.thread, image>>
    BY <1>0, <1>2, <1>7 DEF PushCsv, CsvWriters
  <2>2. data'.pc # "csv_clear"
    BY <1>0, <2>1, ToRgbSample
  <2>3. Queued' = Queued /\ \A m \in ImageModes : Pushed(m)' = Pushed(m)
    BY <2>1 DEF Queued, Pushed
  <2> QED
    BY <1>2, <1>3, <1>4, <1>5, <1>6, <2>1, <2>2, <2>3 DEF Placed
<1>8. CASE EmptyCsv
  <2>1. /\ csv'.buffer = {} /\ data.pc = "csv_clear"
        /\ UNCHANGED <<csv.queue, csv.file, csv.thread, image>>
    BY <1>0, <1>8 DEF EmptyCsv, CsvWriters
  <2>2. Queued' = Queued /\ \A m \in ImageModes : Pushed(m)' = Pushed(m)
    BY <2>1 DEF Queued, Pushed
  <2>3. Kept(x) \/ x \in Queued
    BY <1>2, <1>3, <2>1 DEF RecordingInv, UnderWay
  <2> QED
    BY <1>2, <1>3, <1>4, <1>5, <1>6, <2>1, <2>2, <2>3 DEF Placed, Kept
<1>9. CASE PushImage /\ image' = [image EXCEPT ![data.writer].queue = Append(@, data.sample)]
  <2>0. PICK w \in ImageModes : w = data.writer
    BY <1>0 DEF Callbacks
  <2>1. /\ Pushed(w)' = Pushed(w) \cup {x}
        /\ \A n \in ImageModes \ {w} : image'[n] = image[n]
        /\ \A n \in ImageModes : UNCHANGED <<image[n].file, image[n].thread>>
    BY <1>0, <1>2, <1>3, <1>9, <2>0, ImageContents
  <2>2. \A n \in ImageModes \ {w} : Pushed(n)' = Pushed(n)
    BY <2>1 DEF Pushed
  <2>3. image[w].file = session /\ image[w].thread = "running"
    BY <1>2, <1>3, <1>4, <1>9, <2>0 DEF PushImage, RecordingInv, UnderWay, ImagesUp, ImageUp
  <2>4. csv' = csv /\ Queued' = Queued /\ data'.pc # "csv_clear"
    BY <1>0, <1>9, ToRgbSample DEF PushImage, Queued
  <2> QED
    BY <1>2, <1>3, <1>4, <1>5, <1>6, <2>1, <2>2, <2>3, <2>4 DEF Placed
<1> QED
  BY <1>1, <1>7, <1>8, <1>9

---------------------------------------------------------------------------
(* The callback under way *)

\* What UnderWay says of the sample while its recording is on.
InHand(x) ==
  /\ \A s \in Sessions \ {session} : x \notin disk[s]
  /\ data.pc = "csv_queue" => x \in csv.buffer
  /\ data.pc = "csv_clear" => Kept(x) \/ x \in Queued
  /\ data.rgb /\ data.pc \in ImageSteps => mode = "rgb"
  /\ data.pc = "image_push" => image[data.writer].open
  /\ \A m \in ImageModes : x \in Pushed(m) => image[m].open

CallbackHolds(x) ==
  /\ x = data.sample /\ x \notin settled /\ x.session <= session
  /\ stateLock = "goal" /\ ~recordFlag => x.session < session
  /\ recordFlag /\ x.session = session => InHand(x)

LEMMA UnderWayInHand ==
  /\ UnderWay <=> data.pc = "idle" \/ \E x \in Samples : CallbackHolds(x)
  /\ UnderWay' <=> data'.pc = "idle" \/ \E x \in Samples : CallbackHolds(x)'
<1>1. UnderWay <=> data.pc = "idle" \/ \E x \in Samples : CallbackHolds(x)
  BY DEF UnderWay, Live, InHand, CallbackHolds
<1>2. UnderWay' <=> data'.pc = "idle" \/ \E x \in Samples : CallbackHolds(x)'
  BY DEF UnderWay, Live, InHand, CallbackHolds
<1> QED
  BY <1>1, <1>2

LEMMA UnderWayCommands ==
  ASSUME RecordingInv, Next, ~Bystanders
  PROVE  UnderWay'
<1>0. /\ Typed /\ OneAtATime /\ UnderWay /\ UNCHANGED <<settled, disk, deleted, data>>
      /\ pc \in [Threads -> Steps] /\ Threads = {"goal", "main"}
  BY CommandsMove DEF RecordingInv, Next, Bystanders, Typed, Threads
<1> SUFFICES ASSUME data.pc # "idle"
             PROVE  UnderWay'
  BY <1>0 DEF UnderWay
<1>1. PICK x \in Samples : CallbackHolds(x)
  BY <1>0, UnderWayInHand
<1> USE DEF CallbackHolds
<1>2. x.session \in Int /\ session \in Int
  BY <1>0, <1>1 DEF Typed, Samples, Sessions
<1>3. CASE BeginStart("goal")
  BY <1>0, <1>1, <1>2, <1>3, UnderWayInHand DEF BeginStart, MayStart
<1>4. CASE GoOn("goal")
  <2>1. stateLock = "goal" /\ ~recordFlag /\ session' = session
    BY <1>0, <1>4 DEF GoOn, OneAtATime, StartSteps
  <2> QED
    BY <1>0, <1>1, <1>2, <1>4, <2>1, UnderWayInHand
<1>5. CASE OpenCsv("goal") \/ OpenImage("goal")
  <2>1. /\ ~recordFlag /\ ~recordFlag' /\ stateLock = "goal"
        /\ session' = session /\ stateLock' \in {stateLock, "free"}
    BY <1>0, <1>5 DEF OpenCsv, OpenImage, FailStart, flagVars, OneAtATime, StartSteps
  <2> QED
    BY <1>0, <1>1, <1>5, <2>1, UnderWayInHand
<1>6. CASE StartHelpers("goal") \/ BeginStop \/ Release
  <2>1. /\ UNCHANGED <<recordFlag, session, mode, csv, image>>
        /\ stateLock' \in {stateLock, "free"}
    BY <1>6 DEF StartHelpers, BeginStop, Release, flagVars
  <2>2. InHand(x)' <=> InHand(x)
    BY <1>0, <2>1 DEF InHand, Kept, Queued, Pushed
  <2> QED
    BY <1>0, <1>1, <2>1, <2>2, UnderWayInHand
<1>7. ASSUME NEW t \in Threads, StopThread(t)
      PROVE  UnderWay'
  <2>1. session' = session /\ stateLock' \in {stateLock, "free"}
    BY <1>7 DEF StopThread, TakeOver, FlushCsv, ClearCsv, StopCsv, JoinCsv, FailStart,
       StopImage, JoinImage, CloseImage, StopHelpers, Finish, flagVars
  <2>2. ~recordFlag'
    <3>1. CASE TakeOver(t)
      BY <3>1 DEF TakeOver
    <3>2. CASE ~TakeOver(t)
      <4>1. recordFlag' = recordFlag /\ pc[t] \in CloseSteps
        BY <1>7, <3>2 DEF StopThread, FlushCsv, ClearCsv, StopCsv, JoinCsv, StopImage,
           JoinImage, CloseImage, StopHelpers, Finish, flagVars, CloseSteps, FlushSteps
      <4> QED
        BY <1>0, <4>1 DEF OneAtATime, Stopping, CloseSteps, FlushSteps
    <3> QED
      BY <3>1, <3>2
  <2>3. recordFlag => TakeOver(t)
    <3>1. ~TakeOver(t) => pc[t] \in CloseSteps
      BY <1>7 DEF StopThread, FlushCsv, ClearCsv, StopCsv, JoinCsv, StopImage,
         JoinImage, CloseImage, StopHelpers, Finish, CloseSteps, FlushSteps
    <3> QED
      BY <1>0, <3>1 DEF OneAtATime, Stopping, CloseSteps, FlushSteps
  <2>4. TakeOver(t) => stateLock' # "goal"
    BY DEF TakeOver
  <2> QED
    BY <1>0, <1>1, <2>1, <2>2, <2>3, <2>4, UnderWayInHand
<1> QED
  BY <1>3, <1>4, <1>5, <1>6, <1>7 DEF Next, Bystanders

LEMMA UnderWayWriters ==
  ASSUME RecordingInv, Writers \/ DeleteRecord \/ Quit
  PROVE  UnderWay'
<1>0. /\ Typed /\ UnderWay /\ UNCHANGED <<settled, data, recordFlag, session, mode, stateLock>>
      /\ csv \in CsvWriters /\ image \in [ImageModes -> ImageWriters]
      /\ \A m \in ImageModes : image[m] \in ImageWriters
      /\ disk \in [Sessions -> SUBSET Samples]
  BY BystandersLeaveControl DEF RecordingInv, Bystanders, Typed, Writers, CsvWrite, CsvExit,
     ImageWrite, ImageExit, DeleteRecord, Quit, flagVars
<1> SUFFICES ASSUME data.pc # "idle"
             PROVE  UnderWay'
  BY <1>0 DEF UnderWay
<1>1. PICK x \in Samples : CallbackHolds(x)
  BY <1>0, UnderWayInHand
<1> USE DEF CallbackHolds
<1> SUFFICES ASSUME recordFlag, x.session = session
             PROVE  InHand(x)'
  BY <1>0, <1>1, UnderWayInHand
<1>2. InHand(x) /\ Stage = "on" /\ session \in Sessions
  BY <1>0, <1>1 DEF Stage, Typed
<1>3. CASE CsvWrite
  <2>1. /\ csv' = [csv EXCEPT !.queue = Tail(@)] /\ csv.queue # <<>>
        /\ UNCHANGED <<deleted, image>>
        /\ disk' = IF csv.file \in deleted THEN disk
                   ELSE [disk EXCEPT ![csv.file] = @ \cup Head(csv.queue)]
    BY <1>3 DEF CsvWrite
  <2>2. /\ Queued = Queued' \cup Head(csv.queue) /\ csv'.buffer = csv.buffer
        /\ csv.file = session /\ \A m \in ImageModes : Pushed(m)' = Pushed(m)
    BY <1>0, <1>2, <2>1, CsvContents DEF RecordingInv, CsvUp, Pushed
  <2>3. \A s \in Sessions \ {session} : disk'[s] = disk[s]
    BY <1>0, <2>1, <2>2
  <2>4. Kept(x) \/ x \in Queued => Kept(x)' \/ x \in Queued'
    BY <1>0, <1>2, <2>1, <2>2 DEF Kept
  <2> QED
    BY <1>0, <1>2, <2>1, <2>2, <2>3, <2>4 DEF InHand
<1>4. CASE CsvExit
  <2>1. /\ csv'.buffer = csv.buffer /\ csv'.queue = csv.queue
        /\ UNCHANGED <<deleted, disk, image>>
    BY <1>0, <1>4 DEF CsvExit, CsvWriters
  <2> QED
    BY <1>0, <1>2, <2>1 DEF InHand, Kept, Queued, Pushed
<1>5. ASSUME NEW m \in ImageModes, ImageWrite(m)
      PROVE  InHand(x)'
  <2>1. /\ image' = [image EXCEPT ![m].queue = Tail(@)] /\ image[m].queue # <<>>
        /\ UNCHANGED <<deleted, csv>> /\ image[m].thread = "running"
        /\ disk' = IF m = "slam" /\ image[m].file \in deleted THEN disk
                   ELSE [disk EXCEPT ![image[m].file] = @ \cup {Head(image[m].queue)}]
    BY <1>5 DEF ImageWrite
  <2>2. /\ Pushed(m) = Pushed(m)' \cup {Head(image[m].queue)}
        /\ \A n \in ImageModes \ {m} : image'[n] = image[n]
        /\ \A n \in ImageModes : UNCHANGED <<image[n].open, image[n].file, image[n].thread>>
    BY <1>0, <2>1, ImageContents
  <2>3. image[m].file = session
    BY <1>2, <2>1 DEF RecordingInv, ImagesUp, ImageUp
  <2>4. /\ Queued' = Queued
        /\ \A n \in ImageModes : Pushed(n)' \subseteq Pushed(n)
    BY <2>1, <2>2 DEF Queued, Pushed
  <2>5. \A s \in Sessions \ {session} : disk'[s] = disk[s]
    BY <1>0, <2>1, <2>3
  <2>6. Kept(x) => Kept(x)'
    BY <1>0, <2>1 DEF Kept
  <2>7. data.pc = "image_push" => image'[data.writer].open
    <3>0. PICK w \in ImageModes : w = data.writer
      BY <1>0 DEF Typed, Callbacks
    <3> QED
      BY <1>2, <2>2, <3>0 DEF InHand
  <2> QED
    BY <1>0, <1>2, <2>1, <2>2, <2>4, <2>5, <2>6, <2>7 DEF InHand
<1>6. ASSUME NEW m \in ImageModes, ImageExit(m)
      PROVE  InHand(x)'
  <2>1. /\ \A n \in ImageModes : UNCHANGED <<image[n].queue, image[n].open>>
        /\ UNCHANGED <<deleted, disk, csv>>
    BY <1>0, <1>6 DEF ImageExit, ImageWriters
  <2>2. data.writer \in ImageModes
    BY <1>0 DEF Typed, Callbacks
  <2> QED
    BY <1>0, <1>2, <2>1, <2>2 DEF InHand, Kept, Queued, Pushed
<1>7. CASE DeleteRecord
  <2>1. /\ UNCHANGED <<csv, image>> /\ \A s \in Sessions : disk'[s] \subseteq disk[s]
    BY <1>0, <1>7 DEF DeleteRecord
  <2>2. Kept(x) => Kept(x)'
    BY <1>0, <1>7 DEF DeleteRecord, Kept, Samples
  <2> QED
    BY <1>0, <1>2, <2>1, <2>2 DEF InHand, Queued, Pushed
<1>8. CASE Quit
  BY <1>0, <1>2, <1>8 DEF Quit, InHand, Kept, Queued, Pushed
<1> QED
  BY <1>3, <1>4, <1>5, <1>6, <1>7, <1>8 DEF Writers

\* A sample that is new to the recorder is nowhere yet.
LEMMA NewSampleIsNew ==
  ASSUME RecordingInv, ImuData \/ ImageData
  PROVE  /\ NewSample \in Samples /\ NewSample.session = session
         /\ NewSample \notin settled
         /\ \A s \in Sessions : NewSample \notin disk[s]
         /\ \A m \in ImageModes : NewSample \notin Pushed(m)
<1>1. /\ NewSample \in Samples /\ NewSample.session = session
      /\ NewSample.id = used.samples + 1 /\ used.samples \in Int
  BY RecordingAssumption
     DEF ImuData, ImageData, NewSample, RecordingInv, Typed, Samples, Counts
<1>2. ~Old(NewSample)
  BY <1>1 DEF Old
<1> QED
  BY <1>1, <1>2 DEF RecordingInv, Numbered

LEMMA UnderWayCallbacks ==
  ASSUME RecordingInv, ImuData \/ ImageData \/ Callback
  PROVE  UnderWay'
<1>0. /\ Typed /\ UnderWay /\ data \in Callbacks /\ csv \in CsvWriters
      /\ UNCHANGED <<recordFlag, session, mode, stateLock, disk, deleted>>
      /\ session \in Int
  BY DEF RecordingInv, Typed, Sessions, ImuData, ImageData, Callback, CheckCsv, PushCsv,
     QueueCsv, EmptyCsv, SlamFlag, CheckImage, PushImage, flagVars
<1>1. ASSUME ImuData \/ ImageData
      PROVE  UnderWay'
  <2>1. /\ data'.sample = NewSample /\ UNCHANGED <<settled, csv, image>> /\ recordFlag
        /\ data'.pc \in {"csv_check", "slam_flag"}
        /\ data'.pc = "slam_flag" /\ data'.rgb => mode = "rgb"
    BY <1>0, <1>1 DEF ImuData, ImageData, Callbacks
  <2> QED
    BY <1>0, <1>1, <2>1, NewSampleIsNew DEF UnderWay, Live, ImageSteps, Pushed
<1> SUFFICES ASSUME Callback, data'.pc # "idle"
             PROVE  UnderWay'
  BY <1>1 DEF UnderWay
<1>2. data.pc # "idle"
  BY DEF Callback, CheckCsv, PushCsv, QueueCsv, EmptyCsv, SlamFlag, CheckImage, PushImage
<1>3. PICK x \in Samples : CallbackHolds(x)
  BY <1>0, <1>2, UnderWayInHand
<1> USE DEF CallbackHolds
<1>4. CASE CheckCsv \/ SlamFlag \/ CheckImage
  <2>1. UNCHANGED <<settled, csv, image>>
    BY <1>4 DEF CheckCsv, SlamFlag, CheckImage
  <2>2. data'.sample = x /\ data'.rgb = data.rgb /\ data'.pc \in ImageSteps \cup {"csv_push"}
    BY <1>0, <1>3, <1>4, ToRgbSample
       DEF CheckCsv, SlamFlag, CheckImage, Callbacks, ImageSteps
  <2>3. data'.pc \in ImageSteps => data.pc \in ImageSteps
    BY <1>0, <1>4, ToRgbSample DEF CheckCsv, SlamFlag, CheckImage, Callbacks, ImageSteps
  <2>4. data'.pc = "image_push" => image[data'.writer].open
    BY <1>0, <1>4, ToRgbSample DEF CheckCsv, SlamFlag, CheckImage, Callbacks
  <2> QED
    BY <1>0, <1>3, <2>1, <2>2, <2>3, <2>4, UnderWayInHand
       DEF InHand, Pushed, ImageSteps
<1>5. CASE PushCsv
  <2>1. /\ csv'.buffer = csv.buffer \cup {x} /\ UNCHANGED <<settled, image>>
        /\ data' = [data EXCEPT !.pc = "csv_queue"]
    BY <1>0, <1>3, <1>5, ToRgbSample DEF PushCsv, CsvWriters
  <2>2. data'.pc = "csv_queue" /\ data'.sample = x
    BY <1>0, <1>3, <2>1 DEF Callbacks
  <2> QED
    BY <1>0, <1>3, <2>1, <2>2, UnderWayInHand DEF InHand, Pushed, ImageSteps
<1>6. CASE QueueCsv
  <2>1. /\ csv' = [csv EXCEPT !.queue = Append(@, csv.buffer)]
        /\ UNCHANGED <<settled, image>>
        /\ data.pc = "csv_queue" /\ data'.pc = "csv_clear" /\ data'.sample = x
    BY <1>0, <1>3, <1>6 DEF QueueCsv, Callbacks
  <2>2. Queued' = Queued \cup csv.buffer
    BY <1>0, <2>1, CsvContents
  <2> QED
    BY <1>0, <1>3, <2>1, <2>2, UnderWayInHand DEF InHand, Pushed, ImageSteps
<1>7. CASE EmptyCsv
  BY <1>0, <1>7, ToRgbSample DEF EmptyCsv
<1>8. CASE PushImage
  <2>0. PICK w \in ImageModes : w = data.writer
    BY <1>0 DEF Callbacks
  <2>1. /\ data'.pc = "image_check" /\ data'.sample = x /\ data'.rgb = data.rgb
        /\ data.rgb /\ w = "slam" /\ data.pc = "image_push" /\ csv' = csv
    BY <1>0, <1>3, <1>8, <2>0, ToRgbSample DEF PushImage
  <2>2. CASE UNCHANGED <<image, settled>>
    BY <1>0, <1>3, <2>1, <2>2, UnderWayInHand DEF InHand, Pushed, ImageSteps
  <2>3. CASE image' = [image EXCEPT ![data.writer].queue = Append(@, data.sample)] /\ Settle
    <3>1. ~(recordFlag /\ x.session = session)
      <4> SUFFICES ASSUME recordFlag, x.session = session
                   PROVE  FALSE
        OBVIOUS
      <4>1. Stage = "on" /\ mode = "rgb" /\ image[w].open
        BY <1>3, <2>0, <2>1 DEF InHand, ImageSteps, Stage
      <4>2. mode = w
        BY <4>1 DEF RecordingInv, ImagesUp
      <4> QED
        BY <2>1, <4>1, <4>2
    <3>2. settled' = settled
      BY <1>3, <2>3, <3>1 DEF Settle
    <3> QED
      BY <1>0, <1>3, <2>1, <3>1, <3>2, UnderWayInHand
  <2> QED
    BY <1>8, <2>2, <2>3 DEF PushImage
<1> QED
  BY <1>4, <1>5, <1>6, <1>7, <1>8 DEF Callback

---------------------------------------------------------------------------
(* The invariant *)

LEMMA OnItsWayStep ==
  ASSUME RecordingInv, Typed', Next
  PROVE  OnItsWay'
<1> SUFFICES ASSUME NEW x \in settled'
             PROVE  Placed(x)'
  BY DEF OnItsWay
<1>1. CASE x \notin settled
  BY <1>1, PlacedWhenSettled
<1>2. CASE x \in settled
  BY <1>2, PlacedByStart, PlacedByStop, PlacedByWriters, PlacedByCallback, PlacedByDelete
     DEF Next
<1> QED
  BY <1>1, <1>2

LEMMA UnderWayStep ==
  ASSUME RecordingInv, Next
  PROVE  UnderWay'
  BY UnderWayCommands, UnderWayWriters, UnderWayCallbacks DEF Bystanders

LEMMA InitInv ==
  ASSUME Init
  PROVE  RecordingInv
<1> USE RecordingAssumption DEF Init
<1>1. Typed
  <2>1. csv \in CsvWriters
    BY DEF CsvWriters, Worker, Sessions
  <2>2. image \in [ImageModes -> ImageWriters]
    BY DEF ImageWriters, Worker, Sessions
  <2>3. data \in Callbacks
    BY DEF Callbacks, DataSteps, ImageModes
  <2>4. used \in Counts /\ session \in Sessions /\ wanted \in Wishes
    BY NothingType DEF Counts, Sessions
  <2> QED
    BY <2>1, <2>2, <2>3, <2>4 DEF Typed, Steps
<1>2. Stage = "off" /\ Queued = {} /\ \A m \in ImageModes : Pushed(m) = {}
  BY EmptyElements DEF Stage, Stopping, CloseSteps, FlushSteps, Threads, Queued, Pushed
<1>3. OneAtATime
  BY DEF OneAtATime, Stopping, Threads, StartSteps, CloseSteps, FlushSteps
<1>4. HelpersHeld /\ CsvUp /\ ImagesUp
  BY <1>2 DEF HelpersHeld, CsvUp, ImagesUp, Threads
<1>5. Numbered /\ OnItsWay /\ UnderWay
  BY <1>2 DEF Numbered, OnItsWay, UnderWay
<1> QED
  BY <1>1, <1>3, <1>4, <1>5 DEF RecordingInv

LEMMA StutterInv ==
  ASSUME RecordingInv, UNCHANGED vars
  PROVE  RecordingInv'
<1> USE DEF vars, RecordingInv
<1>1. Stage' = Stage /\ Queued' = Queued /\ \A m \in ImageModes : Pushed(m)' = Pushed(m)
  BY DEF Stage, Stopping, Queued, Pushed
<1>2. Typed' /\ OneAtATime'
  BY DEF Typed, OneAtATime, Stopping
<1>3. HelpersHeld' /\ CsvUp' /\ ImagesUp'
  BY <1>1 DEF HelpersHeld, CsvUp, ImagesUp, ImageUp
<1>4. Numbered'
  BY <1>1 DEF Numbered, Old
<1>5. OnItsWay'
  BY <1>1 DEF OnItsWay, Placed, Kept
<1>6. UnderWay'
  BY <1>1 DEF UnderWay, Live, Kept
<1> QED
  BY <1>2, <1>3, <1>4, <1>5, <1>6

LEMMA InvHolds == Spec => []RecordingInv
<1>1. RecordingInv /\ [Next]_vars => RecordingInv'
  <2> SUFFICES ASSUME RecordingInv, Next
               PROVE  RecordingInv'
    BY StutterInv
  <2>1. Typed'
    BY TypeStep
  <2>2. OneAtATime'
    BY ControlStep DEF RecordingInv
  <2>3. HelpersHeld' /\ CsvUp' /\ ImagesUp'
    BY HelpersStep, CsvStep, ImagesStep
  <2>4. Numbered' /\ OnItsWay' /\ UnderWay'
    BY <2>1, NumberedStep, OnItsWayStep, UnderWayStep
  <2> QED
    BY <2>1, <2>2, <2>3, <2>4 DEF RecordingInv
<1> QED
  BY <1>1, InitInv, PTL DEF Spec

\* Every state of a recording has its type, whatever the commands, the callbacks and the
\* writer threads do to each other.
THEOREM TypeCorrect == Spec => []TypeOK
<1>1. RecordingInv => TypeOK
  BY AllTyped DEF RecordingInv
<1> QED
  BY <1>1, InvHolds, PTL

\* cmdStopRecord and onRelease end every helper process of a recording before the state is
\* free for another one.
THEOREM HelpersEnd == Spec => []HelpersEndWithRecording
<1>1. RecordingInv => HelpersEndWithRecording
  <2> SUFFICES ASSUME RecordingInv, ~recordFlag, ~finalizing, stateLock = "free"
               PROVE  helpers = {} /\ leaving = {}
    BY DEF HelpersEndWithRecording
  <2>1. Stage = "off"
    BY DEF RecordingInv, OneAtATime, Stage, Threads
  <2> QED
    BY <2>1 DEF RecordingInv, HelpersHeld
<1> QED
  BY <1>1, InvHolds, PTL

\* A sample whose callback ended while its recording was on is in the folder of that
\* recording, and of no other, when the recording is finished: close() of the writers and
\* the order of the steps in cmdStopRecord bring it there although the callbacks take
\* no lock.
THEOREM SettledSamplesSaved == Spec => []SettledIsSaved
<1>1. RecordingInv => SettledIsSaved
  <2> SUFFICES ASSUME RecordingInv, NEW x \in settled
               PROVE  /\ Finished(x.session) /\ x.session \notin deleted
                           => x \in disk[x.session]
                      /\ \A s \in Sessions \ {x.session} : x \notin disk[s]
    BY DEF SettledIsSaved
  <2>1. Placed(x)
    BY DEF RecordingInv, OnItsWay
  <2>2. ASSUME Finished(x.session), x.session \notin deleted
        PROVE  x \in disk[x.session]
    <3>1. CASE x.session < session
      <4>1. x.session # session
        BY <3>1 DEF RecordingInv, Typed, Samples, Sessions
      <4> QED
        BY <2>1, <2>2, <4>1 DEF Placed, Kept
    <3>2. CASE ~recordFlag /\ ~finalizing
      <4>1. Stage = "off"
        BY <3>2 DEF RecordingInv, OneAtATime, Stage, Threads
      <4> QED
        BY <2>1, <2>2, <4>1 DEF Placed, Kept, FlushSteps
    <3> QED
      BY <2>2, <3>1, <3>2 DEF Finished
  <2> QED
    BY <2>1, <2>2 DEF Placed
<1> QED
  BY <1>1, InvHolds, PTL

---------------------------------------------------------------------------
(* A recording keeps the promise of RecordingContract *)

\* A writer thread writes for the recording begun last, as long as that recording is
\* being started, on, or being finished, and helpers are launched when there are none.
WritersHeld ==
  /\ csv.thread # "none" =>
       /\ csv.file = session
       /\ \/ Stage \in {"on"} \cup FlushSteps
          \/ pc["goal"] \in {"open_image", "go"} \cup FlushSteps
  /\ \A m \in ImageModes : image[m].thread # "none" =>
       /\ image[m].open /\ image[m].file = session
       /\ Stage \in {"on", "image_stop", "image_join"} \cup FlushSteps \/ pc["goal"] = "go"
  /\ pc["goal"] = "helpers" => helpers = {}

LEMMA CsvHeldStep ==
  ASSUME RecordingInv, WritersHeld, Next
  PROVE  csv'.thread # "none" =>
           /\ csv'.file = session'
           /\ \/ Stage' \in {"on"} \cup FlushSteps
              \/ pc'["goal"] \in {"open_image", "go"} \cup FlushSteps
<1> USE DEF RecordingInv, WritersHeld
<1>0. /\ csv \in CsvWriters /\ pc \in [Threads -> Steps] /\ Threads = {"goal", "main"}
      /\ FlushSteps = {"csv_flush", "csv_clear", "csv_stop", "csv_join"}
  BY DEF Typed, Threads, FlushSteps
<1> USE DEF CsvWriters
<1>1. CASE BeginStart("goal")
  BY <1>0, <1>1, StageOfStart DEF BeginStart
<1>2. CASE OpenCsv("goal")
  BY <1>0, <1>2, StageOfStart DEF OpenCsv, FailStart, Goto
<1>3. CASE OpenImage("goal")
  <2>1. /\ UNCHANGED <<csv, session>> /\ pc["goal"] = "open_image"
        /\ Stage = "off" /\ pc'["goal"] \in {"csv_flush", "go"}
    BY <1>0, <1>3, StageOfStart DEF OpenImage, flagVars, Goto
  <2> QED
    BY <1>0, <2>1
<1>4. CASE GoOn("goal")
  BY <1>0, <1>4, StageOfStart DEF GoOn
<1>5. CASE StartHelpers("goal")
  BY <1>0, <1>5, StageOfStart DEF StartHelpers
<1>6. CASE BeginStop \/ Release
  <2>1. /\ UNCHANGED <<csv, session>> /\ Stage' = Stage
        /\ pc["goal"] = "idle" \/ pc'["goal"] = pc["goal"]
    BY <1>0, <1>6, StageOfOthers DEF BeginStop, Release, Goto, flagVars
  <2> QED
    BY <1>0, <2>1
<1>7. CASE Bystanders
  <2>1. Stage' = Stage /\ UNCHANGED <<pc, session>>
    BY <1>7, StageOfOthers, BystandersLeaveControl DEF flagVars
  <2>2. csv' = csv \/ CsvWrite \/ CsvExit \/ PushCsv \/ QueueCsv \/ EmptyCsv
    BY <1>7 DEF Bystanders, Writers, Callback, ImageWrite, ImageExit, ImuData, ImageData,
       CheckCsv, SlamFlag, CheckImage, PushImage, DeleteRecord, Quit
  <2>3. csv'.file = csv.file /\ csv'.thread # "none" => csv.thread # "none"
    BY <1>0, <2>2 DEF CsvWrite, CsvExit, PushCsv, QueueCsv, EmptyCsv
  <2> QED
    BY <2>1, <2>2, <2>3, <1>0 DEF CsvWrite, CsvExit, PushCsv, QueueCsv, EmptyCsv
<1>8. ASSUME NEW t \in Threads, TakeOver(t), csv'.thread # "none"
      PROVE  /\ csv'.file = session'
             /\ \/ Stage' \in {"on"} \cup FlushSteps
                \/ pc'["goal"] \in {"open_image", "go"} \cup FlushSteps
  <2>1. /\ UNCHANGED <<csv, session>>
        /\ pc["goal"] # "take" => pc'["goal"] = pc["goal"]
    BY <1>0, <1>8 DEF TakeOver, Goto
  <2>2. Stage' = Stage \/ Stage' = "csv_flush"
    BY <1>8, StageOfStop
  <2> QED
    BY <1>0, <1>8, <2>1, <2>2
<1>9. ASSUME NEW t \in Threads, FlushCsv(t) \/ ClearCsv(t) \/ StopCsv(t)
      PROVE  /\ csv'.file = csv.file /\ csv'.thread = csv.thread /\ session' = session
             /\ \/ Stage' \in FlushSteps
                \/ pc'["goal"] \in FlushSteps
  <2>1. /\ csv'.file = csv.file /\ csv'.thread = csv.thread /\ session' = session
        /\ pc'[t] \in FlushSteps
    BY <1>0, <1>9 DEF FlushCsv, ClearCsv, StopCsv, Goto, flagVars
  <2>2. CASE stateLock = t
    BY <1>0, <2>1, <2>2 DEF OneAtATime
  <2>3. CASE stateLock # t
    BY <1>9, <2>1, <2>3, StageOfStop
  <2> QED
    BY <2>1, <2>2, <2>3
<1>10. ASSUME NEW t \in Threads, JoinCsv(t)
       PROVE  csv'.thread = "none"
  BY <1>0, <1>10 DEF JoinCsv
<1>11. ASSUME NEW t \in Threads,
              StopImage(t) \/ JoinImage(t) \/ CloseImage(t) \/ StopHelpers(t) \/ Finish(t)
       PROVE  csv'.thread = "none"
  <2>1. /\ csv' = csv
        /\ Stage \in {"image_stop", "image_join", "image_clear", "helpers_stop", "finish"}
    BY <1>0, <1>11, StageOfStop DEF StopImage, JoinImage, CloseImage, StopHelpers, Finish
  <2>2. pc["goal"] \notin {"open_image", "go"} \cup FlushSteps
    <3>1. finalizing /\ stateLock # "goal"
      <4>1. Stage # "off" /\ Stage # "on"
        BY <2>1
      <4>2. finalizing
        BY <1>0, <4>1 DEF Stage, OneAtATime
      <4> QED
        BY <4>2 DEF OneAtATime
    <3>2. pc["goal"] \notin StartSteps
      BY <3>1 DEF OneAtATime
    <3>3. pc["goal"] \in FlushSteps => Stage = pc["goal"]
      BY <2>1, <3>1, <1>0 DEF Stage, Stopping, CloseSteps
    <3> QED
      BY <1>0, <2>1, <3>2, <3>3 DEF StartSteps
  <2> QED
    BY <1>0, <2>1, <2>2
<1> QED
  BY Actions, <1>1, <1>2, <1>3, <1>4, <1>5, <1>6, <1>7, <1>8, <1>9, <1>10, <1>11

LEMMA ImagesHeldStep ==
  ASSUME RecordingInv, WritersHeld, Next, NEW m \in ImageModes, image'[m].thread # "none"
  PROVE  /\ image'[m].open /\ image'[m].file = session'
         /\ \/ Stage' \in {"on", "image_stop", "image_join"} \cup FlushSteps
            \/ pc'["goal"] = "go"
<1> USE DEF RecordingInv, WritersHeld
<1>0. /\ image \in [ImageModes -> ImageWriters] /\ pc \in [Threads -> Steps]
      /\ Threads = {"goal", "main"} /\ ImageModes = {"slam", "rgb"}
      /\ FlushSteps = {"csv_flush", "csv_clear", "csv_stop", "csv_join"}
  BY DEF Typed, Threads, ImageModes, FlushSteps
<1> USE DEF ImageWriters
<1>1. CASE BeginStart("goal") \/ OpenCsv("goal")
  <2>1. image' = image /\ pc["goal"] # "go" /\ Stage = "off"
    BY <1>1, StageOfStart DEF BeginStart, OpenCsv
  <2> QED
    BY <1>0, <2>1
<1>2. CASE OpenImage("goal")
  <2>1. /\ Stage = "off" /\ pc["goal"] = "open_image" /\ session' = session
    BY <1>2, StageOfStart DEF OpenImage, flagVars
  <2>2. image[m].thread = "none"
    BY <1>0, <2>1
  <2>3. image' # image
    BY <2>2
  <2>4. /\ wanted.mode \in ImageModes /\ pc'["goal"] = "go"
        /\ image' = [image EXCEPT ![wanted.mode] =
             [@ EXCEPT !.open = TRUE, !.stop = FALSE, !.thread = "running",
                       !.file = session]]
    BY <1>0, <1>2, <2>3 DEF OpenImage, Goto
  <2>5. CASE m = wanted.mode
    BY <1>0, <2>1, <2>4, <2>5
  <2>6. CASE m # wanted.mode
    BY <1>0, <2>2, <2>4, <2>6
  <2> QED
    BY <2>5, <2>6
<1>3. CASE GoOn("goal") \/ StartHelpers("goal")
  <2>1. UNCHANGED <<image, session>> /\ Stage' = "on"
    BY <1>3, StageOfStart DEF GoOn, StartHelpers
  <2> QED
    BY <2>1
<1>4. CASE BeginStop \/ Release
  <2>1. /\ UNCHANGED <<image, session>> /\ Stage' = Stage
        /\ pc["goal"] = "go" => pc'["goal"] = "go"
    BY <1>0, <1>4, StageOfOthers DEF BeginStop, Release, Goto, flagVars
  <2> QED
    BY <2>1
<1>5. CASE Bystanders
  <2>1. Stage' = Stage /\ UNCHANGED <<pc, session>>
    BY <1>5, StageOfOthers, BystandersLeaveControl DEF flagVars
  <2>2. \/ image' = image \/ PushImage
        \/ \E n \in ImageModes : ImageWrite(n) \/ ImageExit(n)
    BY <1>5 DEF Bystanders, Writers, Callback, CsvWrite, CsvExit, ImuData, ImageData,
       CheckCsv, PushCsv, QueueCsv, EmptyCsv, SlamFlag, CheckImage, DeleteRecord, Quit
  <2>3. image[m].thread # "none" /\ UNCHANGED <<image[m].open, image[m].file>>
    BY <1>0, <2>2 DEF PushImage, ImageWrite, ImageExit
  <2> QED
    BY <2>1, <2>3
<1>6. ASSUME NEW t \in Threads, TakeOver(t)
      PROVE  /\ UNCHANGED <<image, session>>
             /\ Stage' = Stage \/ Stage' = "csv_flush"
             /\ pc["goal"] = "go" => pc'["goal"] = "go"
  BY <1>0, <1>6, StageOfStop DEF TakeOver, Goto
<1>7. ASSUME NEW t \in Threads, FlushCsv(t) \/ ClearCsv(t) \/ StopCsv(t) \/ JoinCsv(t)
      PROVE  /\ UNCHANGED <<image, session>>
             /\ Stage' \in {"image_stop"} \cup FlushSteps
  <2>1. /\ UNCHANGED <<image, session>> /\ pc[t] \in FlushSteps
    BY <1>0, <1>7 DEF FlushCsv, ClearCsv, StopCsv, JoinCsv, flagVars
  <2>2. stateLock # t
    <3> SUFFICES ASSUME stateLock = t
                 PROVE  FALSE
      OBVIOUS
    <3>1. Stage = "off" /\ t = "goal"
      BY <1>0, <1>7, StageOfStop DEF OneAtATime
    <3> QED
      BY <1>0, <2>1, <3>1
  <2>3. Stage' = pc'[t] /\ pc'[t] \in {"image_stop"} \cup FlushSteps
    BY <1>0, <1>7, <2>2, StageOfStop DEF FlushCsv, ClearCsv, StopCsv, JoinCsv, Goto
  <2> QED
    BY <2>1, <2>3
<1>8. ASSUME NEW t \in Threads, StopImage(t)
      PROVE  /\ Stage' = "image_join" /\ session' = session
             /\ UNCHANGED <<image[m].open, image[m].file, image[m].thread>>
  BY <1>0, <1>8, StageOfStop DEF StopImage, Goto, flagVars
<1>9. ASSUME NEW t \in Threads, JoinImage(t)
      PROVE  FALSE
  <2>1. CASE m \in OpenImages
    BY <1>0, <1>9, <2>1 DEF JoinImage
  <2>2. CASE m \notin OpenImages
    BY <1>0, <1>9, <2>2 DEF JoinImage, OpenImages
  <2> QED
    BY <2>1, <2>2
<1>10. ASSUME NEW t \in Threads, CloseImage(t) \/ StopHelpers(t) \/ Finish(t)
       PROVE  FALSE
  <2>0. Stage \in {"image_clear", "helpers_stop", "finish"}
    BY <1>10, StageOfStop DEF CloseImage, StopHelpers, Finish
  <2>1. image'[m].thread = image[m].thread
    BY <1>0, <1>10 DEF CloseImage, StopHelpers, Finish
  <2>2. pc["goal"] # "go"
    <3>1. finalizing
      BY <1>0, <2>0 DEF Stage, OneAtATime
    <3> QED
      BY <3>1 DEF OneAtATime, StartSteps
  <2> QED
    BY <1>0, <2>0, <2>1, <2>2
<1> QED
  BY Actions, <1>0, <1>1, <1>2, <1>3, <1>4, <1>5, <1>6, <1>7, <1>8, <1>9, <1>10

LEMMA WritersHeldStep ==
  ASSUME RecordingInv, WritersHeld, Next
  PROVE  WritersHeld'
<1>1. pc'["goal"] = "helpers" => helpers' = {}
  <2> SUFFICES ASSUME pc'["goal"] = "helpers"
               PROVE  helpers' = {}
    OBVIOUS
  <2>0. /\ pc \in [Threads -> Steps] /\ Threads = {"goal", "main"}
    BY DEF RecordingInv, Typed, Threads
  <2>1. CASE BeginStart("goal") \/ OpenCsv("goal") \/ OpenImage("goal") \/ StartHelpers("goal")
             \/ BeginStop
    BY <2>0, <2>1 DEF BeginStart, OpenCsv, FailStart, OpenImage, StartHelpers, BeginStop, Goto
  <2>2. CASE GoOn("goal")
    BY <2>2, StageOfStart DEF GoOn, RecordingInv, HelpersHeld
  <2>3. CASE Release \/ Bystanders
    <3>1. pc'["goal"] = pc["goal"] /\ helpers' = helpers
      BY <2>0, <2>3, BystandersLeaveControl DEF Release, Goto, helperVars
    <3> QED
      BY <3>1 DEF WritersHeld
  <2>4. ASSUME NEW t \in Threads, StopThread(t)
        PROVE  pc'["goal"] = pc["goal"] /\ (helpers' = helpers \/ helpers' = {})
    <3>1. \E step \in {"gone", "idle"} \cup StopSteps : Goto(t, step)
      BY <2>4 DEF StopThread, TakeOver, FlushCsv, ClearCsv, StopCsv, JoinCsv, FailStart,
         StopImage, JoinImage, CloseImage, StopHelpers, Finish, StopSteps
    <3>2. t # "goal"
      BY <2>0, <3>1 DEF Goto, StopSteps
    <3>3. helpers' = helpers \/ helpers' = {}
      BY <2>4 DEF StopThread, TakeOver, FlushCsv, ClearCsv, StopCsv, JoinCsv,
         StopImage, JoinImage, CloseImage, StopHelpers, Finish, helperVars
    <3> QED
      BY <2>0, <3>1, <3>2, <3>3 DEF Goto
  <2> QED
    BY Actions, <2>1, <2>2, <2>3, <2>4 DEF StopThread, WritersHeld
<1> QED
  BY <1>1, CsvHeldStep, ImagesHeldStep DEF WritersHeld

LEMMA PhaseOfStage ==
  ASSUME Typed, OneAtATime
  PROVE  /\ recordFlag <=> Phase = "on"
         /\ Stage = "on" <=> Phase = "on"
         /\ Stage \notin {"on", "off"} <=> Phase = "ending"
         /\ stateLock = "goal" /\ ~recordFlag => Phase = "starting"
<1>1. recordFlag <=> Phase = "on"
  BY DEF Phase
<1>2. Stage = "on" <=> recordFlag
  BY DEF Stage, Stopping, CloseSteps, FlushSteps
<1>3. Stage \notin {"on", "off"} <=> finalizing
  BY DEF Typed, OneAtATime, Stage, Stopping, CloseSteps, FlushSteps, Threads
<1>4. finalizing <=> Phase = "ending"
  BY DEF Typed, OneAtATime, Phase
<1>5. stateLock = "goal" /\ ~recordFlag => Phase = "starting"
  BY DEF OneAtATime, Phase
<1> QED
  BY <1>1, <1>2, <1>3, <1>4, <1>5

\* Nothing that shows from outside.
LEMMA Invisible ==
  ASSUME UNCHANGED <<recordFlag, finalizing, stateLock, session, settled, disk, deleted,
                     helpers \cup leaving>>
  PROVE  UNCHANGED Contract!vars
  BY DEF Contract!vars, Phase, Owed

LEMMA StartKeepsContract ==
  ASSUME RecordingInv, WritersHeld, Typed'
  PROVE  /\ BeginStart("goal") => Contract!Begin
         /\ OpenCsv("goal") => Contract!Start \/ UNCHANGED Contract!vars
         /\ OpenImage("goal") => UNCHANGED Contract!vars
         /\ GoOn("goal") => Contract!Start
         /\ StartHelpers("goal") => Contract!Launch
<1> USE DEF RecordingInv
<1>1. ASSUME BeginStart("goal")
      PROVE  Contract!Begin
  <2>1. Phase = "off" /\ Phase' = "starting"
    BY <1>1 DEF BeginStart, MayStart, Phase
  <2>2. session + 1 \in Sessions
    BY <1>1, RecordingAssumption DEF BeginStart, Typed, Sessions
  <2>3. /\ session' = session + 1 /\ Owed' = Owed
        /\ UNCHANGED <<disk, deleted, helpers \cup leaving>>
    BY <1>1 DEF BeginStart, Owed
  <2> QED
    BY <2>1, <2>2, <2>3 DEF Contract!Begin
<1>2. ASSUME OpenCsv("goal")
      PROVE  Contract!Start \/ UNCHANGED Contract!vars
  <2>1. CASE stateLock' = stateLock
    BY <1>2, <2>1, Invisible DEF OpenCsv
  <2>2. CASE stateLock' # stateLock
    <3>1. Phase = "starting" /\ Phase' = "off"
      <4>1. stateLock = "goal" /\ ~recordFlag /\ ~finalizing
        BY <1>2 DEF OpenCsv, OneAtATime, StartSteps
      <4>2. stateLock' = "free" /\ ~recordFlag' /\ ~finalizing'
        BY <1>2, <2>2, <4>1 DEF OpenCsv, FailStart
      <4> QED
        BY <4>1, <4>2 DEF Phase
    <3>2. UNCHANGED <<session, Owed, disk, deleted, helpers \cup leaving>>
      BY <1>2 DEF OpenCsv, Owed
    <3> QED
      BY <3>1, <3>2 DEF Contract!Start
  <2> QED
    BY <2>1, <2>2
<1>3. ASSUME OpenImage("goal")
      PROVE  UNCHANGED Contract!vars
  BY <1>3, Invisible DEF OpenImage, flagVars
<1>4. ASSUME GoOn("goal")
      PROVE  Contract!Start
  <2>1. Phase = "starting" /\ Phase' = "on"
    <3>1. stateLock = "goal" /\ ~recordFlag
      BY <1>4 DEF GoOn, OneAtATime, StartSteps
    <3>2. Phase' = "on"
      BY <1>4 DEF GoOn, Phase
    <3> QED
      BY <3>1, <3>2, PhaseOfStage
  <2>2. UNCHANGED <<session, Owed, disk, deleted, helpers \cup leaving>>
    BY <1>4 DEF GoOn, Owed
  <2> QED
    BY <2>1, <2>2 DEF Contract!Start
<1>5. ASSUME StartHelpers("goal")
      PROVE  Contract!Launch
  <2>1. Stage = "on" /\ Phase = "on"
    BY <1>5, StageOfStart, PhaseOfStage
  <2>2. helpers \cup leaving = {}
    BY <1>5, <2>1 DEF StartHelpers, WritersHeld, HelpersHeld
  <2>3. (helpers \cup leaving)' \in SUBSET Helpers
    BY DEF Typed
  <2>4. Phase' = Phase
    BY <1>5, <2>1 DEF StartHelpers, Phase
  <2>5. UNCHANGED <<session, Owed, disk, deleted>>
    BY <1>5 DEF StartHelpers, Owed
  <2> QED
    BY <2>1, <2>2, <2>3, <2>4, <2>5 DEF Contract!Launch
<1> QED
  BY <1>1, <1>2, <1>3, <1>4, <1>5

\* A recording is not finished before everything that is owed to it has arrived.
LEMMA FinishedHasAll ==
  ASSUME RecordingInv, Stage = "finish"
  PROVE  session \in deleted \/ Owed[session] \subseteq disk[session]
<1> SUFFICES ASSUME session \notin deleted, NEW x \in Owed[session]
             PROVE  x \in disk[session]
  OBVIOUS
<1>1. x \in settled /\ x.session = session
  BY DEF Owed, RecordingInv, Typed
<1>2. Placed(x)
  BY <1>1 DEF RecordingInv, OnItsWay
<1>3. Kept(x)
  BY <1>2 DEF Placed, FlushSteps
<1> QED
  BY <1>1, <1>3 DEF Kept

LEMMA StopKeepsContract ==
  ASSUME RecordingInv, NEW t \in Threads
  PROVE  /\ TakeOver(t) => Contract!Stop \/ UNCHANGED Contract!vars
         /\ FlushCsv(t) \/ ClearCsv(t) \/ StopCsv(t) => UNCHANGED Contract!vars
         /\ JoinCsv(t) => Contract!Start \/ UNCHANGED Contract!vars
         /\ StopImage(t) \/ JoinImage(t) \/ CloseImage(t) => UNCHANGED Contract!vars
         /\ StopHelpers(t) => Contract!StopHelpers
         /\ Finish(t) => Contract!Finish
<1> USE DEF RecordingInv
<1>1. ASSUME TakeOver(t)
      PROVE  Contract!Stop \/ UNCHANGED Contract!vars
  <2>1. CASE ~recordFlag
    BY <1>1, <2>1, Invisible DEF TakeOver, helperVars
  <2>2. CASE recordFlag
    <3>1. Phase = "on" /\ Phase' = "ending"
      BY <1>1, <2>2 DEF TakeOver, Phase
    <3>2. leaving = {}
      BY <2>2, PhaseOfStage DEF HelpersHeld
    <3>3. (helpers \cup leaving)' = helpers \cup leaving
      BY <1>1, <2>2, <3>2 DEF TakeOver
    <3>4. UNCHANGED <<session, Owed, disk, deleted>>
      BY <1>1 DEF TakeOver, Owed
    <3> QED
      BY <3>1, <3>3, <3>4 DEF Contract!Stop
  <2> QED
    BY <2>1, <2>2
<1>2. ASSUME FlushCsv(t) \/ ClearCsv(t) \/ StopCsv(t)
      PROVE  UNCHANGED Contract!vars
  BY <1>2, Invisible DEF FlushCsv, ClearCsv, StopCsv, flagVars, helperVars
<1>3. ASSUME JoinCsv(t)
      PROVE  Contract!Start \/ UNCHANGED Contract!vars
  <2>1. CASE stateLock # t
    BY <1>3, <2>1, Invisible DEF JoinCsv, helperVars
  <2>2. CASE stateLock = t
    <3>1. stateLock = "goal" /\ ~recordFlag /\ ~finalizing
      BY <1>3, <2>2 DEF JoinCsv, OneAtATime, Threads
    <3>2. stateLock' = "free" /\ ~recordFlag' /\ ~finalizing'
      BY <1>3, <2>2, <3>1 DEF JoinCsv, FailStart
    <3>3. Phase = "starting" /\ Phase' = "off"
      BY <3>1, <3>2 DEF Phase
    <3>4. UNCHANGED <<session, Owed, disk, deleted, helpers \cup leaving>>
      BY <1>3 DEF JoinCsv, Owed, helperVars
    <3> QED
      BY <3>3, <3>4 DEF Contract!Start
  <2> QED
    BY <2>1, <2>2
<1>4. ASSUME StopImage(t) \/ JoinImage(t) \/ CloseImage(t)
      PROVE  UNCHANGED Contract!vars
  BY <1>4, Invisible DEF StopImage, JoinImage, CloseImage, flagVars, helperVars
<1>5. ASSUME StopHelpers(t)
      PROVE  Contract!StopHelpers
  <2>1. Stage = "helpers_stop" /\ Phase = "ending"
    BY <1>5, StageOfStop, PhaseOfStage DEF StopHelpers
  <2>2. (helpers \cup leaving)' = {}
    BY <1>5, <2>1 DEF StopHelpers, HelpersHeld
  <2>3. UNCHANGED <<Phase, session, Owed, disk, deleted>>
    BY <1>5 DEF StopHelpers, flagVars, Phase, Owed
  <2> QED
    BY <2>1, <2>2, <2>3 DEF Contract!StopHelpers
<1>6. ASSUME Finish(t)
      PROVE  Contract!Finish
  <2>1. Stage = "finish" /\ Phase = "ending"
    BY <1>6, StageOfStop, PhaseOfStage
  <2>2. helpers \cup leaving = {}
    BY <2>1 DEF HelpersHeld
  <2>3. Phase' = "off"
    <3>1. ~recordFlag
      BY <2>1, PhaseOfStage
    <3> QED
      BY <1>6, <3>1 DEF Finish, Phase
  <2>4. UNCHANGED <<session, Owed, disk, deleted, helpers \cup leaving>>
    BY <1>6 DEF Finish, Owed, helperVars
  <2> QED
    BY <2>1, <2>2, <2>3, <2>4, FinishedHasAll DEF Contract!Finish
<1> QED
  BY <1>1, <1>2, <1>3, <1>4, <1>5, <1>6

\* What a writer thread has in hand is owed to no other recording.
LEMMA NotOwedToOthers ==
  ASSUME RecordingInv
  PROVE  /\ Queued \subseteq Samples \ Contract!Others
         /\ \A m \in ImageModes : Pushed(m) \subseteq Samples \ Contract!Others
<1>1. ASSUME NEW x \in settled, x \in Queued \/ \E m \in ImageModes : x \in Pushed(m)
      PROVE  x.session = session
  BY <1>1 DEF RecordingInv, OnItsWay, Placed
<1>2. \A x \in Contract!Others : x \in settled /\ x.session # session
  BY DEF Contract!Others, Owed
<1>3. Queued \subseteq Samples
  <2>1. csv.queue \in Seq(Batches)
    BY QueueTypes DEF RecordingInv
  <2> QED
    BY <2>1, ElementsOf DEF Queued, Batches
<1>4. ASSUME NEW m \in ImageModes
      PROVE  Pushed(m) \subseteq Samples
  <2>1. image[m].queue \in Seq(Samples)
    BY QueueTypes DEF RecordingInv
  <2> QED
    BY <2>1, ElementsOf DEF Pushed
<1> QED
  BY <1>1, <1>2, <1>3, <1>4

LEMMA WritersKeepContract ==
  ASSUME RecordingInv, WritersHeld
  PROVE  /\ CsvWrite => Contract!Write \/ UNCHANGED Contract!vars
         /\ CsvExit => UNCHANGED Contract!vars
         /\ \A m \in ImageModes :
              /\ ImageWrite(m) => Contract!Write \/ UNCHANGED Contract!vars
              /\ ImageExit(m) => UNCHANGED Contract!vars
<1> USE DEF RecordingInv
<1>1. ASSUME Stage # "off" \/ pc["goal"] \in {"open_image", "go"} \cup FlushSteps
      PROVE  Phase # "off"
  <2>1. CASE Stage # "off"
    <3>1. Phase \in {"on", "ending"}
      BY <2>1, PhaseOfStage
    <3> QED
      BY <3>1
  <2>2. CASE pc["goal"] \in {"open_image", "go"} \cup FlushSteps
    <3>1. stateLock = "goal" \/ finalizing
      BY <2>2 DEF OneAtATime, Stopping, StartSteps, CloseSteps, Threads
    <3> QED
      BY <3>1 DEF Phase
  <2> QED
    BY <1>1, <2>1, <2>2
<1>2. ASSUME NEW some \in SUBSET (Samples \ Contract!Others),
             disk' = [disk EXCEPT ![session] = @ \cup some], Phase # "off",
             UNCHANGED <<flagVars, helperVars, deleted, settled>>
      PROVE  Contract!Write
  <2>1. UNCHANGED <<Phase, session, Owed, deleted, helpers \cup leaving>>
    BY <1>2 DEF Phase, Owed, flagVars, helperVars
  <2> QED
    BY <1>2, <2>1 DEF Contract!Write
<1>3. ASSUME CsvWrite
      PROVE  Contract!Write \/ UNCHANGED Contract!vars
  <2>1. UNCHANGED <<flagVars, helperVars, deleted, settled>>
    BY <1>3 DEF CsvWrite
  <2>2. CASE disk' = disk
    BY <2>1, <2>2, Invisible DEF flagVars, helperVars
  <2>3. CASE disk' # disk
    <3>1. /\ csv.thread # "none" /\ csv.file = session
          /\ disk' = [disk EXCEPT ![session] = @ \cup Head(csv.queue)]
      BY <1>3, <2>3 DEF CsvWrite, WritersHeld
    <3>2. Phase # "off"
      BY <1>1, <3>1 DEF WritersHeld, FlushSteps
    <3>3. Head(csv.queue) \subseteq Samples \ Contract!Others
      <4>1. csv.queue \in Seq(Batches) /\ csv.queue # <<>>
        BY <1>3 DEF CsvWrite, Typed, CsvWriters
      <4>2. Head(csv.queue) \in Elements(csv.queue)
        BY <4>1, TailElements
      <4> QED
        BY <4>2, NotOwedToOthers DEF Queued
    <3> QED
      BY <1>2, <2>1, <3>1, <3>2, <3>3
  <2> QED
    BY <2>2, <2>3
<1>4. ASSUME CsvExit
      PROVE  UNCHANGED Contract!vars
  BY <1>4, Invisible DEF CsvExit, flagVars, helperVars
<1>5. ASSUME NEW m \in ImageModes, ImageWrite(m)
      PROVE  Contract!Write \/ UNCHANGED Contract!vars
  <2>1. UNCHANGED <<flagVars, helperVars, deleted, settled>>
    BY <1>5 DEF ImageWrite
  <2>2. CASE disk' = disk
    BY <2>1, <2>2, Invisible DEF flagVars, helperVars
  <2>3. CASE disk' # disk
    <3>1. /\ image[m].thread # "none" /\ image[m].file = session
          /\ disk' = [disk EXCEPT ![session] = @ \cup {Head(image[m].queue)}]
      BY <1>5, <2>3 DEF ImageWrite, WritersHeld
    <3>2. Phase # "off"
      BY <1>1, <3>1 DEF WritersHeld, FlushSteps
    <3>3. {Head(image[m].queue)} \subseteq Samples \ Contract!Others
      <4>1. image[m].queue \in Seq(Samples) /\ image[m].queue # <<>>
        <5>1. image[m] \in ImageWriters
          BY DEF Typed
        <5> QED
          BY <1>5, <5>1 DEF ImageWrite, ImageWriters
      <4>2. Head(image[m].queue) \in Elements(image[m].queue)
        BY <4>1, TailElements
      <4> QED
        BY <4>2, NotOwedToOthers DEF Pushed
    <3> QED
      BY <1>2, <2>1, <3>1, <3>2, <3>3
  <2> QED
    BY <2>2, <2>3
<1>6. ASSUME NEW m \in ImageModes, ImageExit(m)
      PROVE  UNCHANGED Contract!vars
  BY <1>6, Invisible DEF ImageExit, flagVars, helperVars
<1> QED
  BY <1>3, <1>4, <1>5, <1>6

\* A callback that ends while its recording is on makes its sample owed.
LEMMA CallbackKeepsContract ==
  ASSUME RecordingInv, Callback
  PROVE  Contract!Arrive \/ UNCHANGED Contract!vars
<1> USE DEF RecordingInv
<1>1. UNCHANGED <<flagVars, helperVars, deleted, disk>>
  BY DEF Callback, CheckCsv, PushCsv, QueueCsv, EmptyCsv, SlamFlag, CheckImage, PushImage
<1>2. CASE settled' = settled
  BY <1>1, <1>2, Invisible DEF flagVars, helperVars
<1>3. CASE settled' # settled
  <2> DEFINE x == data.sample
  <2>1. Settle /\ data.pc # "idle"
    BY <1>3 DEF Callback, CheckCsv, PushCsv, QueueCsv, EmptyCsv, SlamFlag, CheckImage, PushImage
  <2>2. recordFlag /\ x.session = session /\ settled' = settled \cup {x}
    BY <1>3, <2>1 DEF Settle
  <2>3. x \in Samples /\ \A s \in Sessions \ {session} : x \notin disk[s]
    BY <2>1, <2>2 DEF UnderWay, Live
  <2>4. \A s \in Sessions \ {session} : x \notin Owed[s]
    BY <2>2 DEF Owed
  <2>5. Owed' = [Owed EXCEPT ![session] = @ \cup {x}]
    <3> HIDE DEF x
    <3> QED
      BY <2>2 DEF Owed
  <2>6. Phase = "on" /\ UNCHANGED <<Phase, session, disk, deleted, helpers \cup leaving>>
    BY <1>1, <2>2 DEF Phase, flagVars, helperVars
  <2> QED
    BY <2>3, <2>4, <2>5, <2>6 DEF Contract!Arrive
<1> QED
  BY <1>2, <1>3

LEMMA OthersKeepContract ==
  ASSUME RecordingInv
  PROVE  /\ BeginStop \/ Release \/ ImuData \/ ImageData \/ Quit => UNCHANGED Contract!vars
         /\ DeleteRecord => Contract!Remove
<1>1. ASSUME BeginStop \/ Release \/ ImuData \/ ImageData \/ Quit
      PROVE  UNCHANGED Contract!vars
  BY <1>1, Invisible
     DEF BeginStop, Release, ImuData, ImageData, Quit, flagVars, helperVars
<1>2. ASSUME DeleteRecord
      PROVE  Contract!Remove
  <2>1. PICK s \in 1..session : /\ deleted' = deleted \cup {s}
                                /\ disk' = [disk EXCEPT ![s] = {}]
    BY <1>2 DEF DeleteRecord
  <2>2. s \in Sessions /\ s <= session
    BY RecordingAssumption DEF RecordingInv, Typed, Sessions
  <2>3. UNCHANGED <<Phase, session, Owed, helpers \cup leaving>>
    BY <1>2 DEF DeleteRecord, Phase, Owed, flagVars, helperVars
  <2> QED
    BY <2>1, <2>2, <2>3 DEF Contract!Remove
<1> QED
  BY <1>1, <1>2

LEMMA StepKeepsContract ==
  ASSUME RecordingInv, WritersHeld, Typed', [Next]_vars
  PROVE  [Contract!Next]_(Contract!vars)
<1>1. CASE UNCHANGED vars
  BY <1>1, Invisible DEF vars
<1>2. CASE Next
  BY <1>2, Actions, StartKeepsContract, StopKeepsContract, WritersKeepContract,
     CallbackKeepsContract, OthersKeepContract
     DEF Contract!Next, Bystanders, Writers
<1> QED
  BY <1>1, <1>2

\* Commands, callbacks and writer threads of MainSubnode, with their locks and buffers,
\* together keep what RecordingContract promises: one recording at a time, finished only
\* when everything that arrived while it was on is in its folder and its helpers are gone.
THEOREM RecordingKeepsContract == Spec => ContractSpec
<1>1. Init => WritersHeld /\ Contract!Init
  <2> SUFFICES ASSUME Init
               PROVE  WritersHeld /\ Contract!Init
    OBVIOUS
  <2>1. WritersHeld
    BY DEF Init, WritersHeld, Threads
  <2>2. Phase = "off" /\ Owed = [s \in Sessions |-> {}]
    BY DEF Init, Phase, Owed
  <2> QED
    BY <2>1, <2>2 DEF Init, Contract!Init
<1>2. RecordingInv /\ WritersHeld /\ [Next]_vars => WritersHeld'
  <2>1. RecordingInv /\ WritersHeld /\ UNCHANGED vars => WritersHeld'
    BY DEF vars, WritersHeld, Stage, Stopping
  <2> QED
    BY <2>1, WritersHeldStep
<1>3. Spec => []WritersHeld
  BY <1>1, <1>2, InvHolds, PTL DEF Spec
<1>4. RecordingInv /\ WritersHeld /\ RecordingInv' /\ [Next]_vars
      => [Contract!Next]_(Contract!vars)
  BY StepKeepsContract DEF RecordingInv
<1> QED
  BY <1>1, <1>3, <1>4, InvHolds, PTL DEF Spec, ContractSpec, Contract!Spec

=============================================================================
