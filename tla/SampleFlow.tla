----------------------------- MODULE SampleFlow -----------------------------
(***************************************************************************)
(* Samples on their way to the page: the subscriber threads of             *)
(* DataReceiverProcess thin out the IMU stream and put what is left into a *)
(* bounded queue; DataReceiverManager polls it with a timer of the user    *)
(* interface thread, in two critical sections, and keeps the latest value  *)
(* of each name and, for names that are subscribed, a curve that is read   *)
(* by taking it away.                                                      *)
(*                                                                         *)
(* One IMU stream and the camera stand for all names.  Times are in ticks; *)
(* the times of IMU samples are the glasses' own.  Values, measured        *)
(* frequencies and custom data are left out; the receiver is started once, *)
(* with the page that owns it.                                             *)
(***************************************************************************)
EXTENDS Integers, Sequences

CONSTANTS
  Interval,            \* imuSendInterval_ and downsampleInterval_, in ticks
  Slack,               \* a step back by more than this (1 s) is a restart
  QueueLimit,          \* maxPendingEmitCount_
  CurveLimit,          \* maxBufferSize_
  SmallBatch,          \* items taken by a poll that has found few of them
  MaxTime,             \* bound: time of the glasses since they were started
  MaxSamples,          \* bound: IMU samples
  MaxCameraFrames,     \* bound: camera messages
  MaxGlassesRestarts,  \* bound: restarts of the glasses
  MaxClicks            \* bound: subscriptions and reads of the curve

ASSUME FlowAssumption ==
  /\ {Interval, Slack, QueueLimit, CurveLimit, SmallBatch} \subseteq Nat \ {0}
  /\ {MaxTime, MaxSamples, MaxCameraFrames, MaxGlassesRestarts, MaxClicks} \subseteq Nat

VARIABLES
  stream,   \* time of the glasses and samples received
  lastSend, \* lastSendTime_ of the IMU stream
  pending,  \* pendingEmits_
  sent,     \* history: name -> number of its last item put into the queue, items since
  batch,    \* maxBatchSize of a poll between its two critical sections, 0 outside
  latest,   \* latestData_
  subscribed, curve, curveTime,  \* displayBuffer_ and lastBufferTimestamp_
  taken,    \* history: time of the last sample taken from the curve
  used      \* events used up

curveVars == <<subscribed, curve, curveTime, taken>>
dataVars == <<stream, lastSend, pending, sent, batch, latest, curveVars, used>>

Names == {"imu", "camera"}
Items == [name : Names, number : Nat, time : Nat]
NoTime == -1

DataTypeOK ==
  /\ stream \in [time : 0..MaxTime, number : 0..MaxSamples]
  /\ lastSend \in 0..MaxTime
  /\ pending \in Seq(Items) /\ Len(pending) <= QueueLimit
  /\ sent \in [Names -> [number : Nat, since : 0..QueueLimit]]
  /\ batch \in Nat
  /\ latest \in [Names -> [number : Nat, time : Nat]]
  /\ subscribed \in BOOLEAN
  /\ curve \in Seq(0..MaxTime) /\ Len(curve) <= CurveLimit
  /\ curveTime \in {NoTime} \cup 0..MaxTime
  /\ taken \in {NoTime} \cup 0..MaxTime
  /\ used \in [frames : 0..MaxCameraFrames, restarts : 0..MaxGlassesRestarts,
               clicks : 0..MaxClicks]

DataInit ==
  /\ stream = [time |-> 0, number |-> 0]
  /\ lastSend = 0
  /\ pending = <<>>
  /\ sent = [n \in Names |-> [number |-> 0, since |-> 0]]
  /\ batch = 0
  /\ latest = [n \in Names |-> [number |-> 0, time |-> 0]]
  /\ subscribed = FALSE /\ curve = <<>> /\ curveTime = NoTime /\ taken = NoTime
  /\ used = [frames |-> 0, restarts |-> 0, clicks |-> 0]

---------------------------------------------------------------------------
(* Subscriber threads                                                       *)

\* Faulty variant: a full queue takes nothing more.
DropNewest(queue, item) ==
  IF Len(queue) < QueueLimit THEN Append(queue, item) ELSE queue

\* A full queue drops its oldest item.
EnqueuePendingEmit(queue, item) ==
  LET longer == Append(queue, item)
  IN IF Len(longer) > QueueLimit THEN Tail(longer) ELSE longer

Sent(name, number) ==
  sent' = [n \in Names |->
    IF n = name THEN [number |-> number, since |-> 0]
    ELSE [sent[n] EXCEPT !.since = IF @ < QueueLimit THEN @ + 1 ELSE @]]

Due(time) == time - lastSend >= Interval

\* onImuRawReceived; a message that gets lost leaves a gap in the times.
ImuReceived ==
  /\ stream.number < MaxSamples
  /\ \E gap \in 1..2 :
       LET time == stream.time + gap
           number == stream.number + 1
       IN /\ time <= MaxTime
          /\ stream' = [time |-> time, number |-> number]
          /\ IF Due(time)
               THEN /\ lastSend' = time
                    /\ pending' = EnqueuePendingEmit(pending,
                         [name |-> "imu", number |-> number, time |-> time])
                    /\ Sent("imu", number)
               ELSE UNCHANGED <<lastSend, pending, sent>>
  /\ UNCHANGED <<batch, latest, curveVars, used>>

\* handleCameraDataLight; the frames come with times of the same clock.
CameraReceived ==
  /\ used.frames < MaxCameraFrames
  /\ used' = [used EXCEPT !.frames = @ + 1]
  /\ pending' = EnqueuePendingEmit(pending,
       [name |-> "camera", number |-> used.frames + 1, time |-> stream.time])
  /\ Sent("camera", used.frames + 1)
  /\ UNCHANGED <<stream, lastSend, batch, latest, curveVars>>

\* The glasses have been up longer than Slack when they restart, as any that a
\* user has seen.
GlassesRestart ==
  /\ stream.time > Slack /\ used.restarts < MaxGlassesRestarts
  /\ used' = [used EXCEPT !.restarts = @ + 1]
  /\ stream' = [stream EXCEPT !.time = 0]
  /\ UNCHANGED <<lastSend, pending, sent, batch, latest, curveVars>>

---------------------------------------------------------------------------
(* The user interface thread                                                *)

\* pollReceiverData counts what is there and later takes that much or more.
BeginPoll ==
  /\ batch = 0 /\ pending # <<>>
  /\ batch' = IF Len(pending) > SmallBatch THEN QueueLimit ELSE SmallBatch
  /\ UNCHANGED <<stream, lastSend, pending, sent, latest, curveVars, used>>

\* applyDataUpdate on the curve c = [points, last, previous].
WithPoint(c, time) ==
  LET back == c.previous > 0 /\ time < c.previous - Slack
      points == IF back THEN <<>> ELSE c.points
      last == IF back THEN NoTime ELSE c.last
      appended == [points |-> Append(points, time), last |-> time, previous |-> time]
  IN CASE last = NoTime -> appended
       [] last # NoTime /\ time < last - Slack ->
            [appended EXCEPT !.points = <<time>>]
       [] last # NoTime /\ time >= last - Slack /\ time - last < Interval ->
            [points |-> IF points = <<>> THEN points
                        ELSE [points EXCEPT ![Len(points)] = time],
             last |-> last, previous |-> time]
       [] OTHER -> appended

Newest(s) == IF Len(s) > CurveLimit THEN Tail(s) ELSE s

\* The items of a name among the first of the queue, and the last of them.
Of(name, size) == {i \in 1..size : pending[i].name = name}
LastOf(name, size) ==
  pending[CHOOSE i \in Of(name, size) : \A j \in Of(name, size) : j <= i]

\* One item applied to the curve c.
Applied(c, item) ==
  IF item.name # "imu" THEN c
  ELSE LET d == WithPoint(c, item.time) IN [d EXCEPT !.points = Newest(@)]

\* The curve after the first items of the queue, one after the other.
CurveAfter(size) ==
  LET after[k \in 0..size] ==
        IF k = 0
          THEN [points |-> curve, last |-> curveTime, previous |-> latest["imu"].time]
          ELSE Applied(after[k - 1], pending[k])
  IN after[size]

\* A name that is not subscribed is applied once a poll, with its last item, the
\* camera after all others.
Poll ==
  /\ batch > 0
  /\ LET size == IF batch < Len(pending) THEN batch ELSE Len(pending)
         after == CurveAfter(size)
     IN /\ pending' = SubSeq(pending, size + 1, Len(pending))
        /\ latest' = [n \in Names |->
             IF Of(n, size) = {} THEN latest[n]
             ELSE [number |-> LastOf(n, size).number, time |-> LastOf(n, size).time]]
        /\ IF subscribed
             THEN curve' = after.points /\ curveTime' = after.last
             ELSE UNCHANGED <<curve, curveTime>>
  /\ batch' = 0
  /\ UNCHANGED <<stream, lastSend, sent, subscribed, taken, used>>

Click == /\ batch = 0 /\ used.clicks < MaxClicks
         /\ used' = [used EXCEPT !.clicks = @ + 1]
         /\ UNCHANGED <<stream, lastSend, pending, sent, batch, latest>>

SubscribeData ==
  /\ Click
  /\ subscribed' = TRUE /\ curveTime' = NoTime
  /\ UNCHANGED <<curve, taken>>

UnsubscribeData ==
  /\ Click
  /\ subscribed' = FALSE /\ curve' = <<>> /\ curveTime' = NoTime
  /\ UNCHANGED taken

\* Faulty variant: the curve is left in place.
LeftInPlace == curve

\* What is left in the buffer after it has been read.
Consumed == <<>>

GetDisplayBuffer ==
  /\ Click
  /\ curve # <<>>
  /\ taken' = curve[Len(curve)]
  /\ curve' = Consumed
  /\ UNCHANGED <<subscribed, curveTime>>

DataNext ==
  \/ ImuReceived \/ CameraReceived \/ GlassesRestart
  \/ BeginPoll \/ Poll
  \/ SubscribeData \/ UnsubscribeData \/ GetDisplayBuffer

DataSpec == DataInit /\ [][DataNext]_dataVars

---------------------------------------------------------------------------
(* Properties                                                               *)

\* The newest item of a name reaches the page: it is in the queue or the latest one
\* there, whatever was dropped, thinned out or merged.  Only a name after whose
\* item QueueLimit others have been put into the queue may have lost it.
NewestIsKept ==
  \A n \in Names :
    \/ sent[n].since = QueueLimit
    \/ latest[n].number = sent[n].number
    \/ \E i \in DOMAIN pending :
         pending[i].name = n /\ pending[i].number = sent[n].number

\* The curve goes forward in time and no sample of it is read twice, across restarts
\* of the glasses, subscriptions and reads.
CurveIsOrdered ==
  /\ \A i, j \in DOMAIN curve : i < j => curve[i] < curve[j]
  /\ \A i \in DOMAIN curve : taken < curve[i]
=============================================================================
