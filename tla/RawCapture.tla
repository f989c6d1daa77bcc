----------------------------- MODULE RawCapture -----------------------------
(***************************************************************************)
(* The raw capture of the BSP subnode.  capture_raw_frame takes the data   *)
(* of the last RGB frame, releases the device, reboots the glasses over    *)
(* SSH, lets cameratest take one shot on them, fetches its files and has   *)
(* the glasses rebooted again by a detached thread, while it already       *)
(* answers.  Commands take turns; frames, that thread and the glasses do   *)
(* not wait for them.                                                      *)
(*                                                                         *)
(* Frames, shots and file names are numbers.  The device commands are      *)
(* steps here (BspDevice has their parts), and contents of rows other than *)
(* the shot are left out.                                                  *)
(***************************************************************************)
EXTENDS Naturals

CONSTANTS
  MaxRgbFrames,  \* bound: RGB frames of the glasses
  MaxCaptures,   \* bound: captures
  MaxCommands,   \* bound: other commands of the subnode
  MaxReboots     \* bound: reboots of the glasses by anyone else

ASSUME CaptureAssumption ==
  /\ MaxRgbFrames \in Nat /\ MaxCaptures \in Nat
  /\ MaxCommands \in Nat /\ MaxReboots \in Nat

VARIABLES
  device,   \* isInitialized_, isStarted_, cameraMode_, sshRequired_, latestRgbFrameMeta_
  glasses,  \* whether they are up and stream; the files of cameratest on them
  capture,  \* the capture that runs
  reboots,  \* detached threads that have not run their command yet
  disk,     \* the files of the data set, the rows of its text files
  used      \* events used up

captureVars == <<device, glasses, capture, reboots, disk, used>>

RgbFrames == 1..MaxRgbFrames
Shots == 1..MaxCaptures
\* A file is named by the time of a frame or, without one, by the clock.
NameOfFrame(frame) == frame
NameByClock(n) == MaxRgbFrames + n
Names == 1..(MaxRgbFrames + MaxCaptures)

Stages == {"idle", "release", "reboot", "boot", "shoot", "fetch", "sidecars", "finish"}
Rows == [name : Names, shot : 0..MaxCaptures]

CaptureTypeOK ==
  /\ device \in [initialized : BOOLEAN, started : BOOLEAN, rgb : BOOLEAN,
                 ssh : BOOLEAN, meta : {0} \cup RgbFrames]
  /\ glasses \in [up : BOOLEAN, streams : BOOLEAN,
                  raw : {0} \cup Shots, frame : {0} \cup Shots]
  /\ capture \in [stage : Stages, name : {0} \cup Names, meta : {0} \cup RgbFrames,
                  released : BOOLEAN]
  /\ reboots \in Nat
  /\ disk \in [raw : SUBSET Rows, frames : [Rows -> Nat], metadata : [Names -> Nat],
               info : Nat, config : Nat]
  /\ used \in [frames : 0..MaxRgbFrames, captures : 0..MaxCaptures,
               commands : 0..MaxCommands, reboots : 0..MaxReboots]

Idle == [stage |-> "idle", name |-> 0, meta |-> 0, released |-> FALSE]

CaptureInit ==
  /\ device = [initialized |-> FALSE, started |-> FALSE, rgb |-> FALSE,
               ssh |-> TRUE, meta |-> 0]
  /\ glasses = [up |-> TRUE, streams |-> FALSE, raw |-> 0, frame |-> 0]
  /\ capture = Idle
  /\ reboots = 0
  /\ disk = [raw |-> {}, frames |-> [r \in Rows |-> 0],
             metadata |-> [n \in Names |-> 0], info |-> 0, config |-> 0]
  /\ used = [frames |-> 0, captures |-> 0, commands |-> 0, reboots |-> 0]

Down(g) == [g EXCEPT !.up = FALSE, !.streams = FALSE]

---------------------------------------------------------------------------
(* The glasses and the main thread                                          *)

\* onCamData: only RGB frames are remembered.
NewFrame ==
  /\ glasses.streams /\ used.frames < MaxRgbFrames
  /\ used' = [used EXCEPT !.frames = @ + 1]
  /\ device' = IF device.rgb THEN [device EXCEPT !.meta = used.frames + 1] ELSE device
  /\ UNCHANGED <<glasses, capture, reboots, disk>>

\* startAsyncRebootRequest's thread: the request gets through or not.
AsyncReboot ==
  /\ reboots > 0
  /\ reboots' = reboots - 1
  /\ glasses' \in {glasses, Down(glasses)}
  /\ UNCHANGED <<device, capture, disk, used>>

\* The power key, an empty battery, the cable.
GlassesReboot ==
  /\ glasses.up /\ used.reboots < MaxReboots
  /\ used' = [used EXCEPT !.reboots = @ + 1]
  /\ glasses' = Down(glasses)
  /\ UNCHANGED <<device, capture, reboots, disk>>

GlassesBoot ==
  /\ ~glasses.up
  /\ glasses' = [glasses EXCEPT !.up = TRUE]
  /\ UNCHANGED <<device, capture, reboots, disk, used>>

---------------------------------------------------------------------------
(* Other commands of the subnode                                            *)

Command ==
  /\ capture.stage = "idle" /\ used.commands < MaxCommands
  /\ used' = [used EXCEPT !.commands = @ + 1]
  /\ UNCHANGED <<capture, reboots>>

Released(d) == [d EXCEPT !.initialized = FALSE, !.started = FALSE, !.rgb = FALSE,
                         !.meta = 0]

\* initialize(): what fails before the glasses are created or opened leaves the
\* data of the last frame, what fails later or throws releases the device.
InitDevice ==
  /\ Command
  /\ \E ssh \in BOOLEAN :
       LET begun == [device EXCEPT !.initialized = FALSE, !.started = FALSE, !.ssh = ssh]
       IN \/ /\ glasses.up
             /\ device' = [begun EXCEPT !.initialized = TRUE]
             /\ glasses' = [glasses EXCEPT !.streams = FALSE]
          \/ device' \in {begun, Released(begun)} /\ UNCHANGED glasses
  /\ UNCHANGED disk

StartDevice ==
  /\ Command
  /\ device.initialized /\ ~device.started /\ glasses.up
  /\ \E rgb \in BOOLEAN :
       device' = [device EXCEPT !.started = TRUE, !.rgb = rgb]
  /\ glasses' = [glasses EXCEPT !.streams = TRUE]
  /\ UNCHANGED disk

\* A stop that fails leaves the sensors and the flag on.
StopDevice ==
  /\ Command
  /\ \/ /\ device' = [device EXCEPT !.started = FALSE]
        /\ glasses' = [glasses EXCEPT !.streams = FALSE]
     \/ UNCHANGED <<device, glasses>>
  /\ UNCHANGED disk

ReleaseDevice ==
  /\ Command
  /\ device' = Released(device)
  /\ glasses' = [glasses EXCEPT !.streams = FALSE]
  /\ UNCHANGED disk

\* onRecordStopped: saveRecordInfo writes even when the glasses do not answer,
\* fetchGlassConfig does not.
RecordStopped ==
  /\ Command /\ device.ssh
  /\ disk' \in {[disk EXCEPT !.info = @ + 1]} \cup
       (IF glasses.up THEN {[disk EXCEPT !.info = @ + 1, !.config = @ + 1]} ELSE {})
  /\ UNCHANGED <<device, glasses>>

---------------------------------------------------------------------------
(* cmdCaptureRawFrame                                                       *)

Exists(name) == \E row \in disk.raw : row.name = name

SkipsExisting(name) == Exists(name)

\* Refused, answered by the file that is there already, or begun.
BeginCapture ==
  /\ capture.stage = "idle" /\ used.captures < MaxCaptures
  /\ device.ssh
  /\ used' = [used EXCEPT !.captures = @ + 1]
  /\ \E direct \in BOOLEAN :
       /\ direct \/ (device.started /\ device.rgb /\ device.meta # 0)
       /\ LET name == IF device.meta # 0 THEN NameOfFrame(device.meta)
                                         ELSE NameByClock(used.captures + 1)
          IN /\ ~SkipsExisting(name)
             /\ capture' = [stage |-> IF device.started /\ ~direct THEN "release" ELSE "shoot",
                            name |-> name, meta |-> device.meta,
                            released |-> device.started /\ ~direct]
  /\ UNCHANGED <<device, glasses, reboots, disk>>

ToStage(stage) == capture' = [capture EXCEPT !.stage = stage]
Fails == capture' = Idle

ReleaseForCapture ==
  /\ capture.stage = "release"
  /\ device' = Released(device)
  /\ glasses' = [glasses EXCEPT !.streams = FALSE]
  /\ ToStage("reboot")
  /\ UNCHANGED <<reboots, disk, used>>

\* The command gets through or not; a timeout counts as a failure even though
\* the glasses do reboot.
RebootBefore ==
  /\ capture.stage = "reboot"
  /\ \/ glasses.up /\ glasses' = Down(glasses) /\ (ToStage("boot") \/ Fails)
     \/ Fails /\ UNCHANGED glasses
  /\ UNCHANGED <<device, reboots, disk, used>>

\* waitUntilServerStarts, with its deadline.
WaitForBoot ==
  /\ capture.stage = "boot"
  /\ (glasses.up /\ ToStage("shoot")) \/ Fails
  /\ UNCHANGED <<device, glasses, reboots, disk, used>>

\* Faulty variant: files of an earlier shot stay on the glasses.
Uncleaned == glasses

\* capture_raw_frame.sh removes the files of the last shot first, unless it is told
\* not to, which no caller does.
Cleaned == [glasses EXCEPT !.raw = 0, !.frame = 0]

\* A shot may come without its frame file; a script that fails may have got anywhere.
Shoot ==
  /\ capture.stage = "shoot"
  /\ LET shot == used.captures
         whole == [Cleaned EXCEPT !.raw = shot, !.frame = shot]
         bare == [Cleaned EXCEPT !.raw = shot]
     IN \/ glasses.up /\ glasses' \in {whole, bare} /\ ToStage("fetch")
        \/ glasses.up /\ glasses' \in {Cleaned, whole, bare} /\ Fails
        \/ Fails /\ UNCHANGED glasses
  /\ UNCHANGED <<device, reboots, disk, used>>

Without(name) == {row \in disk.raw : row.name # name}

\* A copy that fails is removed.
FetchRaw ==
  /\ capture.stage = "fetch"
  /\ \/ /\ glasses.up /\ glasses.raw # 0
        /\ disk' = [disk EXCEPT !.raw = Without(capture.name) \cup
                                   {[name |-> capture.name, shot |-> glasses.raw]}]
        /\ ToStage("sidecars")
     \/ /\ disk' = [disk EXCEPT !.raw = Without(capture.name)]
        /\ Fails
  /\ UNCHANGED <<device, glasses, reboots, used>>

\* frame.txt and glass_timestamp.txt get a row when the frame file comes.
FetchSidecars ==
  /\ capture.stage = "sidecars"
  /\ \/ /\ glasses.up /\ glasses.frame # 0
        /\ disk' = [disk EXCEPT !.frames[[name |-> capture.name,
                                          shot |-> glasses.frame]] = @ + 1]
     \/ UNCHANGED disk
  /\ ToStage("finish")
  /\ UNCHANGED <<device, glasses, reboots, used>>

\* metadata.txt, and the thread that reboots the glasses.
FinishCapture ==
  /\ capture.stage = "finish"
  /\ disk' = IF capture.meta # 0 THEN [disk EXCEPT !.metadata[capture.name] = @ + 1]
                                 ELSE disk
  /\ reboots' = IF capture.released THEN reboots + 1 ELSE reboots
  /\ capture' = Idle
  /\ UNCHANGED <<device, glasses, used>>

CaptureStep ==
  \/ ReleaseForCapture \/ RebootBefore \/ WaitForBoot \/ Shoot
  \/ FetchRaw \/ FetchSidecars \/ FinishCapture

CaptureNext ==
  \/ NewFrame \/ AsyncReboot \/ GlassesReboot \/ GlassesBoot
  \/ InitDevice \/ StartDevice \/ StopDevice \/ ReleaseDevice \/ RecordStopped
  \/ BeginCapture \/ CaptureStep

CaptureSpec == CaptureInit /\ [][CaptureNext]_captureVars

---------------------------------------------------------------------------
(* Properties                                                               *)

\* What is stored under one name is of one shot: the raw file and its rows, of
\* which there is at most one in each text file, whatever reboots, failures and
\* repeated captures of the same frame come in between.
OneShotPerName ==
  /\ \A a, b \in disk.raw : a.name = b.name => a = b
  /\ \A name \in Names : disk.metadata[name] <= 1
  /\ \A row \in Rows :
       disk.frames[row] > 0 => disk.frames[row] = 1 /\ row \in disk.raw
=============================================================================
