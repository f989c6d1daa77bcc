--------------------------- MODULE CameraPreview ---------------------------
(***************************************************************************)
(* Camera frames on their way from the glasses to the screen: the shared   *)
(* memory ring that the subnode process writes (CameraSharedMemoryWriter), *)
(* the preview thread of the application that reads it without a lock      *)
(* (CameraSharedMemoryReader, CameraDisplayThread) and the UI thread that  *)
(* shows what the preview thread sends.  One camera; the cameras share     *)
(* nothing.                                                                *)
(*                                                                         *)
(* A slot holds Parts pieces, the metadata first and then the pixels, and  *)
(* every piece carries the frame it belongs to, so that a copy made of two *)
(* frames can be told from a whole one.                                    *)
(***************************************************************************)
EXTENDS Integers, FiniteSets

CONSTANTS
  SlotCount,     \* kCameraShmSlotCount
  Parts,         \* pieces in which a slot is written and read
  MaxFrames,     \* bound: frames a writer process writes
  MaxRestarts,   \* bound: restarts of the writer process
  MaxToggles     \* bound: restarts of the preview thread

ASSUME PreviewAssumption ==
  /\ SlotCount \in Nat \ {0}
  /\ Parts \in Nat \ {0}
  /\ MaxFrames \in Nat
  /\ MaxRestarts \in Nat
  /\ MaxToggles \in Nat

Slots == 0..(SlotCount - 1)
Pieces == 1..Parts

VARIABLES
  slotSeq,    \* slotSeqs_[cam][slot]
  slot,       \* the pieces in buffers_[cam][slot]
  frameSeq,   \* frameSeq_[cam] of the writer
  writer,     \* where writeFrame or create stands
  run,        \* which writer process this is
  lastSeq,    \* lastFrameSeq_[cam] of the preview thread
  reader,     \* where readLatestFrame and processCamera stand
  uiPending,  \* uiPending_[cam]
  uiQueue,    \* frames sent to the UI thread and not handled yet
  toggles     \* how often the preview was restarted

ringVars == <<slotSeq, slot, frameSeq, writer, run>>
readerVars == <<lastSeq, reader>>
uiVars == <<uiPending, uiQueue, toggles>>
vars == <<slotSeq, slot, frameSeq, writer, run, lastSeq, reader, uiPending,
          uiQueue, toggles>>

\* A frame is named by its writer process and its sequence number; what
\* memset leaves in a slot is the blank frame of the process.
Frame(r, k) == [run |-> r, seq |-> k]
Frames == [run : Nat, seq : Nat]
SlotOf(k) == k % SlotCount

WriterStates == [pc : {"reset", "clear", "ready"}, pos : Nat]
ReaderStates == [pc : {"idle", "scan", "copy", "verify", "got", "emit"},
                 pos : Nat, seq : Nat, slot : Slots \cup {-1}, run : Int,
                 seen : Nat, view : [Pieces -> Frames]]

\* The numbers are counters, slots and pieces hold frames, the program
\* counters stay in their ranges.
TypeOK ==
  /\ slotSeq \in [Slots -> Nat]
  /\ slot \in [Slots -> [Pieces -> Frames]]
  /\ frameSeq \in Nat
  /\ writer \in WriterStates
  /\ run \in Nat
  /\ lastSeq \in Nat
  /\ reader \in ReaderStates
  /\ uiPending \in BOOLEAN
  /\ uiQueue \in Nat
  /\ toggles \in Nat

\* The first writer has created the segment; the preview has been switched on.
Init ==
  /\ slotSeq = [s \in Slots |-> 0]
  /\ slot = [s \in Slots |-> [p \in Pieces |-> Frame(0, 0)]]
  /\ frameSeq = 0
  /\ writer = [pc |-> "ready", pos |-> 0]
  /\ run = 0
  /\ lastSeq = 0
  /\ reader = [pc |-> "idle", pos |-> 0, seq |-> 0, slot |-> -1, run |-> 0,
               seen |-> 0, view |-> [p \in Pieces |-> Frame(0, 0)]]
  /\ uiPending = FALSE
  /\ uiQueue = 0
  /\ toggles = 0

---------------------------------------------------------------------------
(* Writer process *)

\* writeFrame copies the metadata and the pixels into the slot of the next
\* frame, whose old sequence number stays published meanwhile.
Target == SlotOf(frameSeq + 1)

WritePiece ==
  /\ writer.pc = "ready"
  /\ frameSeq < MaxFrames
  /\ writer.pos < Parts
  /\ slot' = [slot EXCEPT ![Target][writer.pos + 1] = Frame(run, frameSeq + 1)]
  /\ writer' = [writer EXCEPT !.pos = @ + 1]
  /\ UNCHANGED <<slotSeq, frameSeq, run, readerVars, uiVars>>

\* Faulty variant: the slot's number is published after its metadata.
PublishEarly ==
  /\ writer.pc = "ready"
  /\ writer.pos = 1
  /\ slotSeq' = [slotSeq EXCEPT ![Target] = frameSeq + 1]
  /\ frameSeq' = frameSeq + 1
  /\ writer' = [writer EXCEPT !.pos = 0]
  /\ UNCHANGED <<slot, run, readerVars, uiVars>>

Publish ==
  /\ writer.pc = "ready"
  /\ writer.pos = Parts
  /\ slotSeq' = [slotSeq EXCEPT ![Target] = frameSeq + 1]
  /\ frameSeq' = frameSeq + 1
  /\ writer' = [writer EXCEPT !.pos = 0]
  /\ UNCHANGED <<slot, run, readerVars, uiVars>>

\* The subnode process dies anywhere in writeFrame and a new one takes over
\* the segment that the attached reader keeps alive.
RestartWriter ==
  /\ run < MaxRestarts
  /\ run' = run + 1
  /\ frameSeq' = 0
  /\ writer' = [pc |-> "reset", pos |-> 0]
  /\ UNCHANGED <<slotSeq, slot, readerVars, uiVars>>

\* create() resets the numbers one by one, then the pixels; readers do not
\* take the lock of the segment that it holds.
ResetSlot ==
  /\ writer.pc = "reset"
  /\ writer.pos < SlotCount
  /\ slotSeq' = [slotSeq EXCEPT ![writer.pos] = 0]
  /\ writer' = IF writer.pos + 1 < SlotCount
               THEN [writer EXCEPT !.pos = @ + 1]
               ELSE [pc |-> "clear", pos |-> 0]
  /\ UNCHANGED <<slot, frameSeq, run, readerVars, uiVars>>

ClearBuffers ==
  /\ writer.pc = "clear"
  /\ slot' = [s \in Slots |-> [p \in Pieces |-> Frame(run, 0)]]
  /\ writer' = [writer EXCEPT !.pc = "ready"]
  /\ UNCHANGED <<slotSeq, frameSeq, run, readerVars, uiVars>>

WriterNext ==
  WritePiece \/ Publish \/ RestartWriter \/ ResetSlot \/ ClearBuffers

---------------------------------------------------------------------------
(* Preview thread: readLatestFrame *)

\* "run" and "seen" are history: the writer process that was ready when the
\* scan began, -1 when none was, and its newest frame then.
BeginRead ==
  /\ reader.pc = "idle"
  /\ reader' = [reader EXCEPT !.pc = "scan", !.pos = 0, !.seq = lastSeq,
                              !.slot = -1, !.seen = frameSeq,
                              !.run = IF writer.pc = "ready" THEN run ELSE -1]
  /\ UNCHANGED <<ringVars, lastSeq, uiVars>>

\* Faulty variant: the scan starts at the second slot.
NewerInSlotButFirst(s) == s # 0 /\ slotSeq[s] > reader.seq

NewerInSlot(s) == slotSeq[s] > reader.seq

Found(s) == IF NewerInSlot(s) THEN s ELSE reader.slot

\* One iteration of the scan; after the last one the read ends when no slot
\* held a newer frame.
ScanSlot ==
  /\ reader.pc = "scan"
  /\ LET s == reader.pos
         last == s + 1 = SlotCount
     IN reader' =
          [reader EXCEPT
             !.pc = IF ~last THEN "scan"
                    ELSE IF Found(s) = -1 THEN "idle" ELSE "copy",
             !.pos = IF last THEN 0 ELSE s + 1,
             !.seq = IF NewerInSlot(s) THEN slotSeq[s] ELSE @,
             !.slot = Found(s)]
  /\ UNCHANGED <<ringVars, lastSeq, uiVars>>

\* The metadata of a slot that was just cleared has no size: the read ends.
CopyPiece ==
  /\ reader.pc = "copy"
  /\ LET piece == slot[reader.slot][reader.pos + 1]
         blank == reader.pos = 0 /\ piece.seq = 0
     IN reader' =
          [reader EXCEPT
             !.pc = IF blank THEN "idle"
                    ELSE IF reader.pos + 1 = Parts THEN "verify" ELSE "copy",
             !.pos = IF blank \/ reader.pos + 1 = Parts THEN 0 ELSE @ + 1,
             !.view[reader.pos + 1] = piece]
  /\ UNCHANGED <<ringVars, lastSeq, uiVars>>

\* Faulty variant: the number is not looked at again.
NotVerified == TRUE

StillPublished == slotSeq[reader.slot] = reader.seq

VerifyFrame ==
  /\ reader.pc = "verify"
  /\ reader' = [reader EXCEPT !.pc = IF StillPublished THEN "got" ELSE "idle"]
  /\ UNCHANGED <<ringVars, lastSeq, uiVars>>

---------------------------------------------------------------------------
(* Preview thread: processCamera after a successful read *)

\* The frame is dropped when the rate limit has not elapsed, when the UI has
\* not consumed the previous one, or when its pixels cannot be decoded.  An
\* image format that does not exist, which only a frame that is not whole can
\* name, is the one case that leaves the frame unseen.
Whole(view) == \A p \in Pieces : view[p] = view[1]

\* Faulty variant: only a frame that is shown counts as seen.
SkipUnseen ==
  /\ reader.pc = "got"
  /\ reader' = [reader EXCEPT !.pc = "idle"]
  /\ UNCHANGED <<ringVars, lastSeq, uiVars>>

SkipFrame ==
  /\ reader.pc = "got"
  /\ lastSeq' \in IF Whole(reader.view) THEN {reader.seq} ELSE {reader.seq, lastSeq}
  /\ reader' = [reader EXCEPT !.pc = "idle"]
  /\ UNCHANGED <<ringVars, uiVars>>

MarkPending ==
  /\ reader.pc = "got"
  /\ ~uiPending
  /\ uiPending' = TRUE
  /\ reader' = [reader EXCEPT !.pc = "emit"]
  /\ UNCHANGED <<ringVars, lastSeq, uiQueue, toggles>>

\* Faulty variant: the pixels are decoded, which may fail, after the mark.
EmitOrFail ==
  /\ reader.pc = "emit"
  /\ uiQueue' \in {uiQueue, uiQueue + 1}
  /\ lastSeq' = reader.seq
  /\ reader' = [reader EXCEPT !.pc = "idle"]
  /\ UNCHANGED <<ringVars, uiPending, toggles>>

EmitFrame ==
  /\ reader.pc = "emit"
  /\ uiQueue' = uiQueue + 1
  /\ lastSeq' = reader.seq
  /\ reader' = [reader EXCEPT !.pc = "idle"]
  /\ UNCHANGED <<ringVars, uiPending, toggles>>

ReaderNext ==
  \/ BeginRead \/ ScanSlot \/ CopyPiece \/ VerifyFrame
  \/ SkipFrame \/ MarkPending \/ EmitFrame

---------------------------------------------------------------------------
(* UI thread *)

\* The slot of leftFrameReady shows the frame and releases the mark.
ConsumeFrame ==
  /\ uiQueue > 0
  /\ uiQueue' = uiQueue - 1
  /\ uiPending' = FALSE
  /\ UNCHANGED <<ringVars, readerVars, toggles>>

\* Leaving the page waits for the preview thread, entering it again creates a
\* new one; frames that the old one sent are still delivered.
RestartPreview ==
  /\ toggles < MaxToggles
  /\ reader.pc = "idle"
  /\ lastSeq' = 0
  /\ uiPending' = FALSE
  /\ toggles' = toggles + 1
  /\ UNCHANGED <<ringVars, reader, uiQueue>>

Next == WriterNext \/ ReaderNext \/ ConsumeFrame \/ RestartPreview

Spec == Init /\ [][Next]_vars

\* The preview thread and the UI event loop keep running.  The writer may
\* stop at any point.
Fairness == WF_vars(ReaderNext) /\ WF_vars(ConsumeFrame)
FairSpec == Spec /\ Fairness

---------------------------------------------------------------------------
(* Properties *)

\* The frame number that the writer is about to overwrite or is overwriting.
Overwriting(k) ==
  frameSeq + (IF writer.pos > 0 THEN 1 ELSE 0) >= k + SlotCount

\* Between two writes every published number stands for a whole frame of the
\* current process that is among its last SlotCount ones, and the newest frame
\* is published.
RingIsConsistent ==
  writer.pc = "ready" =>
    /\ frameSeq > 0 => slotSeq[SlotOf(frameSeq)] = frameSeq
    /\ \A s \in Slots :
         LET k == slotSeq[s]
         IN k > 0 => /\ s = SlotOf(k)
                     /\ k \in (frameSeq - SlotCount + 1)..frameSeq
                     /\ \/ slot[s] = [p \in Pieces |-> Frame(run, k)]
                        \/ s = Target /\ writer.pos > 0

\* A frame that passes the check of readLatestFrame is whole and is the frame
\* it is taken for, unless the writer has come round to its slot and stands in
\* the middle of overwriting it, or was replaced since the scan began.
AcceptedIsWholeUnlessOverwritten ==
  [][reader.pc = "verify" /\ reader'.pc = "got" /\ reader.run = run
       => \/ reader.view = [p \in Pieces |-> Frame(run, reader.seq)]
          \/ writer.pos > 0 /\ Target = reader.slot]_vars

\* A scan never misses what had been published before it began: it ends
\* without a frame only if the preview had reached that number already, and
\* otherwise picks a frame at least as new.
ScanMissesNothing ==
  [][reader.pc = "scan" /\ reader'.pc # "scan" /\ reader.run = run
       => reader'.seq >= reader.seen]_vars

\* Whenever the preview is held back, a frame that will release it is on its
\* way to the UI.
PendingIsReleased == uiPending => uiQueue > 0 \/ reader.pc = "emit"

\* A frame is only sent when the UI has consumed the previous one of the same
\* preview thread: the queue of the UI never grows.
UiQueueIsBounded == uiQueue <= 1 + toggles

\* When the camera stops, wherever in a write, the preview has looked at its
\* last frame in the end.  A preview that outlives a restart of the writer may
\* even be ahead of it: it has kept the old number (see BeginRead).
PreviewCatchesUp == <>[](lastSeq >= frameSeq)
=============================================================================
