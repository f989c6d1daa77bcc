------------------------ MODULE CameraPreviewProofs ------------------------
(***************************************************************************)
(* Machine-checked proofs about the two ways to the screen: CameraPreview, *)
(* for every number of slots, pieces, frames, writer processes and preview *)
(* threads, and SampleFlow, for every size of the queue and of the curve,  *)
(* every interval and every number of samples.  The two share no variable. *)
(***************************************************************************)
EXTENDS CameraPreview, SampleFlow, WellFoundedInduction, TLAPS

---------------------------------------------------------------------------
(* Remainders: two frames share a slot only SlotCount numbers apart *)

LEMMA ModUnique ==
  ASSUME NEW N \in Nat \ {0}, NEW a \in Nat, NEW q \in Int,
         NEW r \in 0..(N - 1), a = N * q + r
  PROVE  a % N = r
  BY SMT

LEMMA DivMod ==
  ASSUME NEW N \in Nat \ {0}, NEW a \in Nat
  PROVE  \E q \in Int, r \in 0..(N - 1) : a = N * q + r /\ a % N = r
<1> DEFINE q == a \div N
           r == a % N
<1>1. r \in 0..(N - 1) /\ q \in Int
  BY SMT
<1>2. N \in Int /\ N > 0 /\ a \in Int
  OBVIOUS
<1>3. a = N * q + r
  BY <1>2, Z3
<1>4. a % N = r
  OBVIOUS
<1> HIDE DEF q, r
<1> QED
  BY <1>1, <1>3, <1>4

LEMMA ModGap ==
  ASSUME NEW N \in Nat \ {0}, NEW a \in Nat, NEW b \in Nat, a < b,
         a % N = b % N
  PROVE  a + N <= b
<1>1. PICK p \in Int, r \in 0..(N - 1) : a = N * p + r /\ a % N = r
  BY DivMod
<1>2. PICK q \in Int, t \in 0..(N - 1) : b = N * q + t /\ b % N = t
  BY DivMod
<1>3. r = t
  BY <1>1, <1>2
<1>4. p < q
  BY <1>1, <1>2, <1>3, SMT
<1>5. N * p + N <= N * q
  BY <1>4, <1>1, <1>2, SMT
<1> QED
  BY <1>1, <1>2, <1>3, <1>5, SMT

LEMMA ModShift ==
  ASSUME NEW N \in Nat \ {0}, NEW a \in Nat
  PROVE  (a + N) % N = a % N
<1>1. PICK p \in Int, r \in 0..(N - 1) : a = N * p + r /\ a % N = r
  BY DivMod
<1>2. a + N = N * (p + 1) + r
  BY <1>1, SMT
<1>3. a + N \in Nat /\ p + 1 \in Int
  BY <1>1, SMT
<1>4. (a + N) % N = r
  BY <1>1, <1>2, <1>3, ModUnique
<1> QED
  BY <1>4, <1>1

\* Frame k goes to a slot of the ring, the frame SlotCount after it goes to
\* the same one, and no frame between them does.
LEMMA SlotOfFrame ==
  /\ \A k \in Nat : SlotOf(k) \in Slots
  /\ \A k \in Nat : SlotOf(k + SlotCount) = SlotOf(k)
  /\ \A j, k \in Nat : j < k /\ SlotOf(j) = SlotOf(k) => j + SlotCount <= k
<1>1. SlotCount \in Nat \ {0}
  BY PreviewAssumption
<1>2. \A k \in Nat : SlotOf(k) \in Slots
  BY <1>1, DivMod DEF SlotOf, Slots
<1>3. \A k \in Nat : SlotOf(k + SlotCount) = SlotOf(k)
  BY <1>1, ModShift DEF SlotOf
<1>4. \A j, k \in Nat : j < k /\ SlotOf(j) = SlotOf(k) => j + SlotCount <= k
  BY <1>1, ModGap DEF SlotOf
<1> QED
  BY <1>2, <1>3, <1>4

---------------------------------------------------------------------------
(* Type correctness *)

\* Where the reader stands: in the scan at a slot of the ring, in the copy at
\* a piece of the slot that the scan picked.
ReaderInPlace ==
  /\ reader.pc = "scan" => reader.pos \in Slots
  /\ reader.pc = "copy" => reader.slot \in Slots /\ reader.pos < Parts
  /\ reader.pc = "verify" => reader.slot \in Slots

Typed == TypeOK /\ ReaderInPlace

LEMMA TypedInit == Init => Typed
<1> SUFFICES ASSUME Init PROVE Typed
  OBVIOUS
<1>1. Frame(0, 0) \in Frames
  BY DEF Frame, Frames
<1>2. slot \in [Slots -> [Pieces -> Frames]] /\ slotSeq \in [Slots -> Nat]
  BY <1>1 DEF Init
<1>3. reader \in ReaderStates
  BY <1>1 DEF Init, ReaderStates
<1> QED
  BY <1>2, <1>3 DEF Init, Typed, TypeOK, ReaderInPlace, WriterStates

LEMMA TypedStep == Typed /\ [Next]_vars => Typed'
<1> SUFFICES ASSUME Typed, [Next]_vars PROVE Typed'
  OBVIOUS
<1> USE PreviewAssumption
<1>1. CASE WritePiece
  <2>1. Frame(run, frameSeq + 1) \in Frames
    BY DEF Frame, Frames, Typed, TypeOK
  <2>2. slot' \in [Slots -> [Pieces -> Frames]]
    BY <1>1, <2>1 DEF WritePiece, Typed, TypeOK
  <2>3. writer' \in WriterStates
    BY <1>1 DEF WritePiece, Typed, TypeOK, WriterStates
  <2> QED
    BY <1>1, <2>2, <2>3
       DEF WritePiece, Typed, TypeOK, ReaderInPlace, readerVars, uiVars
<1>2. CASE Publish
  <2>1. writer' \in WriterStates
    BY <1>2 DEF Publish, Typed, TypeOK, WriterStates
  <2>2. slotSeq' \in [Slots -> Nat]
    <3>1. frameSeq + 1 \in Nat /\ slotSeq \in [Slots -> Nat]
      BY DEF Typed, TypeOK
    <3>2. slotSeq' = [slotSeq EXCEPT ![Target] = frameSeq + 1]
      BY <1>2 DEF Publish
    <3> QED
      BY <3>1, <3>2
  <2> QED
    BY <1>2, <2>1, <2>2
       DEF Publish, Typed, TypeOK, ReaderInPlace, readerVars, uiVars
<1>3. CASE RestartWriter
  <2>1. writer' \in WriterStates
    BY <1>3 DEF RestartWriter, Typed, TypeOK, WriterStates
  <2> QED
    BY <1>3, <2>1
       DEF RestartWriter, Typed, TypeOK, ReaderInPlace, readerVars, uiVars
<1>4. CASE ResetSlot
  <2>1. writer' \in WriterStates
    BY <1>4 DEF ResetSlot, Typed, TypeOK, WriterStates
  <2> QED
    BY <1>4, <2>1
       DEF ResetSlot, Typed, TypeOK, ReaderInPlace, readerVars, uiVars
<1>5. CASE ClearBuffers
  <2>1. Frame(run, 0) \in Frames
    BY DEF Frame, Frames, Typed, TypeOK
  <2>2. slot' \in [Slots -> [Pieces -> Frames]]
    BY <1>5, <2>1 DEF ClearBuffers
  <2>3. writer' \in WriterStates
    BY <1>5 DEF ClearBuffers, Typed, TypeOK, WriterStates
  <2> QED
    BY <1>5, <2>2, <2>3
       DEF ClearBuffers, Typed, TypeOK, ReaderInPlace, readerVars, uiVars
<1>6. CASE BeginRead
  <2> DEFINE ready == IF writer.pc = "ready" THEN run ELSE -1
  <2>0. ready \in Int /\ lastSeq \in Nat /\ frameSeq \in Nat
    BY DEF Typed, TypeOK
  <2> HIDE DEF ready
  <2>1a. reader' = [reader EXCEPT !.pc = "scan", !.pos = 0, !.seq = lastSeq,
                                  !.slot = -1, !.seen = frameSeq, !.run = ready]
    BY <1>6 DEF BeginRead, ready
  <2>1. reader' \in ReaderStates
    BY <2>0, <2>1a DEF Typed, TypeOK, ReaderStates
  <2>2. ReaderInPlace'
    BY <1>6 DEF BeginRead, Typed, TypeOK, ReaderStates, ReaderInPlace, Slots
  <2> QED
    BY <1>6, <2>1, <2>2 DEF BeginRead, Typed, TypeOK, ringVars, uiVars
<1>7. CASE ScanSlot
  <2>1. reader.pos \in Slots
    BY <1>7 DEF ScanSlot, Typed, ReaderInPlace
  <2>2. Found(reader.pos) \in Slots \cup {-1} /\ slotSeq[reader.pos] \in Nat
    BY <2>1 DEF Found, Typed, TypeOK, ReaderStates
  <2>3. PICK pc \in {"scan", "idle", "copy"}, pos \in Nat, seq \in Nat :
          /\ reader' = [reader EXCEPT !.pc = pc, !.pos = pos, !.seq = seq,
                                       !.slot = Found(reader.pos)]
          /\ pc = "scan" => pos \in Slots
          /\ pc = "copy" => Found(reader.pos) # -1 /\ pos = 0
    <3> DEFINE s == reader.pos
               last == s + 1 = SlotCount
               pc == IF ~last THEN "scan"
                     ELSE IF Found(s) = -1 THEN "idle" ELSE "copy"
               pos == IF last THEN 0 ELSE s + 1
               seq == IF NewerInSlot(s) THEN slotSeq[s] ELSE reader.seq
    <3>1. reader' = [reader EXCEPT !.pc = pc, !.pos = pos, !.seq = seq,
                                   !.slot = Found(s)]
      BY <1>7 DEF ScanSlot
    <3>2. pos \in Nat /\ (~last => pos \in Slots)
      BY <2>1 DEF Slots
    <3>3. seq \in Nat
      BY <2>2 DEF Typed, TypeOK, ReaderStates
    <3> QED
      BY <3>1, <3>2, <3>3
  <2>4. reader' \in ReaderStates
    BY <2>2, <2>3 DEF Typed, TypeOK, ReaderStates
  <2>5. ReaderInPlace'
    BY <2>2, <2>3 DEF Typed, TypeOK, ReaderStates, ReaderInPlace
  <2> QED
    BY <1>7, <2>4, <2>5 DEF ScanSlot, Typed, TypeOK, ringVars, uiVars
<1>8. CASE CopyPiece
  <2>1. reader.slot \in Slots /\ reader.pos + 1 \in Pieces
    BY <1>8
       DEF CopyPiece, Typed, TypeOK, ReaderInPlace, ReaderStates, Pieces
  <2>2. slot[reader.slot][reader.pos + 1] \in Frames
    BY <2>1 DEF Typed, TypeOK
  <2>3. [reader.view EXCEPT ![reader.pos + 1] = slot[reader.slot][reader.pos + 1]]
          \in [Pieces -> Frames]
    BY <2>2 DEF Typed, TypeOK, ReaderStates
  <2>4. PICK pc \in {"idle", "verify", "copy"}, pos \in Nat,
             view \in [Pieces -> Frames] :
          /\ reader' = [reader EXCEPT !.pc = pc, !.pos = pos, !.view = view]
          /\ pc = "copy" => pos < Parts
    <3> DEFINE piece == slot[reader.slot][reader.pos + 1]
               blank == reader.pos = 0 /\ piece.seq = 0
               last == reader.pos + 1 = Parts
               pc == IF blank THEN "idle" ELSE IF last THEN "verify" ELSE "copy"
               pos == IF blank \/ last THEN 0 ELSE reader.pos + 1
               view == [reader.view EXCEPT ![reader.pos + 1] = piece]
    <3>1. reader' = [reader EXCEPT !.pc = pc, !.pos = pos, !.view = view]
      BY <1>8 DEF CopyPiece, Typed, TypeOK, ReaderStates
    <3>2. pos \in Nat /\ (~last => pos < Parts)
      BY <2>1 DEF Pieces
    <3> QED
      BY <2>3, <3>1, <3>2
  <2>5. reader' \in ReaderStates
    BY <2>4 DEF Typed, TypeOK, ReaderStates
  <2>6. ReaderInPlace'
    BY <2>1, <2>4 DEF Typed, TypeOK, ReaderStates, ReaderInPlace
  <2> QED
    BY <1>8, <2>5, <2>6 DEF CopyPiece, Typed, TypeOK, ringVars, uiVars
<1>9. CASE VerifyFrame
  BY <1>9
     DEF VerifyFrame, Typed, TypeOK, ReaderStates, ReaderInPlace, ringVars, uiVars
<1>10. CASE SkipFrame
  BY <1>10
     DEF SkipFrame, Typed, TypeOK, ReaderStates, ReaderInPlace, ringVars, uiVars
<1>11. CASE MarkPending
  BY <1>11
     DEF MarkPending, Typed, TypeOK, ReaderStates, ReaderInPlace, ringVars
<1>12. CASE EmitFrame
  BY <1>12
     DEF EmitFrame, Typed, TypeOK, ReaderStates, ReaderInPlace, ringVars
<1>13. CASE ConsumeFrame
  <2>1. uiQueue' \in Nat /\ uiPending' \in BOOLEAN
    <3>1. uiQueue \in Nat
      BY DEF Typed, TypeOK
    <3>2. uiQueue > 0 /\ uiQueue' = uiQueue - 1
      BY <1>13 DEF ConsumeFrame
    <3>3. uiQueue' \in Nat
      BY <3>1, <3>2
    <3>4. uiPending' \in BOOLEAN
      BY <1>13 DEF ConsumeFrame
    <3> QED
      BY <3>3, <3>4
  <2>2. UNCHANGED <<slotSeq, slot, frameSeq, writer, run, lastSeq, reader, toggles>>
    BY <1>13 DEF ConsumeFrame, ringVars, readerVars
  <2> QED
    BY <2>1, <2>2 DEF Typed, TypeOK, ReaderInPlace
<1>14. CASE RestartPreview
  <2>1. toggles' \in Nat /\ uiPending' \in BOOLEAN /\ lastSeq' \in Nat
    <3>1. toggles \in Nat
      BY DEF Typed, TypeOK
    <3>2. toggles' = toggles + 1 /\ lastSeq' = 0
      BY <1>14 DEF RestartPreview
    <3>3. toggles' \in Nat /\ lastSeq' \in Nat
      BY <3>1, <3>2
    <3>4. uiPending' \in BOOLEAN
      BY <1>14 DEF RestartPreview
    <3> QED
      BY <3>3, <3>4
  <2>2. UNCHANGED <<slotSeq, slot, frameSeq, writer, run, reader, uiQueue>>
    BY <1>14 DEF RestartPreview, ringVars
  <2> QED
    BY <2>1, <2>2 DEF Typed, TypeOK, ReaderInPlace
<1>15. CASE UNCHANGED vars
  BY <1>15 DEF vars, Typed, TypeOK, ReaderInPlace
<1> QED
  BY <1>1, <1>2, <1>3, <1>4, <1>5, <1>6, <1>7, <1>8, <1>9, <1>10, <1>11,
     <1>12, <1>13, <1>14, <1>15 DEF Next, WriterNext, ReaderNext

LEMMA TypedHolds == Spec => []Typed
<1>1. Init => Typed
  BY TypedInit
<1>2. Typed /\ [Next]_vars => Typed'
  BY TypedStep
<1> QED
  BY <1>1, <1>2, PTL DEF Spec

\* Every variable keeps its type: in particular the reader only ever indexes
\* slots of the ring.
THEOREM TypeCorrect == Spec => []TypeOK
<1>1. Typed => TypeOK
  BY DEF Typed
<1> QED
  BY <1>1, TypedHolds, PTL

---------------------------------------------------------------------------
(* The UI and its back-pressure *)

\* A mark is set when a frame is about to be sent and stays until a frame is
\* consumed; a mark taken away early, by a frame of an older preview thread,
\* is paid for by that thread's own frame.
Outstanding == uiQueue + (IF reader.pc = "emit" THEN 1 ELSE 0)

BackPressure ==
  /\ PendingIsReleased
  /\ Outstanding <= toggles + (IF uiPending THEN 1 ELSE 0)

LEMMA BackPressureStep ==
  ASSUME Typed, BackPressure, [Next]_vars
  PROVE  BackPressure'
<1>1. uiQueue \in Nat /\ toggles \in Nat
  BY DEF Typed, TypeOK
<1>2. CASE UNCHANGED <<uiVars, reader>>
  BY <1>2
     DEF BackPressure, PendingIsReleased, Outstanding, uiVars
<1>3. CASE UNCHANGED uiVars /\ reader.pc # "emit" /\ reader'.pc # "emit"
  BY <1>3
     DEF BackPressure, PendingIsReleased, Outstanding, uiVars
<1>4. CASE MarkPending
  <2>1. ~uiPending /\ uiPending' = TRUE /\ reader.pc = "got"
        /\ reader'.pc = "emit" /\ UNCHANGED <<uiQueue, toggles>>
    BY <1>4 DEF MarkPending, Typed, TypeOK, ReaderStates
  <2>2. PendingIsReleased'
    BY <2>1 DEF PendingIsReleased
  <2>3. uiQueue <= toggles
    BY <1>1, <2>1 DEF BackPressure, Outstanding
  <2>4. (Outstanding <= toggles + (IF uiPending THEN 1 ELSE 0))'
    BY <1>1, <2>1, <2>3 DEF Outstanding
  <2> QED
    BY <2>2, <2>4 DEF BackPressure
<1>5. CASE EmitFrame
  <2>1. reader.pc = "emit" /\ uiQueue' = uiQueue + 1 /\ reader'.pc = "idle"
        /\ UNCHANGED <<uiPending, toggles>>
    BY <1>5 DEF EmitFrame, Typed, TypeOK, ReaderStates
  <2>2. uiQueue' > 0
    BY <1>1, <2>1
  <2>3. Outstanding' = Outstanding
    BY <1>1, <2>1 DEF Outstanding
  <2>4. (Outstanding <= toggles + (IF uiPending THEN 1 ELSE 0))'
    BY <2>1, <2>3 DEF BackPressure
  <2> QED
    BY <2>2, <2>4 DEF BackPressure, PendingIsReleased
<1>6. CASE ConsumeFrame
  <2>1. uiQueue' = uiQueue - 1 /\ ~uiPending'
        /\ UNCHANGED <<reader, toggles>>
    BY <1>6 DEF ConsumeFrame, readerVars
  <2>2. Outstanding' = Outstanding - 1
    BY <1>1, <2>1 DEF Outstanding
  <2>3. Outstanding <= toggles + 1
    BY <1>1 DEF BackPressure, Outstanding
  <2>4. Outstanding' <= toggles'
    BY <1>1, <2>1, <2>2, <2>3 DEF Outstanding
  <2> QED
    BY <1>1, <2>1, <2>4 DEF BackPressure, PendingIsReleased
<1>7. CASE RestartPreview
  <2>1. toggles' = toggles + 1 /\ ~uiPending' /\ UNCHANGED <<reader, uiQueue>>
    BY <1>7 DEF RestartPreview
  <2>2. Outstanding <= toggles + 1
    BY <1>1 DEF BackPressure, Outstanding
  <2>3. Outstanding' <= toggles'
    BY <1>1, <2>1, <2>2 DEF Outstanding
  <2> QED
    BY <1>1, <2>1, <2>3 DEF BackPressure, PendingIsReleased
<1>8. CASE WriterNext \/ UNCHANGED vars
  <2>1. UNCHANGED <<uiVars, reader>>
    BY <1>8 DEF WriterNext, WritePiece, Publish, RestartWriter, ResetSlot,
                ClearBuffers, vars, uiVars, readerVars
  <2> QED
    BY <2>1, <1>2
<1>9. CASE BeginRead \/ ScanSlot \/ CopyPiece \/ VerifyFrame \/ SkipFrame
  <2>1. UNCHANGED uiVars /\ reader.pc # "emit"
    BY <1>9 DEF BeginRead, ScanSlot, CopyPiece, VerifyFrame, SkipFrame
  <2>2. reader'.pc # "emit"
    BY <1>9 DEF BeginRead, ScanSlot, CopyPiece, VerifyFrame, SkipFrame,
                Typed, TypeOK, ReaderStates
  <2> QED
    BY <2>1, <2>2, <1>3
<1> QED
  BY <1>4, <1>5, <1>6, <1>7, <1>8, <1>9 DEF Next, ReaderNext

LEMMA BackPressureHolds == Spec => []BackPressure
<1>1. Init => BackPressure
  BY DEF Init, BackPressure, PendingIsReleased, Outstanding
<1>2. Typed /\ BackPressure /\ [Next]_vars => BackPressure'
  BY BackPressureStep
<1> QED
  BY <1>1, <1>2, TypedHolds, PTL DEF Spec

\* The preview of a camera is never held back (uiPending_) without a frame
\* whose consumption will release it.
THEOREM PendingReleased == Spec => []PendingIsReleased
<1>1. BackPressure => PendingIsReleased
  BY DEF BackPressure
<1> QED
  BY <1>1, BackPressureHolds, PTL

\* However often the preview is switched off and on, each of its threads adds
\* at most one frame to those that wait for the UI.
THEOREM UiQueueBounded == Spec => []UiQueueIsBounded
<1>1. Typed /\ BackPressure => UiQueueIsBounded
  <2> SUFFICES ASSUME Typed, BackPressure PROVE UiQueueIsBounded
    OBVIOUS
  <2>1. uiQueue \in Nat /\ toggles \in Nat
    BY DEF Typed, TypeOK
  <2>2. Outstanding <= toggles + 1
    BY <2>1 DEF BackPressure, Outstanding
  <2> QED
    BY <2>1, <2>2 DEF Outstanding, UiQueueIsBounded
<1> QED
  BY <1>1, TypedHolds, BackPressureHolds, PTL

---------------------------------------------------------------------------
(* The ring *)

RingInv ==
  /\ writer.pc = "reset" =>
       /\ writer.pos < SlotCount
       /\ frameSeq = 0
       /\ \A s \in Slots : s < writer.pos => slotSeq[s] = 0
  /\ writer.pc = "clear" =>
       /\ writer.pos = 0
       /\ frameSeq = 0
       /\ \A s \in Slots : slotSeq[s] = 0
  /\ writer.pc = "ready" =>
       /\ writer.pos <= Parts
       /\ \A p \in 1..writer.pos : slot[Target][p] = Frame(run, frameSeq + 1)
  /\ RingIsConsistent

\* What the writer's thread does not touch.
LEMMA RingUntouched ==
  ASSUME RingInv, UNCHANGED ringVars
  PROVE  RingInv'
<1>1. UNCHANGED <<slotSeq, slot, frameSeq, writer, run>>
  BY DEF ringVars
<1> QED
  BY <1>1 DEF RingInv, RingIsConsistent, Target

LEMMA TargetIsSlot == TypeOK => Target \in Slots
  BY SlotOfFrame DEF Target, TypeOK

LEMMA WritePieceKeepsRing ==
  ASSUME Typed, RingInv, WritePiece
  PROVE  RingInv'
<1>1. /\ writer.pc = "ready" /\ writer.pos < Parts
      /\ slot' = [slot EXCEPT ![Target][writer.pos + 1] = Frame(run, frameSeq + 1)]
      /\ writer' = [writer EXCEPT !.pos = @ + 1]
      /\ UNCHANGED <<slotSeq, frameSeq, run>>
  BY DEF WritePiece
<1>2. writer.pos \in Nat /\ frameSeq \in Nat /\ Target \in Slots
      /\ slot \in [Slots -> [Pieces -> Frames]]
  BY TargetIsSlot DEF Typed, TypeOK, WriterStates
<1>3. writer'.pc = "ready" /\ writer'.pos = writer.pos + 1
  BY <1>1 DEF Typed, TypeOK, WriterStates
<1>4. Target' = Target
  BY <1>1 DEF Target
<1>5. writer.pos + 1 \in Pieces
  BY <1>1, <1>2, PreviewAssumption DEF Pieces
<1>6. \A p \in 1..(writer.pos + 1) : slot'[Target][p] = Frame(run, frameSeq + 1)
  <2> SUFFICES ASSUME NEW p \in 1..(writer.pos + 1)
               PROVE  slot'[Target][p] = Frame(run, frameSeq + 1)
    OBVIOUS
  <2>1. p \in Pieces
    BY <1>2, <1>5, PreviewAssumption DEF Pieces
  <2>2. CASE p = writer.pos + 1
    BY <1>1, <1>2, <2>1, <2>2
  <2>3. CASE p # writer.pos + 1
    <3>1. p \in 1..writer.pos
      BY <1>2, <2>3
    <3>2. slot[Target][p] = Frame(run, frameSeq + 1)
      BY <1>1, <3>1 DEF RingInv
    <3> QED
      BY <1>1, <1>2, <2>1, <2>3, <3>2
  <2> QED
    BY <2>2, <2>3
<1>7. \A s \in Slots : s # Target => slot'[s] = slot[s]
  BY <1>1, <1>2
<1>8. RingIsConsistent'
  <2>1. /\ frameSeq > 0 => slotSeq[SlotOf(frameSeq)] = frameSeq
        /\ \A s \in Slots :
             slotSeq[s] > 0 =>
               /\ s = SlotOf(slotSeq[s])
               /\ slotSeq[s] \in (frameSeq - SlotCount + 1)..frameSeq
               /\ s # Target => slot[s] = [p \in Pieces |-> Frame(run, slotSeq[s])]
    BY <1>1 DEF RingInv, RingIsConsistent
  <2>2. writer'.pos > 0
    BY <1>2, <1>3
  <2> QED
    BY <1>1, <1>4, <1>7, <2>1, <2>2 DEF RingIsConsistent
<1> QED
  BY <1>1, <1>2, <1>3, <1>4, <1>5, <1>6, <1>8 DEF RingInv, Pieces

\* Until it is published again, a slot keeps one of the last SlotCount
\* numbers, and the oldest of them is the one that Publish replaces.
LEMMA PublishKeepsRing ==
  ASSUME Typed, RingInv, Publish
  PROVE  RingInv'
<1>1. /\ writer.pc = "ready" /\ writer.pos = Parts
      /\ slotSeq' = [slotSeq EXCEPT ![Target] = frameSeq + 1]
      /\ frameSeq' = frameSeq + 1
      /\ writer' = [writer EXCEPT !.pos = 0]
      /\ UNCHANGED <<slot, run>>
  BY DEF Publish
<1>2. /\ frameSeq \in Nat /\ Target \in Slots /\ slotSeq \in [Slots -> Nat]
      /\ slot \in [Slots -> [Pieces -> Frames]]
  BY TargetIsSlot DEF Typed, TypeOK
<1>3. writer'.pc = "ready" /\ writer'.pos = 0
  BY <1>1 DEF Typed, TypeOK, WriterStates
<1>4. slot[Target] = [p \in Pieces |-> Frame(run, frameSeq + 1)]
  <2>1. \A p \in Pieces : slot[Target][p] = Frame(run, frameSeq + 1)
    BY <1>1 DEF RingInv, Pieces
  <2> QED
    BY <1>2, <2>1
<1>5. Target = SlotOf(frameSeq') /\ slotSeq'[Target] = frameSeq'
  BY <1>1, <1>2 DEF Target
<1>6. ASSUME NEW s \in Slots, slotSeq'[s] > 0
      PROVE  /\ s = SlotOf(slotSeq'[s])
             /\ slotSeq'[s] \in (frameSeq' - SlotCount + 1)..frameSeq'
             /\ slot'[s] = [p \in Pieces |-> Frame(run', slotSeq'[s])]
  <2>1. CASE s = Target
    BY <1>1, <1>2, <1>4, <1>5, <2>1, PreviewAssumption
  <2>2. CASE s # Target
    <3> DEFINE k == slotSeq[s]
    <3>1. slotSeq'[s] = k /\ k \in Nat
      BY <1>1, <1>2, <2>2
    <3>2. /\ s = SlotOf(k)
          /\ k \in (frameSeq - SlotCount + 1)..frameSeq
          /\ slot[s] = [p \in Pieces |-> Frame(run, k)]
      BY <1>1, <1>6, <2>2, <3>1 DEF RingInv, RingIsConsistent
    <3>3. k + SlotCount # frameSeq + 1
      BY <2>2, <3>1, <3>2, SlotOfFrame DEF Target
    <3> HIDE DEF k
    <3>4. k \in (frameSeq' - SlotCount + 1)..frameSeq'
      <4>1. k \in Nat /\ frameSeq \in Nat /\ SlotCount \in Nat
        BY <1>2, <3>1, PreviewAssumption
      <4>2. frameSeq' = frameSeq + 1
        BY <1>1
      <4>3. k >= frameSeq - SlotCount + 1 /\ k <= frameSeq
        BY <3>2, <4>1
      <4> QED
        BY <3>3, <4>1, <4>2, <4>3
    <3> QED
      BY <1>1, <3>1, <3>2, <3>4
  <2> QED
    BY <2>1, <2>2
<1>7. RingIsConsistent'
  BY <1>5, <1>6 DEF RingIsConsistent
<1> QED
  BY <1>3, <1>7, PreviewAssumption DEF RingInv

LEMMA ResetKeepsRing ==
  ASSUME Typed, RingInv, RestartWriter \/ ResetSlot \/ ClearBuffers
  PROVE  RingInv'
<1>1. writer \in WriterStates /\ slotSeq \in [Slots -> Nat]
  BY DEF Typed, TypeOK
<1>2. CASE RestartWriter
  <2>1. frameSeq' = 0 /\ writer' = [pc |-> "reset", pos |-> 0]
    BY <1>2 DEF RestartWriter
  <2> QED
    BY <2>1, PreviewAssumption DEF RingInv, RingIsConsistent, Slots
<1>3. CASE ResetSlot
  <2>1. /\ writer.pos \in 0..(SlotCount - 1) /\ frameSeq' = 0
        /\ slotSeq' = [slotSeq EXCEPT ![writer.pos] = 0]
        /\ \A s \in Slots : s < writer.pos => slotSeq[s] = 0
        /\ writer' = IF writer.pos + 1 < SlotCount
                     THEN [writer EXCEPT !.pos = @ + 1]
                     ELSE [pc |-> "clear", pos |-> 0]
    BY <1>1, <1>3, PreviewAssumption DEF ResetSlot, RingInv, WriterStates
  <2>2. \A s \in Slots : s < writer.pos + 1 => slotSeq'[s] = 0
    BY <1>1, <2>1, PreviewAssumption DEF Slots
  <2>3. CASE writer.pos + 1 < SlotCount
    <3>1. writer'.pc = "reset" /\ writer'.pos = writer.pos + 1
      BY <1>1, <1>3, <2>1, <2>3 DEF ResetSlot, WriterStates
    <3> QED
      BY <2>1, <2>2, <2>3, <3>1 DEF RingInv, RingIsConsistent
  <2>4. CASE ~(writer.pos + 1 < SlotCount)
    <3>1. writer' = [pc |-> "clear", pos |-> 0]
      BY <2>1, <2>4
    <3>2. \A s \in Slots : slotSeq'[s] = 0
      BY <2>1, <2>2, <2>4, PreviewAssumption DEF Slots
    <3> QED
      BY <2>1, <3>1, <3>2 DEF RingInv, RingIsConsistent
  <2> QED
    BY <2>3, <2>4
<1>4. CASE ClearBuffers
  <2>1. /\ \A s \in Slots : slotSeq'[s] = 0
        /\ frameSeq' = 0
        /\ writer'.pc = "ready" /\ writer'.pos = 0
    BY <1>1, <1>4 DEF ClearBuffers, RingInv, WriterStates
  <2> QED
    BY <2>1, PreviewAssumption DEF RingInv, RingIsConsistent
<1> QED
  BY <1>2, <1>3, <1>4

LEMMA RingInvStep ==
  ASSUME Typed, RingInv, [Next]_vars
  PROVE  RingInv'
<1>1. CASE WriterNext
  BY <1>1, WritePieceKeepsRing, PublishKeepsRing, ResetKeepsRing DEF WriterNext
<1>2. CASE ReaderNext \/ ConsumeFrame \/ RestartPreview \/ UNCHANGED vars
  <2>1. UNCHANGED ringVars
    BY <1>2 DEF ReaderNext, BeginRead, ScanSlot, CopyPiece, VerifyFrame,
                SkipFrame, MarkPending, EmitFrame, ConsumeFrame,
                RestartPreview, vars, ringVars
  <2> QED
    BY <2>1, RingUntouched
<1> QED
  BY <1>1, <1>2 DEF Next

LEMMA RingInvHolds == Spec => []RingInv
<1>1. Init => RingInv
  BY PreviewAssumption DEF Init, RingInv, RingIsConsistent
<1>2. Typed /\ RingInv /\ [Next]_vars => RingInv'
  BY RingInvStep
<1> QED
  BY <1>1, <1>2, TypedHolds, PTL DEF Spec

\* Whatever the writer process is doing, and however often it is replaced,
\* the published numbers stand for whole frames among its last SlotCount ones.
THEOREM RingConsistent == Spec => []RingIsConsistent
<1>1. RingInv => RingIsConsistent
  BY DEF RingInv
<1> QED
  BY <1>1, RingInvHolds, PTL

\* What a scan has picked: a number that was published in its slot, which
\* only a later frame can have taken since.
Picked ==
  /\ reader.slot = SlotOf(reader.seq)
  /\ reader.seq \in 1..frameSeq
  /\ slotSeq[reader.slot] >= reader.seq

\* The first n pieces of the copy, unless the writer has come round.
Copied(n) ==
  Overwriting(reader.seq)
    \/ \A p \in 1..n : reader.view[p] = Frame(run, reader.seq)

\* A read that runs while the writer that it began with is alive.
CurrentRead ==
  /\ writer.pc = "ready"
  /\ reader.seen <= frameSeq
  /\ reader.seen > 0 => slotSeq[SlotOf(reader.seen)] >= reader.seen
  /\ reader.pc = "scan" =>
       /\ reader.slot # -1 => Picked
       /\ reader.seen > 0 =>
            reader.seq >= reader.seen \/ SlotOf(reader.seen) >= reader.pos
  /\ reader.pc = "copy" => Picked /\ Copied(reader.pos)
  /\ reader.pc = "verify" => Picked /\ Copied(Parts)

ReadInv ==
  /\ reader.run <= run
  /\ reader.run = run => CurrentRead

Inv == Typed /\ RingInv /\ ReadInv

\* Once published, a frame can only be pushed further back.
LEMMA OverwritingStays ==
  ASSUME Typed, RingInv, WritePiece \/ Publish, NEW k \in Nat, Overwriting(k)
  PROVE  Overwriting(k)'
<1>1. frameSeq \in Nat /\ writer \in WriterStates /\ SlotCount \in Nat
      /\ Parts \in Nat \ {0}
  BY PreviewAssumption DEF Typed, TypeOK
<1>2. frameSeq + 1 >= k + SlotCount
      /\ (writer.pos = 0 => frameSeq >= k + SlotCount)
  BY <1>1 DEF Overwriting, WriterStates
<1>3. CASE WritePiece
  BY <1>1, <1>2, <1>3 DEF WritePiece, Overwriting, WriterStates
<1>4. CASE Publish
  BY <1>1, <1>2, <1>4 DEF Publish, Overwriting, WriterStates
<1> QED
  BY <1>3, <1>4

LEMMA NumbersGrow ==
  ASSUME Typed, RingInv, WritePiece \/ Publish
  PROVE  /\ frameSeq' \in Nat /\ frameSeq' >= frameSeq
         /\ \A s \in Slots : slotSeq'[s] \in Nat /\ slotSeq'[s] >= slotSeq[s]
<1>1. frameSeq \in Nat /\ slotSeq \in [Slots -> Nat]
  BY DEF Typed, TypeOK
<1>2. CASE WritePiece
  BY <1>1, <1>2 DEF WritePiece
<1>3. CASE Publish
  <2>1. writer.pc = "ready" /\ frameSeq' = frameSeq + 1
        /\ slotSeq' = [slotSeq EXCEPT ![Target] = frameSeq + 1]
    BY <1>3 DEF Publish
  <2>2. \A s \in Slots : slotSeq[s] <= frameSeq
    BY <1>1, <2>1 DEF RingInv, RingIsConsistent
  <2> QED
    BY <1>1, <2>1, <2>2
<1> QED
  BY <1>2, <1>3

\* The writer's steps in one life: what a read has found stays true of it.
LEMMA WritingKeepsRead ==
  ASSUME Inv, WritePiece \/ Publish
  PROVE  ReadInv'
<1>1. UNCHANGED <<reader, run>>
  BY DEF WritePiece, Publish, readerVars
<1>2. SUFFICES ASSUME CurrentRead PROVE CurrentRead'
  BY <1>1 DEF Inv, ReadInv
<1>3. writer'.pc = "ready"
  BY DEF WritePiece, Publish, Inv, Typed, TypeOK, WriterStates
<1>4. reader \in ReaderStates /\ frameSeq \in Nat /\ slotSeq \in [Slots -> Nat]
  BY DEF Inv, Typed, TypeOK
<1>5. /\ frameSeq' \in Nat /\ frameSeq' >= frameSeq
      /\ \A s \in Slots : slotSeq'[s] \in Nat /\ slotSeq'[s] >= slotSeq[s]
  BY NumbersGrow DEF Inv
<1>6. reader.seen <= frameSeq'
      /\ (reader.seen > 0 => slotSeq'[SlotOf(reader.seen)] >= reader.seen)
  <2>1. SlotOf(reader.seen) \in Slots /\ reader.seen \in Nat
    BY <1>4, SlotOfFrame DEF ReaderStates
  <2> QED
    BY <1>2, <1>4, <1>5, <2>1 DEF CurrentRead
<1>7. ASSUME Picked PROVE Picked'
  <2>1. reader.slot \in Slots /\ reader.seq \in Nat
    BY <1>4, <1>7, SlotOfFrame DEF Picked, ReaderStates
  <2>2. reader.seq >= 1 /\ reader.seq <= frameSeq
        /\ slotSeq[reader.slot] >= reader.seq
    BY <1>4, <1>7 DEF Picked
  <2>3. reader.seq \in 1..frameSeq' /\ slotSeq'[reader.slot] >= reader.seq
    BY <1>4, <1>5, <2>1, <2>2
  <2> QED
    BY <1>1, <1>7, <2>3 DEF Picked
<1>8. ASSUME NEW n \in Nat, Copied(n) PROVE Copied(n)'
  <2>1. reader.seq \in Nat
    BY <1>4 DEF ReaderStates
  <2>2. Overwriting(reader.seq) => Overwriting(reader.seq)'
    BY <2>1, OverwritingStays, <1>1 DEF Inv, Overwriting
  <2> QED
    BY <1>1, <1>8, <2>2 DEF Copied
<1>9. reader.pos \in Nat /\ Parts \in Nat
  BY <1>4, PreviewAssumption DEF ReaderStates
<1> QED
  BY <1>1, <1>2, <1>3, <1>6, <1>7, <1>8, <1>9 DEF CurrentRead

LEMMA ResetKeepsRead ==
  ASSUME Inv, RestartWriter \/ ResetSlot \/ ClearBuffers
  PROVE  ReadInv'
<1>1. run \in Nat /\ reader.run \in Int
  BY DEF Inv, Typed, TypeOK, ReaderStates
<1>2. CASE RestartWriter
  <2>1. run' = run + 1 /\ reader' = reader
    BY <1>2 DEF RestartWriter, readerVars
  <2>2. reader'.run < run'
    BY <1>1, <2>1 DEF Inv, ReadInv
  <2> QED
    BY <1>1, <2>1, <2>2 DEF ReadInv
<1>3. CASE ResetSlot \/ ClearBuffers
  <2>1. writer.pc # "ready" /\ UNCHANGED <<run, reader>>
    BY <1>3 DEF ResetSlot, ClearBuffers, readerVars
  <2>2. reader.run # run
    BY <2>1 DEF Inv, ReadInv, CurrentRead
  <2> QED
    BY <2>1, <2>2 DEF Inv, ReadInv
<1> QED
  BY <1>2, <1>3

LEMMA BeginKeepsRead ==
  ASSUME Inv, BeginRead
  PROVE  ReadInv'
<1>1. /\ reader'.pc = "scan" /\ reader'.pos = 0 /\ reader'.slot = -1
      /\ reader'.seq = lastSeq /\ reader'.seen = frameSeq
      /\ reader'.run = IF writer.pc = "ready" THEN run ELSE -1
      /\ UNCHANGED <<slotSeq, slot, frameSeq, writer, run>>
  BY DEF BeginRead, Inv, Typed, TypeOK, ReaderStates, ringVars
<1>2. run \in Nat /\ frameSeq \in Nat
  BY DEF Inv, Typed, TypeOK
<1>3. reader'.run <= run'
  BY <1>1, <1>2
<1>4. ASSUME reader'.run = run' PROVE CurrentRead'
  <2>1. writer'.pc = "ready"
    BY <1>1, <1>2, <1>4
  <2>2. frameSeq > 0 => slotSeq[SlotOf(frameSeq)] = frameSeq
    BY <1>1, <2>1 DEF Inv, RingInv, RingIsConsistent
  <2>3. reader'.seen <= frameSeq'
        /\ (reader'.seen > 0 => slotSeq'[SlotOf(reader'.seen)] >= reader'.seen)
    BY <1>1, <1>2, <2>2
  <2>4. SlotOf(reader'.seen) >= reader'.pos
    BY <1>1, <1>2, SlotOfFrame, PreviewAssumption DEF Slots
  <2> QED
    BY <1>1, <2>1, <2>3, <2>4 DEF CurrentRead
<1> QED
  BY <1>3, <1>4 DEF ReadInv

\* One iteration of the scan by a read of the current writer: what it has
\* picked was published, and the newest frame of its beginning is not passed.
LEMMA ScanFinds ==
  ASSUME Inv, ScanSlot, reader.run = run
  PROVE  /\ reader'.slot # -1 => Picked'
         /\ reader.seen > 0 =>
              \/ reader'.seq >= reader.seen
              \/ SlotOf(reader.seen) >= reader.pos + 1
<1> DEFINE s == reader.pos
<1>1. /\ reader.pc = "scan" /\ s \in Slots
      /\ reader'.seq = IF NewerInSlot(s) THEN slotSeq[s] ELSE reader.seq
      /\ reader'.slot = IF NewerInSlot(s) THEN s ELSE reader.slot
      /\ UNCHANGED <<slotSeq, slot, frameSeq, writer, run>>
  BY DEF ScanSlot, Found, Inv, Typed, TypeOK, ReaderInPlace, ReaderStates,
         ringVars
<1>2. CurrentRead
  BY DEF Inv, ReadInv
<1>3. slotSeq \in [Slots -> Nat] /\ frameSeq \in Nat /\ reader.seq \in Nat
      /\ reader.seen \in Nat /\ s \in Nat
  BY <1>1 DEF Inv, Typed, TypeOK, ReaderStates
<1>4. slotSeq[s] \in Nat /\ SlotOf(reader.seen) \in Slots
  BY <1>1, <1>3, SlotOfFrame
<1>5. ASSUME reader'.slot # -1 PROVE Picked'
  <2>1. CASE NewerInSlot(s)
    <3>1. slotSeq[s] > 0
      BY <1>3, <1>4, <2>1 DEF NewerInSlot
    <3>2. s = SlotOf(slotSeq[s])
          /\ slotSeq[s] \in (frameSeq - SlotCount + 1)..frameSeq
      BY <1>1, <1>2, <3>1 DEF CurrentRead, Inv, RingInv, RingIsConsistent
    <3>3. slotSeq[s] \in 1..frameSeq
      BY <1>3, <1>4, <3>1, <3>2, PreviewAssumption
    <3> QED
      BY <1>1, <1>4, <2>1, <3>2, <3>3 DEF Picked
  <2>2. CASE ~NewerInSlot(s)
    <3>1. Picked
      BY <1>1, <1>2, <1>5, <2>2 DEF CurrentRead
    <3> QED
      BY <1>1, <2>2, <3>1 DEF Picked
  <2> QED
    BY <2>1, <2>2
<1>6. ASSUME reader.seen > 0
      PROVE  reader'.seq >= reader.seen \/ SlotOf(reader.seen) >= s + 1
  <2>1. reader'.seq \in Nat /\ reader'.seq >= reader.seq
        /\ reader'.seq >= slotSeq[s]
    BY <1>1, <1>3, <1>4 DEF NewerInSlot
  <2>2. CASE reader.seq >= reader.seen
    BY <1>3, <2>1, <2>2
  <2>3. CASE SlotOf(reader.seen) = s
    <3>1. slotSeq[s] >= reader.seen
      BY <1>2, <1>6, <2>3 DEF CurrentRead
    <3> QED
      BY <1>3, <1>4, <2>1, <3>1
  <2>4. CASE SlotOf(reader.seen) > s
    BY <1>3, <1>4, <2>4, PreviewAssumption DEF Slots
  <2>5. reader.seq >= reader.seen \/ SlotOf(reader.seen) >= s
    BY <1>1, <1>2, <1>6 DEF CurrentRead
  <2> QED
    BY <1>3, <1>4, <2>2, <2>3, <2>4, <2>5, PreviewAssumption DEF Slots
<1> QED
  BY <1>5, <1>6

LEMMA ScanKeepsRead ==
  ASSUME Inv, ScanSlot
  PROVE  ReadInv'
<1>1. /\ reader.pc = "scan" /\ reader.pos \in Slots
      /\ reader'.run = reader.run /\ reader'.seen = reader.seen
      /\ reader'.pc = (IF reader.pos + 1 # SlotCount THEN "scan"
                       ELSE IF Found(reader.pos) = -1 THEN "idle" ELSE "copy")
      /\ reader'.pos = (IF reader.pos + 1 = SlotCount THEN 0 ELSE reader.pos + 1)
      /\ reader'.slot = Found(reader.pos)
      /\ UNCHANGED <<slotSeq, slot, frameSeq, writer, run>>
  BY DEF ScanSlot, Inv, Typed, TypeOK, ReaderInPlace, ReaderStates, ringVars
<1>2. SUFFICES ASSUME reader.run = run PROVE CurrentRead'
  BY <1>1 DEF Inv, ReadInv
<1>3. CurrentRead
  BY <1>2 DEF Inv, ReadInv
<1>4. /\ reader'.slot # -1 => Picked'
      /\ reader.seen > 0 =>
           \/ reader'.seq >= reader.seen
           \/ SlotOf(reader.seen) >= reader.pos + 1
  BY <1>2, ScanFinds
<1>5. reader'.pc = "scan" => reader'.pos = reader.pos + 1
  BY <1>1
<1>6. reader'.pc = "copy" => reader'.slot # -1 /\ reader'.pos = 0
  BY <1>1
<1>7. reader'.pc # "verify"
  BY <1>1
<1>8. reader'.pc = "copy" => Copied(reader.pos)'
  BY <1>6 DEF Copied
<1> QED
  BY <1>1, <1>3, <1>4, <1>5, <1>6, <1>7, <1>8 DEF CurrentRead

\* The slot that is copied still holds the frame that was picked, or the
\* writer has begun to overwrite it.
LEMMA CopiesPicked ==
  ASSUME Inv, CurrentRead, Picked, NEW p \in Pieces
  PROVE  \/ slot[reader.slot][p] = Frame(run, reader.seq)
         \/ Overwriting(reader.seq)
<1> DEFINE k == slotSeq[reader.slot]
<1>1. /\ reader.seq \in 1..frameSeq /\ reader.slot = SlotOf(reader.seq)
      /\ reader.slot \in Slots /\ k \in Nat /\ k >= reader.seq
      /\ frameSeq \in Nat /\ writer.pos \in Nat
  BY SlotOfFrame DEF Picked, Inv, Typed, TypeOK, ReaderStates, WriterStates
<1>2. /\ reader.slot = SlotOf(k)
      /\ k \in (frameSeq - SlotCount + 1)..frameSeq
      /\ \/ slot[reader.slot] = [q \in Pieces |-> Frame(run, k)]
         \/ reader.slot = Target /\ writer.pos > 0
  <2>1. k > 0
    BY <1>1
  <2> QED
    BY <1>1, <2>1 DEF CurrentRead, Inv, RingInv, RingIsConsistent
<1> HIDE DEF k
<1>3. CASE k = reader.seq
  <2>1. CASE slot[reader.slot] = [q \in Pieces |-> Frame(run, k)]
    BY <1>3, <2>1
  <2>2. CASE reader.slot = Target /\ writer.pos > 0
    <3>1. SlotOf(reader.seq) = SlotOf(frameSeq + 1)
          /\ reader.seq < frameSeq + 1
      BY <1>1, <2>2 DEF Target
    <3>2. reader.seq + SlotCount <= frameSeq + 1
      BY <1>1, <3>1, SlotOfFrame
    <3> QED
      BY <1>1, <2>2, <3>2, PreviewAssumption DEF Overwriting
  <2> QED
    BY <1>2, <2>1, <2>2
<1>4. CASE k # reader.seq
  <2>1. reader.seq \in Nat /\ reader.seq < k
    BY <1>1, <1>4
  <2>2. SlotOf(reader.seq) = SlotOf(k)
    BY <1>1, <1>2
  <2>3. reader.seq + SlotCount <= k
    BY <1>1, <2>1, <2>2, SlotOfFrame
  <2> QED
    BY <1>1, <1>2, <2>1, <2>3, PreviewAssumption DEF Overwriting
<1> QED
  BY <1>3, <1>4

LEMMA CopyKeepsRead ==
  ASSUME Inv, CopyPiece
  PROVE  ReadInv'
<1> DEFINE n == reader.pos + 1
           piece == slot[reader.slot][n]
<1>1. /\ reader.pc = "copy" /\ reader.slot \in Slots /\ n \in Pieces
      /\ reader'.run = reader.run /\ reader'.seen = reader.seen
      /\ reader'.slot = reader.slot /\ reader'.seq = reader.seq
      /\ reader'.view = [reader.view EXCEPT ![n] = piece]
      /\ reader'.pc \in {"idle", "copy", "verify"}
      /\ reader'.pc = "copy" => reader'.pos = n
      /\ reader'.pc = "verify" => n = Parts
      /\ UNCHANGED <<slotSeq, slot, frameSeq, writer, run>>
  BY PreviewAssumption
     DEF CopyPiece, Inv, Typed, TypeOK, ReaderInPlace, ReaderStates, Pieces,
         ringVars
<1>2. SUFFICES ASSUME reader.run = run PROVE CurrentRead'
  BY <1>1 DEF Inv, ReadInv
<1>3. CurrentRead /\ Picked /\ Copied(reader.pos)
  BY <1>1, <1>2 DEF Inv, ReadInv, CurrentRead
<1>4. Picked'
  BY <1>1, <1>3 DEF Picked
<1>5. Overwriting(reader.seq) => Overwriting(reader.seq)'
  BY <1>1 DEF Overwriting
<1>6. \/ Overwriting(reader.seq)
      \/ \A p \in 1..n : reader'.view[p] = Frame(run, reader.seq)
  <2>1. CASE Overwriting(reader.seq)
    BY <2>1
  <2>2. CASE ~Overwriting(reader.seq)
    <3>1. piece = Frame(run, reader.seq)
      BY <1>1, <1>3, <2>2, CopiesPicked
    <3>2. \A p \in 1..reader.pos : reader.view[p] = Frame(run, reader.seq)
      BY <1>3, <2>2 DEF Copied
    <3>3. reader.view \in [Pieces -> Frames] /\ reader.pos \in Nat
      BY DEF Inv, Typed, TypeOK, ReaderStates
    <3>4. ASSUME NEW p \in 1..n PROVE reader'.view[p] = Frame(run, reader.seq)
      <4>1. p \in Pieces /\ (p # n => p \in 1..reader.pos)
        BY <1>1, <3>3, PreviewAssumption DEF Pieces
      <4> QED
        BY <1>1, <3>1, <3>2, <3>3, <4>1
    <3> QED
      BY <3>4
  <2> QED
    BY <2>1, <2>2
<1> HIDE DEF n, piece
<1>7. reader'.pc = "copy" => Copied(reader.pos)'
  BY <1>1, <1>5, <1>6 DEF Copied
<1>8. reader'.pc = "verify" => Copied(Parts)'
  BY <1>1, <1>5, <1>6 DEF Copied
<1> QED
  BY <1>1, <1>3, <1>4, <1>7, <1>8 DEF CurrentRead

LEMMA RestKeepsRead ==
  ASSUME Inv,
         \/ VerifyFrame \/ SkipFrame \/ MarkPending \/ EmitFrame
         \/ ConsumeFrame \/ RestartPreview \/ UNCHANGED vars
  PROVE  ReadInv'
<1>1. UNCHANGED <<slotSeq, slot, frameSeq, writer, run>>
  BY DEF VerifyFrame, SkipFrame, MarkPending, EmitFrame, ConsumeFrame,
         RestartPreview, vars, ringVars
<1>2. CASE reader' = reader
  BY <1>1, <1>2
     DEF Inv, ReadInv, CurrentRead, Picked, Copied, Overwriting
<1>3. CASE VerifyFrame \/ SkipFrame \/ MarkPending \/ EmitFrame
  <2>1. /\ reader'.pc \notin {"scan", "copy", "verify"}
        /\ reader'.run = reader.run /\ reader'.seen = reader.seen
    BY <1>3 DEF VerifyFrame, SkipFrame, MarkPending, EmitFrame, Inv, Typed,
                TypeOK, ReaderStates
  <2> QED
    BY <1>1, <2>1 DEF Inv, ReadInv, CurrentRead
<1>4. CASE ConsumeFrame \/ RestartPreview \/ UNCHANGED vars
  BY <1>2, <1>4 DEF ConsumeFrame, RestartPreview, vars, readerVars
<1> QED
  BY <1>3, <1>4

LEMMA InvHolds == Spec => []Inv
<1>1. Init => ReadInv
  BY SlotOfFrame DEF Init, ReadInv, CurrentRead
<1>2. Inv /\ [Next]_vars => ReadInv'
  BY WritingKeepsRead, ResetKeepsRead, BeginKeepsRead, ScanKeepsRead,
     CopyKeepsRead, RestKeepsRead DEF Next, WriterNext, ReaderNext
<1>3. Typed /\ RingInv /\ ReadInv <=> Inv
  BY DEF Inv
<1> QED
  BY <1>1, <1>2, <1>3, TypedHolds, RingInvHolds, PTL DEF Spec

\* readLatestFrame returns only whole frames under their own number, as long
\* as the writer is not in the middle of overwriting the very slot.
THEOREM AcceptedWhole == Spec => AcceptedIsWholeUnlessOverwritten
<1> DEFINE A == reader.pc = "verify" /\ reader'.pc = "got" /\ reader.run = run
                  => \/ reader.view = [p \in Pieces |-> Frame(run, reader.seq)]
                     \/ writer.pos > 0 /\ Target = reader.slot
<1>1. Inv /\ [Next]_vars => [A]_vars
  <2> SUFFICES ASSUME Inv, [Next]_vars, reader.pc = "verify",
                      reader'.pc = "got", reader.run = run
               PROVE  \/ reader.view = [p \in Pieces |-> Frame(run, reader.seq)]
                      \/ writer.pos > 0 /\ Target = reader.slot
    OBVIOUS
  <2>1. VerifyFrame /\ StillPublished
    BY DEF Next, WriterNext, ReaderNext, WritePiece, Publish, RestartWriter,
           ResetSlot, ClearBuffers, BeginRead, ScanSlot, CopyPiece,
           VerifyFrame, SkipFrame, MarkPending, EmitFrame, ConsumeFrame,
           RestartPreview, vars, readerVars, Inv, Typed, TypeOK, ReaderStates
  <2>2. CurrentRead /\ Picked /\ Copied(Parts)
    BY DEF Inv, ReadInv, CurrentRead
  <2>3. /\ reader.seq \in 1..frameSeq /\ reader.slot = SlotOf(reader.seq)
        /\ reader.slot \in Slots /\ frameSeq \in Nat /\ writer.pos \in Nat
        /\ slotSeq[reader.slot] = reader.seq
    BY <2>1, <2>2, SlotOfFrame
       DEF Picked, StillPublished, Inv, Typed, TypeOK, ReaderStates, WriterStates
  <2>4. CASE Overwriting(reader.seq)
    <3>1. reader.seq \in (frameSeq - SlotCount + 1)..frameSeq
      BY <2>2, <2>3 DEF CurrentRead, Inv, RingInv, RingIsConsistent
    <3>2. writer.pos > 0 /\ frameSeq + 1 = reader.seq + SlotCount
      BY <2>3, <2>4, <3>1, PreviewAssumption DEF Overwriting
    <3>3. Target = reader.slot
      BY <2>3, <3>2, SlotOfFrame DEF Target
    <3> QED
      BY <3>2, <3>3
  <2>5. CASE ~Overwriting(reader.seq)
    <3>1. \A p \in Pieces : reader.view[p] = Frame(run, reader.seq)
      BY <2>2, <2>5 DEF Copied, Pieces
    <3>2. reader.view \in [Pieces -> Frames]
      BY DEF Inv, Typed, TypeOK, ReaderStates
    <3> QED
      BY <3>1, <3>2
  <2> QED
    BY <2>4, <2>5
<1> QED
  BY <1>1, InvHolds, PTL DEF Spec, AcceptedIsWholeUnlessOverwritten

\* The scan of readLatestFrame, which reads the numbers one by one while the
\* writer goes on, never passes over a frame that was there when it began.
THEOREM ScanComplete == Spec => ScanMissesNothing
<1> DEFINE A == reader.pc = "scan" /\ reader'.pc # "scan" /\ reader.run = run
                  => reader'.seq >= reader.seen
<1>1. Inv /\ [Next]_vars => [A]_vars
  <2> SUFFICES ASSUME Inv, [Next]_vars, reader.pc = "scan",
                      reader'.pc # "scan", reader.run = run
               PROVE  reader'.seq >= reader.seen
    OBVIOUS
  <2>1. ScanSlot
    BY DEF Next, WriterNext, ReaderNext, WritePiece, Publish, RestartWriter,
           ResetSlot, ClearBuffers, BeginRead, CopyPiece, VerifyFrame,
           SkipFrame, MarkPending, EmitFrame, ConsumeFrame, RestartPreview,
           vars, readerVars
  <2>2. reader.pos + 1 = SlotCount
    BY <2>1 DEF ScanSlot, Inv, Typed, TypeOK, ReaderStates
  <2>3. reader.seen \in Nat /\ SlotOf(reader.seen) \in Slots
    BY SlotOfFrame DEF Inv, Typed, TypeOK, ReaderStates
  <2>4. reader'.seq \in Nat
    BY TypedStep DEF Inv, Typed, TypeOK, ReaderStates
  <2>5. reader.seen > 0 => \/ reader'.seq >= reader.seen
                           \/ SlotOf(reader.seen) >= reader.pos + 1
    BY <2>1, ScanFinds
  <2> QED
    BY <2>2, <2>3, <2>4, <2>5, PreviewAssumption DEF Slots
<1> QED
  BY <1>1, InvHolds, PTL DEF Spec, ScanMissesNothing

---------------------------------------------------------------------------
(* Samples on their way to the page: induction and the curve of a poll      *)

\* Induction over the numbers, for sets, from the order of the numbers being well-founded.
Lower == {s \in Nat \X Nat : s[1] < s[2]}

LEMMA Descent == IsWellFoundedOn(Lower, Nat)
  BY NatLessThanWellFounded DEF OpToRel, Lower

LEMMA SetInduction ==
  ASSUME NEW S, 0 \in S, \A n \in Nat : n \in S => n + 1 \in S
  PROVE  Nat \subseteq S
<1> SUFFICES ASSUME Nat \ S # {} PROVE FALSE
  OBVIOUS
<1>1. PICK x \in Nat \ S : \A y \in Nat \ S : <<y, x>> \notin Lower
  BY Descent, WFMin
<1>2. x # 0 /\ x - 1 \in Nat /\ <<x - 1, x>> \in Lower
  BY DEF Lower
<1>3. x - 1 \in S
  BY <1>1, <1>2
<1> QED
  BY <1>2, <1>3

\* A set of numbers up to a bound has a last one.
LEMMA LastExists ==
  ASSUME NEW size \in Nat, NEW S, S \subseteq 1..size, S # {}
  PROVE  \E i \in S : \A j \in S : j <= i
<1> DEFINE D == {n \in Nat : \E i \in S : n = size - i}
<1>1. D # {} /\ D \subseteq Nat
  BY \A i \in S : size - i \in Nat
<1>2. PICK x \in D : \A y \in D : <<y, x>> \notin Lower
  BY <1>1, Descent, WFMin
<1>3. PICK i \in S : x = size - i
  BY <1>2
<1>4. ASSUME NEW j \in S PROVE j <= i
  <2>1. size - j \in D
    OBVIOUS
  <2>2. ~(size - j < x)
    BY <1>2, <2>1 DEF Lower
  <2> QED BY <1>3, <2>2
<1> QED BY <1>4

\* The recursive function of CurveAfter is one: there is a curve after every item.
LEMMA CurveExists ==
  ASSUME NEW size \in Nat
  PROVE  \E f : f = [k \in 0..size |->
            IF k = 0
              THEN [points |-> curve, last |-> curveTime, previous |-> latest["imu"].time]
              ELSE Applied(f[k - 1], pending[k])]
<1> DEFINE base == [points |-> curve, last |-> curveTime, previous |-> latest["imu"].time]
           Is(f, n) == f = [k \in 0..n |-> IF k = 0 THEN base ELSE Applied(f[k - 1], pending[k])]
           S == {n \in Nat : \E f : Is(f, n)}
<1>1. 0 \in S
  <2>1. Is([k \in 0..0 |-> base], 0)
    BY \A k \in 0..0 : k = 0
  <2> QED BY <2>1
<1>2. ASSUME NEW n \in Nat, n \in S PROVE n + 1 \in S
  <2>1. PICK f : Is(f, n)
    BY <1>2
  <2>0. \A k \in 0..n : f[k] = IF k = 0 THEN base ELSE Applied(f[k - 1], pending[k])
    <3> HIDE DEF base
    <3> QED BY <2>1
  <2> DEFINE g == [k \in 0..(n + 1) |->
                     IF k = n + 1 THEN Applied(f[n], pending[n + 1]) ELSE f[k]]
  <2>2. Is(g, n + 1)
    <3>1. ASSUME NEW k \in 0..(n + 1) 
          PROVE g[k] = IF k = 0 THEN base ELSE Applied(g[k - 1], pending[k])
      <4>1. CASE k = n + 1
        BY <4>1
      <4>2. CASE k \in 1..n
        <5>1. k \in 0..n /\ k - 1 \in 0..(n + 1) /\ k # n + 1 /\ k - 1 # n + 1 /\ k # 0
          BY <4>2
        <5>2. g[k] = f[k] /\ g[k - 1] = f[k - 1]
          BY <5>1
        <5>3. f[k] = Applied(f[k - 1], pending[k])
          BY <2>0, <5>1
        <5> QED BY <5>1, <5>2, <5>3
      <4>3. CASE k = 0
        BY <2>1, <4>3
      <4> QED BY <4>1, <4>2, <4>3
    <3>2. g = [k \in 0..(n + 1) |-> g[k]]
      OBVIOUS
    <3> HIDE DEF g, base
    <3> QED BY <3>1, <3>2
  <2> HIDE DEF g
  <2> QED BY <2>2
<1>3. size \in S
  BY <1>1, <1>2, SetInduction
<1> QED BY <1>3

\* CurveAfter applies the items one after the other.
LEMMA CurveSteps ==
  ASSUME NEW size \in Nat
  PROVE  \E f : /\ CurveAfter(size) = f[size]
                /\ f[0] = [points |-> curve, last |-> curveTime, previous |-> latest["imu"].time]
                /\ \A k \in 1..size : f[k] = Applied(f[k - 1], pending[k])
<1> DEFINE base == [points |-> curve, last |-> curveTime, previous |-> latest["imu"].time]
           f == CHOOSE f : f = [k \in 0..size |-> IF k = 0 THEN base
                                                  ELSE Applied(f[k - 1], pending[k])]
<1>1. CurveAfter(size) = f[size]
  BY DEF CurveAfter
<1>2. f = [k \in 0..size |-> IF k = 0 THEN base ELSE Applied(f[k - 1], pending[k])]
  BY CurveExists
<1> HIDE DEF f, base
<1>3. f[0] = base
  BY <1>2
<1>4. \A k \in 1..size : f[k] = Applied(f[k - 1], pending[k])
  BY <1>2
<1> QED BY <1>1, <1>3, <1>4 DEF base

---------------------------------------------------------------------------
(* The queue                                                               *)

LEMMA LimitsTyped ==
  /\ Interval \in Nat \ {0} /\ Slack \in Nat \ {0} /\ QueueLimit \in Nat \ {0}
  /\ CurveLimit \in Nat \ {0} /\ SmallBatch \in Nat \ {0}
  /\ MaxTime \in Nat /\ MaxSamples \in Nat /\ MaxCameraFrames \in Nat
  /\ MaxGlassesRestarts \in Nat /\ MaxClicks \in Nat
  BY FlowAssumption DEF FlowAssumption

\* What has been put into the queue is its last item, the others have moved up by one if
\* it was full.
LEMMA Enqueued ==
  ASSUME pending \in Seq(Items), Len(pending) <= QueueLimit, NEW item \in Items
  PROVE  LET queue == EnqueuePendingEmit(pending, item)
         IN \E dropped \in 0..1 :
              /\ queue \in Seq(Items) /\ Len(queue) \in 1..QueueLimit
              /\ Len(queue) = Len(pending) + 1 - dropped
              /\ dropped = 1 => Len(pending) = QueueLimit
              /\ queue[Len(queue)] = item
              /\ \A i \in 1..(Len(queue) - 1) :
                   i + dropped \in 1..Len(pending) /\ queue[i] = pending[i + dropped]
<1> DEFINE longer == Append(pending, item)
<1>1. /\ longer \in Seq(Items) /\ Len(longer) = Len(pending) + 1
      /\ longer[Len(longer)] = item
      /\ \A i \in 1..Len(pending) : longer[i] = pending[i]
  OBVIOUS
<1> HIDE DEF longer
<1>2. CASE Len(longer) > QueueLimit
  <2>1. EnqueuePendingEmit(pending, item) = Tail(longer)
    BY <1>2 DEF EnqueuePendingEmit, longer
  <2>2. /\ Tail(longer) \in Seq(Items) /\ Len(Tail(longer)) = Len(longer) - 1
        /\ \A i \in 1..(Len(longer) - 1) : Tail(longer)[i] = longer[i + 1]
    BY <1>1, <1>2, LimitsTyped
  <2>3. Len(pending) = QueueLimit
    BY <1>1, <1>2, LimitsTyped
  <2> DEFINE queue == Tail(longer)
  <2>4. queue[Len(queue)] = item
    BY <1>1, <2>2, <2>3, LimitsTyped
  <2>5. \A i \in 1..(Len(queue) - 1) :
          i + 1 \in 1..Len(pending) /\ queue[i] = pending[i + 1]
    BY <1>1, <2>2, <2>3, LimitsTyped
  <2>6. queue \in Seq(Items) /\ Len(queue) = Len(pending) /\ Len(queue) \in 1..QueueLimit
    BY <1>1, <2>2, <2>3, LimitsTyped
  <2> HIDE DEF queue
  <2>7. EnqueuePendingEmit(pending, item) = queue
    BY <2>1 DEF queue
  <2> QED BY <2>3, <2>4, <2>5, <2>6, <2>7
<1>3. CASE ~(Len(longer) > QueueLimit)
  <2>1. EnqueuePendingEmit(pending, item) = longer
    BY <1>3 DEF EnqueuePendingEmit, longer
  <2>2. Len(longer) \in 1..QueueLimit
    BY <1>1, <1>3, LimitsTyped
  <2> QED BY <1>1, <2>1, <2>2
<1> QED BY <1>2, <1>3

\* What is left of the queue after its first items have been taken.
LEMMA Dequeued ==
  ASSUME pending \in Seq(Items), NEW size \in 0..Len(pending)
  PROVE  LET queue == SubSeq(pending, size + 1, Len(pending))
         IN /\ queue \in Seq(Items) /\ Len(queue) = Len(pending) - size
            /\ \A i \in 1..Len(queue) :
                 i + size \in 1..Len(pending) /\ queue[i] = pending[i + size]
  OBVIOUS

\* The last item of a name among the first of the queue.
LEMMA LastOfIsLast ==
  ASSUME pending \in Seq(Items), NEW size \in 0..Len(pending), NEW name, Of(name, size) # {}
  PROVE  \E i \in Of(name, size) :
           LastOf(name, size) = pending[i] /\ \A j \in Of(name, size) : j <= i
<1> DEFINE last == CHOOSE i \in Of(name, size) : \A j \in Of(name, size) : j <= i
<1>1. \E i \in Of(name, size) : \A j \in Of(name, size) : j <= i
  <2>1. Of(name, size) \subseteq 1..size /\ size \in Nat
    BY DEF Of
  <2> QED BY <2>1, LastExists
<1>2. last \in Of(name, size) /\ \A j \in Of(name, size) : j <= last
  BY <1>1
<1>3. LastOf(name, size) = pending[last]
  BY DEF LastOf
<1> HIDE DEF last
<1> QED BY <1>2, <1>3

---------------------------------------------------------------------------
(* The inductive invariant                                                  *)

Streams == [time : 0..MaxTime, number : 0..MaxSamples]
SentItems == [Names -> [number : Nat, since : 0..QueueLimit]]
LatestItems == [Names -> [number : Nat, time : Nat]]
DataUse == [frames : 0..MaxCameraFrames, restarts : 0..MaxGlassesRestarts,
            clicks : 0..MaxClicks]

\* DataTypeOK with names for its sets, but for the curve.
QueueTyped ==
  /\ stream \in Streams /\ lastSend \in 0..MaxTime
  /\ pending \in Seq(Items) /\ Len(pending) <= QueueLimit
  /\ sent \in SentItems /\ batch \in Nat /\ latest \in LatestItems
  /\ used \in DataUse

CurveTyped ==
  /\ subscribed \in BOOLEAN
  /\ curve \in Seq(0..MaxTime) /\ Len(curve) <= CurveLimit
  /\ curveTime \in {NoTime} \cup 0..MaxTime
  /\ taken \in {NoTime} \cup 0..MaxTime

LEMMA DataAllTyped == QueueTyped /\ CurveTyped <=> DataTypeOK
  BY DEF QueueTyped, CurveTyped, DataTypeOK, Streams, SentItems, LatestItems, DataUse

\* Where the newest item of a name is: lost behind a whole queue of others, at the page
\* with none behind it, or in the queue as the last of its name.
NewestInv ==
  \A n \in Names :
    \/ sent[n].since = QueueLimit
    \/ /\ latest[n].number = sent[n].number
       /\ \A i \in DOMAIN pending : pending[i].name # n
    \/ \E i \in DOMAIN pending :
         /\ pending[i].name = n /\ pending[i].number = sent[n].number
         /\ Len(pending) - i = sent[n].since
         /\ \A j \in DOMAIN pending : j > i => pending[j].name # n

\* The samples go through the queue in the order of their times, up to the last one sent.
QueueOrdered ==
  /\ latest["imu"].time <= lastSend
  /\ \A i \in DOMAIN pending : pending[i].name = "imu" =>
       /\ latest["imu"].time < pending[i].time /\ pending[i].time <= lastSend
       /\ \A j \in DOMAIN pending :
            i < j /\ pending[j].name = "imu" => pending[i].time < pending[j].time

\* No point of the curve, and none that was read, is later than the latest sample.
CurveInv ==
  /\ CurveIsOrdered
  /\ curveTime <= latest["imu"].time /\ taken <= latest["imu"].time
  /\ \A i \in DOMAIN curve : curve[i] <= latest["imu"].time

DataInv == QueueTyped /\ CurveTyped /\ NewestInv /\ QueueOrdered /\ CurveInv

LEMMA QueueFacts ==
  ASSUME QueueTyped
  PROVE  /\ Len(pending) \in Nat /\ DOMAIN pending = 1..Len(pending)
         /\ pending \in Seq(Items)
         /\ lastSend \in Nat /\ latest["imu"].time \in Nat
         /\ \A i \in 1..Len(pending) : /\ pending[i] \in Items /\ pending[i].number \in Nat
                                       /\ pending[i].time \in Nat
<1>1. pending \in Seq(Items) /\ lastSend \in Nat
  BY LimitsTyped DEF QueueTyped
<1>2. \A item \in Items : item.number \in Nat /\ item.time \in Nat
  BY DEF Items
<1>3. Len(pending) \in Nat /\ DOMAIN pending = 1..Len(pending)
      /\ \A i \in 1..Len(pending) : pending[i] \in Items
  BY <1>1
<1>4. latest["imu"].time \in Nat
  BY DEF QueueTyped, LatestItems, Names
<1> QED BY <1>1, <1>2, <1>3, <1>4

LEMMA CurveFacts ==
  ASSUME CurveTyped
  PROVE  /\ Len(curve) \in Nat /\ DOMAIN curve = 1..Len(curve)
         /\ \A i \in 1..Len(curve) : curve[i] \in 0..MaxTime /\ curve[i] \in Int
         /\ curveTime \in Int /\ taken \in Int
<1>1. curve \in Seq(0..MaxTime)
  BY DEF CurveTyped
<1>2. Len(curve) \in Nat /\ DOMAIN curve = 1..Len(curve)
      /\ \A i \in 1..Len(curve) : curve[i] \in 0..MaxTime
  <2>1. \A A : curve \in Seq(A) =>
          /\ Len(curve) \in Nat /\ DOMAIN curve = 1..Len(curve)
          /\ \A i \in 1..Len(curve) : curve[i] \in A
    OBVIOUS
  <2> QED BY <1>1, <2>1
<1>3. \A t \in 0..MaxTime : t \in Int
  OBVIOUS
<1>4. curveTime \in Int /\ taken \in Int
  BY <1>3 DEF CurveTyped, NoTime
<1> QED BY <1>2, <1>3, <1>4

LEMMA SeqElements ==
  ASSUME NEW A, NEW B, NEW s \in Seq(A), \A i \in 1..Len(s) : s[i] \in B
  PROVE  s \in Seq(B)
  OBVIOUS

LEMMA DataInitInv == DataInit => DataInv
<1> SUFFICES ASSUME DataInit PROVE DataInv
  OBVIOUS
<1> USE LimitsTyped DEF DataInit
<1>1. QueueTyped
  BY DEF QueueTyped, Streams, SentItems, LatestItems, DataUse
<1>2. CurveTyped
  <2>1. curve \in Seq(0..MaxTime) /\ Len(curve) = 0
    OBVIOUS
  <2>2. subscribed \in BOOLEAN /\ curveTime = NoTime /\ taken = NoTime
    OBVIOUS
  <2> QED BY <2>1, <2>2 DEF CurveTyped
<1>3. NewestInv /\ QueueOrdered
  BY DEF NewestInv, QueueOrdered, Names
<1>4. CurveInv
  BY DEF CurveInv, CurveIsOrdered, NoTime, Names
<1> QED BY <1>1, <1>2, <1>3, <1>4 DEF DataInv

---------------------------------------------------------------------------
(* A new item                                                               *)

\* An item of name n goes in: n has it last in the queue, the others have moved on.
LEMMA NewestEnqueued ==
  ASSUME QueueTyped, NewestInv, NEW item \in Items,
         pending' = EnqueuePendingEmit(pending, item), Sent(item.name, item.number),
         latest' = latest
  PROVE  NewestInv'
<1>1. PICK dropped \in 0..1 :
        /\ pending' \in Seq(Items) /\ Len(pending') \in 1..QueueLimit
        /\ Len(pending') = Len(pending) + 1 - dropped
        /\ dropped = 1 => Len(pending) = QueueLimit
        /\ pending'[Len(pending')] = item
        /\ \A i \in 1..(Len(pending') - 1) :
             i + dropped \in 1..Len(pending) /\ pending'[i] = pending[i + dropped]
  BY Enqueued DEF QueueTyped
<1>2. item.name \in Names /\ item.number \in Nat /\ Len(pending) \in Nat
  BY DEF Items, QueueTyped
<1>3. /\ sent'[item.name] = [number |-> item.number, since |-> 0]
      /\ \A n \in Names \ {item.name} :
           /\ sent'[n].number = sent[n].number /\ sent[n].since \in 0..QueueLimit
           /\ sent'[n].since = IF sent[n].since < QueueLimit THEN sent[n].since + 1
                               ELSE sent[n].since
  BY <1>2 DEF Sent, QueueTyped, SentItems
<1> SUFFICES ASSUME NEW n \in Names
             PROVE
    \/ sent'[n].since = QueueLimit
    \/ /\ latest[n].number = sent'[n].number
       /\ \A i \in 1..Len(pending') : pending'[i].name # n
    \/ \E i \in 1..Len(pending') :
         /\ pending'[i].name = n /\ pending'[i].number = sent'[n].number
         /\ Len(pending') - i = sent'[n].since
         /\ \A j \in 1..Len(pending') : j > i => pending'[j].name # n
  <2>1. DOMAIN pending' = 1..Len(pending')
    BY <1>1
  <2> QED BY <2>1 DEF NewestInv
<1>4. CASE n = item.name
  BY <1>1, <1>2, <1>3, <1>4
<1>5. CASE n # item.name
  <2>1. CASE sent[n].since = QueueLimit
    BY <1>3, <1>5, <2>1
  <2>2. CASE latest[n].number = sent[n].number /\ \A i \in 1..Len(pending) : pending[i].name # n
    <3>1. \A i \in 1..Len(pending') : pending'[i].name # n
      <4> TAKE i \in 1..Len(pending')
      <4>1. CASE i = Len(pending')
        BY <1>1, <1>5, <4>1
      <4>2. CASE i # Len(pending')
        <5>1. i \in 1..(Len(pending') - 1)
          BY <1>1, <4>2
        <5> QED BY <1>1, <2>2, <5>1
      <4> QED BY <4>1, <4>2
    <3> QED BY <1>3, <1>5, <2>2, <3>1
  <2>3. ASSUME NEW i \in 1..Len(pending), pending[i].name = n,
               pending[i].number = sent[n].number, Len(pending) - i = sent[n].since,
               \A j \in 1..Len(pending) : j > i => pending[j].name # n,
               sent[n].since # QueueLimit
        PROVE  \/ sent'[n].since = QueueLimit
               \/ \E k \in 1..Len(pending') :
                    /\ pending'[k].name = n /\ pending'[k].number = sent'[n].number
                    /\ Len(pending') - k = sent'[n].since
                    /\ \A j \in 1..Len(pending') : j > k => pending'[j].name # n
    <3>1. CASE i - dropped = 0
      BY <1>1, <1>2, <1>3, <1>5, <2>3, <3>1, LimitsTyped
    <3>2. CASE i - dropped # 0
      <4>1. i - dropped \in 1..(Len(pending') - 1)
        BY <1>1, <1>2, <3>2
      <4>2. pending'[i - dropped] = pending[i]
        BY <1>1, <4>1
      <4>3. sent'[n].number = sent[n].number /\ sent'[n].since = sent[n].since + 1
        BY <1>3, <1>5, <2>3, LimitsTyped
      <4>4. Len(pending') - (i - dropped) = sent'[n].since
        BY <1>1, <1>2, <2>3, <4>3
      <4>5. ASSUME NEW j \in 1..Len(pending'), j > i - dropped
            PROVE  pending'[j].name # n
        <5>1. CASE j = Len(pending')
          BY <1>1, <1>5, <5>1
        <5>2. CASE j # Len(pending')
          <6>1. j \in 1..(Len(pending') - 1)
            BY <1>1, <5>2
          <6>2. j + dropped \in 1..Len(pending) /\ pending'[j] = pending[j + dropped]
            BY <1>1, <6>1
          <6> QED BY <2>3, <4>5, <6>2
        <5> QED BY <5>1, <5>2
      <4>6. i - dropped \in 1..Len(pending')
        BY <1>1, <4>1
      <4> QED BY <2>3, <4>2, <4>3, <4>4, <4>5, <4>6
    <3> QED BY <3>1, <3>2
  <2>4. Len(pending) \in Nat /\ DOMAIN pending = 1..Len(pending)
    BY DEF QueueTyped
  <2> QED BY <2>1, <2>2, <2>3, <2>4 DEF NewestInv
<1> QED BY <1>4, <1>5

---------------------------------------------------------------------------
(* The curve                                                                *)

Curves == [points : Seq(Nat), last : {NoTime} \cup Nat, previous : Nat]

\* A curve that goes forward in time, up to the sample applied before.
Forward(c) ==
  /\ c \in Curves /\ Len(c.points) <= CurveLimit
  /\ \A i, j \in DOMAIN c.points : i < j => c.points[i] < c.points[j]
  /\ \A i \in DOMAIN c.points : taken < c.points[i] /\ c.points[i] <= c.previous
  /\ c.last <= c.previous /\ taken <= c.previous

\* A sample later than the one before is never taken for a restart of the glasses: it is
\* the new end of the curve, next to the last point or in its place.
LEMMA LaterPoint ==
  ASSUME NEW c, Forward(c), NEW time \in Nat, c.previous < time
  PROVE  \/ WithPoint(c, time) =
              [points |-> Append(c.points, time), last |-> time, previous |-> time]
         \/ /\ c.points = <<>>
            /\ WithPoint(c, time) = [points |-> c.points, last |-> c.last, previous |-> time]
         \/ /\ c.points # <<>>
            /\ WithPoint(c, time) =
                 [points |-> [c.points EXCEPT ![Len(c.points)] = time],
                  last |-> c.last, previous |-> time]
<1>1. c.previous \in Nat /\ c.last \in Int /\ c.last <= c.previous
  BY DEF Forward, Curves, NoTime
<1>2. ~(time < c.previous - Slack) /\ ~(time < c.last - Slack)
  BY <1>1, LimitsTyped
<1> QED BY <1>2 DEF WithPoint

\* With such a point, cut to its limit, the curve still goes forward.
LEMMA NewestForward ==
  ASSUME NEW c, Forward(c), NEW time \in Nat, c.previous < time,
         taken \in {NoTime} \cup Nat
  PROVE  LET d == [WithPoint(c, time) EXCEPT !.points = Newest(@)]
         IN Forward(d) /\ d.previous = time
<1> DEFINE points == c.points
           longer == Append(points, time)
           moved == [points EXCEPT ![Len(points)] = time]
           With(p, last) == [points |-> p, last |-> last, previous |-> time]
           d == [WithPoint(c, time) EXCEPT !.points = Newest(@)]
           Good(p) == /\ p \in Seq(Nat)
                      /\ \A i, j \in 1..Len(p) : i < j => p[i] < p[j]
                      /\ \A i \in 1..Len(p) : taken < p[i] /\ p[i] <= time
<1> SUFFICES Forward(d) /\ d.previous = time
  OBVIOUS
<1>0. taken \in Int /\ taken < time /\ c.last <= time /\ c.last \in {NoTime} \cup Nat
      /\ c.last \in Int /\ c.previous \in Nat
  BY DEF Forward, Curves, NoTime
<1>1. /\ points \in Seq(Nat) /\ Len(points) <= CurveLimit /\ Len(points) \in Nat
      /\ \A i, j \in 1..Len(points) : i < j => points[i] < points[j]
      /\ \A i \in 1..Len(points) : taken < points[i] /\ points[i] < time /\ points[i] \in Nat
  BY <1>0 DEF Forward, Curves
<1>2. ASSUME NEW p, Good(p), NEW last \in {NoTime} \cup Nat, last <= time,
             Len(p) <= CurveLimit
      PROVE  Forward(With(p, last))
  <2>1. With(p, last) \in Curves
    BY <1>2 DEF Curves
  <2>2. /\ With(p, last).points = p /\ With(p, last).last = last
        /\ With(p, last).previous = time /\ DOMAIN p = 1..Len(p)
    BY <1>2
  <2> HIDE DEF With
  <2> QED BY <1>0, <1>2, <2>1, <2>2 DEF Forward
<1>3. CASE WithPoint(c, time) = With(longer, time)
  <2>1. Good(longer) /\ Len(longer) = Len(points) + 1
    <3>1. /\ longer \in Seq(Nat) /\ Len(longer) = Len(points) + 1
          /\ longer[Len(longer)] = time /\ \A i \in 1..Len(points) : longer[i] = points[i]
      <4> HIDE DEF points
      <4> QED BY <1>1
    <3> HIDE DEF points, longer
    <3>2. \A i \in 1..Len(longer) :
            \/ i \in 1..Len(points) /\ longer[i] = points[i]
            \/ i = Len(longer) /\ longer[i] = time
      BY <1>1, <3>1
    <3>3. \A i, j \in 1..Len(longer) : i < j => longer[i] < longer[j]
      <4> TAKE i, j \in 1..Len(longer)
      <4> HAVE i < j
      <4>1. i \in 1..Len(points) /\ longer[i] = points[i]
        BY <1>1, <3>1, <3>2
      <4>2. CASE j \in 1..Len(points) /\ longer[j] = points[j]
        BY <1>1, <4>1, <4>2
      <4>3. CASE longer[j] = time
        BY <1>1, <4>1, <4>3
      <4> QED BY <3>2, <4>2, <4>3
    <3>4. \A i \in 1..Len(longer) : taken < longer[i] /\ longer[i] <= time
      BY <1>0, <1>1, <3>2
    <3> QED BY <3>1, <3>3, <3>4
  <2>2. Good(Newest(longer)) /\ Len(Newest(longer)) <= CurveLimit
    <3>1. CASE Len(longer) > CurveLimit
      <4> HIDE DEF longer, points
      <4>1. /\ Tail(longer) \in Seq(Nat) /\ Len(Tail(longer)) = Len(longer) - 1
            /\ \A i \in 1..Len(Tail(longer)) : Tail(longer)[i] = longer[i + 1]
        BY <2>1, <3>1, LimitsTyped
      <4>2. Good(Tail(longer))
        <5>1. \A i \in 1..Len(Tail(longer)) : i \in Nat /\ i + 1 \in 1..Len(longer)
          BY <2>1, <4>1
        <5>2. \A i \in 1..Len(Tail(longer)) : taken < Tail(longer)[i] /\ Tail(longer)[i] <= time
          BY <2>1, <4>1, <5>1
        <5>3. ASSUME NEW i \in 1..Len(Tail(longer)), NEW j \in 1..Len(Tail(longer)), i < j
              PROVE  Tail(longer)[i] < Tail(longer)[j]
          <6>1. /\ i + 1 \in 1..Len(longer) /\ j + 1 \in 1..Len(longer) /\ i + 1 < j + 1
            BY <5>1, <5>3
          <6>2. longer[i + 1] < longer[j + 1]
            BY <2>1, <6>1
          <6> QED BY <4>1, <6>2
        <5> QED BY <4>1, <5>2, <5>3
      <4>3. Len(Tail(longer)) <= CurveLimit
        BY <1>1, <2>1, <4>1
      <4> QED BY <3>1, <4>2, <4>3 DEF Newest
    <3>2. CASE ~(Len(longer) > CurveLimit)
      <4> HIDE DEF longer, points
      <4>1. Len(longer) <= CurveLimit
        BY <1>1, <2>1, <3>2, LimitsTyped
      <4> QED BY <2>1, <3>2, <4>1 DEF Newest
    <3> QED BY <3>1, <3>2
  <2>3. d = With(Newest(longer), time)
    BY <1>3
  <2> HIDE DEF longer, d, With, Good
  <2>4. Forward(d)
    BY <1>2, <2>2, <2>3
  <2> QED BY <2>3, <2>4 DEF d, With
<1>4. ASSUME NEW p, Good(p), Len(p) = Len(points), WithPoint(c, time) = With(p, c.last)
      PROVE  Forward(d) /\ d.previous = time
  <2>1. Newest(p) = p
    BY <1>1, <1>4, LimitsTyped DEF Newest
  <2>2. d = With(p, c.last)
    BY <1>4, <2>1
  <2> HIDE DEF d, Good
  <2> QED BY <1>0, <1>1, <1>2, <1>4, <2>2
<1>5. CASE WithPoint(c, time) = With(points, c.last)
  <2>1. Good(points)
    BY <1>0, <1>1
  <2> HIDE DEF Good, With, d
  <2> QED BY <1>4, <1>5, <2>1
<1>6. CASE points # <<>> /\ WithPoint(c, time) = With(moved, c.last)
  <2>1. Good(moved) /\ Len(moved) = Len(points)
    <3> HIDE DEF points
    <3> QED BY <1>0, <1>1, <1>6
  <2> HIDE DEF Good, With, d, moved
  <2> QED BY <1>4, <1>6, <2>1
<1> QED BY <1>3, <1>5, <1>6, LaterPoint

\* What has been applied last: the latest sample of before, or one of the queue.
Reached(time, size) ==
  time = latest["imu"].time \/ \E i \in Of("imu", size) : time = pending[i].time

\* The items of the queue, applied one after the other, leave a curve that goes forward.
LEMMA CurveGoesForward ==
  ASSUME QueueTyped, CurveTyped, QueueOrdered, CurveInv, NEW size \in 0..Len(pending)
  PROVE  LET c == CurveAfter(size) IN Forward(c) /\ Reached(c.previous, size)
<1>0. /\ size \in Nat /\ Len(pending) \in Nat /\ DOMAIN pending = 1..Len(pending)
      /\ \A i \in 1..Len(pending) : pending[i] \in Items
      /\ latest["imu"].time \in Nat /\ taken \in {NoTime} \cup Nat
  BY LimitsTyped DEF QueueTyped, CurveTyped, LatestItems, Names
<1>1. PICK f : /\ CurveAfter(size) = f[size]
               /\ f[0] = [points |-> curve, last |-> curveTime, previous |-> latest["imu"].time]
               /\ \A k \in 1..size : f[k] = Applied(f[k - 1], pending[k])
  BY <1>0, CurveSteps
<1> DEFINE Fine(k) == Forward(f[k]) /\ Reached(f[k].previous, k)
           S == {k \in Nat : k <= size => Fine(k)}
<1>2. 0 \in S
  <2>1. f[0] \in Curves
    <3>1. curve \in Seq(Nat)
      BY LimitsTyped DEF CurveTyped
    <3>2. curveTime \in {NoTime} \cup Nat
      BY LimitsTyped DEF CurveTyped
    <3>3. f[0] = [points |-> curve, last |-> curveTime, previous |-> latest["imu"].time]
      BY <1>1
    <3> QED BY <1>0, <3>1, <3>2, <3>3 DEF Curves
  <2>2. Forward(f[0])
    BY <1>0, <1>1, <2>1 DEF Forward, CurveTyped, CurveInv, CurveIsOrdered
  <2>3. Reached(f[0].previous, 0)
    BY <1>1 DEF Reached
  <2> QED BY <2>2, <2>3
<1>3. ASSUME NEW k \in Nat, k \in S PROVE k + 1 \in S
  <2> SUFFICES ASSUME k + 1 <= size PROVE Fine(k + 1)
    OBVIOUS
  <2>1. /\ Forward(f[k]) /\ Reached(f[k].previous, k)
        /\ k + 1 \in 1..size /\ k + 1 \in 1..Len(pending)
    BY <1>0, <1>3
  <2>2. f[k + 1] = Applied(f[k], pending[k + 1])
    BY <1>1, <2>1
  <2>3. Of("imu", k) \subseteq Of("imu", k + 1)
    BY DEF Of
  <2> HIDE DEF S
  <2>4. CASE pending[k + 1].name # "imu"
    <3>1. f[k + 1] = f[k]
      BY <2>2, <2>4 DEF Applied
    <3> QED BY <2>1, <2>3, <3>1 DEF Reached
  <2>5. CASE pending[k + 1].name = "imu"
    <3> DEFINE time == pending[k + 1].time
    <3>1. time \in Nat
      BY <1>0, <2>1 DEF Items
    <3>2. f[k].previous < time
      <4>1. CASE f[k].previous = latest["imu"].time
        BY <1>0, <2>1, <2>5, <4>1 DEF QueueOrdered
      <4>2. ASSUME NEW i \in Of("imu", k), f[k].previous = pending[i].time
            PROVE  f[k].previous < time
        <5>1. i \in 1..Len(pending) /\ i < k + 1 /\ pending[i].name = "imu"
          BY <1>0, <2>1 DEF Of
        <5> QED BY <1>0, <2>1, <2>5, <4>2, <5>1 DEF QueueOrdered
      <4> QED BY <2>1, <4>1, <4>2 DEF Reached
    <3>3. f[k + 1] = [WithPoint(f[k], time) EXCEPT !.points = Newest(@)]
      BY <2>2, <2>5 DEF Applied
    <3>4. Forward(f[k + 1]) /\ f[k + 1].previous = time
      <4> HIDE DEF time
      <4> QED BY <1>0, <2>1, <3>1, <3>2, <3>3, NewestForward
    <3>5. k + 1 \in Of("imu", k + 1)
      BY <2>5 DEF Of
    <3> QED BY <3>4, <3>5 DEF Reached
  <2> QED BY <2>4, <2>5
<1>4. size \in S
  <2> HIDE DEF S
  <2> QED BY <1>0, <1>2, <1>3, SetInduction
<1> QED BY <1>0, <1>1, <1>4

---------------------------------------------------------------------------
(* The subscriber threads                                                   *)

LEMMA SentTyped ==
  ASSUME QueueTyped, NEW name \in Names, NEW number \in Nat, Sent(name, number)
  PROVE  sent' \in SentItems
<1>1. \A n \in Names : /\ sent[n] \in [number : Nat, since : 0..QueueLimit]
                       /\ sent[n].since \in 0..QueueLimit
  BY DEF QueueTyped, SentItems
<1>2. \A n \in Names :
        [sent[n] EXCEPT !.since = IF @ < QueueLimit THEN @ + 1 ELSE @]
          \in [number : Nat, since : 0..QueueLimit]
  BY <1>1, LimitsTyped
<1>3. [number |-> number, since |-> 0] \in [number : Nat, since : 0..QueueLimit]
  BY LimitsTyped
<1> QED BY <1>2, <1>3 DEF Sent, SentItems

\* An item goes in behind all others, a sample with a later time than theirs.
LEMMA OrderedEnqueued ==
  ASSUME QueueTyped, QueueOrdered, NEW item \in Items,
         pending' = EnqueuePendingEmit(pending, item), latest' = latest,
         lastSend' \in Nat, lastSend <= lastSend',
         item.name = "imu" => lastSend < item.time /\ item.time = lastSend'
  PROVE  QueueOrdered'
<1>1. PICK dropped \in 0..1 :
        /\ pending' \in Seq(Items) /\ Len(pending') \in 1..QueueLimit
        /\ Len(pending') = Len(pending) + 1 - dropped
        /\ dropped = 1 => Len(pending) = QueueLimit
        /\ pending'[Len(pending')] = item
        /\ \A i \in 1..(Len(pending') - 1) :
             i + dropped \in 1..Len(pending) /\ pending'[i] = pending[i + dropped]
  BY Enqueued DEF QueueTyped
<1>2. /\ DOMAIN pending' = 1..Len(pending') /\ DOMAIN pending = 1..Len(pending)
      /\ \A i \in 1..Len(pending) : pending[i].time \in Nat
      /\ latest["imu"].time \in Nat /\ lastSend \in Nat /\ item.time \in Nat
  <2>1. DOMAIN pending' = 1..Len(pending')
    BY <1>1
  <2>2. item.time \in Nat
    BY DEF Items
  <2> QED BY <2>1, <2>2, QueueFacts
<1>3. latest["imu"].time <= lastSend'
  BY <1>2 DEF QueueOrdered
<1>4. ASSUME NEW i \in 1..Len(pending'), pending'[i].name = "imu"
      PROVE  latest["imu"].time < pending'[i].time /\ pending'[i].time <= lastSend'
  <2>1. CASE i = Len(pending')
    BY <1>1, <1>2, <1>4, <2>1 DEF QueueOrdered
  <2>2. CASE i # Len(pending')
    <3>1. i + dropped \in 1..Len(pending) /\ pending'[i] = pending[i + dropped]
      BY <1>1, <2>2
    <3> QED BY <1>2, <1>4, <3>1 DEF QueueOrdered
  <2> QED BY <2>1, <2>2
<1>5. ASSUME NEW i \in 1..Len(pending'), pending'[i].name = "imu",
             NEW j \in 1..Len(pending'), i < j, pending'[j].name = "imu"
      PROVE  pending'[i].time < pending'[j].time
  <2>0. Len(pending') \in Nat
    BY <1>1
  <2>1. i + dropped \in 1..Len(pending) /\ pending'[i] = pending[i + dropped]
    <3>1. i \in 1..(Len(pending') - 1)
      BY <1>5, <2>0
    <3> QED BY <1>1, <3>1
  <2>2. CASE j = Len(pending')
    <3>1. pending[i + dropped].time <= lastSend
      BY <1>2, <1>5, <2>1 DEF QueueOrdered
    <3> QED BY <1>1, <1>2, <1>5, <2>1, <2>2, <3>1
  <2>3. CASE j # Len(pending')
    <3>1. j + dropped \in 1..Len(pending) /\ pending'[j] = pending[j + dropped]
      BY <1>1, <2>3
    <3>2. i + dropped < j + dropped
      BY <1>5
    <3> QED BY <1>2, <1>5, <2>1, <3>1, <3>2 DEF QueueOrdered
  <2> QED BY <2>2, <2>3
<1> QED BY <1>2, <1>3, <1>4, <1>5 DEF QueueOrdered

\* The curve does not change, and the samples that it is up to do not either.
LEMMA CurveStays ==
  ASSUME CurveTyped, CurveInv, UNCHANGED <<curveVars, latest>>
  PROVE  CurveTyped' /\ CurveInv'
  BY DEF CurveTyped, CurveInv, CurveIsOrdered, curveVars

LEMMA QueueStays ==
  ASSUME NewestInv, QueueOrdered, UNCHANGED <<lastSend, pending, sent, latest>>
  PROVE  NewestInv' /\ QueueOrdered'
  BY DEF NewestInv, QueueOrdered

LEMMA ImuStep == ASSUME DataInv, ImuReceived PROVE DataInv'
<1>0. QueueTyped /\ CurveTyped /\ NewestInv /\ QueueOrdered /\ CurveInv
  BY DEF DataInv
<1>1. PICK gap \in 1..2 :
        LET time == stream.time + gap
            number == stream.number + 1
        IN /\ time <= MaxTime
           /\ stream' = [time |-> time, number |-> number]
           /\ IF Due(time)
                THEN /\ lastSend' = time
                     /\ pending' = EnqueuePendingEmit(pending,
                          [name |-> "imu", number |-> number, time |-> time])
                     /\ Sent("imu", number)
                ELSE UNCHANGED <<lastSend, pending, sent>>
  BY DEF ImuReceived
<1> DEFINE time == stream.time + gap
           number == stream.number + 1
           item == [name |-> "imu", number |-> number, time |-> time]
<1>2. /\ time \in 0..MaxTime /\ number \in 0..MaxSamples /\ lastSend \in 0..MaxTime
      /\ UNCHANGED <<batch, latest, curveVars, used>> /\ stream' \in Streams
  BY <1>0, <1>1, LimitsTyped DEF ImuReceived, QueueTyped, Streams
<1>3. item \in Items /\ item.name = "imu" /\ item.number = number /\ item.time = time
  BY <1>2, LimitsTyped DEF Items, Names
<1>4. CurveTyped' /\ CurveInv'
  BY <1>0, <1>2, CurveStays
<1>5. CASE ~Due(time)
  <2>1. UNCHANGED <<lastSend, pending, sent>>
    BY <1>1, <1>5
  <2>2. QueueTyped'
    BY <1>0, <1>2, <2>1 DEF QueueTyped
  <2> QED BY <1>0, <1>2, <1>4, <2>1, <2>2, QueueStays DEF DataInv
<1>6. CASE Due(time)
  <2>1. lastSend' = time /\ pending' = EnqueuePendingEmit(pending, item) /\ Sent("imu", number)
    BY <1>1, <1>6
  <2>2. lastSend < time
    BY <1>2, <1>6, LimitsTyped DEF Due
  <2> HIDE DEF item, number, time
  <2>3. pending' \in Seq(Items) /\ Len(pending') <= QueueLimit
    BY <1>0, <1>3, <2>1, Enqueued, LimitsTyped DEF QueueTyped
  <2>4. sent' \in SentItems
    BY <1>0, <1>2, <2>1, LimitsTyped, SentTyped DEF Names
  <2>5. QueueTyped'
    BY <1>0, <1>2, <2>1, <2>3, <2>4 DEF QueueTyped
  <2>6. NewestInv'
    BY <1>0, <1>2, <1>3, <2>1, NewestEnqueued
  <2>7. QueueOrdered'
    BY <1>0, <1>2, <1>3, <2>1, <2>2, LimitsTyped, OrderedEnqueued
  <2> QED BY <1>4, <2>5, <2>6, <2>7 DEF DataInv
<1> QED BY <1>5, <1>6

LEMMA CameraStep == ASSUME DataInv, CameraReceived PROVE DataInv'
<1>0. QueueTyped /\ CurveTyped /\ NewestInv /\ QueueOrdered /\ CurveInv
  BY DEF DataInv
<1> DEFINE number == used.frames + 1
           item == [name |-> "camera", number |-> number, time |-> stream.time]
<1>1. /\ pending' = EnqueuePendingEmit(pending, item) /\ Sent("camera", number)
      /\ UNCHANGED <<stream, lastSend, batch, latest, curveVars>>
      /\ used' = [used EXCEPT !.frames = @ + 1] /\ used.frames < MaxCameraFrames
  BY DEF CameraReceived
<1>2. number \in Nat /\ lastSend \in Nat /\ used' \in DataUse
  <2>1. used \in DataUse
    BY <1>0 DEF QueueTyped
  <2>2. lastSend \in Nat
    BY <1>0, QueueFacts
  <2> QED BY <1>1, <2>1, <2>2, LimitsTyped DEF DataUse
<1>3. /\ item \in Items /\ item.name = "camera" /\ item.number = number
  BY <1>0, <1>2, LimitsTyped DEF Items, Names, QueueTyped, Streams
<1>4. CurveTyped' /\ CurveInv'
  BY <1>0, <1>1, CurveStays
<1> HIDE DEF item, number
<1>5. pending' \in Seq(Items) /\ Len(pending') <= QueueLimit
  BY <1>0, <1>1, <1>3, Enqueued, LimitsTyped DEF QueueTyped
<1>6. sent' \in SentItems
  BY <1>0, <1>1, <1>2, SentTyped DEF Names
<1>7. QueueTyped'
  BY <1>0, <1>1, <1>2, <1>5, <1>6 DEF QueueTyped
<1>8. NewestInv'
  BY <1>0, <1>1, <1>3, NewestEnqueued
<1>9. QueueOrdered'
  BY <1>0, <1>1, <1>2, <1>3, OrderedEnqueued
<1> QED BY <1>4, <1>7, <1>8, <1>9 DEF DataInv

---------------------------------------------------------------------------
(* The poll                                                                 *)

\* What a poll takes from the queue is at the page, what it leaves keeps its place behind
\* the rest, and the curve is the one with the samples taken.
LEMMA PollStep == ASSUME DataInv, Poll PROVE DataInv'
<1>0. QueueTyped /\ CurveTyped /\ NewestInv /\ QueueOrdered /\ CurveInv
  BY DEF DataInv
<1> DEFINE size == IF batch < Len(pending) THEN batch ELSE Len(pending)
           after == CurveAfter(size)
<1>1. /\ pending' = SubSeq(pending, size + 1, Len(pending))
      /\ latest' = [n \in Names |->
           IF Of(n, size) = {} THEN latest[n]
           ELSE [number |-> LastOf(n, size).number, time |-> LastOf(n, size).time]]
      /\ IF subscribed THEN curve' = after.points /\ curveTime' = after.last
                       ELSE UNCHANGED <<curve, curveTime>>
      /\ batch' = 0
      /\ UNCHANGED <<stream, lastSend, sent, subscribed, taken, used>>
  BY DEF Poll
<1>2. /\ size \in 0..Len(pending) /\ Len(pending) \in Nat
      /\ DOMAIN pending = 1..Len(pending)
      /\ \A i \in 1..Len(pending) : /\ pending[i] \in Items /\ pending[i].number \in Nat
                                    /\ pending[i].time \in Nat
      /\ latest["imu"].time \in Nat /\ lastSend \in 0..MaxTime
      /\ "imu" \in Names
  <2>1. size \in 0..Len(pending)
    BY <1>0, QueueFacts DEF QueueTyped
  <2> HIDE DEF size
  <2>2. lastSend \in 0..MaxTime /\ "imu" \in Names
    BY <1>0 DEF QueueTyped, Names
  <2> QED BY <1>0, <2>1, <2>2, QueueFacts
<1> HIDE DEF size
<1>3. /\ pending' \in Seq(Items) /\ Len(pending') = Len(pending) - size
      /\ \A i \in 1..Len(pending') :
           i + size \in 1..Len(pending) /\ pending'[i] = pending[i + size]
      /\ DOMAIN pending' = 1..Len(pending')
  <2>1. pending \in Seq(Items)
    BY <1>0, QueueFacts
  <2> DEFINE queue == SubSeq(pending, size + 1, Len(pending))
  <2>2. /\ queue \in Seq(Items) /\ Len(queue) = Len(pending) - size
        /\ \A i \in 1..Len(queue) :
             i + size \in 1..Len(pending) /\ queue[i] = pending[i + size]
    BY <1>2, <2>1, Dequeued
  <2>3. pending' = queue
    BY <1>1
  <2> HIDE DEF queue
  <2>4. DOMAIN queue = 1..Len(queue)
    BY <2>2
  <2> QED BY <2>2, <2>3, <2>4
<1>4. ASSUME NEW n \in Names, Of(n, size) # {}
      PROVE  \E i \in Of(n, size) :
               /\ i \in 1..Len(pending) /\ i <= size /\ pending[i].name = n
               /\ latest'[n].number = pending[i].number
               /\ latest'[n].time = pending[i].time
               /\ \A j \in Of(n, size) : j <= i
  <2>1. PICK i \in Of(n, size) : LastOf(n, size) = pending[i] /\ \A j \in Of(n, size) : j <= i
    BY <1>0, <1>2, <1>4, LastOfIsLast DEF QueueTyped
  <2>2. latest'[n] = [number |-> pending[i].number, time |-> pending[i].time]
    BY <1>1, <1>4, <2>1
  <2>3. i \in 1..Len(pending) /\ i <= size /\ pending[i].name = n
    BY <1>2, <2>1 DEF Of
  <2>4. latest'[n].number = pending[i].number /\ latest'[n].time = pending[i].time
    BY <2>2
  <2> WITNESS i \in Of(n, size)
  <2> QED BY <2>1, <2>3, <2>4
<1>5. \A n \in Names : Of(n, size) = {} => latest'[n] = latest[n]
  BY <1>1
<1>6. QueueTyped'
  <2>1. latest' \in LatestItems
    <3>1. ASSUME NEW n \in Names
          PROVE  (IF Of(n, size) = {} THEN latest[n]
                  ELSE [number |-> LastOf(n, size).number, time |-> LastOf(n, size).time])
                 \in [number : Nat, time : Nat]
      <4>1. CASE Of(n, size) = {}
        BY <1>0, <4>1 DEF QueueTyped, LatestItems
      <4>2. CASE Of(n, size) # {}
        <5>1. PICK i \in Of(n, size) : LastOf(n, size) = pending[i]
          BY <1>0, <1>2, <4>2, LastOfIsLast DEF QueueTyped
        <5>2. LastOf(n, size).number \in Nat /\ LastOf(n, size).time \in Nat
          BY <1>2, <5>1 DEF Of
        <5> QED BY <4>2, <5>2
      <4> QED BY <4>1, <4>2
    <3> QED BY <1>1, <3>1 DEF LatestItems
  <2>2. Len(pending') <= QueueLimit
    BY <1>0, <1>2, <1>3, LimitsTyped DEF QueueTyped
  <2>3. UNCHANGED <<stream, lastSend, sent, used>> /\ batch' \in Nat
    BY <1>1
  <2> QED BY <1>0, <1>3, <2>1, <2>2, <2>3 DEF QueueTyped
<1>7. NewestInv'
  <2> SUFFICES ASSUME NEW n \in Names
               PROVE
      \/ sent[n].since = QueueLimit
      \/ /\ latest'[n].number = sent[n].number
         /\ \A i \in 1..Len(pending') : pending'[i].name # n
      \/ \E i \in 1..Len(pending') :
           /\ pending'[i].name = n /\ pending'[i].number = sent[n].number
           /\ Len(pending') - i = sent[n].since
           /\ \A j \in 1..Len(pending') : j > i => pending'[j].name # n
    <3>1. sent' = sent /\ DOMAIN pending' = 1..Len(pending')
      BY <1>1, <1>3
    <3> QED BY <3>1 DEF NewestInv
  <2>1. CASE latest[n].number = sent[n].number /\ \A i \in 1..Len(pending) : pending[i].name # n
    <3>1. Of(n, size) = {}
      BY <1>2, <2>1 DEF Of
    <3> QED BY <1>3, <1>5, <2>1, <3>1
  <2>2. ASSUME NEW i \in 1..Len(pending), pending[i].name = n,
               pending[i].number = sent[n].number, Len(pending) - i = sent[n].since,
               \A j \in 1..Len(pending) : j > i => pending[j].name # n
        PROVE  \/ /\ latest'[n].number = sent[n].number
                  /\ \A k \in 1..Len(pending') : pending'[k].name # n
               \/ \E k \in 1..Len(pending') :
                    /\ pending'[k].name = n /\ pending'[k].number = sent[n].number
                    /\ Len(pending') - k = sent[n].since
                    /\ \A j \in 1..Len(pending') : j > k => pending'[j].name # n
    <3>1. CASE i <= size
      <4>1. i \in Of(n, size)
        BY <1>2, <2>2, <3>1 DEF Of
      <4>2. PICK k \in Of(n, size) :
              /\ k \in 1..Len(pending) /\ pending[k].name = n
              /\ latest'[n].number = pending[k].number /\ i <= k
        BY <1>4, <4>1
      <4>3. k = i
        BY <2>2, <4>2
      <4>4. \A j \in 1..Len(pending') : j + size > i
        BY <1>2, <1>3, <3>1
      <4>5. \A j \in 1..Len(pending') : pending'[j].name # n
        BY <1>3, <2>2, <4>4
      <4> QED BY <2>2, <4>2, <4>3, <4>5
    <3>2. CASE i > size
      <4>1. i - size \in 1..Len(pending') /\ (i - size) + size = i
        BY <1>2, <1>3, <3>2
      <4>2. pending'[i - size] = pending[i]
        BY <1>3, <4>1
      <4>3. Len(pending') - (i - size) = sent[n].since
        BY <1>2, <1>3, <2>2
      <4>4. \A j \in 1..Len(pending') : j > i - size => j + size > i
        BY <1>2
      <4>5. \A j \in 1..Len(pending') : j > i - size => pending'[j].name # n
        BY <1>3, <2>2, <4>4
      <4> QED BY <2>2, <4>1, <4>2, <4>3, <4>5
    <3> QED BY <1>2, <3>1, <3>2
  <2>3. DOMAIN pending = 1..Len(pending)
    BY <1>2
  <2>4. \/ sent[n].since = QueueLimit
        \/ latest[n].number = sent[n].number /\ \A i \in 1..Len(pending) : pending[i].name # n
        \/ \E i \in 1..Len(pending) :
             /\ pending[i].name = n /\ pending[i].number = sent[n].number
             /\ Len(pending) - i = sent[n].since
             /\ \A j \in 1..Len(pending) : j > i => pending[j].name # n
    BY <1>0, <2>3 DEF NewestInv
  <2> QED BY <2>1, <2>2, <2>4
<1>8. /\ latest["imu"].time <= latest'["imu"].time
      /\ latest'["imu"].time <= lastSend /\ latest'["imu"].time \in Nat
      /\ \A i \in Of("imu", size) : pending[i].time <= latest'["imu"].time
      /\ \A i \in 1..Len(pending') : pending'[i].name = "imu" =>
           latest'["imu"].time < pending'[i].time
  <2>1. CASE Of("imu", size) = {}
    <3>1. latest'["imu"].time = latest["imu"].time
      BY <1>2, <1>5, <2>1
    <3>2. latest["imu"].time <= lastSend
      BY <1>0 DEF QueueOrdered
    <3>3. ASSUME NEW i \in 1..Len(pending'), pending'[i].name = "imu"
          PROVE  latest["imu"].time < pending'[i].time
      BY <1>0, <1>2, <1>3, <3>3 DEF QueueOrdered
    <3> QED BY <1>2, <2>1, <3>1, <3>2, <3>3
  <2>2. CASE Of("imu", size) # {}
    <3>1. PICK k \in Of("imu", size) :
            /\ k \in 1..Len(pending) /\ k <= size /\ pending[k].name = "imu"
            /\ latest'["imu"].time = pending[k].time
            /\ \A j \in Of("imu", size) : j <= k
      BY <1>2, <1>4, <2>2
    <3>2. latest["imu"].time < pending[k].time /\ pending[k].time <= lastSend
      BY <1>0, <1>2, <3>1 DEF QueueOrdered
    <3>3. ASSUME NEW i \in Of("imu", size) PROVE pending[i].time <= pending[k].time
      <4>1. i \in 1..Len(pending) /\ pending[i].name = "imu" /\ i <= k
        BY <1>2, <3>1 DEF Of
      <4>2. CASE i = k
        BY <1>2, <4>1, <4>2
      <4>3. CASE i < k
        BY <1>0, <1>2, <3>1, <4>1, <4>3 DEF QueueOrdered
      <4> QED BY <3>1, <4>1, <4>2, <4>3
    <3>4. ASSUME NEW i \in 1..Len(pending'), pending'[i].name = "imu"
          PROVE  pending[k].time < pending'[i].time
      <4>1. i + size \in 1..Len(pending) /\ pending'[i] = pending[i + size] /\ k < i + size
        BY <1>2, <1>3, <3>1
      <4> QED BY <1>0, <1>2, <3>1, <3>4, <4>1 DEF QueueOrdered
    <3>5. latest["imu"].time <= pending[k].time /\ pending[k].time \in Nat
      BY <1>2, <3>1, <3>2
    <3> QED BY <3>1, <3>2, <3>3, <3>4, <3>5
  <2> QED BY <2>1, <2>2
<1>9. QueueOrdered'
  <2>1. ASSUME NEW i \in 1..Len(pending'), pending'[i].name = "imu"
        PROVE  pending'[i].time <= lastSend
    BY <1>0, <1>2, <1>3, <2>1 DEF QueueOrdered
  <2>2. ASSUME NEW i \in 1..Len(pending'), pending'[i].name = "imu",
               NEW j \in 1..Len(pending'), i < j, pending'[j].name = "imu"
        PROVE  pending'[i].time < pending'[j].time
    <3>1. i + size < j + size
      BY <1>2, <2>2
    <3> QED BY <1>0, <1>2, <1>3, <2>2, <3>1 DEF QueueOrdered
  <2> QED BY <1>1, <1>3, <1>8, <2>1, <2>2 DEF QueueOrdered
<1>10. CurveTyped' /\ CurveInv'
  <2>0. /\ taken \in {NoTime} \cup 0..MaxTime /\ taken \in Int /\ MaxTime \in Nat
        /\ taken <= latest["imu"].time /\ latest'["imu"].time <= MaxTime
        /\ latest["imu"].time \in Nat /\ latest'["imu"].time \in Nat
    BY <1>0, <1>2, <1>8, LimitsTyped DEF CurveTyped, CurveInv, NoTime
  <2>1. CASE subscribed
    <3>1. curve' = after.points /\ curveTime' = after.last
      BY <1>1, <2>1
    <3>2. Forward(after) /\ Reached(after.previous, size)
      BY <1>0, <1>2, CurveGoesForward
    <3> HIDE DEF after
    <3>3. after.previous <= latest'["imu"].time /\ after.previous \in Nat
      BY <1>2, <1>8, <3>2 DEF Reached, Forward, Curves
    <3>4. /\ curve' \in Seq(Nat) /\ Len(curve') <= CurveLimit
          /\ \A i, j \in DOMAIN curve' : i < j => curve'[i] < curve'[j]
          /\ \A i \in DOMAIN curve' : taken < curve'[i] /\ curve'[i] <= after.previous
          /\ curveTime' \in {NoTime} \cup Nat /\ curveTime' <= after.previous
      BY <3>1, <3>2 DEF Forward, Curves
    <3>5. \A i \in DOMAIN curve' :
            curve'[i] \in 0..MaxTime /\ curve'[i] <= latest'["imu"].time
      BY <2>0, <3>3, <3>4
    <3>6. curve' \in Seq(0..MaxTime)
      <4>1. \A i \in 1..Len(curve') : curve'[i] \in 0..MaxTime
        BY <3>4, <3>5
      <4> HIDE DEF curveVars
      <4> QED BY <3>4, <4>1, SeqElements
    <3>7. curveTime' <= latest'["imu"].time /\ curveTime' \in {NoTime} \cup 0..MaxTime
      BY <2>0, <3>3, <3>4 DEF NoTime
    <3>8. CurveTyped'
      BY <1>0, <1>1, <2>0, <3>4, <3>6, <3>7 DEF CurveTyped
    <3>9. CurveInv'
      <4>1. taken' = taken /\ taken <= latest'["imu"].time
        BY <1>1, <1>8, <2>0
      <4> QED BY <3>4, <3>5, <3>7, <4>1 DEF CurveInv, CurveIsOrdered
    <3> QED BY <3>8, <3>9
  <2>2. CASE ~subscribed
    <3>1. UNCHANGED <<subscribed, curve, curveTime, taken>>
      BY <1>1, <2>2
    <3>2. \A i \in DOMAIN curve : curve[i] \in Int
      BY <1>0, CurveFacts
    <3>3. curveTime \in Int
      BY <1>0, CurveFacts
    <3>4. CurveTyped'
      BY <1>0, <3>1 DEF CurveTyped
    <3> QED BY <1>0, <1>8, <2>0, <3>1, <3>2, <3>3, <3>4 DEF CurveInv, CurveIsOrdered
  <2> QED BY <2>1, <2>2
<1> QED BY <1>6, <1>7, <1>9, <1>10 DEF DataInv

---------------------------------------------------------------------------
(* The other steps                                                          *)

LEMMA OtherDataStep ==
  ASSUME DataInv, GlassesRestart \/ BeginPoll
  PROVE  DataInv'
<1>0. QueueTyped /\ CurveTyped /\ NewestInv /\ QueueOrdered /\ CurveInv
  BY DEF DataInv
<1>1. UNCHANGED <<lastSend, pending, sent, latest, curveVars>>
  BY DEF GlassesRestart, BeginPoll
<1>2. QueueTyped'
  <2>1. CASE GlassesRestart
    <3>1. stream' \in Streams
      BY <1>0, <2>1, LimitsTyped DEF GlassesRestart, QueueTyped, Streams
    <3>2. used' \in DataUse /\ batch' = batch
      <4>1. used \in DataUse
        BY <1>0 DEF QueueTyped
      <4>2. used.restarts < MaxGlassesRestarts /\ batch' = batch
            /\ used' = [used EXCEPT !.restarts = @ + 1]
        BY <2>1 DEF GlassesRestart
      <4> QED BY <4>1, <4>2, LimitsTyped DEF DataUse
    <3> QED BY <1>0, <1>1, <3>1, <3>2 DEF QueueTyped
  <2>2. CASE BeginPoll
    BY <1>0, <1>1, <2>2, LimitsTyped DEF BeginPoll, QueueTyped
  <2> QED BY <2>1, <2>2
<1> QED BY <1>0, <1>1, <1>2, CurveStays, QueueStays DEF DataInv

LEMMA ClickStep ==
  ASSUME DataInv, SubscribeData \/ UnsubscribeData \/ GetDisplayBuffer
  PROVE  DataInv'
<1>0. QueueTyped /\ CurveTyped /\ NewestInv /\ QueueOrdered /\ CurveInv
  BY DEF DataInv
<1>1. Click
  BY DEF SubscribeData, UnsubscribeData, GetDisplayBuffer
<1>2. UNCHANGED <<stream, lastSend, pending, sent, batch, latest>>
  BY <1>1 DEF Click
<1>3. QueueTyped'
  <2>1. used \in DataUse
    BY <1>0 DEF QueueTyped
  <2>2. used.clicks < MaxClicks /\ used' = [used EXCEPT !.clicks = @ + 1]
    BY <1>1 DEF Click
  <2>3. used' \in DataUse
    BY <2>1, <2>2, LimitsTyped DEF DataUse
  <2> QED BY <1>0, <1>2, <2>3 DEF QueueTyped
<1>4. latest["imu"].time \in Nat
  BY <1>0 DEF QueueTyped, LatestItems, Names
<1>5. CurveTyped' /\ CurveInv'
  <2>1. CASE SubscribeData
    BY <1>0, <1>2, <1>4, <2>1
       DEF SubscribeData, CurveTyped, CurveInv, CurveIsOrdered, NoTime
  <2>2. CASE UnsubscribeData
    <3>1. curve' = <<>> /\ curveTime' = NoTime /\ subscribed' = FALSE /\ taken' = taken
      BY <2>2 DEF UnsubscribeData
    <3>2. curve' \in Seq(0..MaxTime) /\ Len(curve') = 0 /\ DOMAIN curve' = {}
      BY <3>1
    <3>3. CurveTyped'
      <4>1. Len(curve') <= CurveLimit
        BY <3>2, LimitsTyped
      <4>2. taken \in {NoTime} \cup 0..MaxTime
        BY <1>0 DEF CurveTyped
      <4> QED BY <3>1, <3>2, <4>1, <4>2 DEF CurveTyped
    <3>4. NoTime <= latest["imu"].time
      BY <1>4 DEF NoTime
    <3> QED BY <1>0, <1>2, <3>1, <3>2, <3>3, <3>4 DEF CurveInv, CurveIsOrdered
  <2>3. CASE GetDisplayBuffer
    <3>1. /\ curve # <<>> /\ taken' = curve[Len(curve)] /\ curve' = <<>>
          /\ subscribed' = subscribed /\ curveTime' = curveTime
      BY <2>3 DEF GetDisplayBuffer, Consumed
    <3>2. Len(curve) \in DOMAIN curve
      BY <1>0, <3>1 DEF CurveTyped
    <3>3. taken' \in 0..MaxTime /\ taken' <= latest["imu"].time
      BY <1>0, <3>1, <3>2, CurveFacts DEF CurveInv
    <3>4. curve' \in Seq(0..MaxTime) /\ Len(curve') = 0 /\ DOMAIN curve' = {}
      BY <3>1
    <3>5. CurveTyped'
      BY <1>0, <3>1, <3>3, <3>4, LimitsTyped DEF CurveTyped
    <3> QED BY <1>0, <1>2, <3>1, <3>3, <3>4, <3>5 DEF CurveInv, CurveIsOrdered
  <2> QED BY <2>1, <2>2, <2>3
<1> QED BY <1>0, <1>2, <1>3, <1>5, QueueStays DEF DataInv

LEMMA DataInvHolds == DataSpec => []DataInv
<1>1. DataInv /\ [DataNext]_dataVars => DataInv'
  <2> SUFFICES ASSUME DataInv, [DataNext]_dataVars PROVE DataInv'
    OBVIOUS
  <2>1. CASE UNCHANGED dataVars
    <3>1. QueueTyped' /\ NewestInv' /\ QueueOrdered'
      BY <2>1, QueueStays DEF dataVars, DataInv, QueueTyped
    <3> QED BY <2>1, <3>1, CurveStays DEF dataVars, DataInv
  <2>2. CASE DataNext
    BY <2>2, ImuStep, CameraStep, PollStep, OtherDataStep, ClickStep DEF DataNext
  <2> QED BY <2>1, <2>2
<1> QED BY <1>1, DataInitInv, PTL DEF DataSpec

\* The queue never holds more than maxPendingEmitCount_ items and the curve no more than
\* maxBufferSize_ points, and everything else of the receiver keeps its type.
THEOREM DataTypes == DataSpec => []DataTypeOK
<1>1. DataInv => DataTypeOK
  BY DataAllTyped DEF DataInv
<1> QED BY <1>1, DataInvHolds, PTL

\* enqueuePendingEmit and pollReceiverData bring the newest item of a name to the page,
\* unless a whole queue of others has been put in behind it.
THEOREM NewestReachesPage == DataSpec => []NewestIsKept
<1>1. DataInv => NewestIsKept
  BY DEF DataInv, NewestInv, NewestIsKept
<1> QED BY <1>1, DataInvHolds, PTL

\* applyDataUpdate and getDisplayBuffer keep the curve in the order of time and hand no
\* sample out twice, across restarts of the glasses and subscriptions.
THEOREM CurveKeepsOrder == DataSpec => []CurveIsOrdered
<1>1. DataInv => CurveIsOrdered
  BY DEF DataInv, CurveInv
<1> QED BY <1>1, DataInvHolds, PTL
=============================================================================
