------------------------- MODULE VoiceCaptureProofs -------------------------
(***************************************************************************)
(* Safety of the voice capture for every queue length and window size.     *)
(***************************************************************************)
EXTENDS VoiceCapture, TLAPS

\* No chunk of the window holds audio that was posted or cancelled.
NoSpent == \A c \in Chunk : buffer[c] \notin Spent

(***************************************************************************)
(* The inductive invariant.  The receive timeout and the flag move         *)
(* together; a window is only being read while the flag is set; and spent  *)
(* audio is in the window only between the end of a recording and the      *)
(* memset that follows it.                                                 *)
(***************************************************************************)
CaptureInv ==
  /\ TypeOK
  /\ delay = "zero" <=> voice_reading
  /\ pc = "read" => voice_reading
  /\ NoSpent \/ (pc = "fill" /\ ~voice_reading)

-----------------------------------------------------------------------------
\* A sequence of messages keeps its element type in the queue operations.
LEMMA QueueLemma ==
  ASSUME NEW q \in Seq(Msgs), NEW m \in Msgs
  PROVE  /\ Append(q, m) \in Seq(Msgs)
         /\ Len(Append(q, m)) = Len(q) + 1
         /\ Len(q) \in Nat
         /\ q # <<>> => /\ Head(q) \in Msgs
                        /\ Tail(q) \in Seq(Msgs)
                        /\ Len(Tail(q)) = Len(q) - 1
  OBVIOUS

\* The recorder engine's callback preserves the invariant.
LEMMA CallbackPreserves == CaptureInv /\ Engine => CaptureInv'
<1> USE DEF CaptureInv, TypeOK, NoSpent, Msgs, Decide, taskVars
<1>1. CaptureInv /\ WakeupStart => CaptureInv'  BY DEF WakeupStart
<1>2. CaptureInv /\ VadStart => CaptureInv'     BY DEF VadStart
<1>3. CaptureInv /\ VadEnd => CaptureInv'       BY DEF VadEnd
<1>4. CaptureInv /\ WakeupEnd => CaptureInv'    BY DEF WakeupEnd
<1>5. QED BY <1>1, <1>2, <1>3, <1>4 DEF Engine

\* Sending keeps the queue within its length.
LEMMA SendPreserves == CaptureInv /\ SendPending => CaptureInv'
<1> SUFFICES ASSUME CaptureInv, SendPending PROVE CaptureInv'
  OBVIOUS
<1>1. rec_q' \in Seq(Msgs) /\ Len(rec_q') <= QueueLen
  <2>1. pending \in Msgs
    BY DEF CaptureInv, TypeOK, SendPending
  <2>2. CASE Len(rec_q) < QueueLen
    BY <2>1, <2>2, QueueLemma, QueueLenAssumption
      DEF CaptureInv, TypeOK, SendPending
  <2>3. CASE ~(Len(rec_q) < QueueLen)
    BY <2>3 DEF CaptureInv, TypeOK, SendPending
  <2>4. QED BY <2>2, <2>3
<1>2. QED
  BY <1>1 DEF CaptureInv, TypeOK, NoSpent, SendPending, taskVars

\* Every step of the task preserves the invariant.
LEMMA TaskPreserves == CaptureInv /\ VoiceTask => CaptureInv'
<1> SUFFICES ASSUME CaptureInv, VoiceTask PROVE CaptureInv'
  OBVIOUS
<1> USE DEF CaptureInv, TypeOK, NoSpent, Spent, Audio, cbVars
<1>1. CASE Receive
  <2>1. /\ Head(rec_q) \in Msgs /\ Tail(rec_q) \in Seq(Msgs)
        /\ Len(Tail(rec_q)) <= QueueLen
    BY <1>1, QueueLemma, QueueLenAssumption DEF Receive, Msgs
  <2>2. QED BY <1>1, <2>1 DEF Receive
<1>2. CASE ReceiveNothing
  BY <1>2 DEF ReceiveNothing
<1>3. CASE RecStart
  BY <1>3 DEF RecStart
<1>4. CASE RecStop
  BY <1>4 DEF RecStop
<1>5. CASE RecCancel
  BY <1>5 DEF RecCancel, StopReading, Retag
<1>6. CASE Posted
  BY <1>6 DEF Posted, StopReading, Retag
<1>7. CASE StartWindow
  BY <1>7, NumChunksAssumption DEF StartWindow, Chunk
<1>8. CASE ClearWindow
  BY <1>8 DEF ClearWindow, Zeroed
<1>9. CASE ReadChunk
  BY <1>9, NumChunksAssumption DEF ReadChunk, Chunk
<1>10. CASE ReadFails
  BY <1>10, NumChunksAssumption DEF ReadFails, Chunk
<1>11. QED
  BY <1>1, <1>2, <1>3, <1>4, <1>5, <1>6, <1>7, <1>8, <1>9, <1>10
    DEF VoiceTask

-----------------------------------------------------------------------------
\* The capture's invariant holds in every reachable state.
THEOREM CaptureInvariant == Spec => []CaptureInv
<1>1. Init => CaptureInv
  <2> SUFFICES ASSUME Init PROVE CaptureInv
    OBVIOUS
  <2>1. rec_q \in Seq(Msgs) /\ Len(rec_q) <= QueueLen
    BY QueueLenAssumption DEF Init
  <2>2. chunk \in Chunk
    BY NumChunksAssumption DEF Init, Chunk
  <2>3. buffer \in [Chunk -> Audio] /\ NoSpent
    BY DEF Init, Zeroed, Audio, Spent, NoSpent
  <2>4. QED
    BY <2>1, <2>2, <2>3 DEF Init, CaptureInv, TypeOK
<1>2. CaptureInv /\ [Next]_vars => CaptureInv'
  <2>1. CaptureInv /\ UNCHANGED vars => CaptureInv'
    BY DEF CaptureInv, TypeOK, NoSpent, vars, cbVars, taskVars
  <2>2. QED
    BY <2>1, CallbackPreserves, SendPreserves, TaskPreserves DEF Next
<1>3. QED BY <1>1, <1>2, PTL DEF Spec

\* Type correctness: the queue never exceeds its length and the index
\* never leaves the window, whatever the sizes.
THEOREM TypeCorrect == Spec => []TypeOK
<1>1. CaptureInv => TypeOK  BY DEF CaptureInv
<1>2. QED BY <1>1, CaptureInvariant, PTL

\* A posted window never holds audio posted or cancelled before.
THEOREM PostsFreshAudio == Spec => []PostsOnlyFreshAudio
<1>1. CaptureInv => PostsOnlyFreshAudio
  BY DEF CaptureInv, NoSpent, PostsOnlyFreshAudio
<1>2. QED BY <1>1, CaptureInvariant, PTL

\* The task waits for ever for a message exactly when it is not recording.
THEOREM DelayCorrect == Spec => []DelayFollowsReading
<1>1. CaptureInv => DelayFollowsReading
  BY DEF CaptureInv, DelayFollowsReading
<1>2. QED BY <1>1, CaptureInvariant, PTL

-----------------------------------------------------------------------------
\* The safety half of RecordingEnds: whenever the task has dealt with a message,
\* it records only if that was a REC_START.  A stop or a cancellation that it
\* took is not undone by what crossed it, was lost, or failed (c_vad.c 66-103).
ObeysLastMessage ==
  voice_reading /\ pc \notin {"dispatch", "posting"} => msg = "REC_START"

\* The flag follows the last message that was received, for any queue.
THEOREM LastMessageObeyed == Spec => []ObeysLastMessage
<1>1. Init => ObeysLastMessage
  BY DEF Init, ObeysLastMessage
<1>2. ObeysLastMessage /\ [Next]_vars => ObeysLastMessage'
  <2>1. SUFFICES ASSUME ObeysLastMessage, [Next]_vars PROVE ObeysLastMessage'
    OBVIOUS
  <2>2. CASE Engine \/ SendPending \/ UNCHANGED vars
    <3>1. UNCHANGED taskVars
      BY <2>2 DEF Engine, WakeupStart, VadStart, VadEnd, WakeupEnd, SendPending, vars, taskVars
    <3>2. QED BY <2>1, <3>1 DEF ObeysLastMessage, taskVars
  <2>3. CASE Receive \/ RecStop
    BY <2>3 DEF Receive, RecStop, ObeysLastMessage
  <2>4. CASE RecStart
    BY <2>4 DEF RecStart, ObeysLastMessage
  <2>5. CASE RecCancel \/ Posted \/ ReadFails
    BY <2>5 DEF RecCancel, Posted, ReadFails, StopReading, ObeysLastMessage
  <2>6. CASE ReceiveNothing \/ StartWindow \/ ClearWindow \/ ReadChunk
    BY <2>1, <2>6 DEF ReceiveNothing, StartWindow, ClearWindow, ReadChunk, ObeysLastMessage
  <2>7. QED BY <2>1, <2>2, <2>3, <2>4, <2>5, <2>6 DEF Next, VoiceTask
<1>3. QED BY <1>1, <1>2, PTL DEF Spec
=============================================================================
