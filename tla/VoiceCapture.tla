---------------------------- MODULE VoiceCapture ----------------------------
(***************************************************************************)
(* Voice capture of the online mode (main/c_vad.c).                        *)
(*                                                                         *)
(* Two tasks share the flag voice_reading and the queue rec_q without a    *)
(* lock: the recorder engine calls rec_engine_cb, which tests the flag and *)
(* then sends a message; voice_read_task receives the messages, sets the   *)
(* flag, fills a window of NumChunks chunks with audio and posts it to the *)
(* speech service.                                                         *)
(***************************************************************************)
EXTENDS Naturals, Sequences

CONSTANTS
  QueueLen,   \* length of rec_q (3 in vad_start)
  NumChunks   \* 8 kB chunks of one window (12 in voice_read_task)

ASSUME QueueLenAssumption  == QueueLen \in Nat \ {0}
ASSUME NumChunksAssumption == NumChunks \in Nat \ {0}

VARIABLES
  engine,         \* what the recorder engine last reported
  led,            \* level of GPIO_OUTPUT_IO_1
  pending,        \* message rec_engine_cb decided to send, or "none"
  rec_q,          \* queue from the callback to the task
  voice_reading,  \* the shared flag
  delay,          \* receive timeout of the task: "zero" or "forever"
  pc,             \* where voice_read_task is
  msg,            \* the message it received last
  chunk,          \* index of the chunk it reads next
  buffer          \* what each chunk of the window holds

cbVars   == <<engine, led, pending>>
taskVars == <<voice_reading, delay, pc, msg, chunk, buffer>>
vars     == <<cbVars, rec_q, taskVars>>

Msgs  == {"REC_START", "REC_STOP", "REC_CANCEL"}
Chunk == 0 .. NumChunks - 1

(***************************************************************************)
(* Audio is told apart by its fate only: "live" audio was read and has     *)
(* neither been posted nor cancelled.  memset makes a chunk "zero".        *)
(***************************************************************************)
Audio == {"zero", "live", "posted", "cancelled"}
Spent == {"posted", "cancelled"}

Zeroed == [c \in Chunk |-> "zero"]

\* The live audio of the window becomes posted, or cancelled.
Retag(fate) ==
  [c \in Chunk |-> IF buffer[c] = "live" THEN fate ELSE buffer[c]]

Init ==
  /\ engine = "asleep"
  /\ led = 0
  /\ pending = "none"
  /\ rec_q = <<>>
  /\ voice_reading = FALSE
  /\ delay = "forever"
  /\ pc = "receive"
  /\ msg = "none"
  /\ chunk = 0
  /\ buffer = Zeroed

-----------------------------------------------------------------------------
(* The callback rec_engine_cb, called by the recorder engine's task.       *)

\* The callback's test of the flag: m is to be sent if wanted.
Decide(wanted, m) == pending' = IF wanted THEN m ELSE "none"

\* The wake word: it may also be heard while somebody is speaking.
WakeupStart ==
  /\ pending = "none"
  /\ engine' = "awake"
  /\ led' = 1
  /\ Decide(voice_reading, "REC_CANCEL")
  /\ UNCHANGED <<rec_q, taskVars>>

VadStart ==
  /\ pending = "none"
  /\ engine = "awake"
  /\ engine' = "speaking"
  /\ Decide(~voice_reading, "REC_START")
  /\ UNCHANGED <<led, rec_q, taskVars>>

VadEnd ==
  /\ pending = "none"
  /\ engine = "speaking"
  /\ engine' = "awake"
  /\ Decide(voice_reading, "REC_STOP")
  /\ UNCHANGED <<led, rec_q, taskVars>>

WakeupEnd ==
  /\ pending = "none"
  /\ engine = "awake"
  /\ engine' = "asleep"
  /\ led' = 0
  /\ UNCHANGED <<pending, rec_q, taskVars>>

\* Mutant of SendPending: the queue takes any number of messages.
SendPendingUnbounded ==
  /\ pending # "none"
  /\ rec_q' = Append(rec_q, pending)
  /\ pending' = "none"
  /\ UNCHANGED <<engine, led, taskVars>>

\* xQueueSend with no wait: on a full queue the message is lost.
SendPending ==
  /\ pending # "none"
  /\ rec_q' = IF Len(rec_q) < QueueLen THEN Append(rec_q, pending) ELSE rec_q
  /\ pending' = "none"
  /\ UNCHANGED <<engine, led, taskVars>>

Engine == WakeupStart \/ VadStart \/ VadEnd \/ WakeupEnd

-----------------------------------------------------------------------------
(* voice_read_task                                                         *)

\* xQueueReceive returned a message ...
Receive ==
  /\ pc = "receive"
  /\ rec_q # <<>>
  /\ msg' = Head(rec_q)
  /\ rec_q' = Tail(rec_q)
  /\ pc' = "dispatch"
  /\ UNCHANGED <<cbVars, voice_reading, delay, chunk, buffer>>

\* ... or, when it does not wait, nothing.
ReceiveNothing ==
  /\ pc = "receive"
  /\ rec_q = <<>>
  /\ delay = "zero"
  /\ pc' = "fill"
  /\ UNCHANGED <<cbVars, rec_q, voice_reading, delay, msg, chunk, buffer>>

RecStart ==
  /\ pc = "dispatch"
  /\ msg = "REC_START"
  /\ delay' = "zero"
  /\ voice_reading' = TRUE
  /\ pc' = "fill"
  /\ UNCHANGED <<cbVars, rec_q, msg, chunk, buffer>>

\* create_speech_request blocks until the service answers or times out;
\* voice_reading stays set in the meantime.
RecStop ==
  /\ pc = "dispatch"
  /\ msg = "REC_STOP"
  /\ pc' = "posting"
  /\ UNCHANGED <<cbVars, rec_q, voice_reading, delay, msg, chunk, buffer>>

\* Mutant of StopReading: the shared flag is not reset.
StopReadingKeepsFlag(fate) ==
  /\ delay' = "forever"
  /\ buffer' = Retag(fate)
  /\ UNCHANGED voice_reading

\* Both ends of a recording: wait for the next message, stop reading.
StopReading(fate) ==
  /\ delay' = "forever"
  /\ voice_reading' = FALSE
  /\ buffer' = Retag(fate)

Posted ==
  /\ pc = "posting"
  /\ StopReading("posted")
  /\ pc' = "fill"
  /\ UNCHANGED <<cbVars, rec_q, msg, chunk>>

RecCancel ==
  /\ pc = "dispatch"
  /\ msg = "REC_CANCEL"
  /\ StopReading("cancelled")
  /\ pc' = "fill"
  /\ UNCHANGED <<cbVars, rec_q, msg, chunk>>

\* The test after the switch: fill the window, or ...
StartWindow ==
  /\ pc = "fill"
  /\ voice_reading
  /\ chunk' = 0
  /\ pc' = "read"
  /\ UNCHANGED <<cbVars, rec_q, voice_reading, delay, msg, buffer>>

\* Mutant of ClearWindow: no memset.
ClearWindowKeepsAudio ==
  /\ pc = "fill"
  /\ ~voice_reading
  /\ pc' = "receive"
  /\ UNCHANGED <<cbVars, rec_q, voice_reading, delay, msg, chunk, buffer>>

\* ... memset it.
ClearWindow ==
  /\ pc = "fill"
  /\ ~voice_reading
  /\ buffer' = Zeroed
  /\ pc' = "receive"
  /\ UNCHANGED <<cbVars, rec_q, voice_reading, delay, msg, chunk>>

\* Mutant of ReadChunk: reading starts over instead of going to the queue.
ReadChunkForEver ==
  /\ pc = "read"
  /\ buffer' = [buffer EXCEPT ![chunk] = "live"]
  /\ chunk' = (chunk + 1) % NumChunks
  /\ UNCHANGED <<cbVars, rec_q, voice_reading, delay, pc, msg>>

\* audio_recorder_data_read returned a chunk.
ReadChunk ==
  /\ pc = "read"
  /\ buffer' = [buffer EXCEPT ![chunk] = "live"]
  /\ IF chunk + 1 < NumChunks
       THEN chunk' = chunk + 1 /\ pc' = "read"
       ELSE chunk' = 0 /\ pc' = "receive"
  /\ UNCHANGED <<cbVars, rec_q, voice_reading, delay, msg>>

\* Mutant of ReadFails: the receive timeout stays zero.
ReadFailsKeepsDelay ==
  /\ pc = "read"
  /\ voice_reading' = FALSE
  /\ chunk' = 0
  /\ pc' = "receive"
  /\ UNCHANGED <<cbVars, rec_q, delay, msg, buffer>>

\* It returned no data: reading ends, the window is left as it is.
ReadFails ==
  /\ pc = "read"
  /\ delay' = "forever"
  /\ voice_reading' = FALSE
  /\ chunk' = 0
  /\ pc' = "receive"
  /\ UNCHANGED <<cbVars, rec_q, msg, buffer>>

VoiceTask ==
  \/ Receive \/ ReceiveNothing
  \/ RecStart \/ RecStop \/ RecCancel \/ Posted
  \/ StartWindow \/ ClearWindow
  \/ ReadChunk \/ ReadFails

-----------------------------------------------------------------------------
Next == Engine \/ SendPending \/ VoiceTask

(***************************************************************************)
(* The scheduler runs a ready task sooner or later; a blocking read of the *)
(* recorder and a speech request return.  Nobody has to speak.             *)
(***************************************************************************)
Fairness == WF_vars(SendPending) /\ WF_vars(VoiceTask)

Spec == Init /\ [][Next]_vars /\ Fairness

-----------------------------------------------------------------------------
\* Every variable of the capture holds a value of its kind.
TypeOK ==
  /\ engine \in {"asleep", "awake", "speaking"}
  /\ led \in {0, 1}
  /\ pending \in Msgs \cup {"none"}
  /\ rec_q \in Seq(Msgs)
  /\ Len(rec_q) <= QueueLen
  /\ voice_reading \in BOOLEAN
  /\ delay \in {"zero", "forever"}
  /\ pc \in {"receive", "dispatch", "posting", "fill", "read"}
  /\ msg \in Msgs \cup {"none"}
  /\ pc \in {"dispatch", "posting"} => msg \in Msgs
  /\ chunk \in Chunk
  /\ buffer \in [Chunk -> Audio]

(***************************************************************************)
(* No speech request carries audio that was posted before or that a wake   *)
(* word cancelled, whatever messages crossed in the queue: the window is   *)
(* zeroed after each end of a recording and before the next one is read.   *)
(***************************************************************************)
PostsOnlyFreshAudio ==
  pc = "posting" => \A c \in Chunk : buffer[c] \notin Spent

(***************************************************************************)
(* When the task goes to the queue it waits for ever exactly if it is not  *)
(* recording.  A recording that waited for ever would stall the recorder;  *)
(* an idle task that did not wait would spin.                              *)
(***************************************************************************)
DelayFollowsReading ==
  pc = "receive" => (delay = "zero" <=> voice_reading)

(***************************************************************************)
(* A REC_STOP or REC_CANCEL that found room in the queue ends the          *)
(* recording, in the end, although new messages keep coming.               *)
(***************************************************************************)
RecordingEnds ==
  (\E n \in 1 .. QueueLen : n <= Len(rec_q) /\ rec_q[n] # "REC_START")
    ~> ~voice_reading

\* A full queue, which loses what is sent to it, does not stay full.
QueueDrains == Len(rec_q) = QueueLen ~> Len(rec_q) < QueueLen
=============================================================================
