------------------------------ MODULE Playback ------------------------------
(***************************************************************************)
(* Speaking and playing in the online mode.                                *)
(*                                                                         *)
(* process_task (main/c_http.c) and the online branch of notice            *)
(* (main/c_clock_http.c) share the event bit TASK_RUN_BIT and the task     *)
(* handles of the players, and create players: http_mp3_play plays a       *)
(* story or music, baidu_tts speaks a text (main/c_audio.c).  Nobody waits *)
(* for a player to end: whoever wants silence clears the bit and waits     *)
(* Grace, and each player reads the bit every now and then.                *)
(*                                                                         *)
(* Time is a number of ticks.  One tick is as long as makes the longest    *)
(* time between two reads of the bit ReadGap ticks; the code's delay of    *)
(* five seconds is Grace of them.                                          *)
(***************************************************************************)
EXTENDS Naturals, Sequences

CONSTANTS
  Slots,      \* player tasks the heap has room for at once
  QueueLen,   \* length of process_rec_q (2 in process_task_start)
  ReadGap,    \* a player reads the bit at least this often
  StopTime,   \* longest tear down of a player
  Grace,      \* wait between clearing the bit and the next player
  Patient     \* TRUE: nobody speaks, nothing is due, before the last is done

ASSUME QueueLenAssumption == QueueLen \in Nat \ {0}
ASSUME TimingAssumption ==
  /\ ReadGap \in Nat \ {0} /\ StopTime \in Nat \ {0} /\ Grace \in Nat
  /\ ReadGap + StopTime < Grace
ASSUME PatientAssumption == Patient \in BOOLEAN

VARIABLES
  run,           \* TASK_RUN_BIT of task_event_group
  silence,       \* ghost: ticks since the bit was last cleared, at most Grace
  handle,        \* which of the two task handles are not NULL
  process_rec_q, \* messages to process_task
  process,       \* [at, left]: where process_task is, ticks left of its wait
  notice,        \* [at, left]: the same of notice
  player         \* slot -> [at, kind, left]: the player tasks

vars == <<run, silence, handle, process_rec_q, process, notice, player>>

Kinds == {"http_mp3", "baidu_tts"}

Live(s) == player[s].at # "gone"
Silent  == \A s \in Slots : ~Live(s)

At(pc)         == [at |-> pc, left |-> 0]
Waiting(pc)    == [at |-> pc, left |-> Grace]
Gone           == [at |-> "gone", kind |-> "baidu_tts", left |-> 0]
New(kind)      == [at |-> "setup", kind |-> kind, left |-> ReadGap]

Init ==
  /\ run = FALSE
  /\ silence = 0
  /\ handle = [k \in Kinds |-> FALSE]
  /\ process_rec_q = <<>>
  /\ process = At("receive")
  /\ notice = At("poll")
  /\ player = [s \in Slots |-> Gone]

-----------------------------------------------------------------------------
(* The calls the two tasks share                                           *)

ClearBit ==
  /\ run' = FALSE
  /\ silence' = IF run THEN 0 ELSE silence

SetBit == run' = TRUE /\ UNCHANGED silence

\* xTaskCreate: the handle is written only if there is memory for the task,
\* and nobody looks at the result.
CreatePlayer(kind) ==
  \/ \E s \in Slots :
       /\ ~Live(s)
       /\ player' = [player EXCEPT ![s] = New(kind)]
       /\ handle' = [handle EXCEPT ![kind] = TRUE]
  \/ /\ \A s \in Slots : Live(s)
     /\ UNCHANGED <<player, handle>>

\* Mutant of Send: the queue takes any number of messages.
SendUnbounded(m) == process_rec_q' = Append(process_rec_q, m)

\* xQueueSend without waiting: a message that finds no room is lost.
Send(m) ==
  process_rec_q' = IF Len(process_rec_q) < QueueLen
                     THEN Append(process_rec_q, m) ELSE process_rec_q

-----------------------------------------------------------------------------
(* voice_read_task, as far as it goes here: it puts the text the speech    *)
(* service understood where process_task finds it and sends SPEECH_GET.    *)

Speech ==
  /\ Patient => /\ process.at = "receive" /\ process_rec_q = <<>>
                /\ notice.at = "poll"
  /\ Send("SPEECH_GET")
  /\ UNCHANGED <<run, silence, handle, process, notice, player>>

-----------------------------------------------------------------------------
(* process_task                                                            *)

Take(m) ==
  /\ process.at = "receive"
  /\ process_rec_q # <<>>
  /\ Head(process_rec_q) = m
  /\ process_rec_q' = Tail(process_rec_q)

\* SPEECH_GET with an empty text.
SpeechEmpty ==
  /\ Take("SPEECH_GET")
  /\ UNCHANGED <<run, silence, handle, process, notice, player>>

\* The text asks for music: the list and then a url are fetched.
SpeechMusic ==
  /\ Take("SPEECH_GET")
  /\ process' = At("fetch")
  /\ UNCHANGED <<run, silence, handle, notice, player>>

\* Mutant of MusicFetched: the handle of the wrong player is tested.
MusicFetchedWrongHandle ==
  /\ process.at = "fetch"
  /\ IF handle["http_mp3"] THEN ClearBit ELSE UNCHANGED <<run, silence>>
  /\ process' = Waiting("graceMusic")
  /\ UNCHANGED <<handle, process_rec_q, notice, player>>

\* Only a text spoken before is a reason to clear the bit.
MusicFetched ==
  /\ process.at = "fetch"
  /\ IF handle["baidu_tts"] THEN ClearBit ELSE UNCHANGED <<run, silence>>
  /\ process' = Waiting("graceMusic")
  /\ UNCHANGED <<handle, process_rec_q, notice, player>>

MusicSetBit ==
  /\ process.at = "graceMusic"
  /\ process.left = 0
  /\ SetBit
  /\ process' = At("createMusic")
  /\ UNCHANGED <<handle, process_rec_q, notice, player>>

MusicCreate ==
  /\ process.at = "createMusic"
  /\ CreatePlayer("http_mp3")
  /\ process' = At("receive")
  /\ UNCHANGED <<run, silence, process_rec_q, notice>>

\* Any other text is a question.  Only music played before is a reason to
\* clear the bit.
SpeechChat ==
  /\ Take("SPEECH_GET")
  /\ IF handle["http_mp3"] THEN ClearBit ELSE UNCHANGED <<run, silence>>
  /\ process' = Waiting("graceChat")
  /\ UNCHANGED <<handle, notice, player>>

\* Mutant of ChatAnswer: the send waits for room in the task's own queue.
ChatAnswerBlocks ==
  /\ process.at = "graceChat"
  /\ process.left = 0
  /\ Len(process_rec_q) < QueueLen
  /\ Send("QIANFAN_GET")
  /\ process' = At("receive")
  /\ UNCHANGED <<run, silence, handle, notice, player>>

\* create_wenxin_request: the answer, if one comes, is sent to the task's
\* own queue.
ChatAnswer ==
  /\ process.at = "graceChat"
  /\ process.left = 0
  /\ Send("QIANFAN_GET") \/ UNCHANGED process_rec_q
  /\ process' = At("receive")
  /\ UNCHANGED <<run, silence, handle, notice, player>>

AnswerSetBit ==
  /\ Take("QIANFAN_GET")
  /\ SetBit
  /\ process' = At("createAnswer")
  /\ UNCHANGED <<handle, notice, player>>

AnswerCreate ==
  /\ process.at = "createAnswer"
  /\ CreatePlayer("baidu_tts")
  /\ process' = At("receive")
  /\ UNCHANGED <<run, silence, process_rec_q, notice>>

ProcessTask ==
  \/ SpeechEmpty
  \/ SpeechMusic \/ MusicFetched \/ MusicSetBit \/ MusicCreate
  \/ SpeechChat \/ ChatAnswer
  \/ AnswerSetBit \/ AnswerCreate

-----------------------------------------------------------------------------
(* notice, online: the alarm or the bed time is due                        *)

NoticeDue ==
  /\ notice.at = "poll"
  /\ Patient => process.at = "receive" /\ process_rec_q = <<>>
  /\ ClearBit
  /\ notice' = Waiting("grace")
  /\ UNCHANGED <<handle, process_rec_q, process, player>>

NoticeSetBit ==
  /\ notice.at = "grace"
  /\ notice.left = 0
  /\ SetBit
  /\ notice' = At("create")
  /\ UNCHANGED <<handle, process_rec_q, process, player>>

NoticeCreate ==
  /\ notice.at = "create"
  /\ CreatePlayer("baidu_tts")
  /\ notice' = At("poll")
  /\ UNCHANGED <<run, silence, process_rec_q, process>>

NoticeTask == NoticeSetBit \/ NoticeCreate

-----------------------------------------------------------------------------
(* The players http_mp3_play and baidu_tts                                 *)

\* Mutant of Playing: the loop listens longer for one event.
PlayingDeaf(s) == [player[s] EXCEPT !.at = "playing", !.left = ReadGap + 1]

Playing(s)  == [player[s] EXCEPT !.at = "playing",  !.left = ReadGap]
Stopping(s) == [player[s] EXCEPT !.at = "stopping", !.left = StopTime]

\* Mutant of ReadBit: a loop that tests the bit at its end only.
ReadBitLate(s) ==
  /\ player[s].at \in {"setup", "playing"}
  /\ player' = [player EXCEPT ![s] =
                  IF run \/ player[s].at = "setup" THEN Playing(s)
                                                    ELSE Stopping(s)]
  /\ UNCHANGED <<run, silence, handle, process_rec_q, process, notice>>

\* Mutant of ReadBit: the bit is read before the loop and not in it.
ReadBitOnce(s) ==
  /\ player[s].at \in {"setup", "playing"}
  /\ player' = [player EXCEPT ![s] =
                  IF run \/ player[s].at = "playing" THEN Playing(s)
                                                      ELSE Stopping(s)]
  /\ UNCHANGED <<run, silence, handle, process_rec_q, process, notice>>

\* The player reads the bit, the first time after its set up.
ReadBit(s) ==
  /\ player[s].at \in {"setup", "playing"}
  /\ player' = [player EXCEPT ![s] = IF run THEN Playing(s) ELSE Stopping(s)]
  /\ UNCHANGED <<run, silence, handle, process_rec_q, process, notice>>

\* The last element of the pipeline reports that the sound is over.
Finish(s) ==
  /\ player[s].at = "playing"
  /\ player' = [player EXCEPT ![s] = Stopping(s)]
  /\ UNCHANGED <<run, silence, handle, process_rec_q, process, notice>>

\* The pipeline is torn down and the task deletes itself.
Stopped(s) ==
  /\ player[s].at = "stopping"
  /\ player' = [player EXCEPT ![s] = Gone]
  /\ UNCHANGED <<run, silence, handle, process_rec_q, process, notice>>

PlayerTask(s) == ReadBit(s) \/ Finish(s) \/ Stopped(s)

-----------------------------------------------------------------------------
(***************************************************************************)
(* A tick passes unless a player is late, or a task is between its set of  *)
(* the bit and the xTaskCreate on the next line.  A wait may well last     *)
(* longer than it has to.                                                  *)
(***************************************************************************)
Less(n) == IF n > 0 THEN n - 1 ELSE 0

Creating ==
  \/ process.at \in {"createMusic", "createAnswer"}
  \/ notice.at = "create"

Tick ==
  /\ ~Creating
  /\ \A s \in Slots : Live(s) => player[s].left > 0
  /\ silence' = IF ~run /\ silence < Grace THEN silence + 1 ELSE silence
  /\ process' = [process EXCEPT !.left = Less(process.left)]
  /\ notice' = [notice EXCEPT !.left = Less(notice.left)]
  /\ player' = [s \in Slots |->
                  [player[s] EXCEPT !.left = Less(player[s].left)]]
  /\ UNCHANGED <<run, handle, process_rec_q>>

Next ==
  \/ Speech \/ ProcessTask
  \/ NoticeDue \/ NoticeTask
  \/ \E s \in Slots : PlayerTask(s)
  \/ Tick

(***************************************************************************)
(* The scheduler gives a ready task the processor, a request to a service  *)
(* returns and time passes.  Nobody has to speak and nothing has to be due.*)
(***************************************************************************)
Fairness ==
  /\ WF_vars(ProcessTask) /\ WF_vars(NoticeTask) /\ WF_vars(Tick)
  /\ \A s \in Slots : WF_vars(ReadBit(s) \/ Stopped(s))

Spec == Init /\ [][Next]_vars /\ Fairness

-----------------------------------------------------------------------------
Players ==
  [at : {"gone", "setup", "playing", "stopping"}, kind : Kinds, left : Nat]

\* Every variable holds a value of its kind.
TypeOK ==
  /\ run \in BOOLEAN
  /\ silence \in 0 .. Grace
  /\ handle \in [Kinds -> BOOLEAN]
  /\ process_rec_q \in Seq({"SPEECH_GET", "QIANFAN_GET"})
  /\ Len(process_rec_q) <= QueueLen
  /\ process \in [at : {"receive", "fetch", "graceMusic", "createMusic",
                        "graceChat", "createAnswer"}, left : 0 .. Grace]
  /\ notice \in [at : {"poll", "grace", "create"}, left : 0 .. Grace]
  /\ player \in [Slots -> Players]

(***************************************************************************)
(* Clearing the bit and waiting Grace is enough: if nobody set the bit in  *)
(* between, no player is left, however many there were and whatever they   *)
(* were doing, one created in the moment of the clearing included.         *)
(***************************************************************************)
GraceMeansSilence == ~run /\ silence = Grace => Silent

(***************************************************************************)
(* A player that is starting, or whose sound may still be heard, is one    *)
(* that saw the bit set or was created after it was set: once the bit is   *)
(* clear for ReadGap no pipeline runs any more.                            *)
(***************************************************************************)
ClearBitStopsSound ==
  ~run /\ silence > ReadGap => \A s \in Slots : player[s].at \in {"gone", "stopping"}

(***************************************************************************)
(* If nobody speaks over the machine, then from the time both kinds of     *)
(* player were started once, two players never run at the same time.       *)
(* (Before that the tests of the handles let two of a kind overlap.)       *)
(***************************************************************************)
OneVoiceOnceBothPlayed ==
  Patient /\ (\A k \in Kinds : handle[k]) =>
    \A s, t \in Slots : Live(s) /\ Live(t) => s = t

\* The kinds of player that are alive.
KindsLive == {player[s].kind : s \in {t \in Slots : Live(t)}}

Voice ==
  IF KindsLive = {} THEN "none"
  ELSE IF KindsLive = Kinds THEN "both" ELSE CHOOSE k \in Kinds : k \in KindsLive

(***************************************************************************)
(* If nobody speaks over the machine, music and speech take turns from the *)
(* beginning: each test of a handle in process_task is of the other kind,  *)
(* and that is enough for one kind to start only when the other has given  *)
(* the codec back (Codec).                                                 *)
(***************************************************************************)
Sound == INSTANCE Codec WITH Owners <- Kinds, owner <- Voice
KindsTakeTurns == Sound!Spec

\* process_task comes back to its queue, whatever it was told to do.
ProcessReturns == process.at # "receive" ~> process.at = "receive"

\* Once the bit is clear there will be silence, unless somebody sets it.
ClearLeadsToSilence == ~run ~> (run \/ Silent)
=============================================================================
