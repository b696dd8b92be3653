--------------------------- MODULE PlaybackProofs ---------------------------
(***************************************************************************)
(* The timing argument behind TASK_RUN_BIT, for any number of players and  *)
(* any times with ReadGap + StopTime < Grace.                              *)
(***************************************************************************)
EXTENDS Playback, TLAPS

Sounding(s) == player[s].at \in {"setup", "playing"}

\* Each player is at most its own deadline away from its next step.
Deadlines ==
  \A s \in Slots :
    /\ Sounding(s) => player[s].left <= ReadGap
    /\ player[s].at = "stopping" => player[s].left <= StopTime

(***************************************************************************)
(* While the bit is clear, what a player has left and what has passed make *)
(* together no more than the time it has: a player that has not yet seen   *)
(* the bit sees it within ReadGap of the clearing, and is gone StopTime    *)
(* after.                                                                  *)
(***************************************************************************)
Countdown ==
  ~run => \A s \in Slots :
    /\ Sounding(s) => player[s].left + silence <= ReadGap
    /\ player[s].at = "stopping" => player[s].left + silence <= ReadGap + StopTime

\* A bit cleared under a task's hands, between its set and its create, was
\* cleared in this very tick.
JustCleared == ~run /\ Creating => silence = 0

PlaybackInv == TypeOK /\ Deadlines /\ Countdown /\ JustCleared

-----------------------------------------------------------------------------
\* Queue operations keep the queue typed and within its length.
LEMMA SendType ==
  ASSUME TypeOK, NEW m \in {"SPEECH_GET", "QIANFAN_GET"}, Send(m)
  PROVE  /\ process_rec_q' \in Seq({"SPEECH_GET", "QIANFAN_GET"})
         /\ Len(process_rec_q') <= QueueLen
<1>1. CASE Len(process_rec_q) < QueueLen
  BY <1>1, QueueLenAssumption DEF Send, TypeOK
<1>2. CASE ~(Len(process_rec_q) < QueueLen)
  BY <1>2 DEF Send, TypeOK
<1>3. QED BY <1>1, <1>2

\* Taking a message does too.
LEMMA TakeType ==
  ASSUME TypeOK, NEW m, Take(m)
  PROVE  /\ process_rec_q' \in Seq({"SPEECH_GET", "QIANFAN_GET"})
         /\ Len(process_rec_q') <= QueueLen
<1>1. Len(Tail(process_rec_q)) = Len(process_rec_q) - 1
  BY DEF Take, TypeOK
<1>2. Tail(process_rec_q) \in Seq({"SPEECH_GET", "QIANFAN_GET"})
  BY DEF Take, TypeOK
<1>3. QED BY <1>1, <1>2, QueueLenAssumption DEF Take, TypeOK

\* The fields of a player's record.
LEMMA PlayerFields ==
  ASSUME NEW r \in Players
  PROVE  /\ r.left \in Nat /\ r.kind \in Kinds
         /\ r.at \in {"gone", "setup", "playing", "stopping"}
BY DEF Players

\* Where a player goes on reading the bit, or stops.
LEMMA NextPhase ==
  ASSUME NEW s \in Slots, player[s] \in Players
  PROVE  /\ Playing(s) \in Players /\ Playing(s).at = "playing"
         /\ Playing(s).left = ReadGap
         /\ Stopping(s) \in Players /\ Stopping(s).at = "stopping"
         /\ Stopping(s).left = StopTime
<1>1. ReadGap \in Nat /\ StopTime \in Nat
  BY TimingAssumption
<1> DEFINE r == player[s]
<1>3. r \in Players
  OBVIOUS
<1>4. /\ Playing(s) = [r EXCEPT !.at = "playing", !.left = ReadGap]
      /\ Stopping(s) = [r EXCEPT !.at = "stopping", !.left = StopTime]
  BY DEF Playing, Stopping
<1> HIDE DEF r
<1>5. QED BY <1>1, <1>3, <1>4 DEF Players

\* A record whose time changes stays a record of its kind.
LEMMA PlayerAges ==
  ASSUME NEW r \in Players, NEW n \in Nat
  PROVE  /\ [r EXCEPT !.left = n] \in Players
         /\ [r EXCEPT !.left = n].at = r.at
         /\ [r EXCEPT !.left = n].left = n
BY DEF Players

LEMMA TaskAges ==
  ASSUME NEW S, NEW r \in [at : S, left : 0 .. Grace]
  PROVE  /\ [r EXCEPT !.left = Less(r.left)] \in [at : S, left : 0 .. Grace]
         /\ [r EXCEPT !.left = Less(r.left)].at = r.at
<1>1. r.left \in 0 .. Grace /\ Less(r.left) \in 0 .. Grace
  BY TimingAssumption DEF Less
<1>2. \A n \in 0 .. Grace : /\ [r EXCEPT !.left = n] \in [at : S, left : 0 .. Grace]
                            /\ [r EXCEPT !.left = n].at = r.at
  OBVIOUS
<1>3. QED BY <1>1, <1>2

\* The record of a player that is created.
LEMMA NewType ==
  ASSUME NEW kind \in Kinds
  PROVE  /\ New(kind) \in Players
         /\ New(kind).at = "setup" /\ New(kind).left = ReadGap
BY TimingAssumption DEF New, Players

\* A player starts with a full deadline, so it disturbs nothing when the bit
\* is set or was cleared in this tick.
LEMMA CreatePreserves ==
  ASSUME PlaybackInv, NEW kind \in Kinds, CreatePlayer(kind),
         run \/ silence = 0, UNCHANGED <<run, silence>>
  PROVE  /\ handle' \in [Kinds -> BOOLEAN]
         /\ player' \in [Slots -> Players]
         /\ Deadlines' /\ Countdown'
<1>1. CASE \A s \in Slots : Live(s)
  BY <1>1 DEF CreatePlayer, PlaybackInv, TypeOK, Deadlines, Countdown, Sounding
<1>2. CASE \E s \in Slots : ~Live(s)
  <2>1. PICK s \in Slots : /\ player' = [player EXCEPT ![s] = New(kind)]
                           /\ handle' = [handle EXCEPT ![kind] = TRUE]
    BY <1>2 DEF CreatePlayer
  <2>2. handle' \in [Kinds -> BOOLEAN]
    BY <2>1 DEF PlaybackInv, TypeOK
  <2>3. player' \in [Slots -> Players]
    BY <2>1, NewType DEF PlaybackInv, TypeOK
  <2>4. player'[s] = New(kind) /\ \A t \in Slots \ {s} : player'[t] = player[t]
    BY <2>1 DEF PlaybackInv, TypeOK
  <2>5. Deadlines'
    BY <2>4, NewType, TimingAssumption DEF PlaybackInv, Deadlines, Sounding
  <2>6. Countdown'
    BY <2>4, NewType, TimingAssumption DEF PlaybackInv, TypeOK, Countdown, Sounding
  <2>7. QED BY <2>2, <2>3, <2>5, <2>6
<1>3. QED BY <1>1, <1>2

\* Clearing the bit starts the countdown from deadlines that hold anyway.
LEMMA ClearStartsCountdown ==
  ASSUME PlaybackInv, ClearBit, UNCHANGED player
  PROVE  /\ run' \in BOOLEAN /\ silence' \in 0 .. Grace
         /\ Deadlines' /\ Countdown'
<1>1. run' \in BOOLEAN /\ silence' \in 0 .. Grace
  <2>1. run' = FALSE /\ (silence' = 0 \/ silence' = silence)
    BY DEF ClearBit
  <2>2. silence \in 0 .. Grace /\ 0 \in 0 .. Grace
    BY TimingAssumption DEF PlaybackInv, TypeOK
  <2>3. QED BY <2>1, <2>2
<1>2. Deadlines'
  BY DEF PlaybackInv, Deadlines, Sounding
<1>3. Countdown'
  <2> SUFFICES ASSUME NEW s \in Slots
               PROVE  /\ Sounding(s) => player[s].left + silence' <= ReadGap
                      /\ player[s].at = "stopping"
                           => player[s].left + silence' <= ReadGap + StopTime
    BY DEF Countdown, Sounding
  <2>1. player[s].left \in Nat
    BY PlayerFields DEF PlaybackInv, TypeOK
  <2>2. CASE run
    BY <2>1, <2>2, TimingAssumption DEF ClearBit, PlaybackInv, Deadlines
  <2>3. CASE ~run
    BY <2>3 DEF ClearBit, PlaybackInv, Countdown
  <2>4. QED BY <2>2, <2>3
<1>4. QED BY <1>1, <1>2, <1>3

-----------------------------------------------------------------------------
\* Every step of the two tasks and of the speech service preserves the
\* invariant; the players and the time follow below.
LEMMA SpeechPreserves == PlaybackInv /\ Speech => PlaybackInv'
<1> SUFFICES ASSUME PlaybackInv, Speech PROVE PlaybackInv'
  OBVIOUS
<1>1. TypeOK'
  BY SendType DEF PlaybackInv, TypeOK, Speech
<1>2. (Deadlines /\ Countdown /\ JustCleared)'
  BY DEF PlaybackInv, Deadlines, Countdown, JustCleared, Creating, Sounding, Speech
<1>3. QED BY <1>1, <1>2 DEF PlaybackInv

LEMMA ProcessPreserves == PlaybackInv /\ ProcessTask => PlaybackInv'
<1> SUFFICES ASSUME PlaybackInv, ProcessTask PROVE PlaybackInv'
  OBVIOUS
<1> USE TimingAssumption DEF PlaybackInv, Creating, At, Waiting
<1>1. CASE SpeechEmpty
  BY <1>1, TakeType
    DEF SpeechEmpty, TypeOK, Deadlines, Countdown, JustCleared, Sounding
<1>2. CASE SpeechMusic
  BY <1>2, TakeType
    DEF SpeechMusic, TypeOK, Deadlines, Countdown, JustCleared, Sounding
<1>3. CASE MusicFetched
  <2>1. CASE handle["baidu_tts"]
    <3>1. ClearBit /\ UNCHANGED player
      BY <1>3, <2>1 DEF MusicFetched
    <3>2. Deadlines' /\ Countdown' /\ run' \in BOOLEAN /\ silence' \in 0 .. Grace
      BY <3>1, ClearStartsCountdown
    <3>3. JustCleared'
      BY <1>3, <3>1 DEF MusicFetched, ClearBit, JustCleared, TypeOK
    <3>4. QED BY <1>3, <3>2, <3>3 DEF MusicFetched, TypeOK
  <2>2. CASE ~handle["baidu_tts"]
    BY <1>3, <2>2
      DEF MusicFetched, TypeOK, Deadlines, Countdown, JustCleared, Sounding
  <2>3. QED BY <2>1, <2>2
<1>4. CASE MusicSetBit
  BY <1>4
    DEF MusicSetBit, SetBit, TypeOK, Deadlines, Countdown, JustCleared, Sounding
<1>5. CASE MusicCreate
  <2>1. run \/ silence = 0
    BY <1>5 DEF MusicCreate, JustCleared, TypeOK
  <2>2. /\ handle' \in [Kinds -> BOOLEAN]
        /\ player' \in [Slots -> Players]
        /\ Deadlines' /\ Countdown'
    BY <1>5, <2>1, CreatePreserves DEF MusicCreate, Kinds
  <2>3. JustCleared'
    BY <1>5, <2>1 DEF MusicCreate, JustCleared, TypeOK
  <2>4. QED BY <1>5, <2>2, <2>3 DEF MusicCreate, TypeOK
<1>6. CASE SpeechChat
  <2>1. /\ process_rec_q' \in Seq({"SPEECH_GET", "QIANFAN_GET"})
        /\ Len(process_rec_q') <= QueueLen
    BY <1>6, TakeType DEF SpeechChat
  <2>2. CASE handle["http_mp3"]
    <3>1. ClearBit /\ UNCHANGED player
      BY <1>6, <2>2 DEF SpeechChat
    <3>2. Deadlines' /\ Countdown' /\ run' \in BOOLEAN /\ silence' \in 0 .. Grace
      BY <3>1, ClearStartsCountdown
    <3>3. JustCleared'
      BY <1>6, <3>1 DEF SpeechChat, ClearBit, JustCleared, TypeOK
    <3>4. QED BY <1>6, <2>1, <3>2, <3>3 DEF SpeechChat, TypeOK
  <2>3. CASE ~handle["http_mp3"]
    BY <1>6, <2>1, <2>3
      DEF SpeechChat, TypeOK, Deadlines, Countdown, JustCleared, Sounding
  <2>4. QED BY <2>2, <2>3
<1>7. CASE ChatAnswer
  <2>1. /\ process_rec_q' \in Seq({"SPEECH_GET", "QIANFAN_GET"})
        /\ Len(process_rec_q') <= QueueLen
    BY <1>7, SendType DEF ChatAnswer, TypeOK
  <2>2. QED
    BY <1>7, <2>1
      DEF ChatAnswer, TypeOK, Deadlines, Countdown, JustCleared, Sounding
<1>8. CASE AnswerSetBit
  BY <1>8, TakeType
    DEF AnswerSetBit, SetBit, TypeOK, Deadlines, Countdown, JustCleared, Sounding
<1>9. CASE AnswerCreate
  <2>1. run \/ silence = 0
    BY <1>9 DEF AnswerCreate, JustCleared, TypeOK
  <2>2. /\ handle' \in [Kinds -> BOOLEAN]
        /\ player' \in [Slots -> Players]
        /\ Deadlines' /\ Countdown'
    BY <1>9, <2>1, CreatePreserves DEF AnswerCreate, Kinds
  <2>3. JustCleared'
    BY <1>9, <2>1 DEF AnswerCreate, JustCleared, TypeOK
  <2>4. QED BY <1>9, <2>2, <2>3 DEF AnswerCreate, TypeOK
<1>10. QED
  BY <1>1, <1>2, <1>3, <1>4, <1>5, <1>6, <1>7, <1>8, <1>9 DEF ProcessTask

LEMMA NoticePreserves == PlaybackInv /\ (NoticeDue \/ NoticeTask) => PlaybackInv'
<1> SUFFICES ASSUME PlaybackInv, NoticeDue \/ NoticeTask PROVE PlaybackInv'
  OBVIOUS
<1> USE TimingAssumption DEF PlaybackInv, Creating, At, Waiting
<1>1. CASE NoticeDue
  <2>1. ClearBit /\ UNCHANGED player
    BY <1>1 DEF NoticeDue
  <2>2. Deadlines' /\ Countdown' /\ run' \in BOOLEAN /\ silence' \in 0 .. Grace
    BY <2>1, ClearStartsCountdown
  <2>3. JustCleared'
    BY <1>1, <2>1 DEF NoticeDue, ClearBit, JustCleared, TypeOK
  <2>4. QED BY <1>1, <2>2, <2>3 DEF NoticeDue, TypeOK
<1>2. CASE NoticeSetBit
  BY <1>2
    DEF NoticeSetBit, SetBit, TypeOK, Deadlines, Countdown, JustCleared, Sounding
<1>3. CASE NoticeCreate
  <2>1. run \/ silence = 0
    BY <1>3 DEF NoticeCreate, JustCleared, TypeOK
  <2>2. /\ handle' \in [Kinds -> BOOLEAN]
        /\ player' \in [Slots -> Players]
        /\ Deadlines' /\ Countdown'
    BY <1>3, <2>1, CreatePreserves DEF NoticeCreate, Kinds
  <2>3. JustCleared'
    BY <1>3, <2>1 DEF NoticeCreate, JustCleared, TypeOK
  <2>4. QED BY <1>3, <2>2, <2>3 DEF NoticeCreate, TypeOK
<1>4. QED BY <1>1, <1>2, <1>3 DEF NoticeTask

-----------------------------------------------------------------------------
\* A player that read the bit clear starts its tear down within the time
\* that was left to it.
LEMMA PlayerPreserves ==
  ASSUME NEW s \in Slots, PlaybackInv, PlayerTask(s)
  PROVE  PlaybackInv'
<1>t. /\ ReadGap \in Nat /\ StopTime \in Nat
      /\ TypeOK /\ Deadlines /\ Countdown /\ JustCleared
  BY TimingAssumption DEF PlaybackInv
<1>1. /\ UNCHANGED <<run, silence, handle, process_rec_q, process, notice>>
      /\ JustCleared'
  BY <1>t DEF PlayerTask, ReadBit, Finish, Stopped, JustCleared, Creating
<1>2. /\ player \in [Slots -> Players]
      /\ player[s] \in Players
  BY <1>t DEF TypeOK, Players
<1>3. PICK new : /\ player' = [player EXCEPT ![s] = new]
                 /\ \/ new = Playing(s) /\ run
                    \/ new = Stopping(s) /\ Sounding(s)
                    \/ new = Gone
  BY DEF PlayerTask, ReadBit, Finish, Stopped, Sounding
<1>4. /\ new \in Players
      /\ new.at \in {"setup", "playing"} => new.left <= ReadGap /\ run
      /\ new.at = "stopping" => new.left <= StopTime /\ Sounding(s)
  <2>1. CASE new = Playing(s) /\ run
    BY <1>t, <1>2, <2>1, NextPhase
  <2>2. CASE new = Stopping(s) /\ Sounding(s)
    BY <1>t, <1>2, <2>2, NextPhase
  <2>3. CASE new = Gone
    BY <2>3 DEF Gone, Players, Kinds
  <2>4. QED BY <1>3, <2>1, <2>2, <2>3
<1>5. player'[s] = new /\ \A t \in Slots \ {s} : player'[t] = player[t]
  BY <1>2, <1>3
<1>6. TypeOK'
  BY <1>t, <1>1, <1>2, <1>3, <1>4 DEF TypeOK
<1>7. Deadlines'
  BY <1>t, <1>4, <1>5 DEF Deadlines, Sounding
<1>8. Countdown'
  <2>1. silence \in Nat /\ player[s].left \in Nat /\ new.left \in Nat
    BY <1>t, <1>2, <1>4 DEF TypeOK, Players
  <2>2. ~run /\ new.at = "stopping" => new.left + silence <= ReadGap + StopTime
    BY <1>t, <1>4, <2>1 DEF Countdown
  <2>3. QED BY <1>t, <1>1, <1>4, <1>5, <2>1, <2>2 DEF Countdown, Sounding
<1>9. QED BY <1>1, <1>6, <1>7, <1>8 DEF PlaybackInv

\* What a tick adds to the silence it takes from each player's time.
LEMMA TickPreserves == PlaybackInv /\ Tick => PlaybackInv'
<1> SUFFICES ASSUME PlaybackInv, Tick PROVE PlaybackInv'
  OBVIOUS
<1>t. /\ ReadGap \in Nat /\ StopTime \in Nat /\ Grace \in Nat
      /\ TypeOK /\ Deadlines /\ Countdown /\ JustCleared
  BY TimingAssumption DEF PlaybackInv
<1>2. \A s \in Slots : /\ player'[s] \in Players
                        /\ player'[s].at = player[s].at
                        /\ player[s].left \in Nat
                        /\ player'[s].left = Less(player[s].left)
  <2> SUFFICES ASSUME NEW s \in Slots
               PROVE  /\ player'[s] \in Players
                      /\ player'[s].at = player[s].at
                      /\ player[s].left \in Nat
                      /\ player'[s].left = Less(player[s].left)
    OBVIOUS
  <2>1. player'[s] = [player[s] EXCEPT !.left = Less(player[s].left)]
    BY DEF Tick
  <2>2. player[s] \in Players
    BY <1>t DEF TypeOK
  <2>3. player[s].left \in Nat /\ Less(player[s].left) \in Nat
    BY <2>2, PlayerFields DEF Less
  <2>4. QED BY <2>1, <2>2, <2>3, PlayerAges
<1>3. silence \in Nat /\ silence' \in 0 .. Grace /\ silence' <= silence + 1
  <2>1. silence \in 0 .. Grace
    BY <1>t DEF TypeOK
  <2>2. silence' = IF ~run /\ silence < Grace THEN silence + 1 ELSE silence
    BY DEF Tick
  <2>3. QED BY <1>t, <2>1, <2>2
<1>4. TypeOK'
  <2>1. player' \in [Slots -> Players]
    BY <1>2 DEF Tick
  <2>3. process' \in [at : {"receive", "fetch", "graceMusic", "createMusic",
                            "graceChat", "createAnswer"}, left : 0 .. Grace]
    BY <1>t, TaskAges DEF Tick, TypeOK
  <2>4. notice' \in [at : {"poll", "grace", "create"}, left : 0 .. Grace]
    BY <1>t, TaskAges DEF Tick, TypeOK
  <2>5. QED BY <1>t, <1>3, <2>1, <2>3, <2>4 DEF Tick, TypeOK
<1>5. Deadlines'
  <2> SUFFICES ASSUME NEW s \in Slots
               PROVE  /\ Sounding(s) => player'[s].left <= ReadGap
                      /\ player[s].at = "stopping" => player'[s].left <= StopTime
    BY <1>2 DEF Deadlines, Sounding
  <2>1. player'[s].left \in Nat /\ player'[s].left <= player[s].left
    BY <1>2 DEF Less
  <2>2. QED BY <1>t, <1>2, <2>1 DEF Deadlines
<1>6. Countdown'
  <2> SUFFICES ASSUME ~run, NEW s \in Slots, Live(s)
               PROVE  /\ Sounding(s) => player'[s].left + silence' <= ReadGap
                      /\ player[s].at = "stopping"
                           => player'[s].left + silence' <= ReadGap + StopTime
    BY <1>2 DEF Countdown, Sounding, Live, Tick
  <2>1. player[s].left \in Nat /\ player[s].left > 0
    BY <1>2 DEF Tick
  <2>2. player'[s].left = player[s].left - 1
    BY <1>2, <2>1 DEF Less
  <2>3. player'[s].left + silence' <= player[s].left + silence
    BY <1>3, <2>1, <2>2
  <2>4. QED BY <1>t, <1>3, <2>1, <2>2, <2>3 DEF Countdown
<1>7. JustCleared'
  <2>1. process'.at = process.at /\ notice'.at = notice.at
    BY <1>t, TaskAges DEF Tick, TypeOK
  <2>2. QED BY <2>1 DEF JustCleared, Creating, Tick
<1>8. QED BY <1>4, <1>5, <1>6, <1>7 DEF PlaybackInv

-----------------------------------------------------------------------------
LEMMA InitPlayback == Init => PlaybackInv
<1> SUFFICES ASSUME Init PROVE PlaybackInv
  OBVIOUS
<1>1. TypeOK
  <2>1. process_rec_q \in Seq({"SPEECH_GET", "QIANFAN_GET"})
        /\ Len(process_rec_q) <= QueueLen
    BY QueueLenAssumption DEF Init
  <2>2. player \in [Slots -> Players] /\ handle \in [Kinds -> BOOLEAN]
    BY DEF Init, Gone, Kinds, Players
  <2>3. /\ process = [at |-> "receive", left |-> 0]
        /\ notice = [at |-> "poll", left |-> 0]
        /\ 0 \in 0 .. Grace
    BY TimingAssumption DEF Init, At
  <2>4. /\ process \in [at : {"receive", "fetch", "graceMusic", "createMusic",
                             "graceChat", "createAnswer"}, left : 0 .. Grace]
        /\ notice \in [at : {"poll", "grace", "create"}, left : 0 .. Grace]
    BY <2>3
  <2>5. run \in BOOLEAN /\ silence \in 0 .. Grace
    BY <2>3 DEF Init
  <2>6. QED
    BY <2>1, <2>2, <2>4, <2>5 DEF TypeOK
<1>2. Deadlines /\ Countdown /\ JustCleared
  BY TimingAssumption
    DEF Init, Deadlines, Countdown, JustCleared, Creating, Sounding, Gone, At
<1>3. QED BY <1>1, <1>2 DEF PlaybackInv

LEMMA PlaybackStep == PlaybackInv /\ [Next]_vars => PlaybackInv'
<1>1. PlaybackInv /\ UNCHANGED vars => PlaybackInv'
  BY DEF PlaybackInv, TypeOK, Deadlines, Countdown, JustCleared, Creating,
         Sounding, vars
<1>2. QED
  BY <1>1, SpeechPreserves, ProcessPreserves, NoticePreserves,
     PlayerPreserves, TickPreserves DEF Next

\* The invariant holds in every reachable state.
THEOREM PlaybackInvariant == Spec => []PlaybackInv
BY InitPlayback, PlaybackStep, PTL DEF Spec

\* Type correctness of the playback state, for any constants.
THEOREM TypeCorrect == Spec => []TypeOK
<1>1. PlaybackInv => TypeOK  BY DEF PlaybackInv
<1>2. QED BY <1>1, PlaybackInvariant, PTL

\* Grace after the clearing every player is gone: the wait of five seconds
\* is sound whenever reading the bit and the tear down together are shorter.
THEOREM GraceSuffices == Spec => []GraceMeansSilence
<1>1. PlaybackInv => GraceMeansSilence
  <2> SUFFICES ASSUME PlaybackInv, ~run, silence = Grace, NEW s \in Slots
               PROVE  player[s].at = "gone"
    BY DEF GraceMeansSilence, Silent, Live
  <2>1. player[s].at \in {"gone", "setup", "playing", "stopping"}
        /\ player[s].left \in Nat
    BY DEF PlaybackInv, TypeOK, Players
  <2>2. QED
    BY <2>1, TimingAssumption DEF PlaybackInv, Countdown, Sounding
<1>2. QED BY <1>1, PlaybackInvariant, PTL

\* ReadGap after the clearing no pipeline plays any more.
THEOREM SoundStops == Spec => []ClearBitStopsSound
<1>1. PlaybackInv => ClearBitStopsSound
  <2> SUFFICES ASSUME PlaybackInv, ~run, silence > ReadGap, NEW s \in Slots
               PROVE  player[s].at \in {"gone", "stopping"}
    BY DEF ClearBitStopsSound
  <2>1. /\ player[s].at \in {"gone", "setup", "playing", "stopping"}
        /\ player[s].left \in Nat /\ silence \in Nat
    BY TimingAssumption DEF PlaybackInv, TypeOK, Players
  <2>2. QED
    BY <2>1, TimingAssumption DEF PlaybackInv, Countdown, Sounding
<1>2. QED BY <1>1, PlaybackInvariant, PTL

-----------------------------------------------------------------------------
(* One voice                                                               *)

\* Of process_task and notice one is busy, with one message.
OneBusy ==
  /\ notice.at # "poll" => process.at = "receive" /\ process_rec_q = <<>>
  /\ process.at # "receive" => process_rec_q = <<>>
  /\ Len(process_rec_q) <= 1

\* The bit is clear, and in so many ticks it will have been for Grace.
QuietIn(left) == ~run /\ silence + left >= Grace

\* Whoever is about to create a player when one of the other kind was created
\* before has waited for silence, and notice always has.
Quieted ==
  /\ process.at = "graceMusic" /\ handle["baidu_tts"] => QuietIn(process.left)
  /\ process.at = "graceChat" /\ handle["http_mp3"] => QuietIn(process.left)
  /\ process_rec_q # <<>> /\ Head(process_rec_q) = "QIANFAN_GET" /\ handle["http_mp3"]
       => QuietIn(0)
  /\ process.at = "createMusic" /\ handle["baidu_tts"] => Silent
  /\ process.at = "createAnswer" /\ handle["http_mp3"] => Silent
  /\ notice.at = "grace" => QuietIn(notice.left)
  /\ notice.at = "create" => Silent

\* What a step has to preserve when nobody speaks over the machine.
VoiceInv == PlaybackInv /\ OneBusy /\ Quieted /\ OneVoiceOnceBothPlayed

\* The delay is enough (GraceMeansSilence) at the end of a wait.
LEMMA QuietIsSilent ==
  ASSUME PlaybackInv, QuietIn(0)
  PROVE  Silent
<1>1. SUFFICES ASSUME NEW s \in Slots PROVE player[s].at = "gone"
  BY DEF Silent, Live
<1>2. ~run /\ silence = Grace
  BY TimingAssumption DEF QuietIn, PlaybackInv, TypeOK
<1>3. player[s].at \in {"gone", "setup", "playing", "stopping"} /\ player[s].left \in Nat
  BY DEF PlaybackInv, TypeOK, Players
<1>4. QED
  BY <1>2, <1>3, TimingAssumption DEF PlaybackInv, Countdown, Sounding

LEMMA ClearIsQuiet ==
  ASSUME PlaybackInv, ClearBit
  PROVE  ~run' /\ silence' + Grace >= Grace
BY TimingAssumption DEF ClearBit, PlaybackInv, TypeOK

\* One player is created in silence, and the other kind's handle stays.
LEMMA CreateOne ==
  ASSUME PlaybackInv, NEW kind \in Kinds, CreatePlayer(kind),
         NEW other \in Kinds, other # kind, handle[other] => Silent, OneVoiceOnceBothPlayed
  PROVE  OneVoiceOnceBothPlayed' /\ handle'[other] = handle[other]
<1>1. player \in [Slots -> Players] /\ handle \in [Kinds -> BOOLEAN]
  BY DEF PlaybackInv, TypeOK
<1>2. CASE \A s \in Slots : Live(s)
  BY <1>2 DEF CreatePlayer, OneVoiceOnceBothPlayed, Live
<1>3. CASE \E s \in Slots : ~Live(s)
  <2>1. PICK s \in Slots : /\ player' = [player EXCEPT ![s] = New(kind)]
                           /\ handle' = [handle EXCEPT ![kind] = TRUE]
    BY <1>3 DEF CreatePlayer
  <2>2. handle'[other] = handle[other] /\ \A t \in Slots : t # s => player'[t] = player[t]
    BY <1>1, <2>1
  <2>3. Silent => \A t \in Slots : Live(t)' => t = s
    BY <2>2 DEF Silent, Live
  <2>4. handle'[other] => Silent
    BY <2>2
  <2>5. QED BY <2>2, <2>3, <2>4 DEF OneVoiceOnceBothPlayed
<1>4. QED BY <1>2, <1>3

LEMMA SpeechVoice ==
  ASSUME Patient, VoiceInv, Speech
  PROVE  (OneBusy /\ Quieted /\ OneVoiceOnceBothPlayed)'
<1>1. /\ process.at = "receive" /\ process_rec_q = <<>> /\ notice.at = "poll"
      /\ process_rec_q' = <<"SPEECH_GET">>
      /\ UNCHANGED <<run, silence, handle, process, notice, player>>
  BY QueueLenAssumption DEF Speech, Send
<1>2. OneBusy'
  BY <1>1 DEF OneBusy
<1>3. Quieted'
  BY <1>1 DEF Quieted
<1>4. QED BY <1>1, <1>2, <1>3 DEF VoiceInv, OneVoiceOnceBothPlayed, Live

\* The message that is taken is the only one.
LEMMA TakeOne ==
  ASSUME VoiceInv, NEW m, Take(m)
  PROVE  /\ process.at = "receive" /\ process_rec_q # <<>> /\ Head(process_rec_q) = m
         /\ process_rec_q' = <<>> /\ notice.at = "poll"
<1>1. /\ process_rec_q \in Seq({"SPEECH_GET", "QIANFAN_GET"}) /\ Len(process_rec_q) <= 1
      /\ process.at = "receive" /\ process_rec_q # <<>> /\ Head(process_rec_q) = m
      /\ process_rec_q' = Tail(process_rec_q)
  BY DEF VoiceInv, PlaybackInv, TypeOK, OneBusy, Take
<1>2. Len(process_rec_q) = 1 /\ Len(Tail(process_rec_q)) = 0
  <2>1. Len(process_rec_q) \in Nat /\ Len(process_rec_q) # 0
        /\ Len(process_rec_q) <= 1
    BY <1>1
  <2>2. Len(process_rec_q) = 1
    BY <2>1
  <2>3. Len(Tail(process_rec_q)) = Len(process_rec_q) - 1
    BY <1>1
  <2>4. QED BY <2>2, <2>3
<1>3. process_rec_q' = <<>>
  BY <1>1, <1>2
<1>4. notice.at = "poll"
  BY <1>1 DEF VoiceInv, OneBusy, PlaybackInv, TypeOK
<1>5. QED BY <1>1, <1>3, <1>4

LEMMA ProcessVoice ==
  ASSUME Patient, VoiceInv, ProcessTask
  PROVE  (OneBusy /\ Quieted /\ OneVoiceOnceBothPlayed)'
<1> USE DEF At, Waiting
<1>t. /\ PlaybackInv /\ OneBusy /\ Quieted /\ OneVoiceOnceBothPlayed
      /\ notice.at \in {"poll", "grace", "create"}
      /\ silence \in Nat /\ Grace \in Nat
  BY TimingAssumption DEF VoiceInv, PlaybackInv, TypeOK
<1>b. process.at # "receive" => process_rec_q = <<>> /\ notice.at = "poll"
  BY <1>t DEF OneBusy
<1>0. ASSUME UNCHANGED <<player, handle>>
      PROVE  OneVoiceOnceBothPlayed'
  BY <1>t, <1>0 DEF OneVoiceOnceBothPlayed, Live
<1>1. CASE SpeechEmpty
  BY <1>0, <1>1, TakeOne DEF SpeechEmpty, OneBusy, Quieted
<1>2. CASE SpeechMusic
  BY <1>0, <1>2, TakeOne DEF SpeechMusic, OneBusy, Quieted
<1>3. CASE MusicFetched
  <2>1. handle["baidu_tts"] => ~run' /\ silence' + Grace >= Grace
    BY <1>t, <1>3, ClearIsQuiet DEF MusicFetched
  <2>2. QED
    BY <1>0, <1>3, <1>b, <2>1 DEF MusicFetched, OneBusy, Quieted, QuietIn
<1>4. CASE MusicSetBit
  <2>1. handle["baidu_tts"] => Silent
    BY <1>t, <1>4, QuietIsSilent DEF MusicSetBit, Quieted
  <2>2. QED
    BY <1>0, <1>4, <1>b, <2>1 DEF MusicSetBit, OneBusy, Quieted, Silent, Live
<1>5. CASE MusicCreate
  <2>1. OneVoiceOnceBothPlayed'
    BY <1>t, <1>5, CreateOne DEF MusicCreate, Kinds, Quieted
  <2>2. QED BY <1>5, <1>b, <2>1 DEF MusicCreate, OneBusy, Quieted
<1>6. CASE SpeechChat
  <2>1. handle["http_mp3"] => ~run' /\ silence' + Grace >= Grace
    BY <1>t, <1>6, ClearIsQuiet DEF SpeechChat
  <2>2. QED
    BY <1>0, <1>6, <2>1, TakeOne DEF SpeechChat, OneBusy, Quieted, QuietIn
<1>7. CASE ChatAnswer
  <2>1. process_rec_q' \in {<<>>, <<"QIANFAN_GET">>}
    BY <1>7, <1>b, QueueLenAssumption DEF ChatAnswer, Send
  <2>2. handle["http_mp3"] => QuietIn(0)
    BY <1>t, <1>7 DEF ChatAnswer, Quieted
  <2>3. OneBusy'
    <3>1. Len(process_rec_q') <= 1
      <4>1. CASE process_rec_q' = <<>>
        BY <4>1
      <4>2. CASE process_rec_q' = <<"QIANFAN_GET">>
        BY <4>2
      <4>3. QED BY <2>1, <4>1, <4>2
    <3>2. process'.at = "receive" /\ notice'.at = "poll"
      BY <1>7, <1>b DEF ChatAnswer
    <3>3. QED BY <3>1, <3>2 DEF OneBusy
  <2>4. Quieted'
    BY <1>7, <1>b, <2>1, <2>2 DEF ChatAnswer, Quieted, QuietIn
  <2>5. QED BY <1>0, <1>7, <2>3, <2>4 DEF ChatAnswer
<1>8. CASE AnswerSetBit
  <2>1. handle["http_mp3"] => Silent
    BY <1>t, <1>8, QuietIsSilent, TakeOne DEF AnswerSetBit, Quieted
  <2>2. QED
    BY <1>0, <1>8, <2>1, TakeOne DEF AnswerSetBit, OneBusy, Quieted, Silent, Live
<1>9. CASE AnswerCreate
  <2>1. OneVoiceOnceBothPlayed'
    BY <1>t, <1>9, CreateOne DEF AnswerCreate, Kinds, Quieted
  <2>2. QED BY <1>9, <1>b, <2>1 DEF AnswerCreate, OneBusy, Quieted
<1>10. QED
  BY <1>1, <1>2, <1>3, <1>4, <1>5, <1>6, <1>7, <1>8, <1>9 DEF ProcessTask

LEMMA NoticeVoice ==
  ASSUME Patient, VoiceInv, NoticeDue \/ NoticeTask
  PROVE  (OneBusy /\ Quieted /\ OneVoiceOnceBothPlayed)'
<1> USE DEF At, Waiting
<1>t. /\ PlaybackInv /\ OneBusy /\ Quieted /\ OneVoiceOnceBothPlayed
      /\ silence \in Nat /\ Grace \in Nat
  BY TimingAssumption DEF VoiceInv, PlaybackInv, TypeOK
<1>0. ASSUME UNCHANGED <<player, handle>>
      PROVE  OneVoiceOnceBothPlayed'
  BY <1>t, <1>0 DEF OneVoiceOnceBothPlayed, Live
<1>1. CASE NoticeDue
  <2>1. ~run' /\ silence' + Grace >= Grace
    BY <1>t, <1>1, ClearIsQuiet DEF NoticeDue
  <2>2. QED
    BY <1>0, <1>1, <2>1 DEF NoticeDue, OneBusy, Quieted, QuietIn
<1>2. CASE NoticeSetBit
  <2>1. Silent
    BY <1>t, <1>2, QuietIsSilent DEF NoticeSetBit, Quieted
  <2>2. process.at = "receive" /\ process_rec_q = <<>>
    BY <1>t, <1>2 DEF NoticeSetBit, OneBusy
  <2>3. QED
    BY <1>0, <1>2, <2>1, <2>2 DEF NoticeSetBit, OneBusy, Quieted, Silent, Live
<1>3. CASE NoticeCreate
  <2>1. process.at = "receive" /\ process_rec_q = <<>>
    BY <1>t, <1>3 DEF NoticeCreate, OneBusy
  <2>2. OneVoiceOnceBothPlayed'
    BY <1>t, <1>3, CreateOne DEF NoticeCreate, Kinds, Quieted
  <2>3. QED BY <1>3, <2>1, <2>2 DEF NoticeCreate, OneBusy, Quieted
<1>4. QED BY <1>1, <1>2, <1>3 DEF NoticeTask

\* A player's own steps and the time bring no new player.
LEMMA PlayerVoice ==
  ASSUME NEW s \in Slots, VoiceInv, PlayerTask(s)
  PROVE  (OneBusy /\ Quieted /\ OneVoiceOnceBothPlayed)'
<1>1. UNCHANGED <<run, silence, handle, process_rec_q, process, notice>>
  BY DEF PlayerTask, ReadBit, Finish, Stopped
<1>2. \A t \in Slots : Live(t)' => Live(t)
  <2>1. Live(s)
    BY DEF PlayerTask, ReadBit, Finish, Stopped, Live
  <2>2. \A t \in Slots : t # s => player'[t] = player[t]
    BY DEF VoiceInv, PlaybackInv, TypeOK, PlayerTask, ReadBit, Finish, Stopped
  <2>3. QED BY <2>1, <2>2 DEF Live
<1>3. Silent => Silent'
  BY <1>2 DEF Silent
<1>4. QED
  BY <1>1, <1>2, <1>3 DEF VoiceInv, OneBusy, Quieted, QuietIn, OneVoiceOnceBothPlayed

LEMMA TickVoice ==
  ASSUME VoiceInv, Tick
  PROVE  (OneBusy /\ Quieted /\ OneVoiceOnceBothPlayed)'
<1>t. /\ Grace \in Nat /\ silence \in 0 .. Grace
      /\ process.left \in 0 .. Grace /\ notice.left \in 0 .. Grace
      /\ player \in [Slots -> Players]
  BY TimingAssumption DEF VoiceInv, PlaybackInv, TypeOK
<1>1. /\ UNCHANGED <<run, handle, process_rec_q>>
      /\ process'.at = process.at /\ process'.left = Less(process.left)
      /\ notice'.at = notice.at /\ notice'.left = Less(notice.left)
  BY <1>t DEF VoiceInv, PlaybackInv, TypeOK, Tick
<1>2. \A t \in Slots : Live(t)' = Live(t)
  <2>1. SUFFICES ASSUME NEW t \in Slots PROVE player'[t].at = player[t].at
    BY DEF Live
  <2>2. player'[t] = [player[t] EXCEPT !.left = Less(player[t].left)]
    BY DEF Tick
  <2>3. QED BY <1>t, <2>2 DEF Players
<1>3. ASSUME NEW n \in 0 .. Grace, QuietIn(n)
      PROVE  ~run' /\ silence' + Less(n) >= Grace
  BY <1>t, <1>1, <1>3 DEF QuietIn, Less, Tick
<1>4. OneBusy'
  BY <1>1 DEF VoiceInv, OneBusy
<1>5. Quieted'
  <2>1. Less(0) = 0 /\ 0 \in 0 .. Grace
    BY <1>t DEF Less
  <2>2. QuietIn(process.left) => QuietIn(process.left)'
    BY <1>t, <1>1, <1>3 DEF QuietIn
  <2>3. QuietIn(notice.left) => QuietIn(notice.left)'
    BY <1>t, <1>1, <1>3 DEF QuietIn
  <2>4. QuietIn(0) => QuietIn(0)'
    BY <1>3, <2>1 DEF QuietIn
  <2>5. Silent => Silent'
    BY <1>2 DEF Silent
  <2>6. QED BY <1>1, <2>2, <2>3, <2>4, <2>5 DEF VoiceInv, Quieted
<1>6. QED
  BY <1>1, <1>2, <1>4, <1>5 DEF VoiceInv, OneVoiceOnceBothPlayed

LEMMA VoiceInit == Init => VoiceInv
<1>1. Init => OneBusy /\ Quieted
  BY DEF Init, OneBusy, Quieted, At
<1>2. Init => OneVoiceOnceBothPlayed
  BY DEF Init, OneVoiceOnceBothPlayed, Live, Gone
<1>3. QED BY <1>1, <1>2, InitPlayback DEF VoiceInv

LEMMA VoiceStep ==
  ASSUME Patient, VoiceInv, [Next]_vars
  PROVE  VoiceInv'
<1>1. PlaybackInv'
  BY PlaybackStep DEF VoiceInv
<1>2. (OneBusy /\ Quieted /\ OneVoiceOnceBothPlayed)'
  <2>1. CASE UNCHANGED vars
    BY <2>1
       DEF vars, VoiceInv, OneBusy, Quieted, QuietIn, Silent, Live, OneVoiceOnceBothPlayed
  <2>2. QED
    BY <2>1, SpeechVoice, ProcessVoice, NoticeVoice, PlayerVoice, TickVoice DEF Next
<1>3. QED BY <1>1, <1>2 DEF VoiceInv

\* Two voices are never heard at once when nobody speaks over the machine and
\* both kinds of player were started (the tests of the handles in process_task).
THEOREM OneVoice == Spec => []OneVoiceOnceBothPlayed
<1>1. CASE Patient
  <2>1. VoiceInv /\ [Next]_vars => VoiceInv'
    BY <1>1, VoiceStep
  <2>2. VoiceInv => OneVoiceOnceBothPlayed
    BY DEF VoiceInv
  <2>3. QED BY <2>1, <2>2, VoiceInit, PTL DEF Spec
<1>2. CASE ~Patient
  <2>1. OneVoiceOnceBothPlayed
    BY <1>2 DEF OneVoiceOnceBothPlayed
  <2>2. QED BY <2>1, PTL
<1>3. QED BY <1>1, <1>2

-----------------------------------------------------------------------------
(* Music and speech take turns                                             *)

\* The players that are alive are of one kind, and the handle of the kind is
\* set: what the tests of the handles in process_task rely on.
SoundInv ==
  /\ \A s \in Slots : Live(s) => handle[player[s].kind]
  /\ \A s, t \in Slots : Live(s) /\ Live(t) => player[s].kind = player[t].kind

\* The voice is the kind that is alive.
KindOfAll ==
  /\ Silent => Voice = "none"
  /\ \A k \in Kinds : (~Silent /\ \A s \in Slots : Live(s) => player[s].kind = k) => Voice = k

LEMMA VoiceIsKind == KindOfAll /\ KindOfAll'
<1>1. Silent => Voice = "none"
  BY DEF Silent, Voice, KindsLive
<1>2. ASSUME NEW k \in Kinds, ~Silent, \A s \in Slots : Live(s) => player[s].kind = k
      PROVE  Voice = k
  <2>1. KindsLive = {k}
    BY <1>2 DEF Silent, KindsLive
  <2>2. KindsLive # {} /\ KindsLive # Kinds
    BY <2>1 DEF Kinds
  <2>3. (CHOOSE l \in Kinds : l \in KindsLive) = k
    BY <1>2, <2>1
  <2>4. QED BY <2>2, <2>3 DEF Voice
<1>3. KindOfAll
  BY <1>1, <1>2 DEF KindOfAll
<1>4. QED BY <1>3, PTL

\* Where no player is created, the voice stays or falls silent.
LEMMA NoNewVoice ==
  ASSUME PlaybackInv, SoundInv, UNCHANGED handle,
         \A s \in Slots : Live(s)' => Live(s) /\ player'[s].kind = player[s].kind
  PROVE  SoundInv' /\ (Voice' = Voice \/ Voice' = "none")
<1>1. SoundInv'
  BY DEF SoundInv
<1>2. CASE Silent'
  BY <1>1, <1>2, VoiceIsKind DEF KindOfAll
<1>3. CASE ~Silent'
  <2>1. PICK s \in Slots : Live(s)'
    BY <1>3 DEF Silent
  <2>2. Live(s) /\ player[s].kind \in Kinds
    BY <2>1 DEF PlaybackInv, TypeOK, Players
  <2>3. /\ \A t \in Slots : Live(t) => player[t].kind = player[s].kind
        /\ \A t \in Slots : Live(t)' => player'[t].kind = player[s].kind
    BY <2>1, <2>2 DEF SoundInv
  <2>4. ~Silent
    BY <2>2 DEF Silent
  <2>5. Voice = player[s].kind /\ Voice' = player[s].kind
    BY <1>3, <2>2, <2>3, <2>4, VoiceIsKind DEF KindOfAll
  <2>6. QED BY <1>1, <2>5
<1>4. QED BY <1>2, <1>3

\* A player is created beside players of its own kind, or takes the codec.
LEMMA CreateVoice ==
  ASSUME PlaybackInv, SoundInv, NEW kind \in Kinds, CreatePlayer(kind),
         NEW other \in Kinds, other # kind, handle[other] => Silent
  PROVE  /\ SoundInv'
         /\ Voice' = Voice \/ (Voice = "none" /\ Voice' = kind)
<1>1. player \in [Slots -> Players] /\ handle \in [Kinds -> BOOLEAN]
  BY DEF PlaybackInv, TypeOK
<1>2. CASE \A s \in Slots : Live(s)
  <2>1. UNCHANGED <<player, handle>>
    BY <1>2 DEF CreatePlayer
  <2>2. QED BY <2>1 DEF SoundInv, Voice, KindsLive, Live
<1>3. CASE \E s \in Slots : ~Live(s)
  <2>1. PICK s \in Slots : /\ player' = [player EXCEPT ![s] = New(kind)]
                           /\ handle' = [handle EXCEPT ![kind] = TRUE]
    BY <1>3 DEF CreatePlayer
  <2>2. /\ player'[s].kind = kind /\ player'[s].at = "setup"
        /\ \A t \in Slots : t # s => player'[t] = player[t]
        /\ handle'[kind] /\ \A k \in Kinds : handle[k] => handle'[k]
    BY <1>1, <2>1 DEF New
  <2>3. \A t \in Slots : Live(t) => player[t].kind = kind
    <3>1. SUFFICES ASSUME NEW t \in Slots, Live(t), player[t].kind # kind PROVE FALSE
      OBVIOUS
    <3>2. player[t].kind = other
      BY <1>1, <3>1 DEF Kinds, Players
    <3>3. handle[other] /\ ~Silent
      BY <3>1, <3>2 DEF SoundInv, Silent
    <3>4. QED BY <3>3
  <2>4. \A t \in Slots : Live(t)' => player'[t].kind = kind
    BY <2>2, <2>3 DEF Live
  <2>5. SoundInv'
    BY <2>2, <2>4 DEF SoundInv
  <2>6. ~Silent'
    BY <2>2 DEF Silent, Live
  <2>7. Voice' = kind
    BY <2>4, <2>6, VoiceIsKind DEF KindOfAll
  <2>8. Voice \in {"none", kind}
    BY <2>3, VoiceIsKind DEF KindOfAll
  <2>9. QED BY <2>5, <2>7, <2>8
<1>4. QED BY <1>2, <1>3

\* Each step of a system in which nobody speaks over the machine.
LEMMA TurnsStep ==
  ASSUME Patient, VoiceInv, SoundInv, Next
  PROVE  /\ SoundInv'
         /\ \/ Voice' = Voice \/ Voice' = "none"
            \/ Voice = "none" /\ Voice' \in Kinds
<1>t. PlaybackInv /\ Quieted /\ player \in [Slots -> Players]
  BY DEF VoiceInv, PlaybackInv, TypeOK
<1>k. "http_mp3" \in Kinds /\ "baidu_tts" \in Kinds
  BY DEF Kinds
<1>1. CASE MusicCreate
  <2>1. CreatePlayer("http_mp3") /\ (handle["baidu_tts"] => Silent)
    BY <1>t, <1>1 DEF MusicCreate, Quieted
  <2>2. QED BY <1>t, <1>k, <2>1, CreateVoice
<1>2. CASE AnswerCreate \/ NoticeCreate
  <2>1. CreatePlayer("baidu_tts") /\ (handle["http_mp3"] => Silent)
    BY <1>t, <1>2 DEF AnswerCreate, NoticeCreate, Quieted
  <2>2. QED BY <1>t, <1>k, <2>1, CreateVoice
<1>3. CASE \E s \in Slots : PlayerTask(s)
  <2>1. PICK s \in Slots : PlayerTask(s)
    BY <1>3
  <2>2. /\ UNCHANGED handle
        /\ \A t \in Slots : t # s => player'[t] = player[t]
        /\ Live(s) /\ (Live(s)' => player'[s].kind = player[s].kind)
    <3>1. /\ UNCHANGED handle /\ Live(s)
          /\ \E c \in {Playing(s), Stopping(s), Gone} : player' = [player EXCEPT ![s] = c]
      BY <2>1 DEF PlayerTask, ReadBit, Finish, Stopped, Live
    <3>2. PICK c \in {Playing(s), Stopping(s), Gone} : player' = [player EXCEPT ![s] = c]
      BY <3>1
    <3>3. c.at # "gone" => c.kind = player[s].kind
      <4>1. /\ Playing(s).kind = player[s].kind /\ Stopping(s).kind = player[s].kind
            /\ Gone.at = "gone"
        BY <1>t DEF Playing, Stopping, Gone, Players
      <4>2. QED BY <3>2, <4>1
    <3>4. player'[s] = c /\ \A t \in Slots : t # s => player'[t] = player[t]
      BY <1>t, <3>2
    <3>5. QED BY <3>1, <3>3, <3>4 DEF Live
  <2>3. QED BY <1>t, <2>2, NoNewVoice DEF Live
<1>4. CASE Tick
  <2>1. \A t \in Slots : player'[t] = [player[t] EXCEPT !.left = Less(player[t].left)]
    BY <1>4 DEF Tick
  <2>2. \A t \in Slots : player'[t].at = player[t].at /\ player'[t].kind = player[t].kind
    BY <1>t, <2>1 DEF Players
  <2>3. QED BY <1>t, <1>4, <2>2, NoNewVoice DEF Tick, Live
<1>5. ASSUME UNCHANGED <<player, handle>>
      PROVE  SoundInv' /\ Voice' = Voice
  BY <1>5 DEF SoundInv, Voice, KindsLive, Live
<1>6. CASE Speech \/ NoticeDue \/ NoticeSetBit
  BY <1>5, <1>6 DEF Speech, NoticeDue, NoticeSetBit
<1>7. CASE SpeechEmpty \/ SpeechMusic \/ MusicFetched \/ MusicSetBit
           \/ SpeechChat \/ ChatAnswer \/ AnswerSetBit
  BY <1>5, <1>7 DEF SpeechEmpty, SpeechMusic, MusicFetched, MusicSetBit, SpeechChat,
                    ChatAnswer, AnswerSetBit
<1>8. QED
  BY <1>1, <1>2, <1>3, <1>4, <1>6, <1>7 DEF Next, ProcessTask, NoticeTask

\* The inductive invariant of one voice, and with it that of the turns.
LEMMA TurnsInvariant ==
  ASSUME Patient
  PROVE  Spec => [](VoiceInv /\ SoundInv)
<1>1. Init => VoiceInv /\ SoundInv
  <2>1. Init => SoundInv
    BY DEF Init, SoundInv, Live, Gone
  <2>2. QED BY <2>1, VoiceInit
<1>2. VoiceInv /\ SoundInv /\ [Next]_vars => (VoiceInv /\ SoundInv)'
  <2>1. VoiceInv /\ SoundInv /\ UNCHANGED vars => SoundInv'
    BY DEF SoundInv, Live, vars
  <2>2. QED BY <2>1, VoiceStep, TurnsStep
<1>3. QED BY <1>1, <1>2, PTL DEF Spec

\* If nobody speaks over the machine, online playback implements Codec: music
\* and speech share the codec by turns, for any number of players of a kind,
\* and any times that leave room in the delay (process_task, notice).
THEOREM PlaybackImplementsCodec ==
  ASSUME Patient
  PROVE  Spec => KindsTakeTurns
<1>1. Init => Sound!Init
  <2>1. SUFFICES ASSUME Init PROVE Silent
    BY VoiceIsKind DEF KindOfAll, Sound!Init
  <2>2. \A s \in Slots : player[s] = Gone
    BY <2>1 DEF Init
  <2>3. Gone.at = "gone"
    BY DEF Gone
  <2>4. QED BY <2>2, <2>3 DEF Silent, Live
<1>2. VoiceInv /\ SoundInv /\ [Next]_vars => [Sound!Next]_Voice
  <2>1. SUFFICES ASSUME VoiceInv, SoundInv, [Next]_vars, Voice' # Voice
                 PROVE  \/ Voice = "none" /\ Voice' \in Kinds
                        \/ Voice # "none" /\ Voice' = "none"
    BY DEF Sound!Next, Sound!Acquire, Sound!Release
  <2>2. UNCHANGED vars => Voice' = Voice
    BY DEF vars, Voice, KindsLive, Live
  <2>3. QED BY <2>1, <2>2, TurnsStep
<1>3. QED
  BY <1>1, <1>2, TurnsInvariant, PTL DEF Spec, KindsTakeTurns, Sound!Spec
=============================================================================
