------------------------ MODULE OfflinePlayerProofs ------------------------
(***************************************************************************)
(* What is heard is the song of the playlist unless key and loop met: for  *)
(* any number of songs and any length of the event queue.                  *)
(***************************************************************************)
EXTENDS OfflinePlayer, TLAPS

Tasks  == {"key", "loop"}
Silent == element \notin {"running", "paused"}

\* What a task that changes the song relies on at each of its calls.
Ready(who) ==
  /\ at[who].call \in {"prev", "next", "set_uri", "reset", "run"} => Silent
  /\ at[who].call = "set_uri" => at[who].url = current
  /\ at[who].call \in {"reset", "run"} => uri = current
  /\ at[who].call \in {"pause", "resume"} => uri = current /\ playing = current

Sequenced ==
  ~raced => /\ Idle("key") \/ Idle("loop")
            /\ Ready("key") /\ Ready("loop")
            /\ Idle("key") /\ Idle("loop") => /\ uri = current
                                              /\ Silent \/ playing = current

PlayerInv == TypeOK /\ Sequenced

CallNames == {"none", "prev", "next", "set_uri", "reset", "run", "pause", "resume"}
AtType    == [Tasks -> [call : CallNames, url : 0 .. Songs - 1]]

-----------------------------------------------------------------------------
\* The playlist begins again after its last song, and before its first.
LEMMA ListTyped ==
  ASSUME current \in 0 .. Songs - 1, NEW skip
  PROVE  List(skip) \in 0 .. Songs - 1
<1>1. Songs \in Nat \ {0}
  BY PlayerAssumption
<1>2. \A i \in Int : i % Songs \in 0 .. Songs - 1
  BY <1>1
<1>3. current + (IF skip = "next" THEN 1 ELSE -1) \in Int
  BY <1>1
<1>4. QED BY <1>2, <1>3 DEF List

\* The invariant holds at power-on.
LEMMA InitHolds == Init => PlayerInv
<1>1. SUFFICES ASSUME Init PROVE PlayerInv
  OBVIOUS
<1>2. 0 \in 0 .. Songs - 1
  BY PlayerAssumption
<1>3. TypeOK
  <2>1. Rest \in [call : CallNames, url : 0 .. Songs - 1]
    BY <1>2 DEF Rest, CallNames
  <2>2. at \in AtType
    BY <1>1, <2>1 DEF Init, AtType, Tasks
  <2>3. {current, uri, playing} \subseteq 0 .. Songs - 1 /\ reports \in 0 .. Pending
    BY <1>1, <1>2, PlayerAssumption DEF Init
  <2>4. QED
    BY <1>1, <2>2, <2>3, PlayerAssumption DEF Init, TypeOK, AtType, Tasks, CallNames
<1>4. Sequenced
  BY <1>1 DEF Init, Sequenced, Idle, Ready, Silent, Rest, Tasks
<1>5. QED BY <1>3, <1>4 DEF PlayerInv

\* A task goes on to its next call, and the other one stays where it is.
LEMMA CallsOne ==
  ASSUME TypeOK, NEW who \in Tasks, NEW call \in CallNames, Calls(who, call)
  PROVE  /\ at' \in AtType
         /\ at'[who].call = call /\ at'[who].url = at[who].url
         /\ \A o \in Tasks \ {who} : at'[o] = at[o]
<1>1. at \in AtType
  BY DEF TypeOK, AtType, Tasks, CallNames
<1>2. at' = [at EXCEPT ![who] = [at[who] EXCEPT !.call = call]]
  BY DEF Calls
<1>3. [at[who] EXCEPT !.call = call] \in [call : CallNames, url : 0 .. Songs - 1]
  BY <1>1 DEF AtType
<1>4. at[who] \in [call : CallNames, url : 0 .. Songs - 1]
  BY <1>1 DEF AtType
<1>5. at' \in AtType
  BY <1>1, <1>2, <1>3 DEF AtType
<1>6. at'[who] = [at[who] EXCEPT !.call = call] /\ \A o \in Tasks \ {who} : at'[o] = at[o]
  BY <1>1, <1>2 DEF AtType
<1>7. QED BY <1>4, <1>5, <1>6

\* A task that is busy is alone, as long as the two have not met.
LEMMA Alone ==
  ASSUME PlayerInv, ~raced, NEW who \in Tasks, at[who].call # "none"
  PROVE  /\ \A o \in Tasks \ {who} : Idle(o) /\ at[o].call = "none"
         /\ ~Idle(who) /\ Ready(who)
<1>1. \A o \in Tasks : Idle(o) => at[o].call = "none"
  BY DEF Idle, Rest
<1>2. QED BY <1>1 DEF PlayerInv, Sequenced, Tasks

\* What the invariant says of a task that is busy, with the other one idle.
LEMMA BusyOne ==
  ASSUME NEW who \in Tasks,
         ~raced' => /\ \A o \in Tasks \ {who} : Idle(o)'
                    /\ ~Idle(who)' /\ Ready(who)'
  PROVE  Sequenced'
<1>1. \A o \in Tasks : Idle(o)' => Ready(o)'
  BY DEF Idle, Ready, Rest
<1>2. QED BY <1>1 DEF Sequenced, Tasks

\* The list call moves the playlist on, and takes its song.
LEMMA ListHolds ==
  ASSUME NEW who \in Tasks, PlayerInv, ListCall(who)
  PROVE  PlayerInv'
<1>1. TypeOK /\ at \in AtType
  BY DEF PlayerInv, TypeOK, AtType, Tasks, CallNames
<1>2. PICK skip \in {"prev", "next"} :
        /\ at[who].call = skip /\ current' = List(skip)
        /\ at' = [at EXCEPT ![who] = [call |-> "set_uri", url |-> current']]
        /\ UNCHANGED <<volume, raced, audio>>
  BY DEF ListCall, Called
<1>3. current' \in 0 .. Songs - 1
  BY <1>1, <1>2, ListTyped DEF TypeOK
<1>4. at' \in AtType
  BY <1>1, <1>2, <1>3 DEF AtType, CallNames
<1>5. /\ at'[who] = [call |-> "set_uri", url |-> current']
      /\ \A o \in Tasks \ {who} : at'[o] = at[o]
  BY <1>1, <1>2 DEF AtType
<1>6. TypeOK'
  BY <1>1, <1>2, <1>3, <1>4 DEF TypeOK, AtType, Tasks, CallNames, audio
<1>7. ASSUME ~raced'
      PROVE  (\A o \in Tasks \ {who} : Idle(o)') /\ ~Idle(who)' /\ Ready(who)'
  <2>1. ~raced /\ at[who].call # "none"
    BY <1>2, <1>7
  <2>2. (\A o \in Tasks \ {who} : Idle(o)) /\ Ready(who)
    BY <2>1, Alone
  <2>3. QED BY <1>2, <1>5, <2>2 DEF Idle, Rest, Ready, Silent, audio
<1>8. Sequenced'
  BY <1>7, BusyOne
<1>9. QED BY <1>6, <1>8 DEF PlayerInv

\* The song is set in the reader, and the elements are reset.
LEMMA SetHolds ==
  ASSUME NEW who \in Tasks, PlayerInv, SetUri(who) \/ Reset(who)
  PROVE  PlayerInv'
<1>1. TypeOK /\ at \in AtType
  BY DEF PlayerInv, TypeOK, AtType, Tasks, CallNames
<1>2. PICK call \in {"reset", "run"} : Calls(who, call)
  BY DEF SetUri, Reset
<1>3. /\ at' \in AtType
      /\ at'[who].call = call /\ at'[who].url = at[who].url
      /\ \A o \in Tasks \ {who} : at'[o] = at[o]
  BY <1>1, <1>2, CallsOne DEF CallNames
<1>4. /\ at[who].call \in {"set_uri", "reset"}
      /\ UNCHANGED <<current, playing, reports, volume, raced>>
  BY DEF SetUri, Reset, Called
<1>5. \/ at[who].call = "set_uri" /\ uri' = at[who].url /\ UNCHANGED <<pipeline, element>>
      \/ /\ at[who].call = "reset" /\ UNCHANGED uri
         /\ element' = "init" /\ pipeline' \in {"init", pipeline}
  BY DEF SetUri, Reset, Called
<1>6. TypeOK'
  <2>1. at[who].url \in 0 .. Songs - 1
    BY <1>1 DEF AtType
  <2>2. QED
    BY <1>1, <1>3, <1>4, <1>5, <2>1 DEF TypeOK, AtType, Tasks, CallNames
<1>7. ASSUME ~raced'
      PROVE  (\A o \in Tasks \ {who} : Idle(o)') /\ ~Idle(who)' /\ Ready(who)'
  <2>1. ~raced /\ at[who].call # "none"
    BY <1>4, <1>7
  <2>2. (\A o \in Tasks \ {who} : Idle(o)) /\ Ready(who)
    BY <2>1, Alone
  <2>3. Silent' /\ uri' = current'
    BY <1>4, <1>5, <2>2 DEF Ready, Silent
  <2>4. QED BY <1>2, <1>3, <2>2, <2>3 DEF Idle, Rest, Ready
<1>8. Sequenced'
  BY <1>7, BusyOne
<1>9. QED BY <1>6, <1>8 DEF PlayerInv

\* With the last call the song of the playlist plays, or nothing does.
LEMMA FinishHolds ==
  ASSUME NEW who \in Tasks, PlayerInv, Finish(who)
  PROVE  PlayerInv'
<1>1. TypeOK /\ at \in AtType
  BY DEF PlayerInv, TypeOK, AtType, Tasks, CallNames
<1>2. at' = [at EXCEPT ![who] = Rest] /\ UNCHANGED <<current, volume, raced>>
  BY DEF Finish, Called
<1>3. Rest \in [call : CallNames, url : 0 .. Songs - 1]
  BY PlayerAssumption DEF Rest, CallNames
<1>4. at' \in AtType /\ at'[who] = Rest /\ \A o \in Tasks \ {who} : at'[o] = at[o]
  BY <1>1, <1>2, <1>3 DEF AtType
<1>5. \/ at[who].call = "run" /\ Run
      \/ at[who].call = "pause" /\ Pause
      \/ at[who].call = "resume" /\ Resume
  BY DEF Finish, Called
<1>6. /\ uri' = uri /\ playing' \in {playing, uri}
      /\ pipeline' \in {pipeline, "running", "paused"}
      /\ element' \in {element, "running", "paused"}
      /\ reports' \in {reports, IF reports < Pending THEN reports + 1 ELSE reports}
  BY <1>5 DEF Run, Pause, Resume, Element, audio
<1>7. TypeOK'
  <2>1. reports' \in 0 .. Pending
    BY <1>1, <1>6, PlayerAssumption DEF TypeOK
  <2>2. QED BY <1>1, <1>2, <1>4, <1>6, <2>1 DEF TypeOK, AtType, Tasks, CallNames
<1>8. ASSUME ~raced'
      PROVE  /\ \A o \in Tasks : Idle(o)'
             /\ uri' = current' /\ (Silent' \/ playing' = current')
  <2>1. ~raced /\ at[who].call # "none"
    BY <1>2, <1>5, <1>8
  <2>2. (\A o \in Tasks \ {who} : Idle(o)) /\ Ready(who)
    BY <2>1, Alone
  <2>3. uri' = current' /\ (Silent' \/ playing' = current')
    BY <1>2, <1>5, <2>2 DEF Ready, Silent, Run, Pause, Resume, Element, audio
  <2>4. QED BY <1>4, <2>2, <2>3 DEF Idle
<1>9. Sequenced'
  <2>1. \A o \in Tasks : Idle(o)' => Ready(o)'
    BY DEF Idle, Ready, Rest
  <2>2. QED BY <1>8, <2>1 DEF Sequenced, Tasks
<1>10. QED BY <1>7, <1>9 DEF PlayerInv

\* A key changes the song, pauses it or goes on with it.
LEMMA PressHolds == PlayerInv /\ (PressSong \/ PressMode) => PlayerInv'
<1>1. SUFFICES ASSUME PlayerInv, PressSong \/ PressMode PROVE PlayerInv'
  OBVIOUS
<1>2. TypeOK /\ at \in AtType /\ "key" \in Tasks /\ Idle("key")
  BY <1>1 DEF PlayerInv, TypeOK, AtType, Tasks, CallNames, PressSong, PressMode
<1>3. PICK call \in {"prev", "next", "run", "pause", "resume"} :
        /\ Calls("key", call)
        /\ \/ call \in {"prev", "next"} /\ PressSong
           \/ call \in {"run", "pause", "resume"} /\ PressMode
  BY <1>1 DEF PressSong, PressMode
<1>4. /\ at' \in AtType /\ at'["key"].call = call
      /\ \A o \in Tasks \ {"key"} : at'[o] = at[o]
  BY <1>2, <1>3, CallsOne DEF CallNames
<1>5. UNCHANGED <<current, volume, uri, playing>>
  BY <1>1 DEF PressSong, PressMode, Stop, audio
<1>6. TypeOK'
  <2>1. reports' \in 0 .. Pending
    BY <1>1, <1>2, PlayerAssumption DEF PressSong, PressMode, Stop, Element, audio, TypeOK
  <2>2. element' \in {element, "stopped"} /\ pipeline' \in {pipeline, "init"}
    BY <1>1 DEF PressSong, PressMode, Stop, Element, audio
  <2>3. raced' \in BOOLEAN
    BY <1>1, <1>2 DEF PressSong, PressMode, TypeOK, Idle
  <2>4. QED BY <1>2, <1>4, <1>5, <2>1, <2>2, <2>3 DEF TypeOK, AtType, Tasks, CallNames
<1>7. ASSUME ~raced'
      PROVE  (\A o \in Tasks \ {"key"} : Idle(o)') /\ ~Idle("key")' /\ Ready("key")'
  <2>1. Idle("loop") /\ (PressMode => ~raced)
    BY <1>1, <1>7 DEF PressSong, PressMode
  <2>2. (\A o \in Tasks \ {"key"} : Idle(o)') /\ ~Idle("key")'
    BY <1>3, <1>4, <2>1 DEF Idle, Rest, Tasks
  <2>3. CASE PressSong /\ call \in {"prev", "next"}
    BY <1>4, <2>2, <2>3 DEF Ready, Silent, PressSong, Stop, Element
  <2>4. CASE PressMode /\ call \in {"run", "pause", "resume"}
    <3>1. uri = current /\ (Silent \/ playing = current)
      BY <1>1, <1>2, <2>1, <2>4 DEF PlayerInv, Sequenced
    <3>2. UNCHANGED audio
      BY <2>4 DEF PressMode
    <3>3. \/ call = "run" /\ element = "init"
          \/ call \in {"pause", "resume"} /\ element \in {"running", "paused"}
      <4>1. call = at'["key"].call
        BY <1>4
      <4>2. PICK other \in {"run", "pause", "resume"} :
              /\ Calls("key", other)
              /\ \/ other = "run" /\ element = "init"
                 \/ other \in {"pause", "resume"} /\ element \in {"running", "paused"}
        BY <2>4 DEF PressMode
      <4>3. at'["key"].call = other
        BY <1>2, <4>2, CallsOne DEF CallNames
      <4>4. QED BY <4>1, <4>2, <4>3
    <3>4. Ready("key")'
      BY <1>4, <1>5, <3>1, <3>2, <3>3 DEF Ready, Silent, audio
    <3>5. QED BY <2>2, <3>4
  <2>5. QED BY <1>3, <2>2, <2>3, <2>4
<1>8. Sequenced'
  BY <1>2, <1>7, BusyOne
<1>9. QED BY <1>6, <1>8 DEF PlayerInv

\* The loop goes on to the next song when the last one has come to its end.
LEMMA ReportHolds == PlayerInv /\ Report => PlayerInv'
<1>1. SUFFICES ASSUME PlayerInv, Report PROVE PlayerInv'
  OBVIOUS
<1>2. TypeOK /\ at \in AtType /\ "loop" \in Tasks
  BY <1>1 DEF PlayerInv, TypeOK, AtType, Tasks, CallNames
<1>3. UNCHANGED <<current, uri, playing, pipeline, element, volume>> /\ reports' \in 0 .. Pending
  BY <1>1, <1>2, PlayerAssumption DEF Report, TypeOK
<1>4. CASE element = "finished" /\ Calls("loop", "next") /\ raced' = ~Idle("key")
  <2>1. /\ at' \in AtType /\ at'["loop"].call = "next"
        /\ \A o \in Tasks \ {"loop"} : at'[o] = at[o]
    BY <1>2, <1>4, CallsOne DEF CallNames
  <2>2. TypeOK'
    BY <1>2, <1>3, <1>4, <2>1 DEF TypeOK, AtType, Tasks, CallNames, Idle
  <2>3. Sequenced'
    <3>1. ASSUME ~raced'
          PROVE  (\A o \in Tasks \ {"loop"} : Idle(o)') /\ ~Idle("loop")' /\ Ready("loop")'
      <4>1. Idle("key") /\ at'["key"] = at["key"]
        BY <1>4, <2>1, <3>1 DEF Tasks
      <4>2. \A o \in Tasks \ {"loop"} : Idle(o)'
        BY <4>1 DEF Idle, Tasks
      <4>3. ~Idle("loop")'
        BY <2>1 DEF Idle, Rest
      <4>4. Ready("loop")'
        BY <1>3, <1>4, <2>1 DEF Ready, Silent
      <4>5. QED BY <4>2, <4>3, <4>4
    <3>2. QED BY <1>2, <3>1, BusyOne
  <2>4. QED BY <2>2, <2>3 DEF PlayerInv
<1>5. CASE UNCHANGED <<at, raced>>
  <2>1. TypeOK'
    BY <1>2, <1>3, <1>5 DEF TypeOK
  <2>2. Sequenced'
    BY <1>1, <1>3, <1>5 DEF PlayerInv, Sequenced, Idle, Ready, Silent
  <2>3. QED BY <2>1, <2>2 DEF PlayerInv
<1>6. QED BY <1>1, <1>4, <1>5 DEF Report

\* The end of a song and the volume change nothing the invariant speaks of.
LEMMA RestHolds == PlayerInv /\ (SongEnds \/ PressVolume) => PlayerInv'
<1>1. SUFFICES ASSUME PlayerInv, SongEnds \/ PressVolume PROVE PlayerInv'
  OBVIOUS
<1>2. UNCHANGED <<at, current, uri, playing, pipeline, raced>>
  BY <1>1 DEF SongEnds, PressVolume, audio
<1>3. element' = element \/ (element' = "finished" /\ element = "running")
  BY <1>1 DEF SongEnds, PressVolume, audio, Element
<1>4. TypeOK'
  <2>1. TypeOK
    BY <1>1 DEF PlayerInv
  <2>2. reports' \in 0 .. Pending
    BY <1>1, <2>1, PlayerAssumption DEF SongEnds, PressVolume, audio, Element, TypeOK
  <2>3. volume' \in 0 .. 100
    <3>1. volume \in 0 .. 100
      BY <2>1 DEF TypeOK
    <3>2. Louder \in 0 .. 100 /\ Softer \in 0 .. 100
      BY <3>1 DEF Louder, Softer
    <3>3. QED BY <1>1, <3>1, <3>2 DEF SongEnds, PressVolume
  <2>4. QED BY <1>2, <1>3, <2>1, <2>2, <2>3 DEF TypeOK
<1>5. Sequenced'
  BY <1>1, <1>2, <1>3 DEF PlayerInv, Sequenced, Idle, Ready, Silent
<1>6. QED BY <1>4, <1>5 DEF PlayerInv

-----------------------------------------------------------------------------
\* The inductive invariant: until key and loop meet one of them rests, and the
\* other finds at each call what the one before has left (59-103 and 247-259 of
\* c_offline.c).
THEOREM PlayerInvariant == Spec => []PlayerInv
<1>1. PlayerInv /\ [Next]_vars => PlayerInv'
  <2>1. SUFFICES ASSUME PlayerInv, [Next]_vars PROVE PlayerInv'
    OBVIOUS
  <2>2. CASE PressSong \/ PressMode
    BY <2>1, <2>2, PressHolds
  <2>3. CASE SongEnds \/ PressVolume
    BY <2>1, <2>3, RestHolds
  <2>4. CASE Report
    BY <2>1, <2>4, ReportHolds
  <2>5. ASSUME NEW who \in Tasks, Change(who) PROVE PlayerInv'
    BY <2>1, <2>5, ListHolds, SetHolds, FinishHolds DEF Change
  <2>6. CASE UNCHANGED vars
    <3>1. UNCHANGED <<at, current, uri, playing, pipeline, element, reports, volume, raced>>
      BY <2>6 DEF vars, audio
    <3>2. QED
      BY <2>1, <3>1 DEF PlayerInv, TypeOK, Sequenced, Idle, Ready, Silent
  <2>7. "key" \in Tasks /\ "loop" \in Tasks
    BY DEF Tasks
  <2>8. QED BY <2>1, <2>2, <2>3, <2>4, <2>5, <2>6, <2>7 DEF Next, Loop
<1>2. QED BY InitHolds, <1>1, PTL DEF Spec

\* The variables of the player stay in their types, the volume within 0 to 100.
THEOREM TypeCorrect == Spec => []TypeOK
<1>1. PlayerInv => TypeOK
  BY DEF PlayerInv
<1>2. QED BY PlayerInvariant, <1>1, PTL

\* The song heard is that of the playlist, unless the last change met another.
THEOREM PlaysTheList == Spec => []NowPlaying
<1>1. PlayerInv => NowPlaying
  BY DEF PlayerInv, Sequenced, NowPlaying, Silent
<1>2. QED BY PlayerInvariant, <1>1, PTL

-----------------------------------------------------------------------------
(* The next song: what MusicGoesOn needs of the single steps               *)

\* A song that has ended is reported, although reports are lost: the loop, as
\* soon as it rests, finds one in the queue (c_offline.c 244-262).
EndIsReported == element = "finished" /\ Idle("loop") => reports > 0

\* The loop's audio_pipeline_run, in a change of the song that was left alone,
\* is never refused: it starts the song of the playlist (c_offline.c 253-259).
NextSongStarts ==
  [][~raced /\ at["loop"].call = "run" /\ at'["loop"] # at["loop"]
       => element' = "running" /\ playing' = current']_vars

\* Before the last call of the loop the pipeline is reset and no end is missed.
GoesOn ==
  /\ element = "finished" /\ at["loop"].call \in {"none", "run"} => reports > 0
  /\ at["loop"].call \notin {"pause", "resume"}
  /\ ~raced /\ at["loop"].call = "run" => pipeline = "init"

\* The steps that are not the loop's.
LEMMA OthersGoOn ==
  ASSUME PlayerInv, GoesOn, SongEnds \/ PressSong \/ PressMode \/ PressVolume \/ Change("key")
  PROVE  GoesOn' /\ at'["loop"] = at["loop"]
<1>1. /\ at \in AtType /\ reports \in Nat /\ Pending \in Nat \ {0} /\ "key" \in Tasks
      /\ Idle("loop") => at["loop"].call = "none"
  BY PlayerAssumption DEF PlayerInv, TypeOK, AtType, Tasks, CallNames, Idle, Rest
<1>2. ASSUME NEW r, at' = [at EXCEPT !["key"] = r]
      PROVE  at'["loop"] = at["loop"]
  BY <1>1, <1>2 DEF AtType
<1>3. CASE SongEnds
  <2>1. element' = "finished" /\ reports' > 0
    BY <1>1, <1>3 DEF SongEnds, Element
  <2>2. UNCHANGED <<at, pipeline, raced>>
    BY <1>3 DEF SongEnds
  <2>3. QED BY <2>1, <2>2 DEF GoesOn
<1>4. CASE PressSong
  <2>1. at'["loop"] = at["loop"]
    BY <1>2, <1>4 DEF PressSong, Calls
  <2>2. element' = "stopped" /\ (~raced' => Idle("loop"))
    BY <1>4 DEF PressSong, Stop, Element
  <2>3. QED BY <1>1, <2>1, <2>2 DEF GoesOn
<1>5. CASE PressMode
  <2>1. at'["loop"] = at["loop"]
    BY <1>2, <1>5 DEF PressMode, Calls
  <2>2. UNCHANGED <<element, pipeline, reports>> /\ (~raced' => Idle("loop"))
    BY <1>5 DEF PressMode, audio
  <2>3. QED BY <1>1, <2>1, <2>2 DEF GoesOn
<1>6. CASE PressVolume
  BY <1>6 DEF PressVolume, GoesOn, audio
<1>7. CASE Change("key")
  <2>1. at'["loop"] = at["loop"]
    BY <1>2, <1>7 DEF Change, ListCall, SetUri, Reset, Finish, Calls
  <2>2. at["key"].call # "none" /\ UNCHANGED raced
    BY <1>7 DEF Change, ListCall, SetUri, Reset, Finish, Called
  <2>3. ~raced => at["loop"].call = "none"
    BY <1>1, <2>2, Alone DEF Tasks
  <2>4. element' \in {"init", "running", "paused"} \/ UNCHANGED <<element, reports>>
    BY <1>7
       DEF Change, ListCall, SetUri, Reset, Finish, Run, Pause, Resume, Element, audio
  <2>5. QED BY <2>1, <2>2, <2>3, <2>4 DEF GoesOn
<1>8. QED BY <1>3, <1>4, <1>5, <1>6, <1>7

\* The loop's steps; the last of them starts a song.
LEMMA LoopGoesOn ==
  ASSUME PlayerInv, GoesOn, Loop
  PROVE  /\ GoesOn'
         /\ ~raced /\ at["loop"].call = "run" => element' = "running" /\ playing' = current'
<1>1. at \in AtType /\ "loop" \in Tasks
  BY DEF PlayerInv, TypeOK, AtType, Tasks, CallNames
<1>2. CASE Report
  <2>1. /\ Idle("loop") /\ at["loop"].call = "none" /\ UNCHANGED <<element, pipeline>>
    BY <1>2 DEF Report, Idle, Rest
  <2>2. CASE element = "finished"
    <3>1. at'["loop"].call = "next"
      BY <1>1, <1>2, <2>2 DEF Report, Calls, AtType
    <3>2. QED BY <2>1, <3>1 DEF GoesOn
  <2>3. CASE element # "finished" /\ UNCHANGED at
    BY <2>1, <2>3 DEF GoesOn
  <2>4. QED BY <1>2, <2>2, <2>3 DEF Report
<1>3. CASE ListCall("loop") \/ SetUri("loop")
  <2>1. at["loop"].call \in {"prev", "next", "set_uri"}
    BY <1>3 DEF ListCall, SetUri, Called
  <2>2. at'["loop"].call \in {"set_uri", "reset"}
    BY <1>1, <1>3 DEF ListCall, SetUri, Calls, AtType
  <2>3. QED BY <2>1, <2>2 DEF GoesOn
<1>4. CASE Reset("loop")
  <2>1. at["loop"].call = "reset" /\ element' = "init" /\ pipeline' = "init"
    BY <1>4 DEF Reset, Called
  <2>2. at'["loop"].call = "run"
    BY <1>1, <1>4 DEF Reset, Calls, AtType
  <2>3. QED BY <2>1, <2>2 DEF GoesOn
<1>5. CASE Finish("loop")
  <2>1. at["loop"].call = "run" /\ Run /\ UNCHANGED <<current, raced>>
    BY <1>5 DEF Finish, Called, GoesOn
  <2>2. at'["loop"].call = "none"
    BY <1>1, <1>5 DEF Finish, Rest, AtType
  <2>3. element' = "running" \/ UNCHANGED <<element, reports>>
    BY <2>1 DEF Run, Element, audio
  <2>4. ASSUME ~raced
        PROVE  element' = "running" /\ playing' = current'
    <3>1. pipeline = "init" /\ uri = current
      BY <1>1, <2>1, <2>4, Alone DEF GoesOn, Ready
    <3>2. QED BY <2>1, <3>1 DEF Run, Element
  <2>5. QED BY <2>1, <2>2, <2>3, <2>4 DEF GoesOn
<1>6. QED BY <1>2, <1>3, <1>4, <1>5 DEF Loop, Change

LEMMA UnchangedGoesOn ==
  ASSUME UNCHANGED vars
  PROVE  (GoesOn <=> GoesOn') /\ at'["loop"] = at["loop"]
BY DEF vars, audio, GoesOn

\* With PlayerInv inductive: no end of a song is missed, and the loop's change
\* of the song goes through, whatever the keys did before.
LEMMA GoesOnInvariant == Spec => [](PlayerInv /\ GoesOn)
<1>1. Init => GoesOn
  BY DEF Init, GoesOn, Rest
<1>2. PlayerInv /\ GoesOn /\ [Next]_vars => GoesOn'
  BY OthersGoOn, LoopGoesOn, UnchangedGoesOn DEF Next
<1>3. QED BY <1>1, <1>2, PlayerInvariant, PTL DEF Spec

\* The end of a song is never missed, for any length of the event queue.
THEOREM EndsAreReported == Spec => []EndIsReported
<1>1. GoesOn => EndIsReported
  BY DEF GoesOn, EndIsReported, Idle, Rest
<1>2. QED BY GoesOnInvariant, <1>1, PTL

\* The loop always gets the next song started, if the keys leave it alone
\* between its call of the list and that of the pipeline.
THEOREM LoopStartsTheNext == Spec => NextSongStarts
<1>1. PlayerInv /\ GoesOn /\ [Next]_vars =>
        [~raced /\ at["loop"].call = "run" /\ at'["loop"] # at["loop"]
           => element' = "running" /\ playing' = current']_vars
  BY OthersGoOn, LoopGoesOn, UnchangedGoesOn DEF Next
<1>2. QED BY GoesOnInvariant, <1>1, PTL DEF Spec, NextSongStarts
=============================================================================
