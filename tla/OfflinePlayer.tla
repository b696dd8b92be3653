--------------------------- MODULE OfflinePlayer ---------------------------
(***************************************************************************)
(* The offline player while it runs (main/c_offline.c 31-127, 220-266).    *)
(* The callback of the keys, in the task of the key service, and the loop  *)
(* of offline_control go through the same calls to change the song, and    *)
(* share the playlist and the pipeline without a lock.                     *)
(*                                                                         *)
(* The pipeline has a state, which audio_pipeline_run tests, and so has    *)
(* its last element, i2s_stream_writer, which the code asks for.           *)
(***************************************************************************)
EXTENDS Integers

CONSTANTS
  Songs,   \* number of songs on the card
  Volume,  \* at power-on
  Pending  \* bound: reports of the last element in the event queue

ASSUME PlayerAssumption ==
  Songs \in Nat \ {0} /\ Volume \in 0 .. 100 /\ Pending \in Nat \ {0}

VARIABLES
  at,       \* where "key" and "loop" are: the next call, and the url they have got
  current,  \* the song of the playlist
  uri,      \* the song set in fatfs_stream_reader
  playing,  \* the song the pipeline was last run with
  pipeline, \* its state
  element,  \* the state of i2s_stream_writer
  reports,  \* how many of its reports are in the queue
  volume,
  raced     \* ghost: the last change of the song was not left alone

audio == <<uri, playing, pipeline, element, reports>>
vars  == <<at, current, audio, volume, raced>>

Rest == [call |-> "none", url |-> 0]

Init ==
  /\ at = [who \in {"key", "loop"} |-> Rest]
  /\ current = 0 /\ uri = 0 /\ playing = 0
  /\ pipeline = "init" /\ element = "init" /\ reports = 0
  /\ volume = Volume /\ raced = FALSE

Idle(who) == at[who] = Rest

-----------------------------------------------------------------------------
(* The audio pipeline                                                      *)

\* A new state is reported; of a full queue the report is lost.
Element(e) ==
  /\ element' = e
  /\ reports' = IF reports < Pending THEN reports + 1 ELSE reports

SongEnds ==
  /\ element = "running" /\ Element("finished")
  /\ UNCHANGED <<at, current, uri, playing, pipeline, volume, raced>>

\* audio_pipeline_stop, audio_pipeline_wait_for_stop, audio_pipeline_terminate
Stop ==
  /\ pipeline' = IF pipeline = "running" THEN "init" ELSE pipeline
  /\ Element("stopped") /\ UNCHANGED <<uri, playing>>

\* audio_pipeline_run
Run ==
  \/ /\ pipeline = "init" /\ pipeline' = "running" /\ playing' = uri
     /\ Element("running") /\ UNCHANGED uri
  \/ pipeline # "init" /\ UNCHANGED audio

\* Whether the pipeline takes part in the state of its elements is left open.
Pause ==
  /\ element' = "paused" /\ pipeline' \in {pipeline, "paused"}
  /\ UNCHANGED <<uri, playing, reports>>

Resume == Element("running") /\ pipeline' = "running" /\ UNCHANGED <<uri, playing>>

-----------------------------------------------------------------------------
(* The calls that change the song, of either task                          *)

Calls(who, call)  == at' = [at EXCEPT ![who].call = call]
Called(who, call) == at[who].call = call /\ UNCHANGED <<volume, raced>>

\* sdcard_list_prev, sdcard_list_next
List(skip) == (current + (IF skip = "next" THEN 1 ELSE -1)) % Songs

\* Mutant of ListCall: the song before is set.
ListCallOld(who) ==
  \E skip \in {"prev", "next"} :
    /\ Called(who, skip) /\ current' = List(skip)
    /\ at' = [at EXCEPT ![who] = [call |-> "set_uri", url |-> current]]
    /\ UNCHANGED audio

ListCall(who) ==
  \E skip \in {"prev", "next"} :
    /\ Called(who, skip) /\ current' = List(skip)
    /\ at' = [at EXCEPT ![who] = [call |-> "set_uri", url |-> current']]
    /\ UNCHANGED audio

SetUri(who) ==
  /\ Called(who, "set_uri") /\ Calls(who, "reset")
  /\ uri' = at[who].url
  /\ UNCHANGED <<current, playing, pipeline, element, reports>>

\* Mutant of Reset: the loop does not change the state of the pipeline.
ResetElements(who) ==
  /\ Called(who, "reset") /\ Calls(who, "run")
  /\ element' = "init"
  /\ UNCHANGED <<current, uri, playing, pipeline, reports>>

\* The elements are reset, and the loop calls audio_pipeline_change_state too.
Reset(who) ==
  /\ Called(who, "reset") /\ Calls(who, "run")
  /\ element' = "init" /\ pipeline' = IF who = "loop" THEN "init" ELSE pipeline
  /\ UNCHANGED <<current, uri, playing, reports>>

Finish(who) ==
  /\ at' = [at EXCEPT ![who] = Rest] /\ UNCHANGED current
  /\ \/ Called(who, "run") /\ Run
     \/ Called(who, "pause") /\ Pause
     \/ Called(who, "resume") /\ Resume

Change(who) == ListCall(who) \/ SetUri(who) \/ Reset(who) \/ Finish(who)

-----------------------------------------------------------------------------
(* What makes the two tasks call                                           *)

\* The keys PLAY, the previous song, and SET, the next one.
PressSong ==
  /\ Idle("key") /\ \E skip \in {"prev", "next"} : Calls("key", skip)
  /\ Stop
  /\ raced' = ~Idle("loop")
  /\ UNCHANGED <<current, volume>>

\* The key MODE: what it does depends on the state the element had.
PressMode ==
  /\ Idle("key")
  /\ \/ element = "init" /\ Calls("key", "run")
     \/ element = "running" /\ Calls("key", "pause")
     \/ element = "paused" /\ Calls("key", "resume")
  /\ raced' = (raced \/ ~Idle("loop"))
  /\ UNCHANGED <<current, audio, volume>>

\* Mutant of Louder: no limit.
LouderUnlimited == volume + 10

Louder == IF volume + 10 > 100 THEN 100 ELSE volume + 10
Softer == IF volume - 10 < 0 THEN 0 ELSE volume - 10

PressVolume ==
  /\ Idle("key") /\ volume' \in {Louder, Softer}
  /\ UNCHANGED <<at, current, audio, raced>>

\* The loop takes a report, but the state it asks for is that of now.
Report ==
  /\ Idle("loop") /\ reports > 0 /\ reports' = reports - 1
  /\ \/ element = "finished" /\ Calls("loop", "next") /\ raced' = ~Idle("key")
     \/ element # "finished" /\ UNCHANGED <<at, raced>>
  /\ UNCHANGED <<current, uri, playing, pipeline, element, volume>>

-----------------------------------------------------------------------------
Loop == Report \/ Change("loop")
Next == SongEnds \/ PressSong \/ PressMode \/ PressVolume \/ Change("key") \/ Loop

\* Both tasks run; nothing is said of the keys and of the length of a song.
Spec == Init /\ [][Next]_vars /\ WF_vars(Loop) /\ WF_vars(Change("key"))

-----------------------------------------------------------------------------
(* What holds                                                              *)

\* The variables are in their types, the volume within 0 to 100.
TypeOK ==
  /\ at \in [{"key", "loop"} ->
       [call : {"none", "prev", "next", "set_uri", "reset", "run", "pause", "resume"},
        url : 0 .. Songs - 1]]
  /\ {current, uri, playing} \subseteq 0 .. Songs - 1
  /\ pipeline \in {"init", "running", "paused"}
  /\ element \in {"init", "running", "paused", "finished", "stopped"}
  /\ reports \in 0 .. Pending /\ volume \in 0 .. 100 /\ raced \in BOOLEAN

\* What is heard is the song of the playlist, unless key and loop met at the
\* last change of the song; one change that is left alone mends what they did
\* (c_offline.c 59-103, 247-259).
NowPlaying ==
  Idle("key") /\ Idle("loop") /\ element = "running" /\ ~raced => playing = current

\* After the end of a song another one plays, if nobody presses a key, although
\* reports are lost and late ones find another state (c_offline.c 244-262).
MusicGoesOn ==
  element = "finished" ~> (element = "running" \/ ~Idle("key") \/ raced)
=============================================================================
