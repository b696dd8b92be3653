--------------------------- MODULE OfflineHandover ---------------------------
(***************************************************************************)
(* Who uses the sound hardware in the offline mode.                        *)
(*                                                                         *)
(* The task offline_control (main/c_offline.c) plays the songs of the SD   *)
(* card.  When the alarm or the bed time is due, notice                    *)
(* (main/c_clock_http.c) clears OFFLINE_RUN_BIT, waits Grace, plays an     *)
(* announcement itself (offline_notice, main/c_notice.c), sets the bit and *)
(* creates offline_control anew.  Nothing but the wait keeps the two       *)
(* apart.  Time is counted in ticks.                                       *)
(***************************************************************************)
EXTENDS Naturals

CONSTANTS
  Slots,      \* offline_control tasks the heap has room for
  SetupTime,  \* longest set up of offline_control, scan of the card included
  TurnTime,   \* longest turn of its loop
  Continues,  \* turns in a row that may skip the test of the bit
  StopTime,   \* its longest tear down
  Grace       \* wait of notice (5 s)

\* The longest time in the loop between two reads of the bit.
ReadGap == (Continues + 1) * TurnTime

ASSUME TimingAssumption ==
  /\ SetupTime \in Nat \ {0} /\ TurnTime \in Nat \ {0} /\ Continues \in Nat
  /\ StopTime \in Nat \ {0} /\ Grace \in Nat
  /\ SetupTime + StopTime < Grace
  /\ ReadGap + StopTime < Grace

VARIABLES
  run,      \* OFFLINE_RUN_BIT of offline_event_group
  silence,  \* ghost: ticks since the bit was last cleared, at most Grace
  boot,     \* where app_main is
  notice,   \* [at, left]: where notice is, ticks left of its wait
  control   \* slot -> [at, left, skips]: the offline_control tasks

vars == <<run, silence, boot, notice, control>>

At(pc, n) == [at |-> pc, left |-> n]
Live(s)   == control[s].at # "gone"

\* A phase of offline_control; skips: turns that may still skip the test.
Phase(pc, n)  == [at |-> pc, left |-> n, skips |-> 0]
Turn(skips)   == [at |-> "loop", left |-> TurnTime, skips |-> skips]

Init ==
  /\ run = FALSE
  /\ silence = 0
  /\ boot = "setBit"
  /\ notice = At("poll", 0)
  /\ control = [s \in Slots |-> Phase("gone", 0)]

-----------------------------------------------------------------------------
\* xTaskCreate of offline_control, which may find no memory.
CreateControl ==
  \/ \E s \in Slots :
       /\ ~Live(s)
       /\ control' = [control EXCEPT ![s] = Phase("setup", SetupTime)]
  \/ /\ \A s \in Slots : Live(s)
     /\ UNCHANGED control

(* app_main, offline                                                       *)
BootSetBit ==
  /\ boot = "setBit"
  /\ run' = TRUE
  /\ boot' = "create"
  /\ UNCHANGED <<silence, notice, control>>

\* The task notice is created after offline_control.
BootCreate ==
  /\ boot = "create"
  /\ CreateControl
  /\ boot' = "done"
  /\ UNCHANGED <<run, silence, notice>>

-----------------------------------------------------------------------------
(* notice, offline                                                         *)

\* Mutant of NoticeDue: the bit is not cleared.
NoticeDueKeepsBit ==
  /\ boot = "done"
  /\ notice.at = "poll"
  /\ notice' = At("grace", Grace)
  /\ UNCHANGED <<run, silence, boot, control>>

\* Something is due.
NoticeDue ==
  /\ boot = "done"
  /\ notice.at = "poll"
  /\ run' = FALSE
  /\ silence' = 0
  /\ notice' = At("grace", Grace)
  /\ UNCHANGED <<boot, control>>

\* Mutant of Announce: the delay is left out.
AnnounceAtOnce ==
  /\ notice.at = "grace"
  /\ notice' = At("announce", 0)
  /\ UNCHANGED <<run, silence, boot, control>>

\* offline_notice takes the hardware ...
Announce ==
  /\ notice.at = "grace"
  /\ notice.left = 0
  /\ notice' = At("announce", 0)
  /\ UNCHANGED <<run, silence, boot, control>>

\* ... and returns when its sound is over and all is released.
Announced ==
  /\ notice.at = "announce"
  /\ notice' = At("setBit", 0)
  /\ UNCHANGED <<run, silence, boot, control>>

\* Mutant of NoticeSetBit: the bit stays clear.
NoticeSetBitForgotten ==
  /\ notice.at = "setBit"
  /\ notice' = At("create", 0)
  /\ UNCHANGED <<run, silence, boot, control>>

NoticeSetBit ==
  /\ notice.at = "setBit"
  /\ run' = TRUE
  /\ notice' = At("create", 0)
  /\ UNCHANGED <<silence, boot, control>>

NoticeCreate ==
  /\ notice.at = "create"
  /\ CreateControl
  /\ notice' = At("poll", 0)
  /\ UNCHANGED <<run, silence, boot>>

-----------------------------------------------------------------------------
(* offline_control                                                         *)

\* Mutant of ReadBit: a loop that tests the bit at its end only.
ReadBitLate(s) ==
  /\ control[s].at \in {"setup", "loop"}
  /\ control' = [control EXCEPT ![s] =
                   IF run \/ control[s].at = "setup" THEN Turn(Continues)
                                                     ELSE Phase("stop", StopTime)]
  /\ UNCHANGED <<run, silence, boot, notice>>

\* The test of the loop, after the set up and after a turn that ends with it.
ReadBit(s) ==
  /\ control[s].at \in {"setup", "loop"}
  /\ control' = [control EXCEPT ![s] = IF run THEN Turn(Continues)
                                              ELSE Phase("stop", StopTime)]
  /\ UNCHANGED <<run, silence, boot, notice>>

\* Mutant of Continue: any number of turns in a row skips the test.
ContinueForEver(s) ==
  /\ control[s].at = "loop"
  /\ control' = [control EXCEPT ![s] = Turn(control[s].skips - 1)]
  /\ UNCHANGED <<run, silence, boot, notice>>

\* A turn that ends with "continue" skips the test: a song has started, or
\* the last element reports a state (paused, resumed, finished: next song).
Continue(s) ==
  /\ control[s].at = "loop"
  /\ control[s].skips > 0
  /\ control' = [control EXCEPT ![s] = Turn(control[s].skips - 1)]
  /\ UNCHANGED <<run, silence, boot, notice>>

Stopped(s) ==
  /\ control[s].at = "stop"
  /\ control' = [control EXCEPT ![s] = Phase("gone", 0)]
  /\ UNCHANGED <<run, silence, boot, notice>>

-----------------------------------------------------------------------------
Less(n) == IF n > 0 THEN n - 1 ELSE 0

\* A tick passes unless a task is late.
Tick ==
  /\ boot = "done" /\ notice.at \notin {"setBit", "create"}
  /\ \A s \in Slots : Live(s) => control[s].left > 0
  /\ silence' = IF ~run /\ silence < Grace THEN silence + 1 ELSE silence
  /\ notice' = At(notice.at, Less(notice.left))
  /\ control' = [s \in Slots |->
                   [control[s] EXCEPT !.left = Less(control[s].left)]]
  /\ UNCHANGED <<run, boot>>

Boot         == BootSetBit \/ BootCreate
NoticeReturn == Announce \/ Announced \/ NoticeSetBit \/ NoticeCreate
Control(s)   == ReadBit(s) \/ Continue(s) \/ Stopped(s)

Next ==
  \/ Boot
  \/ NoticeDue \/ NoticeReturn
  \/ \E s \in Slots : Control(s)
  \/ Tick

\* Ready tasks run, an announcement comes to its end and time passes.
Fairness ==
  /\ WF_vars(Boot) /\ WF_vars(NoticeReturn) /\ SF_vars(Tick)
  /\ \A s \in Slots : WF_vars(Control(s))

Spec == Init /\ [][Next]_vars /\ Fairness

-----------------------------------------------------------------------------
Controls == [at : {"gone", "setup", "loop", "stop"}, left : Nat,
             skips : 0 .. Continues]

\* Every variable holds a value of its kind.
TypeOK ==
  /\ run \in BOOLEAN
  /\ silence \in 0 .. Grace
  /\ boot \in {"setBit", "create", "done"}
  /\ notice \in [at : {"poll", "grace", "announce", "setBit", "create"},
                 left : 0 .. Grace]
  /\ control \in [Slots -> Controls]

(***************************************************************************)
(* At most one offline_control is alive: the static handles of             *)
(* main/c_offline.c, which every instance overwrites, have one user.       *)
(***************************************************************************)
OneControl == \A s, t \in Slots : Live(s) /\ Live(t) => s = t

Owner ==
  IF notice.at = "announce" THEN "notice"
  ELSE IF \E s \in Slots : Live(s) THEN "control" ELSE "none"

(***************************************************************************)
(* The hardware has one user at a time, released before it is taken again: *)
(* offline_notice never starts over a player that is still tearing down,   *)
(* and offline_control never over an announcement.                         *)
(***************************************************************************)
Hardware == INSTANCE Codec WITH Owners <- {"control", "notice"}, owner <- Owner
HardwareHasOneUser == Hardware!Spec

\* After an announcement offline_control is back in its loop, where it hears its
\* keys, unless the next announcement is due: the bit is set before the new task
\* first tests it.  It is silent until a key starts a song, for nothing runs the
\* pipeline at set up (c_clock_http.c 261-268, c_offline.c 138-221).
ControlReturns ==
  notice.at = "announce" ~>
    (notice.at = "grace" \/ \E s \in Slots : control[s].at = "loop")
=============================================================================
