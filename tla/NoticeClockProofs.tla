-------------------------- MODULE NoticeClockProofs --------------------------
(***************************************************************************)
(* Whatever the calendar and the delays, as long as both announcements fit *)
(* into the minute: what is due is announced once, in its minute, and what *)
(* is not due is not announced unless a request touched it in its minute.  *)
(***************************************************************************)
EXTENDS NoticeClock, TLAPS

Setting == [status : BOOLEAN, hour : 0 .. Hours - 1, min : 0 .. Mins - 1]

HttpOK ==
  \/ http = NoPost
  \/ http \in [event : {"sleep"}, field : {"status"}, value : BOOLEAN]
  \/ http \in [event : Events, field : {"min"}, value : 0 .. Mins - 1]

TypeInv == TypeOK /\ HttpOK

SameMinute == timeinfo.hour = clock.hour /\ timeinfo.min = clock.min
Heard(e)   == due[e] = "yes" => rang[e] = 1
Testing(e) == notice.at \in {"hour", "min"} /\ notice.what = e

\* What is due is set for this minute, what is not due is not, and no handler is
\* about to change either.
SetForNow(e) == settings[e] = [status |-> TRUE, hour |-> clock.hour, min |-> clock.min]
DueIsSet ==
  \A e \in Events : due[e] # "unknown" =>
    http.event # e /\ (synced => (due[e] = "yes" <=> SetForNow(e)))

\* What is not due has not been announced.
NoFalseAlarm == \A e \in Events : due[e] = "no" => rang[e] = 0

\* The latest second at which a part of the announcements can end.
Latest ==
  IF notice.what = "alarm"
    THEN IF notice.at = "grace" THEN Grace ELSE Grace + Announce
    ELSE IF notice.at = "grace" THEN Grace + Announce + Grace
                                ELSE Grace + Announce + Grace + Announce

\* What notice can rely on at each point of its loop.
Loop ==
  /\ ~Ringing => notice.left = 0
  /\ notice.at = "poll" /\ (clock.sec > 0 \/ polled) => \A e \in Events : Heard(e)
  /\ Testing("alarm") => /\ timeinfo = clock
                         /\ clock.sec > 0 => \A e \in Events : Heard(e)
  /\ Testing("sleep") => /\ SameMinute /\ Heard("alarm")
                         /\ IF timeinfo.sec = 0
                              THEN rang["sleep"] = 0 /\ clock.sec <= Grace + Announce
                              ELSE Heard("sleep")
  /\ notice.at = "min" /\ due[notice.what] # "unknown"
       => /\ settings[notice.what].status
          /\ settings[notice.what].hour = timeinfo.hour
  /\ Ringing => /\ SameMinute /\ timeinfo.sec = 0
                /\ rang[notice.what] = 1 /\ Heard("alarm")
                /\ notice.what = "alarm" => rang["sleep"] = 0
                /\ Grace <= clock.sec + notice.left /\ clock.sec + notice.left <= Latest

NoticeInv ==
  /\ TypeInv
  /\ DueIsSet
  /\ RingsOnce
  /\ NoFalseAlarm
  /\ ~synced => notice = Poll /\ \A e \in Events : rang[e] = 0 /\ due[e] # "yes"
  /\ clock.sec = 0 /\ ~Ringing => \A e \in Events : rang[e] = 0
  /\ Loop

-----------------------------------------------------------------------------
(* Types                                                                   *)

LEMMA Constants ==
  /\ Hours \in Nat /\ Hours > 0 /\ Mins \in Nat /\ Mins > 0
  /\ Secs \in Nat /\ Grace \in Nat /\ Grace > 0 /\ Announce \in Nat
  /\ Grace + Announce + Grace + Announce < Secs
BY CalendarAssumption, DelayAssumption

\* The second after a time is a time of day, in the same minute or the next.
LEMMA Plus1Type ==
  ASSUME NEW c \in Time
  PROVE  /\ Plus1(c) \in Time
         /\ Plus1(c).sec # 0 => /\ Plus1(c).sec = c.sec + 1
                                /\ Plus1(c).hour = c.hour /\ Plus1(c).min = c.min
         /\ c.sec + 1 < Secs => Plus1(c).sec = c.sec + 1
<1>1. c.hour \in 0 .. Hours - 1 /\ c.min \in 0 .. Mins - 1 /\ c.sec \in 0 .. Secs - 1
  BY DEF Time
<1>2. CASE c.sec + 1 < Secs
  <2>1. Plus1(c) = [c EXCEPT !.sec = c.sec + 1]
    BY <1>2 DEF Plus1
  <2>2. QED BY <1>1, <1>2, <2>1, Constants DEF Time
<1>3. CASE ~(c.sec + 1 < Secs) /\ c.min + 1 < Mins
  <2>1. Plus1(c) = [c EXCEPT !.sec = 0, !.min = c.min + 1]
    BY <1>3 DEF Plus1
  <2>2. c = [hour |-> c.hour, min |-> c.min, sec |-> c.sec]
    BY DEF Time
  <2>3. Plus1(c) = [hour |-> c.hour, min |-> c.min + 1, sec |-> 0]
    BY <2>1, <2>2
  <2>4. QED BY <1>1, <1>3, <2>3, Constants DEF Time
<1>4. CASE ~(c.sec + 1 < Secs) /\ ~(c.min + 1 < Mins)
  <2>1. Plus1(c) = [hour |-> (c.hour + 1) % Hours, min |-> 0, sec |-> 0]
    BY <1>4 DEF Plus1
  <2>2. (c.hour + 1) % Hours \in 0 .. Hours - 1
    BY <1>1, Constants
  <2>3. QED BY <1>1, <1>4, <2>1, <2>2, Constants DEF Time
<1>5. QED BY <1>2, <1>3, <1>4

LEMMA InitHolds == Init => NoticeInv
<1>1. SUFFICES ASSUME Init PROVE NoticeInv
  OBVIOUS
<1>2. clock \in Time /\ clock.sec = 0
  BY <1>1 DEF Init
<1>3. Off \in Setting
  BY Constants DEF Off, Setting
<1>4. TypeInv
  <2>1. settings \in [Events -> Setting]
    BY <1>1, <1>3 DEF Init
  <2>2. due \in [Events -> {"yes", "no", "unknown"}] /\ rang \in [Events -> Nat]
    BY <1>1 DEF Init
  <2>3. notice \in [at : {"poll", "hour", "min", "grace", "announce"},
                    what : Events, left : 0 .. Grace + Announce]
    BY <1>1, Constants DEF Init, Poll, Events
  <2>4. QED BY <1>1, <1>2, <2>1, <2>2, <2>3 DEF Init, TypeInv, TypeOK, HttpOK, Setting
<1>5. /\ notice = Poll /\ notice.at = "poll" /\ notice.left = 0 /\ polled = FALSE
      /\ \A e \in Events : due[e] = "no" /\ rang[e] = 0
  BY <1>1 DEF Init, Poll
<1>6. DueIsSet
  <2>1. \A e \in Events : http.event # e /\ settings[e].status = FALSE
    BY <1>1 DEF Init, NoPost, Off, Events
  <2>2. QED BY <1>5, <2>1 DEF DueIsSet, SetForNow
<1>7. Loop
  BY <1>2, <1>5 DEF Loop, Ringing, Testing, Heard
<1>8. QED
  BY <1>4, <1>5, <1>6, <1>7 DEF NoticeInv, RingsOnce, NoFalseAlarm

-----------------------------------------------------------------------------
(* The web server                                                          *)

\* A request disturbs nothing but its own events, which are then not due.
LEMMA PostHolds ==
  ASSUME NoticeInv, NEW first \in [Events -> Setting], NEW then,
         Post(first, then), HttpOK'
  PROVE  NoticeInv'
<1>1. /\ settings' = first /\ http' = then
      /\ due' = [e \in Events |-> IF settings'[e] = settings[e] /\ e # then.event
                                   THEN due[e] ELSE "unknown"]
      /\ UNCHANGED <<clock, synced, mode, taskVars, rang>>
  BY DEF Post
<1>2. UNCHANGED <<clock, synced, mode, notice, timeinfo, polled, rang>>
  BY <1>1 DEF taskVars
<1>3. \A e \in Events : due'[e] # "unknown" =>
        due'[e] = due[e] /\ settings'[e] = settings[e] /\ http'.event # e
  BY <1>1
<1>4. TypeInv'
  <2>1. due' \in [Events -> {"yes", "no", "unknown"}]
    BY <1>1 DEF NoticeInv, TypeInv, TypeOK
  <2>2. QED BY <1>1, <1>2, <2>1 DEF NoticeInv, TypeInv, TypeOK, Setting
<1>5. DueIsSet'
  BY <1>2, <1>3 DEF NoticeInv, DueIsSet, SetForNow
<1>6. Loop'
  <2>1. notice.what \in Events
    BY DEF NoticeInv, TypeInv, TypeOK
  <2>2. QED
    BY <1>2, <1>3, <2>1
       DEF NoticeInv, Loop, Heard, Testing, Ringing, SameMinute, Latest, Events
<1>7. NoFalseAlarm'
  BY <1>2, <1>3 DEF NoticeInv, NoFalseAlarm
<1>8. QED
  BY <1>2, <1>3, <1>4, <1>5, <1>6, <1>7 DEF NoticeInv, RingsOnce, Ringing

LEMMA PostFinishHolds ==
  ASSUME NoticeInv, PostFinish
  PROVE  NoticeInv'
<1>1. /\ http # NoPost /\ http.event \in Events
      /\ UNCHANGED <<clock, synced, mode, notice, timeinfo, polled, due, rang>>
      /\ http' = NoPost
  BY DEF PostFinish, taskVars, NoticeInv, TypeInv, HttpOK, Events
<1>2. /\ settings \in [Events -> Setting]
      /\ settings' = [settings EXCEPT ![http.event] =
                        IF http.field = "status" THEN [@ EXCEPT !.status = http.value]
                                                 ELSE [@ EXCEPT !.min = http.value]]
  BY DEF PostFinish, NoticeInv, TypeInv, TypeOK, Setting
<1>3. settings' \in [Events -> Setting]
  <2>1. ASSUME NEW s \in Setting
        PROVE  (IF http.field = "status" THEN [s EXCEPT !.status = http.value]
                                         ELSE [s EXCEPT !.min = http.value]) \in Setting
    <3>1. CASE http.field = "status"
      <4>1. http.value \in BOOLEAN
        BY <1>1, <3>1 DEF NoticeInv, TypeInv, HttpOK
      <4>2. QED BY <2>1, <3>1, <4>1 DEF Setting
    <3>2. CASE http.field # "status"
      <4>1. http.value \in 0 .. Mins - 1
        BY <1>1, <3>2 DEF NoticeInv, TypeInv, HttpOK
      <4>2. QED BY <2>1, <3>2, <4>1 DEF Setting
    <3>3. QED BY <3>1, <3>2
  <2>2. QED BY <1>1, <1>2, <2>1
<1>4. \A e \in Events : due[e] # "unknown" => settings'[e] = settings[e]
  BY <1>1, <1>2 DEF NoticeInv, DueIsSet
<1>5. TypeInv'
  BY <1>1, <1>3 DEF NoticeInv, TypeInv, TypeOK, HttpOK, Setting
<1>6. DueIsSet'
  <2>1. \A e \in Events : http'.event # e
    BY <1>1 DEF NoPost, Events
  <2>2. QED BY <1>1, <1>4, <2>1 DEF NoticeInv, DueIsSet, SetForNow
<1>7. Loop'
  <2>1. notice.what \in Events
    BY DEF NoticeInv, TypeInv, TypeOK
  <2>2. QED
    BY <1>1, <1>4, <2>1 DEF NoticeInv, Loop, Heard, Testing, Ringing, SameMinute, Latest
<1>8. QED
  BY <1>1, <1>5, <1>6, <1>7 DEF NoticeInv, RingsOnce, NoFalseAlarm, Ringing

LEMMA WebServerHolds ==
  ASSUME NoticeInv, WebServer
  PROVE  NoticeInv'
<1>1. settings \in [Events -> Setting]
  BY DEF NoticeInv, TypeInv, TypeOK, Setting
<1>2. ASSUME NEW a \in BOOLEAN, NEW s \in BOOLEAN, PostCtrl(a, s)
      PROVE  NoticeInv'
  <2> DEFINE first == [settings EXCEPT !["alarm"].status = a]
             then  == [event |-> "sleep", field |-> "status", value |-> s]
  <2>1. first \in [Events -> Setting]
    BY <1>1 DEF Setting, Events
  <2>2. Post(first, then)
    BY <1>2 DEF PostCtrl
  <2>3. HttpOK'
    BY <2>2 DEF Post, HttpOK
  <2> HIDE DEF first, then
  <2>4. QED BY <2>1, <2>2, <2>3, PostHolds
<1>3. ASSUME NEW e \in Events, NEW h \in 0 .. Hours - 1, NEW m \in 0 .. Mins - 1,
             PostTime(e, h, m)
      PROVE  NoticeInv'
  <2> DEFINE first == [settings EXCEPT ![e].hour = h]
             then  == [event |-> e, field |-> "min", value |-> m]
  <2>1. first \in [Events -> Setting]
    BY <1>1 DEF Setting
  <2>2. Post(first, then)
    BY <1>3 DEF PostTime
  <2>3. HttpOK'
    BY <2>2 DEF Post, HttpOK
  <2> HIDE DEF first, then
  <2>4. QED BY <2>1, <2>2, <2>3, PostHolds
<1>4. QED BY <1>2, <1>3, PostFinishHolds DEF WebServer

-----------------------------------------------------------------------------
(* notice                                                                  *)

\* A step of notice moves the task alone, and may begin an announcement.
Turned ==
  /\ UNCHANGED <<clock, synced, mode, settings, http, timeinfo, polled, due>>
  /\ synced
  /\ notice' \in [at : {"poll", "hour", "min", "grace", "announce"},
                  what : Events, left : 0 .. Grace + Announce]
  /\ notice'.at = "poll" => notice' = Poll

\* The invariant but for the loop, when nothing new is announced.
LEMMA TurnedHolds ==
  ASSUME NoticeInv, Turned, UNCHANGED rang, Loop',
         clock.sec = 0 /\ ~Ringing' => \A e \in Events : rang[e] = 0
  PROVE  NoticeInv'
<1>1. TypeInv'
  BY DEF Turned, NoticeInv, TypeInv, TypeOK, HttpOK, Setting
<1>2. QED BY <1>1 DEF Turned, NoticeInv, DueIsSet, SetForNow, RingsOnce, NoFalseAlarm

\* Where the loop goes on after an event that is announced, or not due.
LEMMA AfterHolds ==
  ASSUME NoticeInv, Turned, UNCHANGED rang, notice.at # "poll",
         notice' = After(notice.what),
         SameMinute, Heard("alarm"),
         clock.sec = 0 => \A e \in Events : rang[e] = 0,
         notice.what = "sleep" => Heard("sleep"),
         notice.what = "alarm" =>
           IF timeinfo.sec = 0 THEN rang["sleep"] = 0 /\ clock.sec <= Grace + Announce
                               ELSE Heard("sleep")
  PROVE  NoticeInv'
<1>1. notice.what \in Events
  BY DEF NoticeInv, TypeInv, TypeOK
<1>2. CASE notice.what = "alarm"
  <2>1. notice' = [at |-> "hour", what |-> "sleep", left |-> 0]
    BY <1>2 DEF After
  <2>2. Loop'
    BY <1>2, <2>1 DEF Turned, Loop, Testing, Ringing, SameMinute, Heard
  <2>3. QED BY <2>1, <2>2, TurnedHolds
<1>3. CASE notice.what = "sleep"
  <2>1. notice' = Poll
    BY <1>3 DEF After
  <2>2. Loop'
    BY <1>3, <2>1 DEF Turned, Loop, Testing, Ringing, Heard, Poll, Events
  <2>3. QED BY <2>2, TurnedHolds
<1>4. QED BY <1>1, <1>2, <1>3 DEF Events

LEMMA ReadClockHolds ==
  ASSUME NoticeInv, ReadClock
  PROVE  NoticeInv'
<1>1. /\ notice.at = "poll" /\ notice.left = 0
      /\ timeinfo' = clock /\ polled' = TRUE
      /\ UNCHANGED <<clock, synced, mode, settings, http, due, rang>>
  BY DEF ReadClock, NoticeInv, Loop, Ringing
<1>2. notice' = IF synced THEN [at |-> "hour", what |-> "alarm", left |-> 0] ELSE Poll
  BY DEF ReadClock, Poll
<1>3. TypeInv'
  <2>1. notice' \in [at : {"poll", "hour", "min", "grace", "announce"},
                     what : Events, left : 0 .. Grace + Announce]
    BY <1>2, Constants DEF Poll, Events
  <2>2. QED BY <1>1, <2>1 DEF NoticeInv, TypeInv, TypeOK, HttpOK, Setting
<1>4. Loop'
  <2>1. CASE synced
    BY <1>1, <1>2, <2>1
       DEF NoticeInv, Loop, Testing, Ringing, Heard
  <2>2. CASE ~synced
    BY <1>1, <1>2, <2>2
       DEF NoticeInv, Loop, Testing, Ringing, Heard, Poll
  <2>3. QED BY <2>1, <2>2
<1>5. QED
  BY <1>1, <1>2, <1>3, <1>4
     DEF NoticeInv, DueIsSet, SetForNow, RingsOnce, NoFalseAlarm, Ringing, Poll

\* What notice has to know while it tests the event at hand.
LEMMA Tests ==
  ASSUME NoticeInv, notice.at \in {"hour", "min"}
  PROVE  /\ synced /\ SameMinute /\ notice.left = 0
         /\ notice.what = "alarm" => timeinfo = clock
         /\ notice.what = "sleep" => Heard("alarm")
         /\ clock.sec = 0 => \A e \in Events : rang[e] = 0
         /\ timeinfo.sec = 0 => rang[notice.what] = 0
         /\ timeinfo.sec # 0 => Heard(notice.what)
         /\ timeinfo.sec = 0 => rang["sleep"] = 0 /\ clock.sec <= Grace + Announce
         /\ timeinfo.sec # 0 => Heard("sleep")
<1>1. notice.what \in Events /\ clock.sec \in Nat
  BY Constants DEF NoticeInv, TypeInv, TypeOK, Time
<1>2. synced /\ notice.left = 0 /\ ~Ringing
  BY DEF NoticeInv, Poll, Loop, Ringing
<1>3. clock.sec = 0 => \A e \in Events : rang[e] = 0
  BY <1>2 DEF NoticeInv
<1>4. CASE notice.what = "alarm"
  <2>1. timeinfo = clock /\ (clock.sec > 0 => \A e \in Events : Heard(e))
    BY <1>4 DEF NoticeInv, Loop, Testing
  <2>2. QED BY <1>1, <1>2, <1>3, <1>4, <2>1, Constants DEF SameMinute, Events
<1>5. CASE notice.what = "sleep"
  BY <1>1, <1>2, <1>3, <1>5 DEF NoticeInv, Loop, Testing
<1>6. QED BY <1>1, <1>4, <1>5 DEF Events

\* An event that is due passes both tests in the second it is due in.
LEMMA DuePasses ==
  ASSUME NoticeInv, notice.at \in {"hour", "min"}, due[notice.what] = "yes"
  PROVE  /\ settings[notice.what].status /\ settings[notice.what].hour = timeinfo.hour
         /\ settings[notice.what].min = timeinfo.min
<1>1. notice.what \in Events /\ synced
  BY Tests DEF NoticeInv, TypeInv, TypeOK
<1>2. settings[notice.what] = [status |-> TRUE, hour |-> clock.hour, min |-> clock.min]
  BY <1>1 DEF NoticeInv, DueIsSet, SetForNow
<1>3. QED BY <1>2, Tests DEF SameMinute

\* An event that passes both tests undisturbed is due.
LEMMA PassesDue ==
  ASSUME NoticeInv, notice.at = "min", settings[notice.what].min = timeinfo.min
  PROVE  due[notice.what] # "no"
<1>1. SUFFICES ASSUME due[notice.what] = "no" PROVE FALSE
  OBVIOUS
<1>2. notice.what \in Events /\ settings[notice.what] \in Setting
  BY DEF NoticeInv, TypeInv, TypeOK, Setting
<1>3. settings[notice.what].status /\ settings[notice.what].hour = timeinfo.hour
  BY <1>1 DEF NoticeInv, Loop
<1>4. SetForNow(notice.what)
  BY <1>2, <1>3, Tests DEF SetForNow, Setting, SameMinute
<1>5. QED BY <1>1, <1>2, <1>4, Tests DEF NoticeInv, DueIsSet

\* The event at hand is not due any more: on to the next.
LEMMA FailHolds ==
  ASSUME NoticeInv, notice.at \in {"hour", "min"}, Turned, UNCHANGED rang,
         notice' = After(notice.what), Heard(notice.what)
  PROVE  NoticeInv'
<1>1. notice.what \in {"alarm", "sleep"}
  BY DEF NoticeInv, TypeInv, TypeOK, Events
<1>2. Heard("alarm")
  BY <1>1, Tests
<1>3. notice.what = "alarm" =>
        IF timeinfo.sec = 0 THEN rang["sleep"] = 0 /\ clock.sec <= Grace + Announce
                            ELSE Heard("sleep")
  BY Tests
<1>4. QED BY <1>1, <1>2, <1>3, Tests, AfterHolds

LEMMA AfterType ==
  ASSUME NEW e \in Events
  PROVE  /\ After(e) \in [at : {"poll", "hour", "min", "grace", "announce"},
                          what : Events, left : 0 .. Grace + Announce]
         /\ After(e).at = "poll" => After(e) = Poll
BY Constants DEF After, Poll, Events

LEMMA TestHourHolds ==
  ASSUME NoticeInv, TestHour
  PROVE  NoticeInv'
<1>1. /\ notice.at = "hour" /\ notice.what \in Events /\ synced
      /\ UNCHANGED <<clock, synced, mode, settings, http, timeinfo, polled, due, rang>>
  BY Tests DEF TestHour, NoticeInv, TypeInv, TypeOK
<1>2. CASE settings[notice.what].status /\ settings[notice.what].hour = timeinfo.hour
  <2>1. notice' = [notice EXCEPT !.at = "min"]
    BY <1>2 DEF TestHour
  <2>2. /\ notice'.at = "min" /\ notice'.what = notice.what /\ notice'.left = notice.left
        /\ notice' \in [at : {"poll", "hour", "min", "grace", "announce"},
                        what : Events, left : 0 .. Grace + Announce]
    BY <2>1 DEF NoticeInv, TypeInv, TypeOK
  <2>3. Turned
    BY <1>1, <2>2 DEF Turned
  <2>4. Loop'
    BY <1>1, <1>2, <2>2 DEF NoticeInv, Loop, Testing, Ringing, SameMinute, Heard
  <2>5. QED BY <1>1, <2>3, <2>4, TurnedHolds, Tests
<1>3. CASE ~(settings[notice.what].status /\ settings[notice.what].hour = timeinfo.hour)
  <2>1. notice' = After(notice.what)
    BY <1>3 DEF TestHour
  <2>2. Turned
    BY <1>1, <2>1, AfterType DEF Turned
  <2>3. Heard(notice.what)
    BY <1>1, <1>3, DuePasses DEF Heard
  <2>4. QED BY <1>1, <2>1, <2>2, <2>3, FailHolds
<1>4. QED BY <1>2, <1>3

LEMMA TestMinHolds ==
  ASSUME NoticeInv, TestMin
  PROVE  NoticeInv'
<1> DEFINE e == notice.what
<1>1. /\ notice.at = "min" /\ e \in Events /\ synced
      /\ UNCHANGED <<clock, synced, mode, settings, http, timeinfo, polled, due>>
  BY Tests DEF TestMin, NoticeInv, TypeInv, TypeOK
<1>2. CASE settings[e].min = timeinfo.min /\ timeinfo.sec = 0
  <2>1. /\ notice' = [at |-> "grace", what |-> e, left |-> Grace]
        /\ rang' = [rang EXCEPT ![e] = @ + 1]
    BY <1>2 DEF TestMin, Delay
  <2>2. rang \in [Events -> Nat] /\ rang[e] = 0 /\ rang["sleep"] = 0
    BY <1>1, <1>2, Tests DEF NoticeInv, TypeInv, TypeOK
  <2>3. /\ rang' \in [Events -> Nat] /\ rang'[e] = 1
        /\ \A f \in Events : f # e => rang'[f] = rang[f]
    BY <1>1, <2>1, <2>2
  <2>4. Heard("alarm")'
    <3>1. CASE e = "alarm"
      BY <2>3, <3>1 DEF Heard
    <3>2. CASE e # "alarm"
      BY <1>1, <2>3, <3>2, Tests DEF Heard, Events
    <3>3. QED BY <3>1, <3>2
  <2>5. e = "alarm" => rang'["sleep"] = 0
    BY <2>2, <2>3 DEF Events
  <2>6. clock.sec \in Nat /\ clock.sec <= Grace + Announce /\ (e = "alarm" => clock.sec = 0)
    BY <1>1, <1>2, Tests, Constants DEF NoticeInv, TypeInv, TypeOK, Time
  <2>7. Loop'
    <3>1. Ringing' /\ notice'.at = "grace" /\ notice'.what = e /\ notice'.left = Grace
      BY <2>1 DEF Ringing
    <3>2. SameMinute'
      BY <1>1, Tests DEF SameMinute
    <3>3. clock'.sec + notice'.left <= Latest'
      BY <1>1, <2>6, <3>1, Constants DEF Latest
    <3>4. Grace <= clock'.sec + notice'.left
      BY <1>1, <2>6, <3>1, Constants
    <3>5. QED
      BY <1>1, <1>2, <2>3, <2>4, <2>5, <3>1, <3>2, <3>3, <3>4 DEF Loop, Testing
  <2>8. TypeInv'
    <3>1. notice' \in [at : {"poll", "hour", "min", "grace", "announce"},
                       what : Events, left : 0 .. Grace + Announce]
      BY <1>1, <2>1, Constants
    <3>2. QED BY <1>1, <2>3, <3>1 DEF NoticeInv, TypeInv, TypeOK, HttpOK, Setting
  <2>9. RingsOnce'
    BY <2>3 DEF NoticeInv, RingsOnce
  <2>10. NoFalseAlarm'
    BY <1>1, <1>2, <2>3, PassesDue DEF NoticeInv, NoFalseAlarm
  <2>11. QED
    BY <1>1, <2>1, <2>7, <2>8, <2>9, <2>10 DEF NoticeInv, DueIsSet, SetForNow, Ringing
<1>3. CASE ~(settings[e].min = timeinfo.min /\ timeinfo.sec = 0)
  <2>1. notice' = After(e) /\ UNCHANGED rang
    BY <1>3 DEF TestMin
  <2>2. Turned
    BY <1>1, <2>1, AfterType DEF Turned
  <2>3. Heard(e)
    BY <1>1, <1>3, DuePasses, Tests DEF Heard
  <2>4. QED BY <1>1, <2>1, <2>2, <2>3, FailHolds
<1>4. QED BY <1>2, <1>3

\* At the end of an announcement it is later than the second it was due in.
LEMMA RungHolds ==
  ASSUME NoticeInv, Ringing, notice.left = 0, Turned, UNCHANGED rang,
         notice' = After(notice.what)
  PROVE  NoticeInv'
<1>1. notice.what \in {"alarm", "sleep"} /\ notice.at # "poll" /\ clock.sec \in Nat
  BY Constants DEF NoticeInv, TypeInv, TypeOK, Time, Events, Ringing
<1>2. /\ SameMinute /\ timeinfo.sec = 0 /\ rang[notice.what] = 1 /\ Heard("alarm")
      /\ notice.what = "alarm" => rang["sleep"] = 0
      /\ Grace <= clock.sec + notice.left /\ clock.sec + notice.left <= Latest
  BY DEF NoticeInv, Loop
<1>3. clock.sec > 0 /\ (notice.what = "alarm" => clock.sec <= Grace + Announce)
  BY <1>1, <1>2, Constants DEF Latest
<1>4. notice.what = "sleep" => Heard("sleep")
  BY <1>2 DEF Heard
<1>5. QED BY <1>1, <1>2, <1>3, <1>4, AfterHolds

LEMMA GraceOverHolds ==
  ASSUME NoticeInv, GraceOver
  PROVE  NoticeInv'
<1>1. /\ notice.at = "grace" /\ notice.left = 0 /\ Ringing /\ notice.what \in Events
      /\ UNCHANGED <<clock, synced, mode, settings, http, timeinfo, polled, due, rang>>
  BY DEF GraceOver, NoticeInv, TypeInv, TypeOK, Ringing
<1>2. synced
  BY <1>1 DEF NoticeInv, Poll
<1>3. CASE notice' = After(notice.what)
  BY <1>1, <1>2, <1>3, AfterType, RungHolds DEF Turned
<1>4. ASSUME NEW n \in 0 .. Announce,
             notice' = [at |-> "announce", what |-> notice.what, left |-> n]
      PROVE  NoticeInv'
  <2>1. Turned
    BY <1>1, <1>2, <1>4, Constants DEF Turned
  <2>2. clock.sec \in Nat /\ clock.sec + n <= Latest'
    <3>1. clock.sec \in Nat /\ clock.sec <= Latest
      BY <1>1, Constants DEF NoticeInv, TypeInv, TypeOK, Time, Loop
    <3>2. QED BY <1>1, <1>4, <3>1, Constants DEF Latest
  <2>3. Grace <= clock.sec + n
    BY <1>1, <2>2, Constants DEF NoticeInv, TypeInv, TypeOK, Time, Loop
  <2>4. Loop'
    BY <1>1, <1>4, <2>2, <2>3 DEF NoticeInv, Loop, Testing, Ringing, SameMinute, Heard
  <2>5. QED BY <1>1, <1>4, <2>1, <2>4, TurnedHolds DEF Ringing
<1>5. QED BY <1>3, <1>4 DEF GraceOver

LEMMA AnnouncedHolds ==
  ASSUME NoticeInv, Announced
  PROVE  NoticeInv'
<1>1. /\ notice.at = "announce" /\ notice.left = 0 /\ Ringing /\ notice.what \in Events
      /\ notice' = After(notice.what)
      /\ UNCHANGED <<clock, synced, mode, settings, http, timeinfo, polled, due, rang>>
  BY DEF Announced, NoticeInv, TypeInv, TypeOK, Ringing
<1>2. synced
  BY <1>1 DEF NoticeInv, Poll
<1>3. QED BY <1>1, <1>2, AfterType, RungHolds DEF Turned

-----------------------------------------------------------------------------
(* Time                                                                    *)

\* Before the clock is set nothing has been announced and nothing is due.
LEMMA SyncHolds ==
  ASSUME NoticeInv, Sync
  PROVE  NoticeInv'
<1>1. /\ ~synced /\ synced' = TRUE /\ clock' \in Time /\ polled' = FALSE
      /\ due' = [e \in Events |-> "unknown"]
      /\ UNCHANGED <<mode, settings, http, notice, timeinfo, rang>>
  BY DEF Sync
<1>2. notice = Poll /\ \A e \in Events : rang[e] = 0
  BY <1>1 DEF NoticeInv
<1>3. TypeInv'
  BY <1>1 DEF NoticeInv, TypeInv, TypeOK, HttpOK, Setting
<1>4. Loop'
  BY <1>1, <1>2 DEF Poll, Loop, Testing, Ringing, Heard
<1>5. QED
  BY <1>1, <1>2, <1>3, <1>4 DEF NoticeInv, DueIsSet, RingsOnce, NoFalseAlarm

\* Both announcements end before the minute does.
LEMMA RingingTick ==
  ASSUME NoticeInv, Tick, Ringing
  PROVE  /\ clock'.sec = clock.sec + 1
         /\ clock'.hour = clock.hour /\ clock'.min = clock.min
<1>1. clock \in Time /\ clock.sec \in Nat /\ notice.left \in Nat
  BY Constants DEF NoticeInv, TypeInv, TypeOK, Time
<1>2. notice.left > 0
  BY DEF Tick, Ringing
<1>3. clock.sec + notice.left <= Latest
  BY DEF NoticeInv, Loop
<1>4. clock.sec + 1 < Secs
  BY <1>1, <1>2, <1>3, Constants DEF Latest
<1>5. QED BY <1>1, <1>4, Plus1Type DEF Tick

LEMMA TickHolds ==
  ASSUME NoticeInv, Tick
  PROVE  NoticeInv'
<1>1. /\ clock' = Plus1(clock) /\ clock' \in Time /\ clock \in Time
      /\ clock.sec \in Nat /\ clock'.sec \in Nat
      /\ polled' = FALSE
      /\ UNCHANGED <<synced, mode, settings, http, timeinfo>>
  <2>1. clock \in Time
    BY DEF NoticeInv, TypeInv, TypeOK
  <2>2. QED BY <2>1, Plus1Type, Constants DEF Tick, Time
<1>2. /\ notice \in [at : {"poll", "hour", "min", "grace", "announce"},
                     what : Events, left : 0 .. Grace + Announce]
      /\ notice.left \in Nat
      /\ notice' = [notice EXCEPT !.left = IF notice.left > 0 THEN notice.left - 1 ELSE 0]
  BY Constants DEF Tick, NoticeInv, TypeInv, TypeOK
<1>3. /\ notice'.at = notice.at /\ notice'.what = notice.what
      /\ notice'.left = IF notice.left > 0 THEN notice.left - 1 ELSE 0
      /\ notice' \in [at : {"poll", "hour", "min", "grace", "announce"},
                      what : Events, left : 0 .. Grace + Announce]
  BY <1>2, Constants
<1>4. (notice.at = "poll" /\ polled) \/ Ringing
  BY DEF Tick, NoticeInv, Loop, Ringing
<1>5. CASE clock'.sec = 0
  <2>1. /\ due' = [e \in Events |-> IF http.event = e THEN "unknown"
                                    ELSE IF IsSetTo(e, clock') THEN "yes" ELSE "no"]
        /\ rang' = [e \in Events |-> 0]
    BY <1>5 DEF Tick
  <2>2. ~Ringing /\ notice.at = "poll"
    BY <1>1, <1>4, <1>5, RingingTick
  <2>3. notice' = notice
    BY <1>2, <2>2 DEF NoticeInv, Loop
  <2>4. TypeInv'
    <3>1. due' \in [Events -> {"yes", "no", "unknown"}] /\ rang' \in [Events -> Nat]
      BY <2>1
    <3>2. QED BY <1>1, <1>3, <3>1 DEF NoticeInv, TypeInv, TypeOK, HttpOK, Setting
  <2>5. \A e \in Events :
          /\ rang'[e] = 0
          /\ due'[e] # "unknown" => http.event # e /\ (due'[e] = "yes" <=> IsSetTo(e, clock'))
    BY <2>1
  <2>6. DueIsSet'
    BY <1>1, <2>5 DEF DueIsSet, SetForNow, IsSetTo
  <2>7. Loop'
    BY <1>1, <1>5, <2>2, <2>3 DEF NoticeInv, Loop, Testing, Ringing
  <2>8. ~synced' => notice' = Poll /\ \A e \in Events : due'[e] # "yes"
    BY <1>1, <2>3, <2>5 DEF NoticeInv, IsSetTo
  <2>9. QED
    BY <2>4, <2>5, <2>6, <2>7, <2>8 DEF NoticeInv, RingsOnce, NoFalseAlarm
<1>6. CASE clock'.sec # 0
  <2>1. /\ UNCHANGED <<due, rang>>
        /\ clock'.sec = clock.sec + 1
        /\ clock'.hour = clock.hour /\ clock'.min = clock.min
    BY <1>1, <1>6, Plus1Type DEF Tick
  <2>2. TypeInv'
    BY <1>1, <1>3, <2>1 DEF NoticeInv, TypeInv, TypeOK, HttpOK, Setting
  <2>3. DueIsSet'
    BY <1>1, <2>1 DEF NoticeInv, DueIsSet, SetForNow
  <2>4. ~synced' => notice' = Poll /\ \A e \in Events : rang'[e] = 0 /\ due'[e] # "yes"
    <3>1. SUFFICES ASSUME ~synced PROVE notice' = Poll
      BY <1>1, <2>1 DEF NoticeInv
    <3>2. notice = Poll
      BY <3>1 DEF NoticeInv
    <3>3. QED BY <1>2, <3>2 DEF Poll
  <2>5. Loop'
    <3>1. CASE notice.at = "poll"
      BY <1>3, <2>1, <3>1, <1>4 DEF NoticeInv, Loop, Testing, Ringing, Heard
    <3>2. CASE Ringing
      <4>1. notice.left > 0 /\ notice'.left = notice.left - 1
        BY <1>2, <1>3, <3>2 DEF Tick, Ringing
      <4>2. Latest' = Latest
        BY <1>3 DEF Latest
      <4>3. Latest \in Nat
        BY Constants DEF Latest
      <4>4. clock'.sec + notice'.left = clock.sec + notice.left
        BY <1>1, <1>2, <2>1, <4>1
      <4>5. Grace <= clock.sec + notice.left /\ clock.sec + notice.left <= Latest
        BY <3>2 DEF NoticeInv, Loop
      <4>6. QED
        BY <1>1, <1>3, <2>1, <3>2, <4>2, <4>4, <4>5
           DEF NoticeInv, Loop, Testing, Ringing, SameMinute, Heard
    <3>3. QED BY <1>4, <3>1, <3>2
  <2>6. QED
    BY <1>6, <2>1, <2>2, <2>3, <2>4, <2>5 DEF NoticeInv, RingsOnce, NoFalseAlarm
<1>7. QED BY <1>5, <1>6

-----------------------------------------------------------------------------
(* The theorems                                                            *)

\* The inductive invariant: at each point of its loop, what notice knows of the
\* events it has passed and how late it can be (the while loop of notice).
THEOREM NoticeInvariant == Spec => []NoticeInv
<1>1. NoticeInv /\ [Next]_vars => NoticeInv'
  <2>1. SUFFICES ASSUME NoticeInv, [Next]_vars PROVE NoticeInv'
    OBVIOUS
  <2>2. CASE WebServer
    BY <2>1, <2>2, WebServerHolds
  <2>3. CASE Notice
    BY <2>1, <2>3, ReadClockHolds, TestHourHolds, TestMinHolds, GraceOverHolds,
       AnnouncedHolds DEF Notice
  <2>4. CASE Sync
    BY <2>1, <2>4, SyncHolds
  <2>5. CASE Tick
    BY <2>1, <2>5, TickHolds
  <2>6. CASE UNCHANGED vars
    BY <2>1, <2>6
       DEF vars, taskVars, NoticeInv, TypeInv, TypeOK, HttpOK, DueIsSet, SetForNow, RingsOnce,
           NoFalseAlarm, Ringing, Loop, Testing, SameMinute, Heard, Latest
  <2>7. QED BY <2>1, <2>2, <2>3, <2>4, <2>5, <2>6 DEF Next
<1>2. QED BY InitHolds, <1>1, PTL DEF Spec

\* The variables of the clock, the settings and the task stay in their types.
THEOREM TypeCorrect == Spec => []TypeOK
<1>1. NoticeInv => TypeOK
  BY DEF NoticeInv, TypeInv
<1>2. QED BY NoticeInvariant, <1>1, PTL

\* No second is announced twice, however often it is polled (c_clock_http.c).
THEOREM AnnouncedOnce == Spec => []RingsOnce
<1>1. NoticeInv => RingsOnce
  BY DEF NoticeInv
<1>2. QED BY NoticeInvariant, <1>1, PTL

\* What is due and left alone has been announced when notice polls again, also
\* the bed time of the minute of the alarm; what is announced though it was not
\* set was touched by a request in that minute, or the clock was first set in it
\* (esp_set_handler and set_time against the tests of notice).
THEOREM AnnouncedAsSet == Spec => []RingsAsSet
<1>1. NoticeInv => RingsAsSet
  BY DEF NoticeInv, Loop, RingsAsSet, NoFalseAlarm, Heard
<1>2. QED BY NoticeInvariant, <1>1, PTL

\* An announcement ends in the minute it is made for, after all the delays.
THEOREM AnnouncedInTime == Spec => []RingsInItsMinute
<1>1. NoticeInv => RingsInItsMinute
  BY DEF NoticeInv, Loop, RingsInItsMinute, SameMinute
<1>2. QED BY NoticeInvariant, <1>1, PTL
=============================================================================
