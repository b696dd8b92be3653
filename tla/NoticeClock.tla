----------------------------- MODULE NoticeClock -----------------------------
(***************************************************************************)
(* The alarm and the bed time (main/c_clock_http.c): the task notice polls *)
(* the clock ten times a second and compares it with the settings that the *)
(* web server's handler writes one by one, without a lock.                 *)
(*                                                                         *)
(* A step of time is one second.  What notice does when something is due   *)
(* takes Grace seconds, and offline as long again as the announcement      *)
(* lasts, at most Announce seconds.                                        *)
(***************************************************************************)
EXTENDS Naturals

CONSTANTS
  Hours, Mins, Secs,  \* of a day (24), of an hour (60), of a minute (60)
  Grace,              \* delay between clearing the bit and announcing (5)
  Announce            \* longest announcement of offline_notice

ASSUME CalendarAssumption ==
  Hours \in Nat \ {0} /\ Mins \in Nat \ {0} /\ Secs \in Nat \ {0}
ASSUME DelayAssumption ==
  /\ Grace \in Nat \ {0} /\ Announce \in Nat
  /\ 2 * (Grace + Announce) < Secs

VARIABLES
  clock,     \* the time of day
  synced,    \* the year is 2016 or later
  mode,      \* "online" or "offline"
  settings,  \* event -> [status, hour, min], the static variables
  http,      \* the second write a POST handler still has to do
  notice,    \* [at, what, left]: where the task is, for which event
  timeinfo,  \* the time notice read last
  polled,    \* notice has polled in this second
  due,       \* ghost: event -> was it set for this minute as that began: "yes",
             \* "no", or "unknown", for a request or a new time came in between
  rang       \* ghost: event -> announcements begun in this minute

taskVars  == <<notice, timeinfo, polled>>
vars == <<clock, synced, mode, settings, http, taskVars, due, rang>>

Events == {"alarm", "sleep"}
Time   == [hour : 0 .. Hours - 1, min : 0 .. Mins - 1, sec : 0 .. Secs - 1]
Off    == [status |-> FALSE, hour |-> 0, min |-> 0]
NoPost == [event |-> "none"]
Poll   == [at |-> "poll", what |-> "alarm", left |-> 0]

Init ==
  /\ clock \in {c \in Time : c.sec = 0}
  /\ synced \in BOOLEAN
  /\ mode \in {"online", "offline"}
  /\ settings = [e \in Events |-> Off]
  /\ http = NoPost
  /\ notice = Poll
  /\ timeinfo = clock
  /\ polled = FALSE
  /\ due = [e \in Events |-> "no"]
  /\ rang = [e \in Events |-> 0]

-----------------------------------------------------------------------------
(* esp_set_handler: each request writes two of the variables, in order.    *)

\* The first write leaves the second, field of event e, to PostFinish.
Post(first, then) ==
  /\ http = NoPost
  /\ http' = then
  /\ settings' = first
  /\ due' = [e \in Events |-> IF settings'[e] = settings[e] /\ e # then.event
                               THEN due[e] ELSE "unknown"]
  /\ UNCHANGED <<clock, synced, mode, taskVars, rang>>

PostCtrl(a, s) ==
  Post([settings EXCEPT !["alarm"].status = a],
       [event |-> "sleep", field |-> "status", value |-> s])

PostTime(e, h, m) ==
  Post([settings EXCEPT ![e].hour = h],
       [event |-> e, field |-> "min", value |-> m])

PostFinish ==
  /\ http # NoPost
  /\ settings' = [settings EXCEPT ![http.event] =
                    IF http.field = "status" THEN [@ EXCEPT !.status = http.value]
                                             ELSE [@ EXCEPT !.min = http.value]]
  /\ http' = NoPost
  /\ UNCHANGED <<clock, synced, mode, taskVars, due, rang>>

WebServer ==
  \/ \E a, s \in BOOLEAN : PostCtrl(a, s)
  \/ \E e \in Events, h \in 0 .. Hours - 1, m \in 0 .. Mins - 1 : PostTime(e, h, m)
  \/ PostFinish

-----------------------------------------------------------------------------
(* notice                                                                  *)

ReadClock ==
  /\ notice.at = "poll"
  /\ timeinfo' = clock
  /\ polled' = TRUE
  /\ notice' = IF synced THEN [Poll EXCEPT !.at = "hour"] ELSE Poll
  /\ UNCHANGED <<clock, synced, mode, settings, http, due, rang>>

\* Mutant of After: the loop starts over after each event.
AfterStartsOver(e) == Poll

\* Both tests are made with the time read before the first.
After(e) == IF e = "alarm" THEN [at |-> "hour", what |-> "sleep", left |-> 0]
                           ELSE Poll

\* Mutant of TestHour: the hour is not looked at.
TestHourStatus ==
  LET e == notice.what IN
  /\ notice.at = "hour"
  /\ notice' = IF settings[e].status THEN [notice EXCEPT !.at = "min"] ELSE After(e)
  /\ UNCHANGED <<clock, synced, mode, settings, http, timeinfo, polled, due, rang>>

\* The status and the hour are read, and compared ...
TestHour ==
  LET e == notice.what IN
  /\ notice.at = "hour"
  /\ notice' = IF settings[e].status /\ settings[e].hour = timeinfo.hour
                 THEN [notice EXCEPT !.at = "min"] ELSE After(e)
  /\ UNCHANGED <<clock, synced, mode, settings, http, timeinfo, polled, due, rang>>

\* Mutant of Delay: the announcement follows at once.
NoDelay(e) == [at |-> "grace", what |-> e, left |-> 0]

Delay(e) == [at |-> "grace", what |-> e, left |-> Grace]

\* Mutant of TestMin: the second is not looked at.
TestMinAnySecond ==
  LET e == notice.what IN
  /\ notice.at = "min"
  /\ IF settings[e].min = timeinfo.min
       THEN /\ notice' = Delay(e)
            /\ rang' = [rang EXCEPT ![e] = @ + 1]
       ELSE notice' = After(e) /\ UNCHANGED rang
  /\ UNCHANGED <<clock, synced, mode, settings, http, timeinfo, polled, due>>

\* ... then the minute: another core may run the handler in between.
TestMin ==
  LET e == notice.what IN
  /\ notice.at = "min"
  /\ IF settings[e].min = timeinfo.min /\ timeinfo.sec = 0
       THEN /\ notice' = Delay(e)
            /\ rang' = [rang EXCEPT ![e] = @ + 1]
       ELSE notice' = After(e) /\ UNCHANGED rang
  /\ UNCHANGED <<clock, synced, mode, settings, http, timeinfo, polled, due>>

\* Online a player is created; offline_notice plays in this task.
GraceOver ==
  LET e == notice.what IN
  /\ notice.at = "grace"
  /\ notice.left = 0
  /\ \/ /\ mode = "online"
        /\ notice' = After(e)
     \/ /\ mode = "offline"
        /\ \E n \in 0 .. Announce :
             notice' = [at |-> "announce", what |-> e, left |-> n]
  /\ UNCHANGED <<clock, synced, mode, settings, http, timeinfo, polled, due, rang>>

\* Mutant of Announced: offline_notice never returns.
AnnouncedNever ==
  /\ notice.at = "announce"
  /\ notice.left = 0
  /\ UNCHANGED vars

Announced ==
  LET e == notice.what IN
  /\ notice.at = "announce"
  /\ notice.left = 0
  /\ notice' = After(e)
  /\ UNCHANGED <<clock, synced, mode, settings, http, timeinfo, polled, due, rang>>

Notice == ReadClock \/ TestHour \/ TestMin \/ GraceOver \/ Announced

-----------------------------------------------------------------------------
(* Time                                                                    *)

\* SNTP or POST /time sets a clock that still stood in 1970.
Sync ==
  /\ ~synced
  /\ synced' = TRUE
  /\ clock' \in Time
  /\ polled' = FALSE
  /\ due' = [e \in Events |-> "unknown"]
  /\ UNCHANGED <<mode, settings, http, notice, timeinfo, rang>>

\* Mutant of Plus1: the hour is not carried into the next day.
Plus1NoNewDay(c) ==
  IF c.sec + 1 < Secs THEN [c EXCEPT !.sec = @ + 1]
  ELSE IF c.min + 1 < Mins THEN [c EXCEPT !.sec = 0, !.min = @ + 1]
  ELSE [hour |-> c.hour + 1, min |-> 0, sec |-> 0]

Plus1(c) ==
  IF c.sec + 1 < Secs THEN [c EXCEPT !.sec = @ + 1]
  ELSE IF c.min + 1 < Mins THEN [c EXCEPT !.sec = 0, !.min = @ + 1]
  ELSE [hour |-> (c.hour + 1) % Hours, min |-> 0, sec |-> 0]

IsSetTo(e, c) ==
  synced /\ settings[e] = [status |-> TRUE, hour |-> c.hour, min |-> c.min]

\* A second is over: notice has polled in it, or sleeps, or announces.
Tick ==
  /\ (notice.at = "poll" /\ polled) \/ notice.left > 0
  /\ clock' = Plus1(clock)
  /\ polled' = FALSE
  /\ notice' = [notice EXCEPT !.left = IF @ > 0 THEN @ - 1 ELSE 0]
  /\ IF clock'.sec = 0
       THEN /\ due' = [e \in Events |-> IF http.event = e THEN "unknown"
                                        ELSE IF IsSetTo(e, clock') THEN "yes" ELSE "no"]
            /\ rang' = [e \in Events |-> 0]
       ELSE UNCHANGED <<due, rang>>
  /\ UNCHANGED <<synced, mode, settings, http, timeinfo>>

Next == WebServer \/ Notice \/ Sync \/ Tick

\* The tasks get the processor, and a handler that runs comes to its end.
\* Time passes however often the clock is polled in a second (hence strong
\* fairness: between two reads of the clock Tick is disabled).
Fairness == WF_vars(Notice) /\ WF_vars(PostFinish) /\ SF_vars(Tick)

Spec == Init /\ [][Next]_vars /\ Fairness

-----------------------------------------------------------------------------
Ringing == notice.at \in {"grace", "announce"}

\* Every variable holds a value of its kind.
TypeOK ==
  /\ clock \in Time /\ timeinfo \in Time
  /\ synced \in BOOLEAN /\ polled \in BOOLEAN
  /\ mode \in {"online", "offline"}
  /\ settings \in [Events -> [status : BOOLEAN, hour : 0 .. Hours - 1,
                              min : 0 .. Mins - 1]]
  /\ notice \in [at : {"poll", "hour", "min", "grace", "announce"},
                 what : Events, left : 0 .. Grace + Announce]
  /\ due \in [Events -> {"yes", "no", "unknown"}]
  /\ rang \in [Events -> Nat]

(***************************************************************************)
(* The alarm and the bed time are announced at most once in a minute,      *)
(* although the second they are due in is polled ten times.                *)
(***************************************************************************)
RingsOnce == \A e \in Events : rang[e] <= 1

(***************************************************************************)
(* What was set when its minute began, and was not changed since, has been *)
(* announced once when notice polls again: no second is missed, and the    *)
(* bed time of the same minute is not lost during the delay for the alarm. *)
(* What was not set is announced only if a request touched it in that very *)
(* minute, or the clock was first set in it: a setting that is read while  *)
(* a request is halfway through it may ring at a time nobody chose, but    *)
(* never in a later minute, whatever notice read before.                   *)
(***************************************************************************)
RingsAsSet ==
  \A e \in Events :
    /\ notice.at = "poll" /\ clock.sec > 0 /\ due[e] = "yes" => rang[e] = 1
    /\ due[e] = "no" => rang[e] = 0

(***************************************************************************)
(* An announcement belongs to the minute it is made in, though it is       *)
(* decided with a time read before the delays.                             *)
(***************************************************************************)
RingsInItsMinute ==
  Ringing => timeinfo.hour = clock.hour /\ timeinfo.min = clock.min

\* A setting that is left alone is announced every day.
RingsEveryDay ==
  \A e \in Events, h \in 0 .. Hours - 1, m \in 0 .. Mins - 1 :
    <>[](synced /\ settings[e] = [status |-> TRUE, hour |-> h, min |-> m])
      => []<>(Ringing /\ notice.what = e)
=============================================================================
