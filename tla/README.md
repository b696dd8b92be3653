# Verification of the story teller

The repository is the firmware of a talking story teller on an ESP32 (LyraT
Mini, ESP-IDF 4.4 with ESP-ADF, two cores). Its own code is `src/main/`, about
2200 lines of C; the rest of `src/` is build configuration and build output.
There are no tests, and the documentation is one line. This directory holds
TLA+ models of the firmware's tasks, the configurations that TLC checks, and
proofs that TLAPS checks.

## 1. The system

At boot `app_main` reads the mode from flash, brings up WiFi and starts either

* the **online** mode: a wake word starts a recording, a speech service turns it
  into text, the text is a request for music or a question to a chat service,
  and the answer is spoken by a text-to-speech service; or
* the **offline** mode: songs from the SD card, controlled by keys.

In both modes a web server and a UDP responder let an app set an alarm and a
bed time, which the task `notice` announces.

| component | code | state | operations |
|---|---|---|---|
| voice capture | `c_vad.c` | `rec_q` (3), `voice_reading`, window of 12 chunks, receive timeout | events of the recorder engine; `voice_read_task`'s turn |
| conversation | `c_http.c` 40-224 | static response buffer, the two texts, tokens | speech and chat request, `response_handler`, `parse_response` |
| music lookup | `c_http.c` 226-386 | `music_id`, `music_url`, a static buffer | list, url |
| dialogue control | `c_http.c` 388-449 | `process_rec_q` (2), `TASK_RUN_BIT`, two task handles | `SPEECH_GET` (empty, music, question), `QIANFAN_GET` |
| players | `c_audio.c` | one pipeline each | set up, event loop, tear down |
| alarm and bed time | `c_clock_http.c` 221-282 | six settings, the time read | poll, test, delay, announce |
| web server, broadcast | `c_clock_http.c` 28-219 | the same settings; receive buffers | GET, four POSTs; UDP answer |
| offline player | `c_offline.c` | static pipeline handles, playlist, `OFFLINE_RUN_BIT` | keys, event loop, tear down |
| offline announcement | `c_notice.c` | static handles of its own | plays one sound |
| start up and mode | `main.c`, `c_init.c` | `system_mode` in RAM and flash | `nvs_init`, REC key, restart |
| WiFi, SmartConfig | `c_wifi_setting.c` | event group, retry counter, credentials in flash | boot wait, retries, SmartConfig |
| clock | `c_clock.c` | system time | SNTP |

How they interact. The recorder engine calls `rec_engine_cb` in its own task,
which sends to `voice_read_task`; that posts the audio and, from inside the
HTTP client's callback, sends `SPEECH_GET` to `process_task`; that asks the
chat service, whose response sends `QIANFAN_GET` to the same queue. Players are
tasks of their own that nobody joins: `process_task` and `notice` stop them by
clearing an event bit and waiting five seconds. Offline, `notice` does the same
to `offline_control`. The settings are plain variables written by the server's
task and read by `notice` and by the broadcast task.

What is hard. No lock is used anywhere. Flags are tested and acted on later;
queue sends never wait; the results of `xTaskCreate`, of sends and of flash
writes are ignored; stopping rests on a delay; buffers are static and shared by
tasks; handlers outlive what they use. `PROJECT.json` lists these hazards at
their lines, each with the properties that cover it or the reason why none does.

What makes each component correct:

* voice capture: no audio is posted twice or after a wake word cancelled it; the
  task neither spins nor stalls; a stop ends the recording;
* dialogue control and players: when silence is needed there is silence; the
  task never blocks itself; if nobody interrupts there is one voice;
* alarm and bed time: announced once, in its minute, every day, both of them, and
  at no time nobody has just touched;
* offline player and announcement: the sound hardware has one user at a time,
  and the player comes back to its keys;
* conversation and music: a response is parsed as it was sent, and answers its
  own question; an answer is spoken or knowingly dropped;
* web server and broadcast: what got an "OK", and fits, is in force; memory is
  given back; a broken client does not keep the server; a request is answered;
* offline player: what plays is what the playlist says, and after a song comes
  another;
* start up: the mode after a restart is the one chosen; credentials belong
  together; the boot ends; an event group is used only while it exists.

## 2. The modules

`X.tla` is a component, `XProofs.tla` its theorems, `MCX.tla` with `MCX*.cfg` an
instance for TLC. Definitions called "Mutant of D" describe a plausible mistake
in D; each shows that some property notices it, and no specification uses them.

### VoiceCapture (`c_vad.c`)

The callback's test of the flag and its send are two steps (`WakeupStart`,
`VadStart`, `VadEnd` decide, `SendPending` sends), so the task may run between
them; the engine's task runs one callback at a time, so nothing else of the
callback does. `pc` follows the task through its loop: `receive`, `dispatch`
(the switch), `posting` (inside `create_speech_request`), `fill` (the test after
the switch), `read` (inside the loop over the chunks). `delay` is the receive
timeout. Audio is abstracted to its fate: each chunk is zero, live, posted or
cancelled. `REC_STOP` when nothing is being recorded, which a crossed message
causes, is part of the model, as are lost messages and failed reads.

### Playback (`c_http.c` 388-443, `c_audio.c`, `c_clock_http.c` 246-253 and 268-276)

`run` is `TASK_RUN_BIT`, `handle` says which of the two task handles are not
NULL, `process` and `notice` where the two tasks are. A player is a slot: `setup`
(up to the first read of the bit), `playing` (its event loop), `stopping` (tear
down), `gone`. `Slots` is the memory: `CreatePlayer` fails when there is none,
as `xTaskCreate` does. The test of a handle, the clearing of the bit, the delay,
the setting of the bit and the creation are separate steps in the code's order,
with a single exception: the test and the clearing are one step. What the text
says is a free choice between empty, music and question.

Time is discrete. `left` is the time until a player has to do its next step,
or until a task's delay is over; `Tick` passes time when nobody is late.
`silence`, a history variable, is the time since the bit was last cleared. No
tick falls between the setting of the bit and the `xTaskCreate` of the next line
(`Creating`), an assumption about two adjacent calls.

### Conversation (`c_http.c` 40-443, `c_audio.c` 129-137)

The other half of the dialogue: what is asked, answered and said, while
Playback says when there is sound. `data` and `data_len` are the static variables
of the two handlers, `call` the request each task may have under way, and a
response arrives in `Parts` pieces, each marked with the request it belongs to.
An invocation of a handler is two steps, `Enter` and the step that does its
work, so that both tasks can be inside the same handler; that is a data race,
`undefined` records it, and nothing is promised afterwards. The requests of
both tasks may overlap without it, and then their pieces mix in one buffer.
`StoreFails` is a failed realloc, `BreakOff` a request that ends without
`HTTP_EVENT_ON_FINISH`, `Junk` the bytes in front of a piece that was stored at an
old `data_len`. cJSON_Parse is modelled by what it does: it reads the first whole
value in the buffer and ignores what follows. `calm` says that nobody spoke and
nothing rang before the last was done; `wish` is the utterance that asked for
the song, as long as its two lookups bring one; the others are counters.

### NoticeClock (`c_clock_http.c`)

One `Tick` is one second. `notice` polls any number of times in a second and at
least once (the code polls ten times: `polled` is what makes sure of one).
Reading the clock, testing status and hour, and testing minute and second are
separate steps, and each POST handler writes its two variables in two steps, so
that one may see half of the other's work. After an event is due the task waits
`Grace` seconds and, offline, announces for up to `Announce` seconds, and then
goes on with the next test and the *old* time (`After`). `due` and `rang` are
history variables: whether an event was set for this minute as it began ("yes",
"no", and "unknown" once a request or a new time has disturbed it), and how often
it has been announced in this minute.

### Codec and OfflineHandover (`c_offline.c`, `c_notice.c`, `main.c`)

`Codec` is the abstract specification: the sound hardware is taken and released
by one user at a time. `OfflineHandover` is what the code does: `offline_control`
goes through `setup`, `loop` and `stop`, and a turn of its loop may end with
`continue` and so skip the test of `OFFLINE_RUN_BIT`, at most `Continues` times in
a row (music info, then a status). `notice` clears the bit, waits, announces in
its own task, sets the bit and creates `offline_control` anew. The new task runs no
pipeline: it is silent until a key starts a song, and what `ControlReturns` brings
back is the loop that hears the keys. The refinement
mapping is `Owner`: "notice" while it announces, "control" while a task of
`offline_control` is alive. Playback, when nobody speaks over the machine, implements
`Codec` as well, with the two kinds of player as its users: its mapping `Voice` is
the kind of the players that are alive ("both", which `Codec` does not have, if they
are not of one kind).

### HttpServer (`c_clock_http.c` 27-219)

`at` follows the server's one task through a POST: `recv`, `first` (cJSON_Parse
and the first of the two writes), `second`, `delay` (two seconds after `/time`),
`free`. A body is two items, each a number or a string, or does not parse, and `buf`
is what was received of it: each part is received to the start of the buffer, so that only a body that
came in one part is there. A body that is not there is answered with "OK", and
then a NULL pointer is used: `Crash`, a restart that loses the settings. So is an
allocation that fails, which nothing in the code tests. `heap` counts the blocks
that last: the copy of the url and the text of each answer. The responder's
buffer is a sequence of bytes up to the first 0, and `Received` puts a datagram
over its start. NoticeClock sees the same two writes from the side of `notice`.

A setting is a `char` (unsigned on this processor) and is assigned from an item's
`valueint`: `Stored` is what remains of it, 44 of 300 and 0 of a string, while the
"OK" has long been sent. `confirmed` has the items as they were sent, so that
`OkMeansSet` compares what was asked for with what is in force, and promises it only
where the conversion keeps it (`Fits`). An item that is there and neither a
number nor a string, and numbers beyond an `int`, are left out.

`confirmed`, `lost`, `last` and `longest` are history variables. Not modelled: a
request with a query string, which the handlers would answer with "OK" and
ignore; datagrams with a byte 0.

### WifiStation and Startup (`c_wifi_setting.c`, `c_init.c`, `main.c`, the REC key of `c_offline.c`)

What a restart loses is one record, `ram`, whose value at power-on is `PowerOn`;
`flash` is what it keeps. WifiStation has the steps of the driver, of the event
loop's task, of `wifi_init` and of SmartConfig; Startup adds the boot around
them, the keys and the restarts, and puts all together.

The driver posts events and the task of the default event loop calls the
handlers, one event at a time (`Dispatch`). Storing the credentials takes that
task three steps more (`StoreName`, `StorePassword`, `Reconnect`), between which
the power may fail. `nvs_set_sta` gives up only if it cannot open NVS; an error of
either string it ignores, and stores the password though it could not store the
name. `torn` says that a half of the last credentials was not stored, for an error
or a power cut. `Reconnect` begins with esp_wifi_disconnect, whose error is a panic
when a second press of MODE has stopped the driver. Unregistering a handler waits for the handlers, as it does in
esp_event. `group` is the handle `s_wifi_event_group`, `bits` and `alive` the groups
it has pointed to: each press of the MODE key makes a new one, and whoever
waits keeps waiting for the old. `misuse` records the use of a deleted group,
and `main = "panic"` a failed ESP_ERROR_CHECK; of both only the end, a restart, is
modelled. `Fails` is an error of NVS, `misread` that there was one in this boot.

Assumed of the libraries: nvs_set writes at once and completely; without a name
esp_wifi_connect returns an error; an association brings an address or breaks
(a lease that never comes would keep `wifi_init` waiting for ever, in the code as
well). The access point of the offline mode has no states. From the keys on, the
rest of the online start up is one step.

### OfflinePlayer (`c_offline.c` 31-127 and 220-266)

`at` says for each of the two tasks, "key" and "loop", which call on playlist and
pipeline it makes next. The pipeline's own state, which `audio_pipeline_run`
tests, and the state of its last element, which the code asks for, are two
variables, because the code resets the second one only on one of its two paths.
`playing` is the song the pipeline was last run with. A full event queue loses
reports, and a late report finds the state of now. `raced`, a history variable,
says that the last change of the song met the other task. Set up and tear down
around it are OfflineHandover's.

## 3. What TLC checks

| run | instance | shows |
|---|---|---|
| `capture` | queue of 3, window of 3 chunks | `PostsOnlyFreshAudio`, `DelayFollowsReading`; `RecordingEnds` and `QueueDrains` under fairness |
| `playback` | 2 slots, ReadGap 1, StopTime 1, Grace 3 | `GraceMeansSilence`, `ClearBitStopsSound`; `ProcessReturns`, `ClearLeadsToSilence` |
| `playback_patient` | 3 slots, nobody interrupts | `OneVoiceOnceBothPlayed`, `KindsTakeTurns` (Codec) |
| `notice_clock` | day of 2 hours of 2 minutes of 5 seconds | `RingsOnce`, `RingsAsSet`, `RingsInItsMinute` |
| `notice_daily` | day of 2 hours of 1 minute of 5 seconds | `RingsEveryDay` |
| `conversation` | 3 utterances, responses of 2 pieces, queue of 2 | `BufferHeals`, `SpoilsAtMostOne`, `SaidInOrder`, `PlaysTheSong` |
| `handover` | 2 slots, SetupTime 4, 3 turns of 2, StopTime 3, Grace 10 | `OneControl`, `HardwareHasOneUser` (Codec), `ControlReturns` |
| `http_server` | 1 and 300 as items, bodies of 2 bytes, 2 blocks of memory, 4 datagrams | `OkMeansSet`, `HeapLedger`, `RequestAnswered`; `ServerReturns` |
| `startup` | 1 retry, 2 networks, 1 trouble, 2 presses of MODE | `PressDecides`, `GroupAlive`, `CredentialsBelong`, `WaitHasCause`; `BootEnds` |
| `offline_player` | 3 songs, volume 55, 2 reports | `NowPlaying`; `MusicGoesOn` |
| `first_run` | as `startup` | `FirstRunIsOffline` is violated |
| `broadcast` | as `http_server` | `RequestsAnswered` is violated |

The first ten pass; all of them but `playback_patient` and `notice_daily` check a
type invariant as well.

The bounds. Three chunks let a read fail at the first, a middle and the last
chunk; the queue is the code's. Two slots are two players at once, and a third
creation fails. In the patient run two players overlap while only one kind has
been started, which the property allows; the third slot leaves room for one
more that it forbids. Grace is the smallest value that the assumption
`ReadGap + StopTime < Grace` admits (10 for 6 + 3 in `handover`), so that a tick
more anywhere breaks the property. A small day keeps every carry of the clock,
and its five seconds are the fewest that hold two announcements of one second
after one second of delay (`2 * (Grace + Announce) < Secs`), the tightest case.
In `conversation` three utterances fill the queue of two while `process_task`
waits in its delay; two pieces have a first, a last and a gap between them. The
run stops at states in which two tasks were in one handler (`CONSTRAINT Defined`),
because nothing is promised there.

In `http_server` a body of two bytes comes in one part or in two, two blocks
let memory run out during a POST and between two, and the datagrams are the
request, a part of it, one of its length with the same end, and a longer one.
The items are a number that fits and one that does not, in every pair on all three
uris; a string, of which 0 remains as of 256, is left to the proof.
In `startup` a trouble is a lost connection, an error of NVS or a power cut; one
is enough for each of them at every point, and a restart by the REC key or a
panic is no trouble and may come as often as it likes. Two presses of MODE start
SmartConfig while it runs and after it has ended. The code has five retries, and
one has a first try, a last one and a failure. Deadlock is not checked in
`startup`: a boot whose NVS failed may have no name to connect to, and waits. In
`offline_player` three songs tell the one before from the one after, a queue of
two reports overflows, and 55 passes both limits in steps of ten.

Two runs show that the code does not do what it says. `first_run`: `nvs_init`
prints "Init offline mode!" and sets the mode to 0, which is online. `broadcast`:
"if broadcast request data is received, send the peer a unicast", but the buffer
is not cleared, and after a datagram longer than the request it never equals the
request again. `RequestAnswered` is what does hold.

What the runs found out about the code, beyond their properties:

* Two players do sound together, and for a long time: a second question asked
  while the first is being spoken does not clear the bit unless music has been
  played since boot, because the handle tested is the other kind's. This is why
  the one-voice property says "once both kinds were started". Music and speech, on
  the other hand, take turns from the beginning (`KindsTakeTurns`).
* An utterance while the machine is still busy can cost answers without any
  failure: two responses whose pieces mix are both lost, and a second question
  replaces the first, which is then never asked. `SpoilsAtMostOne` and
  `SaidInOrder` therefore speak of the case that nobody speaks over the
  machine. `BufferHeals` and `PlaysTheSong` do not need it.
* A request that breaks off spoils the next response as well: its pieces are
  still in the buffer in front of it. `SpoilsAtMostOne` says that it stops there.
* `GraceMeansSilence` says "if nobody set the bit in between" because `notice`
  and `process_task` do set it in each other's delays: one announcement can bring
  back the player the other wanted to silence.
* `GroupAlive` says "until SmartConfig has ended" because `smartconfig_task` deletes
  the group and leaves its handlers registered: the next lost connection uses it.
* `CredentialsBelong` excludes credentials of SmartConfig of which a power cut or an
  ignored error of `nvs_set_str` left one half: with them the machine starts with one
  network's name and another's password, and gives up after its retries (`BootEnds`).
  Half-written defaults it does not exclude: the next boot repairs them, because
  it looks for both.
* A request that sets an hour and a minute lets a time ring that nobody set, if it
  meets the test of `notice` in just that minute. `RingsAsSet` says that it takes this:
  without a request in the minute itself, or the first setting of the clock,
  nothing rings that was not set for it.
* After an announcement the offline player is silent until a key is pressed,
  whatever was playing before.
* "OK" is sent before the body is looked at: 300 is confirmed and becomes 44, and a
  string becomes 0. `OkMeansSet` is about the numbers that fit.
* `NowPlaying` excludes a key that meets the end of a song: then the playlist may
  have moved by two and the pipeline play either song. The next change that is
  left alone mends it.
* A body that arrives in two parts is answered with "OK" and restarts the machine,
  which loses all settings; `OkMeansSet` therefore starts anew with each restart.
* After the REC key, `notice` sees the new mode before the restart. If an
  announcement is due just then, it uses an event group that does not exist
  (`Panic`); the mode that comes up is the one asked for if it was already stored.

## 4. Fairness

`conversation`, `first_run` and `broadcast` check safety only. `capture`: the sending callback and the task get the processor, a blocking read
returns data or an error and the speech request returns (the HTTP client has a
timeout). The engine need not report anything. `playback`: `process_task`, `notice`
and the players' next steps, and time; nobody has to speak, nothing has to be
due, and a sound need not end by itself. `handover`: the same, and an
announcement comes to its end. `http_server`: the server's task, and a client
that sends its body or closes the connection; nobody has to send a request.
`startup`: `wifi_init`, the event loop and the driver's answer to a connection;
no key, no phone and no trouble has to come. `offline_player`: the loop and the
calls of a key once pressed; no key has to be pressed and no song has to end. In `NoticeClock` and `OfflineHandover` time is
strongly fair, because a task that acts again and again within one tick
disables `Tick` again and again without stopping the clock. FreeRTOS justifies
all this: the tasks have the priorities 4 and 5 on two cores, all of them
block in every turn, and the tick interrupt counts delays.

## 5. What TLAPS proves

For every length of the queues, any number of slots and any times that satisfy
the assumptions:

* `VoiceCaptureProofs`: `TypeCorrect`, `PostsFreshAudio`, `DelayCorrect`,
  `LastMessageObeyed`. The
  invariant `CaptureInv` adds where spent audio may be: nowhere, except between
  the end of a recording and the memset in the same turn, when the flag is off;
  and it ties `delay` to the flag at every step. `LastMessageObeyed` is inductive as it
  stands: a stop or a cancellation that was taken is never undone.
* `PlaybackProofs`: `TypeCorrect`, `GraceSuffices`, `SoundStops`, `OneVoice`,
  `PlaybackImplementsCodec`. No property is inductive: they speak of the state at the end of the delay. `PlaybackInv`
  adds, for every player while the bit is clear, that the time left to it and
  the time since the clearing add up to at most `ReadGap` (before it read the bit)
  or `ReadGap + StopTime` (after). `OneVoice` adds, when nobody speaks over the machine,
  that of `process_task` and `notice` one is busy with one message (`OneBusy`), and
  that whoever is about to create a player beside one of the other kind has cleared
  the bit and waited (`Quieted`). The refinement adds that a player that is alive
  has its kind's handle set (`SoundInv`): the test of the other kind's handle then
  misses no player, and each step leaves `Voice` alone, silences it, or gives it from
  "none" to the kind that is created.
* `OfflineHandoverProofs`: `TypeCorrect`, `OneControlAtMost` and
  `HandoverImplementsCodec`, the refinement: initial states map to initial states
  and each step maps to a step of `Codec` or a stutter. `HandoverInv` adds the
  same count-down, with a budget of `left + skips * TurnTime` for a loop that may
  skip its test, and what `notice` knows at each point: at the end of the delay
  `silence >= Grace`, so nobody is alive, and nobody is until it creates one.
* `HttpServerProofs`: `TypeCorrect`, `OkIsSet`, `LedgerBalances`, `AnswersRequests`,
  `StaysDeaf`.
  `OkMeansSet` speaks of the time between two requests; `InProgress` says for each
  point of a POST how what is set differs from what was confirmed, in particular
  that after the first write the second value alone is missing; both sides are
  compared through `Stored`, which is the identity on what `Fits`. `RequestAnswered`
  rests on `Residue`: the buffer is as long as the longest datagram, so a request
  that nothing longer came before leaves no tail behind it. `StaysDeaf` is the other
  half, an action property: after a longer one no request is answered until a
  restart. Together they say exactly when the responder answers.
* `OfflinePlayerProofs`: `TypeCorrect`, `PlaysTheList`, `EndsAreReported`,
  `LoopStartsTheNext`. `Sequenced` says, unless
  key and loop met, that one of them rests and what the other finds at each
  call: nothing sounds before the run, the url taken is the playlist's, and then
  the reader's. The last two are what `MusicGoesOn` needs of the single steps: a full
  queue loses reports, but never the last one that the end of a song needs, and before
  the loop's `audio_pipeline_run` the pipeline is reset, so it is not refused (`GoesOn`).
* `NoticeClockProofs`: `TypeCorrect`, `AnnouncedOnce`, `AnnouncedAsSet`,
  `AnnouncedInTime`, for any calendar. `DueIsSet` says that
  what no request has disturbed is due exactly if it is set for this minute, so what
  passes both tests undisturbed is due. `Loop` says for each point of the loop of
  `notice` which events it has passed, and how late it can be: during an
  announcement the second and the ticks left add up to at least `Grace`, so it
  does not come back in the second it started in, and to at most what both
  announcements take, so it comes back in the same minute.
* `ConversationProofs`: `TypeCorrect`, `BuffersHeal`, `PlaysTheWish`,
  `SpeaksInOrder`, `FailureSpoilsOne`. `HealInv` says whose a buffer is that is
  not empty; `SongInv` follows a lookup that no failure touched: the music handler
  has received the first pieces of this response and nothing else (`Received`), which
  needs that nobody but `process_task` uses it. The last two theorems are about a
  conversation in which nobody speaks over the machine. There one task or player
  has the turn (`BatonInv`), so one request is made at a time. `FreshInv`: whatever
  may still become an answer, in a buffer (also what a broken request left there), in
  a request, in the texts, is newer than all that was said. `DebtInv` keeps books: each handler
  whose buffer holds remains owes one response, and the responses lost and owed are
  at most the requests that failed; a request that has not failed and finds
  no remains receives its own pieces in order, so it is read.
* `StartupProofs`: `PressDecidesMode`, `OnlyTheKeyChangesMode`. `ModeInv` says that what is wanted is in flash
  or about to be stored, and that until the next restart the mode in flash is
  the one that runs, unless NVS failed. Of the memory four fields take part; the
  steps of the station are first reduced to what they do to these (`Station`).
  `TypeCorrect`, `GroupsStayAlive`: `Guarded` says who can use the event group, a
  registered handler, a `smartconfig_task` or the key about to register one, and that
  until SmartConfig has ended the group of the handle is alive for each of them.
  `CredentialsStayTogether`: `CredInv` says that the handler of SmartConfig, once
  called, has `wifi_init` behind it, that it stores the password of the name it has
  stored, and that, if no half of its last credentials is missing, half-stored ones
  can only be defaults.
  `OnlyTheKeyChangesMode` is an action property: outside the first run and an erasure
  only the REC key changes the mode in flash, and always to the one that does not run.
  `WaitsForSomething`: `WaitInv` says that up to the end of `wifi_init`'s wait only the
  handlers of the boot are registered, and that from the start of the driver on the
  cause of the wait is there: a connection that is being made, or an event in the
  queue. So no event is lost before its handler is there, and each one that is
  dispatched sets a bit or connects again; this is the safety half of `BootEnds`.

Assumptions. The queues have a length, times are natural numbers, and the
longest time without a test of the bit and the longest tear down fit together
into the delay of five seconds. The code does not enforce the last one: event
loops listen for 0.5 s and wait another 0.5 s, a tear down waits for the
elements to stop, and the set up of `offline_control` scans the card. It is the
contract on which the code rests, and it is stated as `TimingAssumption`; TLC
checks that the instances satisfy it. `HttpServerProofs` assumes that the request
is not empty and a body has a length, `OfflinePlayerProofs` that there is a song.

`NoticeClockProofs` assumes that both announcements with their delays fit into
one minute (`DelayAssumption`), which the length of the recorded sounds decides.

Only model-checked: the liveness properties, which are out of the prover's reach.
Of `RecordingEnds`, `BootEnds` and `MusicGoesOn` the safety half is proved
(`LastMessageObeyed`; `WaitsForSomething`; `EndsAreReported` and
`LoopStartsTheNext`): a stop is not undone, and at no point does somebody wait for
what cannot come. What is left to TLC there is that fair steps bring it. The two
runs that expect a violation have nothing to prove, but `StaysDeaf` proves how the
broadcast fails. The action properties `OnlyTheKeyStores`, `DeafUntilRestart` and
`NextSongStarts` and the invariants `EndIsReported` and `ObeysLastMessage` are
defined beside their theorems.

## 6. What is not modelled, and the plan

Every file of `src/main/` has a module, and each of the modules has a run. What
would come next:

1. An abstract specification for `Conversation`, in which a response is delivered
   as it was sent or dropped, and the refinement for requests that do not overlap.
2. Composition of `NoticeClock` with `Playback`: an alarm that is due is heard.
3. What is promised after SmartConfig has ended: the handle still names the
   deleted group then, so a promise needs a key that leaves it alone.

Not modelled:

* the event loop of `offline_notice` and what the elements of a pipeline do inside:
  whether a player without data reports an end, and what a writer that is never
  released keeps, is decided in the audio framework;
* set up and tear down of the offline player in detail: its keys are served
  before the pipeline exists and after it is gone, and such a key is undefined
  behaviour of which nothing can be promised;
* the lengths of the fixed buffers (`url` lengths, `ssid[20]`, `buf[128]`): data is
  abstract in all modules;
* the order of creation at boot inside the online branch of `app_main`: queues,
  tokens and recorder come up once, before anybody speaks;
* a clock that POST /time sets back: the comparison of times rings again by design.

Left out for good: configuration of drivers and codecs (`gpio_init`, `log_clear`,
the access point, the recorder's set up), JSON building, logging, the recorder's
signal processing (library code), TLS and tokens.
