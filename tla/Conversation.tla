---------------------------- MODULE Conversation ----------------------------
(***************************************************************************)
(* From an utterance to an answer or a song (main/c_http.c, lines 40-443). *)
(*                                                                         *)
(* The requests to the services collect the body of a response in static   *)
(* variables of their event handler: one pair (data, data_len) for speech  *)
(* and chat, which voice_read_task and process_task use at the same time,  *)
(* and one for the music service.  The texts go to process_task and to the *)
(* players through global variables, the queue carries only their kind.    *)
(***************************************************************************)
EXTENDS Naturals, Sequences

CONSTANTS
  Utterances,  \* bound: how often somebody speaks
  Parts,       \* pieces (HTTP_EVENT_ON_DATA) a response arrives in
  QueueLen     \* length of process_rec_q (2 in process_task_start)

ASSUME BoundsAssumption ==
  Utterances \in Nat /\ Parts \in Nat \ {0} /\ QueueLen \in Nat \ {0}

VARIABLES
  data,       \* handler -> pieces in its buffer; <<>> is the NULL pointer
  data_len,   \* handler -> the length it believes the buffer has
  call,       \* task -> its request: [at, kind, id, part, failed]
  speech_message_content,   \* the utterance understood last; 0 is ""
  qianfan_message_content,  \* the utterance answered last, or Announcement
  music_id, music_url,      \* the song found last, the song whose url is known
  process_rec_q,
  process,    \* where process_task is
  tts,        \* players created that have not yet read their text
  spoken,     \* utterances so far
  announced,  \* bound: one announcement
  said,       \* ghost: what the players said
  calm,       \* ghost: nobody spoke, nothing rang, before the last was done
  undefined,  \* ghost: two tasks were in the handler at once
  dirty,      \* ghost: handler -> a failure left something in its buffer
  failures,   \* ghost: requests that failed
  lost,       \* ghost: requests that were answered in full, and not read
  wish        \* ghost: the utterance that wants a song; 0: a failure touched it

texts  == <<speech_message_content, qianfan_message_content, music_id, music_url>>
env    == <<spoken, announced>>
ghosts == <<said, calm, undefined, dirty, failures, lost, wish>>
vars == <<data, data_len, call, texts, process_rec_q, process, tts, env, ghosts>>

Tasks    == {"voice", "process"}
Handlers == {"response", "music"}
Kinds    == {"speech", "chat", "list", "url"}

\* The handler a request is made with: response_handler or the music one.
Handler(kind) == IF kind \in {"speech", "chat"} THEN "response" ELSE "music"

Announcement == Utterances + 1
NoCall == [at |-> "idle", kind |-> "speech", id |-> 0, part |-> 0, failed |-> FALSE]
Junk   == [kind |-> "junk", id |-> 0, part |-> 0]

Inside(t) == call[t].at \in {"data", "finish"}

Idle ==
  /\ \A t \in Tasks : call[t].at = "idle"
  /\ process = "receive" /\ process_rec_q = <<>> /\ tts = 0

Init ==
  /\ data = [h \in Handlers |-> <<>>]
  /\ data_len = [h \in Handlers |-> 0]
  /\ call = [t \in Tasks |-> NoCall]
  /\ speech_message_content = 0 /\ qianfan_message_content = 0
  /\ music_id = 0 /\ music_url = 0
  /\ process_rec_q = <<>>
  /\ process = "receive"
  /\ tts = 0 /\ spoken = 0 /\ announced = FALSE /\ said = <<>>
  /\ calm = TRUE /\ undefined = FALSE
  /\ dirty = [h \in Handlers |-> FALSE]
  /\ failures = 0 /\ lost = 0 /\ wish = 0

-----------------------------------------------------------------------------
(* A request, made by task t                                               *)

Request(t, kind, id) ==
  call' = [call EXCEPT ![t] = [NoCall EXCEPT !.at = "flight", !.kind = kind, !.id = id]]

\* The client calls the handler.  The variables are not locked.
Enter(t, event) ==
  /\ call[t].at = "flight"
  /\ call' = [call EXCEPT ![t].at = event]
  /\ undefined' = (undefined \/ \E u \in Tasks \ {t} :
                     Inside(u) /\ Handler(call[u].kind) = Handler(call[t].kind))
  /\ UNCHANGED <<data, data_len, texts, process_rec_q, process, tts, env,
                 said, calm, dirty, failures, lost, wish>>

\* A piece arrives.
OnData(t) == call[t].part < Parts /\ Enter(t, "data")

\* The response is over, or the connection was closed in the middle of it.
OnFinish(t) == Enter(t, "finish")

\* The buffer is enlarged, and the piece put where data_len says.  What was
\* never written before that place is whatever the heap held.
Store(t) ==
  LET h == Handler(call[t].kind)
      piece == [kind |-> call[t].kind, id |-> call[t].id, part |-> call[t].part + 1]
      old == IF data[h] = <<>> THEN [i \in 1 .. data_len[h] |-> Junk] ELSE data[h]
  IN /\ call[t].at = "data"
     /\ data' = [data EXCEPT ![h] = Append(old, piece)]
     /\ data_len' = [data_len EXCEPT ![h] = @ + 1]
     /\ call' = [call EXCEPT ![t].at = "flight", ![t].part = @ + 1]
     /\ UNCHANGED <<texts, process_rec_q, process, tts, env, ghosts>>

\* The lookup of a song, if t makes one, brings nothing.
NoSong(t) == wish' = IF Handler(call[t].kind) = "music" THEN 0 ELSE wish

\* A failure of the request of t, if it had none before.
Fail(t) ==
  /\ failures' = IF call[t].failed THEN failures ELSE failures + 1
  /\ NoSong(t)

\* realloc failed: the pointer is lost, the length stays.
StoreFails(t) ==
  LET h == Handler(call[t].kind) IN
  /\ call[t].at = "data"
  /\ data' = [data EXCEPT ![h] = <<>>]
  /\ call' = [call EXCEPT ![t].at = "flight", ![t].part = @ + 1, ![t].failed = TRUE]
  /\ Fail(t)
  /\ dirty' = [dirty EXCEPT ![h] = TRUE]
  /\ UNCHANGED <<data_len, texts, process_rec_q, process, tts, env,
                 said, calm, undefined, lost>>

\* The request ends without HTTP_EVENT_ON_FINISH: nothing is tidied up.
BreakOff(t) ==
  LET h == Handler(call[t].kind) IN
  /\ call[t].at = "flight"
  /\ call' = [call EXCEPT ![t] = NoCall]
  /\ Fail(t)
  /\ dirty' = [dirty EXCEPT ![h] = @ \/ data[h] # <<>>]
  /\ UNCHANGED <<data, data_len, texts, process_rec_q, process, tts, env,
                 said, calm, undefined, lost>>

-----------------------------------------------------------------------------
(* parse_response and parse_music_response                                 *)

\* Mutant of Send: the queue takes any number of messages.
SendUnbounded(m) == process_rec_q' = Append(process_rec_q, m)

\* xQueueSend without waiting.
Send(m) ==
  process_rec_q' = IF Len(process_rec_q) < QueueLen
                     THEN Append(process_rec_q, m) ELSE process_rec_q

\* cJSON_Parse reads one value and ignores what follows it.
Whole(s) ==
  /\ Len(s) >= Parts
  /\ \A i \in 1 .. Parts : s[i] = [s[1] EXCEPT !.part = i]
  /\ s[1].kind # "junk"

\* A response of the kind about id was parsed.  It holds a text, which is
\* stored and announced, or the id of a song, or its url ...
Understood(kind, id) ==
  \/ /\ kind = "speech"
     /\ speech_message_content' \in {id, 0}
     /\ Send("SPEECH_GET")
     /\ UNCHANGED <<qianfan_message_content, music_id, music_url>>
  \/ /\ kind = "chat"
     /\ qianfan_message_content' = id
     /\ Send("QIANFAN_GET")
     /\ UNCHANGED <<speech_message_content, music_id, music_url>>
  \/ /\ kind = "list"
     /\ music_id' = id
     /\ UNCHANGED <<process_rec_q, speech_message_content, qianfan_message_content,
                    music_url>>
  \/ /\ kind = "url"
     /\ music_url' = id
     /\ UNCHANGED <<process_rec_q, speech_message_content, qianfan_message_content,
                    music_id>>

\* Mutant of NoResult: the message is sent although there is no answer.
NoResultAnnounced(kind) ==
  /\ IF kind = "chat" THEN Send("QIANFAN_GET") ELSE UNCHANGED process_rec_q
  /\ UNCHANGED texts

\* ... or, as when the service refuses, none of them.
NoResult(kind) == UNCHANGED <<process_rec_q, texts>>

\* Mutant of Free: the length is not reset.
FreeKeepsLen(h) ==
  /\ data' = [data EXCEPT ![h] = <<>>]
  /\ UNCHANGED data_len

Free(h) ==
  /\ data' = [data EXCEPT ![h] = <<>>]
  /\ data_len' = [data_len EXCEPT ![h] = 0]

\* What HTTP_EVENT_ON_FINISH does with what there is: nothing, or ...
FinishedEmpty(t) ==
  /\ call[t].at = "finish"
  /\ data[Handler(call[t].kind)] = <<>>
  /\ NoSong(t)
  /\ UNCHANGED <<data, data_len, texts, process_rec_q, undefined, dirty>>

\* ... it parses it, and frees it.
FinishedParsed(t) ==
  LET h == Handler(call[t].kind)
      s == data[h]
  IN /\ call[t].at = "finish"
     /\ s # <<>>
     /\ Free(h)
     /\ dirty' = [dirty EXCEPT ![h] = FALSE]
     /\ \/ Whole(s) /\ Understood(s[1].kind, s[1].id) /\ UNCHANGED <<wish, undefined>>
        \/ Whole(s) /\ NoResult(s[1].kind) /\ NoSong(t) /\ UNCHANGED undefined
        \/ ~Whole(s) /\ NoSong(t) /\ UNCHANGED <<process_rec_q, texts, undefined>>
        \/ s[1] = Junk /\ undefined' = TRUE /\ UNCHANGED <<process_rec_q, texts, wish>>

\* Then the request returns.
Finished(t) ==
  LET own == data[Handler(call[t].kind)]
      read == own # <<>> /\ Whole(own) /\ own[1].kind = call[t].kind
                                      /\ own[1].id = call[t].id
  IN /\ FinishedEmpty(t) \/ FinishedParsed(t)
     /\ call' = [call EXCEPT ![t] = NoCall]
     /\ failures' = IF call[t].part < Parts /\ ~call[t].failed
                      THEN failures + 1 ELSE failures
     /\ lost' = IF call[t].part = Parts /\ ~call[t].failed /\ ~read
                  THEN lost + 1 ELSE lost
     /\ UNCHANGED <<process, tts, env, said, calm>>

-----------------------------------------------------------------------------
(* The tasks                                                               *)

\* voice_read_task posts a recording.
Speak ==
  /\ call["voice"].at = "idle"
  /\ spoken < Utterances
  /\ spoken' = spoken + 1
  /\ Request("voice", "speech", spoken + 1)
  /\ calm' = (calm /\ Idle)
  /\ UNCHANGED <<data, data_len, texts, process_rec_q, process, tts, announced,
                 said, undefined, dirty, failures, lost, wish>>

\* notice puts its text in the place of an answer, and creates a player.
Announce ==
  /\ ~announced
  /\ announced' = TRUE
  /\ qianfan_message_content' = Announcement
  /\ tts' \in {tts, tts + 1}
  /\ calm' = (calm /\ Idle)
  /\ UNCHANGED <<data, data_len, call, speech_message_content, music_id, music_url,
                 process_rec_q, process, spoken,
                 said, undefined, dirty, failures, lost, wish>>

Take(m) ==
  /\ process = "receive"
  /\ process_rec_q # <<>>
  /\ Head(process_rec_q) = m
  /\ process_rec_q' = Tail(process_rec_q)

SpeechEmpty ==
  /\ Take("SPEECH_GET")
  /\ speech_message_content = 0
  /\ UNCHANGED <<data, data_len, call, texts, process, tts, env, ghosts>>

\* Mutant of SpeechMusic: only the url is looked up.
SpeechMusicUrlOnly ==
  /\ Take("SPEECH_GET")
  /\ speech_message_content # 0
  /\ process' = "url"
  /\ Request("process", "url", music_id)
  /\ wish' = IF dirty["music"] THEN 0 ELSE speech_message_content
  /\ UNCHANGED <<data, data_len, texts, tts, env,
                 said, calm, undefined, dirty, failures, lost>>

\* get_music_list; the song it chooses is named for the utterance.
SpeechMusic ==
  /\ Take("SPEECH_GET")
  /\ speech_message_content # 0
  /\ process' = "list"
  /\ Request("process", "list", speech_message_content)
  /\ wish' = IF dirty["music"] THEN 0 ELSE speech_message_content
  /\ UNCHANGED <<data, data_len, texts, tts, env,
                 said, calm, undefined, dirty, failures, lost>>

\* get_music_url
MusicUrl ==
  /\ process = "list"
  /\ call["process"].at = "idle"
  /\ process' = "url"
  /\ Request("process", "url", music_id)
  /\ UNCHANGED <<data, data_len, texts, process_rec_q, tts, env, ghosts>>

MusicFetched ==
  /\ process = "url"
  /\ call["process"].at = "idle"
  /\ process' = "play"
  /\ UNCHANGED <<data, data_len, call, texts, process_rec_q, tts, env, ghosts>>

\* The player of music gets music_url.
MusicCreate ==
  /\ process = "play"
  /\ process' = "receive"
  /\ UNCHANGED <<data, data_len, call, texts, process_rec_q, tts, env, ghosts>>

SpeechChat ==
  /\ Take("SPEECH_GET")
  /\ speech_message_content # 0
  /\ process' = "grace"
  /\ UNCHANGED <<data, data_len, call, texts, tts, env, ghosts>>

\* After the delay the text is read again.
AskChat ==
  /\ process = "grace"
  /\ process' = "ask"
  /\ Request("process", "chat", speech_message_content)
  /\ UNCHANGED <<data, data_len, texts, process_rec_q, tts, env, ghosts>>

Asked ==
  /\ process = "ask"
  /\ call["process"].at = "idle"
  /\ process' = "receive"
  /\ UNCHANGED <<data, data_len, call, texts, process_rec_q, tts, env, ghosts>>

\* xTaskCreate may find no memory.
AnswerCreate ==
  /\ Take("QIANFAN_GET")
  /\ tts' \in {tts, tts + 1}
  /\ UNCHANGED <<data, data_len, call, texts, process, env, ghosts>>

\* baidu_tts reads its text when its stream is opened, if it gets that far
\* before the player is stopped.
Say ==
  /\ tts > 0
  /\ tts' = tts - 1
  /\ said' \in {said, Append(said, qianfan_message_content)}
  /\ UNCHANGED <<data, data_len, call, texts, process_rec_q, process, env,
                 calm, undefined, dirty, failures, lost, wish>>

ProcessTask ==
  \/ SpeechEmpty \/ SpeechMusic \/ MusicUrl \/ MusicFetched \/ MusicCreate
  \/ SpeechChat \/ AskChat \/ Asked \/ AnswerCreate

Client(t) ==
  \/ OnData(t) \/ Store(t) \/ StoreFails(t)
  \/ OnFinish(t) \/ Finished(t) \/ BreakOff(t)

\* Nobody speaks any more.
Rest == Idle /\ spoken = Utterances /\ announced /\ UNCHANGED vars

Next ==
  \/ Speak \/ Announce \/ ProcessTask \/ Say
  \/ \E t \in Tasks : Client(t)
  \/ Rest

Spec == Init /\ [][Next]_vars

-----------------------------------------------------------------------------
Pieces == [kind : Kinds \cup {"junk"}, id : 0 .. Utterances, part : 0 .. Parts]

\* Every variable holds a value of its kind.
TypeOK ==
  /\ data \in [Handlers -> Seq(Pieces)]
  /\ data_len \in [Handlers -> Nat]
  /\ call \in [Tasks -> [at : {"idle", "flight", "data", "finish"}, kind : Kinds,
                         id : 0 .. Utterances, part : 0 .. Parts, failed : BOOLEAN]]
  /\ {speech_message_content, music_id, music_url} \subseteq 0 .. Utterances
  /\ qianfan_message_content \in 0 .. Announcement
  /\ process_rec_q \in Seq({"SPEECH_GET", "QIANFAN_GET"})
  /\ Len(process_rec_q) <= QueueLen
  /\ process \in {"receive", "list", "url", "play", "grace", "ask"}
  /\ tts \in Nat /\ spoken \in 0 .. Utterances /\ announced \in BOOLEAN

(***************************************************************************)
(* A buffer no request uses is empty and its length 0, unless a failure    *)
(* left something in it: also after two requests shared it, in whatever    *)
(* order their pieces came and their ends.                                 *)
(***************************************************************************)
BufferHeals ==
  ~undefined => \A h \in Handlers :
    ~dirty[h] /\ (\A t \in Tasks : call[t].at = "idle" \/ Handler(call[t].kind) # h)
      => data[h] = <<>> /\ data_len[h] = 0

(***************************************************************************)
(* If nobody speaks over the machine, a request that breaks off, or finds  *)
(* no memory, costs at most one more response: what it left is thrown away *)
(* with it, and no later response is lost.                                 *)
(***************************************************************************)
SpoilsAtMostOne == calm /\ ~undefined => lost <= failures

(***************************************************************************)
(* If nobody speaks over the machine, the answers are spoken in the order  *)
(* of the utterances, none of them twice and none before there is one: not *)
(* even the answer a broken connection left in the buffer, and which a     *)
(* later request brings out, comes behind a newer one.  An announcement is *)
(* spoken once, anywhere among them.                                       *)
(***************************************************************************)
SaidInOrder ==
  calm /\ ~undefined =>
    /\ \A i \in 1 .. Len(said) : said[i] # 0
    /\ \A i, j \in 1 .. Len(said) : i < j =>
         said[i] < said[j] \/ (said[i] = Announcement /\ said[j] # Announcement)

(***************************************************************************)
(* The song that is played is the one looked up for this wish, if no       *)
(* lookup failed; speech in the meantime does not disturb it.              *)
(***************************************************************************)
PlaysTheSong ==
  process = "play" /\ wish # 0 /\ ~undefined => music_id = wish /\ music_url = wish
=============================================================================
