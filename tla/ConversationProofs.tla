------------------------- MODULE ConversationProofs -------------------------
(***************************************************************************)
(* What the buffers of the event handlers hold, and which song is played;  *)
(* what is said, and what a failure costs, if nobody speaks over the       *)
(* machine: for any number of utterances, of pieces of a response, and any *)
(* queue.                                                                  *)
(***************************************************************************)
EXTENDS Conversation, SequenceTheorems, TLAPS

Calls == [at : {"idle", "flight", "data", "finish"}, kind : Kinds,
          id : 0 .. Utterances, part : 0 .. Parts, failed : BOOLEAN]

Uses(t, h) == call[t].at # "idle" /\ Handler(call[t].kind) = h

\* The requests the tasks can be in.
CallInv ==
  /\ \A t \in Tasks : call[t].at = "data" => call[t].part < Parts
  /\ call["voice"].kind = "speech"
  /\ process \in {"receive", "grace", "play"} => call["process"].at = "idle"
  /\ process \in {"list", "url"} /\ call["process"].at # "idle"
       => call["process"].kind = process
  /\ process = "ask" /\ call["process"].at # "idle" => call["process"].kind = "chat"

\* Unless a failure left something, a buffer in use is a buffer of somebody.
HealInv ==
  /\ dirty \in [Handlers -> BOOLEAN]
  /\ \A h \in Handlers : ~dirty[h] =>
       IF data[h] = <<>> THEN data_len[h] = 0 ELSE \E t \in Tasks : Uses(t, h)

\* In the buffer of a handler are pieces of its own responses, or junk.
KindInv ==
  \A h \in Handlers : \A i \in 1 .. Len(data[h]) :
    data[h][i].kind # "junk" => Handler(data[h][i].kind) = h

\* The music handler has received so much of this response, and no more.
Received(c) ==
  /\ data_len["music"] = c.part /\ Len(data["music"]) = c.part
  /\ \A i \in 1 .. c.part :
       data["music"][i] = [kind |-> c.kind, id |-> c.id, part |-> i]

\* A lookup no failure touched.
SongInv ==
  wish # 0 =>
    /\ process \in {"list", "url"} /\ call["process"].at # "idle"
         => call["process"].id = wish /\ Received(call["process"])
    /\ process = "list" /\ call["process"].at = "idle"
         => music_id = wish /\ data["music"] = <<>> /\ data_len["music"] = 0
    /\ process \in {"url", "play"} => music_id = wish
    /\ (process = "url" /\ call["process"].at = "idle") \/ process = "play"
         => music_url = wish

ConversationInv == TypeOK /\ CallInv /\ HealInv /\ KindInv /\ SongInv

-----------------------------------------------------------------------------
(* Types                                                                   *)

LEMMA Bounds ==
  Utterances \in Nat /\ Parts \in Nat /\ Parts > 0 /\ QueueLen \in Nat /\ QueueLen > 0
BY BoundsAssumption

LEMMA TypeFacts ==
  ASSUME TypeOK, NEW t \in Tasks
  PROVE  /\ call \in [Tasks -> Calls] /\ call[t] \in Calls
         /\ Handler(call[t].kind) \in Handlers
         /\ data \in [Handlers -> Seq(Pieces)] /\ data_len \in [Handlers -> Nat]
BY DEF TypeOK, Calls, Handler, Handlers

LEMMA NoCallType == NoCall \in Calls
BY Bounds DEF NoCall, Calls, Kinds

LEMMA RequestType ==
  ASSUME TypeOK, NEW t \in Tasks, NEW kind \in Kinds, NEW id \in 0 .. Utterances,
         Request(t, kind, id)
  PROVE  /\ call' \in [Tasks -> Calls]
         /\ call'[t] = [at |-> "flight", kind |-> kind, id |-> id, part |-> 0,
                        failed |-> FALSE]
         /\ \A u \in Tasks : u # t => call'[u] = call[u]
<1>1. call \in [Tasks -> Calls] /\ NoCall \in Calls
  BY TypeFacts, NoCallType
<1>2. /\ call'[t] = [NoCall EXCEPT !.at = "flight", !.kind = kind, !.id = id]
      /\ call' = [call EXCEPT ![t] = call'[t]]
      /\ \A u \in Tasks : u # t => call'[u] = call[u]
  BY <1>1, Zenon DEF Request
<1>3. ASSUME NEW c \in Calls, c.part = 0, c.failed = FALSE,
             NEW d, d = [c EXCEPT !.at = "flight", !.kind = kind, !.id = id]
      PROVE  d = [at |-> "flight", kind |-> kind, id |-> id, part |-> 0, failed |-> FALSE]
  BY <1>3 DEF Calls
<1>4. NoCall.part = 0 /\ NoCall.failed = FALSE
  BY DEF NoCall
<1>5. call'[t] = [at |-> "flight", kind |-> kind, id |-> id, part |-> 0, failed |-> FALSE]
  BY <1>1, <1>2, <1>3, <1>4, Zenon
<1>6. call'[t] \in Calls
  BY <1>5, Bounds DEF Calls
<1>7. call' \in [Tasks -> Calls]
  BY <1>1, <1>2, <1>6
<1>8. QED BY <1>2, <1>5, <1>7

LEMMA SendType ==
  ASSUME TypeOK, NEW m \in {"SPEECH_GET", "QIANFAN_GET"}, Send(m)
  PROVE  /\ process_rec_q' \in Seq({"SPEECH_GET", "QIANFAN_GET"})
         /\ Len(process_rec_q') <= QueueLen
<1>1. process_rec_q \in Seq({"SPEECH_GET", "QIANFAN_GET"}) /\ Len(process_rec_q) <= QueueLen
  BY DEF TypeOK
<1>2. CASE Len(process_rec_q) < QueueLen
  <2>1. process_rec_q' = Append(process_rec_q, m)
    BY <1>2 DEF Send
  <2>2. Len(process_rec_q') = Len(process_rec_q) + 1
    BY <1>1, <2>1
  <2>3. Len(process_rec_q) \in Nat
    BY <1>1
  <2>4. QED BY <1>1, <1>2, <2>1, <2>2, <2>3, Bounds
<1>3. CASE ~(Len(process_rec_q) < QueueLen)
  BY <1>1, <1>3 DEF Send
<1>4. QED BY <1>2, <1>3

LEMMA TakeType ==
  ASSUME TypeOK, NEW m, Take(m)
  PROVE  /\ process_rec_q' \in Seq({"SPEECH_GET", "QIANFAN_GET"})
         /\ Len(process_rec_q') <= QueueLen
         /\ process = "receive"
<1>1. /\ process_rec_q \in Seq({"SPEECH_GET", "QIANFAN_GET"})
      /\ Len(process_rec_q) <= QueueLen /\ Len(process_rec_q) \in Nat
      /\ process_rec_q # <<>> /\ process_rec_q' = Tail(process_rec_q)
      /\ process = "receive"
  BY DEF TypeOK, Take
<1>2. Len(process_rec_q') = Len(process_rec_q) - 1
  BY <1>1
<1>3. QED BY <1>1, <1>2, Bounds

LEMMA InitHolds == Init => ConversationInv
<1>1. SUFFICES ASSUME Init PROVE ConversationInv
  OBVIOUS
<1>2. call \in [Tasks -> Calls] /\ \A t \in Tasks : call[t].at = "idle" /\ call[t].kind = "speech"
  BY <1>1, NoCallType DEF Init, NoCall
<1>3. data \in [Handlers -> Seq(Pieces)] /\ data_len \in [Handlers -> Nat]
  BY <1>1 DEF Init
<1>4. TypeOK
  <2>1. /\ {speech_message_content, music_id, music_url} \subseteq 0 .. Utterances
        /\ qianfan_message_content \in 0 .. Announcement
        /\ tts \in Nat /\ spoken \in 0 .. Utterances
    BY <1>1, Bounds DEF Init, Announcement
  <2>2. /\ process_rec_q \in Seq({"SPEECH_GET", "QIANFAN_GET"})
        /\ Len(process_rec_q) <= QueueLen
        /\ process \in {"receive", "list", "url", "play", "grace", "ask"}
    BY <1>1, Bounds DEF Init
  <2>3. announced \in BOOLEAN
    BY <1>1, Zenon DEF Init
  <2>4. QED BY <1>2, <1>3, <2>1, <2>2, <2>3 DEF TypeOK, Calls
<1>5. CallInv
  BY <1>1, <1>2 DEF Init, CallInv, Tasks
<1>6. QED
  BY <1>1, <1>4, <1>5 DEF Init, ConversationInv, HealInv, KindInv, SongInv, Handlers

-----------------------------------------------------------------------------
(* The requests                                                            *)

\* The music handler is that of process_task.
LEMMA MusicIsProcess ==
  ASSUME CallInv, NEW t \in Tasks, Handler(call[t].kind) = "music"
  PROVE  t = "process"
BY DEF CallInv, Tasks, Handler

\* Requests begin and go on, and no buffer changes.
LEMMA QuietHeals ==
  ASSUME HealInv, UNCHANGED <<data, data_len, dirty>>,
         \A t \in Tasks : call[t].at # "idle" =>
           call'[t].at # "idle" /\ call'[t].kind = call[t].kind
  PROVE  HealInv'
<1>1. ASSUME NEW t \in Tasks, NEW h \in Handlers, Uses(t, h)
      PROVE  Uses(t, h)'
  BY <1>1 DEF Uses
<1>2. QED BY <1>1 DEF HealInv

LEMMA EnterHolds ==
  ASSUME ConversationInv, NEW t \in Tasks, NEW event \in {"data", "finish"},
         event = "data" => call[t].part < Parts, Enter(t, event)
  PROVE  ConversationInv'
<1>1. /\ call \in [Tasks -> Calls] /\ call[t].at = "flight"
      /\ call' = [call EXCEPT ![t].at = event]
      /\ UNCHANGED <<data, data_len, texts, process_rec_q, process, tts, env, dirty, wish>>
  BY TypeFacts DEF Enter, ConversationInv
<1>2. /\ call' \in [Tasks -> Calls]
      /\ call'[t].at = event
      /\ \A u \in Tasks : /\ u # t => call'[u] = call[u]
                          /\ call'[u].kind = call[u].kind /\ call'[u].id = call[u].id
                          /\ call'[u].part = call[u].part
                          /\ call'[u].at = "idle" <=> call[u].at = "idle"
  BY <1>1 DEF Calls
<1>3. TypeOK'
  BY <1>1, <1>2 DEF ConversationInv, TypeOK, Calls, texts, env
<1>4. CallInv'
  BY <1>1, <1>2 DEF ConversationInv, CallInv, Tasks
<1>5. HealInv'
  BY <1>1, <1>2, QuietHeals DEF ConversationInv
<1>6. SongInv'
  BY <1>1, <1>2 DEF ConversationInv, SongInv, Received, Tasks, texts
<1>7. QED BY <1>1, <1>3, <1>4, <1>5, <1>6 DEF ConversationInv, KindInv

LEMMA StoreHolds ==
  ASSUME ConversationInv, NEW t \in Tasks, Store(t)
  PROVE  ConversationInv'
<1> DEFINE h == Handler(call[t].kind)
           piece == [kind |-> call[t].kind, id |-> call[t].id, part |-> call[t].part + 1]
           old == IF data[h] = <<>> THEN [i \in 1 .. data_len[h] |-> Junk] ELSE data[h]
<1>1. /\ call \in [Tasks -> Calls] /\ call[t] \in Calls /\ h \in Handlers
      /\ data \in [Handlers -> Seq(Pieces)] /\ data_len \in [Handlers -> Nat]
  BY TypeFacts DEF ConversationInv
<1>2. /\ call[t].at = "data" /\ call[t].part < Parts
      /\ data' = [data EXCEPT ![h] = Append(old, piece)]
      /\ data_len' = [data_len EXCEPT ![h] = @ + 1]
      /\ call' = [call EXCEPT ![t].at = "flight", ![t].part = @ + 1]
      /\ UNCHANGED <<texts, process_rec_q, process, tts, env, dirty, wish>>
  BY DEF Store, ghosts, ConversationInv, CallInv
<1>3. piece \in Pieces
  BY <1>1, <1>2, Bounds DEF Calls, Pieces
<1>4. old \in Seq(Pieces)
  <2>1. Junk \in Pieces
    BY Bounds DEF Junk, Pieces
  <2>2. [i \in 1 .. data_len[h] |-> Junk] \in Seq(Pieces)
    <3> DEFINE n == data_len[h]
    <3>1. n \in Nat
      BY <1>1
    <3> HIDE DEF n
    <3>2. [i \in 1 .. n |-> Junk] \in [1 .. n -> Pieces]
      BY <2>1
    <3>3. [i \in 1 .. n |-> Junk] \in Seq(Pieces)
      BY <3>1, <3>2, SeqDef
    <3>4. QED BY <3>3 DEF n
  <2>3. QED BY <1>1, <2>2
<1>5. /\ Append(old, piece) \in Seq(Pieces)
      /\ Len(Append(old, piece)) = Len(old) + 1
      /\ Append(old, piece)[Len(old) + 1] = piece
      /\ \A i \in 1 .. Len(old) : Append(old, piece)[i] = old[i]
      /\ Append(old, piece) # <<>>
  <2> HIDE DEF old, piece
  <2>1. Len(old) \in Nat
    BY <1>4
  <2>2. QED BY <1>3, <1>4, <2>1
<1> HIDE DEF old, piece, h
<1>6. /\ data' \in [Handlers -> Seq(Pieces)] /\ data_len' \in [Handlers -> Nat]
      /\ data'[h] = Append(old, piece) /\ data_len'[h] = data_len[h] + 1
      /\ \A g \in Handlers : g # h => data'[g] = data[g] /\ data_len'[g] = data_len[g]
  BY <1>1, <1>2, <1>5
<1>7. /\ call'[t].at = "flight" /\ call'[t].part = call[t].part + 1
      /\ call'[t].kind = call[t].kind /\ call'[t].id = call[t].id
      /\ \A u \in Tasks : u # t => call'[u] = call[u]
      /\ call' \in [Tasks -> Calls]
  <2>1. call[t].part \in Nat /\ call[t].part + 1 \in 0 .. Parts
    BY <1>1, <1>2, Bounds DEF Calls
  <2>2. /\ call'[t].at = "flight" /\ call'[t].part = call[t].part + 1
        /\ call'[t].kind = call[t].kind /\ call'[t].id = call[t].id
        /\ \A u \in Tasks : u # t => call'[u] = call[u]
    BY <1>1, <1>2 DEF Calls
  <2>3. call' \in [Tasks -> Calls]
    BY <1>1, <1>2, <2>1 DEF Calls
  <2>4. QED BY <2>2, <2>3
<1>8. TypeOK'
  BY <1>2, <1>6, <1>7 DEF ConversationInv, TypeOK, Calls, texts, env
<1>9. CallInv'
  BY <1>2, <1>7 DEF ConversationInv, CallInv, Tasks
<1>10. HealInv'
  <2>1. \A g \in Handlers : g = h => Uses(t, g)'
    BY <1>7 DEF Uses, h
  <2>2. \A u \in Tasks, g \in Handlers : Uses(u, g) => Uses(u, g)'
    BY <1>2, <1>7 DEF Uses
  <2>3. ASSUME NEW g \in Handlers, ~dirty[g]
        PROVE  IF data'[g] = <<>> THEN data_len'[g] = 0 ELSE \E u \in Tasks : Uses(u, g)'
    <3>1. CASE g = h
      BY <1>5, <1>6, <2>1, <3>1
    <3>2. CASE g # h
      <4>1. data'[g] = data[g] /\ data_len'[g] = data_len[g]
        BY <1>6, <3>2
      <4>2. IF data[g] = <<>> THEN data_len[g] = 0 ELSE \E u \in Tasks : Uses(u, g)
        BY <2>3 DEF ConversationInv, HealInv
      <4>3. QED BY <2>2, <4>1, <4>2
    <3>3. QED BY <3>1, <3>2
  <2>4. QED BY <1>2, <2>3 DEF ConversationInv, HealInv
<1>11. SongInv'
  <2>1. CASE h # "music"
    <3>1. data'["music"] = data["music"] /\ data_len'["music"] = data_len["music"]
      BY <1>6, <2>1 DEF Handlers
    <3>2. process \in {"list", "url"} => t # "process"
      BY <1>2, <2>1 DEF ConversationInv, CallInv, Handler, h
    <3>3. process \in {"list", "url"} => call'["process"] = call["process"]
      BY <1>7, <3>2 DEF Tasks
    <3>4. QED BY <1>2, <3>1, <3>3 DEF ConversationInv, SongInv, Received, texts
  <2>2. CASE h = "music"
    <3>1. t = "process" /\ call[t].kind # "chat"
      BY <2>2, MusicIsProcess DEF ConversationInv, h, Handler
    <3>2. process \in {"list", "url"}
      BY <1>1, <1>2, <3>1 DEF ConversationInv, CallInv, TypeOK
    <3>3. SUFFICES ASSUME wish # 0 PROVE Received(call[t])' /\ call'[t].id = wish
      BY <1>2, <1>7, <3>1, <3>2 DEF ConversationInv, SongInv, texts
    <3>4. call[t].id = wish /\ Received(call[t])
      BY <1>2, <3>1, <3>2, <3>3 DEF ConversationInv, SongInv
    <3>5. Len(old) = call[t].part
      BY <1>1, <2>2, <3>4 DEF Received, old
    <3>6. \A i \in 1 .. call[t].part :
            old[i] = [kind |-> call[t].kind, id |-> call[t].id, part |-> i]
      BY <1>1, <2>2, <3>4 DEF Received, old, Calls
    <3>7. Received(call[t])'
      <4>1. call[t].part \in Nat
        BY <1>1, Bounds DEF Calls
      <4>2. /\ data'["music"] = Append(old, piece) /\ data_len'["music"] = call[t].part + 1
            /\ Len(data'["music"]) = call[t].part + 1
        BY <1>5, <1>6, <2>2, <3>4, <3>5 DEF Received
      <4>3. ASSUME NEW i \in 1 .. call[t].part + 1
            PROVE  data'["music"][i]
                     = [kind |-> call[t].kind, id |-> call[t].id, part |-> i]
        <5>1. CASE i = call[t].part + 1
          BY <1>5, <3>5, <4>2, <5>1 DEF piece
        <5>2. CASE i \in 1 .. call[t].part
          BY <1>5, <3>5, <3>6, <4>2, <5>2
        <5>3. QED BY <4>1, <4>3, <5>1, <5>2
      <4>4. QED BY <1>7, <4>2, <4>3 DEF Received
    <3>8. QED BY <1>7, <3>4, <3>7
  <2>3. QED BY <2>1, <2>2
<1>12. KindInv'
  <2>1. piece.kind # "junk" => Handler(piece.kind) = h
    BY DEF piece, h
  <2>2. \A i \in 1 .. Len(old) : old[i].kind # "junk" => Handler(old[i].kind) = h
    <3>1. CASE data[h] = <<>>
      <4>1. \A i \in 1 .. Len(old) : old[i] = Junk
        BY <1>1, <3>1 DEF old
      <4>2. QED BY <4>1 DEF Junk
    <3>2. CASE data[h] # <<>>
      BY <1>1, <3>2 DEF old, ConversationInv, KindInv
    <3>3. QED BY <3>1, <3>2
  <2>3. ASSUME NEW i \in 1 .. Len(old) + 1, Append(old, piece)[i].kind # "junk"
        PROVE  Handler(Append(old, piece)[i].kind) = h
    <3>1. CASE i = Len(old) + 1
      BY <1>5, <2>1, <2>3, <3>1
    <3>2. CASE i \in 1 .. Len(old)
      BY <1>5, <2>2, <2>3, <3>2
    <3>3. Len(old) \in Nat
      BY <1>4
    <3>4. QED BY <2>3, <3>1, <3>2, <3>3
  <2>4. ASSUME NEW g \in Handlers, NEW i \in 1 .. Len(data'[g]), data'[g][i].kind # "junk"
        PROVE  Handler(data'[g][i].kind) = g
    <3>1. CASE g = h
      BY <1>5, <1>6, <2>3, <2>4, <3>1
    <3>2. CASE g # h
      BY <1>6, <2>4, <3>2 DEF ConversationInv, KindInv
    <3>3. QED BY <3>1, <3>2
  <2>5. QED BY <2>4 DEF KindInv
<1>13. QED BY <1>8, <1>9, <1>10, <1>11, <1>12 DEF ConversationInv

\* After a failure of the music handler there is no wish any more.
LEMMA FailForgets ==
  ASSUME NEW t \in Tasks, Fail(t)
  PROVE  wish' # 0 => wish' = wish /\ Handler(call[t].kind) # "music"
BY DEF Fail, NoSong

LEMMA StoreFailsHolds ==
  ASSUME ConversationInv, NEW t \in Tasks, StoreFails(t)
  PROVE  ConversationInv'
<1> DEFINE h == Handler(call[t].kind)
<1>1. /\ call \in [Tasks -> Calls] /\ call[t] \in Calls /\ h \in Handlers
      /\ data \in [Handlers -> Seq(Pieces)] /\ data_len \in [Handlers -> Nat]
      /\ dirty \in [Handlers -> BOOLEAN]
  BY TypeFacts DEF ConversationInv, HealInv
<1>2. /\ call[t].at = "data" /\ call[t].part < Parts
      /\ data' = [data EXCEPT ![h] = <<>>]
      /\ call' = [call EXCEPT ![t].at = "flight", ![t].part = @ + 1, ![t].failed = TRUE]
      /\ dirty' = [dirty EXCEPT ![h] = TRUE]
      /\ UNCHANGED <<data_len, texts, process_rec_q, process, tts, env>>
  BY DEF StoreFails, ConversationInv, CallInv
<1>3. /\ data' \in [Handlers -> Seq(Pieces)] /\ data'[h] = <<>>
      /\ \A g \in Handlers : g # h => data'[g] = data[g]
  BY <1>1, <1>2
<1>4. /\ dirty' \in [Handlers -> BOOLEAN] /\ dirty'[h]
      /\ \A g \in Handlers : g # h => dirty'[g] = dirty[g]
  BY <1>1, <1>2
<1>5. /\ call'[t].at = "flight" /\ call'[t].kind = call[t].kind
      /\ \A u \in Tasks : u # t => call'[u] = call[u]
      /\ call' \in [Tasks -> Calls]
  <2>1. call[t].part \in Nat /\ call[t].part + 1 \in 0 .. Parts
    BY <1>1, <1>2, Bounds DEF Calls
  <2>2. /\ call'[t].at = "flight" /\ call'[t].kind = call[t].kind
        /\ \A u \in Tasks : u # t => call'[u] = call[u]
    BY <1>1, <1>2 DEF Calls
  <2>3. call' \in [Tasks -> Calls]
    BY <1>1, <1>2, <2>1 DEF Calls
  <2>4. QED BY <2>2, <2>3
<1> HIDE DEF h
<1>6. TypeOK'
  BY <1>1, <1>2, <1>3, <1>5 DEF ConversationInv, TypeOK, Calls, texts, env
<1>7. CallInv'
  BY <1>2, <1>5 DEF ConversationInv, CallInv, Tasks
<1>8. HealInv'
  <2>1. \A u \in Tasks, g \in Handlers : Uses(u, g) => Uses(u, g)'
    BY <1>2, <1>5 DEF Uses
  <2>2. ASSUME NEW g \in Handlers, ~dirty'[g]
        PROVE  IF data'[g] = <<>> THEN data_len'[g] = 0 ELSE \E u \in Tasks : Uses(u, g)'
    <3>1. data'[g] = data[g] /\ data_len'[g] = data_len[g] /\ ~dirty[g]
      BY <1>2, <1>3, <1>4, <2>2
    <3>2. IF data[g] = <<>> THEN data_len[g] = 0 ELSE \E u \in Tasks : Uses(u, g)
      BY <3>1 DEF ConversationInv, HealInv
    <3>3. QED BY <2>1, <3>1, <3>2
  <2>3. QED BY <1>4, <2>2 DEF HealInv
<1>9. SongInv'
  <2>1. SUFFICES ASSUME wish' # 0 PROVE SongInv'
    BY DEF SongInv
  <2>2. wish' = wish /\ h # "music"
    BY <2>1, FailForgets DEF StoreFails, h
  <2>3. data'["music"] = data["music"] /\ data_len'["music"] = data_len["music"]
    BY <1>2, <1>3, <2>2 DEF Handlers
  <2>4. process \in {"list", "url"} => t # "process"
    BY <1>2, <2>2 DEF ConversationInv, CallInv, Handler, h
  <2>5. process \in {"list", "url"} => call'["process"] = call["process"]
    BY <1>5, <2>4 DEF Tasks
  <2>6. QED BY <1>2, <2>2, <2>3, <2>5 DEF ConversationInv, SongInv, Received, texts
<1>10. KindInv'
  <2>1. \A g \in Handlers : data'[g] = data[g] \/ data'[g] = <<>>
    BY <1>3
  <2>2. QED BY <2>1 DEF ConversationInv, KindInv
<1>11. QED BY <1>6, <1>7, <1>8, <1>9, <1>10 DEF ConversationInv

-----------------------------------------------------------------------------
(* The end of a request                                                    *)

\* The request of t is over.
Over(t) == call' = [call EXCEPT ![t] = NoCall] /\ UNCHANGED <<process, tts, env>>

LEMMA OverCalls ==
  ASSUME ConversationInv, NEW t \in Tasks, Over(t)
  PROVE  /\ call' \in [Tasks -> Calls] /\ call'[t].at = "idle" /\ CallInv'
         /\ \A u \in Tasks : u # t => call'[u] = call[u]
<1>1. call \in [Tasks -> Calls] /\ NoCall \in Calls
  BY TypeFacts, NoCallType DEF ConversationInv
<1>2. /\ call' \in [Tasks -> Calls] /\ call'[t] = NoCall
      /\ \A u \in Tasks : u # t => call'[u] = call[u]
      /\ UNCHANGED process
  BY <1>1 DEF Over
<1>3. NoCall.at = "idle" /\ NoCall.kind = "speech"
  BY DEF NoCall
<1>4. CallInv'
  BY <1>2, <1>3 DEF ConversationInv, CallInv, Tasks
<1>5. QED BY <1>2, <1>3, <1>4

\* The buffers of the handler that t does not use belong to whom they did.
LEMMA OverHeals ==
  ASSUME ConversationInv, NEW t \in Tasks, Over(t),
         NEW h, h = Handler(call[t].kind), dirty' \in [Handlers -> BOOLEAN],
         dirty'[h] \/ (data'[h] = <<>> /\ data_len'[h] = 0),
         \A g \in Handlers : g # h =>
           dirty'[g] = dirty[g] /\ data'[g] = data[g] /\ data_len'[g] = data_len[g]
  PROVE  HealInv'
<1>1. ASSUME NEW g \in Handlers, g # h, NEW u \in Tasks, Uses(u, g)
      PROVE  Uses(u, g)'
  BY <1>1, OverCalls DEF Uses
<1>2. ASSUME NEW g \in Handlers, ~dirty'[g]
      PROVE  IF data'[g] = <<>> THEN data_len'[g] = 0 ELSE \E u \in Tasks : Uses(u, g)'
  <2>1. CASE g = h
    BY <1>2, <2>1
  <2>2. CASE g # h
    <3>1. IF data[g] = <<>> THEN data_len[g] = 0 ELSE \E u \in Tasks : Uses(u, g)
      BY <1>2, <2>2 DEF ConversationInv, HealInv
    <3>2. QED BY <1>1, <2>2, <3>1
  <2>3. QED BY <2>1, <2>2
<1>3. QED BY <1>2 DEF HealInv

\* The end of a request for speech or chat does not disturb a lookup.
LEMMA OverSong ==
  ASSUME ConversationInv, NEW t \in Tasks, Over(t), call[t].at # "idle",
         Handler(call[t].kind) # "music",
         UNCHANGED <<data["music"], data_len["music"], music_id, music_url, wish>>
  PROVE  SongInv'
<1>1. process \in {"list", "url"} => t # "process"
  BY DEF ConversationInv, CallInv, Handler
<1>2. process \in {"list", "url"} => call'["process"] = call["process"]
  BY <1>1, OverCalls DEF Tasks
<1>3. UNCHANGED process
  BY DEF Over
<1>4. QED BY <1>2, <1>3 DEF ConversationInv, SongInv, Received

LEMMA BreakOffHolds ==
  ASSUME ConversationInv, NEW t \in Tasks, BreakOff(t)
  PROVE  ConversationInv'
<1> DEFINE h == Handler(call[t].kind)
<1>1. /\ call[t].at = "flight" /\ Over(t) /\ h \in Handlers
      /\ dirty' = [dirty EXCEPT ![h] = @ \/ data[h] # <<>>]
      /\ UNCHANGED <<data, data_len, texts, process_rec_q, process, tts, env>>
  BY TypeFacts DEF BreakOff, Over, ConversationInv
<1>2. dirty \in [Handlers -> BOOLEAN]
  BY DEF ConversationInv, HealInv
<1> HIDE DEF h
<1>3. /\ dirty' \in [Handlers -> BOOLEAN]
      /\ dirty'[h] <=> dirty[h] \/ data[h] # <<>>
      /\ \A g \in Handlers : g # h => dirty'[g] = dirty[g]
  BY <1>1, <1>2
<1>4. TypeOK'
  BY <1>1, OverCalls DEF ConversationInv, TypeOK, Calls, texts, env
<1>5. dirty'[h] \/ (data'[h] = <<>> /\ data_len'[h] = 0)
  BY <1>1, <1>3 DEF ConversationInv, HealInv
<1>6. HealInv'
  BY <1>1, <1>3, <1>5, OverHeals DEF h
<1>7. SongInv'
  <2>1. SUFFICES ASSUME wish' # 0 PROVE SongInv'
    BY DEF SongInv
  <2>2. wish' = wish /\ h # "music"
    BY <2>1, FailForgets DEF BreakOff, h
  <2>3. QED BY <1>1, <2>2, OverSong DEF texts, h
<1>8. QED BY <1>1, <1>4, <1>6, <1>7, OverCalls DEF ConversationInv, KindInv

\* What the texts and the queue are after a response was parsed.
LEMMA UnderstoodType ==
  ASSUME TypeOK, NEW kind, NEW id \in 0 .. Utterances, Understood(kind, id)
  PROVE  /\ {speech_message_content', music_id', music_url'} \subseteq 0 .. Utterances
         /\ qianfan_message_content' \in 0 .. Announcement
         /\ process_rec_q' \in Seq({"SPEECH_GET", "QIANFAN_GET"})
         /\ Len(process_rec_q') <= QueueLen
<1>1. /\ {speech_message_content, music_id, music_url} \subseteq 0 .. Utterances
      /\ qianfan_message_content \in 0 .. Announcement
      /\ process_rec_q \in Seq({"SPEECH_GET", "QIANFAN_GET"})
      /\ Len(process_rec_q) <= QueueLen
  BY DEF TypeOK
<1>2. id \in 0 .. Announcement /\ 0 \in 0 .. Utterances
  BY Bounds DEF Announcement
<1>3. /\ process_rec_q' \in Seq({"SPEECH_GET", "QIANFAN_GET"})
      /\ Len(process_rec_q') <= QueueLen
  BY <1>1, SendType DEF Understood
<1>4. QED BY <1>1, <1>2, <1>3 DEF Understood

\* What the end of a request leaves: an empty buffer of length 0, unless a
\* failure made it so.
LEMMA FinishedFacts ==
  ASSUME ConversationInv, NEW t \in Tasks, Finished(t),
         NEW h, h = Handler(call[t].kind)
  PROVE  /\ call[t].at = "finish" /\ Over(t) /\ h \in Handlers
         /\ {speech_message_content', music_id', music_url'} \subseteq 0 .. Utterances
         /\ qianfan_message_content' \in 0 .. Announcement
         /\ process_rec_q' \in Seq({"SPEECH_GET", "QIANFAN_GET"})
         /\ Len(process_rec_q') <= QueueLen
         /\ data' \in [Handlers -> Seq(Pieces)] /\ data_len' \in [Handlers -> Nat]
         /\ dirty' \in [Handlers -> BOOLEAN]
         /\ dirty'[h] \/ (data'[h] = <<>> /\ data_len'[h] = 0)
         /\ data'[h] = <<>>
         /\ \A g \in Handlers : g # h =>
              dirty'[g] = dirty[g] /\ data'[g] = data[g] /\ data_len'[g] = data_len[g]
<1>1. /\ h \in Handlers /\ data \in [Handlers -> Seq(Pieces)]
      /\ data_len \in [Handlers -> Nat] /\ dirty \in [Handlers -> BOOLEAN]
  BY TypeFacts DEF ConversationInv, HealInv
<1>2. Over(t)
  BY DEF Finished, Over
<1>3. /\ {speech_message_content, music_id, music_url} \subseteq 0 .. Utterances
      /\ qianfan_message_content \in 0 .. Announcement
      /\ process_rec_q \in Seq({"SPEECH_GET", "QIANFAN_GET"})
      /\ Len(process_rec_q) <= QueueLen
  BY DEF ConversationInv, TypeOK
<1>4. CASE FinishedEmpty(t)
  <2>1. /\ call[t].at = "finish" /\ data[h] = <<>>
        /\ UNCHANGED <<data, data_len, texts, process_rec_q, dirty>>
    BY <1>4 DEF FinishedEmpty
  <2>2. dirty[h] \/ data_len[h] = 0
    BY <1>1, <2>1 DEF ConversationInv, HealInv
  <2>3. QED BY <1>1, <1>2, <1>3, <2>1, <2>2 DEF texts
<1>5. CASE FinishedParsed(t)
  <2>1. /\ call[t].at = "finish" /\ data[h] # <<>>
        /\ data' = [data EXCEPT ![h] = <<>>] /\ data_len' = [data_len EXCEPT ![h] = 0]
        /\ dirty' = [dirty EXCEPT ![h] = FALSE]
    BY <1>5 DEF FinishedParsed, Free
  <2>2. /\ {speech_message_content', music_id', music_url'} \subseteq 0 .. Utterances
        /\ qianfan_message_content' \in 0 .. Announcement
        /\ process_rec_q' \in Seq({"SPEECH_GET", "QIANFAN_GET"})
        /\ Len(process_rec_q') <= QueueLen
    <3>1. \/ Understood(data[h][1].kind, data[h][1].id)
          \/ UNCHANGED <<texts, process_rec_q>>
      BY <1>5 DEF FinishedParsed, NoResult
    <3>2. data[h][1].id \in 0 .. Utterances
      <4>1. data[h] \in Seq(Pieces)
        BY <1>1
      <4>2. data[h][1] \in Pieces
        BY <2>1, <4>1
      <4>3. QED BY <4>2 DEF Pieces
    <3>3. CASE Understood(data[h][1].kind, data[h][1].id)
      BY <3>2, <3>3, UnderstoodType DEF ConversationInv
    <3>4. CASE UNCHANGED <<texts, process_rec_q>>
      BY <1>3, <3>4 DEF texts
    <3>5. QED BY <3>1, <3>3, <3>4
  <2>3. data' \in [Handlers -> Seq(Pieces)] /\ data_len' \in [Handlers -> Nat]
    BY <1>1, <2>1
  <2>4. dirty' \in [Handlers -> BOOLEAN]
    BY <1>1, <2>1
  <2>5. /\ data'[h] = <<>> /\ data_len'[h] = 0
        /\ \A g \in Handlers : g # h =>
             dirty'[g] = dirty[g] /\ data'[g] = data[g] /\ data_len'[g] = data_len[g]
    BY <1>1, <2>1
  <2>6. QED BY <1>1, <1>2, <2>1, <2>2, <2>3, <2>4, <2>5
<1>6. QED BY <1>4, <1>5 DEF Finished

\* A wish is left alone, or forgotten; a lookup brings what was asked for.
LEMMA FinishedWish ==
  ASSUME ConversationInv, NEW t \in Tasks, Finished(t), wish' # 0,
         NEW h, h = Handler(call[t].kind)
  PROVE  /\ wish' = wish
         /\ h = "response" => UNCHANGED <<music_id, music_url>>
         /\ h = "music" => IF process = "list" THEN music_id' = wish
                                               ELSE music_url' = wish /\ UNCHANGED music_id
         /\ h = "music" => data_len'["music"] = 0
<1>1. h \in Handlers /\ data \in [Handlers -> Seq(Pieces)] /\ data_len \in [Handlers -> Nat]
  BY TypeFacts DEF ConversationInv
<1>2. call[t].at = "finish"
  BY FinishedFacts
<1>3. CASE FinishedEmpty(t)
  BY <1>1, <1>3 DEF FinishedEmpty, NoSong, texts, Handlers
<1>4. CASE FinishedParsed(t)
  <2> DEFINE s == data[h]
  <2>1. s # <<>> /\ s \in Seq(Pieces) /\ 1 \in 1 .. Len(s)
    BY <1>1, <1>4 DEF FinishedParsed
  <2>2. \/ Understood(s[1].kind, s[1].id) /\ wish' = wish
        \/ NoSong(t) /\ UNCHANGED texts
        \/ s[1] = Junk /\ wish' = wish /\ UNCHANGED texts
    BY <1>4 DEF FinishedParsed, NoResult
  <2>3. CASE h = "response"
    <3>1. s[1].kind \in {"speech", "chat", "junk"}
      BY <2>1, <2>3 DEF ConversationInv, KindInv, Handler, Handlers
    <3>2. wish' = wish
      BY <2>2, <2>3 DEF NoSong
    <3>3. QED BY <2>2, <2>3, <3>1, <3>2 DEF Understood, texts
  <2>4. CASE h = "music"
    <3>1. wish' = wish /\ (Understood(s[1].kind, s[1].id) \/ s[1] = Junk)
      BY <2>2, <2>4 DEF NoSong
    <3>2. t = "process" /\ call[t].kind \in {"list", "url"}
      BY <2>4, MusicIsProcess, TypeFacts DEF ConversationInv, Calls, Kinds, Handler
    <3>3. process = call[t].kind
      BY <1>2, <3>2 DEF ConversationInv, CallInv, TypeOK
    <3>4. /\ call[t].id = wish /\ Received(call[t])
          /\ process = "url" => music_id = wish
      BY <1>2, <3>1, <3>2, <3>3 DEF ConversationInv, SongInv
    <3>5. s[1] = [kind |-> process, id |-> wish, part |-> 1]
      BY <2>1, <2>4, <3>3, <3>4 DEF Received
    <3>6. s[1].kind = process /\ s[1].id = wish /\ s[1] # Junk
      BY <3>2, <3>3, <3>5 DEF Junk
    <3>7. data_len'["music"] = 0
      BY <1>1, <1>4, <2>4 DEF FinishedParsed, Free
    <3>8. Understood(process, wish) /\ wish' = wish
      BY <3>1, <3>6
    <3>9. QED BY <2>4, <3>2, <3>3, <3>7, <3>8 DEF Understood
  <2>5. QED BY <1>1, <2>3, <2>4 DEF Handlers
<1>5. QED BY <1>3, <1>4 DEF Finished

LEMMA FinishedHolds ==
  ASSUME ConversationInv, NEW t \in Tasks, Finished(t)
  PROVE  ConversationInv'
<1> DEFINE h == Handler(call[t].kind)
<1> HIDE DEF h
<1>1. /\ call[t].at = "finish" /\ Over(t) /\ h \in Handlers
      /\ {speech_message_content', music_id', music_url'} \subseteq 0 .. Utterances
      /\ qianfan_message_content' \in 0 .. Announcement
      /\ process_rec_q' \in Seq({"SPEECH_GET", "QIANFAN_GET"})
      /\ Len(process_rec_q') <= QueueLen
      /\ data' \in [Handlers -> Seq(Pieces)] /\ data_len' \in [Handlers -> Nat]
      /\ dirty' \in [Handlers -> BOOLEAN]
      /\ dirty'[h] \/ (data'[h] = <<>> /\ data_len'[h] = 0)
      /\ data'[h] = <<>>
      /\ \A g \in Handlers : g # h =>
           dirty'[g] = dirty[g] /\ data'[g] = data[g] /\ data_len'[g] = data_len[g]
  BY FinishedFacts DEF h
<1>2. TypeOK'
  BY <1>1, OverCalls DEF ConversationInv, TypeOK, Calls, Over, env
<1>3. HealInv'
  BY <1>1, OverHeals DEF h
<1>4. KindInv'
  <2>1. \A g \in Handlers : data'[g] = data[g] \/ data'[g] = <<>>
    BY <1>1
  <2>2. QED BY <2>1 DEF ConversationInv, KindInv
<1>5. SongInv'
  <2>1. SUFFICES ASSUME wish' # 0 PROVE SongInv'
    BY DEF SongInv
  <2>2. /\ wish' = wish
        /\ h = "response" => UNCHANGED <<music_id, music_url>>
        /\ h = "music" => IF process = "list" THEN music_id' = wish
                                              ELSE music_url' = wish /\ UNCHANGED music_id
        /\ h = "music" => data_len'["music"] = 0
    BY <2>1, FinishedWish DEF h
  <2>3. CASE h = "response"
    BY <1>1, <2>2, <2>3, OverSong DEF Handlers, h
  <2>4. CASE h = "music"
    <3>1. t = "process" /\ call'["process"].at = "idle" /\ process' = process
      BY <1>1, <2>4, MusicIsProcess, OverCalls DEF ConversationInv, Over, h
    <3>2. process \in {"list", "url"} /\ (process = "url" => music_id = wish)
      <4>1. call[t].kind \in {"list", "url"}
        BY <2>4, TypeFacts DEF ConversationInv, Calls, Kinds, Handler, h
      <4>2. QED
        BY <1>1, <2>1, <2>2, <3>1, <4>1 DEF ConversationInv, CallInv, SongInv, TypeOK
    <3>3. QED BY <1>1, <2>2, <2>4, <3>1, <3>2 DEF SongInv
  <2>5. QED BY <1>1, <2>3, <2>4 DEF Handlers
<1>6. QED BY <1>1, <1>2, <1>3, <1>4, <1>5, OverCalls DEF ConversationInv

-----------------------------------------------------------------------------
(* The tasks                                                               *)

\* A step that leaves the requests and the songs alone, and where process_task
\* is not in a lookup.
LEMMA AsideHolds ==
  ASSUME ConversationInv, TypeOK',
         UNCHANGED <<data, data_len, dirty, call, music_id, music_url, wish>>,
         \/ process' = process
         \/ process' \in {"receive", "grace"} /\ call["process"].at = "idle"
  PROVE  ConversationInv'
<1>1. CallInv'
  BY DEF ConversationInv, CallInv
<1>2. HealInv'
  BY QuietHeals DEF ConversationInv
<1>3. KindInv' /\ SongInv'
  BY DEF ConversationInv, KindInv, SongInv, Received
<1>4. QED BY <1>1, <1>2, <1>3 DEF ConversationInv

\* A request begins where there was none.
LEMMA RequestHeals ==
  ASSUME ConversationInv, NEW t \in Tasks, NEW kind \in Kinds, NEW id \in 0 .. Utterances,
         Request(t, kind, id), call[t].at = "idle", UNCHANGED <<data, data_len, dirty>>
  PROVE  HealInv' /\ KindInv'
<1>1. \A u \in Tasks : u # t => call'[u] = call[u]
  BY RequestType DEF ConversationInv
<1>2. HealInv'
  BY <1>1, QuietHeals DEF ConversationInv
<1>3. QED BY <1>2 DEF ConversationInv, KindInv

\* While process_task makes no request, nothing is in the music handler's buffer.
LEMMA MusicEmpty ==
  ASSUME ConversationInv, call["process"].at = "idle", ~dirty["music"]
  PROVE  data["music"] = <<>> /\ data_len["music"] = 0
<1>1. \A t \in Tasks : ~Uses(t, "music")
  BY MusicIsProcess DEF ConversationInv, Uses
<1>2. "music" \in Handlers
  BY DEF Handlers
<1>3. QED BY <1>1, <1>2 DEF ConversationInv, HealInv

LEMMA SpeakHolds ==
  ASSUME ConversationInv, Speak
  PROVE  ConversationInv'
<1>1. /\ call["voice"].at = "idle" /\ spoken < Utterances /\ spoken' = spoken + 1
      /\ Request("voice", "speech", spoken + 1)
      /\ UNCHANGED <<data, data_len, texts, process_rec_q, process, tts, announced,
                     dirty, wish>>
  BY DEF Speak
<1>2. spoken + 1 \in 0 .. Utterances /\ "voice" \in Tasks /\ "speech" \in Kinds
  BY <1>1, Bounds DEF ConversationInv, TypeOK, Tasks, Kinds
<1>3. /\ call' \in [Tasks -> Calls]
      /\ call'["voice"] = [at |-> "flight", kind |-> "speech", id |-> spoken + 1,
                           part |-> 0, failed |-> FALSE]
      /\ \A u \in Tasks : u # "voice" => call'[u] = call[u]
  BY <1>1, <1>2, RequestType DEF ConversationInv
<1>4. call'["process"] = call["process"] /\ call'["voice"].at = "flight"
      /\ call'["voice"].kind = "speech"
  BY <1>3 DEF Tasks
<1>5. TypeOK'
  BY <1>1, <1>2, <1>3 DEF ConversationInv, TypeOK, Calls, texts
<1>6. CallInv'
  BY <1>1, <1>3, <1>4 DEF ConversationInv, CallInv, Tasks
<1>7. HealInv' /\ KindInv'
  BY <1>1, <1>2, RequestHeals
<1>8. SongInv'
  BY <1>1, <1>4 DEF ConversationInv, SongInv, Received, texts
<1>9. QED BY <1>5, <1>6, <1>7, <1>8 DEF ConversationInv

LEMMA SpeechMusicHolds ==
  ASSUME ConversationInv, SpeechMusic
  PROVE  ConversationInv'
<1>1. /\ Take("SPEECH_GET") /\ process' = "list"
      /\ Request("process", "list", speech_message_content)
      /\ wish' = IF dirty["music"] THEN 0 ELSE speech_message_content
      /\ UNCHANGED <<data, data_len, texts, tts, env, dirty>>
  BY DEF SpeechMusic
<1>2. /\ speech_message_content \in 0 .. Utterances
      /\ "process" \in Tasks /\ "list" \in Kinds
  BY DEF ConversationInv, TypeOK, Tasks, Kinds
<1>3. /\ call' \in [Tasks -> Calls]
      /\ call'["process"] = [at |-> "flight", kind |-> "list",
                             id |-> speech_message_content, part |-> 0, failed |-> FALSE]
      /\ \A u \in Tasks : u # "process" => call'[u] = call[u]
  BY <1>1, <1>2, RequestType DEF ConversationInv
<1>4. /\ call'["voice"] = call["voice"] /\ call'["process"].at = "flight"
      /\ call'["process"].kind = "list" /\ call'["process"].part = 0
      /\ call'["process"].id = speech_message_content
  BY <1>3 DEF Tasks
<1>5. TypeOK'
  BY <1>1, <1>3, TakeType DEF ConversationInv, TypeOK, Calls, texts, env
<1>6. CallInv'
  BY <1>1, <1>3, <1>4 DEF ConversationInv, CallInv, Tasks
<1>7. call["process"].at = "idle"
  BY <1>1, TakeType DEF ConversationInv, CallInv
<1>8. HealInv' /\ KindInv'
  BY <1>1, <1>2, <1>7, RequestHeals
<1>9. SongInv'
  <2>1. SUFFICES ASSUME ~dirty["music"] PROVE SongInv'
    BY <1>1 DEF SongInv
  <2>2. data'["music"] = <<>> /\ data_len'["music"] = 0
    BY <1>1, <1>7, <2>1, MusicEmpty
  <2>3. Received(call["process"])'
    BY <1>4, <2>2 DEF Received
  <2>4. QED BY <1>1, <1>4, <2>1, <2>3 DEF SongInv
<1>10. QED BY <1>5, <1>6, <1>8, <1>9 DEF ConversationInv

LEMMA MusicUrlHolds ==
  ASSUME ConversationInv, MusicUrl
  PROVE  ConversationInv'
<1>1. /\ process = "list" /\ call["process"].at = "idle" /\ process' = "url"
      /\ Request("process", "url", music_id)
      /\ UNCHANGED <<data, data_len, texts, process_rec_q, tts, env, dirty, wish>>
  BY DEF MusicUrl, ghosts
<1>2. music_id \in 0 .. Utterances /\ "process" \in Tasks /\ "url" \in Kinds
  BY DEF ConversationInv, TypeOK, Tasks, Kinds
<1>3. /\ call' \in [Tasks -> Calls]
      /\ call'["process"] = [at |-> "flight", kind |-> "url", id |-> music_id,
                             part |-> 0, failed |-> FALSE]
      /\ \A u \in Tasks : u # "process" => call'[u] = call[u]
  BY <1>1, <1>2, RequestType DEF ConversationInv
<1>4. /\ call'["voice"] = call["voice"] /\ call'["process"].at = "flight"
      /\ call'["process"].kind = "url" /\ call'["process"].part = 0
      /\ call'["process"].id = music_id
  BY <1>3 DEF Tasks
<1>5. TypeOK'
  BY <1>1, <1>3 DEF ConversationInv, TypeOK, Calls, texts, env
<1>6. CallInv'
  BY <1>1, <1>3, <1>4 DEF ConversationInv, CallInv, Tasks
<1>7. HealInv' /\ KindInv'
  BY <1>1, <1>2, RequestHeals
<1>8. SongInv'
  <2>1. SUFFICES ASSUME wish # 0 PROVE SongInv'
    BY <1>1 DEF SongInv
  <2>2. music_id = wish /\ data["music"] = <<>> /\ data_len["music"] = 0
    BY <1>1, <2>1 DEF ConversationInv, SongInv
  <2>3. Received(call["process"])'
    BY <1>1, <1>4, <2>2 DEF Received
  <2>4. QED BY <1>1, <1>4, <2>2, <2>3 DEF SongInv, texts
<1>9. QED BY <1>5, <1>6, <1>7, <1>8 DEF ConversationInv

LEMMA AskChatHolds ==
  ASSUME ConversationInv, AskChat
  PROVE  ConversationInv'
<1>1. /\ process = "grace" /\ process' = "ask"
      /\ Request("process", "chat", speech_message_content)
      /\ UNCHANGED <<data, data_len, texts, process_rec_q, tts, env, dirty, wish>>
  BY DEF AskChat, ghosts
<1>2. /\ speech_message_content \in 0 .. Utterances
      /\ "process" \in Tasks /\ "chat" \in Kinds /\ call["process"].at = "idle"
  BY <1>1 DEF ConversationInv, TypeOK, CallInv, Tasks, Kinds
<1>3. /\ call' \in [Tasks -> Calls]
      /\ call'["process"] = [at |-> "flight", kind |-> "chat",
                             id |-> speech_message_content, part |-> 0, failed |-> FALSE]
      /\ \A u \in Tasks : u # "process" => call'[u] = call[u]
  BY <1>1, <1>2, RequestType DEF ConversationInv
<1>4. /\ call'["voice"] = call["voice"] /\ call'["process"].at = "flight"
      /\ call'["process"].kind = "chat"
  BY <1>3 DEF Tasks
<1>5. TypeOK'
  BY <1>1, <1>3 DEF ConversationInv, TypeOK, Calls, texts, env
<1>6. CallInv'
  BY <1>1, <1>3, <1>4 DEF ConversationInv, CallInv, Tasks
<1>7. HealInv' /\ KindInv'
  BY <1>1, <1>2, RequestHeals
<1>8. SongInv'
  BY <1>1 DEF SongInv
<1>9. QED BY <1>5, <1>6, <1>7, <1>8 DEF ConversationInv

LEMMA MusicFetchedHolds ==
  ASSUME ConversationInv, MusicFetched
  PROVE  ConversationInv'
<1>1. /\ process = "url" /\ call["process"].at = "idle" /\ process' = "play"
      /\ UNCHANGED <<data, data_len, call, texts, process_rec_q, tts, env, dirty, wish>>
  BY DEF MusicFetched, ghosts
<1>2. TypeOK'
  BY <1>1 DEF ConversationInv, TypeOK, texts, env
<1>3. CallInv' /\ KindInv' /\ SongInv'
  BY <1>1 DEF ConversationInv, CallInv, KindInv, SongInv, texts
<1>4. HealInv'
  BY <1>1, QuietHeals DEF ConversationInv
<1>5. QED BY <1>2, <1>3, <1>4 DEF ConversationInv

\* The steps that begin no request and leave no lookup unfinished.
LEMMA OtherHolds ==
  ASSUME ConversationInv,
         \/ Announce \/ SpeechEmpty \/ MusicCreate \/ SpeechChat \/ Asked
         \/ AnswerCreate \/ Say
  PROVE  ConversationInv'
<1>1. TypeOK /\ process \in {"receive", "list", "url", "play", "grace", "ask"}
      /\ Announcement \in 0 .. Announcement
  BY Bounds DEF ConversationInv, TypeOK, Announcement
<1>2. CASE Announce
  <2>1. TypeOK'
    BY <1>1, <1>2 DEF Announce, TypeOK
  <2>2. QED BY <1>2, <2>1, AsideHolds DEF Announce
<1>3. CASE SpeechEmpty
  <2>1. TypeOK'
    BY <1>1, <1>3, TakeType DEF SpeechEmpty, TypeOK, texts, env
  <2>2. QED BY <1>3, <2>1, AsideHolds DEF SpeechEmpty, texts, ghosts
<1>4. CASE MusicCreate
  <2>1. TypeOK'
    BY <1>1, <1>4 DEF MusicCreate, TypeOK, texts, env
  <2>2. call["process"].at = "idle"
    BY <1>4 DEF MusicCreate, ConversationInv, CallInv
  <2>3. QED BY <1>4, <2>1, <2>2, AsideHolds DEF MusicCreate, texts, ghosts
<1>5. CASE SpeechChat
  <2>1. TypeOK'
    BY <1>1, <1>5, TakeType DEF SpeechChat, TypeOK, texts, env
  <2>2. call["process"].at = "idle"
    BY <1>1, <1>5, TakeType DEF SpeechChat, ConversationInv, CallInv
  <2>3. QED BY <1>5, <2>1, <2>2, AsideHolds DEF SpeechChat, texts, ghosts
<1>6. CASE Asked
  <2>1. TypeOK'
    BY <1>1, <1>6 DEF Asked, TypeOK, texts, env
  <2>2. QED BY <1>6, <2>1, AsideHolds DEF Asked, texts, ghosts
<1>7. CASE AnswerCreate
  <2>1. TypeOK'
    BY <1>1, <1>7, TakeType DEF AnswerCreate, TypeOK, texts, env
  <2>2. QED BY <1>7, <2>1, AsideHolds DEF AnswerCreate, texts, ghosts
<1>8. CASE Say
  <2>1. TypeOK'
    BY <1>1, <1>8 DEF Say, TypeOK, texts, env
  <2>2. QED BY <1>8, <2>1, AsideHolds DEF Say, texts
<1>9. QED BY <1>2, <1>3, <1>4, <1>5, <1>6, <1>7, <1>8

-----------------------------------------------------------------------------
(* The invariant of all conversations                                      *)

\* The inductive invariant: which requests the tasks make, whose the buffers of
\* the handlers are, and how far a lookup has come (c_http.c 40-443).
THEOREM ConversationInvariant == Spec => []ConversationInv
<1>1. ConversationInv /\ [Next]_vars => ConversationInv'
  <2>1. SUFFICES ASSUME ConversationInv, [Next]_vars PROVE ConversationInv'
    OBVIOUS
  <2>2. CASE Speak
    BY <2>1, <2>2, SpeakHolds
  <2>3. CASE Announce \/ Say
    BY <2>1, <2>3, OtherHolds
  <2>4. CASE ProcessTask
    BY <2>1, <2>4, SpeechMusicHolds, MusicUrlHolds, MusicFetchedHolds, AskChatHolds,
       OtherHolds DEF ProcessTask
  <2>5. ASSUME NEW t \in Tasks, Client(t)
        PROVE  ConversationInv'
    <3>1. OnData(t) => ConversationInv'
      BY <2>1, EnterHolds DEF OnData
    <3>2. OnFinish(t) => ConversationInv'
      BY <2>1, EnterHolds DEF OnFinish
    <3>3. QED
      BY <2>1, <2>5, <3>1, <3>2, StoreHolds, StoreFailsHolds, FinishedHolds,
         BreakOffHolds DEF Client
  <2>6. CASE UNCHANGED vars
    <3>1. TypeOK'
      BY <2>1, <2>6 DEF vars, texts, env, ConversationInv, TypeOK
    <3>2. QED BY <2>1, <2>6, <3>1, AsideHolds DEF vars, texts, ghosts
  <2>7. QED BY <2>1, <2>2, <2>3, <2>4, <2>5, <2>6 DEF Next, Rest
<1>2. QED BY InitHolds, <1>1, PTL DEF Spec

\* Buffers, requests, texts and queue stay in their types, the queue within its
\* length.
THEOREM TypeCorrect == Spec => []TypeOK
<1>1. ConversationInv => TypeOK
  BY DEF ConversationInv
<1>2. QED BY ConversationInvariant, <1>1, PTL

\* A buffer nobody uses is empty, unless a failure left something in it,
\* whatever two requests did with it before (data and data_len in c_http.c).
THEOREM BuffersHeal == Spec => []BufferHeals
<1>1. ConversationInv => BufferHeals
  BY DEF ConversationInv, HealInv, BufferHeals, Uses
<1>2. QED BY ConversationInvariant, <1>1, PTL

\* The song that is played is the one looked up for the wish (get_music_list,
\* get_music_url and the globals music_id and music_url).
THEOREM PlaysTheWish == Spec => []PlaysTheSong
<1>1. ConversationInv => PlaysTheSong
  BY DEF ConversationInv, SongInv, PlaysTheSong
<1>2. QED BY ConversationInvariant, <1>1, PTL

-----------------------------------------------------------------------------
(* Nobody speaks over the machine                                          *)

\* process_task works: it is not at its queue, nor about to go back to it.
Working == process # "receive" /\ ~(process = "ask" /\ call["process"].at = "idle")

\* In a calm conversation one at most of the recorder's task, process_task,
\* its queue and the players has something to do.
BatonInv ==
  /\ calm \in BOOLEAN
  /\ calm =>
       /\ Len(process_rec_q) + tts <= 1
       /\ Working => Len(process_rec_q) + tts = 0
       /\ call["voice"].at # "idle" => process = "receive" /\ Len(process_rec_q) + tts = 0

LEMMA QueueFacts ==
  ASSUME TypeOK
  PROVE  /\ Len(process_rec_q) \in Nat /\ tts \in Nat
         /\ process_rec_q = <<>> <=> Len(process_rec_q) = 0
         /\ \A m : Take(m) => Len(process_rec_q') = Len(process_rec_q) - 1
<1>1. process_rec_q \in Seq({"SPEECH_GET", "QIANFAN_GET"}) /\ tts \in Nat
  BY DEF TypeOK
<1>2. QED BY <1>1 DEF Take

\* A request of process_task is part of its work.
LEMMA RequestIsWork ==
  ASSUME ConversationInv, call["process"].at # "idle"
  PROVE  Working /\ process \in {"list", "url", "ask"}
BY DEF ConversationInv, CallInv, TypeOK, Working

\* In a calm conversation one request is made at a time.
LEMMA OneRequest ==
  ASSUME ConversationInv, BatonInv, calm, NEW t \in Tasks, call[t].at # "idle"
  PROVE  /\ \A u \in Tasks : u # t => call[u].at = "idle"
         /\ process_rec_q = <<>> /\ tts = 0 /\ process \notin {"grace", "play"}
         /\ t = "voice" => process = "receive"
<1>1. CASE t = "voice"
  <2>1. process = "receive" /\ Len(process_rec_q) + tts = 0
    BY <1>1 DEF BatonInv
  <2>2. call["process"].at = "idle"
    BY <2>1 DEF ConversationInv, CallInv
  <2>3. QED BY <1>1, <2>1, <2>2, QueueFacts DEF Tasks, ConversationInv
<1>2. CASE t = "process"
  <2>1. Working /\ process \in {"list", "url", "ask"}
    BY <1>2, RequestIsWork
  <2>2. Len(process_rec_q) + tts = 0 /\ call["voice"].at = "idle"
    BY <2>1 DEF BatonInv
  <2>3. QED BY <1>2, <2>1, <2>2, QueueFacts DEF Tasks, ConversationInv
<1>3. QED BY <1>1, <1>2 DEF Tasks

\* What the end of a request sends, and to whom it leaves the turn.
LEMMA FinishedSends ==
  ASSUME ConversationInv, BatonInv, calm, NEW t \in Tasks, Finished(t)
  PROVE  /\ \/ process_rec_q' = <<>>
            \/ /\ Handler(call[t].kind) = "response"
               /\ \E m : process_rec_q' = <<m>>
         /\ process' = process /\ tts' = 0
<1> DEFINE h == Handler(call[t].kind)
           s == data[h]
<1>1. /\ process_rec_q = <<>> /\ tts = 0 /\ Over(t) /\ h \in Handlers
  BY FinishedFacts, OneRequest
<1>2. data \in [Handlers -> Seq(Pieces)]
  BY DEF ConversationInv, TypeOK
<1>3. process' = process /\ tts' = 0
  BY <1>1 DEF Over
<1>4. \A m : Send(m) => process_rec_q' = <<m>>
  <2>1. Len(process_rec_q) = 0
    BY <1>1
  <2>2. \A m : Append(process_rec_q, m) = <<m>>
    BY <1>1
  <2>3. QED BY <2>1, <2>2, Bounds DEF Send
<1>5. CASE FinishedEmpty(t)
  BY <1>1, <1>3, <1>5 DEF FinishedEmpty
<1>6. CASE FinishedParsed(t)
  <2>1. s # <<>> /\ (Understood(s[1].kind, s[1].id) \/ UNCHANGED process_rec_q)
    BY <1>6 DEF FinishedParsed, NoResult
  <2>2. 1 \in 1 .. Len(s)
    BY <1>1, <1>2, <2>1
  <2>3. s[1].kind \in {"speech", "chat"} => h = "response"
    BY <1>1, <2>2 DEF ConversationInv, KindInv, Handler
  <2>4. CASE Understood(s[1].kind, s[1].id)
    BY <1>1, <1>3, <1>4, <2>3, <2>4 DEF Understood
  <2>5. QED BY <1>1, <1>3, <2>1, <2>4
<1>7. QED BY <1>5, <1>6 DEF Finished

\* The conversation was calm, if it is.
LEMMA CalmBefore ==
  ASSUME BatonInv, [Next]_vars
  PROVE  calm' \in BOOLEAN /\ (calm' => calm)
<1>1. CASE Speak \/ Announce
  BY <1>1, Zenon DEF BatonInv, Speak, Announce
<1>2. CASE UNCHANGED calm
  BY <1>2 DEF BatonInv
<1>3. \A t \in Tasks : Client(t) => UNCHANGED calm
  BY DEF Client, OnData, OnFinish, Enter, Store, StoreFails, Finished, BreakOff, ghosts
<1>4. ProcessTask => UNCHANGED calm
  BY DEF ProcessTask, SpeechEmpty, SpeechMusic, MusicUrl, MusicFetched, MusicCreate,
         SpeechChat, AskChat, Asked, AnswerCreate, ghosts
<1>5. Say \/ UNCHANGED vars => UNCHANGED calm
  BY DEF Say, vars, ghosts
<1>6. QED BY <1>1, <1>2, <1>3, <1>4, <1>5 DEF Next, Rest

LEMMA BatonHolds ==
  ASSUME ConversationInv, ConversationInv', BatonInv, [Next]_vars
  PROVE  BatonInv'
<1>1. Len(process_rec_q) \in Nat /\ tts \in Nat
  BY QueueFacts DEF ConversationInv
<1>2. calm' \in BOOLEAN /\ (calm' => calm)
  BY CalmBefore
<1>3. SUFFICES ASSUME calm'
      PROVE  /\ Len(process_rec_q') + tts' <= 1
             /\ Working' => Len(process_rec_q') + tts' = 0
             /\ call'["voice"].at # "idle"
                  => process' = "receive" /\ Len(process_rec_q') + tts' = 0
  BY <1>2 DEF BatonInv
<1>4. /\ calm /\ Len(process_rec_q) + tts <= 1
      /\ Working => Len(process_rec_q) + tts = 0
      /\ call["voice"].at # "idle" => process = "receive" /\ Len(process_rec_q) + tts = 0
  BY <1>2, <1>3 DEF BatonInv
<1>5. CASE Speak \/ Announce
  <2>1. Idle
    BY <1>3, <1>5 DEF Speak, Announce
  <2>2. process' = "receive" /\ Len(process_rec_q') = 0 /\ (tts' = 0 \/ tts' = 1)
    BY <1>5, <2>1 DEF Speak, Announce, Idle
  <2>3. Speak => tts' = 0
    BY <2>1 DEF Speak, Idle
  <2>4. Announce => call'["voice"].at = "idle"
    BY <2>1 DEF Announce, Idle, Tasks
  <2>5. ~Working'
    BY <2>2 DEF Working
  <2>6. Len(process_rec_q') + tts' <= 1 /\ (tts' = 0 => Len(process_rec_q') + tts' = 0)
    BY <2>2
  <2>7. QED BY <1>5, <2>2, <2>3, <2>4, <2>5, <2>6, Zenon
<1>6. CASE Say
  BY <1>1, <1>4, <1>6 DEF Say, Working
<1>7. CASE UNCHANGED vars
  BY <1>4, <1>7 DEF vars, Working
<1>8. ASSUME NEW t \in Tasks, OnData(t) \/ OnFinish(t) \/ Store(t) \/ StoreFails(t)
      PROVE  BatonInv'
  <2>1. /\ call \in [Tasks -> Calls] /\ call[t].at # "idle"
        /\ UNCHANGED <<process, process_rec_q, tts, calm>>
    BY <1>8, TypeFacts
       DEF OnData, OnFinish, Enter, Store, StoreFails, ConversationInv, ghosts
  <2>2. \A u \in Tasks : call'[u].at = "idle" <=> call[u].at = "idle"
    <3>1. \E c : c.at # "idle" /\ call' = [call EXCEPT ![t] = c]
      <4>1. CASE OnData(t) \/ OnFinish(t)
        <5>1. PICK event \in {"data", "finish"} : call' = [call EXCEPT ![t].at = event]
          BY <4>1 DEF OnData, OnFinish, Enter
        <5>2. [call[t] EXCEPT !.at = event].at = event
          BY <2>1 DEF Calls
        <5>3. QED BY <5>1, <5>2
      <4>2. CASE Store(t)
        <5>1. call' = [call EXCEPT ![t].at = "flight", ![t].part = @ + 1]
          BY <4>2 DEF Store
        <5>2. [call[t] EXCEPT !.at = "flight", !.part = @ + 1].at = "flight"
          BY <2>1 DEF Calls
        <5>3. QED BY <2>1, <5>1, <5>2
      <4>3. CASE StoreFails(t)
        <5>1. call' = [call EXCEPT ![t].at = "flight", ![t].part = @ + 1, ![t].failed = TRUE]
          BY <4>3 DEF StoreFails
        <5>2. [call[t] EXCEPT !.at = "flight", !.part = @ + 1, !.failed = TRUE].at = "flight"
          BY <2>1 DEF Calls
        <5>3. QED BY <2>1, <5>1, <5>2
      <4>4. QED BY <1>8, <4>1, <4>2, <4>3
    <3>2. QED BY <2>1, <3>1
  <2>3. QED BY <2>1, <2>2 DEF BatonInv, Working, Tasks
<1>9. ASSUME NEW t \in Tasks, BreakOff(t) \/ Finished(t)
      PROVE  BatonInv'
  <2>1. Over(t) /\ call[t].at # "idle"
    BY <1>9, FinishedFacts DEF BreakOff, Over
  <2>2. call'[t].at = "idle" /\ process' = process
    BY <2>1, OverCalls DEF Over
  <2>3. /\ \A u \in Tasks : call'[u].at = "idle"
        /\ process_rec_q = <<>> /\ tts = 0 /\ process \notin {"grace", "play"}
        /\ t = "voice" => process = "receive"
    BY <1>4, <2>1, OneRequest, OverCalls
  <2>4. /\ process_rec_q' = <<>> \/ Handler(call[t].kind) = "response"
        /\ (Len(process_rec_q') = 0 \/ Len(process_rec_q') = 1) /\ tts' = 0
    <3>1. CASE BreakOff(t)
      BY <2>3, <3>1 DEF BreakOff
    <3>2. CASE Finished(t)
      BY <1>4, <3>2, FinishedSends
    <3>3. QED BY <1>9, <3>1, <3>2
  <2>5. ASSUME Working' PROVE process_rec_q' = <<>>
    <3>1. t = "process" /\ process \in {"list", "url"}
      BY <2>1, <2>2, <2>3, <2>5, RequestIsWork DEF Working, Tasks
    <3>2. QED BY <2>1, <2>4, <3>1 DEF ConversationInv, CallInv, Handler
  <2>6. Working' => Len(process_rec_q') + tts' = 0
    BY <2>4, <2>5
  <2>7. call'["voice"].at = "idle"
    BY <2>3 DEF Tasks
  <2>8. Len(process_rec_q') + tts' <= 1
    <3>1. CASE Len(process_rec_q') = 0
      BY <2>4, <3>1
    <3>2. CASE Len(process_rec_q') = 1
      BY <2>4, <3>2
    <3>3. QED BY <2>4, <3>1, <3>2
  <2>9. QED BY <1>2, <2>6, <2>7, <2>8 DEF BatonInv
<1>10. CASE ProcessTask
  <2>1. call'["voice"] = call["voice"]
    BY <1>10, TypeFacts DEF ProcessTask, SpeechEmpty, SpeechMusic, MusicUrl, MusicFetched,
       MusicCreate, SpeechChat, AskChat, Asked, AnswerCreate, Request, Tasks,
       ConversationInv
  <2>2. ASSUME NEW m, Take(m)
        PROVE  /\ Len(process_rec_q) = 1 /\ tts = 0 /\ Len(process_rec_q') = 0
               /\ process = "receive" /\ call["voice"].at = "idle"
    <3>1. /\ process = "receive" /\ Len(process_rec_q) # 0
          /\ Len(process_rec_q') = Len(process_rec_q) - 1
      BY <2>2, QueueFacts DEF Take, ConversationInv
    <3>2. Len(process_rec_q) = 1 /\ tts = 0
      BY <1>1, <1>4, <3>1
    <3>3. call["voice"].at = "idle"
      BY <1>4, <3>2
    <3>4. QED BY <3>1, <3>2, <3>3
  <2>3. CASE SpeechEmpty
    BY <2>1, <2>2, <2>3 DEF SpeechEmpty, Working
  <2>4. CASE SpeechMusic
    BY <2>1, <2>2, <2>4 DEF SpeechMusic, Working
  <2>5. CASE SpeechChat
    BY <2>1, <2>2, <2>5 DEF SpeechChat, Working
  <2>6. CASE AnswerCreate
    BY <2>1, <2>2, <2>6 DEF AnswerCreate, Working
  <2>7. CASE MusicUrl \/ MusicFetched \/ MusicCreate \/ AskChat
    BY <1>4, <2>1, <2>7 DEF MusicUrl, MusicFetched, MusicCreate, AskChat, Working
  <2>8. CASE Asked
    BY <1>4, <2>1, <2>8 DEF Asked, Working
  <2>9. QED BY <1>10, <2>3, <2>4, <2>5, <2>6, <2>7, <2>8 DEF ProcessTask
<1>11. ASSUME NEW t \in Tasks, Client(t)
       PROVE  BatonInv'
  BY <1>8, <1>9, <1>11 DEF Client
<1>12. (\E t \in Tasks : Client(t)) =>
         /\ Len(process_rec_q') + tts' <= 1
         /\ Working' => Len(process_rec_q') + tts' = 0
         /\ call'["voice"].at # "idle"
              => process' = "receive" /\ Len(process_rec_q') + tts' = 0
  BY <1>3, <1>11, Zenon DEF BatonInv
<1>13. QED
  BY <1>5, <1>6, <1>7, <1>10, <1>12, Zenon DEF Next, Rest

-----------------------------------------------------------------------------
(* The answers are said in order                                           *)

Unsaid(id) == \A i \in 1 .. Len(said) : said[i] # id
Newest(id) == \A i \in 1 .. Len(said) : said[i] < id \/ said[i] = Announcement
Fresh(id)  == id \in 1 .. spoken /\ Newest(id)
Queued(m)  == process_rec_q # <<>> /\ Head(process_rec_q) = m

SaidSoFar ==
  /\ \A i \in 1 .. Len(said) :
       said[i] \in 1 .. spoken \/ (said[i] = Announcement /\ announced)
  /\ \A i, j \in 1 .. Len(said) : i < j =>
       said[i] < said[j] \/ (said[i] = Announcement /\ said[j] # Announcement)

\* What may still become an answer is newer than all that was said: what the
\* buffer holds, even if it is left from a request that failed, ...
BufferFresh ==
  \A i \in 1 .. Len(data["response"]) :
    data["response"][i].kind # "junk" => Fresh(data["response"][i].id)

\* ... what is asked for, ...
RequestFresh ==
  \A t \in Tasks : call[t].at # "idle" /\ Handler(call[t].kind) = "response"
    => Fresh(call[t].id)

\* ... and the texts that process_task and the players will read.
TextFresh ==
  /\ Queued("SPEECH_GET") \/ process = "grace" =>
       /\ data["response"] = <<>>
       /\ speech_message_content = 0 \/ Fresh(speech_message_content)
  /\ process = "grace" => speech_message_content # 0
  /\ Queued("QIANFAN_GET") \/ tts > 0 =>
       \/ Fresh(qianfan_message_content) /\ data["response"] = <<>>
       \/ /\ qianfan_message_content = Announcement /\ announced
          /\ Unsaid(Announcement)

AllFresh == SaidSoFar /\ BufferFresh /\ RequestFresh /\ TextFresh
FreshInv == said \in Seq(0 .. Announcement) /\ (calm => AllFresh)

LEMMA FreshFacts ==
  ASSUME TypeOK, TypeOK', AllFresh, UNCHANGED said, spoken' >= spoken,
         announced => announced'
  PROVE  /\ SaidSoFar'
         /\ \A id : Unsaid(id)' <=> Unsaid(id)
         /\ \A id : Newest(id)' <=> Newest(id)
         /\ \A id : Fresh(id) => Fresh(id)'
<1>1. spoken \in Nat /\ spoken' \in Nat
  BY Bounds DEF TypeOK
<1>2. \A id \in 1 .. spoken : id \in 1 .. spoken'
  BY <1>1
<1>3. SaidSoFar'
  BY <1>2 DEF AllFresh, SaidSoFar, Announcement
<1>4. \A id : (Unsaid(id)' <=> Unsaid(id)) /\ (Newest(id)' <=> Newest(id))
  BY DEF Unsaid, Newest, Announcement
<1>5. QED BY <1>2, <1>3, <1>4 DEF Fresh

\* A step that leaves the texts, the queue and what is said alone.
LEMMA FreshKept ==
  ASSUME TypeOK, TypeOK', AllFresh, BufferFresh', RequestFresh',
         UNCHANGED <<said, spoken, announced, process, process_rec_q, tts,
                     speech_message_content, qianfan_message_content>>,
         \/ data'["response"] = data["response"]
         \/ ~Queued("SPEECH_GET") /\ ~Queued("QIANFAN_GET") /\ process # "grace" /\ tts = 0
  PROVE  AllFresh'
<1>1. /\ SaidSoFar'
      /\ \A id : Unsaid(id)' <=> Unsaid(id)
      /\ \A id : Fresh(id) => Fresh(id)'
  <2>1. spoken' >= spoken
    BY Bounds DEF TypeOK
  <2>2. QED BY <2>1, FreshFacts
<1>2. \A m : Queued(m)' <=> Queued(m)
  BY DEF Queued
<1>3. (tts > 0)' <=> tts > 0
  OBVIOUS
<1>4. tts = 0 => ~(tts > 0)
  OBVIOUS
<1>5. TextFresh'
  BY <1>1, <1>2, <1>3, <1>4 DEF AllFresh, TextFresh, Announcement
<1>6. QED BY <1>1, <1>5 DEF AllFresh

LEMMA SpeakFresh ==
  ASSUME ConversationInv, TypeOK', AllFresh, Speak, Idle
  PROVE  AllFresh'
<1>1. /\ spoken' = spoken + 1 /\ spoken < Utterances
      /\ Request("voice", "speech", spoken + 1)
      /\ UNCHANGED <<data, texts, process_rec_q, process, tts, announced, said>>
  BY DEF Speak
<1>2. spoken \in Nat /\ spoken + 1 \in 0 .. Utterances
  BY <1>1, Bounds DEF ConversationInv, TypeOK
<1>3. /\ SaidSoFar'
      /\ \A id : Newest(id)' <=> Newest(id)
      /\ \A id : Fresh(id) => Fresh(id)'
  <2>1. spoken' >= spoken
    BY <1>1, <1>2
  <2>2. QED BY <1>1, <2>1, FreshFacts DEF ConversationInv
<1>4. PICK new : new = spoken + 1
  OBVIOUS
<1>5. Fresh(new)'
  <2>1. new # Announcement /\ new \notin 1 .. spoken /\ new \in 1 .. spoken'
    BY <1>1, <1>2, <1>4, Bounds DEF Announcement
  <2>2. \A id \in 1 .. spoken : id < new
    BY <1>2, <1>4
  <2>3. Newest(new)
    BY <2>2 DEF AllFresh, SaidSoFar, Newest
  <2>4. QED BY <1>3, <2>1, <2>3 DEF Fresh
<1>6. BufferFresh'
  BY <1>1, <1>3 DEF AllFresh, BufferFresh
<1>7. RequestFresh'
  <2>1. "voice" \in Tasks /\ "speech" \in Kinds /\ "process" \in Tasks
    BY DEF Tasks, Kinds
  <2>2. call'["voice"].id = new /\ call'["process"] = call["process"]
    <3>1. Request("voice", "speech", new) /\ new \in 0 .. Utterances
      BY <1>1, <1>2, <1>4
    <3>2. /\ call'["voice"] = [at |-> "flight", kind |-> "speech", id |-> new,
                              part |-> 0, failed |-> FALSE]
          /\ \A u \in Tasks : u # "voice" => call'[u] = call[u]
      BY <2>1, <3>1, RequestType, Zenon DEF ConversationInv
    <3>3. QED BY <2>1, <3>2
  <2>3. call'["process"].at = "idle"
    BY <2>1, <2>2 DEF Idle
  <2>4. Fresh(call["voice"].id)'
    BY <1>5, <2>2 DEF Fresh, Newest, Announcement
  <2>5. QED BY <2>3, <2>4 DEF RequestFresh, Tasks
<1>8. TextFresh'
  <2>1. /\ process' = "receive" /\ process_rec_q' = <<>> /\ tts' = 0
    BY <1>1 DEF Idle
  <2>2. ~(tts' > 0)
    BY <2>1
  <2>3. QED BY <2>1, <2>2 DEF TextFresh, Queued
<1>9. QED BY <1>3, <1>6, <1>7, <1>8 DEF AllFresh

LEMMA AnnounceFresh ==
  ASSUME ConversationInv, TypeOK', AllFresh, Announce, Idle
  PROVE  AllFresh'
<1>1. /\ ~announced /\ announced' = TRUE /\ qianfan_message_content' = Announcement
      /\ UNCHANGED <<data, call, process_rec_q, process, spoken, said>>
  BY DEF Announce
<1>2. /\ SaidSoFar'
      /\ \A id : Unsaid(id)' <=> Unsaid(id)
      /\ \A id : Fresh(id) => Fresh(id)'
  <2>1. spoken' >= spoken
    BY <1>1, Bounds DEF ConversationInv, TypeOK
  <2>2. QED BY <1>1, <2>1, FreshFacts DEF ConversationInv
<1>3. BufferFresh' /\ RequestFresh'
  BY <1>1, <1>2 DEF AllFresh, BufferFresh, RequestFresh
<1>4. Unsaid(Announcement)'
  <2>1. Announcement \notin 1 .. spoken
    BY Bounds DEF ConversationInv, TypeOK, Announcement
  <2>2. Unsaid(Announcement)
    BY <1>1, <2>1 DEF AllFresh, SaidSoFar, Unsaid
  <2>3. QED BY <1>1, <2>2 DEF Unsaid, Announcement
<1>5. TextFresh'
  BY <1>1, <1>4 DEF TextFresh, Queued, Idle, Announcement
<1>6. QED BY <1>2, <1>3, <1>5 DEF AllFresh

\* A buffer of junk.
LEMMA JunkType ==
  ASSUME NEW n \in Nat
  PROVE  [i \in 1 .. n |-> Junk] \in Seq(Pieces)
<1>1. Junk \in Pieces
  BY Bounds DEF Junk, Pieces
<1>2. [i \in 1 .. n |-> Junk] \in [1 .. n -> Pieces]
  BY <1>1
<1>3. QED BY <1>2, SeqDef

\* Pieces come in, and the connection may break.
LEMMA FlightFresh ==
  ASSUME ConversationInv, TypeOK', BatonInv, calm, AllFresh, NEW t \in Tasks,
         OnData(t) \/ OnFinish(t) \/ Store(t) \/ StoreFails(t) \/ BreakOff(t)
  PROVE  AllFresh'
<1> DEFINE h == Handler(call[t].kind)
<1>1. /\ call \in [Tasks -> Calls] /\ h \in Handlers
      /\ data \in [Handlers -> Seq(Pieces)] /\ data_len \in [Handlers -> Nat]
  BY TypeFacts DEF ConversationInv
<1>2. /\ call[t].at # "idle"
      /\ UNCHANGED <<said, spoken, announced, process, process_rec_q, tts,
                     speech_message_content, qianfan_message_content>>
  BY DEF OnData, OnFinish, Enter, Store, StoreFails, BreakOff, texts, env, ghosts
<1>3. process_rec_q = <<>> /\ tts = 0 /\ process # "grace"
  BY <1>2, OneRequest
<1>4. \A id : Fresh(id) => Fresh(id)'
  BY <1>2 DEF Fresh, Newest, Unsaid
<1>5. RequestFresh'
  <2>1. \A u \in Tasks : u # t => call'[u] = call[u]
    BY <1>1 DEF OnData, OnFinish, Enter, Store, StoreFails, BreakOff
  <2>2. \/ call'[t].at = "idle"
        \/ call'[t].id = call[t].id /\ call'[t].kind = call[t].kind
    <3>1. CASE BreakOff(t)
      BY <1>1, <3>1 DEF BreakOff, NoCall
    <3>2. CASE OnData(t) \/ OnFinish(t)
      <4>1. PICK event : call' = [call EXCEPT ![t].at = event]
        BY <3>2 DEF OnData, OnFinish, Enter
      <4>2. QED BY <1>1, <4>1 DEF Calls
    <3>3. CASE Store(t)
      BY <1>1, <3>3 DEF Store, Calls
    <3>4. CASE StoreFails(t)
      BY <1>1, <3>4 DEF StoreFails, Calls
    <3>5. QED BY <3>1, <3>2, <3>3, <3>4
  <2>3. QED BY <1>2, <1>4, <2>1, <2>2 DEF AllFresh, RequestFresh
<1>6. BufferFresh'
  <2>1. CASE data'["response"] = data["response"] \/ data'["response"] = <<>>
    BY <1>4, <2>1 DEF AllFresh, BufferFresh
  <2>2. CASE Store(t) /\ h = "response"
    <3> DEFINE piece == [kind |-> call[t].kind, id |-> call[t].id, part |-> call[t].part + 1]
               old == IF data[h] = <<>> THEN [i \in 1 .. data_len[h] |-> Junk] ELSE data[h]
    <3>1. data'["response"] = Append(old, piece)
      BY <1>1, <2>2 DEF Store
    <3>2. old \in Seq(Pieces) /\ Len(old) \in Nat
      <4>1. [i \in 1 .. data_len[h] |-> Junk] \in Seq(Pieces)
        BY <1>1, JunkType
      <4>2. QED BY <1>1, <4>1
    <3>3. Fresh(piece.id)
      BY <1>2, <2>2 DEF AllFresh, RequestFresh
    <3>4. \A i \in 1 .. Len(old) : old[i].kind # "junk" => Fresh(old[i].id)
      <4>1. CASE data[h] = <<>>
        <5>1. \A i \in 1 .. Len(old) : old[i] = Junk
          BY <1>1, <4>1
        <5>2. Junk.kind = "junk"
          BY DEF Junk
        <5> HIDE DEF old
        <5>3. QED BY <5>1, <5>2
      <4>2. CASE data[h] # <<>>
        BY <2>2, <4>2 DEF AllFresh, BufferFresh
      <4>3. QED BY <4>1, <4>2
    <3> HIDE DEF old, piece
    <3>5. /\ Len(Append(old, piece)) = Len(old) + 1
          /\ Append(old, piece)[Len(old) + 1] = piece
          /\ \A i \in 1 .. Len(old) : Append(old, piece)[i] = old[i]
      BY <3>2
    <3>6. ASSUME NEW i \in 1 .. Len(old) + 1, Append(old, piece)[i].kind # "junk"
          PROVE  Fresh(Append(old, piece)[i].id)
      <4>1. CASE i = Len(old) + 1
        BY <3>3, <3>5, <4>1
      <4>2. CASE i \in 1 .. Len(old)
        BY <3>4, <3>5, <3>6, <4>2
      <4>3. QED BY <3>2, <3>6, <4>1, <4>2
    <3>7. QED BY <1>4, <3>1, <3>5, <3>6 DEF BufferFresh
  <2>3. QED
    BY <1>1, <2>1, <2>2
       DEF OnData, OnFinish, Enter, Store, StoreFails, BreakOff, Handlers
<1>7. ~Queued("SPEECH_GET") /\ ~Queued("QIANFAN_GET")
  BY <1>3 DEF Queued
<1>8. QED BY <1>2, <1>3, <1>5, <1>6, <1>7, FreshKept DEF ConversationInv

\* The response that is parsed was not said before, and leaves the buffer.
LEMMA FinishedFresh ==
  ASSUME ConversationInv, TypeOK', BatonInv, calm, AllFresh, NEW t \in Tasks, Finished(t)
  PROVE  AllFresh'
<1> DEFINE h == Handler(call[t].kind)
           s == data[h]
<1>1. /\ data \in [Handlers -> Seq(Pieces)] /\ h \in Handlers /\ Over(t)
      /\ data'[h] = <<>> /\ (h = "music" => data'["response"] = data["response"])
  BY FinishedFacts DEF ConversationInv, TypeOK, Handlers
<1>2. /\ call[t].at # "idle" /\ process_rec_q = <<>> /\ tts = 0 /\ process # "grace"
  BY FinishedFacts, OneRequest
<1>3. UNCHANGED <<said, spoken, announced, process, tts>>
  BY DEF Finished, env
<1>4. /\ SaidSoFar'
      /\ \A id : Unsaid(id)' <=> Unsaid(id)
      /\ \A id : Fresh(id) => Fresh(id)'
  <2>1. spoken' >= spoken
    BY <1>3, Bounds DEF TypeOK
  <2>2. QED BY <1>3, <2>1, FreshFacts DEF ConversationInv
<1>5. BufferFresh'
  BY <1>1, <1>4 DEF AllFresh, BufferFresh, Handlers
<1>6. RequestFresh'
  BY <1>1, <1>4, OverCalls DEF AllFresh, RequestFresh
<1>7. TextFresh'
  <2>1. CASE process_rec_q' = <<>>
    BY <1>2, <1>3, <2>1 DEF TextFresh, Queued
  <2>2. CASE process_rec_q' # <<>>
    <3>1. h = "response" /\ data'["response"] = <<>>
      BY <1>1, <2>2, FinishedSends
    <3>2. FinishedParsed(t) /\ s # <<>> /\ Whole(s) /\ Understood(s[1].kind, s[1].id)
      BY <1>2, <2>2 DEF Finished, FinishedEmpty, FinishedParsed, NoResult
    <3>3. PICK id : id = s[1].id
      OBVIOUS
    <3>4. Fresh(id)'
      <4>1. 1 \in 1 .. Len(s)
        BY <1>1, <3>2
      <4>2. s[1].kind # "junk"
        BY <3>2 DEF Whole
      <4>3. Fresh(id)
        BY <3>1, <3>3, <4>1, <4>2 DEF AllFresh, BufferFresh
      <4>4. QED BY <1>4, <4>3
    <3>5. \A m : Send(m) => process_rec_q' = <<m>>
      <4>1. Len(process_rec_q) = 0 /\ \A m : Append(process_rec_q, m) = <<m>>
        BY <1>2
      <4>2. QED BY <4>1, Bounds DEF Send
    <3>6. tts' = 0 /\ process' # "grace" /\ ~(tts' > 0)
      BY <1>2, <1>3
    <3>7. CASE s[1].kind = "speech"
      <4>1. speech_message_content' \in {s[1].id, 0} /\ process_rec_q' = <<"SPEECH_GET">>
        BY <3>2, <3>5, <3>7 DEF Understood
      <4>2. ~Queued("QIANFAN_GET")'
        BY <4>1 DEF Queued
      <4>3. speech_message_content' = 0 \/ Fresh(speech_message_content)'
        BY <3>3, <3>4, <4>1 DEF Fresh, Newest, Unsaid
      <4>4. QED BY <3>1, <3>6, <4>2, <4>3 DEF TextFresh
    <3>8. CASE s[1].kind = "chat"
      <4>1. qianfan_message_content' = s[1].id /\ process_rec_q' = <<"QIANFAN_GET">>
        BY <3>2, <3>5, <3>8 DEF Understood
      <4>2. ~Queued("SPEECH_GET")'
        BY <4>1 DEF Queued
      <4>3. Fresh(qianfan_message_content)'
        BY <3>3, <3>4, <4>1 DEF Fresh, Newest, Unsaid
      <4>4. QED BY <3>1, <3>6, <4>2, <4>3 DEF TextFresh
    <3>9. QED BY <1>2, <2>2, <3>2, <3>7, <3>8 DEF Understood
  <2>3. QED BY <2>1, <2>2
<1>8. QED BY <1>4, <1>5, <1>6, <1>7 DEF AllFresh

\* process_task goes on.
LEMMA TaskFresh ==
  ASSUME ConversationInv, TypeOK', BatonInv, calm, AllFresh, ProcessTask
  PROVE  AllFresh'
<1>1. /\ SaidSoFar' /\ UNCHANGED <<said, spoken, announced, data>>
      /\ \A id : Unsaid(id)' <=> Unsaid(id)
      /\ \A id : Fresh(id) => Fresh(id)'
  <2>1. UNCHANGED <<said, spoken, announced, data>>
    BY DEF ProcessTask, SpeechEmpty, SpeechMusic, MusicUrl, MusicFetched, MusicCreate,
           SpeechChat, AskChat, Asked, AnswerCreate, env, ghosts
  <2>2. spoken' >= spoken
    BY <2>1, Bounds DEF TypeOK
  <2>3. QED BY <2>1, <2>2, FreshFacts DEF ConversationInv
<1>2. BufferFresh'
  BY <1>1 DEF AllFresh, BufferFresh
<1>3. UNCHANGED <<speech_message_content, qianfan_message_content>>
  BY DEF ProcessTask, SpeechEmpty, SpeechMusic, MusicUrl, MusicFetched, MusicCreate,
         SpeechChat, AskChat, Asked, AnswerCreate, texts
<1>4. ASSUME NEW m, Take(m)
      PROVE  /\ Queued(m) /\ tts = 0 /\ Len(process_rec_q') = 0 /\ process_rec_q' = <<>>
             /\ call' = call => RequestFresh'
  <2>1. /\ Len(process_rec_q) \in Nat /\ tts \in Nat /\ Len(process_rec_q) # 0
        /\ Len(process_rec_q') = Len(process_rec_q) - 1
        /\ process_rec_q' \in Seq({"SPEECH_GET", "QIANFAN_GET"})
    BY <1>4, QueueFacts, TakeType DEF ConversationInv, Take
  <2>2. Len(process_rec_q) + tts <= 1
    BY DEF BatonInv
  <2>3. tts = 0 /\ Len(process_rec_q') = 0
    BY <2>1, <2>2
  <2>4. process_rec_q' = <<>>
    BY <2>1, <2>3
  <2>5. QED BY <1>1, <1>4, <2>3, <2>4 DEF Take, Queued, AllFresh, RequestFresh
<1>5. CASE SpeechEmpty
  <2>1. process' = "receive" /\ tts' = 0 /\ ~(tts' > 0) /\ process_rec_q' = <<>> /\ call' = call
    BY <1>4, <1>5 DEF SpeechEmpty, Take
  <2>2. TextFresh'
    BY <2>1 DEF TextFresh, Queued
  <2>3. QED BY <1>1, <1>2, <1>4, <1>5, <2>1, <2>2 DEF AllFresh, SpeechEmpty
<1>6. CASE SpeechChat
  <2>1. process' = "grace" /\ tts' = 0 /\ ~(tts' > 0) /\ process_rec_q' = <<>> /\ call' = call
    BY <1>4, <1>6 DEF SpeechChat
  <2>2. Fresh(speech_message_content) /\ data["response"] = <<>> /\ speech_message_content # 0
    BY <1>4, <1>6 DEF SpeechChat, AllFresh, TextFresh
  <2>3. Fresh(speech_message_content)'
    BY <1>1, <1>3, <2>2 DEF Fresh, Newest, Unsaid
  <2>4. TextFresh'
    BY <1>1, <1>3, <2>1, <2>2, <2>3 DEF TextFresh, Queued
  <2>5. QED BY <1>1, <1>2, <1>4, <1>6, <2>1, <2>4 DEF AllFresh, SpeechChat
<1>7. CASE AnswerCreate
  <2>1. process' = "receive" /\ process_rec_q' = <<>> /\ call' = call
    BY <1>4, <1>7 DEF AnswerCreate, Take
  <2>2. \/ Fresh(qianfan_message_content) /\ data["response"] = <<>>
        \/ /\ qianfan_message_content = Announcement /\ announced
           /\ Unsaid(Announcement)
    BY <1>4, <1>7 DEF AnswerCreate, AllFresh, TextFresh
  <2>3. \/ Fresh(qianfan_message_content)' /\ data'["response"] = <<>>
        \/ /\ qianfan_message_content' = Announcement /\ announced'
           /\ Unsaid(Announcement)'
    BY <1>1, <1>3, <2>2 DEF Fresh, Newest, Unsaid, Announcement
  <2>4. TextFresh'
    BY <2>1, <2>3 DEF TextFresh, Queued, Announcement
  <2>5. QED BY <1>1, <1>2, <1>4, <1>7, <2>1, <2>4 DEF AllFresh, AnswerCreate
<1>8. CASE SpeechMusic \/ MusicUrl \/ AskChat
  <2>1. process_rec_q' = <<>> /\ tts' = 0 /\ process' \in {"list", "url", "ask"}
    <3>1. CASE SpeechMusic
      BY <1>4, <3>1 DEF SpeechMusic
    <3>2. CASE MusicUrl \/ AskChat
      <4>1. Len(process_rec_q) + tts = 0
        BY <3>2 DEF BatonInv, Working, MusicUrl, AskChat
      <4>2. QED BY <3>2, <4>1, QueueFacts DEF ConversationInv, MusicUrl, AskChat
    <3>3. QED BY <1>8, <3>1, <3>2
  <2>2. ~(tts' > 0)
    BY <2>1
  <2>3. TextFresh'
    BY <2>1, <2>2 DEF TextFresh, Queued
  <2>4. ASSUME NEW kind \in Kinds, NEW id \in 0 .. Utterances,
               Request("process", kind, id),
               Handler(kind) = "music" \/ Fresh(id)
        PROVE  RequestFresh'
    <3>1. "process" \in Tasks /\ "voice" \in Tasks
      BY DEF Tasks
    <3>2. /\ call'["process"] = [at |-> "flight", kind |-> kind, id |-> id,
                                part |-> 0, failed |-> FALSE]
          /\ \A u \in Tasks : u # "process" => call'[u] = call[u]
      BY <2>4, <3>1, RequestType, Zenon DEF ConversationInv
    <3>3. /\ call'["process"].kind = kind /\ call'["process"].id = id
          /\ call'["voice"] = call["voice"]
      BY <3>1, <3>2
    <3>4. (Handler(kind) = "response") => Fresh(id)'
      BY <1>1, <2>4
    <3>5. QED
      BY <1>1, <3>1, <3>3, <3>4 DEF AllFresh, RequestFresh, Tasks, Fresh, Newest, Unsaid
  <2>5. RequestFresh'
    <3>1. {speech_message_content, music_id} \subseteq 0 .. Utterances
      BY DEF ConversationInv, TypeOK
    <3>2. CASE SpeechMusic
      BY <2>4, <3>1, <3>2 DEF SpeechMusic, Kinds, Handler
    <3>3. CASE MusicUrl
      BY <2>4, <3>1, <3>3 DEF MusicUrl, Kinds, Handler
    <3>4. CASE AskChat
      <4>1. Fresh(speech_message_content)
        BY <3>4 DEF AskChat, AllFresh, TextFresh
      <4>2. QED BY <2>4, <3>1, <3>4, <4>1 DEF AskChat, Kinds
    <3>5. QED BY <1>8, <3>2, <3>3, <3>4
  <2>6. QED BY <1>1, <1>2, <2>3, <2>5 DEF AllFresh
<1>9. CASE MusicFetched \/ MusicCreate \/ Asked
  <2>1. /\ UNCHANGED <<call, process_rec_q, tts>> /\ process' # "grace"
    BY <1>9 DEF MusicFetched, MusicCreate, Asked
  <2>2. RequestFresh'
    BY <1>1, <2>1 DEF AllFresh, RequestFresh
  <2>3. /\ \A m : Queued(m)' <=> Queued(m)
        /\ (tts > 0)' <=> tts > 0
    BY <2>1 DEF Queued
  <2>4. TextFresh'
    BY <1>1, <1>3, <2>1, <2>3 DEF AllFresh, TextFresh, Fresh, Newest, Unsaid, Announcement
  <2>5. QED BY <1>1, <1>2, <2>2, <2>4 DEF AllFresh
<1>10. QED BY <1>5, <1>6, <1>7, <1>8, <1>9 DEF ProcessTask

\* What is said was not said before, and is not expected any more.
LEMMA SayFresh ==
  ASSUME ConversationInv, TypeOK', BatonInv, calm, FreshInv, Say
  PROVE  AllFresh'
<1>1. /\ tts > 0 /\ tts' = tts - 1 /\ tts \in Nat
      /\ said' = said \/ said' = Append(said, qianfan_message_content)
      /\ UNCHANGED <<data, call, texts, process_rec_q, process, env>>
  BY DEF Say, ConversationInv, TypeOK
<1>2. AllFresh /\ said \in Seq(0 .. Announcement)
  BY DEF FreshInv
<1>3. /\ process_rec_q = <<>> /\ tts' = 0 /\ ~Working
      /\ \A t \in Tasks : call[t].at = "idle"
  <2>1. Len(process_rec_q) \in Nat /\ Len(process_rec_q) + tts <= 1
    BY QueueFacts DEF BatonInv, ConversationInv
  <2>2. Len(process_rec_q) = 0 /\ tts = 1
    BY <1>1, <2>1
  <2>3. ~Working
    BY <2>2 DEF BatonInv
  <2>4. \A t \in Tasks : call[t].at = "idle"
    BY <2>2, OneRequest
  <2>5. QED BY <1>1, <2>2, <2>3, <2>4, QueueFacts DEF ConversationInv
<1>4. DEFINE q == qianfan_message_content
<1>5. \/ q \in 1 .. spoken /\ Newest(q) /\ data["response"] = <<>>
      \/ q = Announcement /\ announced /\ Unsaid(q)
  BY <1>1, <1>2 DEF AllFresh, TextFresh, Fresh
<1>6. Announcement \notin 1 .. spoken /\ \A id \in 1 .. spoken : id < Announcement
  BY Bounds DEF ConversationInv, TypeOK, Announcement
<1>7. SaidSoFar'
  <2>1. CASE said' = said
    BY <1>1, <1>2, <2>1 DEF env, AllFresh, SaidSoFar, Announcement
  <2>2. CASE said' = Append(said, q)
    <3>1. /\ Len(said') = Len(said) + 1 /\ said'[Len(said) + 1] = q /\ Len(said) \in Nat
          /\ \A i \in 1 .. Len(said) : said'[i] = said[i]
      BY <1>2, <2>2
    <3>2. \A i \in 1 .. Len(said') : i \in 1 .. Len(said) \/ i = Len(said) + 1
      BY <3>1
    <3>3. ASSUME NEW i \in 1 .. Len(said)
          PROVE  said[i] < q \/ (said[i] = Announcement /\ q # Announcement)
      BY <1>2, <1>5, <1>6 DEF AllFresh, SaidSoFar, Newest, Unsaid
    <3>4. ASSUME NEW i \in 1 .. Len(said')
          PROVE  said'[i] \in 1 .. spoken \/ (said'[i] = Announcement /\ announced)
      BY <1>2, <1>5, <3>1, <3>2 DEF AllFresh, SaidSoFar
    <3>5. ASSUME NEW i \in 1 .. Len(said'), NEW j \in 1 .. Len(said'), i < j
          PROVE  \/ said'[i] < said'[j]
                 \/ said'[i] = Announcement /\ said'[j] # Announcement
      <4>1. i \in 1 .. Len(said)
        BY <3>1, <3>5
      <4>2. CASE j \in 1 .. Len(said)
        BY <1>2, <3>1, <3>5, <4>1, <4>2 DEF AllFresh, SaidSoFar
      <4>3. CASE j = Len(said) + 1
        BY <3>1, <3>3, <4>1, <4>3
      <4>4. QED BY <3>2, <4>2, <4>3
    <3>6. QED BY <1>1, <3>4, <3>5 DEF SaidSoFar, env, Announcement
  <2>3. QED BY <1>1, <2>1, <2>2
<1>8. BufferFresh'
  <2>1. CASE data["response"] = <<>>
    BY <1>1, <2>1 DEF BufferFresh
  <2>2. CASE said' = said
    BY <1>1, <1>2, <2>2 DEF env, AllFresh, BufferFresh, Fresh, Newest, Unsaid
  <2>3. CASE said' = Append(said, q) /\ q = Announcement
    <3>1. /\ Len(said') = Len(said) + 1 /\ said'[Len(said) + 1] = q /\ Len(said) \in Nat
          /\ \A i \in 1 .. Len(said) : said'[i] = said[i]
      BY <1>2, <2>3
    <3>2. \A i \in 1 .. Len(said') : i \in 1 .. Len(said) \/ i = Len(said) + 1
      BY <3>1
    <3>3. ASSUME NEW id, Fresh(id) PROVE Fresh(id)'
      BY <1>1, <1>6, <2>3, <3>1, <3>2, <3>3 DEF Fresh, Newest, Unsaid, env
    <3>4. QED BY <1>1, <1>2, <3>3 DEF AllFresh, BufferFresh
  <2>4. QED BY <1>1, <1>5, <2>1, <2>2, <2>3
<1>9. RequestFresh'
  BY <1>1, <1>3 DEF RequestFresh
<1>10. TextFresh'
  <2>1. process' # "grace" /\ ~(tts' > 0) /\ process_rec_q' = <<>>
    BY <1>1, <1>3 DEF Working
  <2>2. QED BY <2>1 DEF TextFresh, Queued
<1>11. QED BY <1>7, <1>8, <1>9, <1>10 DEF AllFresh

LEMMA FreshHolds ==
  ASSUME ConversationInv, ConversationInv', BatonInv, FreshInv, [Next]_vars, BatonInv'
  PROVE  FreshInv'
<1>1. said' \in Seq(0 .. Announcement)
  <2>1. qianfan_message_content \in 0 .. Announcement /\ said \in Seq(0 .. Announcement)
    BY DEF ConversationInv, TypeOK, FreshInv
  <2>2. said' = said \/ said' = Append(said, qianfan_message_content)
    <3>1. \A t \in Tasks : Client(t) => UNCHANGED said
      BY DEF Client, OnData, OnFinish, Enter, Store, StoreFails, Finished, BreakOff, ghosts
    <3>2. ProcessTask => UNCHANGED said
      BY DEF ProcessTask, SpeechEmpty, SpeechMusic, MusicUrl, MusicFetched, MusicCreate,
             SpeechChat, AskChat, Asked, AnswerCreate, ghosts
    <3>3. QED BY <3>1, <3>2 DEF Next, Rest, Speak, Announce, Say, vars, ghosts
  <2>3. Append(said, qianfan_message_content) \in Seq(0 .. Announcement)
    BY <2>1, AppendProperties
  <2>4. QED BY <2>1, <2>2, <2>3, Zenon
<1>2. SUFFICES ASSUME calm' PROVE AllFresh'
  BY <1>1 DEF FreshInv, Announcement
<1>3. calm /\ AllFresh /\ TypeOK'
  BY <1>2, CalmBefore DEF FreshInv, ConversationInv
<1>4. CASE Speak \/ Announce
  <2>1. Idle
    BY <1>2, <1>4 DEF Speak, Announce
  <2>2. QED BY <1>3, <1>4, <2>1, SpeakFresh, AnnounceFresh
<1>5. CASE ProcessTask
  BY <1>3, <1>5, TaskFresh
<1>6. CASE Say
  BY <1>3, <1>6, SayFresh
<1>7. ASSUME NEW t \in Tasks, Client(t) PROVE AllFresh'
  BY <1>3, <1>7, FlightFresh, FinishedFresh DEF Client
<1>8. CASE UNCHANGED vars
  <2>1. BufferFresh' /\ RequestFresh'
    BY <1>3, <1>8 DEF vars, ghosts, env, AllFresh, BufferFresh, RequestFresh, Fresh, Newest, Unsaid
  <2>2. QED BY <1>3, <1>8, <2>1, FreshKept DEF vars, ghosts, env, texts, ConversationInv
<1>9. QED BY <1>4, <1>5, <1>6, <1>7, <1>8 DEF Next, Rest

-----------------------------------------------------------------------------
(* A failure costs one more response                                       *)

\* What a failure left in the buffer will spoil one response.
Debt(h) == IF dirty[h] THEN 1 ELSE 0

\* The handler h has received so much of the response to c, and no more.
HasReceived(h, c) ==
  /\ data_len[h] = c.part /\ Len(data[h]) = c.part
  /\ \A i \in 1 .. c.part : data[h][i] = [kind |-> c.kind, id |-> c.id, part |-> i]

\* A request that has not failed finds its pieces, and unless an earlier one
\* left something, nothing but them.
InOrder(t) ==
  LET h == Handler(call[t].kind) IN
  call[t].at # "idle" =>
    /\ call[t].failed => dirty[h]
    /\ ~dirty[h] => HasReceived(h, call[t])
    /\ ~call[t].failed /\ call[t].part > 0 => data[h] # <<>>

Paid == lost + Debt("response") + Debt("music") <= failures

DebtInv ==
  /\ lost \in Nat /\ failures \in Nat
  /\ calm => Paid /\ \A t \in Tasks : InOrder(t)

\* The books of one handler change.
LEMMA Books ==
  ASSUME NEW h \in Handlers, \A g \in Handlers : g # h => dirty'[g] = dirty[g],
         lost \in Nat, failures \in Nat, lost' \in Nat, failures' \in Nat,
         lost' + Debt(h)' + failures <= lost + Debt(h) + failures', Paid
  PROVE  Paid'
<1>1. \A g \in Handlers : Debt(g) \in Nat /\ Debt(g)' \in Nat
  BY DEF Debt
<1>2. CASE h = "response"
  <2>1. Debt("music")' = Debt("music") /\ Debt("response") \in Nat /\ Debt("music") \in Nat
        /\ Debt("response")' \in Nat
    BY <1>1, <1>2 DEF Debt, Handlers
  <2>2. QED BY <1>2, <2>1 DEF Paid
<1>3. CASE h = "music"
  <2>1. Debt("response")' = Debt("response") /\ Debt("response") \in Nat /\ Debt("music") \in Nat
        /\ Debt("music")' \in Nat
    BY <1>1, <1>3 DEF Debt, Handlers
  <2>2. QED BY <1>3, <2>1 DEF Paid
<1>4. QED BY <1>2, <1>3 DEF Handlers

\* A step that costs nothing.
LEMMA Unpaid ==
  ASSUME Paid, UNCHANGED <<lost, failures, dirty>>
  PROVE  Paid'
BY DEF Paid, Debt

\* A request begins, and nobody makes another.
LEMMA RequestInOrder ==
  ASSUME ConversationInv, NEW t \in Tasks, NEW kind \in Kinds, NEW id \in 0 .. Utterances,
         Request(t, kind, id), UNCHANGED <<data, data_len, dirty>>,
         \A u \in Tasks : call[u].at = "idle"
  PROVE  \A u \in Tasks : InOrder(u)'
<1>1. /\ call'[t] = [at |-> "flight", kind |-> kind, id |-> id, part |-> 0,
                     failed |-> FALSE]
      /\ \A u \in Tasks : u # t => call'[u] = call[u]
  BY RequestType, Zenon DEF ConversationInv
<1>2. \A h \in Handlers : ~dirty[h] => data[h] = <<>> /\ data_len[h] = 0
  BY DEF ConversationInv, HealInv, Uses
<1>3. Handler(kind) \in Handlers
  BY DEF Handler, Handlers
<1>4. InOrder(t)'
  <2>1. call'[t].kind = kind /\ call'[t].part = 0 /\ call'[t].failed = FALSE
    BY <1>1
  <2>2. ~dirty'[Handler(kind)] => HasReceived(Handler(call[t].kind), call[t])'
    BY <1>2, <1>3, <2>1 DEF HasReceived
  <2>3. QED BY <2>1, <2>2 DEF InOrder
<1>5. QED BY <1>1, <1>4 DEF InOrder

LEMMA EnterInOrder ==
  ASSUME ConversationInv, BatonInv, calm, DebtInv, NEW t \in Tasks, NEW event,
         event # "idle", Enter(t, event)
  PROVE  Paid' /\ \A u \in Tasks : InOrder(u)'
<1>1. call \in [Tasks -> Calls] /\ call[t] \in Calls
  BY TypeFacts DEF ConversationInv
<1>2. /\ call[t].at # "idle" /\ call' = [call EXCEPT ![t].at = event]
      /\ UNCHANGED <<data, data_len, lost, failures, dirty>>
  BY DEF Enter
<1>3. \A u \in Tasks : u # t => call'[u].at = "idle"
  BY <1>1, <1>2, OneRequest
<1>4. /\ call'[t].kind = call[t].kind /\ call'[t].id = call[t].id
      /\ call'[t].part = call[t].part /\ call'[t].failed = call[t].failed
  BY <1>1, <1>2 DEF Calls
<1>5. InOrder(t)'
  BY <1>2, <1>4 DEF DebtInv, InOrder, HasReceived
<1>6. QED BY <1>2, <1>3, <1>5, Unpaid DEF DebtInv, InOrder

LEMMA StoreInOrder ==
  ASSUME ConversationInv, BatonInv, calm, DebtInv, NEW t \in Tasks, Store(t),
         NEW h, h = Handler(call[t].kind)
  PROVE  Paid' /\ \A u \in Tasks : InOrder(u)'
<1> DEFINE piece == [kind |-> call[t].kind, id |-> call[t].id, part |-> call[t].part + 1]
           old == IF data[h] = <<>> THEN [i \in 1 .. data_len[h] |-> Junk] ELSE data[h]
<1>1. /\ call \in [Tasks -> Calls] /\ call[t] \in Calls /\ h \in Handlers
      /\ data \in [Handlers -> Seq(Pieces)] /\ data_len \in [Handlers -> Nat]
      /\ call[t].part \in Nat
  BY TypeFacts DEF ConversationInv, Calls
<1>2. /\ call[t].at # "idle"
      /\ data' = [data EXCEPT ![h] = Append(old, piece)]
      /\ data_len' = [data_len EXCEPT ![h] = @ + 1]
      /\ call' = [call EXCEPT ![t].at = "flight", ![t].part = @ + 1]
      /\ UNCHANGED <<lost, failures, dirty>>
  BY DEF Store, ghosts
<1>3. \A u \in Tasks : u # t => call'[u].at = "idle"
  BY <1>1, <1>2, OneRequest
<1>4. /\ call'[t].kind = call[t].kind /\ call'[t].id = call[t].id
      /\ call'[t].part = call[t].part + 1 /\ call'[t].failed = call[t].failed
  BY <1>1, <1>2 DEF Calls
<1>5. old \in Seq(Pieces) /\ Len(old) \in Nat
  <2>1. [i \in 1 .. data_len[h] |-> Junk] \in Seq(Pieces)
    BY <1>1, JunkType
  <2>2. QED BY <1>1, <2>1
<1>6. ~dirty[h] => /\ data_len[h] = call[t].part /\ Len(old) = call[t].part
                   /\ \A i \in 1 .. call[t].part : old[i] = data[h][i]
                   /\ HasReceived(h, call[t])
  BY <1>1, <1>2 DEF DebtInv, InOrder, HasReceived
<1>7. /\ data'[h] = Append(old, piece) /\ data_len'[h] = data_len[h] + 1
  BY <1>1, <1>2
<1> HIDE DEF old, piece
<1>8. /\ Len(data'[h]) = Len(old) + 1 /\ data'[h] # <<>>
      /\ data'[h][Len(old) + 1] = piece
      /\ \A i \in 1 .. Len(old) : data'[h][i] = old[i]
  BY <1>5, <1>7
<1>9. ASSUME ~dirty[h] PROVE HasReceived(h, call[t])'
  <2>1. ASSUME NEW i \in 1 .. call[t].part + 1
        PROVE  data'[h][i] = [kind |-> call[t].kind, id |-> call[t].id, part |-> i]
    <3>1. CASE i = call[t].part + 1
      BY <1>6, <1>8, <1>9, <3>1 DEF piece
    <3>2. CASE i \in 1 .. call[t].part
      BY <1>6, <1>8, <1>9, <3>2 DEF HasReceived
    <3>3. QED BY <1>1, <2>1, <3>1, <3>2
  <2>2. data_len'[h] = call[t].part + 1 /\ Len(data'[h]) = call[t].part + 1
    BY <1>6, <1>7, <1>8, <1>9
  <2>3. QED BY <1>4, <2>1, <2>2 DEF HasReceived
<1>10. InOrder(t)'
  <2>1. Handler(call'[t].kind) = h
    BY <1>4
  <2>2. call[t].failed => dirty[h]
    BY <1>2 DEF DebtInv, InOrder
  <2>3. QED BY <1>2, <1>4, <1>8, <1>9, <2>1, <2>2 DEF InOrder
<1>11. QED BY <1>2, <1>3, <1>10, Unpaid DEF DebtInv, InOrder

\* A failure is paid for when it leaves something, and paid for once.
LEMMA FailPays ==
  ASSUME ConversationInv, ConversationInv', calm, DebtInv, NEW t \in Tasks,
         call[t].at # "idle", Fail(t), UNCHANGED lost,
         NEW h, h = Handler(call[t].kind),
         \A g \in Handlers : g # h => dirty'[g] = dirty[g],
         dirty[h] => dirty'[h]
  PROVE  Paid' /\ failures' \in Nat
<1>1. /\ h \in Handlers /\ lost \in Nat /\ failures \in Nat /\ call[t].failed \in BOOLEAN
  BY TypeFacts DEF ConversationInv, DebtInv, Calls
<1>2. call[t].failed => dirty[h]
  BY DEF DebtInv, InOrder
<1>3. failures' = IF call[t].failed THEN failures ELSE failures + 1
  BY DEF Fail
<1>4. Debt(h) \in {0, 1} /\ Debt(h)' \in {0, 1}
  BY DEF Debt
<1>5. call[t].failed => Debt(h)' = Debt(h)
  BY <1>2 DEF Debt
<1>6. failures' \in Nat
  BY <1>1, <1>3
<1>7. lost' + Debt(h)' + failures <= lost + Debt(h) + failures'
  <2>1. CASE call[t].failed
    <3>1. Debt(h)' = Debt(h) /\ failures' = failures
      BY <1>3, <1>5, <2>1
    <3>2. Debt(h) \in Nat
      BY <1>4
    <3>3. QED BY <1>1, <3>1, <3>2
  <2>2. CASE ~call[t].failed
    <3>1. failures' = failures + 1
      BY <1>3, <2>2
    <3>2. QED BY <1>1, <1>4, <3>1
  <2>3. QED BY <2>1, <2>2
<1>8. QED BY <1>1, <1>6, <1>7, Books DEF DebtInv

LEMMA StoreFailsInOrder ==
  ASSUME ConversationInv, ConversationInv', BatonInv, calm, DebtInv, NEW t \in Tasks,
         StoreFails(t)
  PROVE  Paid' /\ failures' \in Nat /\ \A u \in Tasks : InOrder(u)'
<1> DEFINE h == Handler(call[t].kind)
<1>1. /\ call \in [Tasks -> Calls] /\ call[t] \in Calls /\ h \in Handlers
      /\ dirty \in [Handlers -> BOOLEAN]
  BY TypeFacts DEF ConversationInv, HealInv
<1>2. /\ call[t].at # "idle" /\ Fail(t) /\ lost' = lost
      /\ call' = [call EXCEPT ![t].at = "flight", ![t].part = @ + 1, ![t].failed = TRUE]
      /\ dirty' = [dirty EXCEPT ![h] = TRUE]
  BY DEF StoreFails
<1>3. \A u \in Tasks : u # t => call'[u].at = "idle"
  BY <1>1, <1>2, OneRequest
<1>4. call'[t].kind = call[t].kind /\ call'[t].failed = TRUE
  BY <1>1, <1>2 DEF Calls
<1>5. dirty'[h] /\ \A g \in Handlers : g # h => dirty'[g] = dirty[g]
  BY <1>1, <1>2
<1>6. InOrder(t)'
  BY <1>4, <1>5 DEF InOrder
<1>7. Paid' /\ failures' \in Nat
  BY <1>2, <1>5, FailPays
<1>8. QED BY <1>3, <1>6, <1>7 DEF InOrder

LEMMA BreakOffInOrder ==
  ASSUME ConversationInv, ConversationInv', BatonInv, calm, DebtInv, NEW t \in Tasks,
         BreakOff(t)
  PROVE  Paid' /\ failures' \in Nat /\ \A u \in Tasks : InOrder(u)'
<1> DEFINE h == Handler(call[t].kind)
<1>1. h \in Handlers /\ dirty \in [Handlers -> BOOLEAN]
  BY TypeFacts DEF ConversationInv, HealInv
<1>2. /\ call[t].at # "idle" /\ Fail(t) /\ lost' = lost /\ Over(t)
      /\ dirty' = [dirty EXCEPT ![h] = @ \/ data[h] # <<>>]
  BY DEF BreakOff, Over
<1>3. \A u \in Tasks : call'[u].at = "idle"
  BY <1>2, OneRequest, OverCalls
<1>4. (dirty[h] => dirty'[h]) /\ \A g \in Handlers : g # h => dirty'[g] = dirty[g]
  BY <1>1, <1>2
<1>5. Paid' /\ failures' \in Nat
  BY <1>2, <1>4, FailPays
<1>6. QED BY <1>3, <1>5 DEF InOrder

\* A response that arrived in full and was not read paid for a failure.
LEMMA FinishedInOrder ==
  ASSUME ConversationInv, ConversationInv', BatonInv, calm, DebtInv, NEW t \in Tasks,
         Finished(t), NEW h, h = Handler(call[t].kind)
  PROVE  /\ Paid' /\ failures' \in Nat /\ lost' \in Nat
         /\ \A u \in Tasks : InOrder(u)'
<1> DEFINE own == data[h]
           read == own # <<>> /\ Whole(own) /\ own[1].kind = call[t].kind
                                           /\ own[1].id = call[t].id
<1>1. /\ call[t] \in Calls /\ h \in Handlers /\ data \in [Handlers -> Seq(Pieces)]
      /\ dirty \in [Handlers -> BOOLEAN] /\ lost \in Nat /\ failures \in Nat
      /\ call[t].part \in 0 .. Parts /\ call[t].kind \in Kinds
  BY TypeFacts DEF ConversationInv, HealInv, DebtInv, Calls
<1>2. /\ Over(t) /\ call[t].at # "idle"
      /\ \A g \in Handlers : g # h => dirty'[g] = dirty[g]
  BY FinishedFacts
<1>3. \A u \in Tasks : call'[u].at = "idle"
  BY <1>2, OneRequest, OverCalls
<1>4. /\ failures' \in {failures, failures + 1}
      /\ lost' = IF call[t].part = Parts /\ ~call[t].failed /\ ~read
                   THEN lost + 1 ELSE lost
  BY DEF Finished
<1>5. failures' \in Nat /\ lost' \in Nat
  BY <1>1, <1>4
<1>6. lost' + Debt(h)' <= lost + Debt(h)
  <2>1. CASE FinishedEmpty(t)
    <3>1. dirty' = dirty /\ own = <<>>
      BY <2>1 DEF FinishedEmpty
    <3>2. call[t].failed \/ ~(call[t].part > 0)
      BY <1>2, <3>1 DEF DebtInv, InOrder
    <3>3. lost' = lost
      BY <1>4, <3>2, Bounds
    <3>4. Debt(h)' = Debt(h) /\ Debt(h) \in Nat
      BY <3>1 DEF Debt
    <3>5. QED BY <1>1, <3>3, <3>4
  <2>2. CASE FinishedParsed(t)
    <3>1. ~dirty'[h] /\ own # <<>>
      BY <1>1, <2>2 DEF FinishedParsed
    <3>2. CASE dirty[h]
      BY <1>1, <1>4, <3>1, <3>2 DEF Debt
    <3>3. CASE ~dirty[h]
      <4>1. HasReceived(h, call[t])
        BY <1>2, <3>3 DEF DebtInv, InOrder
      <4>2. ASSUME call[t].part = Parts PROVE read
        <5>1. /\ Len(own) = Parts
              /\ \A i \in 1 .. Parts :
                   own[i] = [kind |-> call[t].kind, id |-> call[t].id, part |-> i]
          BY <4>1, <4>2 DEF HasReceived
        <5>2. 1 \in 1 .. Parts /\ Parts >= Parts
          BY Bounds
        <5>3. own[1] = [kind |-> call[t].kind, id |-> call[t].id, part |-> 1]
          BY <5>1, <5>2
        <5>4. own[1].kind = call[t].kind /\ own[1].id = call[t].id
          BY <5>3
        <5>5. \A i \in 1 .. Parts : own[i] = [own[1] EXCEPT !.part = i]
          BY <5>1, <5>3
        <5>6. own[1].kind # "junk"
          BY <1>1, <5>4 DEF Kinds
        <5>7. QED BY <3>1, <5>1, <5>2, <5>4, <5>5, <5>6 DEF Whole
      <4>3. lost' = lost
        BY <1>4, <4>2
      <4>4. Debt(h)' = Debt(h) /\ Debt(h) = 0
        BY <3>1, <3>3 DEF Debt
      <4>5. QED BY <1>1, <4>3, <4>4
    <3>4. QED BY <3>2, <3>3
  <2>3. QED BY <2>1, <2>2 DEF Finished
<1>7. failures' >= failures /\ Debt(h) \in Nat /\ Debt(h)' \in Nat
  BY <1>1, <1>4 DEF Debt
<1>8. lost' + Debt(h)' + failures <= lost + Debt(h) + failures'
  BY <1>1, <1>5, <1>6, <1>7
<1>9. Paid'
  BY <1>1, <1>2, <1>5, <1>8, Books DEF DebtInv
<1>10. QED BY <1>3, <1>5, <1>9 DEF InOrder

LEMMA DebtHolds ==
  ASSUME ConversationInv, ConversationInv', BatonInv, DebtInv, [Next]_vars
  PROVE  DebtInv'
<1>1. lost' \in Nat /\ failures' \in Nat
  <2>1. lost \in Nat /\ failures \in Nat
    BY DEF DebtInv
  <2>2. ASSUME NEW t \in Tasks, Client(t)
        PROVE  lost' \in {lost, lost + 1} /\ failures' \in {failures, failures + 1}
    BY <2>2 DEF Client, OnData, OnFinish, Enter, Store, StoreFails, Fail, Finished,
                BreakOff, ghosts
  <2>3. ProcessTask => UNCHANGED <<lost, failures>>
    BY DEF ProcessTask, SpeechEmpty, SpeechMusic, MusicUrl, MusicFetched, MusicCreate,
           SpeechChat, AskChat, Asked, AnswerCreate, ghosts
  <2>4. Speak \/ Announce \/ Say \/ UNCHANGED vars => UNCHANGED <<lost, failures>>
    BY DEF Speak, Announce, Say, vars, ghosts
  <2>5. QED BY <2>1, <2>2, <2>3, <2>4 DEF Next, Rest
<1>2. SUFFICES ASSUME calm' PROVE Paid' /\ \A t \in Tasks : InOrder(t)'
  BY <1>1 DEF DebtInv
<1>3. calm /\ Paid /\ \A t \in Tasks : InOrder(t)
  BY <1>2, CalmBefore DEF DebtInv
<1>4. ASSUME NEW t \in Tasks, Client(t)
      PROVE  Paid' /\ \A u \in Tasks : InOrder(u)'
  <2>1. OnData(t) \/ OnFinish(t) => Paid' /\ \A u \in Tasks : InOrder(u)'
    BY <1>3, EnterInOrder DEF OnData, OnFinish
  <2>2. QED
    BY <1>3, <1>4, <2>1, StoreInOrder, StoreFailsInOrder, BreakOffInOrder, FinishedInOrder
       DEF Client
  \* The other steps cost nothing; some begin a request.
<1>5. CASE UNCHANGED <<lost, failures, dirty, data, data_len, call>>
  BY <1>3, <1>5, Unpaid DEF InOrder, HasReceived
<1>6. CASE Speak
  <2>1. \A u \in Tasks : call[u].at = "idle"
    BY <1>2, <1>6 DEF Speak, Idle
  <2>2. "voice" \in Tasks /\ "speech" \in Kinds /\ spoken + 1 \in 0 .. Utterances
    BY <1>6, Bounds DEF Speak, ConversationInv, TypeOK, Tasks, Kinds
  <2>3. QED BY <1>3, <1>6, <2>1, <2>2, RequestInOrder, Unpaid DEF Speak
<1>7. CASE SpeechMusic \/ MusicUrl \/ AskChat
  <2>1. \A u \in Tasks : call[u].at = "idle"
    <3>1. call["process"].at = "idle"
      BY <1>7 DEF SpeechMusic, MusicUrl, AskChat, Take, ConversationInv, CallInv
    <3>2. call["voice"].at = "idle"
      <4>1. CASE process # "receive"
        BY <1>3, <4>1 DEF BatonInv
      <4>2. CASE process_rec_q # <<>>
        <5>1. Len(process_rec_q) \in Nat /\ tts \in Nat /\ Len(process_rec_q) # 0
          BY <4>2, QueueFacts DEF ConversationInv
        <5>2. Len(process_rec_q) + tts # 0
          BY <5>1
        <5>3. QED BY <1>3, <5>2 DEF BatonInv
      <4>3. QED BY <1>7, <4>1, <4>2 DEF SpeechMusic, MusicUrl, AskChat, Take
    <3>3. QED BY <3>1, <3>2 DEF Tasks
  <2>2. "process" \in Tasks /\ {speech_message_content, music_id} \subseteq 0 .. Utterances
    BY DEF ConversationInv, TypeOK, Tasks
  <2>3. ASSUME NEW kind \in Kinds, NEW id \in 0 .. Utterances,
               Request("process", kind, id),
               UNCHANGED <<data, data_len, dirty, lost, failures>>
        PROVE  Paid' /\ \A u \in Tasks : InOrder(u)'
    BY <1>3, <2>1, <2>2, <2>3, RequestInOrder, Unpaid
  <2>4. CASE SpeechMusic
    BY <2>2, <2>3, <2>4 DEF SpeechMusic, Kinds
  <2>5. CASE MusicUrl
    BY <2>2, <2>3, <2>5 DEF MusicUrl, Kinds, ghosts
  <2>6. CASE AskChat
    BY <2>2, <2>3, <2>6 DEF AskChat, Kinds, ghosts
  <2>7. QED BY <1>7, <2>4, <2>5, <2>6
<1>8. Announce \/ Say \/ UNCHANGED vars
        => UNCHANGED <<lost, failures, dirty, data, data_len, call>>
  BY DEF Announce, Say, vars, ghosts
<1>9. ProcessTask => \/ SpeechMusic \/ MusicUrl \/ AskChat
                     \/ UNCHANGED <<lost, failures, dirty, data, data_len, call>>
  BY DEF ProcessTask, SpeechEmpty, MusicFetched, MusicCreate, SpeechChat, Asked,
         AnswerCreate, ghosts
<1>10. QED BY <1>4, <1>5, <1>6, <1>7, <1>8, <1>9 DEF Next, Rest

CalmInv == BatonInv /\ FreshInv /\ DebtInv

LEMMA CalmInit == Init => CalmInv
<1>1. SUFFICES ASSUME Init PROVE CalmInv
  OBVIOUS
<1>2. /\ process_rec_q = <<>> /\ tts = 0 /\ process = "receive" /\ calm = TRUE
      /\ said = <<>> /\ lost = 0 /\ failures = 0 /\ call = [t \in Tasks |-> NoCall]
      /\ data = [h \in Handlers |-> <<>>] /\ dirty = [h \in Handlers |-> FALSE]
  BY <1>1, Zenon DEF Init
<1>3. \A t \in Tasks : call[t].at = "idle"
  BY <1>2 DEF NoCall
<1>4. BatonInv
  BY <1>2, <1>3 DEF BatonInv, Working, Tasks
<1>5. FreshInv
  <2>1. said \in Seq(0 .. Announcement) /\ Len(said) = 0 /\ ~(tts > 0)
    BY <1>2
  <2>2. data["response"] = <<>>
    BY <1>2 DEF Handlers
  <2>3. QED
    BY <1>2, <1>3, <2>1, <2>2
       DEF FreshInv, AllFresh, SaidSoFar, BufferFresh, RequestFresh, TextFresh, Queued
<1>6. DebtInv
  BY <1>2, <1>3 DEF DebtInv, Paid, Debt, InOrder, Handlers
<1>7. QED BY <1>4, <1>5, <1>6 DEF CalmInv

\* The inductive invariant of a conversation in which nobody speaks over the
\* machine: one has the turn, what is still expected is newer than all that was
\* said, and a failure has left no more in the buffers than one response pays for.
THEOREM CalmInvariant == Spec => []CalmInv
<1>1. ConversationInv /\ ConversationInv' /\ CalmInv /\ [Next]_vars => CalmInv'
  BY BatonHolds, FreshHolds, DebtHolds DEF CalmInv
<1>2. QED BY CalmInit, ConversationInvariant, <1>1, PTL DEF Spec

\* If nobody speaks over the machine, the answers are spoken in the order of the
\* utterances, each once, and an announcement once (qianfan_message_content,
\* baidu_tts), whatever requests failed.
THEOREM SpeaksInOrder == Spec => []SaidInOrder
<1>1. CalmInv => SaidInOrder
  <2>1. SUFFICES ASSUME CalmInv, calm PROVE SaidInOrder
    BY DEF SaidInOrder
  <2>2. AllFresh
    BY <2>1 DEF CalmInv, FreshInv
  <2>3. Announcement # 0 /\ 0 \notin 1 .. spoken
    BY Bounds DEF Announcement
  <2>4. QED BY <2>2, <2>3 DEF SaidInOrder, AllFresh, SaidSoFar
<1>2. QED BY CalmInvariant, <1>1, PTL

\* If nobody speaks over the machine, a request that breaks off or finds no
\* memory costs at most one more response (data and data_len in c_http.c).
THEOREM FailureSpoilsOne == Spec => []SpoilsAtMostOne
<1>1. CalmInv => SpoilsAtMostOne
  <2>1. SUFFICES ASSUME CalmInv, calm PROVE lost <= failures
    BY DEF SpoilsAtMostOne
  <2>2. Paid /\ lost \in Nat /\ failures \in Nat
    BY <2>1 DEF CalmInv, DebtInv
  <2>3. Debt("response") \in Nat /\ Debt("music") \in Nat
    BY DEF Debt
  <2>4. QED BY <2>2, <2>3 DEF Paid
<1>2. QED BY CalmInvariant, <1>1, PTL
=============================================================================
