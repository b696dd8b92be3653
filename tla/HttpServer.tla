----------------------------- MODULE HttpServer -----------------------------
(***************************************************************************)
(* The web server and the broadcast answer (main/c_clock_http.c 27-219):   *)
(* the reception and the effect of a POST, GET /status, the UDP responder, *)
(* and the memory they use.  The server's task serves one request after    *)
(* the other, the responder is a task of its own.                          *)
(*                                                                         *)
(* The settings are not stored: a crash, which a body that does not parse  *)
(* or an empty heap ends in, is a restart that loses them.                 *)
(***************************************************************************)
EXTENDS Integers, Sequences

CONSTANTS
  Items,      \* what a client sends for a setting: numbers, in quotes or not
  Length,     \* content_len of a body
  Heap,       \* the blocks of memory there are
  Datagrams,  \* what is broadcast, as sequences of bytes that are not 0
  Wanted      \* the request among them, "123"

ASSUME HttpAssumption ==
  /\ Items \subseteq [kind : {"number", "string"}, value : Int]
  /\ Length \in Nat \ {0} /\ Heap \in Nat
  /\ Datagrams \subseteq Seq(Nat) /\ Wanted \in Datagrams \ {<<>>}

VARIABLES
  at,        \* where the server's task is
  uri,       \* of the request it serves
  body,      \* what the client sends: two items, or <<>> if they are missing
  buf,       \* what was received: as body, or <<>> if that does not parse
  remaining,
  open,      \* more may come from the client
  settings,  \* the two settings of each uri
  heap,      \* free blocks
  udp,       \* udp_server_buf up to its first 0
  confirmed, \* ghost: the last items of each uri that were answered "OK"
  lost,      \* ghost: the GETs, answers and broken POSTs since the restart
  last,      \* ghost: the last datagram and whether it was answered
  longest    \* ghost: the length of the longest datagram

reqVars    == <<uri, body, buf, remaining, open>>
serverVars == <<at, reqVars, settings, confirmed>>
udpVars    == <<udp, last, longest>>
vars       == <<serverVars, udpVars, heap, lost>>

Uris   == {"/ctrl", "/alarm", "/sleep"}
Pairs  == Items \X Items
AllOff == [u \in Uris |-> <<0, 0>>]

\* Nothing was sent yet, as if it had been 0.
Zero   == [kind |-> "number", value |-> 0]
Unsent == [u \in Uris |-> <<Zero, Zero>>]

Init ==
  /\ at = "idle" /\ uri = "/ctrl" /\ body = <<>> /\ buf = <<>> /\ remaining = 0 /\ open = TRUE
  /\ settings = AllOff /\ confirmed = Unsent
  /\ heap = Heap /\ lost = 0
  /\ udp = <<>> /\ last = [data |-> <<>>, answered |-> FALSE] /\ longest = 0

\* A NULL pointer is used, and the machine starts anew.
Crash ==
  /\ at' = "idle" /\ uri' = "/ctrl" /\ body' = <<>> /\ buf' = <<>> /\ remaining' = 0
  /\ open' = TRUE /\ settings' = AllOff /\ confirmed' = Unsent
  /\ heap' = Heap /\ lost' = 0
  /\ udp' = <<>> /\ last' = [data |-> <<>>, answered |-> FALSE] /\ longest' = 0

-----------------------------------------------------------------------------
(* esp_get_handler and esp_set_handler                                     *)

\* The text of an answer is never freed.
TextLost == heap > 0 /\ heap' = heap - 1 /\ lost' = lost + 1

Get ==
  /\ at = "idle"
  /\ \/ TextLost /\ UNCHANGED <<serverVars, udpVars>>
     \/ heap = 0 /\ Crash

\* url is copied, and buf cleared.
Post ==
  /\ at = "idle"
  /\ \/ /\ heap > 0 /\ heap' = heap - 1
        /\ at' = "recv" /\ uri' \in Uris \cup {"/time"}
        /\ body' \in Pairs \cup {<<>>} /\ buf' = <<>> /\ remaining' \in {0, Length}
        /\ open' = TRUE
        /\ UNCHANGED <<settings, confirmed, udpVars, lost>>
     \/ heap = 0 /\ Crash

ClientCloses ==
  /\ at = "recv" /\ open /\ open' = FALSE
  /\ UNCHANGED <<at, uri, body, buf, remaining, settings, confirmed, udpVars, heap, lost>>

\* Each part is received to the start of buf: the body is there only if it came
\* in one.  A timeout changes nothing and receives again.
Recv ==
  /\ at = "recv" /\ open
  /\ \E ret \in 1 .. remaining :
       /\ remaining' = remaining - ret
       /\ buf' = IF ret = Length THEN body ELSE <<>>
  /\ UNCHANGED <<at, uri, body, open, settings, confirmed, udpVars, heap, lost>>

\* Mutant of RecvFails: it receives again, as after a timeout.
RecvFailsContinues ==
  /\ at = "recv" /\ ~open /\ remaining > 0
  /\ UNCHANGED vars

\* url is not freed.
RecvFails ==
  /\ at = "recv" /\ ~open /\ remaining > 0
  /\ at' = "idle" /\ lost' = lost + 1
  /\ UNCHANGED <<reqVars, settings, confirmed, udpVars, heap>>

SendOk ==
  /\ at = "recv" /\ remaining = 0 /\ at' = "first"
  /\ confirmed' = IF uri \in Uris /\ buf # <<>>
                    THEN [confirmed EXCEPT ![uri] = buf] ELSE confirmed
  /\ UNCHANGED <<reqVars, settings, udpVars, heap, lost>>

Char == 0 .. 255

\* valueint, a whole number and 0 for a string, assigned to a char, which on this
\* processor is unsigned: of 300 there remains 44.
Stored(item) == (IF item.kind = "number" THEN item.value ELSE 0) % 256

\* cJSON_Parse, and the first of the two settings, or the clock.
SetFirst ==
  /\ at = "first"
  /\ \/ buf = <<>> /\ Crash
     \/ /\ buf # <<>>
        /\ \/ uri = "/time" /\ at' = "delay" /\ UNCHANGED settings
           \/ /\ uri \in Uris /\ at' = "second"
              /\ settings' = [settings EXCEPT ![uri] = <<Stored(buf[1]), @[2]>>]
        /\ UNCHANGED <<reqVars, confirmed, udpVars, heap, lost>>

\* Mutant of SetSecond: the first is written again.
SetSecondFirst ==
  /\ at = "second" /\ at' = "free"
  /\ settings' = [settings EXCEPT ![uri] = <<Stored(buf[1]), @[2]>>]
  /\ UNCHANGED <<reqVars, confirmed, udpVars, heap, lost>>

SetSecond ==
  /\ at = "second" /\ at' = "free"
  /\ settings' = [settings EXCEPT ![uri] = <<@[1], Stored(buf[2])>>]
  /\ UNCHANGED <<reqVars, confirmed, udpVars, heap, lost>>

TimeDelay ==
  /\ at = "delay" /\ at' = "free"
  /\ UNCHANGED <<reqVars, settings, confirmed, udpVars, heap, lost>>

\* Mutants of FreeUrl: url is kept, or freed twice.
FreeUrlForgotten ==
  /\ at = "free" /\ at' = "idle"
  /\ UNCHANGED <<reqVars, settings, confirmed, udpVars, heap, lost>>
FreeUrlTwice ==
  /\ at = "free" /\ at' = "idle" /\ heap' = heap + 2
  /\ UNCHANGED <<reqVars, settings, confirmed, udpVars, lost>>

FreeUrl ==
  /\ at = "free" /\ at' = "idle" /\ heap' = heap + 1
  /\ UNCHANGED <<reqVars, settings, confirmed, udpVars, lost>>

Handler == Recv \/ RecvFails \/ SendOk \/ SetFirst \/ SetSecond \/ TimeDelay \/ FreeUrl

-----------------------------------------------------------------------------
(* esp_receive_broadcast                                                   *)

\* Mutant of Received: the datagram is put behind the one before.
ReceivedBehind(d) == udp \o d

\* The datagram over the start of the buffer, which is never cleared.
Received(d) == d \o SubSeq(udp, Len(d) + 1, Len(udp))

Datagram(d) ==
  /\ udp' = Received(d)
  /\ last' = [data |-> d, answered |-> udp' = Wanted]
  /\ longest' = IF longest < Len(d) THEN Len(d) ELSE longest
  /\ IF udp' = Wanted THEN TextLost ELSE UNCHANGED <<heap, lost>>
  /\ UNCHANGED serverVars

DatagramCrash(d) == Received(d) = Wanted /\ heap = 0 /\ Crash

Broadcast == \E d \in Datagrams : Datagram(d) \/ DatagramCrash(d)

-----------------------------------------------------------------------------
Next == Get \/ Post \/ ClientCloses \/ Handler \/ Broadcast

\* The client of a request sends its body or closes the connection: a silent one
\* keeps the server as long as it likes.
Spec == Init /\ [][Next]_vars /\ WF_vars(Handler)

-----------------------------------------------------------------------------
(* What holds                                                              *)

\* The variables are in their types, and never more memory is free than there is.
TypeOK ==
  /\ at \in {"idle", "recv", "first", "second", "delay", "free"}
  /\ uri \in Uris \cup {"/time"}
  /\ body \in Pairs \cup {<<>>} /\ buf \in Pairs \cup {<<>>}
  /\ remaining \in 0 .. Length /\ open \in BOOLEAN
  /\ settings \in [Uris -> Char \X Char]
  /\ confirmed \in [Uris -> (Items \cup {Zero}) \X (Items \cup {Zero})]
  /\ heap \in 0 .. Heap /\ lost \in Nat
  /\ udp \in Seq(Nat) /\ longest \in Nat
  /\ last \in [data : Seq(Nat), answered : BOOLEAN]

\* A number that a char can hold.
Fits(item) == item.kind = "number" /\ item.value \in Char

\* "OK" is sent before the body is even parsed, and still whoever got it finds
\* what he sent, if it is a number that fits: between two requests, and so in
\* every answer to GET /status, the settings are those last confirmed, none half
\* written and none dropped, whatever was sent beside them (c_clock_http.c
\* 66-87).  A number that does not fit, or a string, is confirmed all the same.
OkMeansSet ==
  at = "idle" =>
    \A u \in Uris, i \in 1 .. 2 :
      Fits(confirmed[u][i]) => settings[u][i] = confirmed[u][i].value

\* The memory is lost to the answers, and to the POSTs that broke off (38, 60
\* and 204 of c_clock_http.c), and to nothing else: a POST that was served gives
\* back all it took.
HeapLedger == heap + lost + (IF at = "idle" THEN 0 ELSE 1) = Heap

\* A client that sends a part of its body only, or none, does not keep the
\* server for ever, once it closes the connection (52-62).
ServerReturns == at # "idle" ~> at = "idle"

\* A request is answered if no longer datagram came before (190-213).
RequestAnswered ==
  last.data = Wanted /\ longest <= Len(Wanted) => last.answered

\* "If the broadcast request is received, send the peer a unicast" (194).
RequestsAnswered == last.data = Wanted => last.answered
=============================================================================
