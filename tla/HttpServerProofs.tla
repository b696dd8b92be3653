-------------------------- MODULE HttpServerProofs --------------------------
(***************************************************************************)
(* What the web server confirms it has set, what it takes it gives back,   *)
(* and the request is answered until something longer has come: for any    *)
(* values, any length of a body, any memory and any datagrams.             *)
(***************************************************************************)
EXTENDS HttpServer, TLAPS

\* What the settings are when all that was confirmed is stored.
StoredPair(items) == <<Stored(items[1]), Stored(items[2])>>
InForce == [u \in Uris |-> StoredPair(confirmed[u])]

\* How settings and confirmed go together at each point of a POST.
InProgress ==
  /\ at \in {"idle", "recv", "delay", "free"} => settings = InForce
  /\ at = "first" =>
       InForce = IF uri \in Uris /\ buf # <<>>
                   THEN [settings EXCEPT ![uri] = StoredPair(buf)] ELSE settings
  /\ at = "second" =>
       /\ uri \in Uris /\ buf \in Pairs
       /\ InForce = [settings EXCEPT ![uri] = StoredPair(buf)]
       /\ settings[uri][1] = Stored(buf[1])

\* The buffer of the broadcasts is as long as the longest of them.
Residue == Len(udp) = longest

HttpInv == TypeOK /\ InProgress /\ HeapLedger /\ Residue /\ RequestAnswered

-----------------------------------------------------------------------------
\* What a setting may be, and may have been confirmed to be.
Settings  == Char \X Char
Confirmed == (Items \cup {Zero}) \X (Items \cup {Zero})

\* Whatever is sent, a char is stored; what fits is stored as it was sent.
LEMMA StoredTyped ==
  ASSUME NEW item \in Items \cup {Zero}
  PROVE  Stored(item) \in Char /\ (Fits(item) => Stored(item) = item.value)
<1>1. item.value \in Int
  BY HttpAssumption DEF Zero
<1>2. Stored(item) \in Char
  BY <1>1 DEF Stored, Char
<1>3. Fits(item) => Stored(item) = item.value
  BY <1>1 DEF Stored, Fits, Char
<1>4. QED BY <1>2, <1>3

\* Of each confirmed pair two chars are in force.
LEMMA PairTyped ==
  ASSUME NEW p \in Confirmed
  PROVE  /\ StoredPair(p) \in Settings
         /\ p[1] \in Items \cup {Zero} /\ p[2] \in Items \cup {Zero}
<1>1. p[1] \in Items \cup {Zero} /\ p[2] \in Items \cup {Zero}
  BY DEF Confirmed
<1>2. QED BY <1>1, StoredTyped DEF StoredPair, Settings

\* At power-on nothing is set, and nothing confirmed.
LEMMA OffTyped ==
  /\ AllOff \in [Uris -> Settings] /\ Unsent \in [Uris -> Confirmed]
  /\ AllOff = [u \in Uris |-> StoredPair(Unsent[u])]
<1>1. Stored(Zero) = 0
  BY DEF Stored, Zero
<1>2. \A u \in Uris : Unsent[u] = <<Zero, Zero>>
  BY DEF Unsent
<1>3. StoredPair(<<Zero, Zero>>) = <<0, 0>>
  BY <1>1 DEF StoredPair
<1>4. AllOff = [u \in Uris |-> StoredPair(Unsent[u])]
  BY <1>2, <1>3 DEF AllOff
<1>5. AllOff \in [Uris -> Settings] /\ Unsent \in [Uris -> Confirmed]
  BY DEF AllOff, Unsent, Settings, Confirmed, Char
<1>6. QED BY <1>4, <1>5

\* The invariant holds at power-on.
LEMMA InitHolds == Init => HttpInv
<1>1. SUFFICES ASSUME Init PROVE HttpInv
  OBVIOUS
<1>2. Wanted # <<>> /\ Heap \in Nat /\ Length \in Nat
  BY HttpAssumption
<1>3. TypeOK
  <2>1. settings \in [Uris -> Char \X Char]
        /\ confirmed \in [Uris -> (Items \cup {Zero}) \X (Items \cup {Zero})]
    BY <1>1, OffTyped DEF Init, Settings, Confirmed
  <2>2. <<>> \in Seq(Nat)
    OBVIOUS
  <2>3. udp \in Seq(Nat) /\ longest \in Nat /\ last \in [data : Seq(Nat), answered : BOOLEAN]
    BY <1>1, <2>2 DEF Init
  <2>4. body \in Pairs \cup {<<>>} /\ buf \in Pairs \cup {<<>>}
    BY <1>1 DEF Init
  <2>5. remaining \in 0 .. Length /\ heap \in 0 .. Heap /\ lost \in Nat
    BY <1>1, <1>2 DEF Init
  <2>6. QED BY <1>1, <2>1, <2>3, <2>4, <2>5, Zenon DEF Init, TypeOK, Uris
<1>4. InProgress
  BY <1>1, OffTyped DEF Init, InProgress, InForce
<1>5. HeapLedger
  BY <1>1, <1>2 DEF Init, HeapLedger
<1>6. Residue
  BY <1>1 DEF Init, Residue
<1>7. RequestAnswered
  BY <1>1, <1>2 DEF Init, RequestAnswered
<1>8. QED BY <1>3, <1>4, <1>5, <1>6, <1>7 DEF HttpInv

\* A crash leads to where the power-on does.
LEMMA CrashHolds == Crash => HttpInv'
<1>1. Crash => Init'
  BY DEF Crash, Init
<1>2. Init' => HttpInv'
  BY InitHolds, PTL
<1>3. QED BY <1>1, <1>2

\* What is known of the numbers, and of a pair that was received.
LEMMA Typed ==
  ASSUME TypeOK
  PROVE  /\ heap \in Nat /\ heap <= Heap /\ lost \in Nat /\ Heap \in Nat
         /\ remaining \in Nat /\ Length \in Nat
         /\ buf # <<>> => /\ buf \in Pairs /\ StoredPair(buf) \in Settings
                         /\ Stored(buf[1]) \in Char /\ Stored(buf[2]) \in Char
         /\ settings \in [Uris -> Settings] /\ confirmed \in [Uris -> Confirmed]
         /\ \A u \in Uris : settings[u][1] \in Char /\ settings[u][2] \in Char
<1>1. settings \in [Uris -> Settings] /\ confirmed \in [Uris -> Confirmed]
  BY DEF TypeOK, Settings, Confirmed
<1>2. \A u \in Uris : settings[u][1] \in Char /\ settings[u][2] \in Char
  BY <1>1 DEF Settings
<1>3. buf # <<>> => buf \in Pairs
  BY DEF TypeOK
<1>4. buf \in Pairs => buf \in Confirmed
  BY DEF Pairs, Confirmed
<1>5. buf \in Pairs => /\ StoredPair(buf) \in Settings
                       /\ Stored(buf[1]) \in Char /\ Stored(buf[2]) \in Char
  BY <1>4, PairTyped, StoredTyped
<1>6. /\ heap \in Nat /\ heap <= Heap /\ lost \in Nat /\ Heap \in Nat
      /\ remaining \in Nat /\ Length \in Nat
  BY HttpAssumption DEF TypeOK
<1>7. QED BY <1>1, <1>2, <1>3, <1>5, <1>6

\* The steps of the web server leave the broadcasts alone.
LEMMA BroadcastKept ==
  ASSUME HttpInv, UNCHANGED udpVars
  PROVE  /\ Residue' /\ RequestAnswered'
         /\ udp' \in Seq(Nat) /\ longest' \in Nat
         /\ last' \in [data : Seq(Nat), answered : BOOLEAN]
<1>1. Residue'
  BY DEF HttpInv, Residue, udpVars
<1>2. RequestAnswered'
  BY DEF HttpInv, RequestAnswered, udpVars
<1>3. QED BY <1>1, <1>2 DEF HttpInv, TypeOK, udpVars

\* A GET takes memory and changes nothing else.
LEMMA GetHolds == HttpInv /\ Get => HttpInv'
<1>1. SUFFICES ASSUME HttpInv, Get PROVE HttpInv'
  OBVIOUS
<1>2. CASE TextLost /\ UNCHANGED <<serverVars, udpVars>>
  <2>1. TypeOK /\ HeapLedger /\ InProgress
    BY <1>1 DEF HttpInv
  <2>2. heap' \in 0 .. Heap /\ lost' \in Nat /\ heap' + lost' = heap + lost
    BY <1>2, <2>1, Typed DEF TextLost
  <2>3. TypeOK'
    BY <1>1, <1>2, <2>1, <2>2, BroadcastKept DEF TypeOK, serverVars, reqVars
  <2>4. InProgress'
    BY <1>2, <2>1 DEF InProgress, InForce, serverVars, reqVars
  <2>5. HeapLedger'
    BY <1>2, <2>1, <2>2, Typed DEF HeapLedger, serverVars, TextLost
  <2>6. QED BY <1>1, <1>2, <2>3, <2>4, <2>5, BroadcastKept DEF HttpInv
<1>3. QED BY <1>1, <1>2, CrashHolds DEF Get

\* A POST begins with the settings confirmed, and holds a block of memory.
LEMMA PostHolds == HttpInv /\ Post => HttpInv'
<1>1. SUFFICES ASSUME HttpInv, Post, heap > 0 PROVE HttpInv'
  <2>1. heap = 0 \/ heap > 0 \/ ~HttpInv
    BY Typed DEF HttpInv
  <2>2. QED BY <2>1, CrashHolds DEF Post
<1>2. TypeOK /\ HeapLedger /\ InProgress /\ at = "idle"
  BY <1>1 DEF HttpInv, Post
<1>3. /\ at' = "recv" /\ uri' \in Uris \cup {"/time"} /\ heap' = heap - 1
      /\ body' \in Pairs \cup {<<>>} /\ buf' = <<>> /\ remaining' \in {0, Length}
      /\ open' = TRUE /\ UNCHANGED <<settings, confirmed, udpVars, lost>>
  BY <1>1, <1>2, Typed DEF Post
<1>4. TypeOK'
  <2>1. heap' \in 0 .. Heap /\ remaining' \in 0 .. Length
    BY <1>1, <1>2, <1>3, Typed
  <2>2. QED BY <1>1, <1>2, <1>3, <2>1, BroadcastKept DEF TypeOK
<1>5. InProgress'
  BY <1>2, <1>3 DEF InProgress, InForce
<1>6. HeapLedger'
  BY <1>1, <1>2, <1>3, Typed DEF HeapLedger
<1>7. QED BY <1>1, <1>3, <1>4, <1>5, <1>6, BroadcastKept DEF HttpInv

\* Reception changes neither settings nor memory; a failure gives the memory up.
LEMMA ReceptionHolds == HttpInv /\ (ClientCloses \/ Recv \/ RecvFails) => HttpInv'
<1>1. SUFFICES ASSUME HttpInv, ClientCloses \/ Recv \/ RecvFails PROVE HttpInv'
  OBVIOUS
<1>2. TypeOK /\ HeapLedger /\ InProgress /\ at = "recv"
  BY <1>1 DEF HttpInv, ClientCloses, Recv, RecvFails
<1>3. UNCHANGED <<settings, confirmed, udpVars, heap>>
  BY <1>1 DEF ClientCloses, Recv, RecvFails
<1>4. at' \in {"recv", "idle"} /\ uri' = uri /\ body' = body
  BY <1>1, <1>2 DEF ClientCloses, Recv, RecvFails, reqVars
<1>5. buf' \in Pairs \cup {<<>>} /\ remaining' \in 0 .. Length /\ open' \in BOOLEAN
  <2>1. CASE Recv
    <3>1. PICK ret \in 1 .. remaining :
            remaining' = remaining - ret /\ buf' = IF ret = Length THEN body ELSE <<>>
      BY <2>1 DEF Recv
    <3>2. remaining' \in 0 .. Length
      BY <1>2, <3>1, Typed DEF TypeOK
    <3>3. buf' \in Pairs \cup {<<>>}
      BY <1>2, <3>1 DEF TypeOK
    <3>4. QED BY <1>2, <2>1, <3>2, <3>3 DEF Recv, TypeOK
  <2>2. CASE ClientCloses
    BY <1>2, <2>2 DEF ClientCloses, TypeOK
  <2>3. CASE RecvFails
    BY <1>2, <2>3 DEF RecvFails, TypeOK, reqVars
  <2>4. QED BY <1>1, <2>1, <2>2, <2>3
<1>6. /\ lost' \in Nat
      /\ at' = "recv" => lost' = lost
      /\ at' = "idle" => lost' = lost + 1
  BY <1>1, <1>2, Typed DEF ClientCloses, Recv, RecvFails
<1>7. TypeOK'
  BY <1>1, <1>2, <1>3, <1>4, <1>5, <1>6, BroadcastKept DEF TypeOK
<1>8. InProgress'
  BY <1>2, <1>3, <1>4 DEF InProgress, InForce
<1>9. HeapLedger'
  BY <1>2, <1>3, <1>4, <1>6, Typed DEF HeapLedger
<1>10. QED BY <1>1, <1>3, <1>7, <1>8, <1>9, BroadcastKept DEF HttpInv

\* "OK" is sent when the body is there, and its settings are pending from then on.
LEMMA SendHolds == HttpInv /\ SendOk => HttpInv'
<1>1. SUFFICES ASSUME HttpInv, SendOk PROVE HttpInv'
  OBVIOUS
<1>2. TypeOK /\ HeapLedger /\ InProgress /\ at = "recv" /\ settings = InForce
  BY <1>1 DEF HttpInv, SendOk, InProgress
<1>3. at' = "first" /\ UNCHANGED <<reqVars, settings, udpVars, heap, lost>>
  BY <1>1 DEF SendOk
<1>4. confirmed' = IF uri \in Uris /\ buf # <<>>
                     THEN [confirmed EXCEPT ![uri] = buf] ELSE confirmed
  BY <1>1, <1>2 DEF SendOk
<1>5. confirmed' \in [Uris -> Confirmed]
  <2>1. confirmed \in [Uris -> Confirmed] /\ (buf # <<>> => buf \in Confirmed)
    BY <1>2, Typed DEF Pairs, Confirmed
  <2>2. QED BY <1>4, <2>1
<1>6. InForce' = IF uri \in Uris /\ buf # <<>>
                    THEN [settings EXCEPT ![uri] = StoredPair(buf)] ELSE settings
  <2>1. confirmed \in [Uris -> Confirmed]
    BY <1>2, Typed
  <2>2. CASE uri \in Uris /\ buf # <<>>
    <3>1. \A u \in Uris : confirmed'[u] = IF u = uri THEN buf ELSE confirmed[u]
      BY <1>4, <2>1, <2>2
    <3>2. [settings EXCEPT ![uri] = StoredPair(buf)]
             = [u \in Uris |-> IF u = uri THEN StoredPair(buf) ELSE StoredPair(confirmed[u])]
      BY <1>2, <2>2 DEF InForce
    <3>3. InForce' = [u \in Uris |-> StoredPair(confirmed'[u])]
      BY DEF InForce, StoredPair, Stored
    <3>4. QED BY <2>2, <3>1, <3>2, <3>3
  <2>3. CASE ~(uri \in Uris /\ buf # <<>>)
    BY <1>2, <1>4, <2>3 DEF InForce
  <2>4. QED BY <2>2, <2>3
<1>7. TypeOK'
  BY <1>1, <1>2, <1>3, <1>5, BroadcastKept DEF TypeOK, Confirmed, reqVars
<1>8. InProgress'
  BY <1>3, <1>6 DEF InProgress, reqVars
<1>9. HeapLedger'
  BY <1>2, <1>3 DEF HeapLedger
<1>10. QED BY <1>1, <1>3, <1>7, <1>8, <1>9, BroadcastKept DEF HttpInv

\* The first of the two settings is in its place, the second one still the old.
LEMMA FirstHolds == HttpInv /\ SetFirst => HttpInv'
<1>1. SUFFICES ASSUME HttpInv, SetFirst, buf # <<>> PROVE HttpInv'
  BY CrashHolds DEF SetFirst
<1>2. TypeOK /\ HeapLedger /\ InProgress /\ at = "first"
  BY <1>1 DEF HttpInv, SetFirst
<1>3. UNCHANGED <<reqVars, confirmed, udpVars, heap, lost>>
  BY <1>1 DEF SetFirst, Crash
<1>4. CASE uri = "/time" /\ at' = "delay" /\ UNCHANGED settings
  <2>1. uri \notin Uris
    BY <1>4 DEF Uris
  <2>2. TypeOK'
    BY <1>1, <1>2, <1>3, <1>4, BroadcastKept DEF TypeOK, reqVars
  <2>3. InProgress'
    BY <1>2, <1>3, <1>4, <2>1 DEF InProgress, InForce, reqVars
  <2>4. HeapLedger'
    BY <1>2, <1>3, <1>4 DEF HeapLedger
  <2>5. QED BY <1>1, <1>3, <2>2, <2>3, <2>4, BroadcastKept DEF HttpInv
<1>5. CASE /\ uri \in Uris /\ at' = "second"
           /\ settings' = [settings EXCEPT ![uri] = <<Stored(buf[1]), @[2]>>]
  <2>1. buf \in Pairs /\ Stored(buf[1]) \in Char /\ settings \in [Uris -> Settings]
        /\ settings[uri][2] \in Char
    BY <1>1, <1>2, <1>5, Typed
  <2>2. <<Stored(buf[1]), settings[uri][2]>> \in Settings
    BY <2>1 DEF Settings
  <2>3. settings' \in [Uris -> Char \X Char]
    BY <1>5, <2>1, <2>2 DEF Settings
  <2>4. TypeOK'
    BY <1>1, <1>2, <1>3, <1>5, <2>3, BroadcastKept DEF TypeOK, reqVars
  <2>5. InForce' = [settings EXCEPT ![uri] = StoredPair(buf)]
    BY <1>1, <1>2, <1>3, <1>5 DEF InProgress, InForce
  <2>6. /\ settings'[uri][1] = Stored(buf[1])
        /\ InForce' = [settings' EXCEPT ![uri] = StoredPair(buf)]
    BY <1>5, <2>1, <2>5
  <2>7. InProgress'
    BY <1>3, <1>5, <2>1, <2>6 DEF InProgress, reqVars
  <2>8. HeapLedger'
    BY <1>2, <1>3, <1>5 DEF HeapLedger
  <2>9. QED BY <1>1, <1>3, <2>4, <2>7, <2>8, BroadcastKept DEF HttpInv
<1>6. CASE Crash
  BY <1>6, CrashHolds
<1>7. QED BY <1>1, <1>4, <1>5, <1>6 DEF SetFirst

\* With the second one the settings are those that were confirmed.
LEMMA SecondHolds == HttpInv /\ SetSecond => HttpInv'
<1>1. SUFFICES ASSUME HttpInv, SetSecond PROVE HttpInv'
  OBVIOUS
<1>2. TypeOK /\ HeapLedger /\ InProgress /\ at = "second" /\ at' = "free"
  BY <1>1 DEF HttpInv, SetSecond
<1>3. /\ UNCHANGED <<reqVars, confirmed, udpVars, heap, lost>>
      /\ settings' = [settings EXCEPT ![uri] = <<@[1], Stored(buf[2])>>]
  BY <1>1 DEF SetSecond
<1>4. /\ uri \in Uris /\ buf \in Pairs /\ settings \in [Uris -> Settings]
      /\ InForce' = [settings EXCEPT ![uri] = StoredPair(buf)]
      /\ settings[uri][1] = Stored(buf[1])
  BY <1>2, <1>3, Typed DEF InProgress, InForce
<1>5. <<settings[uri][1], Stored(buf[2])>> = StoredPair(buf)
  BY <1>4 DEF StoredPair
<1>6. settings' = InForce'
  BY <1>3, <1>4, <1>5
<1>7. settings' \in [Uris -> Char \X Char]
  <2>1. StoredPair(buf) \in Settings
    BY <1>4, PairTyped DEF Pairs, Confirmed
  <2>2. QED BY <1>4, <1>6, <2>1 DEF Settings
<1>8. TypeOK'
  BY <1>1, <1>2, <1>3, <1>7, BroadcastKept DEF TypeOK, reqVars
<1>9. InProgress'
  BY <1>2, <1>6 DEF InProgress
<1>10. HeapLedger'
  BY <1>2, <1>3 DEF HeapLedger
<1>11. QED BY <1>1, <1>3, <1>8, <1>9, <1>10, BroadcastKept DEF HttpInv

\* The end of a POST gives its memory back.
LEMMA EndHolds == HttpInv /\ (TimeDelay \/ FreeUrl) => HttpInv'
<1>1. SUFFICES ASSUME HttpInv, TimeDelay \/ FreeUrl PROVE HttpInv'
  OBVIOUS
<1>2. TypeOK /\ HeapLedger /\ InProgress /\ at \in {"delay", "free"}
  BY <1>1 DEF HttpInv, TimeDelay, FreeUrl
<1>3. UNCHANGED <<reqVars, settings, confirmed, udpVars, lost>>
  BY <1>1 DEF TimeDelay, FreeUrl
<1>4. \/ at' = "free" /\ heap' = heap
      \/ at' = "idle" /\ heap' = heap + 1
  BY <1>1 DEF TimeDelay, FreeUrl
<1>5. HeapLedger'
  BY <1>2, <1>3, <1>4, Typed DEF HeapLedger
<1>6. heap' \in 0 .. Heap
  BY <1>2, <1>4, Typed DEF HeapLedger
<1>7. TypeOK'
  BY <1>1, <1>2, <1>3, <1>4, <1>6, BroadcastKept DEF TypeOK, reqVars
<1>8. InProgress'
  BY <1>2, <1>3, <1>4 DEF InProgress, InForce
<1>9. QED BY <1>1, <1>3, <1>5, <1>7, <1>8, BroadcastKept DEF HttpInv

-----------------------------------------------------------------------------
\* A datagram over the buffer: what it is, and that it never gets shorter.
LEMMA ReceivedOver ==
  ASSUME NEW d \in Seq(Nat), udp \in Seq(Nat)
  PROVE  /\ Received(d) \in Seq(Nat)
         /\ Len(Received(d)) = IF Len(udp) < Len(d) THEN Len(d) ELSE Len(udp)
         /\ Len(udp) <= Len(d) => Received(d) = d
<1>1. Len(d) \in Nat /\ Len(udp) \in Nat
  OBVIOUS
<1>2. DEFINE tail == SubSeq(udp, Len(d) + 1, Len(udp))
<1>3. tail \in Seq(Nat)
  BY <1>1
<1>4. Len(tail) = IF Len(udp) < Len(d) THEN 0 ELSE Len(udp) - Len(d)
  BY <1>1
<1>5. Len(udp) <= Len(d) => tail = <<>>
  BY <1>1, <1>3, <1>4
<1>6. QED BY <1>1, <1>3, <1>4, <1>5 DEF Received

\* The buffer is that long again, and a request nothing longer came before is answered.
LEMMA DatagramHolds ==
  ASSUME NEW d \in Datagrams
  PROVE  HttpInv /\ Datagram(d) => HttpInv'
<1>1. SUFFICES ASSUME HttpInv, Datagram(d) PROVE HttpInv'
  OBVIOUS
<1>2. TypeOK /\ HeapLedger /\ InProgress /\ Len(udp) = longest
  BY <1>1 DEF HttpInv, Residue
<1>3. d \in Seq(Nat) /\ udp \in Seq(Nat) /\ longest \in Nat /\ Len(d) \in Nat
  BY <1>2, HttpAssumption DEF TypeOK
<1>4. /\ udp' = Received(d) /\ last' = [data |-> d, answered |-> udp' = Wanted]
      /\ longest' = IF longest < Len(d) THEN Len(d) ELSE longest
      /\ UNCHANGED serverVars
  BY <1>1 DEF Datagram
<1>5. udp' \in Seq(Nat) /\ longest' \in Nat /\ Len(udp') = longest'
  BY <1>2, <1>3, <1>4, ReceivedOver
<1>6. heap' \in 0 .. Heap /\ lost' \in Nat /\ heap' + lost' = heap + lost
  <2>1. TextLost \/ UNCHANGED <<heap, lost>>
    BY <1>1 DEF Datagram
  <2>2. QED BY <1>2, <2>1, Typed DEF TextLost
<1>7. TypeOK'
  <2>1. last' \in [data : Seq(Nat), answered : BOOLEAN]
    BY <1>3, <1>4
  <2>2. QED BY <1>2, <1>4, <1>5, <1>6, <2>1 DEF TypeOK, serverVars, reqVars
<1>8. InProgress'
  BY <1>2, <1>4 DEF InProgress, InForce, serverVars, reqVars
<1>9. HeapLedger'
  BY <1>2, <1>4, <1>6, Typed DEF HeapLedger, serverVars
<1>10. RequestAnswered'
  <2>1. SUFFICES ASSUME d = Wanted, longest' <= Len(Wanted) PROVE udp' = Wanted
    BY <1>4 DEF RequestAnswered
  <2>2. Len(udp) <= Len(d)
    BY <1>2, <1>3, <1>4, <2>1
  <2>3. QED BY <1>3, <1>4, <2>1, <2>2, ReceivedOver
<1>11. QED BY <1>5, <1>7, <1>8, <1>9, <1>10 DEF HttpInv, Residue

-----------------------------------------------------------------------------
\* Every step keeps the invariant.
LEMMA HttpStep == HttpInv /\ [Next]_vars => HttpInv'
<1>1. SUFFICES ASSUME HttpInv, [Next]_vars PROVE HttpInv'
  OBVIOUS
<1>2. CASE Get
  BY <1>1, <1>2, GetHolds
<1>3. CASE Post
  BY <1>1, <1>3, PostHolds
<1>4. CASE ClientCloses \/ Recv \/ RecvFails
  BY <1>1, <1>4, ReceptionHolds
<1>5. CASE SendOk
  BY <1>1, <1>5, SendHolds
<1>6. CASE SetFirst
  BY <1>1, <1>6, FirstHolds
<1>7. CASE SetSecond
  BY <1>1, <1>7, SecondHolds
<1>8. CASE TimeDelay \/ FreeUrl
  BY <1>1, <1>8, EndHolds
<1>9. CASE Broadcast
  <2>1. PICK d \in Datagrams : Datagram(d) \/ DatagramCrash(d)
    BY <1>9 DEF Broadcast
  <2>2. QED BY <1>1, <2>1, DatagramHolds, CrashHolds DEF DatagramCrash
<1>10. CASE UNCHANGED vars
  <2>1. UNCHANGED <<at, uri, body, buf, remaining, open, settings, confirmed,
                    udp, last, longest, heap, lost>>
    BY <1>10 DEF vars, serverVars, reqVars, udpVars
  <2>2. TypeOK'
    BY <1>1, <2>1 DEF HttpInv, TypeOK
  <2>3. InProgress' /\ HeapLedger'
    BY <1>1, <2>1 DEF HttpInv, InProgress, InForce, HeapLedger
  <2>4. Residue' /\ RequestAnswered'
    BY <1>1, <2>1 DEF HttpInv, Residue, RequestAnswered
  <2>5. QED BY <2>2, <2>3, <2>4 DEF HttpInv
<1>11. QED
  BY <1>1, <1>2, <1>3, <1>4, <1>5, <1>6, <1>7, <1>8, <1>9, <1>10 DEF Next, Handler

\* The inductive invariant: the settings are what a char keeps of the items that
\* were confirmed, except between the "OK" and the last write (66-87 of
\* c_clock_http.c), the memory adds up, and the buffer of the broadcasts is as long as the longest one.
THEOREM HttpInvariant == Spec => []HttpInv
BY InitHolds, HttpStep, PTL DEF Spec

\* The variables of the web server and the responder stay in their types, the
\* free memory within what there is.
THEOREM TypeCorrect == Spec => []TypeOK
<1>1. HttpInv => TypeOK
  BY DEF HttpInv
<1>2. QED BY HttpInvariant, <1>1, PTL

\* Between two requests each setting is the number last confirmed with "OK", if
\* it was a number that a char can hold, whatever the other of the two was.
THEOREM OkIsSet == Spec => []OkMeansSet
<1>1. HttpInv => OkMeansSet
  <2>1. SUFFICES ASSUME HttpInv, at = "idle", NEW u \in Uris, NEW i \in 1 .. 2
                 PROVE  Fits(confirmed[u][i]) => settings[u][i] = confirmed[u][i].value
    BY DEF OkMeansSet
  <2>2. confirmed[u] \in Confirmed /\ settings[u] = StoredPair(confirmed[u])
    BY <2>1, Typed DEF HttpInv, InProgress, InForce
  <2>3. i = 1 \/ i = 2
    BY <2>1
  <2>4. settings[u][i] = Stored(confirmed[u][i]) /\ confirmed[u][i] \in Items \cup {Zero}
    BY <2>2, <2>3, PairTyped DEF StoredPair
  <2>5. QED BY <2>4, StoredTyped
<1>2. QED BY HttpInvariant, <1>1, PTL

\* Every block of memory is free, with the request that is served, or lost to
\* an answer or a broken POST.
THEOREM LedgerBalances == Spec => []HeapLedger
<1>1. HttpInv => HeapLedger
  BY DEF HttpInv
<1>2. QED BY HttpInvariant, <1>1, PTL

\* A request is answered if no longer datagram came before, whatever did come.
THEOREM AnswersRequests == Spec => []RequestAnswered
<1>1. HttpInv => RequestAnswered
  BY DEF HttpInv
<1>2. QED BY HttpInvariant, <1>1, PTL

-----------------------------------------------------------------------------
(* The other half of RequestAnswered                                       *)

\* Once a datagram longer than the request has come, its end stays in the
\* buffer and no request is answered any more, until the machine starts anew
\* (esp_receive_broadcast, 190-213).
DeafUntilRestart ==
  [][longest > Len(Wanted) => Init' \/ (longest' > Len(Wanted) /\ ~last'.answered)]_vars

Deaf == longest > Len(Wanted) => ~last.answered

\* A datagram shorter than the buffer is compared together with its end.
LEMMA DeafStep ==
  ASSUME HttpInv, Deaf, [Next]_vars
  PROVE  Init' \/ (Deaf' /\ longest' >= longest)
<1>1. longest \in Nat /\ udp \in Seq(Nat) /\ Len(udp) = longest
  BY DEF HttpInv, TypeOK, Residue
<1>2. CASE UNCHANGED udpVars
  BY <1>1, <1>2 DEF Deaf, udpVars
<1>3. CASE Crash
  BY <1>3 DEF Crash, Init
<1>4. ASSUME NEW d \in Datagrams, Datagram(d)
      PROVE  Deaf' /\ longest' >= longest
  <2>1. d \in Seq(Nat) /\ Len(d) \in Nat /\ Wanted \in Seq(Nat)
    BY HttpAssumption
  <2>2. /\ udp' = Received(d) /\ last'.answered = (udp' = Wanted)
        /\ longest' = IF longest < Len(d) THEN Len(d) ELSE longest
    BY <1>4 DEF Datagram
  <2>3. Len(udp') = longest' /\ longest' \in Nat
    BY <1>1, <2>1, <2>2, ReceivedOver
  <2>4. longest' > Len(Wanted) => udp' # Wanted
    BY <2>1, <2>3
  <2>5. Deaf'
    BY <2>2, <2>4, Zenon DEF Deaf
  <2>6. longest' >= longest
    BY <1>1, <2>1, <2>2
  <2>7. QED BY <2>5, <2>6
<1>5. UNCHANGED udpVars \/ Crash \/ \E d \in Datagrams : Datagram(d)
  <2>1. CASE UNCHANGED vars
    BY <2>1 DEF vars
  <2>2. CASE Get \/ Post
    BY <2>2 DEF Get, Post
  <2>3. CASE ClientCloses \/ Handler
    BY <2>3
       DEF ClientCloses, Handler, Recv, RecvFails, SendOk, SetFirst, SetSecond, TimeDelay, FreeUrl
  <2>4. CASE Broadcast
    BY <2>4 DEF Broadcast, DatagramCrash
  <2>5. QED BY <2>1, <2>2, <2>3, <2>4 DEF Next
<1>6. QED BY <1>2, <1>3, <1>4, <1>5

\* A longer datagram makes the responder deaf until a restart, whatever comes.
THEOREM StaysDeaf == Spec => DeafUntilRestart
<1>1. Init => Deaf
  BY DEF Init, Deaf
<1>2. HttpInv /\ Deaf /\ [Next]_vars => Deaf'
  <2>1. Init' => Deaf'
    BY <1>1, PTL
  <2>2. QED BY <2>1, DeafStep
<1>3. HttpInv /\ Deaf /\ [Next]_vars =>
        [longest > Len(Wanted) => Init' \/ (longest' > Len(Wanted) /\ ~last'.answered)]_vars
  <2>1. SUFFICES ASSUME HttpInv, Deaf, [Next]_vars, longest > Len(Wanted), ~Init'
                 PROVE  longest' > Len(Wanted) /\ ~last'.answered
    OBVIOUS
  <2>2. longest \in Nat /\ Len(Wanted) \in Nat /\ Deaf' /\ longest' >= longest
    BY <2>1, DeafStep, HttpAssumption DEF HttpInv, TypeOK
  <2>3. longest' \in Nat
    <3>1. HttpInv'
      BY <2>1, HttpStep
    <3>2. QED BY <3>1 DEF HttpInv, TypeOK
  <2>4. longest' > Len(Wanted)
    BY <2>1, <2>2, <2>3
  <2>5. QED BY <2>2, <2>4 DEF Deaf
<1>4. QED BY <1>1, <1>2, <1>3, HttpInvariant, PTL DEF Spec, DeafUntilRestart
=============================================================================
