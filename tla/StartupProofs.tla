--------------------------- MODULE StartupProofs ---------------------------
(***************************************************************************)
(* For any number of retries, networks, troubles and presses: the mode     *)
(* that comes up is the one the REC key asked for, nobody uses a deleted   *)
(* event group before SmartConfig has ended, a name and a password of two  *)
(* networks meet only if storing or reading them failed, and the wait of   *)
(* wifi_init is never for nothing.                                         *)
(*                                                                         *)
(* Of the memory each of the four looks at a few fields, so the steps are  *)
(* first reduced to what they do to these (Same, Kept, Still).             *)
(***************************************************************************)
EXTENDS Startup, SequenceTheorems, TLAPS

Fields == {"main", "key", "system_mode", "misread"}
IsRam(m) == Fields \subseteq DOMAIN m

Starting == {"nvs_init", "first_run"}
Booting  == {"register", "get_sta", "default_name", "default_password", "sta_start",
             "wait", "unregister_ip", "unregister_wifi", "delete_group", "set_time"}
Waiting  == {"idle", "smartconfig", "wifi_stop", "wifi_start"}

\* n is m with other fields changed.
Same(m, n) == IsRam(n) /\ \A f \in Fields : n[f] = m[f]

ModeInv ==
  /\ IsRam(ram)
  /\ ram.main \in Starting \cup Booting \cup {"online", "offline", "panic"}
  /\ ram.key \in Waiting \cup {"store_mode", "restart"}
  /\ ram.main \in Starting => ram.key = "idle"
  /\ ram.main = "first_run" => flash.mode = {} /\ ram.system_mode = 0
  /\ IF ram.key = "store_mode" THEN wanted = {ram.system_mode}
                               ELSE \A mode \in wanted : flash.mode = {mode}
  /\ ~ram.misread /\ ram.main \notin Starting \cup {"panic"} /\ ram.key # "restart"
       => flash.mode = {Running}
  /\ {"mode", "name", "password"} \subseteq DOMAIN flash
  /\ flash.mode \in {{}, {0}, {1}} /\ ram.system_mode \in {0, 1}

-----------------------------------------------------------------------------
(* What the operators on a memory leave alone                              *)

\* One field that does not take part is changed.
LEMMA SameField ==
  ASSUME NEW m, IsRam(m), NEW v
  PROVE  /\ Same(m, [m EXCEPT !.events = v]) /\ Same(m, [m EXCEPT !.link = v])
         /\ Same(m, [m EXCEPT !.tasks = v]) /\ Same(m, [m EXCEPT !.bits = v])
         /\ Same(m, [m EXCEPT !.misuse = v]) /\ Same(m, [m EXCEPT !.alive = v])
         /\ Same(m, [m EXCEPT !.at = v]) /\ Same(m, [m EXCEPT !.retry = v])
         /\ Same(m, [m EXCEPT !.station = v]) /\ Same(m, [m EXCEPT !.handlers = v])
         /\ Same(m, [m EXCEPT !.esptouch = v])
BY DEF Same, IsRam, Fields

\* What is left alone twice is left alone.
LEMMA SameTwice ==
  ASSUME NEW m, NEW n, NEW o, Same(m, n), Same(n, o)
  PROVE  Same(m, o)
BY DEF Same

\* The calls of the driver and of the event group leave the four fields alone.
LEMMA CallsSame ==
  ASSUME NEW m, IsRam(m), NEW e
  PROVE  /\ Same(m, m) /\ Same(m, Post(m, e)) /\ Same(m, Link(m, e)) /\ Same(m, Break(m))
         /\ Same(m, Wake(m, e)) /\ Same(m, SetBit(m, e)) /\ Same(m, ClearBit(m, e))
         /\ Same(m, CreateGroup(m)) /\ Same(m, DeleteGroupOf(m))
         /\ Same(m, Connect(m)) /\ Same(m, Retry(m))
<1>1. Same(m, m)
  BY DEF Same
<1>2. \A n, x : Same(m, n) => IsRam(n)
  BY DEF Same
<1>3. \A n, x : IsRam(n) => Same(n, Post(n, x)) /\ Same(n, Link(n, x))
  BY SameField DEF Post, Link
<1>4. Same(m, Break(m))
  BY <1>3, <1>2, SameTwice DEF Break
<1>5. \A x : Same(m, Wake(m, x))
  BY SameField DEF Wake
<1>6. Same(m, SetBit(m, e))
  <2>1. Same(m, [m EXCEPT !.misuse = TRUE])
    BY SameField
  <2>2. Same(m, [m EXCEPT !.bits[m.group] = @ \cup {e}])
    BY SameField
  <2>3. QED BY <1>5, <2>1, <2>2 DEF SetBit
<1>7. Same(m, ClearBit(m, e))
  <2>1. Same(m, [m EXCEPT !.misuse = TRUE])
    BY SameField
  <2>2. Same(m, [m EXCEPT !.bits[m.group] = @ \ {e}])
    BY SameField
  <2>3. QED BY <2>1, <2>2 DEF ClearBit
<1>8. Same(m, CreateGroup(m))
  BY DEF CreateGroup, Same, IsRam, Fields
<1>9. Same(m, DeleteGroupOf(m))
  <2>1. Same(m, Wake(m, "loop"))
    BY <1>5
  <2>2. Same(Wake(m, "loop"), DeleteGroupOf(m))
    BY <2>1 DEF DeleteGroupOf, Same, IsRam, Fields
  <2>3. QED BY <2>1, <2>2, SameTwice
<1>10. Same(m, Connect(m))
  BY <1>1, <1>3 DEF Connect
<1>11. Same(m, Retry(m))
  BY <1>10 DEF Retry, Same, IsRam, Fields
<1>12. QED BY <1>1, <1>3, <1>4, <1>5, <1>6, <1>7, <1>8, <1>9, <1>10, <1>11

-----------------------------------------------------------------------------
(* What the steps of the station do to the four fields                     *)

Station ==
  /\ IsRam(ram') /\ ram'.system_mode = ram.system_mode /\ wanted' = wanted
  /\ ram.misread => ram'.misread
  /\ flash'.mode = flash.mode /\ DOMAIN flash' = DOMAIN flash
  /\ \/ ram'.main = ram.main \/ ram'.main = "panic"
     \/ ram.main \in Booting /\ ram'.main \in Booting \cup {"online"}
  /\ \/ ram'.key = ram.key
     \/ ram.key \in Waiting \ {"idle"} /\ ram'.key \in Waiting

FlashKept == flash'.mode = flash.mode /\ DOMAIN flash' = DOMAIN flash /\ wanted' = wanted

\* A step that leaves the four fields alone.
LEMMA SameIsStation ==
  ASSUME FlashKept, Same(ram, ram')
  PROVE  Station
BY DEF FlashKept, Same, Station, Fields

\* The driver only posts events and changes its own state.
LEMMA DriverSame == IsRam(ram) /\ Driver => Same(ram, ram')
<1>1. SUFFICES ASSUME IsRam(ram), Driver PROVE Same(ram, ram')
  OBVIOUS
<1>2. ASSUME NEW l, NEW e PROVE Same(ram, Post(Link(ram, l), e))
  <2>1. Same(ram, Link(ram, l)) /\ IsRam(Link(ram, l))
    BY <1>1, CallsSame DEF Same
  <2>2. QED BY <2>1, CallsSame, SameTwice
<1>3. CASE Joins
  BY <1>1, <1>3, CallsSame DEF Joins, Works
<1>4. CASE GetsAddress
  BY <1>1, <1>2, <1>4, CallsSame DEF GetsAddress, Works
<1>5. CASE Breaks
  BY <1>1, <1>5, CallsSame DEF Breaks
<1>6. CASE Esptouch
  <2>1. ASSUME NEW m, NEW e, Same(ram, m), ram' = Post(m, e)
        PROVE  Same(ram, ram')
    <3>1. Same(m, Post(m, e))
      BY <2>1, CallsSame DEF Same
    <3>2. QED BY <2>1, <3>1, SameTwice
  <2>2. ASSUME ram' = Post([ram EXCEPT !.esptouch = "got"], "GOT_SSID_PSWD")
        PROVE  Same(ram, ram')
    <3>1. Same(ram, [ram EXCEPT !.esptouch = "got"])
      BY <1>1, SameField
    <3>2. QED BY <2>1, <2>2, <3>1
  <2>3. ASSUME ram' = Post([ram EXCEPT !.esptouch = "acked"], "SEND_ACK_DONE")
        PROVE  Same(ram, ram')
    <3>1. Same(ram, [ram EXCEPT !.esptouch = "acked"])
      BY <1>1, SameField
    <3>2. QED BY <2>1, <2>3, <3>1
  <2>4. \/ ram' = Post([ram EXCEPT !.esptouch = "got"], "GOT_SSID_PSWD")
        \/ ram' = Post([ram EXCEPT !.esptouch = "acked"], "SEND_ACK_DONE")
    BY <1>6 DEF Esptouch, Works
  <2>5. QED BY <2>2, <2>3, <2>4
<1>7. QED BY <1>1, <1>3, <1>4, <1>5, <1>6 DEF Driver

LEMMA DriverStation == IsRam(ram) /\ Driver /\ UNCHANGED wanted => Station
BY DriverSame, SameIsStation DEF Driver, FlashKept

\* Neither do the handlers, whichever are registered.
LEMMA HandlersSame ==
  ASSUME NEW m, IsRam(m), NEW e, BootEvent(e, m) \/ SmartConfigEvent(e, m)
  PROVE  Same(m, ram')
<1>1. Same(m, SetBit([m EXCEPT !.retry = 0], "BIT0"))
  <2>1. Same(m, [m EXCEPT !.retry = 0])
    BY SameField
  <2>2. IsRam([m EXCEPT !.retry = 0])
    BY <2>1 DEF Same
  <2>3. Same([m EXCEPT !.retry = 0], SetBit([m EXCEPT !.retry = 0], "BIT0"))
    BY <2>2, CallsSame
  <2>4. QED BY <2>1, <2>3, SameTwice
<1>2. Same(m, ClearBit(Connect(m), "BIT0"))
  <2>1. Same(m, Connect(m)) /\ IsRam(Connect(m))
    BY CallsSame DEF Same
  <2>2. Same(Connect(m), ClearBit(Connect(m), "BIT0"))
    BY <2>1, CallsSame
  <2>3. QED BY <2>1, <2>2, SameTwice
<1>3. CASE BootEvent(e, m)
  BY <1>1, <1>3, CallsSame DEF BootEvent, Works
<1>4. CASE SmartConfigEvent(e, m)
  <2>1. Same(m, [m EXCEPT !.tasks = Append(@, [at |-> "start", on |-> 0])])
    BY SameField
  <2>2. ASSUME NEW n PROVE Same(m, [m EXCEPT !.at = "name", !.network = n])
    BY DEF Same, IsRam, Fields
  <2>3. QED BY <1>2, <1>4, <2>1, <2>2, CallsSame DEF SmartConfigEvent, Works
<1>5. QED BY <1>3, <1>4

\* The task of the event loop changes the credentials, never the mode.
LEMMA EventLoopStation ==
  ASSUME IsRam(ram), {"mode", "name", "password"} \subseteq DOMAIN flash,
         EventLoop, UNCHANGED wanted
  PROVE  Station
<1>1. CASE Dispatch
  <2>1. DEFINE m == [ram EXCEPT !.events = Tail(@)]
  <2>2. Same(ram, m) /\ IsRam(m)
    BY DEF Same, IsRam, Fields
  <2>3. Same(m, ram')
    BY <1>1, <2>2, HandlersSame, CallsSame DEF Dispatch, Works
  <2>4. Same(ram, ram')
    BY <2>2, <2>3, SameTwice
  <2>5. QED BY <1>1, <2>4, SameIsStation DEF Dispatch, FlashKept
<1>2. CASE StoreName
  BY <1>2 DEF StoreName, Works, Fails, Trouble, Station, IsRam, Fields
<1>3. CASE StorePassword
  BY <1>3 DEF StorePassword, Works, Fails, Trouble, Station, IsRam, Fields
<1>4. CASE Reconnect
  <2>1. CASE ram.link = "off" /\ Works([ram EXCEPT !.main = "panic"])
    BY <1>4, <2>1 DEF Reconnect, Works, Station, IsRam, Fields, FlashKept
  <2>2. CASE ram.link # "off"
    <3>1. DEFINE m == IF ram.link = "idle" THEN ram ELSE Break(ram)
                 s == [name |-> ram.network, password |-> ram.network]
                 n == [m EXCEPT !.at = "idle", !.station = s]
    <3>2. Same(ram, m)
      BY CallsSame
    <3>3. Same(ram, n) /\ IsRam(n)
      BY <3>2 DEF Same, IsRam, Fields
    <3>4. Same(ram, Connect(n))
      BY <3>3, CallsSame, SameTwice
    <3>5. ram' = Connect(n)
      BY <1>4, <2>2 DEF Reconnect, Works
    <3>6. QED BY <1>4, <3>4, <3>5, SameIsStation DEF Reconnect, FlashKept
  <2>3. QED BY <1>4, <2>1, <2>2 DEF Reconnect
<1>5. QED BY <1>1, <1>2, <1>3, <1>4 DEF EventLoop

\* A smartconfig_task may panic, and SmartConfig gives the key back.
LEMMA SmartConfigStation ==
  ASSUME IsRam(ram), SmartConfigTask \/ SmartConfigWifi, UNCHANGED wanted
  PROVE  Station
<1>1. FlashKept
  BY DEF SmartConfigTask, SmartConfigWifi, FlashKept
<1>2. CASE SmartConfigTask
  <2>1. PICK i \in DOMAIN ram.tasks : ScStart(i) \/ ScWait(i) \/ ScStop(i) \/ ScDelete(i)
    BY <1>2 DEF SmartConfigTask
  <2>2. CASE ScStart(i)
    BY <1>1, <2>2 DEF ScStart, Works, Station, IsRam, Fields, FlashKept
  <2>3. CASE ScWait(i)
    BY <1>1, <2>3 DEF ScWait, Works, Station, IsRam, Fields, FlashKept
  <2>4. CASE ScStop(i)
    BY <1>1, <2>4 DEF ScStop, Works, Station, IsRam, Fields, FlashKept
  <2>5. CASE ScDelete(i)
    <3>1. Same(ram, DeleteGroupOf(ram))
      BY CallsSame
    <3>2. Same(ram, ram')
      BY <2>5, <3>1 DEF ScDelete, Works, Same, IsRam, Fields
    <3>3. QED BY <1>1, <3>2, SameIsStation
  <2>6. QED BY <2>1, <2>2, <2>3, <2>4, <2>5
<1>3. CASE SmartConfigWifi
  <2>1. CASE ram.key = "smartconfig" /\ Works([CreateGroup(ram) EXCEPT !.key = "wifi_stop"])
    <3>1. Same(ram, CreateGroup(ram))
      BY CallsSame
    <3>2. QED
      BY <1>1, <2>1, <3>1 DEF Works, Station, Same, IsRam, Fields, FlashKept, Waiting
  <2>2. CASE /\ ram.key = "wifi_stop"
             /\ LET m == IF ram.link = "idle" THEN ram ELSE Break(ram)
                IN Works([Link(m, "off") EXCEPT !.key = "wifi_start"])
    <3>1. DEFINE m == IF ram.link = "idle" THEN ram ELSE Break(ram)
    <3>2. Same(ram, m) /\ IsRam(m)
      BY CallsSame DEF Same
    <3>3. Same(ram, Link(m, "off"))
      BY <3>2, CallsSame, SameTwice
    <3>4. ram' = [Link(m, "off") EXCEPT !.key = "wifi_start"]
      BY <2>2 DEF Works
    <3>5. QED
      BY <1>1, <2>2, <3>3, <3>4 DEF Station, Same, IsRam, Fields, FlashKept, Waiting
  <2>3. CASE /\ ram.key = "wifi_start"
             /\ Works([Post(Link(ram, "idle"), "STA_START") EXCEPT
                         !.key = "idle", !.handlers = @ \cup {"smartconfig"}])
    <3>1. Same(ram, Link(ram, "idle")) /\ IsRam(Link(ram, "idle"))
      BY CallsSame DEF Same
    <3>2. Same(ram, Post(Link(ram, "idle"), "STA_START"))
      BY <3>1, CallsSame, SameTwice
    <3>3. QED
      BY <1>1, <2>3, <3>2 DEF Works, Station, Same, IsRam, Fields, FlashKept, Waiting
  <2>4. QED BY <1>3, <2>1, <2>2, <2>3 DEF SmartConfigWifi
<1>4. QED BY <1>2, <1>3

\* app_main goes on in wifi_init.
LEMMA MainStation ==
  ASSUME FlashKept, NEW from \in Booting, NEW to \in Booting \cup {"online"},
         NEW m, Same(ram, m), Main(from, to, m)
  PROVE  Station
BY DEF FlashKept, Main, Works, Station, Same, IsRam, Fields

\* wifi_init starts and ends as the station, and never changes the mode.
LEMMA WifiInitStation ==
  ASSUME IsRam(ram), {"mode", "name", "password"} \subseteq DOMAIN flash,
         WifiInit, UNCHANGED wanted
  PROVE  Station
<1>1. CASE DefaultName \/ DefaultPassword
  <2>1. ASSUME NEW from \in Booting, NEW to \in Booting, NEW stored, NEW station,
               Default(from, to, stored, station),
               stored.mode = flash.mode, DOMAIN stored = DOMAIN flash
        PROVE  Station
    <3>1. FlashKept
      BY <2>1 DEF Default, FlashKept
    <3>2. QED
      BY <2>1, <3>1 DEF Default, Works, Fails, Trouble, Station, FlashKept, IsRam, Fields
  <2>2. CASE DefaultName
    <3>1. DEFINE stored == [flash EXCEPT !.name = 1]
    <3>2. stored.mode = flash.mode /\ DOMAIN stored = DOMAIN flash
      OBVIOUS
    <3>3. QED BY <2>1, <2>2, <3>2, Zenon DEF DefaultName, Booting
  <2>3. CASE DefaultPassword
    <3>1. DEFINE stored == [flash EXCEPT !.password = 1]
    <3>2. stored.mode = flash.mode /\ DOMAIN stored = DOMAIN flash
      OBVIOUS
    <3>3. QED BY <2>1, <2>3, <3>2, Zenon DEF DefaultPassword, Booting
  <2>4. QED BY <1>1, <2>2, <2>3
<1>2. CASE ~(DefaultName \/ DefaultPassword)
  <2>1. FlashKept
    BY <1>2 DEF WifiInit, FlashKept
  <2>2. \A h : Same(ram, Unregister(h))
    BY SameField DEF Unregister
  <2>3. CASE Register
    <3>1. Same(ram, CreateGroup(ram)) /\ IsRam(CreateGroup(ram))
      BY CallsSame DEF Same
    <3>2. Same(ram, [CreateGroup(ram) EXCEPT !.handlers = {"boot_wifi", "boot_ip"}])
      BY <3>1, SameField, SameTwice
    <3>3. QED BY <2>1, <2>3, <3>2, MainStation DEF Register, Booting
  <2>4. CASE GetSta
    <3>1. Same(ram, ram)
      BY CallsSame
    <3>2. Same(ram, [ram EXCEPT !.station =
                       [name |-> flash.name, password |-> flash.password]])
      BY SameField
    <3>3. CASE ram.main = "get_sta" /\ \E n \in {0, flash.name}, p \in {0, flash.password} :
                 Fails([ram EXCEPT !.main = "sta_start",
                                   !.station = [name |-> n, password |-> p]])
      BY <2>1, <3>3 DEF FlashKept, Fails, Trouble, Station, IsRam, Fields, Booting
    <3>4. QED BY <2>1, <2>4, <3>1, <3>2, <3>3, MainStation DEF GetSta, Booting
  <2>5. CASE StaStart
    <3>1. Same(ram, Link(ram, "idle")) /\ IsRam(Link(ram, "idle"))
      BY CallsSame DEF Same
    <3>2. Same(ram, Post(Link(ram, "idle"), "STA_START"))
      BY <3>1, CallsSame, SameTwice
    <3>3. QED BY <2>1, <2>5, <3>2, MainStation DEF StaStart, Booting
  <2>6. CASE WaitBits
    BY <2>1, <2>6, CallsSame, MainStation DEF WaitBits, Booting
  <2>7. CASE UnregisterIp
    BY <2>1, <2>2, <2>7, MainStation DEF UnregisterIp, Booting
  <2>8. CASE UnregisterWifi
    BY <2>1, <2>2, <2>8, MainStation DEF UnregisterWifi, Booting
  <2>9. CASE DeleteGroup
    BY <2>1, <2>9, CallsSame, MainStation DEF DeleteGroup, Booting
  <2>10. QED BY <1>2, <2>3, <2>4, <2>5, <2>6, <2>7, <2>8, <2>9 DEF WifiInit
<1>3. QED BY <1>1, <1>2

-----------------------------------------------------------------------------
(* The invariant                                                           *)

\* Neither a step of the station nor one of SmartConfig touches the mode.
LEMMA StationHolds == ModeInv /\ Station => ModeInv'
<1>1. SUFFICES ASSUME ModeInv, Station PROVE ModeInv'
  OBVIOUS
<1>2. ram'.main = ram.main \/ ram'.main = "panic"
        \/ (ram.main \in Booting /\ ram'.main \in Booting \cup {"online"})
  BY <1>1 DEF Station
<1>3. ram'.key = ram.key \/ (ram.key \in Waiting \ {"idle"} /\ ram'.key \in Waiting)
  BY <1>1 DEF Station
<1>4. /\ IsRam(ram)' /\ DOMAIN flash' = DOMAIN flash /\ flash'.mode = flash.mode
      /\ wanted' = wanted /\ ram'.system_mode = ram.system_mode
      /\ ~ram'.misread => ~ram.misread
  BY <1>1 DEF Station
<1>5. /\ ram'.main \in Starting \cup Booting \cup {"online", "offline", "panic"}
      /\ ram'.key \in Waiting \cup {"store_mode", "restart"}
      /\ ram'.main \in Starting => ram'.key = "idle"
      /\ ram'.main = "first_run" => flash'.mode = {} /\ ram'.system_mode = 0
  BY <1>1, <1>2, <1>3, <1>4 DEF ModeInv, Starting, Booting, Waiting
<1>6. IF ram'.key = "store_mode" THEN wanted' = {ram'.system_mode}
                                 ELSE \A mode \in wanted' : flash'.mode = {mode}
  BY <1>1, <1>3, <1>4 DEF ModeInv, Waiting
<1>7. ASSUME ~ram'.misread, ram'.main \notin Starting \cup {"panic"}, ram'.key # "restart"
      PROVE  flash'.mode = {Running'}
  <2>1. Running' = Running /\ ram.main \notin Starting \cup {"panic"}
    BY <1>2, <1>7 DEF Running, Starting, Booting
  <2>2. ram.key # "restart"
    BY <1>3, <1>7 DEF Waiting
  <2>3. QED BY <1>1, <1>4, <1>7, <2>1, <2>2 DEF ModeInv
<1>8. QED BY <1>1, <1>4, <1>5, <1>6, <1>7 DEF ModeInv

\* What is known at power-on.
LEMMA PowerOnFields ==
  /\ IsRam(PowerOn) /\ PowerOn.main = "nvs_init" /\ PowerOn.key = "idle"
  /\ PowerOn.system_mode = 0 /\ PowerOn.misread = FALSE
BY DEF PowerOn, IsRam, Fields

\* At the very first power-on the flash is empty and nothing wanted.
LEMMA InitHolds == Init => ModeInv
BY PowerOnFields DEF Init, ModeInv, Starting, Booting, Waiting

\* A restart keeps in flash what is wanted.
LEMMA RestartHolds ==
  ASSUME ModeInv, ram' = PowerOn, UNCHANGED flash,
         \/ wanted' = {}
         \/ wanted' = wanted /\ ram.key # "store_mode"
  PROVE  ModeInv'
<1>1. \A mode \in wanted' : flash'.mode = {mode}
  BY DEF ModeInv
<1>2. QED
  BY <1>1, PowerOnFields DEF ModeInv, Starting, Booting, Waiting

\* A boot that could not read or store the mode promises nothing of it.
LEMMA MisreadHolds ==
  ASSUME ModeInv, ram.key = "idle", UNCHANGED <<flash, wanted>>,
         ram' = [Boot(ram) EXCEPT !.misread = TRUE]
  PROVE  ModeInv'
<1>1. /\ IsRam(ram') /\ ram'.main \in {"offline", "register"} /\ ram'.key = "idle"
      /\ ram'.misread = TRUE /\ ram'.system_mode = ram.system_mode
  BY DEF Boot, IsRam, Fields, ModeInv
<1>2. QED BY <1>1 DEF ModeInv, Starting, Booting, Waiting

\* A boot that knows the mode runs in it.
LEMMA BootHolds ==
  ASSUME ModeInv, ram.key = "idle", UNCHANGED wanted, NEW mode \in {0, 1}, NEW m,
         Same([ram EXCEPT !.system_mode = mode], m), ram' = Boot(m),
         {"mode", "name", "password"} \subseteq DOMAIN flash', flash'.mode = {mode},
         flash.mode \in {{}, {mode}}
  PROVE  ModeInv'
<1>1. /\ IsRam(ram') /\ ram'.key = "idle" /\ ram'.system_mode = mode
      /\ ram'.main = IF mode = 1 THEN "offline" ELSE "register"
  BY DEF Same, Boot, IsRam, Fields, ModeInv
<1>2. Running' = mode
  BY <1>1 DEF Running
<1>3. \A o \in wanted' : flash'.mode = {o}
  BY DEF ModeInv
<1>4. QED BY <1>1, <1>2, <1>3 DEF ModeInv, Starting, Booting, Waiting

\* nvs_init finds the mode or stores one, if NVS lets it.
LEMMA NvsInitHolds == ModeInv /\ NvsInit => ModeInv'
<1>1. SUFFICES ASSUME ModeInv, NvsInit PROVE ModeInv'
  OBVIOUS
<1>2. ram.main \in Starting /\ ram.key = "idle" /\ IsRam(ram)
  BY <1>1 DEF ModeInv, NvsInit, FirstRun, Starting
<1>3. CASE ram.main = "nvs_init" /\ NvsErase
  <2>1. /\ ram'.main = "nvs_init" /\ ram'.key = "idle" /\ IsRam(ram')
        /\ ram'.system_mode = ram.system_mode
    BY <1>2, <1>3 DEF NvsErase, Fails, IsRam, Fields
  <2>2. flash' = [mode |-> {}, name |-> 0, password |-> 0] /\ wanted' = {}
    BY <1>3 DEF NvsErase
  <2>3. QED BY <1>1, <2>1, <2>2 DEF ModeInv, Starting, Booting, Waiting
<1>4. CASE NvsOpenFails
  BY <1>1, <1>2, <1>4, MisreadHolds DEF NvsOpenFails, Fails
<1>5. CASE ModeFound
  <2>1. PICK mode \in flash.mode : ram' = Boot([ram EXCEPT !.system_mode = mode])
    BY <1>5 DEF ModeFound, Works
  <2>2. UNCHANGED <<flash, wanted>>
    BY <1>5 DEF ModeFound
  <2>3. mode \in {0, 1} /\ flash.mode = {mode}
    BY <1>1 DEF ModeInv
  <2>4. Same([ram EXCEPT !.system_mode = mode], [ram EXCEPT !.system_mode = mode])
    BY <1>2 DEF Same, IsRam
  <2>5. {"mode", "name", "password"} \subseteq DOMAIN flash'
    BY <1>1, <2>2 DEF ModeInv
  <2>6. QED BY <1>1, <1>2, <2>1, <2>2, <2>3, <2>4, <2>5, BootHolds
<1>6. CASE ModeNotFound
  <2>1. ram' = [ram EXCEPT !.system_mode = 0, !.main = "first_run"] /\ flash.mode = {}
        /\ UNCHANGED <<flash, wanted>>
    BY <1>6 DEF ModeNotFound, Works
  <2>2. /\ IsRam(ram') /\ ram'.main = "first_run" /\ ram'.key = "idle"
        /\ ram'.system_mode = 0
    BY <1>2, <2>1 DEF IsRam, Fields
  <2>3. QED BY <1>1, <1>2, <2>1, <2>2 DEF ModeInv, Starting, Booting, Waiting
<1>7. CASE FirstRun /\ UNCHANGED flash /\ Fails(Boot(ram))
  BY <1>1, <1>2, <1>7, MisreadHolds DEF FirstRun, Fails
<1>8. CASE FirstRun /\ Works(Boot(ram)) /\ StoredMode
  <2>1. /\ ram' = Boot(ram) /\ flash' = [flash EXCEPT !.mode = {ram.system_mode}]
        /\ UNCHANGED wanted /\ ram.main = "first_run"
    BY <1>8 DEF FirstRun, Works, StoredMode
  <2>2. ram.system_mode = 0 /\ flash.mode = {} /\ flash'.mode = {0}
        /\ {"mode", "name", "password"} \subseteq DOMAIN flash'
    BY <1>1, <2>1 DEF ModeInv
  <2>3. Same([ram EXCEPT !.system_mode = 0], ram)
    BY <1>2, <2>2 DEF Same, IsRam, Fields
  <2>4. QED BY <1>1, <1>2, <2>1, <2>2, <2>3, BootHolds
<1>9. QED BY <1>1, <1>3, <1>4, <1>5, <1>6, <1>7, <1>8 DEF NvsInit, FirstRun

\* The REC key wants the other mode, stores it, and restarts.
LEMMA KeysHold == ModeInv /\ ram.main # "panic" /\ Keys => ModeInv'
<1>1. SUFFICES ASSUME ModeInv, ram.main # "panic", Keys PROVE ModeInv'
  OBVIOUS
<1>2. IsRam(ram)
  BY <1>1 DEF ModeInv
<1>3. CASE PressRec
  <2>1. UNCHANGED flash /\ Other \in {0, 1} /\ ram.main \notin Starting
    BY <1>3 DEF PressRec, Other, Running, Up, Starting
  <2>2. CASE /\ ram' = [ram EXCEPT !.key = "store_mode", !.system_mode = Other]
             /\ wanted' = {Other}
    <3>1. /\ IsRam(ram') /\ ram'.key = "store_mode" /\ ram'.system_mode = Other
          /\ ram'.main = ram.main /\ ram'.misread = ram.misread /\ ram.key = "idle"
      BY <1>2, <1>3, <2>2 DEF IsRam, Fields, PressRec
    <3>2. Running' = Running
      BY <3>1 DEF Running
    <3>3. QED BY <1>1, <2>1, <2>2, <3>1, <3>2 DEF ModeInv, Waiting, Starting
  <2>3. CASE Fails([ram EXCEPT !.key = "restart"]) /\ wanted' = {}
    <3>1. /\ IsRam(ram') /\ ram'.key = "restart" /\ ram'.main = ram.main
          /\ ram'.system_mode = ram.system_mode
      BY <1>2, <2>3 DEF Fails, IsRam, Fields
    <3>2. QED BY <1>1, <2>1, <2>3, <3>1 DEF ModeInv, Starting
  <2>4. QED BY <1>3, <2>2, <2>3 DEF PressRec, Works
<1>4. CASE StoreMode
  <2>1. /\ IsRam(ram') /\ ram'.key = "restart" /\ ram'.main = ram.main
        /\ ram'.system_mode = ram.system_mode /\ ram.key = "store_mode"
    BY <1>2, <1>4 DEF StoreMode, Works, Fails, IsRam, Fields
  <2>2. ram.main \notin Starting /\ wanted = {ram.system_mode} /\ ram.system_mode \in {0, 1}
    BY <1>1, <2>1 DEF ModeInv
  <2>3. CASE StoredMode /\ UNCHANGED wanted
    <3>1. flash'.mode = {ram.system_mode} /\ DOMAIN flash' = DOMAIN flash
      BY <1>1, <2>3 DEF StoredMode, ModeInv
    <3>2. QED BY <1>1, <2>1, <2>2, <2>3, <3>1 DEF ModeInv, Starting
  <2>4. CASE wanted' = {} /\ UNCHANGED flash
    BY <1>1, <2>1, <2>2, <2>4 DEF ModeInv, Starting
  <2>5. QED BY <1>4, <2>3, <2>4 DEF StoreMode
<1>5. CASE PressMode
  <2>1. /\ IsRam(ram') /\ ram'.key = "smartconfig" /\ ram'.main = "online"
        /\ ram.main = "online" /\ ram.key = "idle"
        /\ ram'.system_mode = ram.system_mode /\ ram'.misread = ram.misread
        /\ UNCHANGED <<flash, wanted>>
    BY <1>2, <1>5 DEF PressMode, Works, IsRam, Fields
  <2>2. Running' = Running
    BY <2>1 DEF Running
  <2>3. QED BY <1>1, <2>1, <2>2 DEF ModeInv, Waiting, Starting
<1>6. QED BY <1>1, <1>3, <1>4, <1>5 DEF Keys

\* The inductive invariant: what is wanted is in flash, or about to be; and
\* until the next restart the mode in flash is the one that runs, if NVS did
\* not fail (nvs_init, and the REC keys of c_init.c and c_offline.c).
THEOREM ModeInvariant == Spec => []ModeInv
<1>1. ModeInv /\ [Next]_vars => ModeInv'
  <2>1. SUFFICES ASSUME ModeInv, [Next]_vars PROVE ModeInv'
    OBVIOUS
  <2>2. IsRam(ram) /\ {"mode", "name", "password"} \subseteq DOMAIN flash
    BY <2>1 DEF ModeInv
  <2>3. CASE ram.main # "panic" /\ NvsInit
    BY <2>1, <2>3, NvsInitHolds
  <2>4. CASE SetTime
    <3>1. Same(ram, ram) /\ FlashKept
      BY <2>2, <2>4, CallsSame DEF SetTime, FlashKept
    <3>2. Station
      BY <2>4, <3>1, MainStation DEF SetTime, Booting
    <3>3. QED BY <2>1, <3>2, StationHolds
  <2>5. CASE ram.main # "panic" /\ Keys
    BY <2>1, <2>5, KeysHold
  <2>6. CASE Restart
    BY <2>1, <2>6, RestartHolds DEF Restart, Works
  <2>7. CASE /\ WifiInit \/ Driver \/ EventLoop \/ SmartConfigTask \/ SmartConfigWifi
             /\ UNCHANGED wanted
    <3>1. Station
      BY <2>2, <2>7, WifiInitStation, DriverStation, EventLoopStation, SmartConfigStation
    <3>2. QED BY <2>1, <3>1, StationHolds
  <2>8. CASE Crash
    BY <2>1, <2>8, RestartHolds DEF Crash
  <2>9. CASE UNCHANGED vars
    BY <2>1, <2>9 DEF vars, ModeInv, IsRam, Running
  <2>10. QED
    BY <2>1, <2>3, <2>4, <2>5, <2>6, <2>7, <2>8, <2>9
       DEF Next, Working, PowerCut, Panic
<1>2. QED BY InitHolds, <1>1, PTL DEF Spec

\* The machine comes up in the mode the REC key asked for, whatever happens
\* between the press and that.
THEOREM PressDecidesMode == Spec => []PressDecides
<1>1. ModeInv => PressDecides
  <2>1. SUFFICES ASSUME ModeInv, Up, ram.key = "idle", ~ram.misread, NEW mode \in wanted
                 PROVE  Running = mode
    BY DEF PressDecides
  <2>2. flash.mode = {mode}
    BY <2>1 DEF ModeInv
  <2>3. flash.mode = {Running}
    BY <2>1 DEF ModeInv, Up, Starting
  <2>4. QED BY <2>2, <2>3
<1>2. QED BY ModeInvariant, <1>1, PTL

-----------------------------------------------------------------------------
(* Who stores the mode                                                     *)

\* What may put a mode into the flash: the first run, the mode of its memory,
\* and the REC key, the mode that does not run in place of the one that does.
Stores ==
  \/ ram.main = "first_run" /\ flash.mode = {} /\ flash'.mode = {0}
  \/ /\ ram.key = "store_mode" /\ Up /\ wanted = {Other} /\ flash'.mode = {Other}
     /\ ~ram.misread => flash.mode = {Running}

\* The mode in flash changes in no other way than that, and by an erasure: no
\* restart, no SmartConfig and no key of the other mode stores one (nvs_init,
\* and the REC keys of c_init.c 95-109 and c_offline.c 44-58).
OnlyTheKeyStores == [][flash'.mode \notin {flash.mode, {}} => Stores]_vars

\* The key that is about to store a mode stores the other one.
KeyInv == ram.key = "store_mode" => ram.main = "panic" \/ (Up /\ ram.system_mode = Other)

LEMMA StationStores ==
  ASSUME ModeInv, KeyInv, Station
  PROVE  KeyInv' /\ flash'.mode = flash.mode
<1>1. SUFFICES ASSUME ram'.key = "store_mode" PROVE KeyInv'
  BY DEF Station, KeyInv
<1>2. ram.key = "store_mode" /\ (ram.main = "panic" \/ (Up /\ ram.system_mode = Other))
  BY <1>1 DEF Station, Waiting, KeyInv
<1>3. ram'.main = "panic" \/ (ram'.main = ram.main /\ ram.main # "panic")
  BY <1>2 DEF Station, Booting, Up
<1>4. ram'.system_mode = ram.system_mode
  BY DEF Station
<1>5. QED BY <1>2, <1>3, <1>4 DEF KeyInv, Up, Other, Running

LEMMA NvsInitStores ==
  ASSUME ModeInv, NvsInit
  PROVE  KeyInv' /\ (flash'.mode \notin {flash.mode, {}} => Stores)
<1>1. IsRam(ram) /\ ram.key = "idle" /\ "mode" \in DOMAIN flash
  BY DEF ModeInv, NvsInit, FirstRun, Starting
<1>2. ASSUME NEW mode
      PROVE  /\ Boot(ram).key = "idle" /\ [ram EXCEPT !.misread = TRUE].key = "idle"
             /\ [Boot(ram) EXCEPT !.misread = TRUE].key = "idle"
             /\ Boot([ram EXCEPT !.system_mode = mode]).key = "idle"
             /\ [ram EXCEPT !.system_mode = 0, !.main = "first_run"].key = "idle"
  BY <1>1 DEF Boot, IsRam, Fields
<1>3. ram'.key = "idle"
  BY <1>2 DEF NvsInit, NvsErase, NvsOpenFails, ModeFound, ModeNotFound, FirstRun, Works, Fails
<1>4. CASE ram.main = "nvs_init"
  <2>1. flash'.mode = {} \/ flash' = flash
    BY <1>4 DEF NvsInit, NvsErase, NvsOpenFails, ModeFound, ModeNotFound, FirstRun
  <2>2. QED BY <1>3, <2>1 DEF KeyInv
<1>5. CASE FirstRun
  <2>1. ram.main = "first_run" /\ flash.mode = {} /\ ram.system_mode = 0
    BY <1>5 DEF ModeInv, FirstRun
  <2>2. flash' = flash \/ flash'.mode = {0}
    BY <1>1, <1>5, <2>1 DEF FirstRun, StoredMode
  <2>3. QED BY <1>3, <2>1, <2>2 DEF KeyInv, Stores
<1>6. QED BY <1>4, <1>5 DEF NvsInit

LEMMA KeysStore ==
  ASSUME ModeInv, KeyInv, ram.main # "panic", Keys
  PROVE  KeyInv' /\ (flash'.mode \notin {flash.mode, {}} => Stores)
<1>1. IsRam(ram) /\ "mode" \in DOMAIN flash
  BY DEF ModeInv
<1>2. CASE PressRec
  <2>1. flash' = flash /\ Up
    BY <1>2 DEF PressRec
  <2>2. CASE ram' = [ram EXCEPT !.key = "store_mode", !.system_mode = Other]
    <3>1. ram'.main = ram.main /\ ram'.system_mode = Other
      BY <1>1, <2>2 DEF IsRam, Fields
    <3>2. QED BY <2>1, <3>1 DEF KeyInv, Up, Other, Running
  <2>3. CASE Fails([ram EXCEPT !.key = "restart"])
    <3>1. ram'.key = "restart"
      BY <1>1, <2>3 DEF Fails, IsRam, Fields
    <3>2. QED BY <2>1, <3>1 DEF KeyInv
  <2>4. QED BY <1>2, <2>2, <2>3 DEF PressRec, Works
<1>3. CASE StoreMode
  <2>1. /\ ram'.key = "restart" /\ ram.key = "store_mode"
        /\ flash' = flash \/ flash'.mode = {ram.system_mode}
    BY <1>1, <1>3 DEF StoreMode, StoredMode, Works, Fails, IsRam, Fields
  <2>2. Up /\ ram.system_mode = Other /\ wanted = {ram.system_mode}
    BY <2>1 DEF KeyInv, ModeInv
  <2>3. ~ram.misread => flash.mode = {Running}
    BY <2>1, <2>2 DEF ModeInv, Up, Starting
  <2>4. QED BY <2>1, <2>2, <2>3 DEF KeyInv, Stores
<1>4. CASE PressMode
  <2>1. ram'.key = "smartconfig" /\ flash' = flash
    BY <1>1, <1>4 DEF PressMode, Works, IsRam, Fields
  <2>2. QED BY <2>1 DEF KeyInv
<1>5. QED BY <1>2, <1>3, <1>4 DEF Keys

LEMMA StoresStep ==
  ASSUME ModeInv, KeyInv, [Next]_vars
  PROVE  KeyInv' /\ (flash'.mode \notin {flash.mode, {}} => Stores)
<1>1. IsRam(ram)
  BY DEF ModeInv
<1>2. CASE ram.main # "panic" /\ NvsInit
  BY <1>2, NvsInitStores
<1>3. CASE ram.main # "panic" /\ Keys
  BY <1>3, KeysStore
<1>4. CASE SetTime
  <2>1. Same(ram, ram) /\ FlashKept
    BY <1>1, <1>4, CallsSame DEF SetTime, FlashKept
  <2>2. Station
    BY <1>4, <2>1, MainStation DEF SetTime, Booting
  <2>3. QED BY <2>2, StationStores
<1>5. CASE /\ WifiInit \/ Driver \/ EventLoop \/ SmartConfigTask \/ SmartConfigWifi
           /\ UNCHANGED wanted
  <2>1. Station
    BY <1>1, <1>5, WifiInitStation, DriverStation, EventLoopStation, SmartConfigStation
       DEF ModeInv
  <2>2. QED BY <2>1, StationStores
<1>6. CASE ram' = PowerOn /\ UNCHANGED flash
  BY <1>6, PowerOnFields DEF KeyInv
<1>7. CASE UNCHANGED vars
  BY <1>7 DEF vars, KeyInv, Up, Other, Running
<1>8. QED
  BY <1>2, <1>3, <1>4, <1>5, <1>6, <1>7
     DEF Next, Working, PowerCut, Panic, Crash, Restart, Works

\* Only the REC key changes the mode that is stored, and always to the mode
\* that does not run, whatever restarts, power cuts and failures there are.
THEOREM OnlyTheKeyChangesMode == Spec => OnlyTheKeyStores
<1>1. Init => KeyInv
  BY PowerOnFields DEF Init, KeyInv
<1>2. ModeInv /\ KeyInv /\ [Next]_vars => KeyInv'
  BY StoresStep
<1>3. ModeInv /\ KeyInv /\ [Next]_vars => [flash'.mode \notin {flash.mode, {}} => Stores]_vars
  BY StoresStep
<1>4. QED BY <1>1, <1>2, <1>3, ModeInvariant, PTL DEF Spec, OnlyTheKeyStores

-----------------------------------------------------------------------------
(* The station's memory, and its event group                               *)

\* The fields that count, and those that name a network, are in their range.
Shape(m) ==
  /\ {"main", "key", "system_mode", "presses", "group", "bits", "alive", "handlers",
      "events", "at", "retry", "link", "station", "esptouch", "network", "tasks",
      "misuse", "ended", "misread"} \subseteq DOMAIN m
  /\ m.retry \in 0 .. ESP_MAXIMUM_RETRY /\ m.network \in 1 .. Networks
  /\ m.station.name \in 0 .. Networks /\ m.station.password \in 0 .. Networks
  /\ m.presses \in 0 .. Presses
  /\ m.bits \in Seq(SUBSET {"BIT0", "BIT1"}) /\ m.group = Len(m.bits)
  /\ m.alive \subseteq 1 .. m.group

\* Until SmartConfig has ended, whoever can use the event group has one: a
\* registered handler, a smartconfig_task, and the key that is about to
\* register a handler.  wifi_init has unregistered its own before it deletes
\* the group, and SmartConfig begins after that.
Guarded(m) ==
  /\ ~m.ended => ~m.misuse /\ (m.handlers # {} => m.group \in m.alive)
  /\ m.key \in {"wifi_stop", "wifi_start"} => m.group \in m.alive \/ m.ended
  /\ DOMAIN m.tasks # {} => "smartconfig" \in m.handlers
  /\ m.handlers \subseteq {"boot_wifi", "boot_ip", "smartconfig"}
  /\ m.main \in Starting \cup Booting => "smartconfig" \notin m.handlers /\ m.key = "idle"
  /\ m.main \in Starting \cup {"register", "delete_group", "set_time"} => m.handlers = {}
  /\ m.main = "unregister_wifi" => "boot_ip" \notin m.handlers

Good(m) == Shape(m) /\ Guarded(m)

\* n is m with other bits, or with changes where Guarded does not look.
Kept(m, n) ==
  /\ Shape(n)
  /\ n.main = m.main /\ n.key = m.key /\ n.handlers = m.handlers /\ n.ended = m.ended
  /\ n.group = m.group /\ n.alive = m.alive /\ DOMAIN n.tasks = DOMAIN m.tasks
  /\ n.misuse => m.misuse \/ m.group \notin m.alive

Quiet(m, n) == Kept(m, n) /\ n.misuse = m.misuse

LEMMA StationBounds ==
  /\ ESP_MAXIMUM_RETRY \in Nat /\ Networks \in Nat /\ Networks >= 1 /\ Troubles \in Nat
  /\ Presses \in Nat
BY StationAssumption, StartupAssumption

LEMMA KeptTwice ==
  ASSUME NEW m, NEW n, NEW o
  PROVE  /\ Quiet(m, n) /\ Quiet(n, o) => Quiet(m, o)
         /\ Quiet(m, n) /\ Kept(n, o) => Kept(m, o)
BY DEF Quiet, Kept

LEMMA KeptGood ==
  ASSUME NEW m, NEW n, Good(m), Kept(m, n),
         Quiet(m, n) \/ m.handlers # {} \/ m.ended
  PROVE  Good(n)
BY DEF Good, Guarded, Kept, Quiet

\* One field that Guarded does not look at is changed.
LEMMA QuietField ==
  ASSUME NEW m, Shape(m), NEW v
  PROVE  /\ Quiet(m, [m EXCEPT !.events = v]) /\ Quiet(m, [m EXCEPT !.link = v])
         /\ Quiet(m, [m EXCEPT !.at = v]) /\ Quiet(m, [m EXCEPT !.esptouch = v])
         /\ Quiet(m, [m EXCEPT !.misread = v]) /\ Quiet(m, [m EXCEPT !.system_mode = v])
         /\ v \in 0 .. ESP_MAXIMUM_RETRY => Quiet(m, [m EXCEPT !.retry = v])
         /\ DOMAIN v = DOMAIN m.tasks => Quiet(m, [m EXCEPT !.tasks = v])
         /\ v.name \in 0 .. Networks /\ v.password \in 0 .. Networks
              => Quiet(m, [m EXCEPT !.station = v])
         /\ v \in Seq(SUBSET {"BIT0", "BIT1"}) /\ Len(v) = Len(m.bits)
              => Quiet(m, [m EXCEPT !.bits = v])
         /\ Quiet(m, m)
<1>1. /\ Quiet(m, [m EXCEPT !.events = v]) /\ Quiet(m, [m EXCEPT !.link = v])
      /\ Quiet(m, [m EXCEPT !.at = v]) /\ Quiet(m, [m EXCEPT !.esptouch = v])
  BY DEF Quiet, Kept, Shape
<1>2. Quiet(m, [m EXCEPT !.misread = v]) /\ Quiet(m, [m EXCEPT !.system_mode = v])
  BY DEF Quiet, Kept, Shape
<1>3. v \in 0 .. ESP_MAXIMUM_RETRY => Quiet(m, [m EXCEPT !.retry = v])
  BY DEF Quiet, Kept, Shape
<1>4. DOMAIN v = DOMAIN m.tasks => Quiet(m, [m EXCEPT !.tasks = v])
  BY DEF Quiet, Kept, Shape
<1>5. v.name \in 0 .. Networks /\ v.password \in 0 .. Networks
        => Quiet(m, [m EXCEPT !.station = v])
  BY DEF Quiet, Kept, Shape
<1>6. v \in Seq(SUBSET {"BIT0", "BIT1"}) /\ Len(v) = Len(m.bits)
        => Quiet(m, [m EXCEPT !.bits = v])
  BY DEF Quiet, Kept, Shape
<1>7. Quiet(m, m)
  BY DEF Quiet, Kept
<1>8. QED BY <1>1, <1>2, <1>3, <1>4, <1>5, <1>6, <1>7

LEMMA QuietCalls ==
  ASSUME NEW m, Shape(m), NEW e
  PROVE  /\ Quiet(m, Post(m, e)) /\ Quiet(m, Link(m, e)) /\ Quiet(m, Break(m))
         /\ Quiet(m, Wake(m, e)) /\ Quiet(m, Connect(m))
         /\ m.retry < ESP_MAXIMUM_RETRY => Quiet(m, Retry(m))
<1>1. \A n, x : Shape(n) => Quiet(n, Post(n, x)) /\ Quiet(n, Link(n, x))
  BY QuietField DEF Post, Link
<1>2. \A n, x : Quiet(n, x) => Shape(x)
  BY DEF Quiet, Kept
<1>3. Quiet(m, Break(m))
  BY <1>1, <1>2, KeptTwice DEF Break
<1>4. Quiet(m, Wake(m, e))
  <2>1. DEFINE v == [i \in DOMAIN m.tasks |->
           IF i \in Waiters(m) THEN [m.tasks[i] EXCEPT !.at = e] ELSE m.tasks[i]]
  <2>2. DOMAIN v = DOMAIN m.tasks
    OBVIOUS
  <2>3. Wake(m, e) = [m EXCEPT !.tasks = v]
    BY DEF Wake, Shape
  <2> HIDE DEF v
  <2>4. Quiet(m, [m EXCEPT !.tasks = v])
    BY <2>2, QuietField, Zenon
  <2>5. QED BY <2>3, <2>4, Zenon
<1>5. Quiet(m, Connect(m))
  BY <1>1, QuietField DEF Connect
<1>6. ASSUME m.retry < ESP_MAXIMUM_RETRY PROVE Quiet(m, Retry(m))
  <2>1. Shape(Connect(m))
    BY <1>2, <1>5
  <2>2. Connect(m).retry = m.retry
    BY DEF Connect, Link, Shape
  <2>3. m.retry + 1 \in 0 .. ESP_MAXIMUM_RETRY
    BY <1>6, StationBounds DEF Shape
  <2>4. Retry(m) = [Connect(m) EXCEPT !.retry = m.retry + 1]
    BY <2>1, <2>2 DEF Retry, Shape
  <2>5. Quiet(Connect(m), Retry(m))
    <3>1. Quiet(Connect(m), [Connect(m) EXCEPT !.retry = m.retry + 1])
      BY <2>1, <2>3, QuietField, Zenon
    <3>2. QED BY <2>4, <3>1, Zenon
  <2>6. QED BY <1>5, <2>5, KeptTwice
<1>7. QED BY <1>1, <1>3, <1>4, <1>5, <1>6

\* Another set of bits in one group.
LEMMA BitsType ==
  ASSUME NEW m, Shape(m), NEW g, NEW b \in SUBSET {"BIT0", "BIT1"}
  PROVE  /\ [m.bits EXCEPT ![g] = b] \in Seq(SUBSET {"BIT0", "BIT1"})
         /\ Len([m.bits EXCEPT ![g] = b]) = Len(m.bits)
<1>1. m.bits \in Seq(SUBSET {"BIT0", "BIT1"})
  BY DEF Shape
<1>2. CASE g \in 1 .. Len(m.bits)
  BY <1>1, <1>2, ExceptSeq
<1>3. CASE g \notin 1 .. Len(m.bits)
  <2>1. DOMAIN m.bits = 1 .. Len(m.bits)
    BY <1>1
  <2>2. [m.bits EXCEPT ![g] = b] = m.bits
    BY <1>1, <1>3, <2>1
  <2>3. QED BY <1>1, <2>2
<1>4. QED BY <1>2, <1>3

\* A use of the event group by a handler: misuse if it was deleted.
LEMMA BitCalls ==
  ASSUME NEW m, Shape(m), NEW b \in {"BIT0", "BIT1"}
  PROVE  Kept(m, SetBit(m, b)) /\ Kept(m, ClearBit(m, b))
<1>1. CASE m.group \notin m.alive
  <2>1. Kept(m, [m EXCEPT !.misuse = TRUE])
    BY <1>1 DEF Kept, Shape
  <2>2. QED BY <1>1, <2>1 DEF SetBit, ClearBit
<1>2. CASE m.group \in m.alive
  <2>1. m.bits[m.group] \subseteq {"BIT0", "BIT1"}
    BY <1>2 DEF Shape
  <2>2. ASSUME NEW v \in SUBSET {"BIT0", "BIT1"}
        PROVE  Quiet(m, [m EXCEPT !.bits = [m.bits EXCEPT ![m.group] = v]])
    BY <2>2, BitsType, QuietField
  <2>3. Quiet(m, [m EXCEPT !.bits[m.group] = @ \cup {b}])
    BY <2>1, <2>2 DEF Shape
  <2>4. Quiet(m, [m EXCEPT !.bits[m.group] = @ \ {b}])
    BY <2>1, <2>2 DEF Shape
  <2>5. \A x : Quiet(m, Wake(m, x))
    BY QuietCalls
  <2>6. QED BY <1>2, <2>3, <2>4, <2>5 DEF SetBit, ClearBit, Quiet
<1>3. QED BY <1>1, <1>2

\* The fields that a new group, or the end of one, leaves alone.
Same4(m, n) ==
  /\ Shape(n) /\ n.main = m.main /\ n.key = m.key /\ n.handlers = m.handlers
  /\ n.ended = m.ended /\ n.misuse = m.misuse /\ DOMAIN n.tasks = DOMAIN m.tasks

LEMMA GroupCalls ==
  ASSUME NEW m, Shape(m)
  PROVE  /\ Same4(m, CreateGroup(m)) /\ CreateGroup(m).group \in CreateGroup(m).alive
         /\ Same4(m, DeleteGroupOf(m))
<1>1. /\ Same4(m, CreateGroup(m)) /\ CreateGroup(m).group \in CreateGroup(m).alive
  <2>1. /\ Append(m.bits, {}) \in Seq(SUBSET {"BIT0", "BIT1"})
        /\ Len(Append(m.bits, {})) = Len(m.bits) + 1
        /\ Len(m.bits) \in Nat
    BY DEF Shape
  <2>2. CreateGroup(m) = [m EXCEPT !.group = m.group + 1, !.bits = Append(m.bits, {}),
                                   !.alive = m.alive \cup {m.group + 1}]
    BY DEF CreateGroup, Shape
  <2>3. m.alive \cup {m.group + 1} \subseteq 1 .. m.group + 1
    BY <2>1 DEF Shape
  <2>4. QED BY <2>1, <2>2, <2>3 DEF Same4, Shape
<1>2. Same4(m, DeleteGroupOf(m))
  <2>1. Quiet(m, Wake(m, "loop")) /\ Wake(m, "loop").bits = m.bits
    BY QuietCalls DEF Wake, Shape
  <2>2. DEFINE w == Wake(m, "loop")
               v == [w.bits EXCEPT ![m.group] = {}]
  <2>3. Shape(w)
    BY <2>1 DEF Quiet, Kept
  <2>4. v \in Seq(SUBSET {"BIT0", "BIT1"}) /\ Len(v) = Len(w.bits)
    BY <2>3, BitsType
  <2>5. DeleteGroupOf(m) = [w EXCEPT !.alive = w.alive \ {m.group}, !.bits = v]
    BY <2>3 DEF DeleteGroupOf, Shape
  <2> HIDE DEF w, v
  <2>6. Quiet(m, w)
    BY <2>1 DEF w
  <2>7. QED BY <2>3, <2>4, <2>5, <2>6 DEF Same4, Shape, Quiet, Kept
<1>3. QED BY <1>1, <1>2

-----------------------------------------------------------------------------
(* The steps                                                               *)

LEMMA GoodPowerOn == Good(PowerOn)
<1>1. Shape(PowerOn)
  <2>1. /\ PowerOn.retry = 0 /\ PowerOn.network = 1 /\ PowerOn.presses = 0
        /\ PowerOn.station.name = 0 /\ PowerOn.station.password = 0
        /\ PowerOn.bits = <<>> /\ PowerOn.group = 0 /\ PowerOn.alive = {}
    BY DEF PowerOn
  <2>2. {"main", "key", "system_mode", "presses", "group", "bits", "alive", "handlers",
         "events", "at", "retry", "link", "station", "esptouch", "network", "tasks",
         "misuse", "ended", "misread"} \subseteq DOMAIN PowerOn
    BY DEF PowerOn
  <2>3. Len(PowerOn.bits) = 0 /\ PowerOn.bits \in Seq(SUBSET {"BIT0", "BIT1"})
    BY <2>1
  <2>4. QED BY <2>1, <2>2, <2>3, StationBounds DEF Shape
<1>2. /\ PowerOn.misuse = FALSE /\ PowerOn.handlers = {} /\ PowerOn.key = "idle"
      /\ DOMAIN PowerOn.tasks = {} /\ PowerOn.main = "nvs_init"
  BY DEF PowerOn
<1>3. QED BY <1>1, <1>2 DEF Good, Guarded, Starting, Booting

\* The driver.
LEMMA DriverGood == Good(ram) /\ Driver => Good(ram')
<1>1. SUFFICES ASSUME Good(ram), Driver PROVE Quiet(ram, ram')
  BY KeptGood DEF Quiet
<1>2. Shape(ram)
  BY <1>1 DEF Good
<1>3. ASSUME NEW m, Quiet(ram, m), NEW e
      PROVE  Quiet(ram, Post(m, e))
  BY <1>3, QuietCalls, KeptTwice DEF Quiet, Kept
<1>4. CASE Joins \/ GetsAddress \/ Breaks
  BY <1>2, <1>3, <1>4, QuietCalls DEF Joins, GetsAddress, Breaks, Works
<1>5. CASE Esptouch
  <2>1. Quiet(ram, [ram EXCEPT !.esptouch = "got"])
    BY <1>2, QuietField, Zenon
  <2>2. Quiet(ram, [ram EXCEPT !.esptouch = "acked"])
    BY <1>2, QuietField, Zenon
  <2>3. ram' = Post([ram EXCEPT !.esptouch = "got"], "GOT_SSID_PSWD")
          => Quiet(ram, ram')
    BY <1>3, <2>1, Zenon
  <2>4. ram' = Post([ram EXCEPT !.esptouch = "acked"], "SEND_ACK_DONE")
          => Quiet(ram, ram')
    BY <1>3, <2>2, Zenon
  <2>5. QED BY <1>5, <2>3, <2>4 DEF Esptouch, Works
<1>6. QED BY <1>1, <1>4, <1>5 DEF Driver

\* The handlers use the group while they are registered.
LEMMA EventGood ==
  ASSUME NEW m, Good(m), m.retry = ram.retry, NEW e, BootEvent(e, m) \/ SmartConfigEvent(e, m)
  PROVE  Good(ram')
<1>1. Shape(m)
  BY DEF Good
<1>2. m.handlers # {}
  BY DEF BootEvent, SmartConfigEvent
<1>3. CASE BootEvent(e, m)
  <2>1. Kept(m, SetBit([m EXCEPT !.retry = 0], "BIT0"))
    <3>1. 0 \in 0 .. ESP_MAXIMUM_RETRY
      BY StationBounds
    <3>2. Quiet(m, [m EXCEPT !.retry = 0])
      BY <1>1, <3>1, QuietField, Zenon
    <3>3. Kept([m EXCEPT !.retry = 0], SetBit([m EXCEPT !.retry = 0], "BIT0"))
      BY <3>2, BitCalls DEF Quiet, Kept
    <3>4. QED BY <3>2, <3>3, KeptTwice
  <2>2. Kept(m, ram')
    BY <1>1, <1>3, <2>1, QuietCalls, BitCalls DEF BootEvent, Works, MayRetry, Quiet
  <2>3. QED BY <1>2, <2>2, KeptGood
<1>4. CASE SmartConfigEvent(e, m)
  <2> DEFINE started == [m EXCEPT !.tasks = Append(@, [at |-> "start", on |-> 0])]
  <2>1. CASE e = "STA_START" /\ Works(started)
    BY <1>4, <2>1 DEF Works, Good, Guarded, Shape, SmartConfigEvent
  <2>2. Kept(m, ClearBit(Connect(m), "BIT0"))
    <3>1. Quiet(m, Connect(m)) /\ Shape(Connect(m))
      BY <1>1, QuietCalls DEF Quiet, Kept
    <3>2. QED BY <3>1, BitCalls, KeptTwice
  <2>3. ASSUME NEW n \in 2 .. Networks
        PROVE  Quiet(m, [m EXCEPT !.at = "name", !.network = n])
    BY <1>1, StationBounds DEF Quiet, Kept, Shape
  <2>4. CASE ~(e = "STA_START" /\ Works(started))
    <3>1. Kept(m, ram')
      BY <1>1, <1>4, <2>2, <2>3, <2>4, BitCalls DEF SmartConfigEvent, Works, Quiet
    <3>2. QED BY <1>2, <3>1, KeptGood
  <2>5. QED BY <2>1, <2>4
<1>5. QED BY <1>3, <1>4

LEMMA EventLoopGood == Good(ram) /\ EventLoop => Good(ram')
<1>1. SUFFICES ASSUME Good(ram), EventLoop PROVE Good(ram')
  OBVIOUS
<1>2. Shape(ram)
  BY <1>1 DEF Good
<1>3. CASE Dispatch
  <2>1. PICK v : v = Tail(ram.events)
    OBVIOUS
  <2>2. DEFINE m == [ram EXCEPT !.events = v]
  <2>3. Quiet(ram, m)
    BY <1>2, QuietField, Zenon
  <2>4. Good(m) /\ m.retry = ram.retry
    BY <1>1, <1>2, <2>3, KeptGood DEF Quiet, Shape
  <2>5. \E e : BootEvent(e, m) \/ SmartConfigEvent(e, m) \/ Works(m)
    <3>1. m = [ram EXCEPT !.events = Tail(@)]
      BY <1>2, <2>1 DEF Shape
    <3>2. QED BY <1>3, <3>1 DEF Dispatch
  <2> HIDE DEF m
  <2>6. QED BY <2>4, <2>5, EventGood DEF Works
<1>4. CASE StoreName \/ StorePassword
  <2>1. Quiet(ram, ram')
    BY <1>2, <1>4 DEF StoreName, StorePassword, Works, Fails, Quiet, Kept, Shape
  <2>2. QED BY <1>1, <2>1, KeptGood DEF Quiet
<1>5. CASE Reconnect
  <2>1. CASE ram.link = "off" /\ Works([ram EXCEPT !.main = "panic"])
    BY <1>1, <1>2, <2>1 DEF Works, Good, Guarded, Shape, Starting, Booting
  <2>2. CASE ram.link # "off"
    <3>1. DEFINE m == IF ram.link = "idle" THEN ram ELSE Break(ram)
                 s == [name |-> ram.network, password |-> ram.network]
                 n == [m EXCEPT !.at = "idle", !.station = s]
    <3>2. Quiet(ram, m) /\ Shape(m)
      BY <1>2, QuietCalls, QuietField DEF Quiet, Kept
    <3>3. s.name \in 0 .. Networks /\ s.password \in 0 .. Networks
      BY <1>2, StationBounds DEF Shape
    <3>4. ram' = Connect(n)
      BY <1>5, <2>2 DEF Reconnect, Works
    <3> HIDE DEF m, s
    <3>5. Quiet(m, n)
      BY <3>2, <3>3 DEF Quiet, Kept, Shape
    <3> HIDE DEF n
    <3>6. Quiet(n, Connect(n))
      BY <3>5, QuietCalls DEF Quiet, Kept
    <3>7. Quiet(ram, ram')
      BY <3>2, <3>4, <3>5, <3>6, KeptTwice
    <3>8. QED BY <1>1, <3>7, KeptGood DEF Quiet
  <2>3. QED BY <1>5, <2>1, <2>2 DEF Reconnect
<1>6. QED BY <1>1, <1>3, <1>4, <1>5 DEF EventLoop

\* The tasks of SmartConfig live as long as its handler; one of them deletes
\* the group when SmartConfig has ended.
LEMMA TaskGood ==
  ASSUME Good(ram), SmartConfigTask
  PROVE  Good(ram')
<1>1. PICK i \in DOMAIN ram.tasks : ScStart(i) \/ ScWait(i) \/ ScStop(i) \/ ScDelete(i)
  BY DEF SmartConfigTask
<1>2. /\ Shape(ram) /\ "smartconfig" \in ram.handlers /\ ram.handlers # {}
      /\ ram.main \notin Starting \cup Booting
  BY DEF Good, Guarded
<1>3. \A v : DOMAIN [ram.tasks EXCEPT ![i] = v] = DOMAIN ram.tasks
  OBVIOUS
<1>4. CASE ScStart(i)
  <2>1. CASE ram' = [ram EXCEPT !.main = "panic"]
    BY <1>2, <2>1 DEF Good, Guarded, Shape, Starting, Booting
  <2>2. CASE ram' = [ram EXCEPT !.esptouch = "listening", !.tasks[i].at = "loop"]
    <3>1. Quiet(ram, ram')
      BY <1>2, <2>2 DEF Quiet, Kept, Shape
    <3>2. QED BY <3>1, KeptGood DEF Quiet
  <2>3. QED BY <1>4, <2>1, <2>2 DEF ScStart, Works
<1>5. CASE ScWait(i)
  <2>1. CASE ram.group \notin ram.alive /\ ram' = [ram EXCEPT !.misuse = TRUE]
    <3>1. Kept(ram, ram')
      BY <1>2, <2>1 DEF Kept, Shape
    <3>2. QED BY <1>2, <3>1, KeptGood
  <2>2. ASSUME NEW v,
               ram' = [ram EXCEPT !.bits[ram.group] = {}, !.tasks[i] = v]
        PROVE  Good(ram')
    <3>1. DEFINE b == [ram.bits EXCEPT ![ram.group] = {}]
    <3>2. b \in Seq(SUBSET {"BIT0", "BIT1"}) /\ Len(b) = Len(ram.bits)
      BY <1>2, BitsType
    <3>3. ram' = [ram EXCEPT !.bits = b, !.tasks = [ram.tasks EXCEPT ![i] = v]]
      BY <1>2, <2>2 DEF Shape
    <3> HIDE DEF b
    <3>4. Quiet(ram, ram')
      BY <1>2, <1>3, <3>2, <3>3 DEF Quiet, Kept, Shape
    <3>5. QED BY <3>4, KeptGood DEF Quiet
  <2>3. QED BY <1>5, <2>1, <2>2 DEF ScWait, Works
<1>6. CASE ScStop(i)
  <2>1. Quiet(ram, ram')
    BY <1>2, <1>6 DEF ScStop, Works, Quiet, Kept, Shape
  <2>2. QED BY <2>1, KeptGood DEF Quiet
<1>7. CASE ScDelete(i)
  <2>1. DEFINE d == DeleteGroupOf(ram)
  <2>2. Same4(ram, d)
    BY <1>2, GroupCalls
  <2>3. ram' = [d EXCEPT !.tasks[i] = [at |-> "gone", on |-> 0], !.ended = TRUE,
                         !.misuse = ram.group \notin ram.alive]
    BY <1>7 DEF ScDelete, Works
  <2> HIDE DEF d
  <2>4. /\ Shape(ram') /\ ram'.ended = TRUE /\ ram'.main = ram.main /\ ram'.key = ram.key
        /\ ram'.handlers = ram.handlers /\ DOMAIN ram'.tasks = DOMAIN ram.tasks
    BY <2>2, <2>3 DEF Same4, Shape
  <2>5. QED BY <1>2, <2>4 DEF Good, Guarded, Starting, Booting
<1>8. QED BY <1>1, <1>4, <1>5, <1>6, <1>7

\* smartconfig_wifi makes a new group before it registers its handler.
LEMMA WifiGood ==
  ASSUME Good(ram), SmartConfigWifi
  PROVE  Good(ram')
<1>1. Shape(ram) /\ ram.main \notin Starting \cup Booting
  BY DEF Good, Guarded, SmartConfigWifi
<1>2. CASE ram.key = "smartconfig" /\ Works([CreateGroup(ram) EXCEPT !.key = "wifi_stop"])
  <2>1. DEFINE c == CreateGroup(ram)
  <2>2. Same4(ram, c) /\ c.group \in c.alive
    BY <1>1, GroupCalls
  <2>3. ram' = [c EXCEPT !.key = "wifi_stop"]
    BY <1>2 DEF Works
  <2> HIDE DEF c
  <2>4. QED BY <1>1, <2>2, <2>3 DEF Same4, Good, Guarded, Shape, Starting, Booting
<1>3. CASE /\ ram.key = "wifi_stop"
           /\ LET m == IF ram.link = "idle" THEN ram ELSE Break(ram)
              IN Works([Link(m, "off") EXCEPT !.key = "wifi_start"])
  <2>1. DEFINE m == IF ram.link = "idle" THEN ram ELSE Break(ram)
               n == Link(m, "off")
  <2>2. Quiet(ram, m) /\ Shape(m)
    BY <1>1, QuietCalls, QuietField DEF Quiet, Kept
  <2>3. ram' = [n EXCEPT !.key = "wifi_start"]
    BY <1>3 DEF Works
  <2> HIDE DEF m
  <2>4. Quiet(ram, n)
    BY <2>2, QuietCalls, KeptTwice
  <2> HIDE DEF n
  <2>5. QED BY <1>1, <1>3, <2>3, <2>4 DEF Quiet, Kept, Good, Guarded, Shape, Starting, Booting
<1>4. CASE /\ ram.key = "wifi_start"
           /\ Works([Post(Link(ram, "idle"), "STA_START") EXCEPT
                       !.key = "idle", !.handlers = @ \cup {"smartconfig"}])
  <2>1. DEFINE n == Post(Link(ram, "idle"), "STA_START")
  <2>2. Quiet(ram, Link(ram, "idle")) /\ Shape(Link(ram, "idle"))
    BY <1>1, QuietCalls DEF Quiet, Kept
  <2>3. Quiet(ram, n)
    BY <2>2, QuietCalls, KeptTwice
  <2>4. ram' = [n EXCEPT !.key = "idle", !.handlers = @ \cup {"smartconfig"}]
    BY <1>4 DEF Works
  <2> HIDE DEF n
  <2>5. QED BY <1>1, <1>4, <2>3, <2>4 DEF Quiet, Kept, Good, Guarded, Shape, Starting, Booting
<1>5. QED BY <1>2, <1>3, <1>4 DEF SmartConfigWifi

FlashTypes ==
  /\ flash.name \in 0 .. Networks /\ flash.password \in 0 .. Networks
  /\ troubles \in 0 .. Troubles

\* wifi_init unregisters its handlers, and then deletes the group.
LEMMA WifiInitGood ==
  ASSUME Good(ram), FlashTypes, {"mode", "name", "password"} \subseteq DOMAIN flash, WifiInit
  PROVE  Good(ram')
<1>1. Shape(ram)
  BY DEF Good
\* app_main goes on, and changes nothing else that counts.
<1>2. ASSUME NEW n, Quiet(ram, n), NEW to,
             ram' = [n EXCEPT !.main = to] \/ ram' = [n EXCEPT !.main = to, !.misread = TRUE],
             ram.main \in Booting,
             to \in Booting \ {"register", "delete_group", "set_time", "unregister_wifi"}
      PROVE  Good(ram')
  <2>1. /\ Shape(ram') /\ ram'.main = to /\ ram'.key = ram.key /\ ram'.handlers = ram.handlers
        /\ ram'.ended = ram.ended /\ ram'.group = ram.group /\ ram'.alive = ram.alive
        /\ DOMAIN ram'.tasks = DOMAIN ram.tasks /\ ram'.misuse = ram.misuse
    BY <1>2 DEF Quiet, Kept, Shape
  <2>2. QED BY <1>2, <2>1 DEF Good, Guarded, Starting, Booting
<1>3. CASE Register
  <2>1. DEFINE c == CreateGroup(ram)
  <2>2. Same4(ram, c) /\ c.group \in c.alive
    BY <1>1, GroupCalls
  <2>3. ram.main = "register"
        /\ ram' = [[c EXCEPT !.handlers = {"boot_wifi", "boot_ip"}] EXCEPT !.main = "get_sta"]
    BY <1>3 DEF Register, Main, Works
  <2> HIDE DEF c
  <2>4. /\ Shape(ram') /\ ram'.main = "get_sta" /\ ram'.key = ram.key
        /\ ram'.handlers = {"boot_wifi", "boot_ip"} /\ ram'.ended = ram.ended
        /\ ram'.group \in ram'.alive /\ DOMAIN ram'.tasks = DOMAIN ram.tasks
        /\ ram'.misuse = ram.misuse
    BY <2>2, <2>3 DEF Same4, Shape
  <2>5. QED BY <2>3, <2>4 DEF Good, Guarded, Starting, Booting
<1>4. CASE GetSta
  <2>1. ASSUME NEW n \in 0 .. Networks, NEW p \in 0 .. Networks
        PROVE  Quiet(ram, [ram EXCEPT !.station = [name |-> n, password |-> p]])
    <3>1. [name |-> n, password |-> p].name \in 0 .. Networks
          /\ [name |-> n, password |-> p].password \in 0 .. Networks
      OBVIOUS
    <3>2. QED BY <1>1, <3>1, QuietField, Zenon
  <2>2. flash.name \in 0 .. Networks /\ flash.password \in 0 .. Networks /\ 0 \in 0 .. Networks
    BY StationBounds DEF FlashTypes
  <2>3. CASE Main("get_sta", "sta_start",
               [ram EXCEPT !.station = [name |-> flash.name, password |-> flash.password]])
    <3>1. DEFINE q == [ram EXCEPT !.station =
                          [name |-> flash.name, password |-> flash.password]]
    <3>2. Quiet(ram, q)
      BY <2>1, <2>2, Zenon
    <3>3. ram.main = "get_sta" /\ ram' = [q EXCEPT !.main = "sta_start"]
      BY <2>3, Zenon DEF Main, Works
    <3> HIDE DEF q
    <3>4. QED BY <1>2, <3>2, <3>3 DEF Booting
  <2>4. CASE Main("get_sta", "default_name", ram)
    BY <1>1, <1>2, <2>4, QuietField DEF Main, Works, Booting
  <2>5. ASSUME NEW n \in 0 .. Networks, NEW p \in 0 .. Networks, ram.main = "get_sta",
               Fails([ram EXCEPT !.main = "sta_start",
                                 !.station = [name |-> n, password |-> p]])
        PROVE  Good(ram')
    <3>1. DEFINE q == [ram EXCEPT !.station = [name |-> n, password |-> p]]
    <3>2. ram' = [q EXCEPT !.main = "sta_start", !.misread = TRUE]
      BY <1>1, <2>5 DEF Fails, Shape
    <3>3. Quiet(ram, q)
      BY <2>1
    <3> HIDE DEF q
    <3>4. QED BY <1>2, <2>5, <3>2, <3>3 DEF Booting
  <2>6. QED BY <1>4, <2>2, <2>3, <2>4, <2>5 DEF GetSta
<1>5. ASSUME NEW from \in Booting, NEW station, Quiet(ram, [ram EXCEPT !.station = station]),
             NEW to \in {"default_password", "sta_start"}, NEW stored,
             Default(from, to, stored, station)
      PROVE  Good(ram')
  <2>1. DEFINE n == [ram EXCEPT !.station = station]
  <2>2. /\ ram.main = from
        /\ ram' = [n EXCEPT !.main = to] \/ ram' = [n EXCEPT !.main = to, !.misread = TRUE]
    BY <1>1, <1>5 DEF Default, Works, Fails, Shape
  <2> HIDE DEF n
  <2>3. Quiet(ram, n)
    BY <1>5 DEF n
  <2>4. QED BY <1>2, <1>5, <2>2, <2>3 DEF Booting
<1>6. CASE DefaultName
  <2>1. Quiet(ram, [ram EXCEPT !.station = ram.station])
    BY <1>1, QuietField DEF Shape
  <2>2. QED BY <1>5, <1>6, <2>1, Zenon DEF DefaultName, Booting
<1>7. CASE DefaultPassword
  <2>1. DEFINE v == [name |-> 1, password |-> 1]
  <2>2. v.name \in 0 .. Networks /\ v.password \in 0 .. Networks
    BY StationBounds
  <2>3. Quiet(ram, [ram EXCEPT !.station = v])
    BY <1>1, <2>2, QuietField, Zenon
  <2>4. QED BY <1>5, <1>7, <2>3, Zenon DEF DefaultPassword, Booting
<1>8. CASE StaStart
  <2>1. Quiet(ram, Link(ram, "idle")) /\ Shape(Link(ram, "idle"))
    BY <1>1, QuietCalls DEF Quiet, Kept
  <2>2. Quiet(ram, Post(Link(ram, "idle"), "STA_START"))
    BY <2>1, QuietCalls, KeptTwice
  <2>3. QED BY <1>2, <1>8, <2>2 DEF StaStart, Main, Works, Booting
<1>9. CASE WaitBits
  BY <1>1, <1>2, <1>9, QuietField DEF WaitBits, Main, Works, Booting
<1>10. CASE UnregisterIp
  BY <1>1, <1>10
     DEF UnregisterIp, Unregister, Main, Works, Good, Guarded, Shape, Starting, Booting
<1>11. CASE UnregisterWifi
  BY <1>1, <1>11
     DEF UnregisterWifi, Unregister, Main, Works, Good, Guarded, Shape, Starting, Booting
<1>12. CASE DeleteGroup
  <2>1. DEFINE d == DeleteGroupOf(ram)
  <2>2. Same4(ram, d)
    BY <1>1, GroupCalls
  <2>3. ram.main = "delete_group" /\ ram' = [d EXCEPT !.main = "set_time"]
    BY <1>12 DEF DeleteGroup, Main, Works
  <2> HIDE DEF d
  <2>4. /\ Shape(ram') /\ ram'.main = "set_time" /\ ram'.key = ram.key
        /\ ram'.handlers = ram.handlers /\ ram'.ended = ram.ended
        /\ DOMAIN ram'.tasks = DOMAIN ram.tasks /\ ram'.misuse = ram.misuse
    BY <2>2, <2>3 DEF Same4, Shape
  <2>5. QED BY <2>3, <2>4 DEF Good, Guarded, Starting, Booting
<1>13. QED
  BY <1>3, <1>4, <1>6, <1>7, <1>8, <1>9, <1>10, <1>11, <1>12 DEF WifiInit

\* nvs_init and set_time come before and after wifi_init, the keys after both.
LEMMA MainGood ==
  ASSUME Good(ram), ram.main = "nvs_init" \/ ram.main = "first_run" \/ SetTime,
         NvsInit \/ SetTime
  PROVE  Good(ram')
<1>1. Shape(ram) /\ ram.handlers = {} /\ ram.key = "idle" /\ DOMAIN ram.tasks = {}
  BY DEF Good, Guarded, SetTime, Main, Starting, Booting
\* Another main, of those that promise nothing of the handlers that are there.
<1>2. ASSUME NEW to, NEW n, Quiet(ram, n),
             ram' = n \/ ram' = [n EXCEPT !.main = to]
               \/ ram' = [[n EXCEPT !.main = to] EXCEPT !.misread = TRUE]
      PROVE  Good(ram')
  <2>1. /\ Shape(ram') /\ ram'.key = ram.key /\ ram'.handlers = ram.handlers
        /\ DOMAIN ram'.tasks = DOMAIN ram.tasks /\ ram'.misuse = ram.misuse
        /\ ram'.ended = ram.ended
    BY <1>2 DEF Quiet, Kept, Shape
  <2>2. QED BY <1>1, <2>1 DEF Good, Guarded
<1>3. CASE SetTime
  BY <1>1, <1>2, <1>3, QuietField DEF SetTime, Main, Works
<1>4. CASE ram' = [ram EXCEPT !.misread = TRUE]
  <2>1. Quiet(ram, ram')
    BY <1>1, <1>4, QuietField
  <2>2. QED BY <1>2, <2>1
<1>5. ASSUME NEW mode, ram' = Boot([ram EXCEPT !.system_mode = mode])
      PROVE  Good(ram')
  <2>1. Quiet(ram, [ram EXCEPT !.system_mode = mode])
    BY <1>1, QuietField, Zenon
  <2>2. QED BY <1>2, <1>5, <2>1 DEF Boot
<1>6. CASE ram' = Boot(ram) \/ ram' = [Boot(ram) EXCEPT !.misread = TRUE]
  BY <1>1, <1>2, <1>6, QuietField DEF Boot
<1>7. CASE ram' = [ram EXCEPT !.system_mode = 0, !.main = "first_run"]
  <2>1. Quiet(ram, [ram EXCEPT !.system_mode = 0])
    BY <1>1, QuietField, Zenon
  <2>2. QED BY <1>2, <1>7, <2>1
<1>8. QED
  BY <1>3, <1>4, <1>5, <1>6, <1>7
     DEF NvsInit, NvsErase, NvsOpenFails, ModeFound, ModeNotFound, FirstRun, Works, Fails

LEMMA KeysGood == Good(ram) /\ Keys => Good(ram')
<1>1. SUFFICES ASSUME Good(ram), Keys PROVE Good(ram')
  OBVIOUS
<1>2. Shape(ram) /\ ram.main \notin Starting \cup Booting
  BY <1>1 DEF Good, Guarded, Keys, PressRec, StoreMode, PressMode, Up, Starting, Booting
<1>3. CASE PressRec \/ StoreMode
  <2>1. /\ Shape(ram') /\ ram'.key \in {"store_mode", "restart"} /\ ram'.main = ram.main
        /\ ram'.handlers = ram.handlers /\ ram'.ended = ram.ended /\ ram'.group = ram.group
        /\ ram'.alive = ram.alive /\ DOMAIN ram'.tasks = DOMAIN ram.tasks
        /\ ram'.misuse = ram.misuse
    BY <1>2, <1>3 DEF PressRec, StoreMode, Works, Fails, Shape
  <2>2. QED BY <1>1, <1>2, <2>1 DEF Good, Guarded, Starting, Booting
<1>4. CASE PressMode
  <2>1. ram.presses + 1 \in 0 .. Presses
    BY <1>2, <1>4, StationBounds DEF PressMode, Shape
  <2>2. /\ Shape(ram') /\ ram'.key = "smartconfig" /\ ram'.main = ram.main
        /\ ram'.handlers = ram.handlers /\ ram'.ended = ram.ended /\ ram'.group = ram.group
        /\ ram'.alive = ram.alive /\ DOMAIN ram'.tasks = DOMAIN ram.tasks
        /\ ram'.misuse = ram.misuse
    BY <1>2, <1>4, <2>1 DEF PressMode, Works, Shape
  <2>3. QED BY <1>1, <1>2, <2>2 DEF Good, Guarded, Starting, Booting
<1>5. QED BY <1>1, <1>3, <1>4 DEF Keys

\* The names and passwords in flash are those of networks, or not there.
LEMMA FlashGood ==
  ASSUME Good(ram), FlashTypes, Next \/ UNCHANGED vars,
         {"mode", "name", "password"} \subseteq DOMAIN flash
  PROVE  FlashTypes'
<1>1. flash.name \in 0 .. Networks /\ flash.password \in 0 .. Networks
      /\ troubles \in 0 .. Troubles /\ ram.network \in 1 .. Networks
  BY DEF Good, Shape, FlashTypes
<1>2. troubles' \in 0 .. Troubles
  <2>1. UNCHANGED troubles \/ Trouble
    BY DEF Next, Working, NvsInit, NvsErase, NvsOpenFails, ModeFound, ModeNotFound, FirstRun,
           SetTime, Keys, PressRec, StoreMode, PressMode, Restart, PowerCut, Panic, Crash,
           WifiInit, DefaultName, DefaultPassword, Default, Register, GetSta, StaStart,
           WaitBits, UnregisterIp, UnregisterWifi, DeleteGroup, Main,
           Driver, Joins, GetsAddress, Breaks, Esptouch,
           EventLoop, Dispatch, BootEvent, SmartConfigEvent, StoreName, StorePassword,
           Reconnect, SmartConfigTask, ScStart, ScWait, ScStop, ScDelete, SmartConfigWifi,
           Works, Fails, vars
  <2>2. QED BY <1>1, <2>1, StationBounds DEF Trouble
<1>3. /\ flash'.name \in 0 .. Networks /\ flash'.password \in 0 .. Networks
  <2>1. CASE UNCHANGED flash
    BY <1>1, <2>1
  <2>2. CASE StoredMode
    BY <1>1, <2>2 DEF StoredMode
  <2>3. CASE flash' = [mode |-> {}, name |-> 0, password |-> 0]
    BY <2>3, StationBounds
  <2>4. CASE \E n \in {1, ram.network} :
               flash' = [flash EXCEPT !.name = n] \/ flash' = [flash EXCEPT !.password = n]
    BY <1>1, <2>4, StationBounds
  <2>5. UNCHANGED flash \/ StoredMode \/ flash' = [mode |-> {}, name |-> 0, password |-> 0]
        \/ \E n \in {1, ram.network} :
             flash' = [flash EXCEPT !.name = n] \/ flash' = [flash EXCEPT !.password = n]
    BY DEF Next, Working, NvsInit, NvsErase, NvsOpenFails, ModeFound, ModeNotFound, FirstRun,
           SetTime, Keys, PressRec, StoreMode, PressMode, Restart, PowerCut, Panic, Crash,
           WifiInit, DefaultName, DefaultPassword, Default,
           Driver, EventLoop, Dispatch, StoreName, StorePassword,
           Reconnect, SmartConfigTask, SmartConfigWifi, vars
  <2>6. QED BY <2>1, <2>2, <2>3, <2>4, <2>5
<1>4. QED BY <1>2, <1>3 DEF FlashTypes

StationInv == Good(ram) /\ FlashTypes

\* The inductive invariant of the station: its counters and its group handle
\* are in their range, and as long as SmartConfig has not ended, a registered
\* handler finds the group of the handle alive (wifi_init, smartconfig_wifi).
THEOREM StationInvariant == Spec => []StationInv
<1>1. Init => StationInv
  BY GoodPowerOn, StationBounds DEF Init, StationInv, FlashTypes
<1>2. ModeInv /\ StationInv /\ [Next]_vars => StationInv'
  <2>1. SUFFICES ASSUME ModeInv, StationInv, [Next]_vars PROVE StationInv'
    OBVIOUS
  <2>2. Good(ram) /\ FlashTypes /\ {"mode", "name", "password"} \subseteq DOMAIN flash
    BY <2>1 DEF ModeInv, StationInv
  <2>3. Good(ram')
    <3>1. CASE NvsInit
      BY <2>2, <3>1, MainGood DEF NvsInit, FirstRun
    <3>2. CASE SetTime
      BY <2>2, <3>2, MainGood
    <3>3. CASE Keys
      BY <2>2, <3>3, KeysGood
    <3>4. CASE ram' = PowerOn
      BY <3>4, GoodPowerOn
    <3>5. CASE WifiInit \/ Driver \/ EventLoop \/ SmartConfigTask \/ SmartConfigWifi
      BY <2>2, <3>5, WifiInitGood, DriverGood, EventLoopGood, TaskGood, WifiGood
    <3>6. CASE UNCHANGED vars
      BY <2>2, <3>6 DEF vars
    <3>7. QED
      BY <2>1, <3>1, <3>2, <3>3, <3>4, <3>5, <3>6
         DEF Next, Working, Restart, Works, PowerCut, Panic, Crash
  <2>4. FlashTypes'
    BY <2>1, <2>2, FlashGood
  <2>5. QED BY <2>3, <2>4 DEF StationInv
<1>3. QED BY ModeInvariant, <1>1, <1>2, PTL DEF Spec

\* The variables that count, and name a mode or a network, stay in their range.
THEOREM TypeCorrect == Spec => []TypeOK
<1>1. ModeInv /\ StationInv => TypeOK
  <2>1. SUFFICES ASSUME ModeInv, StationInv PROVE TypeOK
    OBVIOUS
  <2>2. ram.system_mode \in {0, 1} /\ flash.mode \cup wanted \subseteq {0, 1}
    BY <2>1 DEF ModeInv
  <2>3. QED BY <2>1, <2>2 DEF TypeOK, StationInv, Good, Shape, FlashTypes
<1>2. QED BY ModeInvariant, StationInvariant, <1>1, PTL

\* Until SmartConfig has ended, nobody uses an event group that was deleted.
THEOREM GroupsStayAlive == Spec => []GroupAlive
<1>1. StationInv => GroupAlive
  BY DEF StationInv, Good, Guarded, GroupAlive
<1>2. QED BY StationInvariant, <1>1, PTL

-----------------------------------------------------------------------------
(* The credentials                                                         *)

CredFields == {"main", "at", "station", "network", "misread"}
HasCred(m) == CredFields \subseteq DOMAIN m

\* n is m with other fields changed.
Still(m, n) == HasCred(n) /\ \A f \in CredFields : n[f] = m[f]

\* Where the credentials are on their way: the handler of SmartConfig runs only
\* after wifi_init, and stores the password of the name it has stored.  What is
\* completely stored is of one network, or a default that wifi_init completes.
CredInv ==
  /\ ram.main \in Starting \cup Booting => ram.at = "idle"
  /\ ram.at = "password" => flash.name = ram.network
  /\ ~torn => flash.name = flash.password \/ {flash.name, flash.password} \subseteq {0, 1}
  /\ ~torn /\ ram.main \in {"default_name", "default_password"}
       => {flash.name, flash.password} \subseteq {0, 1}
  /\ ~torn /\ ~ram.misread /\ ram.main = "default_password" => flash.name = 1
  /\ CredentialsBelong

LEMMA StillTwice ==
  ASSUME NEW m, NEW n, NEW o, Still(m, n), Still(n, o)
  PROVE  Still(m, o)
BY DEF Still

\* One field that does not take part is changed.
LEMMA StillField ==
  ASSUME NEW m, HasCred(m), NEW v
  PROVE  /\ Still(m, [m EXCEPT !.events = v]) /\ Still(m, [m EXCEPT !.link = v])
         /\ Still(m, [m EXCEPT !.tasks = v]) /\ Still(m, [m EXCEPT !.bits = v])
         /\ Still(m, [m EXCEPT !.misuse = v]) /\ Still(m, [m EXCEPT !.alive = v])
         /\ Still(m, [m EXCEPT !.handlers = v]) /\ Still(m, [m EXCEPT !.esptouch = v])
         /\ Still(m, [m EXCEPT !.key = v]) /\ Still(m, [m EXCEPT !.retry = v])
BY DEF Still, HasCred, CredFields

\* Neither the driver nor the event group touches the credentials.
LEMMA StillCalls ==
  ASSUME NEW m, HasCred(m), NEW e
  PROVE  /\ Still(m, m) /\ Still(m, Post(m, e)) /\ Still(m, Link(m, e)) /\ Still(m, Break(m))
         /\ Still(m, Wake(m, e)) /\ Still(m, SetBit(m, e)) /\ Still(m, ClearBit(m, e))
         /\ Still(m, CreateGroup(m)) /\ Still(m, DeleteGroupOf(m))
         /\ Still(m, Connect(m)) /\ Still(m, Retry(m))
<1>1. Still(m, m)
  BY DEF Still
<1>2. \A n, x : Still(m, n) => HasCred(n)
  BY DEF Still
<1>3. \A n, x : HasCred(n) => Still(n, Post(n, x)) /\ Still(n, Link(n, x))
  BY StillField DEF Post, Link
<1>4. Still(m, Break(m))
  BY <1>3, <1>2, StillTwice DEF Break
<1>5. \A x : Still(m, Wake(m, x))
  BY StillField DEF Wake
<1>6. Still(m, SetBit(m, e)) /\ Still(m, ClearBit(m, e))
  <2>1. Still(m, [m EXCEPT !.misuse = TRUE])
    BY StillField
  <2>2. Still(m, [m EXCEPT !.bits[m.group] = @ \cup {e}])
    BY StillField
  <2>3. Still(m, [m EXCEPT !.bits[m.group] = @ \ {e}])
    BY StillField
  <2>4. QED BY <1>5, <2>1, <2>2, <2>3 DEF SetBit, ClearBit
<1>7. Still(m, CreateGroup(m))
  BY DEF CreateGroup, Still, HasCred, CredFields
<1>8. Still(m, DeleteGroupOf(m))
  <2>1. Still(m, Wake(m, "loop"))
    BY <1>5
  <2>2. Still(Wake(m, "loop"), DeleteGroupOf(m))
    BY <2>1 DEF DeleteGroupOf, Still, HasCred, CredFields
  <2>3. QED BY <2>1, <2>2, StillTwice
<1>9. Still(m, Connect(m))
  BY <1>1, <1>3 DEF Connect
<1>10. Still(m, Retry(m))
  BY <1>9 DEF Retry, Still, HasCred, CredFields
<1>11. QED BY <1>1, <1>3, <1>4, <1>5, <1>6, <1>7, <1>8, <1>9, <1>10

\* Flash, as far as it holds credentials, is left alone.
CredKept ==
  flash'.name = flash.name /\ flash'.password = flash.password /\ torn' = torn

\* A step that leaves the credentials alone, and stays where it is or ends.
Calmly ==
  /\ CredKept
  /\ ram'.at = ram.at /\ ram'.station = ram.station /\ ram'.network = ram.network
  /\ ~ram'.misread => ~ram.misread
  /\ ram'.main = ram.main \/ ram'.main \notin Starting \cup Booting

LEMMA CalmlyHolds == CredInv /\ Calmly => CredInv'
BY DEF CredInv, Calmly, CredKept, CredentialsBelong, Starting, Booting

LEMMA StillHolds ==
  ASSUME CredInv, CredKept, Still(ram, ram')
  PROVE  CredInv'
BY CalmlyHolds DEF Calmly, Still, CredFields

\* A step to where no credentials are on their way.
LEMMA AsideHolds ==
  ASSUME CredInv, CredKept, ram'.at = "idle",
         ram'.main \notin {"sta_start", "default_name", "default_password"}
  PROVE  CredInv'
BY DEF CredInv, CredKept, CredentialsBelong

LEMMA DriverBelongs ==
  ASSUME HasCred(ram), CredInv, Driver
  PROVE  CredInv'
<1>1. SUFFICES Still(ram, ram')
  BY StillHolds DEF Driver, CredKept
<1>2. ASSUME NEW m, Still(ram, m), NEW e
      PROVE  Still(ram, Post(m, e))
  BY <1>2, StillCalls, StillTwice DEF Still
<1>3. CASE Joins \/ GetsAddress \/ Breaks
  BY <1>2, <1>3, StillCalls DEF Joins, GetsAddress, Breaks, Works
<1>4. CASE Esptouch
  <2>1. ASSUME NEW v PROVE Still(ram, [ram EXCEPT !.esptouch = v])
    BY StillField, Zenon
  <2>2. \E v, e : ram' = Post([ram EXCEPT !.esptouch = v], e)
    BY <1>4 DEF Esptouch, Works
  <2>3. QED BY <1>2, <2>1, <2>2
<1>5. QED BY <1>3, <1>4 DEF Driver

\* A handler leaves the credentials alone, or has got some from a phone.
LEMMA EventBelongs ==
  ASSUME NEW m, Still(ram, m), NEW e, BootEvent(e, m) \/ SmartConfigEvent(e, m)
  PROVE  Still(ram, ram') \/ ("smartconfig" \in m.handlers /\ ram'.main = m.main
                              /\ ram'.at = "name")
<1>1. HasCred(m)
  BY DEF Still
<1>2. ASSUME NEW n, Still(m, n) PROVE Still(ram, n)
  BY <1>2, StillTwice
<1>3. Still(m, SetBit([m EXCEPT !.retry = 0], "BIT0"))
  <2>1. Still(m, [m EXCEPT !.retry = 0])
    BY <1>1, StillField, Zenon
  <2>2. HasCred([m EXCEPT !.retry = 0])
    BY <2>1 DEF Still
  <2>3. QED BY <2>1, <2>2, StillCalls, StillTwice
<1>4. Still(m, ClearBit(Connect(m), "BIT0"))
  <2>1. Still(m, Connect(m)) /\ HasCred(Connect(m))
    BY <1>1, StillCalls DEF Still
  <2>2. QED BY <2>1, StillCalls, StillTwice
<1>5. CASE BootEvent(e, m)
  BY <1>1, <1>2, <1>3, <1>5, StillCalls DEF BootEvent, Works
<1>6. CASE SmartConfigEvent(e, m)
  <2>1. Still(m, [m EXCEPT !.tasks = Append(@, [at |-> "start", on |-> 0])])
    BY <1>1, StillField
  <2>2. ASSUME NEW n, ram' = [m EXCEPT !.at = "name", !.network = n]
        PROVE  ram'.main = m.main /\ ram'.at = "name"
    BY <1>1, <2>2 DEF HasCred, CredFields
  <2>3. QED
    BY <1>1, <1>2, <1>4, <1>6, <2>1, <2>2, StillCalls DEF SmartConfigEvent, Works
<1>7. QED BY <1>5, <1>6

LEMMA EventLoopBelongs ==
  ASSUME HasCred(ram), Good(ram), CredInv, EventLoop,
         {"mode", "name", "password"} \subseteq DOMAIN flash
  PROVE  CredInv'
<1>1. CASE Dispatch
  <2>1. DEFINE m == [ram EXCEPT !.events = Tail(@)]
  <2>2. Still(ram, m) /\ m.handlers = ram.handlers
    BY DEF Still, HasCred, CredFields, Good, Shape
  <2>3. \E e : BootEvent(e, m) \/ SmartConfigEvent(e, m) \/ Works(m)
    BY <1>1 DEF Dispatch
  <2> HIDE DEF m
  <2>4. CredKept
    BY <1>1 DEF Dispatch, CredKept
  <2>5. CASE Still(ram, ram')
    BY <2>4, <2>5, StillHolds
  <2>6. CASE "smartconfig" \in ram.handlers /\ ram'.main = ram.main /\ ram'.at = "name"
    BY <2>4, <2>6 DEF Good, Guarded, CredInv, CredKept, CredentialsBelong, Starting, Booting
  <2>7. m.main = ram.main
    BY <2>2 DEF Still, CredFields
  <2>8. QED BY <2>2, <2>3, <2>5, <2>6, <2>7, EventBelongs DEF Works
\* The handler has been called, so wifi_init is over.
<1>2. ram.at # "idle" => ram.main \notin Starting \cup Booting
  BY DEF CredInv
<1>3. CASE StoreName
  <2>1. ram'.main = ram.main /\ ram'.network = ram.network
    BY <1>3 DEF StoreName, Works, Fails, HasCred, CredFields
  <2>2. \/ torn' /\ ram'.at = "password" /\ flash'.name = ram.network
        \/ torn' /\ ram'.at = "password_only"
        \/ CredKept /\ ram'.at = "connect"
    BY <1>3 DEF StoreName, Works, Fails, HasCred, CredFields, CredKept
  <2>3. QED
    BY <1>2, <1>3, <2>1, <2>2
       DEF StoreName, CredInv, CredKept, CredentialsBelong, Starting, Booting
<1>4. CASE StorePassword
  <2>1. ram'.main = ram.main /\ ram'.at = "connect"
    BY <1>4 DEF StorePassword, Works, Fails, HasCred, CredFields
  <2>2. \/ flash'.name = flash.name /\ flash'.password = ram.network /\ ram.at = "password"
        \/ torn'
        \/ CredKept
    BY <1>4 DEF StorePassword, CredKept
  <2>3. QED
    BY <1>2, <1>4, <2>1, <2>2
       DEF StorePassword, CredInv, CredKept, CredentialsBelong, Starting, Booting
<1>5. CASE Reconnect
  <2>1. CASE ram.link = "off" /\ Works([ram EXCEPT !.main = "panic"])
    BY <1>2, <1>5, <2>1
       DEF Reconnect, Works, HasCred, CredFields, CredInv, CredentialsBelong, Starting, Booting
  <2>2. CASE ram.link # "off"
    <3>1. DEFINE m == IF ram.link = "idle" THEN ram ELSE Break(ram)
                 s == [name |-> ram.network, password |-> ram.network]
                 n == [m EXCEPT !.at = "idle", !.station = s]
    <3>2. Still(ram, m)
      BY StillCalls
    <3>3. HasCred(n) /\ n.main = ram.main /\ n.at = "idle"
      BY <3>2 DEF Still, HasCred, CredFields
    <3>4. ram' = Connect(n) /\ CredKept
      BY <1>5, <2>2 DEF Reconnect, Works, CredKept
    <3> HIDE DEF n
    <3>5. ram'.main = ram.main /\ ram'.at = "idle"
      BY <3>3, <3>4, StillCalls DEF Still, CredFields
    <3>6. QED BY <1>2, <1>5, <3>4, <3>5, AsideHolds DEF Reconnect, Booting
  <2>3. QED BY <1>5, <2>1, <2>2 DEF Reconnect
<1>6. QED BY <1>1, <1>3, <1>4, <1>5 DEF EventLoop

\* SmartConfig leaves the credentials to its handler.
LEMMA SmartConfigBelongs ==
  ASSUME HasCred(ram), CredInv, SmartConfigTask \/ SmartConfigWifi
  PROVE  CredInv'
<1>1. SUFFICES Calmly
  BY CalmlyHolds
<1>2. CredKept
  BY DEF SmartConfigTask, SmartConfigWifi, CredKept
<1>3. ASSUME NEW n, Still(ram, n), NEW k, ram' = n \/ ram' = [n EXCEPT !.key = k]
      PROVE  Calmly
  BY <1>2, <1>3 DEF Calmly, Still, HasCred, CredFields
<1>4. CASE SmartConfigTask
  <2>1. PICK i \in DOMAIN ram.tasks : ScStart(i) \/ ScWait(i) \/ ScStop(i) \/ ScDelete(i)
    BY <1>4 DEF SmartConfigTask
  <2>2. CASE ScStart(i) \/ ScWait(i) \/ ScStop(i)
    BY <1>2, <2>2
       DEF ScStart, ScWait, ScStop, Works, Calmly, HasCred, CredFields, Starting, Booting
  <2>3. CASE ScDelete(i)
    <3>1. Still(ram, DeleteGroupOf(ram))
      BY StillCalls
    <3>2. QED
      BY <1>2, <2>3, <3>1 DEF ScDelete, Works, Calmly, Still, HasCred, CredFields
  <2>4. QED BY <2>1, <2>2, <2>3
<1>5. CASE SmartConfigWifi
  <2>1. CASE Works([CreateGroup(ram) EXCEPT !.key = "wifi_stop"])
    <3>1. Still(ram, CreateGroup(ram))
      BY StillCalls
    <3>2. QED BY <1>3, <2>1, <3>1 DEF Works
  <2>2. CASE LET m == IF ram.link = "idle" THEN ram ELSE Break(ram)
             IN Works([Link(m, "off") EXCEPT !.key = "wifi_start"])
    <3>1. DEFINE m == IF ram.link = "idle" THEN ram ELSE Break(ram)
    <3>2. Still(ram, m) /\ HasCred(m)
      BY StillCalls DEF Still
    <3>3. Still(ram, Link(m, "off"))
      BY <3>2, StillCalls, StillTwice
    <3>4. ram' = [Link(m, "off") EXCEPT !.key = "wifi_start"]
      BY <2>2 DEF Works
    <3> HIDE DEF m
    <3>5. QED BY <1>3, <3>3, <3>4
  <2>3. CASE Works([Post(Link(ram, "idle"), "STA_START") EXCEPT
                       !.key = "idle", !.handlers = @ \cup {"smartconfig"}])
    <3>1. Still(ram, Link(ram, "idle")) /\ HasCred(Link(ram, "idle"))
      BY StillCalls DEF Still
    <3>2. Still(ram, Post(Link(ram, "idle"), "STA_START"))
      BY <3>1, StillCalls, StillTwice
    <3>3. QED
      BY <1>2, <2>3, <3>2 DEF Works, Calmly, Still, HasCred, CredFields
  <2>4. QED BY <1>5, <2>1, <2>2, <2>3 DEF SmartConfigWifi
<1>6. QED BY <1>4, <1>5

\* wifi_init connects to what it found complete, or has completed.
LEMMA WifiInitBelongs ==
  ASSUME HasCred(ram), CredInv, FlashTypes, WifiInit,
         {"mode", "name", "password"} \subseteq DOMAIN flash
  PROVE  CredInv'
<1>1. ASSUME NEW from \in Booting, NEW n, Still(ram, n),
             NEW to, to \notin {"sta_start", "default_name", "default_password"},
             Main(from, to, n), UNCHANGED <<flash, torn>>
      PROVE  CredInv'
  <2>1. ram'.main = to /\ ram'.at = "idle"
    BY <1>1 DEF Main, Works, Still, HasCred, CredFields, CredInv
  <2>2. QED BY <1>1, <2>1, AsideHolds DEF CredKept
<1>2. torn' = torn
  BY DEF WifiInit
<1>3. CASE DefaultName
  <2>1. /\ ram'.main = "default_password" /\ ram'.at = ram.at /\ ram.main = "default_name"
        /\ ram'.network = ram.network
    BY <1>3 DEF DefaultName, Default, Works, Fails, HasCred, CredFields
  <2>2. flash'.password = flash.password
        /\ (flash'.name = 1 \/ (flash'.name = flash.name /\ ram'.misread))
    BY <1>3 DEF DefaultName, Default, Works, Fails, HasCred, CredFields
  <2>3. QED
    BY <1>2, <2>1, <2>2 DEF CredInv, CredentialsBelong, Starting, Booting
<1>4. CASE DefaultPassword
  <2>1. /\ ram'.main = "sta_start" /\ ram'.at = ram.at /\ ram.main = "default_password"
        /\ ram'.network = ram.network /\ ram'.station = [name |-> 1, password |-> 1]
    BY <1>4 DEF DefaultPassword, Default, Works, Fails, HasCred, CredFields
  <2>2. flash'.name = flash.name
        /\ \/ flash'.password = 1 /\ ram'.misread = ram.misread
           \/ flash'.password = flash.password /\ ram'.misread
    BY <1>4 DEF DefaultPassword, Default, Works, Fails, HasCred, CredFields
  <2>3. QED
    BY <1>2, <2>1, <2>2 DEF CredInv, CredentialsBelong, Starting, Booting
<1>5. CASE GetSta /\ UNCHANGED flash
  <2>1. CASE ~NotFound /\ Main("get_sta", "sta_start",
               [ram EXCEPT !.station = [name |-> flash.name, password |-> flash.password]])
    <3>1. /\ ram'.main = "sta_start" /\ ram'.at = ram.at /\ ram.main = "get_sta"
          /\ ram'.network = ram.network
          /\ ram'.station = [name |-> flash.name, password |-> flash.password]
      BY <2>1 DEF Main, Works, HasCred, CredFields
    <3>2. flash.name # 0 /\ flash.password # 0
      BY <2>1 DEF NotFound
    <3>3. ~torn => flash.name = flash.password
      BY <3>2 DEF CredInv
    <3>4. QED
      BY <1>2, <1>5, <3>1, <3>3 DEF CredInv, CredentialsBelong, Starting, Booting
  <2>2. CASE NotFound /\ Main("get_sta", "default_name", ram)
    <3>1. /\ ram'.main = "default_name" /\ ram'.at = ram.at /\ ram.main = "get_sta"
          /\ ram'.network = ram.network
      BY <2>2 DEF Main, Works, HasCred, CredFields
    <3>2. ~torn => {flash.name, flash.password} \subseteq {0, 1}
      BY <2>2 DEF CredInv, NotFound
    <3>3. QED
      BY <1>2, <1>5, <3>1, <3>2 DEF CredInv, CredentialsBelong, Starting, Booting
  <2>3. CASE /\ ram.main = "get_sta"
             /\ \E n, p : Fails([ram EXCEPT !.main = "sta_start",
                                            !.station = [name |-> n, password |-> p]])
    <3>1. /\ ram'.main = "sta_start" /\ ram'.at = ram.at /\ ram'.misread
          /\ ram'.network = ram.network
      BY <2>3 DEF Fails, HasCred, CredFields
    <3>2. QED
      BY <1>2, <1>5, <2>3, <3>1 DEF CredInv, CredentialsBelong, Starting, Booting
  <2>4. QED BY <1>5, <2>1, <2>2, <2>3 DEF GetSta
<1>6. CASE Register /\ UNCHANGED flash
  <2>1. Still(ram, CreateGroup(ram)) /\ HasCred(CreateGroup(ram))
    BY StillCalls DEF Still
  <2>2. Still(ram, [CreateGroup(ram) EXCEPT !.handlers = {"boot_wifi", "boot_ip"}])
    BY <2>1, StillField, StillTwice
  <2>3. QED BY <1>1, <1>2, <1>6, <2>2 DEF Register, Booting
<1>7. CASE StaStart /\ UNCHANGED flash
  <2>1. Still(ram, Link(ram, "idle")) /\ HasCred(Link(ram, "idle"))
    BY StillCalls DEF Still
  <2>2. Still(ram, Post(Link(ram, "idle"), "STA_START"))
    BY <2>1, StillCalls, StillTwice
  <2>3. QED BY <1>1, <1>2, <1>7, <2>2 DEF StaStart, Booting
<1>8. CASE WaitBits /\ UNCHANGED flash
  BY <1>1, <1>2, <1>8, StillCalls DEF WaitBits, Booting
<1>9. CASE (UnregisterIp \/ UnregisterWifi) /\ UNCHANGED flash
  <2>1. \A h : Still(ram, Unregister(h))
    BY StillField DEF Unregister
  <2>2. QED BY <1>1, <1>2, <1>9, <2>1 DEF UnregisterIp, UnregisterWifi, Booting
<1>10. CASE DeleteGroup /\ UNCHANGED flash
  BY <1>1, <1>2, <1>10, StillCalls DEF DeleteGroup, Booting
<1>11. QED BY <1>3, <1>4, <1>5, <1>6, <1>7, <1>8, <1>9, <1>10 DEF WifiInit

\* What comes before and after the station, and the restarts.
LEMMA AroundBelongs ==
  ASSUME HasCred(ram), CredInv, {"mode", "name", "password"} \subseteq DOMAIN flash,
         (NvsInit /\ ram.main \in Starting) \/ SetTime \/ Keys
           \/ (ram' = PowerOn /\ UNCHANGED <<flash, torn>>)
  PROVE  CredInv'
<1>1. CASE NvsInit /\ ram.main \in Starting
  <2>1. ram.at = "idle"
    BY <1>1 DEF CredInv
  <2>2. CASE NvsErase
    <3>1. ram'.main = ram.main /\ ram'.at = "idle"
      BY <2>1, <2>2 DEF NvsErase, Fails, HasCred, CredFields
    <3>2. flash'.name = 0 /\ flash'.password = 0
      BY <2>2 DEF NvsErase
    <3>3. QED BY <1>1, <3>1, <3>2 DEF CredInv, CredentialsBelong, Starting
  <2>3. CASE ~NvsErase
    <3>1. CredKept
      BY <1>1, <2>3 DEF NvsInit, NvsOpenFails, ModeFound, ModeNotFound, FirstRun,
                        StoredMode, CredKept
    <3>2. ram'.main \in {"offline", "register", "first_run"} /\ ram'.at = "idle"
      BY <1>1, <2>1, <2>3
         DEF NvsInit, NvsOpenFails, ModeFound, ModeNotFound, FirstRun, Boot, Works, Fails,
             HasCred, CredFields
    <3>3. QED BY <3>1, <3>2, AsideHolds
  <2>4. QED BY <2>2, <2>3
<1>2. CASE SetTime
  <2>1. ram'.main = "online" /\ ram'.at = "idle"
    BY <1>2 DEF SetTime, Main, Works, HasCred, CredFields, CredInv, Booting
  <2>2. QED BY <1>2, <2>1, AsideHolds DEF SetTime, CredKept
<1>3. CASE Keys
  <2>1. CredKept
    BY <1>3 DEF Keys, PressRec, StoreMode, PressMode, StoredMode, CredKept
  <2>2. Calmly
    BY <1>3, <2>1 DEF Keys, PressRec, StoreMode, PressMode, Works, Fails, Calmly,
                      HasCred, CredFields
  <2>3. QED BY <2>2, CalmlyHolds
<1>4. CASE ram' = PowerOn /\ UNCHANGED <<flash, torn>>
  <2>1. ram'.main = "nvs_init" /\ ram'.at = "idle"
    BY <1>4 DEF PowerOn
  <2>2. QED BY <1>4, <2>1, AsideHolds DEF CredKept
<1>5. QED BY <1>1, <1>2, <1>3, <1>4

\* The inductive invariant of the credentials: where they are on their way, and
\* what is in flash if both halves were stored; nothing is said of a half that
\* was not (nvs_get_sta, nvs_set_sta, wifi_event_handler).
THEOREM CredInvariant == Spec => []CredInv
<1>1. Init => CredInv
  <2>1. PowerOn.main = "nvs_init" /\ PowerOn.at = "idle"
    BY DEF PowerOn
  <2>2. QED BY <2>1 DEF Init, CredInv, CredentialsBelong
<1>2. ModeInv /\ StationInv /\ CredInv /\ [Next]_vars => CredInv'
  <2>1. SUFFICES ASSUME ModeInv, StationInv, CredInv, [Next]_vars PROVE CredInv'
    OBVIOUS
  <2>2. /\ Good(ram) /\ FlashTypes /\ HasCred(ram)
        /\ {"mode", "name", "password"} \subseteq DOMAIN flash
    BY <2>1 DEF ModeInv, StationInv, Good, Shape, HasCred, CredFields
  <2>3. CASE NvsInit \/ SetTime \/ Keys \/ (ram' = PowerOn /\ UNCHANGED <<flash, torn>>)
    <3>1. NvsInit => ram.main \in Starting
      BY DEF NvsInit, FirstRun, Starting
    <3>2. QED BY <2>1, <2>2, <2>3, <3>1, AroundBelongs
  <2>4. CASE WifiInit \/ Driver \/ EventLoop \/ SmartConfigTask \/ SmartConfigWifi
    BY <2>1, <2>2, <2>4, WifiInitBelongs, DriverBelongs, EventLoopBelongs, SmartConfigBelongs
  <2>5. CASE UNCHANGED vars
    BY <2>1, <2>5 DEF vars, CredInv, CredentialsBelong
  <2>6. QED
    BY <2>1, <2>3, <2>4, <2>5 DEF Next, Working, Restart, Works, PowerCut, Panic, Crash
<1>3. QED BY ModeInvariant, StationInvariant, <1>1, <1>2, PTL DEF Spec

\* wifi_init starts with the name of one network and the password of another
\* only if of the last credentials of SmartConfig a half was not stored, for a
\* power cut or an error nvs_set_sta does not look at, or if NVS fails since
\* the last restart (nvs_get_sta, nvs_set_sta).
THEOREM CredentialsStayTogether == Spec => []CredentialsBelong
<1>1. CredInv => CredentialsBelong
  BY DEF CredInv
<1>2. QED BY CredInvariant, <1>1, PTL

-----------------------------------------------------------------------------
(* The wait of wifi_init                                                   *)

Events  == {"STA_START", "DISCONNECTED", "GOT_IP", "GOT_SSID_PSWD", "SEND_ACK_DONE"}
Calling == {"get_sta", "default_name", "default_password", "sta_start", "wait"}
Early   == Starting \cup {"register"} \cup Calling

\* Up to the end of the wait SmartConfig has not begun, the handlers of the boot
\* are the only ones, and from the start of the driver on there is a cause.
WaitInv ==
  /\ ram.main \in Early => ~ram.ended /\ ram.events \in Seq(Events)
  /\ ram.main \in Calling => ram.handlers = {"boot_wifi", "boot_ip"}
  /\ ram.main = "wait" => ram.link \in {"idle", "joining", "joined", "up"}
  /\ WaitHasCause

\* An event that is posted is behind the others; the one that is dispatched is
\* gone, and only that one.
LEMMA EventQueue ==
  ASSUME NEW s \in Seq(Events), NEW e \in Events
  PROVE  /\ Append(s, e) \in Seq(Events)
         /\ \E i \in DOMAIN Append(s, e) : Append(s, e)[i] = e
         /\ \A x : (\E i \in DOMAIN s : s[i] = x)
                    => \E i \in DOMAIN Append(s, e) : Append(s, e)[i] = x
         /\ s # <<>> => /\ Tail(s) \in Seq(Events)
                        /\ \A x : x # Head(s) /\ (\E i \in DOMAIN s : s[i] = x)
                                   => \E i \in DOMAIN Tail(s) : Tail(s)[i] = x
<1>1. /\ Append(s, e) \in Seq(Events) /\ Len(Append(s, e)) = Len(s) + 1 /\ Len(s) \in Nat
      /\ Append(s, e)[Len(s) + 1] = e
      /\ \A i \in 1 .. Len(s) : Append(s, e)[i] = s[i]
  OBVIOUS
<1>2. DOMAIN s = 1 .. Len(s) /\ DOMAIN Append(s, e) = 1 .. Len(s) + 1
  BY <1>1
<1>3. \A i \in 1 .. Len(s) : i \in 1 .. Len(s) + 1
  BY <1>1
<1>4. Len(s) + 1 \in 1 .. Len(s) + 1
  BY <1>1
<1>5. ASSUME s # <<>>, NEW x, x # Head(s), NEW i \in DOMAIN s, s[i] = x
      PROVE  \E k \in DOMAIN Tail(s) : Tail(s)[k] = x
  <2>1. Len(Tail(s)) = Len(s) - 1 /\ \A k \in 1 .. Len(s) - 1 : Tail(s)[k] = s[k + 1]
    BY <1>5
  <2>2. i # 1
    BY <1>5
  <2>3. i - 1 \in 1 .. Len(s) - 1 /\ (i - 1) + 1 = i
    BY <1>1, <1>2, <1>5, <2>2
  <2>4. DOMAIN Tail(s) = 1 .. Len(s) - 1
    BY <1>1, <1>5, <2>1
  <2>5. QED BY <1>5, <2>1, <2>3, <2>4
<1>6. s # <<>> => Tail(s) \in Seq(Events)
  OBVIOUS
<1>7. QED BY <1>1, <1>2, <1>3, <1>4, <1>5, <1>6

\* Fields of which the cause of the wait is not made.
WaitKept(m, n) ==
  /\ n.main = m.main /\ n.ended = m.ended /\ n.handlers = m.handlers
  /\ n.station = m.station /\ n.group = m.group /\ n.bits = m.bits

\* What the driver does when a link comes or goes.
LEMMA DriverCause ==
  ASSUME Good(ram), ram.events \in Seq(Events), Driver
  PROVE  /\ WaitKept(ram, ram') /\ ram'.events \in Seq(Events)
         /\ ram.link \in {"idle", "joining", "joined", "up"} /\ HasCause(ram)
              => ram'.link \in {"idle", "joining", "joined", "up"} /\ HasCause(ram')
         /\ ram.link \in {"idle", "joining", "joined", "up"}
              => ram'.link \in {"idle", "joining", "joined", "up"}
<1>1. Shape(ram)
  BY DEF Good
<1>2. \A e \in Events :
        /\ Append(ram.events, e) \in Seq(Events)
        /\ \E i \in DOMAIN Append(ram.events, e) : Append(ram.events, e)[i] = e
        /\ \A x : (\E i \in DOMAIN ram.events : ram.events[i] = x)
                   => \E i \in DOMAIN Append(ram.events, e) : Append(ram.events, e)[i] = x
  BY EventQueue
<1>3. CASE ram' = Break(ram)
  <2>1. /\ WaitKept(ram, ram') /\ ram'.link = "idle"
        /\ ram'.events = Append(ram.events, "DISCONNECTED")
    BY <1>1, <1>3 DEF Break, Post, Link, Shape, WaitKept
  <2>2. Coming(ram', "DISCONNECTED") /\ ram'.events \in Seq(Events)
    BY <1>2, <2>1 DEF Coming, Events
  <2>3. QED BY <2>1, <2>2 DEF HasCause
<1>4. CASE ram' = Link(ram, "joined")
  BY <1>1, <1>4 DEF Link, Shape, WaitKept, HasCause
<1>5. CASE ram' = Post(Link(ram, "up"), "GOT_IP")
  <2>1. /\ WaitKept(ram, ram') /\ ram'.link = "up"
        /\ ram'.events = Append(ram.events, "GOT_IP")
    BY <1>1, <1>5 DEF Post, Link, Shape, WaitKept
  <2>2. Coming(ram', "GOT_IP") /\ ram'.events \in Seq(Events)
    BY <1>2, <2>1 DEF Coming, Events
  <2>3. QED BY <2>1, <2>2 DEF HasCause
<1>6. CASE Esptouch
  <2>1. PICK v \in {"got", "acked"}, e \in Events :
          ram' = Post([ram EXCEPT !.esptouch = v], e)
    <3>1. "GOT_SSID_PSWD" \in Events /\ "SEND_ACK_DONE" \in Events
      BY DEF Events
    <3>2. \/ ram' = Post([ram EXCEPT !.esptouch = "got"], "GOT_SSID_PSWD")
          \/ ram' = Post([ram EXCEPT !.esptouch = "acked"], "SEND_ACK_DONE")
      BY <1>6 DEF Esptouch, Works
    <3>3. QED BY <3>1, <3>2, Zenon
  <2>2. /\ WaitKept(ram, ram') /\ ram'.link = ram.link
        /\ ram'.events = Append(ram.events, e)
    BY <1>1, <2>1 DEF Post, Shape, WaitKept
  <2>3. ram'.events \in Seq(Events) /\ \A x : Coming(ram, x) => Coming(ram', x)
    BY <1>2, <2>2 DEF Coming
  <2>4. QED BY <2>2, <2>3 DEF HasCause
<1>7. QED
  BY <1>3, <1>4, <1>5, <1>6 DEF Driver, Joins, GetsAddress, Breaks, Works

\* What the handlers of the boot do with the memory m, from which the event e
\* was taken: they connect, set a bit, or leave the rest as it is.
LEMMA BootCause ==
  ASSUME NEW m, Good(m), ~m.ended, DOMAIN m.tasks = {}, NEW e,
         m.retry = ram.retry, BootEvent(e, m)
  PROVE  /\ ram'.main = m.main /\ ram'.ended = m.ended /\ ram'.handlers = m.handlers
         /\ ram'.station = m.station /\ ram'.group = m.group /\ ram'.events = m.events
         /\ \/ ram'.bits[m.group] # {}
            \/ /\ ram'.link = IF m.link = "idle" /\ m.station.name # 0 THEN "joining"
                                                                      ELSE m.link
               /\ ram'.bits = m.bits /\ e \in {"STA_START", "DISCONNECTED"}
         /\ ram'.link = m.link \/ ram'.link = "joining"
<1>1. Shape(m) /\ m.group \in m.alive
  BY DEF Good, Guarded, BootEvent
<1>2. ASSUME NEW n, Shape(n), n.group \in n.alive, DOMAIN n.tasks = {},
             NEW b \in {"BIT0", "BIT1"}
      PROVE  /\ SetBit(n, b) = [n EXCEPT !.bits[n.group] = @ \cup {b}]
             /\ SetBit(n, b).bits[n.group] # {}
  <2>1. Waiters(n) = {}
    BY <1>2 DEF Waiters
  <2>2. SetBit(n, b) = [n EXCEPT !.bits[n.group] = @ \cup {b}]
    BY <1>2, <2>1 DEF SetBit
  <2>3. n.group \in DOMAIN n.bits
    <3>1. n.bits \in Seq(SUBSET {"BIT0", "BIT1"}) /\ n.group \in 1 .. Len(n.bits)
      BY <1>2 DEF Shape
    <3>2. QED BY <3>1
  <2>4. SetBit(n, b).bits[n.group] = n.bits[n.group] \cup {b}
    BY <1>2, <2>2, <2>3 DEF Shape
  <2>5. QED BY <2>2, <2>4
<1>3. CASE e = "STA_START" /\ ram' = Connect(m)
  BY <1>1, <1>3 DEF Connect, Link, Shape
<1>4. CASE e = "DISCONNECTED" /\ ram' = Retry(m)
  BY <1>1, <1>4 DEF Retry, Connect, Link, Shape
<1>5. CASE ram' = SetBit(m, "BIT1")
  <2>1. ram' = [m EXCEPT !.bits[m.group] = @ \cup {"BIT1"}] /\ ram'.bits[m.group] # {}
    BY <1>1, <1>2, <1>5
  <2>2. QED BY <1>1, <2>1 DEF Shape
<1>6. CASE ram' = SetBit([m EXCEPT !.retry = 0], "BIT0")
  <2>1. DEFINE n == [m EXCEPT !.retry = 0]
  <2>2. /\ Shape(n) /\ n.group = m.group /\ n.alive = m.alive /\ n.tasks = m.tasks
        /\ n.main = m.main /\ n.ended = m.ended /\ n.handlers = m.handlers
        /\ n.station = m.station /\ n.events = m.events /\ n.link = m.link
    BY <1>1, StationBounds DEF Shape
  <2> HIDE DEF n
  <2>3. ram' = [n EXCEPT !.bits[n.group] = @ \cup {"BIT0"}] /\ ram'.bits[n.group] # {}
    BY <1>1, <1>2, <1>6, <2>2 DEF n
  <2>4. QED BY <2>2, <2>3 DEF Shape
<1>7. QED BY <1>3, <1>4, <1>5, <1>6 DEF BootEvent, Works

\* Up to the end of the wait the task of the event loop only dispatches, and
\* only to the handlers of the boot.
LEMMA DispatchWaits ==
  ASSUME Good(ram), WaitInv, ram.main \in Early, ram.at = "idle", EventLoop
  PROVE  WaitInv'
<1>1. Dispatch
  BY DEF EventLoop, StoreName, StorePassword, Reconnect
<1>2. /\ Shape(ram) /\ ~ram.ended /\ DOMAIN ram.tasks = {} /\ "smartconfig" \notin ram.handlers
      /\ ram.events \in Seq(Events) /\ ram.events # <<>>
  BY <1>1 DEF Good, Guarded, WaitInv, Early, Calling, Booting, Dispatch
<1>3. DEFINE e == Head(ram.events)
             v == Tail(ram.events)
             m == [ram EXCEPT !.events = v]
<1>4. /\ v \in Seq(Events)
      /\ \A x : x # e /\ (\E i \in DOMAIN ram.events : ram.events[i] = x)
                => \E i \in DOMAIN v : v[i] = x
  <2>1. "GOT_IP" \in Events
    BY DEF Events
  <2>2. QED BY <1>2, <2>1, EventQueue
<1>5. BootEvent(e, m) \/ SmartConfigEvent(e, m) \/ (~Handled(e) /\ Works(m))
  <2>1. m = [ram EXCEPT !.events = Tail(@)]
    BY <1>2 DEF Shape
  <2>2. QED BY <1>1, <2>1 DEF Dispatch
<1>6. Quiet(ram, m)
  BY <1>2, QuietField, Zenon
<1>7. /\ Good(m) /\ m.main = ram.main /\ m.ended = ram.ended /\ m.handlers = ram.handlers
      /\ m.station = ram.station /\ m.group = ram.group /\ m.bits = ram.bits
      /\ m.tasks = ram.tasks /\ m.link = ram.link /\ m.retry = ram.retry /\ m.events = v
  <2> HIDE DEF v
  <2>1. Good(m)
    <3> HIDE DEF m
    <3>1. QED BY <1>6, KeptGood DEF Quiet
  <2>2. QED BY <1>2, <2>1 DEF Shape
<1> HIDE DEF m, v, e
<1>8. /\ ram'.main = ram.main /\ ram'.ended = ram.ended /\ ram'.handlers = ram.handlers
      /\ ram'.station = ram.station /\ ram'.group = ram.group /\ ram'.events = v
      /\ \/ ram'.bits[ram.group] # {}
         \/ /\ ram'.link = IF ram.link = "idle" /\ ram.station.name # 0 THEN "joining"
                                                                    ELSE ram.link
            /\ ram'.bits = ram.bits /\ e \in {"STA_START", "DISCONNECTED"}
         \/ ram'.link = ram.link /\ ram'.bits = ram.bits /\ ~Handled(e)
      /\ ram'.link = ram.link \/ ram'.link = "joining"
  <2>1. CASE BootEvent(e, m)
    BY <1>2, <1>7, <2>1, BootCause
  <2>2. CASE SmartConfigEvent(e, m)
    BY <1>2, <1>7, <2>2 DEF SmartConfigEvent
  <2>3. CASE ~Handled(e) /\ Works(m)
    BY <1>7, <2>3 DEF Works
  <2>4. QED BY <1>5, <2>1, <2>2, <2>3
<1>9. ASSUME ram.main = "wait", ram.station.name # 0, ram'.bits[ram.group] = {}
      PROVE  HasCause(ram')
  <2>1. CASE /\ ram'.link = IF ram.link = "idle" /\ ram.station.name # 0 THEN "joining"
                                                                     ELSE ram.link
             /\ ram'.bits = ram.bits /\ e \in {"STA_START", "DISCONNECTED"}
    <3>1. CASE ram.link = "idle"
      BY <1>9, <2>1, <3>1 DEF HasCause
    <3>2. CASE ram.link \in {"joining", "joined"}
      BY <2>1, <3>2 DEF HasCause
    <3>3. CASE ram.link = "up"
      <4>1. Coming(ram, "GOT_IP")
        BY <1>9, <2>1, <3>3 DEF WaitInv, WaitHasCause, HasCause
      <4>2. Coming(ram', "GOT_IP")
        BY <1>4, <1>8, <2>1, <4>1 DEF Coming
      <4>3. QED BY <2>1, <3>3, <4>2 DEF HasCause
    <3>4. QED BY <1>9, <2>1, <3>1, <3>2, <3>3 DEF WaitInv
  <2>2. CASE ram'.link = ram.link /\ ram'.bits = ram.bits /\ ~Handled(e)
    <3>1. e \notin {"STA_START", "DISCONNECTED", "GOT_IP"}
      BY <1>9, <2>2 DEF Handled, WaitInv, Calling
    <3>2. HasCause(ram)
      BY <1>9, <2>2 DEF WaitInv, WaitHasCause
    <3>3. \A x \in {"STA_START", "DISCONNECTED", "GOT_IP"} : Coming(ram, x) => Coming(ram', x)
      BY <1>4, <1>8, <3>1 DEF Coming
    <3>4. QED BY <2>2, <3>2, <3>3 DEF HasCause
  <2>3. QED BY <1>8, <1>9, <2>1, <2>2
<1>10. QED BY <1>2, <1>4, <1>8, <1>9 DEF WaitInv, WaitHasCause

\* wifi_init starts the driver with its handlers registered, and then waits.
LEMMA WifiInitWaits ==
  ASSUME Good(ram), FlashTypes, WaitInv, WifiInit
  PROVE  WaitInv'
<1>1. Shape(ram)
  BY DEF Good
<1>2. ASSUME ram'.main \notin Early PROVE WaitInv'
  BY <1>2 DEF WaitInv, WaitHasCause, Early, Calling
<1>3. ASSUME ram.main \in Calling, ram'.main \in Calling \ {"wait"},
             ram'.ended = ram.ended, ram'.events = ram.events, ram'.handlers = ram.handlers
      PROVE  WaitInv'
  BY <1>3 DEF WaitInv, WaitHasCause, Early, Calling
<1>4. CASE Register
  <2>1. DEFINE c == CreateGroup(ram)
  <2>2. /\ Shape(c) /\ c.ended = ram.ended /\ c.events = ram.events
    <3>1. Shape(c)
      BY <1>1, GroupCalls DEF Same4
    <3>2. QED BY <1>1, <3>1 DEF CreateGroup, Shape
  <2>3. ram' = [c EXCEPT !.handlers = {"boot_wifi", "boot_ip"}, !.main = "get_sta"]
        /\ ram.main = "register"
    BY <1>4, <2>2 DEF Register, Main, Works, Shape
  <2> HIDE DEF c
  <2>4. /\ ram'.main = "get_sta" /\ ram'.handlers = {"boot_wifi", "boot_ip"}
        /\ ram'.ended = ram.ended /\ ram'.events = ram.events
    BY <2>2, <2>3 DEF Shape
  <2>5. QED BY <2>3, <2>4 DEF WaitInv, WaitHasCause, Early, Calling
<1>5. CASE GetSta \/ DefaultName \/ DefaultPassword
  <2>1. /\ ram.main \in Calling /\ ram'.main \in Calling \ {"wait"}
        /\ ram'.ended = ram.ended /\ ram'.events = ram.events /\ ram'.handlers = ram.handlers
    BY <1>1, <1>5
       DEF GetSta, DefaultName, DefaultPassword, Default, Main, Works, Fails, Shape, Calling
  <2>2. QED BY <1>3, <2>1
<1>6. CASE StaStart
  <2>1. /\ ram' = [Post(Link(ram, "idle"), "STA_START") EXCEPT !.main = "wait"]
        /\ ram.main = "sta_start"
    BY <1>6 DEF StaStart, Main, Works
  <2>2. /\ ram'.main = "wait" /\ ram'.link = "idle" /\ ram'.ended = ram.ended
        /\ ram'.handlers = ram.handlers /\ ram'.events = Append(ram.events, "STA_START")
    BY <1>1, <2>1 DEF Post, Link, Shape
  <2>3. ram'.events \in Seq(Events) /\ Coming(ram', "STA_START")
    <3>1. ram.events \in Seq(Events)
      BY <2>1 DEF WaitInv, Early, Calling
    <3>2. "STA_START" \in Events
      BY DEF Events
    <3> DEFINE q == Append(ram.events, "STA_START")
    <3>3. q \in Seq(Events) /\ \E i \in DOMAIN q : q[i] = "STA_START"
      BY <3>1, <3>2, EventQueue
    <3>4. ram'.events = q
      BY <2>2
    <3> HIDE DEF q
    <3>5. QED BY <3>3, <3>4 DEF Coming
  <2>4. QED
    BY <2>1, <2>2, <2>3 DEF WaitInv, WaitHasCause, HasCause, Early, Calling
<1>7. CASE WaitBits \/ UnregisterIp \/ UnregisterWifi \/ DeleteGroup
  <2>1. ram'.main \notin Early
    <3>1. CASE DeleteGroup
      <4>1. Shape(DeleteGroupOf(ram))
        BY <1>1, GroupCalls DEF Same4
      <4>2. QED
        BY <3>1, <4>1 DEF DeleteGroup, Main, Works, Shape, Early, Calling, Starting
    <3>2. CASE WaitBits \/ UnregisterIp \/ UnregisterWifi
      BY <1>1, <3>2 DEF WaitBits, UnregisterIp, UnregisterWifi, Unregister, Main, Works,
                        Shape, Early, Calling, Starting
    <3>3. QED BY <1>7, <3>1, <3>2
  <2>2. QED BY <1>2, <2>1
<1>8. QED BY <1>4, <1>5, <1>6, <1>7 DEF WifiInit

\* The driver and the task of the event loop leave app_main where it is, unless
\* a handler panics.
LEMMA MainStays ==
  ASSUME Good(ram), Driver \/ EventLoop
  PROVE  ram'.main = ram.main \/ ram'.main = "panic"
<1>1. Shape(ram) /\ IsRam(ram)
  BY DEF Good, Shape, IsRam, Fields
<1>2. CASE Driver
  BY <1>1, <1>2, DriverSame DEF Same, Fields
<1>3. CASE Dispatch
  <2>1. DEFINE m == [ram EXCEPT !.events = Tail(@)]
  <2>2. IsRam(m) /\ m.main = ram.main
    BY <1>1 DEF IsRam, Fields
  <2>3. (\E e : BootEvent(e, m) \/ SmartConfigEvent(e, m)) \/ ram' = m
    BY <1>3 DEF Dispatch, Works
  <2> HIDE DEF m
  <2>4. QED BY <2>2, <2>3, HandlersSame DEF Same, Fields
<1>4. CASE StoreName \/ StorePassword
  BY <1>1, <1>4 DEF StoreName, StorePassword, Works, Fails, Shape
<1>5. CASE Reconnect
  <2>1. CASE ram.link = "off" /\ Works([ram EXCEPT !.main = "panic"])
    BY <1>1, <2>1 DEF Works, Shape
  <2>2. CASE ram.link # "off"
    <3>1. DEFINE m == IF ram.link = "idle" THEN ram ELSE Break(ram)
                 s == [name |-> ram.network, password |-> ram.network]
                 n == [m EXCEPT !.at = "idle", !.station = s]
    <3>2. IsRam(m) /\ m.main = ram.main
      BY <1>1, CallsSame DEF Same, Fields
    <3>3. ram' = Connect(n)
      BY <1>5, <2>2 DEF Reconnect, Works
    <3> HIDE DEF m, s
    <3>4. IsRam(n) /\ n.main = ram.main
      BY <3>2 DEF IsRam, Fields
    <3> HIDE DEF n
    <3>5. QED BY <3>3, <3>4, CallsSame DEF Same, Fields
  <2>3. QED BY <1>5, <2>1, <2>2 DEF Reconnect
<1>6. QED BY <1>2, <1>3, <1>4, <1>5 DEF EventLoop

\* The steps of the station, the others' included, which have not begun or
\* come later.
LEMMA StationWaits ==
  ASSUME Good(ram), FlashTypes, {"mode", "name", "password"} \subseteq DOMAIN flash, WaitInv,
         ram.main \in Early => ram.at = "idle", UNCHANGED wanted,
         WifiInit \/ Driver \/ EventLoop \/ SmartConfigTask \/ SmartConfigWifi
  PROVE  WaitInv'
<1>1. ASSUME ram'.main \notin Early PROVE WaitInv'
  BY <1>1 DEF WaitInv, WaitHasCause, Early, Calling
<1>2. CASE WifiInit
  BY <1>2, WifiInitWaits
<1>3. CASE Driver /\ ram.main \in Early
  <2>1. ram.events \in Seq(Events)
    BY <1>3 DEF WaitInv
  <2>2. QED
    BY <1>3, <2>1, DriverCause DEF WaitInv, WaitHasCause, WaitKept
<1>4. CASE EventLoop /\ ram.main \in Early
  BY <1>4, DispatchWaits
<1>5. CASE (Driver \/ EventLoop) /\ ram.main \notin Early
  BY <1>1, <1>5, MainStays DEF Early, Calling, Starting
<1>6. CASE SmartConfigTask \/ SmartConfigWifi
  <2>1. ram.main \notin Starting \cup Booting /\ IsRam(ram)
    BY <1>6 DEF Good, Guarded, Shape, SmartConfigTask, SmartConfigWifi, IsRam, Fields
  <2>2. ram'.main = ram.main \/ ram'.main = "panic"
    BY <1>6, <2>1, SmartConfigStation DEF Station
  <2>3. QED
    BY <1>1, <2>1, <2>2 DEF Early, Calling, Starting, Booting
<1>7. QED BY <1>2, <1>3, <1>4, <1>5, <1>6

\* Before the station and after it nobody waits.
LEMMA AroundWaits ==
  ASSUME Good(ram), WaitInv, NvsInit \/ SetTime \/ Keys \/ ram' = PowerOn
  PROVE  WaitInv'
<1>1. Shape(ram)
  BY DEF Good
<1>2. ASSUME ram'.main \notin Early PROVE WaitInv'
  BY <1>2 DEF WaitInv, WaitHasCause, Early, Calling
<1>3. CASE NvsInit
  <2>1. ram.main \in Starting
    BY <1>3 DEF NvsInit, FirstRun, Starting
  <2>2. ram'.main \in Starting \cup {"register", "offline"} /\ ram'.ended = ram.ended
        /\ ram'.events = ram.events
    BY <1>1, <1>3
       DEF NvsInit, NvsErase, NvsOpenFails, ModeFound, ModeNotFound, FirstRun, Boot,
           Works, Fails, Shape, Starting
  <2>3. QED BY <2>1, <2>2 DEF WaitInv, WaitHasCause, Early, Calling, Starting
<1>4. CASE SetTime
  <2>1. ram'.main = "online"
    BY <1>1, <1>4 DEF SetTime, Main, Works, Shape
  <2>2. QED BY <1>2, <2>1 DEF Early, Calling, Starting
<1>5. CASE Keys
  <2>1. ram.main \notin Early
    BY <1>5 DEF Keys, PressRec, StoreMode, PressMode, Up, Good, Guarded, Early, Calling,
                Starting, Booting
  <2>2. ram'.main = ram.main
    BY <1>1, <1>5 DEF Keys, PressRec, StoreMode, PressMode, Works, Fails, Shape
  <2>3. QED BY <1>2, <2>1, <2>2
<1>6. CASE ram' = PowerOn
  <2>1. ram'.main = "nvs_init" /\ ram'.ended = FALSE /\ ram'.events = <<>>
    BY <1>6 DEF PowerOn
  <2>2. QED BY <2>1 DEF WaitInv, WaitHasCause, Early, Calling
<1>7. QED BY <1>3, <1>4, <1>5, <1>6

\* The inductive invariant of the wait: up to its end only the handlers of the
\* boot are there, and they find their group (event_handler, wifi_init).
THEOREM WaitInvariant == Spec => []WaitInv
<1>1. Init => WaitInv
  <2>1. PowerOn.main = "nvs_init" /\ PowerOn.ended = FALSE /\ PowerOn.events = <<>>
    BY DEF PowerOn
  <2>2. <<>> \in Seq(Events)
    OBVIOUS
  <2>3. SUFFICES ASSUME ram = PowerOn PROVE WaitInv
    BY DEF Init
  <2>4. ram.main \notin Calling
    BY <2>1, <2>3 DEF Calling
  <2>5. ram.main # "wait"
    BY <2>1, <2>3
  <2>6. QED BY <2>1, <2>2, <2>3, <2>4, <2>5 DEF WaitInv, WaitHasCause
<1>2. ModeInv /\ StationInv /\ CredInv /\ WaitInv /\ [Next]_vars => WaitInv'
  <2>1. SUFFICES ASSUME ModeInv, StationInv, CredInv, WaitInv, [Next]_vars PROVE WaitInv'
    OBVIOUS
  <2>2. /\ Good(ram) /\ FlashTypes
        /\ {"mode", "name", "password"} \subseteq DOMAIN flash
        /\ ram.main \in Early => ram.at = "idle"
    BY <2>1 DEF ModeInv, StationInv, CredInv, Early, Calling, Booting
  <2>3. CASE NvsInit \/ SetTime \/ Keys \/ ram' = PowerOn
    BY <2>1, <2>2, <2>3, AroundWaits
  <2>4. CASE /\ WifiInit \/ Driver \/ EventLoop \/ SmartConfigTask \/ SmartConfigWifi
             /\ UNCHANGED wanted
    BY <2>1, <2>2, <2>4, StationWaits
  <2>5. CASE UNCHANGED vars
    BY <2>1, <2>5 DEF vars, WaitInv, WaitHasCause, HasCause, Coming
  <2>6. QED
    BY <2>1, <2>3, <2>4, <2>5 DEF Next, Working, Restart, Works, PowerCut, Panic, Crash
<1>3. QED BY ModeInvariant, StationInvariant, CredInvariant, <1>1, <1>2, PTL DEF Spec

\* wifi_init never waits for nothing, for any number of retries and troubles:
\* what is left to BootEnds is that the driver and the event loop go on.
THEOREM WaitsForSomething == Spec => []WaitHasCause
<1>1. WaitInv => WaitHasCause
  BY DEF WaitInv
<1>2. QED BY WaitInvariant, <1>1, PTL
=============================================================================
