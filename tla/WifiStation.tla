---------------------------- MODULE WifiStation ----------------------------
(***************************************************************************)
(* The WiFi station (main/c_wifi_setting.c): the credentials in flash, the *)
(* connection wifi_init waits for at boot, and SmartConfig.                *)
(*                                                                         *)
(* The driver posts events, and the task of the default event loop calls   *)
(* the registered handlers one event at a time; handlers and waiting tasks *)
(* meet in an event group, of which s_wifi_event_group is the only handle: *)
(* each run of smartconfig_wifi makes a new group.  Operators on a memory  *)
(* m give the memory after a call.  Startup puts the steps together.       *)
(***************************************************************************)
EXTENDS Naturals, Sequences

CONSTANTS
  ESP_MAXIMUM_RETRY,
  Networks,  \* 1 is the default, 2 .. Networks those a phone may send
  Troubles   \* bound: lost connections, failures of NVS and power cuts

ASSUME StationAssumption ==
  ESP_MAXIMUM_RETRY \in Nat /\ Networks \in Nat \ {0, 1} /\ Troubles \in Nat

VARIABLES
  ram,      \* what a restart loses: see PowerOn
  flash,    \* [mode, name, password]; mode is a set, name and password 0 if not there
  troubles, \* how many of the Troubles there were
  torn      \* ghost: of the last credentials of SmartConfig a half was not stored

PowerOn == [
  main |-> "nvs_init",  \* where app_main is
  key |-> "idle",       \* where the task that serves the keys is
  system_mode |-> 0,
  presses |-> 0,        \* of the MODE key
  group |-> 0,          \* s_wifi_event_group
  bits |-> <<>>,        \* of each group
  alive |-> {},         \* the groups that are not deleted
  handlers |-> {}, events |-> <<>>,   \* of the event loop
  at |-> "idle",        \* where its task is in wifi_event_handler
  retry |-> 0,          \* s_retry_num
  link |-> "off",       \* the driver's connection
  station |-> [name |-> 0, password |-> 0],  \* the driver's configuration
  esptouch |-> "off",   \* the SmartConfig library
  network |-> 1,        \* what the event of a phone's credentials carried
  tasks |-> <<>>,       \* the smartconfig_tasks: [at, on], on the group it waits for
  misuse |-> FALSE,     \* ghost: a deleted group was used
  ended |-> FALSE,      \* ghost: SmartConfig came to its end
  misread |-> FALSE ]   \* ghost: NVS failed

Trouble  == troubles < Troubles /\ troubles' = troubles + 1
Works(m) == ram' = m /\ UNCHANGED troubles
\* NVS returns an error in the step to m.
Fails(m) == ram' = [m EXCEPT !.misread = TRUE] /\ Trouble

-----------------------------------------------------------------------------
(* The driver                                                              *)

Post(m, e) == [m EXCEPT !.events = Append(@, e)]
Link(m, l) == [m EXCEPT !.link = l]
Break(m)   == Post(Link(m, "idle"), "DISCONNECTED")

Joins == ram.link = "joining" /\ (Works(Link(ram, "joined")) \/ Works(Break(ram)))

\* An association brings an address, or breaks.
GetsAddress ==
  ram.link = "joined" /\ (Works(Post(Link(ram, "up"), "GOT_IP")) \/ Works(Break(ram)))

Breaks == ram.link = "up" /\ ram' = Break(ram) /\ Trouble

\* A phone sends credentials, and is told when they have worked.
Esptouch ==
  \/ /\ ram.esptouch = "listening" /\ ram.link # "off"
     /\ Works(Post([ram EXCEPT !.esptouch = "got"], "GOT_SSID_PSWD"))
  \/ /\ ram.esptouch = "got" /\ ram.link = "up"
     /\ Works(Post([ram EXCEPT !.esptouch = "acked"], "SEND_ACK_DONE"))

Driver == (Joins \/ GetsAddress \/ Breaks \/ Esptouch) /\ UNCHANGED <<flash, torn>>

-----------------------------------------------------------------------------
(* The event group.  A waiting task takes the bits as they are set; after  *)
(* the use of a deleted group nothing is promised.                         *)

Waiters(m) == {i \in DOMAIN m.tasks : m.tasks[i].at = "wait" /\ m.tasks[i].on = m.group}

Wake(m, at) ==
  [m EXCEPT !.tasks = [i \in DOMAIN @ |->
     IF i \in Waiters(m) THEN [@[i] EXCEPT !.at = at] ELSE @[i]]]

SetBit(m, b) ==
  IF m.group \notin m.alive THEN [m EXCEPT !.misuse = TRUE]
  ELSE IF Waiters(m) # {} THEN Wake(m, IF b = "BIT1" THEN "stop" ELSE "loop")
  ELSE [m EXCEPT !.bits[m.group] = @ \cup {b}]

ClearBit(m, b) ==
  IF m.group \notin m.alive THEN [m EXCEPT !.misuse = TRUE]
                            ELSE [m EXCEPT !.bits[m.group] = @ \ {b}]

CreateGroup(m) ==
  LET g == m.group + 1
  IN [m EXCEPT !.group = g, !.bits = Append(@, {}), !.alive = @ \cup {g}]

DeleteGroupOf(m) == [Wake(m, "loop") EXCEPT !.alive = @ \ {m.group}, !.bits[m.group] = {}]

-----------------------------------------------------------------------------
(* The handlers                                                            *)

\* esp_wifi_connect; without a name it returns an error nobody looks at.
Connect(m) == IF m.link = "idle" /\ m.station.name # 0 THEN Link(m, "joining") ELSE m

\* Mutant of MayRetry: one try too many.
MayRetryOnceMore == ram.retry <= ESP_MAXIMUM_RETRY

MayRetry == ram.retry < ESP_MAXIMUM_RETRY

\* Mutant of Retry: the try is counted, and not made.
RetryUnconnected(m) == [m EXCEPT !.retry = @ + 1]

\* Mutant of Retry: the tries are not counted.
RetryForEver(m) == Connect(m)

Retry(m) == [Connect(m) EXCEPT !.retry = @ + 1]

\* event_handler, of the boot: BIT0 is connected, BIT1 has failed.
BootEvent(e, m) ==
  \/ /\ "boot_wifi" \in m.handlers
     /\ \/ e = "STA_START" /\ Works(Connect(m))
        \/ e = "DISCONNECTED" /\ MayRetry /\ Works(Retry(m))
        \/ e = "DISCONNECTED" /\ ~MayRetry /\ Works(SetBit(m, "BIT1"))
  \/ /\ "boot_ip" \in m.handlers
     /\ e = "GOT_IP" /\ Works(SetBit([m EXCEPT !.retry = 0], "BIT0"))

\* wifi_event_handler: BIT0 is connected, BIT1 is done.
SmartConfigEvent(e, m) ==
  /\ "smartconfig" \in m.handlers
  /\ \/ e = "STA_START" /\ Works([m EXCEPT !.tasks = Append(@, [at |-> "start", on |-> 0])])
     \/ e = "DISCONNECTED" /\ Works(ClearBit(Connect(m), "BIT0"))
     \/ e = "GOT_IP" /\ Works(SetBit(m, "BIT0"))
     \/ e = "SEND_ACK_DONE" /\ Works(SetBit(m, "BIT1"))
     \/ /\ e = "GOT_SSID_PSWD"
        /\ \E n \in 2 .. Networks : Works([m EXCEPT !.at = "name", !.network = n])

Handled(e) ==
  \/ "smartconfig" \in ram.handlers
  \/ e \in {"STA_START", "DISCONNECTED"} /\ "boot_wifi" \in ram.handlers
  \/ e = "GOT_IP" /\ "boot_ip" \in ram.handlers

Dispatch ==
  /\ ram.at = "idle" /\ ram.events # <<>>
  /\ LET e == Head(ram.events)
         m == [ram EXCEPT !.events = Tail(@)]
     IN BootEvent(e, m) \/ SmartConfigEvent(e, m) \/ (~Handled(e) /\ Works(m))
  /\ UNCHANGED <<flash, torn>>

\* nvs_set_sta writes one string after the other, if it can open NVS.  It does
\* not look at the results: without the name the password is stored all the same.
StoreName ==
  /\ ram.at = "name"
  /\ \/ Fails([ram EXCEPT !.at = "connect"]) /\ UNCHANGED <<flash, torn>>
     \/ /\ torn' = TRUE
        /\ \/ /\ Works([ram EXCEPT !.at = "password"])
              /\ flash' = [flash EXCEPT !.name = ram.network]
           \/ Fails([ram EXCEPT !.at = "password_only"]) /\ UNCHANGED flash

\* The credentials are there if both strings were stored.
StorePassword ==
  /\ ram.at \in {"password", "password_only"}
  /\ LET m == [ram EXCEPT !.at = "connect"]
     IN \/ /\ Works(m)
           /\ flash' = [flash EXCEPT !.password = ram.network]
           /\ torn' = (ram.at = "password_only")
        \/ Fails(m) /\ UNCHANGED <<flash, torn>>

\* esp_wifi_disconnect, which panics on a driver that was stopped,
\* esp_wifi_set_config, esp_wifi_connect.
Reconnect ==
  /\ ram.at = "connect"
  /\ \/ ram.link = "off" /\ Works([ram EXCEPT !.main = "panic"])
     \/ /\ ram.link # "off"
        /\ LET m == IF ram.link = "idle" THEN ram ELSE Break(ram)
               s == [name |-> ram.network, password |-> ram.network]
           IN Works(Connect([m EXCEPT !.at = "idle", !.station = s]))
  /\ UNCHANGED <<flash, torn>>

EventLoop == Dispatch \/ StoreName \/ StorePassword \/ Reconnect

-----------------------------------------------------------------------------
(* SmartConfig                                                             *)

\* esp_smartconfig_start must not be called twice: the error is a panic.
ScStart(i) ==
  /\ ram.tasks[i].at = "start"
  /\ \/ /\ ram.esptouch = "off"
        /\ Works([ram EXCEPT !.esptouch = "listening", !.tasks[i].at = "loop"])
     \/ ram.esptouch # "off" /\ Works([ram EXCEPT !.main = "panic"])

\* xEventGroupWaitBits takes the bits that are there, or waits for one.
ScWait(i) ==
  /\ ram.tasks[i].at = "loop"
  /\ \/ /\ ram.group \notin ram.alive /\ Works([ram EXCEPT !.misuse = TRUE])
     \/ LET got == ram.bits[ram.group]
            at  == IF "BIT1" \in got THEN "stop" ELSE "loop"
        IN /\ ram.group \in ram.alive
           /\ Works([ram EXCEPT !.bits[ram.group] = {}, !.tasks[i] =
                IF got = {} THEN [at |-> "wait", on |-> ram.group] ELSE [@ EXCEPT !.at = at]])

ScStop(i) ==
  /\ ram.tasks[i].at = "stop"
  /\ Works([ram EXCEPT !.esptouch = "off", !.tasks[i].at = "delete"])

\* It deletes the group of the handle, which need not be the one it waited for.
ScDelete(i) ==
  /\ ram.tasks[i].at = "delete"
  /\ Works([DeleteGroupOf(ram) EXCEPT !.tasks[i] = [at |-> "gone", on |-> 0],
              !.ended = TRUE, !.misuse = ram.group \notin ram.alive])

SmartConfigTask ==
  /\ \E i \in DOMAIN ram.tasks : ScStart(i) \/ ScWait(i) \/ ScStop(i) \/ ScDelete(i)
  /\ UNCHANGED <<flash, torn>>

\* smartconfig_wifi, in the task of the keys: the driver is stopped and started.
SmartConfigWifi ==
  /\ \/ ram.key = "smartconfig" /\ Works([CreateGroup(ram) EXCEPT !.key = "wifi_stop"])
     \/ /\ ram.key = "wifi_stop"
        /\ LET m == IF ram.link = "idle" THEN ram ELSE Break(ram)
           IN Works([Link(m, "off") EXCEPT !.key = "wifi_start"])
     \/ /\ ram.key = "wifi_start"
        /\ Works([Post(Link(ram, "idle"), "STA_START") EXCEPT
                    !.key = "idle", !.handlers = @ \cup {"smartconfig"}])
  /\ UNCHANGED <<flash, torn>>

-----------------------------------------------------------------------------
(* wifi_init as a station                                                  *)

Main(from, to, m) == ram.main = from /\ Works([m EXCEPT !.main = to])

Register == Main("register", "get_sta",
                 [CreateGroup(ram) EXCEPT !.handlers = {"boot_wifi", "boot_ip"}])

\* Mutant of NotFound: only the name is looked for.
NotFoundByName == flash.name = 0

\* ESP_ERR_NVS_NOT_FOUND
NotFound == flash.name = 0 \/ flash.password = 0

\* nvs_get_sta; if NVS fails the driver gets what could be read.
GetSta ==
  \/ ~NotFound /\ Main("get_sta", "sta_start",
       [ram EXCEPT !.station = [name |-> flash.name, password |-> flash.password]])
  \/ NotFound /\ Main("get_sta", "default_name", ram)
  \/ /\ ram.main = "get_sta"
     /\ \E n \in {0, flash.name}, p \in {0, flash.password} :
          Fails([ram EXCEPT !.main = "sta_start", !.station = [name |-> n, password |-> p]])

\* The default is used, and stored if NVS lets it.
Default(from, to, stored, station) ==
  /\ ram.main = from
  /\ LET m == [ram EXCEPT !.main = to, !.station = station]
     IN \/ Works(m) /\ flash' = stored
        \/ Fails(m) /\ UNCHANGED flash
DefaultName == Default("default_name", "default_password",
                       [flash EXCEPT !.name = 1], ram.station)
DefaultPassword == Default("default_password", "sta_start",
                           [flash EXCEPT !.password = 1], [name |-> 1, password |-> 1])

StaStart == Main("sta_start", "wait", Post(Link(ram, "idle"), "STA_START"))
WaitBits == ram.main = "wait" /\ ram.bits[ram.group] # {} /\ Main("wait", "unregister_ip", ram)

\* It takes the lock of the event loop, and so waits for the handlers.
Unregister(h) == [ram EXCEPT !.handlers = @ \ {h}]

UnregisterIp ==
  ram.at = "idle" /\ Main("unregister_ip", "unregister_wifi", Unregister("boot_ip"))

\* Mutant of UnregisterWifi: the handler stays registered.
UnregisterWifiForgotten == Main("unregister_wifi", "delete_group", ram)

UnregisterWifi ==
  ram.at = "idle" /\ Main("unregister_wifi", "delete_group", Unregister("boot_wifi"))

DeleteGroup == Main("delete_group", "set_time", DeleteGroupOf(ram))

WifiInit ==
  /\ \/ DefaultName \/ DefaultPassword
     \/ /\ \/ Register \/ GetSta \/ StaStart \/ WaitBits
           \/ UnregisterIp \/ UnregisterWifi \/ DeleteGroup
        /\ UNCHANGED flash
  /\ UNCHANGED torn
=============================================================================
