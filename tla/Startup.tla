------------------------------ MODULE Startup ------------------------------
(***************************************************************************)
(* From power-on to the running machine and back (main/main.c, c_init.c,   *)
(* the REC key of c_offline.c): the mode in flash, app_main, the keys and  *)
(* the restarts, with the WiFi station of WifiStation.  Mode 1 is offline. *)
(*                                                                         *)
(* A restart empties the memory and keeps the flash, whatever the tasks    *)
(* were doing: after the REC key, after a power cut, and after a panic.    *)
(***************************************************************************)
EXTENDS WifiStation

CONSTANT
  Presses  \* bound: presses of the MODE key between two restarts

ASSUME StartupAssumption == Presses \in Nat

VARIABLE
  wanted   \* ghost: {}, or {the mode the REC key was pressed for}

vars == <<ram, flash, troubles, torn, wanted>>

Init ==
  /\ ram = PowerOn /\ flash = [mode |-> {}, name |-> 0, password |-> 0]
  /\ troubles = 0 /\ torn = FALSE /\ wanted = {}

-----------------------------------------------------------------------------
(* app_main                                                                *)

Boot(m) == [m EXCEPT !.main = IF m.system_mode = 1 THEN "offline" ELSE "register"]

\* nvs_flash_init wants the partition erased.
NvsErase ==
  /\ Fails(ram)
  /\ flash' = [mode |-> {}, name |-> 0, password |-> 0] /\ torn' = FALSE /\ wanted' = {}

\* nvs_open fails: system_mode is what it is after a restart.
NvsOpenFails == Fails(Boot(ram)) /\ UNCHANGED <<flash, torn, wanted>>

ModeFound ==
  /\ \E mode \in flash.mode : Works(Boot([ram EXCEPT !.system_mode = mode]))
  /\ UNCHANGED <<flash, torn, wanted>>

\* ESP_ERR_NVS_NOT_FOUND
ModeNotFound ==
  /\ flash.mode = {}
  /\ Works([ram EXCEPT !.system_mode = 0, !.main = "first_run"])
  /\ UNCHANGED <<flash, torn, wanted>>

StoredMode == flash' = [flash EXCEPT !.mode = {ram.system_mode}]

FirstRun ==
  /\ ram.main = "first_run"
  /\ (Works(Boot(ram)) /\ StoredMode) \/ (Fails(Boot(ram)) /\ UNCHANGED flash)
  /\ UNCHANGED <<torn, wanted>>

NvsInit ==
  \/ ram.main = "nvs_init" /\ (NvsErase \/ NvsOpenFails \/ ModeFound \/ ModeNotFound)
  \/ FirstRun

\* set_time waits ten seconds at most.  Then peripherals_init serves the keys,
\* and with the token and the recorder notice and the web server run.
SetTime == Main("set_time", "online", ram) /\ UNCHANGED <<flash, torn, wanted>>

-----------------------------------------------------------------------------
(* The keys                                                                *)

Running == IF ram.main = "offline" THEN 1 ELSE 0

\* The constant that the callback of the running mode has for the other one.
Other == 1 - Running

Up == ram.main \in {"online", "offline"}

PressRec ==
  /\ Up /\ ram.key = "idle"
  /\ \/ /\ Works([ram EXCEPT !.key = "store_mode", !.system_mode = Other])
        /\ wanted' = {Other}
     \/ Fails([ram EXCEPT !.key = "restart"]) /\ wanted' = {}
  /\ UNCHANGED <<flash, torn>>

\* Mutant of StoreMode: the mode is not stored.
StoreModeForgotten ==
  /\ ram.key = "store_mode" /\ Works([ram EXCEPT !.key = "restart"])
  /\ UNCHANGED <<flash, torn, wanted>>

StoreMode ==
  /\ ram.key = "store_mode"
  /\ LET m == [ram EXCEPT !.key = "restart"]
     IN \/ Works(m) /\ StoredMode /\ UNCHANGED wanted
        \/ Fails(m) /\ wanted' = {} /\ UNCHANGED flash
  /\ UNCHANGED torn

PressMode ==
  /\ ram.main = "online" /\ ram.key = "idle" /\ ram.presses < Presses
  /\ Works([ram EXCEPT !.key = "smartconfig", !.presses = @ + 1])
  /\ UNCHANGED <<flash, torn, wanted>>

Keys == PressRec \/ StoreMode \/ PressMode

-----------------------------------------------------------------------------
(* The restarts                                                            *)

Restart ==
  /\ ram.key = "restart" /\ Works(PowerOn)
  /\ UNCHANGED <<flash, torn, wanted>>

\* A mode that was not stored by then is not wanted any more.
Crash ==
  /\ ram' = PowerOn /\ UNCHANGED <<flash, torn>>
  /\ wanted' = IF ram.key = "store_mode" THEN {} ELSE wanted

PowerCut == Trouble /\ Crash

\* notice is due, and tests the mode of the key instead of the one that runs:
\* the event group of the other mode does not exist.  The use of a deleted
\* event group may end in a panic too.
Panic ==
  /\ (Up /\ ram.system_mode = Other) \/ ram.misuse \/ ram.main = "panic"
  /\ Crash /\ UNCHANGED troubles

-----------------------------------------------------------------------------
Working ==
  \/ NvsInit \/ SetTime \/ Keys \/ Restart
  \/ /\ WifiInit \/ Driver \/ EventLoop \/ SmartConfigTask \/ SmartConfigWifi
     /\ UNCHANGED wanted

\* Of a panic, and of the use of a deleted group, only the end is modelled.
Next == (ram.main # "panic" /\ ~ram.misuse /\ Working) \/ PowerCut \/ Panic

\* The tasks of the system run; the driver says how a connection ended.
Spec ==
  /\ Init /\ [][Next]_vars
  /\ WF_vars(WifiInit /\ UNCHANGED wanted)
  /\ WF_vars(EventLoop /\ UNCHANGED wanted)
  /\ WF_vars((Joins \/ GetsAddress) /\ UNCHANGED <<flash, torn, wanted>>)

-----------------------------------------------------------------------------
(* What holds                                                              *)

\* The variables that count, and name a mode or a network, stay in their range.
TypeOK ==
  /\ ram.system_mode \in {0, 1} /\ flash.mode \cup wanted \subseteq {0, 1}
  /\ ram.retry \in 0 .. ESP_MAXIMUM_RETRY
  /\ ram.network \in 1 .. Networks
  /\ {ram.station.name, ram.station.password, flash.name, flash.password}
       \subseteq 0 .. Networks
  /\ ram.group = Len(ram.bits) /\ ram.alive \subseteq 1 .. ram.group
  /\ ram.presses \in 0 .. Presses /\ troubles \in 0 .. Troubles

\* The machine comes up in the mode the REC key asked for, whatever happens
\* between the press and that: power cuts, panics, restarts during SmartConfig.
\* Only a mode that could not be stored in time is forgotten (c_init.c 95-109,
\* c_offline.c 44-58, nvs_init).
PressDecides ==
  Up /\ ram.key = "idle" /\ ~ram.misread => \A mode \in wanted : Running = mode

\* Until SmartConfig has ended, nobody uses an event group that was deleted:
\* not the handlers of the boot, which wifi_init unregisters before it deletes
\* theirs, nor those of SmartConfig, whose handle a new run replaces.
GroupAlive == ram.misuse => ram.ended

\* wifi_init starts with the name of one network and the password of another
\* only if of the last credentials of SmartConfig one half was not stored, for a
\* power cut or an error of NVS that nobody looks at, or if NVS fails now:
\* half-written defaults are found and completed, after any power cut
\* (nvs_get_sta and nvs_set_sta, c_wifi_setting.c 50-96).
CredentialsBelong ==
  ram.main = "sta_start" /\ ~torn /\ ~ram.misread
    => /\ ram.station.name = ram.station.password
       /\ ram.station = [name |-> flash.name, password |-> flash.password]

\* Something will set a bit of the group: an association under way, or an event
\* on its way to the handler that connects, gives up, or reports the address.
Coming(m, e) == \E i \in DOMAIN m.events : m.events[i] = e

HasCause(m) ==
  \/ m.link \in {"joining", "joined"}
  \/ m.link = "idle" /\ (Coming(m, "STA_START") \/ Coming(m, "DISCONNECTED"))
  \/ m.link = "up" /\ Coming(m, "GOT_IP")

\* wifi_init, which waits for a bit of the group without a timeout, never waits
\* for nothing, if it got a name to connect to: no event is dispatched before
\* its handlers are there, and none is used up without a bit or a new try
\* (c_wifi_setting.c 28-48, 134-182).
WaitHasCause ==
  ram.main = "wait" /\ ram.station.name # 0 /\ ram.bits[ram.group] = {} => HasCause(ram)

\* wifi_init goes on once the station is up or has used its retries, if it got
\* a name to connect to (event_handler, c_wifi_setting.c 161-167).
BootEnds == (ram.main = "wait" /\ ram.station.name # 0) ~> (ram.main # "wait")

\* nvs_init on its first run: "Init offline mode!" (c_init.c 39).
FirstRunIsOffline ==
  [][ram.main = "first_run" /\ ram'.main # "nvs_init" => ram'.main = "offline"]_vars
=============================================================================
