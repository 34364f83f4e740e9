--------------------------- MODULE WifiOnboarding ---------------------------
(***************************************************************************)
(* How the device gets onto a network (runtime.c).  A boot chooses between *)
(* station mode, an access point with the admin UI, and BLE provisioning.  *)
(* Operators submit credentials through the admin server, the console or a *)
(* phone; the Wi-Fi driver posts events that one task handles in order.    *)
(* A step is a boot, an event handler, or one driver call of a join.       *)
(*                                                                         *)
(* The driver, the BLE provisioning manager and the networks around are    *)
(* external: the driver refuses to dial while it dials or is connected,    *)
(* may refuse at any other time, which posts no event, and an attempt      *)
(* succeeds exactly when the network is in reach and accepts the           *)
(* credentials.  An event handler is one step: a thread it preempts reads  *)
(* what it assigns before or after it, and its own calls come last.        *)
(* Clearing the provider's credentials, which precedes a factory reset,    *)
(* the scan and the names of networks are left out.                        *)
(***************************************************************************)
EXTENDS Naturals, Sequences

CONSTANTS
  Callers,     \* threads that call espclaw_runtime_wifi_join
  Credentials, \* what an operator may submit: an ssid with a password
  Valid,       \* those that a network nearby accepts
  Erased,      \* no credentials in the flash of the driver
  MaxJoins,    \* bound: credentials submitted in a behaviour
  MaxFaults,   \* bound: driver calls that fail
  MaxOutages,  \* bound: times the network goes out of reach
  MaxRestarts  \* bound: restarts and factory resets

ASSUME WifiAssumption ==
  /\ Valid \subseteq Credentials /\ Erased \notin Credentials
  /\ {MaxJoins, MaxFaults, MaxOutages, MaxRestarts} \subseteq Nat

VARIABLES
  board,   \* is it an ESP32-CAM, is Bluetooth in the build
  path,    \* the branch the last boot took, or "off"
  saved,   \* the credentials in flash
  wifi,    \* the driver: its mode, the link of the station, what it dials with, and
           \* whether it refused to when it was last free to dial (history)
  flags,   \* what runtime.c remembers of all this
  service, \* the provisioning manager: "off", "on" or "joining"
  events,  \* posted and not handled yet
  caller,  \* caller -> where it stands in espclaw_runtime_wifi_join
  reset,   \* where a factory reset stands
  inReach, \* can the network be heard
  past,    \* what happened that explains the state (history)
  used     \* joins, faults, outages and restarts so far

wifiVars == <<board, path, saved, wifi, flags, service, events, caller, reset, inReach, past, used>>

Idle == [pc |-> "idle"]
Silent == [mode |-> "off", link |-> "down", dials |-> Erased, refused |-> FALSE]
Forgotten == [connect |-> FALSE, softap |-> FALSE, ble |-> FALSE, provisioning |-> FALSE, ready |-> FALSE]

WifiInit ==
  /\ board \in [camera : BOOLEAN, bluetooth : BOOLEAN]
  /\ path = "off" /\ saved = Erased /\ wifi = Silent /\ flags = Forgotten /\ service = "off" /\ events = <<>>
  /\ caller = [c \in Callers |-> Idle] /\ reset = "no" /\ inReach = TRUE
  /\ past = [joined |-> FALSE, crossed |-> FALSE, failed |-> FALSE]
  /\ used = [joins |-> 0, faults |-> 0, outages |-> 0, restarts |-> 0]

Use(what, most) == used[what] < most /\ used' = [used EXCEPT ![what] = @ + 1]

\* A driver call that may fail.
Fault == Use("faults", MaxFaults)
HasStation(w) == w.mode \in {"sta", "apsta"}
HasAccessPoint(w) == w.mode \in {"ap", "apsta"}

\* esp_wifi_connect: nobody makes up for a call that fails.
Dial(w) ==
  IF HasStation(w) /\ w.link = "down" /\ saved # Erased
    THEN [w EXCEPT !.link = "dialing", !.dials = saved, !.refused = FALSE] ELSE w
Connect ==
  \/ wifi' = Dial(wifi) /\ UNCHANGED used
  \/ Dial(wifi) # wifi /\ Fault /\ wifi' = [wifi EXCEPT !.refused = TRUE]

(* Boot *)

\* Credentials are saved: station mode.
StartStation ==
  /\ path' = "station"
  /\ wifi' = [Silent EXCEPT !.mode = "sta"] /\ events' = <<"started">>
  /\ flags' = [Forgotten EXCEPT !.connect = TRUE]
  /\ UNCHANGED service

StartAccessPoint(alone) ==
  /\ path' = "softap"
  /\ wifi' = [Silent EXCEPT !.mode = IF alone THEN "ap" ELSE "apsta"]
  /\ events' = IF alone THEN <<>> ELSE <<"started">>
  /\ flags' = [Forgotten EXCEPT !.softap = TRUE, !.provisioning = TRUE]
  /\ UNCHANGED service

\* The provisioning manager starts the station and advertises itself.
StartBluetooth ==
  /\ path' = "ble" /\ service' = "on"
  /\ wifi' = [Silent EXCEPT !.mode = "sta"] /\ events' = <<"provisioning", "started">>
  /\ flags' = Forgotten

\* An ESP32-CAM without its card starts no station unless it has credentials.
\* Mutant: it starts nothing at all.
Boot_Deferred ==
  /\ path = "off"
  /\ \E storage \in BOOLEAN :
       \/ saved # Erased /\ StartStation
       \/ saved = Erased /\ board.camera /\ ~storage
          /\ path' = "softap" /\ UNCHANGED <<wifi, events, flags, service>>
       \/ saved = Erased /\ board.bluetooth /\ ~board.camera /\ StartBluetooth
       \/ saved = Erased /\ (board.camera => storage) /\ ~(board.bluetooth /\ ~board.camera)
          /\ StartAccessPoint(FALSE)
  /\ UNCHANGED <<board, saved, caller, reset, inReach, past, used>>

Boot ==
  /\ path = "off"
  /\ \E storage \in BOOLEAN :
       \/ saved # Erased /\ StartStation
       \/ saved = Erased /\ board.camera /\ ~storage /\ StartAccessPoint(TRUE)
       \/ saved = Erased /\ board.bluetooth /\ ~board.camera /\ StartBluetooth
       \/ saved = Erased /\ (board.camera => storage) /\ ~(board.bluetooth /\ ~board.camera)
          /\ StartAccessPoint(FALSE)
  /\ UNCHANGED <<board, saved, caller, reset, inReach, past, used>>

\* What a restart leaves: the flash.
Off ==
  /\ path' = "off" /\ wifi' = Silent /\ flags' = Forgotten /\ service' = "off" /\ events' = <<>>
  /\ caller' = [c \in Callers |-> Idle] /\ reset' = "no"
  /\ past' = [past EXCEPT !.crossed = FALSE, !.failed = FALSE]

Restart ==
  /\ path # "off" /\ Use("restarts", MaxRestarts) /\ Off
  /\ UNCHANGED <<board, saved, inReach>>

(* Event handlers *)

Take(event) == events # <<>> /\ Head(events) = event /\ events' = Tail(events)
Redial == IF flags.connect THEN Connect ELSE UNCHANGED <<wifi, used>>
Cleared == [flags EXCEPT !.softap = FALSE, !.ble = FALSE, !.provisioning = FALSE]
Handled == UNCHANGED <<board, path, saved, caller, reset, inReach>>

StationStarted ==
  /\ Take("started") /\ Redial
  /\ UNCHANGED <<flags, service, past>> /\ Handled

\* Mutant: it does not dial again.
StationLost_GivesUp ==
  /\ Take("lost") /\ flags' = [flags EXCEPT !.ready = FALSE]
  /\ UNCHANGED <<wifi, service, past, used>> /\ Handled

StationLost ==
  /\ Take("lost") /\ Redial
  /\ flags' = [flags EXCEPT !.ready = FALSE]
  /\ UNCHANGED <<service, past>> /\ Handled

\* The access point goes down; a failing driver call is only logged.
\* Mutant: the access point stays.
StationGotIp_KeepsAccessPoint ==
  /\ Take("address")
  /\ flags' = [IF flags.softap THEN Cleared ELSE flags EXCEPT !.ready = TRUE]
  /\ UNCHANGED <<wifi, service, past, used>> /\ Handled

StationGotIp ==
  /\ Take("address")
  /\ flags' = [IF flags.softap THEN Cleared ELSE flags EXCEPT !.ready = TRUE]
  /\ \/ flags.softap /\ wifi' = [wifi EXCEPT !.mode = "sta"] /\ UNCHANGED <<past, used>>
     \/ flags.softap /\ Fault /\ past' = [past EXCEPT !.failed = TRUE] /\ UNCHANGED wifi
     \/ ~flags.softap /\ UNCHANGED <<wifi, past, used>>
  /\ UNCHANGED service /\ Handled

ProvisioningStarted ==
  /\ Take("provisioning")
  /\ flags' = [flags EXCEPT !.ble = TRUE, !.provisioning = TRUE]
  /\ UNCHANGED <<wifi, service, past, used>> /\ Handled

ProvisioningEnded ==
  /\ Take("provisioned") /\ flags' = Cleared /\ service' = "off"
  /\ UNCHANGED <<wifi, past, used>> /\ Handled

(* espclaw_runtime_wifi_join *)

\* Credentials reach the provisioning manager, which saves them and dials.
Provision(n) ==
  /\ service = "on" /\ wifi.link = "down"
  /\ service' = "joining" /\ saved' = n
  /\ wifi' = [wifi EXCEPT !.link = "dialing", !.dials = n]

SubmitByPhone(n) ==
  /\ Use("joins", MaxJoins) /\ Provision(n)
  /\ UNCHANGED <<board, path, flags, events, caller, reset, inReach, past>>

\* The mode is chosen before the driver is called.
JoinBegin(c, n) ==
  /\ path # "off" /\ caller[c] = Idle /\ Use("joins", MaxJoins)
  /\ IF flags.provisioning /\ flags.ble
       THEN /\ Provision(n) \/ UNCHANGED <<service, saved, wifi>>
            /\ UNCHANGED <<flags, caller>>
       ELSE /\ flags' = [flags EXCEPT !.connect = TRUE]
            /\ caller' = [caller EXCEPT ![c] = [pc |-> "mode", with |-> n, softap |-> flags.softap]]
            /\ UNCHANGED <<service, saved, wifi>>
  /\ UNCHANGED <<board, path, events, reset, inReach, past>>

At(c, pc) == caller[c].pc = pc
Go(c, pc) == caller' = [caller EXCEPT ![c].pc = pc]
Answer(c) == caller' = [caller EXCEPT ![c] = Idle]
Joins == UNCHANGED <<board, path, flags, service, reset, inReach>>

\* Raising the station makes the driver post that it has started.
JoinMode(c) ==
  /\ At(c, "mode")
  /\ \/ /\ Go(c, "config")
        /\ wifi' = IF wifi.mode = "off" THEN wifi
                     ELSE [wifi EXCEPT !.mode = IF caller[c].softap THEN "apsta" ELSE "sta"]
        /\ events' = IF wifi.mode = "ap" THEN Append(events, "started") ELSE events
        /\ past' = [past EXCEPT !.crossed = @ \/ caller[c].softap # flags.softap]
        /\ UNCHANGED used
     \/ Fault /\ Answer(c) /\ UNCHANGED <<wifi, events, past>>
  /\ UNCHANGED saved /\ Joins

\* The driver may refuse while it dials.
JoinConfig(c) ==
  /\ At(c, "config")
  /\ \/ saved' = caller[c].with /\ Go(c, "connect") /\ UNCHANGED used
     \/ wifi.link = "dialing" /\ Answer(c) /\ UNCHANGED <<saved, used>>
     \/ Fault /\ Answer(c) /\ UNCHANGED saved
  /\ UNCHANGED <<wifi, events, past>> /\ Joins

\* The credentials stay saved when it fails.
JoinConnect(c) ==
  /\ At(c, "connect") /\ Answer(c) /\ Connect
  /\ UNCHANGED <<saved, events, past>> /\ Joins

(* espclaw_runtime_factory_reset *)

Hangs(w) == IF w.link = "down" THEN events ELSE Append(events, "lost")

ResetStop ==
  /\ path # "off" /\ reset = "no" /\ Use("restarts", MaxRestarts)
  /\ reset' = "restore" /\ wifi' = Silent /\ events' = Hangs(wifi)
  /\ UNCHANGED <<board, path, saved, flags, service, caller, inReach, past>>

ResetRestore ==
  /\ reset = "restore" /\ reset' = "restart"
  /\ saved' = Erased /\ flags' = [Cleared EXCEPT !.ready = FALSE]
  /\ past' = [past EXCEPT !.joined = FALSE]
  /\ UNCHANGED <<board, path, wifi, service, events, caller, inReach, used>>

ResetRestart ==
  /\ reset = "restart" /\ Off
  /\ UNCHANGED <<board, saved, inReach, used>>

(* The driver and the world *)

Accepted == inReach /\ wifi.dials \in Valid
World == UNCHANGED <<board, path, saved, flags, caller, reset>>

Associate ==
  /\ wifi.link = "dialing" /\ Accepted
  /\ wifi' = [wifi EXCEPT !.link = "up"]
  /\ events' = events \o IF service = "joining" THEN <<"address", "provisioned">> ELSE <<"address">>
  /\ past' = [past EXCEPT !.joined = TRUE]
  /\ UNCHANGED <<service, inReach, used>> /\ World

Refuse ==
  /\ wifi.link = "dialing" /\ ~Accepted
  /\ wifi' = [wifi EXCEPT !.link = "down"] /\ events' = Append(events, "lost")
  /\ service' = IF service = "joining" THEN "on" ELSE service
  /\ UNCHANGED <<inReach, past, used>> /\ World

GoOutOfReach ==
  /\ inReach /\ inReach' = FALSE /\ Use("outages", MaxOutages)
  /\ IF wifi.link = "up"
       THEN wifi' = [wifi EXCEPT !.link = "down"] /\ events' = Append(events, "lost")
       ELSE UNCHANGED <<wifi, events>>
  /\ UNCHANGED <<service, past>> /\ World

ComeIntoReach ==
  /\ ~inReach /\ inReach' = TRUE
  /\ UNCHANGED <<wifi, events, service, past, used>> /\ World

HandleEvent ==
  StationStarted \/ StationLost \/ StationGotIp \/ ProvisioningStarted \/ ProvisioningEnded
JoinStep(c) == JoinMode(c) \/ JoinConfig(c) \/ JoinConnect(c)
ResetStep == ResetRestore \/ ResetRestart
Driver == Associate \/ Refuse

WifiNext ==
  \/ Boot \/ Restart \/ HandleEvent \/ Driver \/ GoOutOfReach \/ ComeIntoReach
  \/ ResetStop \/ ResetStep
  \/ \E n \in Credentials : SubmitByPhone(n)
  \/ \E c \in Callers : JoinStep(c) \/ \E n \in Credentials : JoinBegin(c, n)

\* The device boots, its event task and its driver run, a call that began goes on,
\* and a network that went away returns.
WifiSpec ==
  /\ WifiInit /\ [][WifiNext]_wifiVars
  /\ WF_wifiVars(Boot) /\ WF_wifiVars(HandleEvent) /\ WF_wifiVars(Driver)
  /\ WF_wifiVars(ResetStep) /\ WF_wifiVars(ComeIntoReach)
  /\ \A c \in Callers : WF_wifiVars(JoinStep(c))
-----------------------------------------------------------------------------
(* Properties *)

Running == path # "off" /\ reset = "no"
Offered == HasAccessPoint(wifi) \/ service # "off"

\* A device without credentials offers onboarding, whichever board it is, whatever
\* it lacks at boot, and however joins and resets interleave: otherwise only a
\* serial cable is left.
UnconfiguredIsOnboarding == Running /\ saved = Erased => Offered

\* Once the posted events are handled, the status shows the truth: provisioning is
\* active exactly while it is offered, so that no open access point stays up behind
\* a device that says it is done, and the network is ready exactly while the link is
\* up. Two exceptions: a join that chose its mode before an address arrived and set
\* it after (it raises the access point again), and a driver that would not drop it.
NetworkStatusTrue ==
  Running /\ events = <<>> =>
    /\ past.crossed \/ past.failed \/ flags.provisioning = Offered
    /\ flags.ready = (wifi.link = "up")

\* A device with the right credentials is on the network again and again, whatever
\* was dialed before them and however often the network went away. Two exceptions:
\* a driver that refused to dial when a handler or a join called it, which no event
\* follows, so that the device waits for the next join or restart; and BLE
\* provisioning, which leaves s_sta_connect_enabled false, so that the first outage
\* after it lasts until a restart.
StationReturns ==
  []<>(\/ ~(Running /\ path \in {"station", "softap"} /\ saved \in Valid)
       \/ wifi.link = "up" \/ wifi.refused)

\* The access point stays until a join succeeds (docs/admin-ui.md:84). It does not:
\* credentials that never worked are saved, and the next boot starts in station mode.
OnboardingUntilJoined ==
  Running /\ ~past.joined /\ (board.bluetooth => board.camera) => HasAccessPoint(wifi)
=============================================================================
