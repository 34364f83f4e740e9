------------------------ MODULE WifiOnboardingProofs ------------------------
(***************************************************************************)
(* A device without credentials can always be onboarded, for any callers,  *)
(* credentials and bounds.                                                 *)
(***************************************************************************)
EXTENDS WifiOnboarding, SequenceTheorems, TLAPS

Modes == {"off", "sta", "ap", "apsta"}
Links == {"down", "dialing", "up"}
Known == Credentials \cup {Erased}
Posted == {"started", "lost", "address", "provisioning", "provisioned"}
Drivers == [mode : Modes, link : Links, dials : Known, refused : BOOLEAN]
Flags == [connect : BOOLEAN, softap : BOOLEAN, ble : BOOLEAN, provisioning : BOOLEAN, ready : BOOLEAN]
Calls == [pc : {"idle"}] \cup [pc : {"mode", "config", "connect"}, with : Credentials, softap : BOOLEAN]

WifiTypes ==
  /\ path \in {"off", "station", "softap", "ble"}
  /\ saved \in Known
  /\ wifi \in Drivers
  /\ flags \in Flags
  /\ service \in {"off", "on", "joining"}
  /\ events \in Seq(Posted)
  /\ caller \in [Callers -> Calls]
  /\ reset \in {"no", "restore", "restart"}

\* A device that is off is in no call and provisions nothing.
OffIsIdle == path = "off" => service = "off" /\ \A c \in Callers : caller[c].pc = "idle"

\* While nothing is saved nothing was dialed, so that no event is on its way that
\* would take the access point or the provisioning manager down, and a join that
\* chose its mode chose to keep the access point.
NothingDialed ==
  /\ wifi.link = "down" /\ service # "joining"
  /\ \A i \in 1 .. Len(events) : events[i] \notin {"address", "provisioned"}
OffersSomething ==
  /\ path # "softap" => service = "on"
  /\ path = "softap" =>
       /\ flags.softap
       /\ reset = "no" => HasAccessPoint(wifi)
       /\ \A c \in Callers : caller[c].pc # "idle" => caller[c].softap
Unsaved == path # "off" /\ saved = Erased /\ reset # "restart"
WaitsForCredentials == Unsaved => NothingDialed /\ OffersSomething

WifiInv == WifiTypes /\ OffIsIdle /\ WaitsForCredentials
-----------------------------------------------------------------------------
(* Lemmas on single operators *)

\* Dialing keeps the type of the driver, and does nothing while nothing is saved.
LEMMA DialTypes ==
  ASSUME NEW w \in Drivers, saved \in Known
  PROVE  /\ Dial(w) \in Drivers
         /\ saved = Erased => Dial(w) = w
         /\ Dial(w).mode = w.mode
BY DEF Dial, Drivers, Modes, Links, HasStation

\* So does calling the driver, which refuses or dials.
LEMMA ConnectTypes ==
  ASSUME wifi \in Drivers, saved \in Known, Redial \/ Connect
  PROVE  /\ wifi' \in Drivers
         /\ saved = Erased => wifi' = wifi
         /\ wifi'.mode = wifi.mode /\ (wifi'.link = "up") = (wifi.link = "up")
<1>1. wifi' \in {wifi, Dial(wifi)} \/ (Dial(wifi) # wifi /\ wifi' = [wifi EXCEPT !.refused = TRUE])
  BY DEF Redial, Connect
<1>2. CASE wifi' \in {wifi, Dial(wifi)}
  BY <1>2, DialTypes DEF Dial, Drivers
<1>3. CASE Dial(wifi) # wifi /\ wifi' = [wifi EXCEPT !.refused = TRUE]
  BY <1>3, DialTypes DEF Drivers
<1> QED BY <1>1, <1>2, <1>3

\* What is left of the events after the first was taken are events posted before.
LEMMA TakenEvents ==
  ASSUME NEW e \in Posted, events \in Seq(Posted), Take(e)
  PROVE  /\ events' \in Seq(Posted)
         /\ Len(events) > 0 /\ events[1] = e
         /\ \A i \in 1 .. Len(events') : i + 1 \in 1 .. Len(events) /\ events'[i] = events[i + 1]
<1>1. events # <<>> /\ events' = Tail(events) /\ Head(events) = e
  BY DEF Take
<1>2. Len(events) \in Nat /\ Len(events) > 0
  BY <1>1
<1>3. Len(events') = Len(events) - 1 /\ \A i \in 1 .. Len(events') : events'[i] = events[i + 1]
  BY <1>1, <1>2
<1> QED BY <1>1, <1>2, <1>3

\* An event of another kind is posted behind the others.
LEMMA PostedEvents ==
  ASSUME NEW e \in Posted, events \in Seq(Posted), events' = Append(events, e)
  PROVE  /\ events' \in Seq(Posted)
         /\ (\A i \in 1 .. Len(events) : events[i] \notin {"address", "provisioned"})
              /\ e \notin {"address", "provisioned"}
            => \A i \in 1 .. Len(events') : events'[i] \notin {"address", "provisioned"}
OBVIOUS

\* Restarting leaves a device that is off and in no call.
LEMMA OffKeeps ==
  ASSUME WifiTypes, Off, UNCHANGED saved
  PROVE  WifiInv'
<1>1. WifiTypes'
  BY DEF Off, WifiTypes, Silent, Forgotten, Idle, Drivers, Flags, Calls, Modes, Links, Known, Posted
<1> QED BY <1>1 DEF WifiInv, OffIsIdle, WaitsForCredentials, Unsaved, Off, Idle
-----------------------------------------------------------------------------
\* The device starts switched off, whatever it has stored.
LEMMA InitWifiInv == WifiInit => WifiInv
<1> SUFFICES ASSUME WifiInit PROVE WifiInv
  OBVIOUS
<1>1. WifiTypes
  BY DEF WifiInit, WifiTypes, Silent, Forgotten, Idle, Drivers, Flags, Calls, Modes, Links, Known
<1> QED BY <1>1 DEF WifiInv, OffIsIdle, WaitsForCredentials, Unsaved, WifiInit, Idle

\* A boot offers onboarding, or finds credentials.
LEMMA BootKeeps ==
  ASSUME WifiInv, Boot PROVE WifiInv'
<1> USE DEF WifiInv, OffIsIdle
<1>0. path = "off" /\ UNCHANGED <<saved, caller, reset>>
  BY DEF Boot
<1>1. CASE saved # Erased /\ StartStation
  <2>0. events' \in Seq(Posted)
    BY <1>1 DEF StartStation, Posted
  <2>1. WifiTypes'
    BY <1>0, <1>1, <2>0 DEF WifiTypes, StartStation, Silent, Forgotten, Drivers, Flags, Modes, Links, Known, Posted
  <2> QED BY <2>1, <1>0, <1>1 DEF StartStation, WaitsForCredentials, Unsaved
<1>2. CASE saved = Erased /\ \E alone \in BOOLEAN : StartAccessPoint(alone)
  <2> PICK alone \in BOOLEAN : StartAccessPoint(alone)
    BY <1>2
  <2>0. events' \in {<<>>, <<"started">>}
    BY DEF StartAccessPoint
  <2>1. WifiTypes'
    <3>1. events' \in Seq(Posted)
      <4>1. CASE events' = <<>>
        BY <4>1
      <4>2. CASE events' = <<"started">>
        BY <4>2 DEF Posted
      <4> QED BY <2>0, <4>1, <4>2
    <3>2. wifi' \in Drivers /\ flags' \in Flags
      BY DEF StartAccessPoint, Silent, Forgotten, Drivers, Flags, Modes, Links, Known
    <3> QED BY <1>0, <3>1, <3>2 DEF WifiTypes, StartAccessPoint
  <2>2. NothingDialed'
    <3>1. wifi'.link = "down" /\ service' # "joining"
      BY <1>0, <1>2 DEF StartAccessPoint, Silent
    <3> QED BY <3>1 DEF NothingDialed, StartAccessPoint
  <2>3. OffersSomething'
    BY <1>0 DEF OffersSomething, StartAccessPoint, Silent, Forgotten, HasAccessPoint
  <2> QED BY <2>1, <2>2, <2>3, <1>0 DEF StartAccessPoint, WaitsForCredentials
<1>3. CASE saved = Erased /\ StartBluetooth
  <2>1. WifiTypes'
    <3>1. wifi' \in Drivers
      BY <1>3 DEF StartBluetooth, Silent, Drivers, Modes, Links, Known
    <3>2. flags' \in Flags /\ events' \in Seq(Posted)
      BY <1>3 DEF StartBluetooth, Forgotten, Flags, Posted
    <3> QED BY <1>0, <1>3, <3>1, <3>2 DEF WifiTypes, StartBluetooth
  <2>2. NothingDialed'
    BY <1>3 DEF NothingDialed, StartBluetooth, Silent
  <2> QED BY <2>1, <2>2, <1>0, <1>3 DEF StartBluetooth, WaitsForCredentials, OffersSomething
<1> QED BY <1>1, <1>2, <1>3 DEF Boot

\* An event handler that keeps service and finds the mode of the driver as it was
\* keeps what is offered.
LEMMA HandlersKeep ==
  ASSUME WifiInv, HandleEvent PROVE WifiInv'
<1> USE DEF WifiInv
<1>0. UNCHANGED <<path, saved, caller, reset>>
  BY DEF HandleEvent, StationStarted, StationLost, StationGotIp, ProvisioningStarted, ProvisioningEnded, Handled
<1>1. ASSUME NEW e \in {"started", "lost", "provisioning"}, Take(e), wifi' \in Drivers, saved = Erased => wifi' = wifi,
             flags' \in Flags, flags'.softap = flags.softap, UNCHANGED service
      PROVE  WifiInv'
  <2>1. events' \in Seq(Posted) /\ \A i \in 1 .. Len(events') : i + 1 \in 1 .. Len(events) /\ events'[i] = events[i + 1]
    BY <1>1, TakenEvents DEF WifiTypes, Posted
  <2>2. wifi' \in Drivers /\ (saved = Erased => wifi' = wifi)
    BY <1>1
  <2>3. WifiTypes'
    BY <1>0, <1>1, <2>1, <2>2 DEF WifiTypes
  <2>4. OffIsIdle'
    BY <1>0, <1>1 DEF OffIsIdle
  <2>5. ASSUME Unsaved' PROVE NothingDialed' /\ OffersSomething'
    <3>1. Unsaved /\ wifi' = wifi
      BY <1>0, <2>2, <2>5 DEF Unsaved
    <3>2. NothingDialed'
      BY <1>1, <2>1, <3>1 DEF NothingDialed, WaitsForCredentials
    <3>3. OffersSomething'
      BY <1>0, <1>1, <3>1 DEF OffersSomething, WaitsForCredentials, HasAccessPoint
    <3> QED BY <3>2, <3>3
  <2> QED BY <2>3, <2>4, <2>5 DEF WaitsForCredentials
<1>2. ASSUME NEW e \in {"address", "provisioned"}, Take(e), wifi' \in Drivers, flags' \in Flags,
             service' \in {service, "off"}
      PROVE  WifiInv'
  <2>1. events' \in Seq(Posted) /\ Len(events) > 0 /\ events[1] = e
    BY <1>2, TakenEvents DEF WifiTypes, Posted
  <2>2. ~Unsaved
    <3>1. 1 \in 1 .. Len(events)
      BY <2>1 DEF WifiTypes
    <3> QED BY <1>2, <2>1, <3>1 DEF WaitsForCredentials, NothingDialed
  <2>3. WifiTypes'
    BY <1>0, <1>2, <2>1 DEF WifiTypes
  <2> QED BY <1>0, <1>2, <2>2, <2>3 DEF OffIsIdle, WaitsForCredentials, Unsaved
<1>3. wifi \in Drivers /\ (Redial => wifi' \in Drivers /\ (saved = Erased => wifi' = wifi))
  BY ConnectTypes DEF WifiTypes
<1>4. flags \in Flags /\ Cleared \in Flags /\ [flags EXCEPT !.ready = FALSE] \in Flags
  BY DEF WifiTypes, Flags, Cleared
<1>5. CASE StationStarted
  BY <1>1, <1>3, <1>4, <1>5 DEF StationStarted
<1>6. CASE StationLost
  <2>1. flags' \in Flags /\ flags'.softap = flags.softap
    BY <1>4, <1>6 DEF StationLost, Flags
  <2> QED BY <1>1, <1>3, <1>6, <2>1 DEF StationLost
<1>7. CASE StationGotIp
  <2>1. flags' \in Flags
    BY <1>4, <1>7 DEF StationGotIp, Flags
  <2>2. wifi' \in Drivers
    BY <1>7 DEF StationGotIp, WifiTypes, Drivers, Modes
  <2> QED BY <1>2, <1>7, <2>1, <2>2 DEF StationGotIp
<1>8. CASE ProvisioningStarted
  <2>1. flags' \in Flags /\ flags'.softap = flags.softap
    BY <1>4, <1>8 DEF ProvisioningStarted, Flags
  <2>2. wifi' = wifi /\ Take("provisioning") /\ UNCHANGED service
    BY <1>8 DEF ProvisioningStarted
  <2> QED BY <1>1, <1>3, <2>1, <2>2
<1>9. CASE ProvisioningEnded
  BY <1>2, <1>4, <1>9 DEF ProvisioningEnded, WifiTypes
<1> QED BY <1>5, <1>6, <1>7, <1>8, <1>9 DEF HandleEvent

\* Credentials given to the provisioning manager are saved.
LEMMA ProvisionSaves ==
  ASSUME WifiTypes, OffIsIdle, NEW n \in Credentials, Provision(n)
  PROVE  /\ path # "off" /\ saved' \in Known /\ saved' # Erased
         /\ wifi' \in Drivers /\ service' = "joining"
BY WifiAssumption DEF Provision, WifiTypes, OffIsIdle, Drivers, Links, Known

\* Provisioning by phone needs the device to be on, and saves credentials.
LEMMA PhoneKeeps ==
  ASSUME WifiInv, NEW n \in Credentials, SubmitByPhone(n) PROVE WifiInv'
<1>1. path # "off" /\ saved' \in Known /\ saved' # Erased /\ wifi' \in Drivers /\ service' = "joining"
  BY ProvisionSaves DEF SubmitByPhone, WifiInv
<1>2. UNCHANGED <<path, flags, events, caller, reset>>
  BY DEF SubmitByPhone
<1>3. WifiTypes'
  BY <1>1, <1>2 DEF WifiInv, WifiTypes
<1> QED BY <1>1, <1>2, <1>3 DEF WifiInv, OffIsIdle, WaitsForCredentials, Unsaved

\* A join that begins notes whether the access point is up, and changes nothing else.
LEMMA JoinBeginKeeps ==
  ASSUME WifiInv, NEW c \in Callers, NEW n \in Credentials, JoinBegin(c, n) PROVE WifiInv'
<1> USE DEF WifiInv
<1>0. path # "off" /\ UNCHANGED <<path, events, reset>>
  BY DEF JoinBegin
<1>1. CASE Provision(n) /\ UNCHANGED <<flags, caller>>
  <2>1. saved' \in Known /\ saved' # Erased /\ wifi' \in Drivers /\ service' = "joining"
    BY <1>1, ProvisionSaves
  <2>2. WifiTypes'
    BY <1>0, <1>1, <2>1 DEF WifiTypes
  <2> QED BY <1>0, <2>1, <2>2 DEF OffIsIdle, WaitsForCredentials, Unsaved
<1>2. CASE UNCHANGED <<service, saved, wifi, flags, caller>>
  BY <1>0, <1>2 DEF WifiTypes, OffIsIdle, WaitsForCredentials, Unsaved, NothingDialed, OffersSomething, HasAccessPoint
<1>3. CASE /\ flags' = [flags EXCEPT !.connect = TRUE]
           /\ caller' = [caller EXCEPT ![c] = [pc |-> "mode", with |-> n, softap |-> flags.softap]]
           /\ UNCHANGED <<service, saved, wifi>>
  <2>1. flags' \in Flags /\ flags'.softap = flags.softap /\ flags.softap \in BOOLEAN
    BY <1>3 DEF WifiTypes, Flags
  <2>2. caller' \in [Callers -> Calls]
    BY <1>3, <2>1 DEF WifiTypes, Calls
  <2>3. WifiTypes'
    BY <1>0, <1>3, <2>1, <2>2 DEF WifiTypes
  <2>4. ASSUME Unsaved' PROVE NothingDialed' /\ OffersSomething'
    <3>1. Unsaved
      BY <1>0, <1>3, <2>4 DEF Unsaved
    <3>2. NothingDialed'
      BY <1>0, <1>3, <3>1 DEF WaitsForCredentials, NothingDialed
    <3>3. path = "softap" => \A d \in Callers : caller'[d].pc # "idle" => caller'[d].softap
      BY <1>3, <3>1 DEF WaitsForCredentials, OffersSomething, WifiTypes
    <3> QED BY <1>0, <1>3, <2>1, <3>1, <3>2, <3>3 DEF WaitsForCredentials, OffersSomething, HasAccessPoint
  <2> QED BY <1>0, <2>3, <2>4 DEF OffIsIdle, WaitsForCredentials
<1> QED BY <1>1, <1>2, <1>3 DEF JoinBegin

\* A step of a join: a join that is under way keeps the access point of a device
\* without credentials, or saves some.
LEMMA JoinStepKeeps ==
  ASSUME WifiInv, NEW c \in Callers, JoinStep(c) PROVE WifiInv'
<1> USE DEF WifiInv
<1>0. UNCHANGED <<path, flags, service, reset>>
  BY DEF JoinStep, JoinMode, JoinConfig, JoinConnect, Joins
<1>1. caller[c].pc # "idle" /\ caller[c] \in Calls /\ caller[c].with \in Credentials
       /\ caller[c].softap \in BOOLEAN /\ path # "off"
  <2>1. caller[c].pc # "idle" /\ caller[c] \in Calls
    BY DEF JoinStep, JoinMode, JoinConfig, JoinConnect, At, WifiTypes
  <2> QED BY <2>1 DEF Calls, OffIsIdle
<1>2. /\ caller' \in [Callers -> Calls]
      /\ \A d \in Callers : caller'[d].pc # "idle" => caller[d].pc # "idle" /\ caller'[d].softap = caller[d].softap
  <2>1. \/ caller' = [caller EXCEPT ![c] = Idle]
        \/ \E pc \in {"config", "connect"} : caller' = [caller EXCEPT ![c].pc = pc]
    BY DEF JoinStep, JoinMode, JoinConfig, JoinConnect, Go, Answer
  <2>2. CASE caller' = [caller EXCEPT ![c] = Idle]
    BY <2>2 DEF WifiTypes, Calls, Idle
  <2>3. ASSUME NEW pc \in {"config", "connect"}, caller' = [caller EXCEPT ![c].pc = pc]
        PROVE <1>2!1 /\ <1>2!2
    <3>1. [caller[c] EXCEPT !.pc = pc] \in Calls
      BY <1>1, <2>3 DEF Calls
    <3> QED BY <1>1, <2>3, <3>1 DEF WifiTypes
  <2> QED BY <2>1, <2>2, <2>3
<1>3. ASSUME wifi' \in Drivers, events' \in Seq(Posted), saved' \in Known,
             saved' = Erased => saved = Erased,
             Unsaved => /\ wifi'.link = wifi.link
                        /\ HasAccessPoint(wifi) /\ caller[c].softap => HasAccessPoint(wifi')
                        /\ (\A i \in 1 .. Len(events) : events[i] \notin {"address", "provisioned"})
                             => \A i \in 1 .. Len(events') : events'[i] \notin {"address", "provisioned"}
      PROVE  WifiInv'
  <2>1. WifiTypes'
    BY <1>0, <1>2, <1>3 DEF WifiTypes
  <2>2. ASSUME Unsaved' PROVE NothingDialed' /\ OffersSomething'
    <3>1. Unsaved
      BY <1>0, <1>3, <2>2 DEF Unsaved
    <3>2. NothingDialed'
      BY <1>0, <1>3, <3>1 DEF WaitsForCredentials, NothingDialed
    <3>3. OffersSomething'
      BY <1>0, <1>1, <1>2, <1>3, <3>1 DEF WaitsForCredentials, OffersSomething, HasAccessPoint
    <3> QED BY <3>2, <3>3
  <2> QED BY <1>0, <1>1, <2>1, <2>2 DEF OffIsIdle, WaitsForCredentials
<1>4. CASE JoinMode(c)
  <2>0. saved' = saved
    BY <1>4 DEF JoinMode
  <2>1. wifi' \in Drivers /\ wifi'.link = wifi.link
         /\ (HasAccessPoint(wifi) /\ caller[c].softap => HasAccessPoint(wifi'))
    BY <1>4, <1>1 DEF JoinMode, WifiTypes, Drivers, Modes, HasAccessPoint
  <2>2. events' \in {events, Append(events, "started")}
    BY <1>4 DEF JoinMode
  <2>3. CASE events' = events
    BY <1>3, <2>0, <2>1, <2>3 DEF WifiTypes
  <2>4. CASE events' = Append(events, "started")
    <3>1. "started" \in Posted
      BY DEF Posted
    <3> QED BY <1>3, <2>0, <2>1, <2>4, <3>1, PostedEvents DEF WifiTypes
  <2> QED BY <2>2, <2>3, <2>4
<1>5. CASE JoinConfig(c)
  <2>1. saved' \in {saved, caller[c].with} /\ UNCHANGED <<wifi, events>>
    BY <1>5 DEF JoinConfig
  <2>2. saved' \in Known /\ (saved' = Erased => saved = Erased)
    BY <1>1, <2>1, WifiAssumption DEF WifiTypes, Known
  <2> QED BY <1>3, <2>1, <2>2 DEF WifiTypes, HasAccessPoint
<1>6. CASE JoinConnect(c)
  <2>1. Connect /\ UNCHANGED <<saved, events>>
    BY <1>6 DEF JoinConnect
  <2>2. wifi' \in Drivers /\ (saved = Erased => wifi' = wifi)
    BY <2>1, ConnectTypes DEF WifiTypes
  <2> QED BY <1>3, <2>1, <2>2 DEF WifiTypes, Unsaved, HasAccessPoint
<1> QED BY <1>4, <1>5, <1>6 DEF JoinStep

\* A factory reset takes down what it will not need before it restarts.
LEMMA ResetKeeps ==
  ASSUME WifiInv, ResetStop \/ ResetRestore \/ ResetRestart \/ Restart PROVE WifiInv'
<1> USE DEF WifiInv
<1>1. CASE ResetStop
  <2>1. path # "off" /\ reset' = "restore" /\ wifi' = Silent /\ UNCHANGED <<path, saved, flags, service, caller>>
         /\ reset = "no" /\ events' = Hangs(wifi)
    BY <1>1 DEF ResetStop
  <2>2. wifi' \in Drivers /\ wifi'.link = "down"
    BY <2>1 DEF Silent, Drivers, Modes, Links, Known
  <2>3. events' \in Seq(Posted) /\ (wifi.link = "down" => events' = events)
    BY <2>1, PostedEvents DEF Hangs, WifiTypes, Posted
  <2>4. WifiTypes'
    BY <2>1, <2>2, <2>3 DEF WifiTypes
  <2>5. ASSUME Unsaved' PROVE NothingDialed' /\ OffersSomething'
    <3>1. Unsaved
      BY <2>1, <2>5 DEF Unsaved
    <3> QED BY <2>1, <2>2, <2>3, <3>1 DEF WaitsForCredentials, NothingDialed, OffersSomething
  <2> QED BY <2>1, <2>4, <2>5 DEF OffIsIdle, WaitsForCredentials
<1>2. CASE ResetRestore
  <2>1. reset' = "restart" /\ saved' = Erased /\ flags' = [Cleared EXCEPT !.ready = FALSE]
         /\ UNCHANGED <<path, wifi, service, events, caller>>
    BY <1>2 DEF ResetRestore
  <2>2. flags' \in Flags
    BY <2>1 DEF WifiTypes, Cleared, Flags
  <2>3. WifiTypes'
    BY <2>1, <2>2 DEF WifiTypes, Known
  <2> QED BY <2>1, <2>3 DEF OffIsIdle, WaitsForCredentials, Unsaved
<1>3. CASE ResetRestart
  BY <1>3, OffKeeps DEF ResetRestart
<1>4. CASE Restart
  BY <1>4, OffKeeps DEF Restart
<1> QED BY <1>1, <1>2, <1>3, <1>4

\* The driver and the world do nothing to a station that never dialed.
LEMMA WorldKeeps ==
  ASSUME WifiInv, Driver \/ GoOutOfReach \/ ComeIntoReach PROVE WifiInv'
<1> USE DEF WifiInv
<1>0. UNCHANGED <<path, saved, flags, caller, reset>>
  BY DEF Driver, Associate, Refuse, GoOutOfReach, ComeIntoReach, World
<1>1. CASE UNCHANGED <<wifi, events, service>>
  BY <1>0, <1>1 DEF WifiTypes, OffIsIdle, WaitsForCredentials, Unsaved, NothingDialed, OffersSomething, HasAccessPoint
<1>2. ASSUME wifi.link # "down", wifi' \in Drivers, events' \in Seq(Posted),
             service' = service \/ (service = "joining" /\ service' = "on")
      PROVE  WifiInv'
  <2>1. WifiTypes'
    BY <1>0, <1>2 DEF WifiTypes
  <2>2. ~Unsaved
    BY <1>2 DEF WaitsForCredentials, NothingDialed
  <2> QED BY <1>0, <1>2, <2>1, <2>2 DEF OffIsIdle, WaitsForCredentials, Unsaved
<1>3. ASSUME NEW l \in Links PROVE [wifi EXCEPT !.link = l] \in Drivers
  BY DEF WifiTypes, Drivers
<1>4. "down" \in Links /\ "up" \in Links /\ \A s \in {<<"lost">>, <<"address">>, <<"address", "provisioned">>} : s \in Seq(Posted)
  BY DEF Links, Posted
<1>5. CASE Associate
  <2>1. wifi.link = "dialing" /\ wifi' = [wifi EXCEPT !.link = "up"] /\ service' = service
         /\ \E s \in {<<"address">>, <<"address", "provisioned">>} : events' = events \o s
    <3>1. CASE service = "joining"
      BY <1>5, <3>1 DEF Associate
    <3>2. CASE service # "joining"
      BY <1>5, <3>2 DEF Associate
    <3> QED BY <3>1, <3>2
  <2>2. events' \in Seq(Posted)
    <3> PICK s \in {<<"address">>, <<"address", "provisioned">>} : events' = events \o s
      BY <2>1
    <3>1. s \in Seq(Posted) /\ events \in Seq(Posted)
      BY <1>4 DEF WifiTypes
    <3> QED BY <3>1, ConcatProperties
  <2> QED BY <1>2, <1>3, <1>4, <2>1, <2>2
<1>6. CASE Refuse
  <2>1. wifi.link = "dialing" /\ wifi' = [wifi EXCEPT !.link = "down"] /\ events' = Append(events, "lost")
         /\ (service' = service \/ (service = "joining" /\ service' = "on"))
    BY <1>6 DEF Refuse
  <2>2. events' \in Seq(Posted)
    BY <2>1, PostedEvents DEF WifiTypes, Posted
  <2> QED BY <1>2, <1>3, <1>4, <2>1, <2>2
<1>7. CASE GoOutOfReach
  <2>1. CASE wifi.link = "up"
    <3>1. wifi' = [wifi EXCEPT !.link = "down"] /\ events' = Append(events, "lost") /\ service' = service
      BY <1>7, <2>1 DEF GoOutOfReach
    <3>2. events' \in Seq(Posted)
      BY <3>1, PostedEvents DEF WifiTypes, Posted
    <3> QED BY <1>2, <1>3, <1>4, <2>1, <3>1, <3>2
  <2>2. CASE wifi.link # "up"
    BY <1>1, <1>7, <2>2 DEF GoOutOfReach
  <2> QED BY <2>1, <2>2
<1>8. CASE ComeIntoReach
  BY <1>1, <1>8 DEF ComeIntoReach
<1> QED BY <1>5, <1>6, <1>7, <1>8 DEF Driver
-----------------------------------------------------------------------------
LEMMA WifiStep ==
  ASSUME WifiInv, [WifiNext]_wifiVars PROVE WifiInv'
<1>1. CASE UNCHANGED wifiVars
  BY <1>1 DEF wifiVars, WifiInv, WifiTypes, OffIsIdle, WaitsForCredentials, Unsaved, NothingDialed,
              OffersSomething, HasAccessPoint
<1>2. CASE Boot
  BY <1>2, BootKeeps
<1>3. CASE HandleEvent
  BY <1>3, HandlersKeep
<1>4. CASE Driver \/ GoOutOfReach \/ ComeIntoReach
  BY <1>4, WorldKeeps
<1>5. CASE ResetStop \/ ResetStep \/ Restart
  BY <1>5, ResetKeeps DEF ResetStep
<1>6. ASSUME NEW n \in Credentials, SubmitByPhone(n) PROVE WifiInv'
  BY <1>6, PhoneKeeps
<1>7. ASSUME NEW c \in Callers, JoinStep(c) PROVE WifiInv'
  BY <1>7, JoinStepKeeps
<1>8. ASSUME NEW c \in Callers, NEW n \in Credentials, JoinBegin(c, n) PROVE WifiInv'
  BY <1>8, JoinBeginKeeps
<1> QED BY <1>1, <1>2, <1>3, <1>4, <1>5, <1>6, <1>7, <1>8 DEF WifiNext

\* A device without credentials offers onboarding on every board, whatever boots,
\* joins, outages, resets and failures of the driver come together.
THEOREM AlwaysOnboarding == WifiSpec => []UnconfiguredIsOnboarding
<1>1. WifiInv => UnconfiguredIsOnboarding
  BY DEF WifiInv, WaitsForCredentials, Unsaved, OffersSomething, UnconfiguredIsOnboarding, Running, Offered
<1> QED BY <1>1, WifiStep, InitWifiInv, PTL DEF WifiSpec
-----------------------------------------------------------------------------
(* What the device says of itself                                          *)

\* The events that change what flags.ready says. Until they are handled the last of
\* them tells whether the link is up; when none is left, the flag does.
Signals == {"address", "lost"}
ReadyFollows(posted, ready, up) ==
  /\ (\A i \in 1 .. Len(posted) : posted[i] \notin Signals) => ready = up
  /\ \A i \in 1 .. Len(posted) :
       /\ posted[i] \in Signals
       /\ \A j \in 1 .. Len(posted) : j > i => posted[j] \notin Signals
       => (posted[i] = "address") = up
ReadyInv == ReadyFollows(events, flags.ready, wifi.link = "up")

\* Only a boot into an access point sets softap, so that nothing else of this device
\* raises one. Only a boot into BLE provisioning starts the provisioning manager;
\* its first event comes first of all.
OnlySoftapHasAccessPoint ==
  path # "softap" =>
    /\ ~flags.softap /\ ~HasAccessPoint(wifi)
    /\ \A c \in Callers : caller[c].pc # "idle" => ~caller[c].softap
SoftapIsTold ==
  path = "softap" =>
    /\ flags.provisioning = flags.softap
    /\ past.crossed \/ past.failed \/ (flags.softap <=> HasAccessPoint(wifi))
OnlyBleProvisions ==
  /\ path # "ble" => service = "off"
  /\ path = "station" => ~flags.provisioning
  /\ \A i \in 1 .. Len(events) :
       /\ events[i] \in {"provisioning", "provisioned"} => path = "ble"
       /\ events[i] = "provisioning" => i = 1 /\ service # "off"
BleIsTold ==
  path = "ble" =>
    \/ flags.provisioning = (service # "off")
    \/ Len(events) > 0 /\ events[1] = "provisioning"
OfferInv == OnlySoftapHasAccessPoint /\ SoftapIsTold /\ OnlyBleProvisions /\ BleIsTold

PastTypes == past \in [joined : BOOLEAN, crossed : BOOLEAN, failed : BOOLEAN]

StatusInv == PastTypes /\ (path # "off" /\ reset = "no" => ReadyInv /\ OfferInv)

LEMMA PastKept ==
  ASSUME PastTypes, [WifiNext]_wifiVars
  PROVE  PastTypes'
<1>1. ASSUME NEW p, past' = [past EXCEPT !.crossed = p, !.failed = FALSE], p \in BOOLEAN
      PROVE  PastTypes'
  BY <1>1 DEF PastTypes
<1>2. past' = past \/ \E f \in {"joined", "crossed", "failed"}, b \in BOOLEAN : past' = [past EXCEPT ![f] = b]
      \/ Off
  BY DEF WifiNext, wifiVars, Boot, Restart, HandleEvent, StationStarted, StationLost, StationGotIp,
         ProvisioningStarted, ProvisioningEnded, Driver, Associate, Refuse, GoOutOfReach, ComeIntoReach,
         ResetStop, ResetStep, ResetRestore, ResetRestart, SubmitByPhone, JoinBegin, JoinStep, JoinMode,
         JoinConfig, JoinConnect
<1>3. ASSUME NEW f \in {"joined", "crossed", "failed"}, NEW b \in BOOLEAN, past' = [past EXCEPT ![f] = b]
      PROVE  PastTypes'
  BY <1>3 DEF PastTypes
<1> QED BY <1>1, <1>2, <1>3 DEF Off, PastTypes

\* An event that says nothing of the link is posted.
LEMMA ReadyAppendOther ==
  ASSUME NEW s \in Seq(Posted), NEW e, e \notin Signals, NEW ready \in BOOLEAN, NEW up \in BOOLEAN,
         ReadyFollows(s, ready, up)
  PROVE  ReadyFollows(Append(s, e), ready, up)
<1> DEFINE t == Append(s, e)
<1>1. /\ Len(s) \in Nat /\ Len(t) = Len(s) + 1 /\ t[Len(t)] = e
      /\ \A i \in 1 .. Len(s) : t[i] = s[i] /\ i \in 1 .. Len(t)
  OBVIOUS
<1> HIDE DEF t
<1>2. (\A i \in 1 .. Len(t) : t[i] \notin Signals) => ready = up
  BY <1>1 DEF ReadyFollows
<1>3. ASSUME NEW i \in 1 .. Len(t), t[i] \in Signals,
             \A j \in 1 .. Len(t) : j > i => t[j] \notin Signals
      PROVE  (t[i] = "address") = up
  <2>1. i \in 1 .. Len(s) /\ t[i] = s[i]
    BY <1>1, <1>3
  <2>2. \A j \in 1 .. Len(s) : j > i => s[j] \notin Signals
    BY <1>1, <1>3
  <2> QED BY <1>3, <2>1, <2>2 DEF ReadyFollows
<1> QED BY <1>2, <1>3 DEF ReadyFollows, t

\* An event that tells of the link is posted when the link has become what it says.
LEMMA ReadyAppendSignal ==
  ASSUME NEW s \in Seq(Posted), NEW e \in Signals, NEW ready \in BOOLEAN
  PROVE  ReadyFollows(Append(s, e), ready, e = "address")
<1> DEFINE t == Append(s, e)
<1>1. Len(s) \in Nat /\ Len(t) = Len(s) + 1 /\ Len(t) \in 1 .. Len(t) /\ t[Len(t)] = e
  OBVIOUS
<1> HIDE DEF t
<1>2. ASSUME NEW i \in 1 .. Len(t), \A j \in 1 .. Len(t) : j > i => t[j] \notin Signals
      PROVE  i = Len(t)
  <2>1. ~(Len(t) > i)
    BY <1>1, <1>2
  <2> QED BY <1>1, <2>1
<1> QED BY <1>1, <1>2 DEF ReadyFollows, t

\* The first event is handled: one that tells of the link sets the flag to what it says.
LEMMA ReadyTaken ==
  ASSUME WifiTypes, ReadyInv, NEW e \in Posted, Take(e),
         NEW ready \in BOOLEAN,
         ready = IF e \in Signals THEN e = "address" ELSE flags.ready
  PROVE  ReadyFollows(events', ready, wifi.link = "up")
<1>1. /\ Len(events) \in Nat /\ Len(events) > 0 /\ events[1] = e
      /\ Len(events') = Len(events) - 1
      /\ \A i \in 1 .. Len(events') : i + 1 \in 1 .. Len(events) /\ events'[i] = events[i + 1]
  <2>1. events # <<>> /\ events' = Tail(events) /\ Head(events) = e /\ events \in Seq(Posted)
    BY DEF Take, WifiTypes
  <2> QED BY <2>1
<1>2. \A j \in 1 .. Len(events) : j = 1 \/ (j - 1 \in 1 .. Len(events') /\ events'[j - 1] = events[j])
  BY <1>1
<1>3. ASSUME \A i \in 1 .. Len(events') : events'[i] \notin Signals
      PROVE  ready = (wifi.link = "up")
  <2>1. \A j \in 1 .. Len(events) : j > 1 => events[j] \notin Signals
    BY <1>2, <1>3
  <2>2. 1 \in 1 .. Len(events)
    BY <1>1
  <2>3. CASE e \in Signals
    BY <1>1, <2>1, <2>2, <2>3 DEF ReadyInv, ReadyFollows
  <2>4. CASE e \notin Signals
    <3>1. \A j \in 1 .. Len(events) : events[j] \notin Signals
      BY <1>1, <2>1, <2>4
    <3> QED BY <2>4, <3>1 DEF ReadyInv, ReadyFollows
  <2> QED BY <2>3, <2>4
<1>4. ASSUME NEW i \in 1 .. Len(events'), events'[i] \in Signals,
             \A j \in 1 .. Len(events') : j > i => events'[j] \notin Signals
      PROVE  (events'[i] = "address") = (wifi.link = "up")
  <2>1. i + 1 \in 1 .. Len(events) /\ events'[i] = events[i + 1]
    BY <1>1
  <2>2. \A j \in 1 .. Len(events) : j > i + 1 => events[j] \notin Signals
    BY <1>1, <1>2, <1>4
  <2> QED BY <1>4, <2>1, <2>2 DEF ReadyInv, ReadyFollows
<1> QED BY <1>3, <1>4 DEF ReadyFollows

\* What is offered stays told by a step that handles no event and changes neither
\* flag, whether the provisioning manager runs, nor the access point, unless a join
\* that chose its mode earlier does.
LEMMA OfferKept ==
  ASSUME OfferInv, UNCHANGED <<path, flags.softap, flags.provisioning>>,
         (service' # "off") = (service # "off"),
         past.crossed \/ past.failed => past'.crossed \/ past'.failed,
         path # "softap" \/ ~(past'.crossed \/ past'.failed) =>
           (HasAccessPoint(wifi') <=> HasAccessPoint(wifi)),
         \A c \in Callers : caller'[c].pc # "idle" /\ caller'[c].softap =>
           flags.softap \/ (caller[c].pc # "idle" /\ caller[c].softap),
         \A i \in 1 .. Len(events') :
           /\ events'[i] = "provisioning" => i \in 1 .. Len(events) /\ events[i] = "provisioning"
           /\ events'[i] = "provisioned" => path = "ble",
         Len(events) > 0 /\ events[1] = "provisioning" =>
           Len(events') > 0 /\ events'[1] = "provisioning"
  PROVE  OfferInv'
<1>1. OnlySoftapHasAccessPoint'
  BY DEF OfferInv, OnlySoftapHasAccessPoint, HasAccessPoint
<1>2. SoftapIsTold'
  BY DEF OfferInv, SoftapIsTold, HasAccessPoint
<1>3. OnlyBleProvisions'
  BY DEF OfferInv, OnlyBleProvisions
<1>4. BleIsTold'
  BY DEF OfferInv, BleIsTold
<1> QED BY <1>1, <1>2, <1>3, <1>4 DEF OfferInv

\* The same events, or one more that is not of the provisioning manager.
LEMMA OfferEvents ==
  ASSUME WifiTypes, OfferInv,
         \/ events' = events
         \/ \E e \in Posted : events' = Append(events, e)
                              /\ e # "provisioning" /\ (e = "provisioned" => path = "ble")
  PROVE  /\ \A i \in 1 .. Len(events') :
              /\ events'[i] = "provisioning" => i \in 1 .. Len(events) /\ events[i] = "provisioning"
              /\ events'[i] = "provisioned" => path = "ble"
         /\ Len(events) > 0 /\ events[1] = "provisioning" =>
              Len(events') > 0 /\ events'[1] = "provisioning"
<1>1. \A i \in 1 .. Len(events) : events[i] = "provisioned" => path = "ble"
  BY DEF OfferInv, OnlyBleProvisions
<1>2. CASE events' = events
  BY <1>1, <1>2
<1>3. ASSUME NEW e \in Posted, events' = Append(events, e), e # "provisioning",
             e = "provisioned" => path = "ble"
      PROVE  /\ \A i \in 1 .. Len(events') :
                  /\ events'[i] = "provisioning" => i \in 1 .. Len(events) /\ events[i] = "provisioning"
                  /\ events'[i] = "provisioned" => path = "ble"
             /\ Len(events) > 0 /\ events[1] = "provisioning" =>
                  Len(events') > 0 /\ events'[1] = "provisioning"
  <2>1. /\ Len(events) \in Nat /\ Len(events') = Len(events) + 1 /\ events'[Len(events')] = e
        /\ \A i \in 1 .. Len(events') : i = Len(events') \/ (i \in 1 .. Len(events) /\ events'[i] = events[i])
    BY <1>3 DEF WifiTypes
  <2>2. Len(events) > 0 => events'[1] = events[1]
    BY <2>1
  <2> QED BY <1>1, <1>3, <2>1, <2>2
<1> QED BY <1>2, <1>3

LEMMA BootStatus ==
  ASSUME WifiInv, PastTypes, Boot
  PROVE  StatusInv'
<1>0. PastTypes'
  BY PastKept DEF WifiNext
<1>1. /\ path = "off" /\ service = "off" /\ UNCHANGED caller
      /\ \A c \in Callers : caller[c].pc = "idle"
  BY DEF Boot, WifiInv, OffIsIdle
<1>2. CASE StartStation
  <2>1. /\ events' = <<"started">> /\ Len(events') = 1 /\ events'[1] = "started"
        /\ \A i \in 1 .. Len(events') : i = 1
    BY <1>2 DEF StartStation
  <2>2. /\ path' = "station" /\ service' = "off" /\ wifi'.link = "down" /\ ~HasAccessPoint(wifi')
        /\ flags'.ready = FALSE /\ flags'.softap = FALSE /\ flags'.provisioning = FALSE
    BY <1>1, <1>2 DEF StartStation, Silent, Forgotten, HasAccessPoint
  <2>3. ReadyInv'
    BY <2>1, <2>2 DEF ReadyInv, ReadyFollows, Signals
  <2>4. OnlySoftapHasAccessPoint'
    BY <1>1, <2>2 DEF OnlySoftapHasAccessPoint, HasAccessPoint
  <2>5. OnlyBleProvisions' /\ SoftapIsTold' /\ BleIsTold'
    BY <2>1, <2>2 DEF SoftapIsTold, OnlyBleProvisions, BleIsTold
  <2> QED BY <1>0, <2>3, <2>4, <2>5 DEF StatusInv, OfferInv
<1>3. ASSUME NEW alone \in BOOLEAN, StartAccessPoint(alone)
      PROVE  StatusInv'
  <2>1. events' \in {<<>>, <<"started">>}
    BY <1>3 DEF StartAccessPoint
  <2>2. \A i \in 1 .. Len(events') : events'[i] = "started"
    BY <2>1
  <2>3. /\ path' = "softap" /\ service' = "off" /\ wifi'.link = "down" /\ HasAccessPoint(wifi')
        /\ flags'.ready = FALSE /\ flags'.softap = TRUE /\ flags'.provisioning = TRUE
    BY <1>1, <1>3 DEF StartAccessPoint, Silent, Forgotten, HasAccessPoint
  <2>4. ReadyInv'
    BY <2>2, <2>3 DEF ReadyInv, ReadyFollows, Signals
  <2>5. SoftapIsTold'
    BY <2>3 DEF SoftapIsTold, HasAccessPoint
  <2>6. OnlyBleProvisions' /\ OnlySoftapHasAccessPoint' /\ BleIsTold'
    BY <2>2, <2>3 DEF OnlyBleProvisions, OnlySoftapHasAccessPoint, BleIsTold
  <2> QED BY <1>0, <2>4, <2>5, <2>6 DEF StatusInv, OfferInv
<1>4. CASE StartBluetooth
  <2>1. /\ events' = <<"provisioning", "started">> /\ Len(events') = 2
        /\ events'[1] = "provisioning" /\ events'[2] = "started"
        /\ \A i \in 1 .. Len(events') : i = 1 \/ i = 2
    BY <1>4 DEF StartBluetooth
  <2>2. /\ path' = "ble" /\ service' = "on" /\ wifi'.link = "down" /\ ~HasAccessPoint(wifi')
        /\ flags'.ready = FALSE /\ flags'.softap = FALSE
    BY <1>4 DEF StartBluetooth, Silent, Forgotten, HasAccessPoint
  <2>3. ReadyInv'
    BY <2>1, <2>2 DEF ReadyInv, ReadyFollows, Signals
  <2>4. OnlySoftapHasAccessPoint'
    BY <1>1, <2>2 DEF OnlySoftapHasAccessPoint, HasAccessPoint
  <2>5. OnlyBleProvisions' /\ SoftapIsTold' /\ BleIsTold'
    BY <2>1, <2>2 DEF SoftapIsTold, OnlyBleProvisions, BleIsTold
  <2> QED BY <1>0, <2>3, <2>4, <2>5 DEF StatusInv, OfferInv
<1> QED BY <1>2, <1>3, <1>4 DEF Boot

\* What the first event was, and what is left behind it.
LEMMA OfferTaken ==
  ASSUME WifiTypes, OfferInv, NEW e \in Posted, Take(e), UNCHANGED <<path, caller>>,
         path # "softap" => ~flags'.softap /\ ~HasAccessPoint(wifi'),
         SoftapIsTold',
         path # "ble" => service' = "off",
         path = "station" => ~flags'.provisioning,
         path = "ble" => flags'.provisioning = (service' # "off")
  PROVE  OfferInv'
<1>1. \A i \in 1 .. Len(events') : i + 1 \in 1 .. Len(events) /\ events'[i] = events[i + 1]
  BY TakenEvents DEF WifiTypes
<1>2. \A i \in 1 .. Len(events') : events'[i] # "provisioning"
  <2> SUFFICES ASSUME NEW i \in 1 .. Len(events'), events'[i] = "provisioning" PROVE FALSE
    OBVIOUS
  <2>1. i + 1 = 1
    BY <1>1 DEF OfferInv, OnlyBleProvisions
  <2> QED BY <2>1
<1>3. \A i \in 1 .. Len(events') : events'[i] = "provisioned" => path = "ble"
  BY <1>1 DEF OfferInv, OnlyBleProvisions
<1>4. OnlySoftapHasAccessPoint'
  BY DEF OfferInv, OnlySoftapHasAccessPoint, HasAccessPoint
<1>5. OnlyBleProvisions' /\ BleIsTold'
  BY <1>2, <1>3 DEF OnlyBleProvisions, BleIsTold
<1> QED BY <1>4, <1>5 DEF OfferInv

LEMMA HandlersStatus ==
  ASSUME WifiInv, StatusInv, HandleEvent
  PROVE  StatusInv'
<1>0. UNCHANGED <<path, caller, reset>>
  BY DEF HandleEvent, StationStarted, StationLost, StationGotIp, ProvisioningStarted, ProvisioningEnded, Handled
<1> SUFFICES ASSUME path # "off", reset = "no" PROVE ReadyInv' /\ OfferInv'
  BY <1>0, PastKept DEF StatusInv, WifiNext
<1>1. PastTypes /\ WifiTypes /\ ReadyInv /\ OfferInv /\ flags \in Flags /\ wifi \in Drivers /\ events \in Seq(Posted)
  BY DEF WifiInv, WifiTypes, StatusInv
<1>2. ASSUME NEW e \in Posted, Take(e)
      PROVE  1 \in 1 .. Len(events) /\ events[1] = e
  BY <1>1, <1>2, TakenEvents
<1>3. Redial => wifi'.mode = wifi.mode /\ (wifi'.link = "up") = (wifi.link = "up")
  BY <1>1, ConnectTypes DEF WifiTypes
<1>4. CASE StationStarted
  <2>1. Take("started") /\ UNCHANGED <<flags, service, past>> /\ "started" \in Posted /\ "started" \notin Signals
    BY <1>4 DEF StationStarted, Posted, Signals
  <2>2. events[1] = "started"
    BY <1>2, <2>1
  <2>3. wifi'.mode = wifi.mode /\ (wifi'.link = "up") = (wifi.link = "up")
    BY <1>3, <1>4 DEF StationStarted
  <2>4. ReadyInv'
    BY <1>1, <2>1, <2>3, ReadyTaken DEF ReadyInv, Flags
  <2>5. SoftapIsTold'
    BY <1>0, <1>1, <2>1, <2>3 DEF OfferInv, SoftapIsTold, HasAccessPoint
  <2>6. OfferInv'
    BY <1>0, <1>1, <2>1, <2>2, <2>3, <2>5, OfferTaken
    DEF OfferInv, OnlySoftapHasAccessPoint, OnlyBleProvisions, BleIsTold, HasAccessPoint
  <2> QED BY <2>4, <2>6
<1>5. CASE StationLost
  <2>1. /\ Take("lost") /\ flags' = [flags EXCEPT !.ready = FALSE] /\ UNCHANGED <<service, past>>
        /\ "lost" \in Posted /\ "lost" \in Signals
    BY <1>5 DEF StationLost, Posted, Signals
  <2>2. events[1] = "lost"
    BY <1>2, <2>1
  <2>3. wifi'.mode = wifi.mode /\ (wifi'.link = "up") = (wifi.link = "up")
    BY <1>3, <1>5 DEF StationLost
  <2>4. flags'.ready = FALSE /\ flags'.softap = flags.softap /\ flags'.provisioning = flags.provisioning
    BY <1>1, <2>1 DEF Flags
  <2>5. ReadyInv'
    BY <1>1, <2>1, <2>3, <2>4, ReadyTaken DEF ReadyInv
  <2>6. SoftapIsTold'
    BY <1>0, <1>1, <2>1, <2>3, <2>4 DEF OfferInv, SoftapIsTold, HasAccessPoint
  <2>7. OfferInv'
    BY <1>0, <1>1, <2>1, <2>2, <2>3, <2>4, <2>6, OfferTaken
    DEF OfferInv, OnlySoftapHasAccessPoint, OnlyBleProvisions, BleIsTold, HasAccessPoint
  <2> QED BY <2>5, <2>7
<1>6. CASE StationGotIp
  <2>1. /\ Take("address") /\ flags' = [IF flags.softap THEN Cleared ELSE flags EXCEPT !.ready = TRUE]
        /\ UNCHANGED service /\ "address" \in Posted /\ "address" \in Signals
        /\ \/ flags.softap /\ wifi' = [wifi EXCEPT !.mode = "sta"] /\ UNCHANGED past
           \/ flags.softap /\ past' = [past EXCEPT !.failed = TRUE] /\ UNCHANGED wifi
           \/ ~flags.softap /\ UNCHANGED <<wifi, past>>
    BY <1>6 DEF StationGotIp, Posted, Signals
  <2>2. events[1] = "address"
    BY <1>2, <2>1
  <2>3. (wifi'.link = "up") = (wifi.link = "up")
    BY <1>1, <2>1 DEF Drivers
  <2>4. /\ flags'.ready = TRUE
        /\ flags.softap => ~flags'.softap /\ ~flags'.provisioning
        /\ ~flags.softap => flags'.softap = flags.softap /\ flags'.provisioning = flags.provisioning
    BY <1>1, <2>1 DEF Flags, Cleared
  <2>5. ReadyInv'
    BY <1>1, <2>1, <2>3, <2>4, ReadyTaken DEF ReadyInv
  <2>6. SoftapIsTold'
    <3>1. CASE flags.softap /\ wifi' = [wifi EXCEPT !.mode = "sta"]
      <4>1. wifi'.mode = "sta" /\ flags'.softap = FALSE /\ flags'.provisioning = FALSE
        BY <1>1, <2>1, <3>1 DEF Drivers, Flags, Cleared
      <4> QED BY <4>1 DEF SoftapIsTold, HasAccessPoint
    <3>2. CASE flags.softap /\ past' = [past EXCEPT !.failed = TRUE]
      <4>1. flags'.softap = FALSE /\ flags'.provisioning = FALSE
        BY <1>1, <2>1, <3>2 DEF Flags, Cleared
      <4>2. past'.failed
        BY <1>1, <3>2 DEF PastTypes
      <4> QED BY <4>1, <4>2 DEF SoftapIsTold
    <3>3. CASE ~flags.softap /\ UNCHANGED <<wifi, past>>
      BY <1>0, <1>1, <2>4, <3>3 DEF OfferInv, SoftapIsTold, HasAccessPoint
    <3> QED BY <2>1, <3>1, <3>2, <3>3
  <2>7. path # "softap" => ~flags'.softap /\ ~HasAccessPoint(wifi') /\ flags'.provisioning = flags.provisioning
    BY <1>1, <2>1, <2>4 DEF OfferInv, OnlySoftapHasAccessPoint
  <2>8. OfferInv'
    BY <1>0, <1>1, <2>1, <2>2, <2>6, <2>7, OfferTaken
    DEF OfferInv, OnlyBleProvisions, BleIsTold
  <2> QED BY <2>5, <2>8
<1>7. CASE ProvisioningStarted
  <2>1. /\ Take("provisioning") /\ flags' = [flags EXCEPT !.ble = TRUE, !.provisioning = TRUE]
        /\ UNCHANGED <<wifi, service, past>> /\ "provisioning" \in Posted /\ "provisioning" \notin Signals
    BY <1>7 DEF ProvisioningStarted, Posted, Signals
  <2>2. path = "ble" /\ service # "off"
    BY <1>1, <1>2, <2>1 DEF OfferInv, OnlyBleProvisions
  <2>3. flags'.ready = flags.ready /\ flags'.softap = flags.softap /\ flags'.provisioning = TRUE
    BY <1>1, <2>1 DEF Flags
  <2>4. ReadyInv'
    BY <1>1, <2>1, <2>3, ReadyTaken DEF ReadyInv, Flags
  <2>5. OfferInv'
    BY <1>0, <1>1, <2>1, <2>2, <2>3, OfferTaken DEF OfferInv, OnlySoftapHasAccessPoint, SoftapIsTold
  <2> QED BY <2>4, <2>5
<1>8. CASE ProvisioningEnded
  <2>1. /\ Take("provisioned") /\ flags' = Cleared /\ service' = "off"
        /\ UNCHANGED <<wifi, past>> /\ "provisioned" \in Posted /\ "provisioned" \notin Signals
    BY <1>8 DEF ProvisioningEnded, Posted, Signals
  <2>2. path = "ble"
    BY <1>1, <1>2, <2>1 DEF OfferInv, OnlyBleProvisions
  <2>3. flags'.ready = flags.ready /\ flags'.softap = FALSE /\ flags'.provisioning = FALSE
    BY <1>1, <2>1 DEF Flags, Cleared
  <2>4. ReadyInv'
    BY <1>1, <2>1, <2>3, ReadyTaken DEF ReadyInv, Flags
  <2>5. OfferInv'
    BY <1>0, <1>1, <2>1, <2>2, <2>3, OfferTaken DEF OfferInv, OnlySoftapHasAccessPoint, SoftapIsTold
  <2> QED BY <2>4, <2>5
<1> QED BY <1>4, <1>5, <1>6, <1>7, <1>8 DEF HandleEvent

\* The steps of a join, a phone, the driver and the world.
LEMMA OthersStatus ==
  ASSUME WifiInv, StatusInv,
         \/ \E n \in Credentials : SubmitByPhone(n)
         \/ \E c \in Callers : JoinStep(c) \/ \E n \in Credentials : JoinBegin(c, n)
         \/ Driver \/ GoOutOfReach \/ ComeIntoReach
  PROVE  StatusInv'
<1>0. UNCHANGED <<path, reset>>
  BY DEF SubmitByPhone, JoinStep, JoinMode, JoinConfig, JoinConnect, Joins, JoinBegin, Driver, Associate,
         Refuse, GoOutOfReach, ComeIntoReach, World
<1> SUFFICES ASSUME path # "off", reset = "no" PROVE ReadyInv' /\ OfferInv'
  BY <1>0, PastKept DEF StatusInv, WifiNext
<1>1. /\ PastTypes /\ WifiTypes /\ ReadyInv /\ OfferInv /\ flags \in Flags /\ wifi \in Drivers
      /\ events \in Seq(Posted) /\ flags.ready \in BOOLEAN /\ (wifi.link = "up") \in BOOLEAN
  BY DEF WifiInv, WifiTypes, StatusInv, Flags
<1>2. ASSUME NEW n \in Credentials, Provision(n)
      PROVE  /\ wifi'.mode = wifi.mode /\ (wifi'.link = "up") = (wifi.link = "up")
             /\ (service' # "off") = (service # "off")
  BY <1>1, <1>2 DEF Provision, Drivers
<1>3. ASSUME UNCHANGED <<flags, past, events>>, wifi'.mode = wifi.mode,
             (wifi'.link = "up") = (wifi.link = "up"), (service' # "off") = (service # "off"),
             \A c \in Callers : caller'[c].pc # "idle" /\ caller'[c].softap =>
               flags.softap \/ (caller[c].pc # "idle" /\ caller[c].softap)
      PROVE  ReadyInv' /\ OfferInv'
  <2>1. (HasAccessPoint(wifi') <=> HasAccessPoint(wifi))
    BY <1>3 DEF HasAccessPoint
  <2> QED BY <1>0, <1>1, <1>3, <2>1, OfferKept, OfferEvents DEF ReadyInv
<1>4. ASSUME NEW n \in Credentials, SubmitByPhone(n)
      PROVE  ReadyInv' /\ OfferInv'
  BY <1>2, <1>3, <1>4 DEF SubmitByPhone
<1>5. ASSUME NEW c \in Callers, NEW n \in Credentials, JoinBegin(c, n)
      PROVE  ReadyInv' /\ OfferInv'
  <2>1. CASE (Provision(n) \/ UNCHANGED <<service, saved, wifi>>) /\ UNCHANGED <<flags, caller>>
    BY <1>2, <1>3, <1>5, <2>1 DEF JoinBegin
  <2>2. CASE /\ flags' = [flags EXCEPT !.connect = TRUE]
             /\ caller' = [caller EXCEPT ![c] = [pc |-> "mode", with |-> n, softap |-> flags.softap]]
             /\ UNCHANGED <<service, saved, wifi>>
    <3>1. /\ flags'.ready = flags.ready /\ flags'.softap = flags.softap
          /\ flags'.provisioning = flags.provisioning /\ UNCHANGED <<events, past>>
      BY <1>1, <1>5, <2>2 DEF Flags, JoinBegin
    <3>2. \A d \in Callers : caller'[d].pc # "idle" /\ caller'[d].softap =>
            flags.softap \/ (caller[d].pc # "idle" /\ caller[d].softap)
      BY <1>1, <2>2 DEF WifiTypes
    <3>3. ReadyInv'
      BY <1>1, <2>2, <3>1 DEF ReadyInv
    <3>4. OfferInv'
      BY <1>0, <1>1, <2>2, <3>1, <3>2, OfferKept, OfferEvents
    <3> QED BY <3>3, <3>4
  <2> QED BY <1>5, <2>1, <2>2 DEF JoinBegin
<1>6. ASSUME NEW c \in Callers, JoinStep(c)
      PROVE  ReadyInv' /\ OfferInv'
  <2>1. UNCHANGED <<flags, service>>
    BY <1>6 DEF JoinStep, JoinMode, JoinConfig, JoinConnect, Joins
  <2>2. /\ caller[c].pc # "idle"
        /\ \A d \in Callers : caller'[d].pc # "idle" =>
             caller[d].pc # "idle" /\ caller'[d].softap = caller[d].softap
    BY <1>1, <1>6 DEF JoinStep, JoinMode, JoinConfig, JoinConnect, At, Go, Answer, Idle, WifiTypes, Calls
  <2>3. CASE JoinMode(c) /\ caller' = [caller EXCEPT ![c].pc = "config"]
    <3>1. /\ wifi' = IF wifi.mode = "off" THEN wifi
                       ELSE [wifi EXCEPT !.mode = IF caller[c].softap THEN "apsta" ELSE "sta"]
          /\ events' = IF wifi.mode = "ap" THEN Append(events, "started") ELSE events
          /\ past' = [past EXCEPT !.crossed = @ \/ caller[c].softap # flags.softap]
      BY <1>1, <2>2, <2>3 DEF JoinMode, Go, Answer, Idle, WifiTypes, Calls
    <3>2. "started" \in Posted /\ "started" \notin Signals
      BY DEF Posted, Signals
    <3>3. (wifi'.link = "up") = (wifi.link = "up")
      BY <1>1, <3>1 DEF Drivers
    <3>4. ReadyInv'
      <4>1. CASE events' = events
        BY <1>1, <2>1, <3>3, <4>1 DEF ReadyInv
      <4>2. CASE events' = Append(events, "started")
        BY <1>1, <2>1, <3>2, <3>3, <4>2, ReadyAppendOther DEF ReadyInv
      <4> QED BY <3>1, <4>1, <4>2
    <3>5. /\ past.crossed \/ past.failed => past'.crossed \/ past'.failed
          /\ ~(past'.crossed \/ past'.failed) => ~(past.crossed \/ past.failed) /\ caller[c].softap = flags.softap
      BY <1>1, <3>1 DEF PastTypes
    <3>6. wifi.mode = "off" \/ (HasAccessPoint(wifi') <=> caller[c].softap)
      <4>1. caller[c].softap \in BOOLEAN
        BY <1>1, <2>2 DEF WifiTypes, Calls
      <4>2. CASE caller[c].softap = TRUE
        BY <1>1, <3>1, <4>2 DEF Drivers, HasAccessPoint
      <4>3. CASE caller[c].softap = FALSE
        <5>1. wifi.mode = "off" \/ wifi'.mode = "sta"
          BY <1>1, <3>1, <4>3 DEF Drivers
        <5>2. wifi.mode = "off" \/ ~HasAccessPoint(wifi')
          BY <5>1 DEF HasAccessPoint
        <5> QED BY <4>3, <5>2
      <4> QED BY <4>1, <4>2, <4>3
    <3>7. path # "softap" \/ ~(past'.crossed \/ past'.failed) => (HasAccessPoint(wifi') <=> HasAccessPoint(wifi))
      <4>1. CASE wifi.mode = "off"
        BY <3>1, <4>1
      <4>2. CASE wifi.mode # "off" /\ path # "softap"
        <5>1. ~HasAccessPoint(wifi) /\ ~caller[c].softap
          BY <1>1, <2>2, <4>2 DEF OfferInv, OnlySoftapHasAccessPoint
        <5>2. ~HasAccessPoint(wifi')
          BY <3>6, <4>2, <5>1
        <5> QED BY <5>1, <5>2 DEF HasAccessPoint
      <4>3. CASE wifi.mode # "off" /\ path = "softap" /\ ~(past'.crossed \/ past'.failed)
        BY <1>1, <3>5, <3>6, <4>3 DEF OfferInv, SoftapIsTold
      <4> QED BY <4>1, <4>2, <4>3
    <3>8. OfferInv'
      BY <1>0, <1>1, <2>1, <2>2, <3>1, <3>2, <3>5, <3>7, OfferKept, OfferEvents
    <3> QED BY <3>4, <3>8
  <2>4. CASE ~(JoinMode(c) /\ caller' = [caller EXCEPT ![c].pc = "config"])
    <3>1. wifi' = wifi \/ Connect
      BY <1>6, <2>4 DEF JoinStep, JoinMode, JoinConfig, JoinConnect, Go
    <3>2. wifi'.mode = wifi.mode /\ (wifi'.link = "up") = (wifi.link = "up")
      BY <1>1, <3>1, ConnectTypes DEF WifiTypes
    <3>3. UNCHANGED <<past, events>>
      BY <1>6, <2>4 DEF JoinStep, JoinMode, JoinConfig, JoinConnect, Go
    <3> QED BY <1>3, <2>1, <2>2, <3>2, <3>3
  <2> QED BY <2>3, <2>4
<1>7. ASSUME NEW e \in Signals, wifi'.mode = wifi.mode, (wifi'.link = "up") = (e = "address"),
             \/ events' = Append(events, e)
             \/ service = "joining" /\ events' = Append(Append(events, e), "provisioned"),
             (service' # "off") = (service # "off"), UNCHANGED <<flags, caller>>,
             past'.crossed = past.crossed /\ past'.failed = past.failed
      PROVE  ReadyInv' /\ OfferInv'
  <2>1. /\ e \in Posted /\ "provisioned" \in Posted /\ e # "provisioning" /\ e # "provisioned"
        /\ "provisioned" \notin Signals /\ Append(events, e) \in Seq(Posted)
    BY <1>1 DEF Posted, Signals
  <2>2. (HasAccessPoint(wifi') <=> HasAccessPoint(wifi))
    BY <1>7 DEF HasAccessPoint
  <2>3. ReadyFollows(Append(events, e), flags.ready, e = "address")
    BY <1>1, ReadyAppendSignal
  <2>4. CASE events' = Append(events, e)
    <3>1. OfferInv'
      BY <1>0, <1>1, <1>7, <2>1, <2>2, <2>4, OfferKept, OfferEvents
    <3>2. ReadyInv'
      BY <1>7, <2>3, <2>4 DEF ReadyInv
    <3> QED BY <3>1, <3>2
  <2>5. CASE service = "joining" /\ events' = Append(Append(events, e), "provisioned")
    <3>1. path = "ble"
      BY <1>1, <2>5 DEF OfferInv, OnlyBleProvisions
    <3>2. /\ Len(events) \in Nat /\ Len(events') = Len(events) + 2
          /\ events'[Len(events) + 1] = e /\ events'[Len(events) + 2] = "provisioned"
          /\ \A i \in 1 .. Len(events) : events'[i] = events[i]
      BY <1>1, <2>1, <2>5
    <3>3. \A i \in 1 .. Len(events') : i \in 1 .. Len(events) \/ i = Len(events) + 1 \/ i = Len(events) + 2
      BY <3>2
    <3>4. \A i \in 1 .. Len(events') : events'[i] = "provisioning" =>
            i \in 1 .. Len(events) /\ events[i] = "provisioning"
      BY <2>1, <3>2, <3>3
    <3>5. Len(events) > 0 /\ events[1] = "provisioning" => Len(events') > 0 /\ events'[1] = "provisioning"
      BY <3>2
    <3>6. OfferInv'
      BY <1>0, <1>1, <1>7, <2>2, <3>1, <3>4, <3>5, OfferKept
    <3>7. ReadyInv'
      BY <1>1, <1>7, <2>1, <2>3, <2>5, ReadyAppendOther DEF ReadyInv
    <3> QED BY <3>6, <3>7
  <2> QED BY <1>7, <2>4, <2>5
<1>8. CASE Associate
  <2>1. /\ wifi' = [wifi EXCEPT !.link = "up"] /\ past' = [past EXCEPT !.joined = TRUE]
        /\ events' = events \o IF service = "joining" THEN <<"address", "provisioned">> ELSE <<"address">>
        /\ UNCHANGED <<service, flags, caller>>
    BY <1>8 DEF Associate, World
  <2>2. /\ service = "joining" => events' = Append(Append(events, "address"), "provisioned")
        /\ service # "joining" => events' = Append(events, "address")
    BY <1>1, <2>1
  <2>3. wifi'.mode = wifi.mode /\ wifi'.link = "up" /\ past'.crossed = past.crossed /\ past'.failed = past.failed
    BY <1>1, <2>1 DEF Drivers, PastTypes
  <2>4. "address" \in Signals
    BY DEF Signals
  <2> QED BY <1>7, <2>1, <2>2, <2>3, <2>4
<1>9. CASE Refuse \/ (GoOutOfReach /\ wifi.link = "up")
  <2>1. /\ wifi' = [wifi EXCEPT !.link = "down"] /\ events' = Append(events, "lost")
        /\ (service' # "off") = (service # "off") /\ UNCHANGED <<past, flags, caller>>
    BY <1>9 DEF Refuse, GoOutOfReach, World
  <2>2. wifi'.mode = wifi.mode /\ wifi'.link = "down" /\ "lost" \in Signals
    BY <1>1, <2>1 DEF Drivers, Signals
  <2> QED BY <1>7, <2>1, <2>2
<1>10. CASE ComeIntoReach \/ (GoOutOfReach /\ wifi.link # "up")
  BY <1>3, <1>10 DEF ComeIntoReach, GoOutOfReach, World
<1> QED BY <1>4, <1>5, <1>6, <1>8, <1>9, <1>10 DEF Driver

LEMMA StatusStep ==
  ASSUME WifiInv, StatusInv, [WifiNext]_wifiVars
  PROVE  StatusInv'
<1>1. PastTypes'
  BY PastKept DEF StatusInv
<1>2. CASE Restart \/ ResetStop \/ ResetStep
  BY <1>1, <1>2 DEF Restart, ResetStop, ResetStep, ResetRestore, ResetRestart, Off, StatusInv
<1>3. CASE UNCHANGED wifiVars
  BY <1>1, <1>3
  DEF wifiVars, StatusInv, ReadyInv, OfferInv, OnlySoftapHasAccessPoint, SoftapIsTold, OnlyBleProvisions,
      BleIsTold, HasAccessPoint
<1> QED BY <1>2, <1>3, BootStatus, HandlersStatus, OthersStatus DEF WifiNext, StatusInv

\* Once the posted events are handled the status tells whether provisioning is offered
\* and whether the link is up, however boots, joins, outages, resets and failures of
\* the driver interleave, with the two exceptions the property names.
THEOREM StatusIsTrue == WifiSpec => []NetworkStatusTrue
<1>1. WifiInit => StatusInv
  BY DEF WifiInit, StatusInv, PastTypes
<1>2. WifiInv /\ StatusInv => NetworkStatusTrue
  <2> SUFFICES ASSUME WifiInv, StatusInv, Running, events = <<>>
               PROVE  /\ past.crossed \/ past.failed \/ flags.provisioning = Offered
                      /\ flags.ready = (wifi.link = "up")
    BY DEF NetworkStatusTrue
  <2>1. ReadyInv /\ OfferInv /\ Len(events) = 0 /\ flags.provisioning \in BOOLEAN
    BY DEF StatusInv, Running, WifiInv, WifiTypes, Flags
  <2>2. flags.ready = (wifi.link = "up")
    BY <2>1 DEF ReadyInv, ReadyFollows
  <2>3. CASE past.crossed \/ past.failed
    BY <2>2, <2>3
  <2>4. CASE ~(past.crossed \/ past.failed)
    <3>1. path = "station" => ~flags.provisioning /\ ~HasAccessPoint(wifi) /\ service = "off"
      BY <2>1 DEF OfferInv, OnlySoftapHasAccessPoint, OnlyBleProvisions
    <3>2. path = "softap" => (flags.provisioning <=> HasAccessPoint(wifi)) /\ service = "off"
      BY <2>1, <2>4 DEF OfferInv, SoftapIsTold, OnlyBleProvisions
    <3>3. path = "ble" => ~HasAccessPoint(wifi) /\ (flags.provisioning <=> service # "off")
      BY <2>1 DEF OfferInv, OnlySoftapHasAccessPoint, BleIsTold
    <3>4. flags.provisioning <=> HasAccessPoint(wifi) \/ service # "off"
      BY <3>1, <3>2, <3>3 DEF WifiInv, WifiTypes, Running
    <3>5. flags.provisioning = Offered
      BY <2>1, <3>4, Zenon DEF Offered
    <3> QED BY <2>2, <3>5
  <2> QED BY <2>3, <2>4
<1> QED BY <1>1, <1>2, InitWifiInv, WifiStep, StatusStep, PTL DEF WifiSpec
=============================================================================
