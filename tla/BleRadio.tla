------------------------------ MODULE BleRadio ------------------------------
(***************************************************************************)
(* Being found and finding, over Bluetooth on Android: advertising by      *)
(* BleGattServer.kt, scanning by BleScanner.kt and what BleTransport.kt    *)
(* remembers of both when the user switches Bluetooth off and on.          *)
(*                                                                         *)
(* The stack is external.  It does what it is asked in order and reports   *)
(* it later (owed); the state of the adapter changes first and is heard of *)
(* second (notices).                                                       *)
(***************************************************************************)
EXTENDS Naturals, Sequences, SequencesExt

CONSTANTS
  MaxPowerCycles,    \* bound on switching Bluetooth off
  MaxRequests,       \* bound on start and stop calls of the application
  MaxScanFailures,   \* bound on scans the stack ends
  MaxFallbacks       \* bound on advertising sets the stack refuses

ASSUME BleRadioAssumption ==
  {MaxPowerCycles, MaxRequests, MaxScanFailures, MaxFallbacks} \subseteq Nat

VARIABLES
  power,             \* external: the adapter is on
  notices,           \* adapter states broadcast and not yet handled
  wanted,            \* BleTransport: advertisedToken, wantsDiscovery, radioDown
  beacon,            \* BleGattServer: server, serviceAdded, wantsAdvertising, advertising
  scan,              \* BleScanner: scanning, pendingRestart
  onAir,             \* external: which advertiser transmits
  scanOn,            \* external: the stack scans for us
  owedRadio,         \* external: callbacks to come
  cycles, requests, scanFailures, fallbacks

radioVars == <<power, notices, wanted, beacon, scan, onAir, scanOn, owedRadio,
               cycles, requests, scanFailures, fallbacks>>

NoBeacon == [open |-> FALSE, added |-> FALSE, wants |-> FALSE, advertising |-> FALSE,
             legacy |-> FALSE]

\* What one run of the handler does to the server, the air and the callbacks owed.
Beacon == [server |-> beacon, air |-> onAir, owed |-> owedRadio]

-----------------------------------------------------------------------------
\* stopAdvertising(): nothing is asked of the stack unless we believe we advertise.
StoppedAdvertising(b) ==
  LET w == [b EXCEPT !.server.wants = FALSE]
  IN  IF ~b.server.advertising THEN w
      ELSE IF b.server.legacy
      THEN [w EXCEPT !.server.advertising = FALSE, !.air = @ \ {"legacy"}]
      ELSE [w EXCEPT !.server.advertising = FALSE, !.air = @ \ {"set"},
                     !.owed = Append(@, "setStopped")]

\* startLegacyAdvertising()
Legacy(b) ==
  [b EXCEPT !.server.legacy = TRUE, !.server.advertising = TRUE,
            !.air = @ \cup {"legacy"}, !.owed = Append(@, "legacyStarted")]

\* beginAdvertising(): what was on the air is replaced, by an advertising set or,
\* where that is refused, by the legacy advertiser.
Begun(b) ==
  LET w == [StoppedAdvertising(b) EXCEPT !.server.wants = TRUE]
  IN  {Legacy(w),
       [w EXCEPT !.server.legacy = FALSE, !.server.advertising = TRUE,
                 !.air = @ \cup {"set"}, !.owed = Append(@, "setStarted")]}

\* ensureServer(): opened when there is none and the radio is on; the service is
\* registered later.
EnsuredServer(b) ==
  IF b.server.open \/ ~power THEN b
  ELSE [b EXCEPT !.server.open = TRUE, !.server.added = FALSE,
                 !.owed = Append(@, "serviceAdded")]

\* BleGattServer.startAdvertising(): deferred until the service is registered.
StartedAdvertising(b) ==
  LET w == EnsuredServer([b EXCEPT !.server.wants = TRUE])
  IN  IF w.server.added THEN Begun(w) ELSE {w}

\* BleGattServer.stop()
StoppedServer(b) ==
  [StoppedAdvertising(b) EXCEPT !.server = [NoBeacon EXCEPT !.legacy = b.server.legacy],
     !.owed = SelectSeq(@, LAMBDA c : c # "serviceAdded")]

\* Mutant of BleScanner.stop(): a queued restart is forgotten, not cancelled.
MutantStoppedScan(s) == [s EXCEPT !.scanning = FALSE]

\* BleScanner.stop()
StoppedScan(s) == [s EXCEPT !.scanning = FALSE, !.restart = FALSE]

Shines(b) == beacon' = b.server /\ onAir' = b.air /\ owedRadio' = b.owed

RadioInit ==
  /\ power \in BOOLEAN
  /\ notices = <<>>
  /\ wanted = [ad |-> FALSE, scan |-> FALSE, radioDown |-> FALSE]
  /\ onAir = {}
  /\ beacon = [NoBeacon EXCEPT !.open = power]
  /\ owedRadio = IF power THEN <<"serviceAdded">> ELSE <<>>
  /\ scan = [scanning |-> FALSE, restart |-> FALSE]
  /\ scanOn = FALSE
  /\ cycles = 0
  /\ requests = 0
  /\ scanFailures = 0
  /\ fallbacks = 0

-----------------------------------------------------------------------------
Request == requests < MaxRequests /\ requests' = requests + 1

\* startAdvertising(), again when the token rotates; it throws with the radio off.
StartAdvertising ==
  /\ Request
  /\ power
  /\ \E b \in StartedAdvertising(Beacon) : Shines(b)
  /\ wanted' = [wanted EXCEPT !.ad = TRUE]
  /\ UNCHANGED <<power, notices, scan, scanOn, cycles, scanFailures, fallbacks>>

StopAdvertising ==
  /\ Request
  /\ Shines(StoppedAdvertising(Beacon))
  /\ wanted' = [wanted EXCEPT !.ad = FALSE]
  /\ UNCHANGED <<power, notices, scan, scanOn, cycles, scanFailures, fallbacks>>

\* startDiscovery(), and BleScanner.start(): it throws with the radio off.
StartDiscovery ==
  /\ Request
  /\ power \/ scan.scanning
  /\ wanted' = [wanted EXCEPT !.scan = TRUE]
  /\ IF scan.scanning THEN UNCHANGED <<scan, scanOn>>
     ELSE scan' = [StoppedScan(scan) EXCEPT !.scanning = TRUE] /\ scanOn' = TRUE
  /\ UNCHANGED <<power, notices, beacon, onAir, owedRadio, cycles, scanFailures, fallbacks>>

StopDiscovery ==
  /\ Request
  /\ wanted' = [wanted EXCEPT !.scan = FALSE]
  /\ scan' = StoppedScan(scan)
  /\ scanOn' = (scanOn /\ ~scan.scanning)
  /\ UNCHANGED <<power, notices, beacon, onAir, owedRadio, cycles, scanFailures, fallbacks>>

-----------------------------------------------------------------------------
Heard(callback) == owedRadio # <<>> /\ Head(owedRadio) = callback
Told == [Beacon EXCEPT !.owed = Tail(@)]

\* onServiceAdded(): what was deferred begins.
ServiceAdded ==
  /\ Heard("serviceAdded")
  /\ LET b == [Told EXCEPT !.server.added = TRUE]
     IN  \E w \in IF b.server.wants /\ ~b.server.advertising THEN Begun(b) ELSE {b} : Shines(w)
  /\ UNCHANGED <<power, notices, wanted, scan, scanOn, cycles, requests, scanFailures, fallbacks>>

\* onAdvertisingSetStarted() and onStartSuccess()
AdvertiserStarted ==
  /\ Heard("setStarted") \/ Heard("legacyStarted")
  /\ Shines([Told EXCEPT !.server.advertising = TRUE])
  /\ UNCHANGED <<power, notices, wanted, scan, scanOn, cycles, requests, scanFailures, fallbacks>>

\* onAdvertisingSetStarted() with a failure: the legacy advertiser takes over.
SetRefused ==
  /\ owedRadio = <<"setStarted">>
  /\ fallbacks < MaxFallbacks
  /\ fallbacks' = fallbacks + 1
  /\ LET b == [Told EXCEPT !.server.advertising = FALSE, !.air = @ \ {"set"}]
     IN  Shines(IF b.server.wants THEN Legacy(b) ELSE b)
  /\ UNCHANGED <<power, notices, wanted, scan, scanOn, cycles, requests, scanFailures>>

SetStopped ==
  /\ Heard("setStopped")
  /\ Shines([Told EXCEPT !.server.advertising = FALSE])
  /\ UNCHANGED <<power, notices, wanted, scan, scanOn, cycles, requests, scanFailures, fallbacks>>

\* onScanFailed(): a recoverable failure is retried, by one queued restart.
ScanFails ==
  /\ scanOn /\ scanFailures < MaxScanFailures
  /\ scanFailures' = scanFailures + 1
  /\ scanOn' = FALSE
  /\ scan' = [scanning |-> FALSE, restart |-> TRUE]
  /\ UNCHANGED <<power, notices, wanted, beacon, onAir, owedRadio, cycles, requests, fallbacks>>

RestartScan ==
  /\ scan.restart
  /\ scan' = [scanning |-> power, restart |-> FALSE]
  /\ scanOn' = power
  /\ UNCHANGED <<power, notices, wanted, beacon, onAir, owedRadio, cycles, requests,
                 scanFailures, fallbacks>>

-----------------------------------------------------------------------------
\* External: the user switches Bluetooth off, and on.  The stack forgets everything,
\* and takes seconds to come back: the handler has heard of the one by the other.
PowerOff ==
  /\ power /\ cycles < MaxPowerCycles
  /\ cycles' = cycles + 1
  /\ power' = FALSE
  /\ notices' = Append(notices, "off")
  /\ onAir' = {} /\ scanOn' = FALSE /\ owedRadio' = <<>>
  /\ UNCHANGED <<wanted, beacon, scan, requests, scanFailures, fallbacks>>

PowerOn ==
  /\ ~power /\ notices = <<>>
  /\ power' = TRUE
  /\ notices' = Append(notices, "on")
  /\ UNCHANGED <<wanted, beacon, scan, onAir, scanOn, owedRadio, cycles, requests,
                 scanFailures, fallbacks>>

\* onAdapterState(), switching off: everything is closed, what was asked is kept.
AdapterOff ==
  /\ notices # <<>> /\ Head(notices) = "off"
  /\ notices' = Tail(notices)
  /\ wanted' = [wanted EXCEPT !.radioDown = TRUE]
  /\ IF wanted.radioDown THEN UNCHANGED <<scan, scanOn, beacon, onAir, owedRadio>>
     ELSE /\ scan' = StoppedScan(scan)
          /\ scanOn' = FALSE
          /\ Shines(StoppedServer(Beacon))
  /\ UNCHANGED <<power, cycles, requests, scanFailures, fallbacks>>

\* onAdapterState(), its part of the scanner once the radio is back.
RestoredScan ==
  IF wanted.scan /\ power THEN [StoppedScan(scan) EXCEPT !.scanning = TRUE] ELSE scan

\* onAdapterState(), on again: the server is reopened, and advertising and discovery
\* resume as they were asked for.
AdapterOn ==
  /\ notices # <<>> /\ Head(notices) = "on"
  /\ notices' = Tail(notices)
  /\ wanted' = [wanted EXCEPT !.radioDown = FALSE]
  /\ LET b == EnsuredServer(Beacon)
     IN  \E w \in IF wanted.ad /\ power THEN StartedAdvertising(b) ELSE {b} : Shines(w)
  /\ scan' = RestoredScan
  /\ scanOn' = (scan'.scanning /\ power)
  /\ UNCHANGED <<power, cycles, requests, scanFailures, fallbacks>>

RadioNext ==
  \/ StartAdvertising \/ StopAdvertising \/ StartDiscovery \/ StopDiscovery
  \/ ServiceAdded \/ AdvertiserStarted \/ SetRefused \/ SetStopped
  \/ ScanFails \/ RestartScan
  \/ PowerOff \/ PowerOn \/ AdapterOff \/ AdapterOn

RadioSpec == RadioInit /\ [][RadioNext]_radioVars

\* The stack calls back, broadcasts are handled, and the restart's delay passes.
RadioFairness ==
  /\ WF_radioVars(ServiceAdded) /\ WF_radioVars(AdvertiserStarted) /\ WF_radioVars(SetStopped)
  /\ WF_radioVars(AdapterOff) /\ WF_radioVars(AdapterOn) /\ WF_radioVars(RestartScan)

FairRadioSpec == RadioSpec /\ RadioFairness

-----------------------------------------------------------------------------
(***************************************************************************)
(* "A restart posted six seconds out and then forgotten ... puts the radio *)
(* back into a scan nobody asked for" (BleScanner.kt): the stack scans     *)
(* only while the application wants discovery.                             *)
(***************************************************************************)
ScansAreAsked == scanOn => wanted.scan

\* With the radio on, what was asked for is on the air.
AskedIsRestored ==
  power => (wanted.ad => onAir # {}) /\ (wanted.scan => scanOn)

=============================================================================
