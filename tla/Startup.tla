------------------------------- MODULE Startup -------------------------------
(***************************************************************************)
(* serveConnectIPArgs of cmd/jiejie-masque/main.go from its start to its   *)
(* return, run as a systemd unit with Restart=on-failure.  What the server *)
(* does while it serves, and how it shuts down, is ConnectIPServer; here   *)
(* that is one step.  The deferred Close calls release what the end of the *)
(* process releases, so returning and ending are one step too.             *)
(***************************************************************************)
EXTENDS TunDevice

CONSTANT MaxFaults   \* bound: system calls that fail and processes killed

ASSUME MaxFaultsAssumption == MaxFaults \in Nat

VARIABLES
  unit,        \* the process exists, systemd waits RestartSec, or neither
  dispatcher,  \* tunDispatcher
  fatal,       \* a message waits in the fatal channel
  signalled,   \* SIGTERM has been delivered to the sig channel
  stopAsked,   \* systemctl stop
  listenerGone,\* history: ServeListener returned as if the server was closed
  faulted,     \* history: something failed since this process was started
  faults       \* history: number of faults

processVars == <<unit, dispatcher, fatal, signalled>>
historyVars == <<listenerGone, faulted, faults>>
vars == <<deviceVars, processVars, stopAsked, historyVars>>

Init ==
  /\ DeviceInit
  /\ unit = "active"
  /\ dispatcher = "none"
  /\ fatal = FALSE
  /\ signalled = FALSE
  /\ stopAsked = FALSE
  /\ listenerGone = FALSE
  /\ faulted = FALSE
  /\ faults = 0

Fault ==
  /\ faults < MaxFaults
  /\ faults' = faults + 1
  /\ faulted' = TRUE
  /\ UNCHANGED listenerGone

-----------------------------------------------------------------------------
(* The end of a process and systemd                                        *)

\* The process ends; its goroutines and descriptors go with it.
Ends(status) ==
  /\ step' = "ended"
  /\ unit' = IF status = "failure" /\ ~stopAsked THEN "waiting" ELSE "inactive"
  /\ fd' = "none"
  /\ iface' = Detached
  /\ dispatcher' = "none"
  /\ fatal' = FALSE
  /\ signalled' = FALSE
  /\ UNCHANGED setup

\* log.Fatal of the error a failed step has returned.
ReturnError ==
  /\ step = "failed"
  /\ Ends("failure")
  /\ UNCHANGED <<stopAsked, historyVars>>

Kill ==
  /\ unit = "active"
  /\ Fault
  /\ Ends("failure")
  /\ UNCHANGED stopAsked

\* RestartSec is over.
Restart ==
  /\ unit = "waiting"
  /\ unit' = "active"
  /\ step' = "load"
  /\ faulted' = FALSE
  /\ UNCHANGED <<setup, fd, iface, dispatcher, fatal, signalled, stopAsked,
                 listenerGone, faults>>

\* systemctl stop.  Before signal.Notify SIGTERM ends the process.
StopUnit ==
  /\ ~stopAsked
  /\ stopAsked' = TRUE
  /\ \/ /\ unit = "active" /\ step = "serving"
        /\ signalled' = TRUE
        /\ UNCHANGED <<deviceVars, unit, dispatcher, fatal>>
     \/ /\ unit = "active" /\ step # "serving"
        /\ Ends("success")
     \/ /\ unit # "active"
        /\ unit' = "inactive"
        /\ UNCHANGED <<deviceVars, dispatcher, fatal, signalled>>
  /\ UNCHANGED historyVars

-----------------------------------------------------------------------------
(* serveConnectIPArgs                                                      *)

\* The configuration, the addresses, the clients and the certificate are read.
Load ==
  /\ Goes("load", "open")
  /\ UNCHANGED <<fd, iface, processVars, stopAsked, historyVars>>

\* tunnel.Open and ConfigureAddresses
ConfigureDevice ==
  /\ DeviceStep
  /\ UNCHANGED <<processVars, stopAsked, historyVars>>

DeviceError ==
  /\ DeviceFails
  /\ Fault
  /\ UNCHANGED <<processVars, stopAsked>>

\* net.ListenPacket, and the dispatcher is started.
ListenPacket ==
  /\ Goes("configured", "listen")
  /\ dispatcher' = "reading"
  /\ UNCHANGED <<fd, iface, unit, fatal, signalled, stopAsked, historyVars>>

\* transport.Listen; the server takes requests and waits in its select.
Listen ==
  /\ Goes("listen", "serving")
  /\ UNCHANGED <<fd, iface, processVars, stopAsked, historyVars>>

\* The configuration is refused, the port is taken, ...
StepFails ==
  /\ \E s \in {"load", "configured", "listen"} : Goes(s, "failed")
  /\ Fault
  /\ UNCHANGED <<fd, iface, processVars, stopAsked>>

\* Mutant of DispatcherFails: fatal has no buffer and the send does not wait.
DispatcherFailsUnheard ==
  /\ dispatcher = "reading"
  /\ dispatcher' = "failed"
  /\ fatal' = (step = "serving")
  /\ Fault
  /\ UNCHANGED <<deviceVars, unit, signalled, stopAsked>>

\* The device fails under the dispatcher, which may be before the select: the
\* message waits in the buffer.
DispatcherFails ==
  /\ dispatcher = "reading"
  /\ dispatcher' = "failed"
  /\ fatal' = TRUE
  /\ Fault
  /\ UNCHANGED <<deviceVars, unit, signalled, stopAsked>>

ReturnOnSignal ==
  /\ step = "serving"
  /\ signalled
  /\ Ends("success")
  /\ UNCHANGED <<stopAsked, historyVars>>

\* Mutant of ReturnOnFatal: the error is logged and not returned.
ReturnNilOnFatal ==
  /\ step = "serving"
  /\ fatal
  /\ Ends("success")
  /\ UNCHANGED <<stopAsked, historyVars>>

ReturnOnFatal ==
  /\ step = "serving"
  /\ fatal
  /\ Ends("failure")
  /\ UNCHANGED <<stopAsked, historyVars>>

\* ServeListener returns an error, which is dropped if isServerClosed.
ReturnOnServeError ==
  /\ step = "serving"
  /\ faults < MaxFaults
  /\ faults' = faults + 1
  /\ faulted' = TRUE
  /\ \/ Ends("failure") /\ UNCHANGED listenerGone
     \/ Ends("success") /\ listenerGone' = TRUE
  /\ UNCHANGED stopAsked

\* What the program and systemd do by themselves.
Progress ==
  \/ Load \/ ConfigureDevice \/ ListenPacket \/ Listen
  \/ ReturnError \/ ReturnOnSignal \/ ReturnOnFatal \/ Restart

Failure ==
  DeviceError \/ StepFails \/ DispatcherFails \/ ReturnOnServeError \/ Kill

Rests == unit = "inactive" /\ UNCHANGED vars

Next == Progress \/ Failure \/ StopUnit \/ Rests

Spec == Init /\ [][Next]_vars

\* The program runs, and systemd restarts it.  Nothing has to fail and nobody
\* has to stop it.
LiveSpec == Spec /\ WF_vars(Progress)

-----------------------------------------------------------------------------
(* Properties                                                              *)

Listening == {"listen", "serving"}

TypeOK ==
  /\ setup \in Setup
  /\ step \in Configuring \cup Listening \cup {"load", "ended"}
  /\ fd \in {"none", "raw", "file"}
  /\ iface \in Interface
  /\ unit \in {"active", "waiting", "inactive"}
  /\ dispatcher \in {"none", "reading", "failed"}
  /\ fatal \in BOOLEAN
  /\ signalled \in BOOLEAN
  /\ stopAsked \in BOOLEAN
  /\ listenerGone \in BOOLEAN
  /\ faulted \in BOOLEAN
  /\ faults \in 0..MaxFaults

\* A server that listens has an open device, and the interface passes the check
\* for each server prefix, whatever earlier processes have left on it.  The one
\* exception is an IPv6 address that the deployment has set with another prefix
\* length: that length stays, and no error tells.
ListeningIsConfigured ==
  step \in Listening =>
    /\ fd = "file"
    /\ \A p \in Prefixes :
         CheckInterface(p, TunnelMTU) <=> ~(p = setup.v6 /\ LengthKept)

\* However many processes have failed or been killed, and wherever, a server
\* that listens has the interface that a single undisturbed start makes of the
\* deployed one: what a start leaves half done, the next one completes, and
\* what others have configured it leaves alone.
StartsConverge == step \in Listening => iface = OneStart

\* The interface comes up with the tunnel's MTU, the IPv4 address and its mask
\* already set, on an open device, for either family alone or both: the kernel
\* never begins to route to a half configured interface.
ComesUpConfigured ==
  [][ ~iface.up /\ iface'.up =>
        /\ fd = "file"
        /\ iface.mtu = TunnelMTU
        /\ setup.v4 # NoPrefix => iface.v4 = setup.v4 ]_vars

\* A server that serves has its dispatcher, or is about to learn that it has
\* lost it, even if that happened before it began to wait.
DispatcherLossIsNoticed ==
  step = "serving" => dispatcher = "reading" \/ fatal

\* The program and systemd wait: for a reason to stop serving, or for good.
StartupWaits ==
  \/ step = "serving" /\ ~fatal /\ ~signalled
  \/ unit = "inactive"

\* Where the program and systemd wait, the server serves with its dispatcher on
\* the interface of an undisturbed start and has not been asked to stop, or the
\* unit is down because somebody stopped it or its listener was gone: no failure
\* ends a start without a restart or with half a server, and no stop request is
\* lost between one process and the next.
StartupRestIsSettled ==
  StartupWaits =>
    \/ /\ unit = "active" /\ step = "serving" /\ ~stopAsked
       /\ dispatcher = "reading" /\ fd = "file" /\ iface = OneStart
    \/ unit = "inactive" /\ (stopAsked \/ listenerGone)

\* Under LiveSpec, the unit comes to serve again after any number of failures,
\* unless somebody stops it or its listener is gone.
Recovers == []<>(step = "serving" \/ stopAsked \/ listenerGone)

=============================================================================
