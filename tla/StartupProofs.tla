----------------------------- MODULE StartupProofs -----------------------------
(***************************************************************************)
(* What a call of the start-up leaves for the next one, as an inductive    *)
(* invariant, and the safety properties of Startup that follow from it.    *)
(***************************************************************************)
EXTENDS Startup, TLAPS

LateSteps == {"configured", "listen", "serving"}
AfterMTU == {"setup", "ip"} \cup LateSteps
AfterAddress == {"setmtu"} \cup AfterMTU
AfterOpen == {"setaddr", "setmask"} \cup AfterAddress
AfterAttach == {"nonblock", "newfile"} \cup AfterOpen

\* What has been done by the time a call comes.
Done ==
  /\ step \in AfterOpen => fd = "file"
  /\ step \in AfterAttach => iface.exists
  /\ step \in {"setaddr", "setmask"} => setup.v4 # NoPrefix
  /\ step = "ip" => setup.v6 # NoPrefix
  /\ step = "setmask" => iface.v4 # NoPrefix /\ iface.v4[1] = setup.v4[1]
  /\ step \in AfterAddress /\ setup.v4 # NoPrefix => iface.v4 = setup.v4
  /\ step \in AfterMTU => iface.mtu = TunnelMTU
  /\ step \in {"ip"} \cup LateSteps => iface.up
  /\ step \in LateSteps /\ setup.v6 # NoPrefix =>
       iface.v6 = WithServer(setup.deployed.v6)

\* What no step takes from the deployed interface.
Kept ==
  /\ setup.v4 = NoPrefix => iface.v4 = setup.deployed.v4
  /\ setup.v6 = NoPrefix => iface.v6 = setup.deployed.v6
  /\ setup.v6 # NoPrefix =>
       iface.v6 \in {setup.deployed.v6, WithServer(setup.deployed.v6)}

\* Only the failed step leads to an error, and the dispatcher's failure is not
\* forgotten before the process ends.
Accounted ==
  /\ step = "failed" => faulted
  /\ step \in Listening => dispatcher = "reading" \/ fatal

IInv == TypeOK /\ Done /\ Kept /\ Accounted

-----------------------------------------------------------------------------
\* A first process finds an interface of any kind and has done nothing yet.
LEMMA InitIInv == Init => IInv
<1> SUFFICES ASSUME Init PROVE IInv
  OBVIOUS
<1>1. setup \in Setup /\ step = "load" /\ fd = "none" /\ iface = setup.deployed
  BY Zenon DEF Init, DeviceInit
<1>2. iface \in Interface
  <2>1. iface \in Prepared \/ iface = Gone
    BY <1>1 DEF Setup
  <2>2. Gone \in Interface
    BY DEF Gone, Interface, Interface4
  <2>3. ASSUME iface \in Prepared PROVE iface \in Interface
    BY <2>3 DEF Prepared, Interface, Interface4
  <2> QED
    BY <2>1, <2>2, <2>3
<1>3. TypeOK
  <2>1. 0 \in 0..MaxFaults
    BY MaxFaultsAssumption
  <2> QED
    BY <1>1, <1>2, <2>1 DEF Init, TypeOK
<1>4. Kept
  BY <1>1 DEF Kept
<1>5. Done /\ Accounted
  BY <1>1 DEF Init, Done, Accounted, Listening, AfterOpen, AfterAttach,
              AfterAddress, AfterMTU, LateSteps
<1> QED
  BY <1>3, <1>4, <1>5 DEF IInv

\* Setting the server's IPv6 address again changes nothing.
LEMMA WithServerOnce ==
  ASSUME NEW v6
  PROVE  WithServer(WithServer(v6)) = WithServer(v6)
<1>1. CASE \E p \in v6 : p[1] = setup.v6[1]
  BY <1>1 DEF WithServer
<1>2. CASE ~ \E p \in v6 : p[1] = setup.v6[1]
  <2>1. WithServer(v6) = v6 \cup {setup.v6}
    BY <1>2 DEF WithServer
  <2>2. setup.v6 \in WithServer(v6)
    BY <2>1
  <2> QED
    BY <2>2 DEF WithServer
<1> QED
  BY <1>1, <1>2

\* Detaching the device leaves an interface of the same kind, up only if it
\* was up, and takes nothing from a persistent one.
LEMMA DetachedOK ==
  ASSUME TypeOK, Kept
  PROVE  /\ Detached \in Interface
         /\ Detached.up => iface.up
         /\ iface' = Detached /\ setup' = setup => Kept'
<1>1. setup.deployed \in Prepared \cup {Gone}
  BY DEF TypeOK, Setup
<1>2. CASE setup.deployed.exists
  BY <1>2 DEF TypeOK, Kept, Detached, WithServer
<1>3. CASE ~setup.deployed.exists
  <2>1. setup.deployed = Gone /\ Detached = Gone
    BY <1>1, <1>3 DEF Prepared, Detached
  <2>2. Gone \in Interface /\ ~Gone.up
    BY DEF Gone, Interface, Interface4
  <2>3. iface' = Gone /\ setup' = setup => Kept'
    BY <2>1 DEF Kept, WithServer
  <2> QED
    BY <2>1, <2>2, <2>3
<1> QED
  BY <1>2, <1>3

\* What is kept concerns the addresses of the interface and the setup only.
LEMMA KeptSame ==
  ASSUME Kept, setup' = setup, iface'.v6 = iface.v6,
         setup.v4 = NoPrefix => iface'.v4 = iface.v4
  PROVE  Kept'
BY DEF Kept, WithServer

\* Each call of the device leads from Done to Done
\* and keeps what it has to.
LEMMA DeviceStepDone ==
  ASSUME TypeOK, Done, Kept, DeviceStep
  PROVE  /\ Done' /\ Kept'
         /\ iface' \in Interface
         /\ setup' = setup
         /\ step' \in Configuring \ {"failed"}
         /\ step \notin Listening
         /\ fd' \in {"none", "raw", "file"}
<1> USE DEF Done, AfterOpen, AfterAttach, AfterAddress, AfterMTU, LateSteps,
            Configuring, Goes, Listening
<1>1. CASE OpenFd
  BY <1>1, KeptSame DEF OpenFd, TypeOK
<1>2. CASE SetIff
  BY <1>2, KeptSame DEF SetIff, TypeOK, Interface
<1>3. CASE SetNonblock
  BY <1>3, KeptSame DEF SetNonblock, TypeOK
<1>4. CASE NewFile
  BY <1>4, KeptSame DEF NewFile, TypeOK, FirstConfigure
<1>5. CASE SetAddress
  <2>1. setup.v4 \in Prefix4 /\ setup.v4 # NoPrefix
    BY <1>5 DEF SetAddress, TypeOK, Setup
  <2>2. <<setup.v4[1], 32>> \in Interface4 /\ <<setup.v4[1], 32>>[1] = setup.v4[1]
    BY <2>1 DEF Interface4
  <2>3. <<setup.v4[1], 32>> # NoPrefix
    BY <2>1, PrefixAssumption
  <2> QED
    BY <1>5, <2>1, <2>2, <2>3, KeptSame DEF SetAddress, TypeOK, Interface
<1>6. CASE SetNetmask
  <2>1. setup.v4 \in Prefix4
    BY <1>6 DEF SetNetmask, TypeOK, Setup
  <2>2. <<iface.v4[1], setup.v4[2]>> = setup.v4
    BY <1>6, <2>1, PrefixAssumption DEF SetNetmask
  <2> QED
    BY <1>6, <2>1, <2>2, KeptSame DEF SetNetmask, TypeOK, Interface, Interface4
<1>7. CASE SetMTU
  BY <1>7, KeptSame DEF SetMTU, TypeOK, Interface
<1>8. CASE SetUp
  BY <1>8, KeptSame DEF SetUp, TypeOK, Interface
<1>9. CASE IpReplace
  <2>1. setup.v6 \in Prefix6 /\ setup.v6 # NoPrefix
    BY <1>9 DEF IpReplace, TypeOK, Setup
  <2>2. iface' \in Interface /\ iface'.v6 = WithServer(iface.v6)
        /\ iface' = [iface EXCEPT !.v6 = WithServer(iface.v6)]
    BY <1>9, <2>1 DEF IpReplace, WithIPv6, WithServer, TypeOK, Interface
  <2>3. WithServer(iface.v6) = WithServer(setup.deployed.v6)
    BY <2>1, WithServerOnce DEF Kept
  <2>4. Kept'
    BY <1>9, <2>1, <2>2, <2>3 DEF IpReplace, Kept, WithServer, TypeOK, Interface
  <2> QED
    BY <1>9, <2>1, <2>2, <2>3, <2>4 DEF IpReplace, WithServer, TypeOK, Interface
<1> QED
  BY <1>1, <1>2, <1>3, <1>4, <1>5, <1>6, <1>7, <1>8, <1>9 DEF DeviceStep

\* A call that fails leaves an interface of the same kind and ends the start.
LEMMA DeviceFailsOK ==
  ASSUME TypeOK, Done, Kept, DeviceFails
  PROVE  /\ Kept'
         /\ iface' \in Interface
         /\ setup' = setup
         /\ step' = "failed"
         /\ fd' \in {"none", "raw", "file"}
<1>1. CASE OpenFails
  BY <1>1, DetachedOK DEF OpenFails, Goes
<1>2. CASE ConfigureFails
  BY <1>2 DEF ConfigureFails, Goes, TypeOK, Kept, WithServer
<1>3. CASE IpFails
  <2>1. setup.v6 \in Prefix6 /\ setup.v6 # NoPrefix /\ setup' = setup
    BY <1>3 DEF IpFails, Goes, TypeOK, Done, Setup
  <2>2. iface' \in Interface
        /\ iface' \in {iface, [iface EXCEPT !.v6 = WithServer(iface.v6)]}
    BY <1>3, <2>1 DEF IpFails, WithIPv6, WithServer, TypeOK, Interface
  <2>3. WithServer(iface.v6) = WithServer(setup.deployed.v6)
    BY <2>1, WithServerOnce DEF Kept
  <2>4. iface'.v4 = iface.v4 /\ iface'.v6 \in {iface.v6, WithServer(iface.v6)}
    BY <2>2 DEF TypeOK, Interface
  <2>5. Kept'
    BY <2>1, <2>3, <2>4 DEF Kept, WithServer
  <2> QED
    BY <1>3, <2>1, <2>2, <2>5 DEF IpFails, Goes, TypeOK
<1> QED
  BY <1>1, <1>2, <1>3 DEF DeviceFails

\* Done says nothing of a start that has failed or has yet to open the device.
LEMMA DoneElsewhere ==
  ASSUME step' \in {"failed", "ended", "load", "open"}
  PROVE  Done'
BY DEF Done, AfterOpen, AfterAttach, AfterAddress, AfterMTU, LateSteps

\* Wherever a process ends, the next start can begin from what it leaves.
LEMMA EndsIInv ==
  ASSUME IInv, NEW status, Ends(status),
         stopAsked' \in BOOLEAN, listenerGone' \in BOOLEAN,
         faulted' \in BOOLEAN, faults' \in 0..MaxFaults
  PROVE  IInv'
<1>1. TypeOK'
  BY DetachedOK DEF IInv, TypeOK, Ends
<1>2. Done'
  BY DoneElsewhere DEF Ends
<1>3. Accounted'
  BY DEF Ends, Accounted, Listening
<1>4. Kept'
  BY DetachedOK DEF IInv, Ends
<1> QED
  BY <1>1, <1>2, <1>3, <1>4 DEF IInv

\* A fault is counted.
LEMMA FaultOK ==
  ASSUME TypeOK, Fault
  PROVE  /\ faults' \in 0..MaxFaults /\ faulted' = TRUE
         /\ listenerGone' = listenerGone
BY MaxFaultsAssumption DEF TypeOK, Fault

\* Every call, failure, kill and restart preserves the invariant.
LEMMA NextIInv == IInv /\ [Next]_vars => IInv'
<1> SUFFICES ASSUME IInv, [Next]_vars PROVE IInv'
  OBVIOUS
<1> USE DEF IInv
<1>1. CASE UNCHANGED vars
  BY <1>1, KeptSame DEF vars, deviceVars, processVars, historyVars, TypeOK, Done,
                        Accounted, WithServer
<1>2. CASE Load
  <2>1. TypeOK'
    BY <1>2 DEF Load, Goes, TypeOK, processVars, historyVars, Configuring
  <2>2. Accounted'
    BY <1>2 DEF Load, Goes, Accounted, Listening
  <2> QED
    BY <1>2, <2>1, <2>2, DoneElsewhere, KeptSame DEF Load, Goes
<1>3. CASE ConfigureDevice
  <2>1. Done' /\ Kept' /\ iface' \in Interface /\ setup' = setup
        /\ step' \in Configuring \ {"failed"} /\ fd' \in {"none", "raw", "file"}
    BY <1>3, DeviceStepDone DEF ConfigureDevice
  <2>2. TypeOK'
    BY <1>3, <2>1 DEF ConfigureDevice, TypeOK, processVars, historyVars
  <2>3. Accounted'
    BY <2>1 DEF Accounted, Listening, Configuring
  <2> QED
    BY <2>1, <2>2, <2>3
<1>4. CASE ListenPacket
  <2>1. TypeOK'
    BY <1>4 DEF ListenPacket, Goes, TypeOK, historyVars, Listening
  <2>2. Done'
    BY <1>4 DEF ListenPacket, Goes, Done, AfterOpen, AfterAttach, AfterAddress,
                AfterMTU, LateSteps, WithServer
  <2>3. Accounted'
    BY <1>4 DEF ListenPacket, Goes, Accounted, Listening
  <2> QED
    BY <1>4, <2>1, <2>2, <2>3, KeptSame DEF ListenPacket, Goes
<1>5. CASE Listen
  <2>1. TypeOK'
    BY <1>5 DEF Listen, Goes, TypeOK, processVars, historyVars, Listening
  <2>2. Done'
    BY <1>5 DEF Listen, Goes, Done, AfterOpen, AfterAttach, AfterAddress,
                AfterMTU, LateSteps, WithServer
  <2>3. Accounted'
    BY <1>5 DEF Listen, Goes, Accounted, Listening, processVars
  <2> QED
    BY <1>5, <2>1, <2>2, <2>3, KeptSame DEF Listen, Goes
<1>6. CASE ReturnError
  BY <1>6, EndsIInv DEF ReturnError, TypeOK, historyVars
<1>7. CASE ReturnOnSignal
  BY <1>7, EndsIInv DEF ReturnOnSignal, TypeOK, historyVars
<1>8. CASE ReturnOnFatal
  BY <1>8, EndsIInv DEF ReturnOnFatal, TypeOK, historyVars
<1>9. CASE Restart
  <2>1. TypeOK'
    BY <1>9 DEF Restart, TypeOK
  <2>2. Accounted'
    BY <1>9 DEF Restart, Accounted, Listening
  <2> QED
    BY <1>9, <2>1, <2>2, DoneElsewhere, KeptSame DEF Restart
<1>10. CASE DeviceError
  <2>1. Kept' /\ iface' \in Interface /\ setup' = setup /\ step' = "failed"
        /\ fd' \in {"none", "raw", "file"}
    BY <1>10, DeviceFailsOK DEF DeviceError
  <2>2. TypeOK' /\ Accounted'
    BY <1>10, <2>1, FaultOK
       DEF DeviceError, TypeOK, processVars, Configuring, Accounted, Listening
  <2> QED
    BY <2>1, <2>2, DoneElsewhere
<1>11. CASE StepFails
  <2>1. TypeOK' /\ Accounted'
    BY <1>11, FaultOK
       DEF StepFails, Goes, TypeOK, processVars, Configuring, Accounted, Listening
  <2> QED
    BY <1>11, <2>1, DoneElsewhere, KeptSame DEF StepFails, Goes
<1>12. CASE DispatcherFails
  <2>1. TypeOK' /\ Accounted'
    BY <1>12, FaultOK DEF DispatcherFails, TypeOK, deviceVars, Accounted
  <2>2. Done'
    BY <1>12 DEF DispatcherFails, deviceVars, Done, WithServer
  <2> QED
    BY <1>12, <2>1, <2>2, KeptSame DEF DispatcherFails, deviceVars
<1>13. CASE ReturnOnServeError
  <2>1. faults' \in 0..MaxFaults
    BY <1>13, MaxFaultsAssumption DEF ReturnOnServeError, TypeOK
  <2> QED
    BY <1>13, <2>1, EndsIInv DEF ReturnOnServeError, TypeOK
<1>14. CASE Kill
  BY <1>14, EndsIInv, FaultOK DEF Kill, TypeOK
<1>15. CASE StopUnit
  <2>1. CASE Ends("success")
    BY <1>15, <2>1, EndsIInv DEF StopUnit, TypeOK, historyVars
  <2>2. CASE UNCHANGED <<deviceVars, dispatcher, fatal>>
    <3>1. TypeOK'
      BY <1>15, <2>2 DEF StopUnit, TypeOK, historyVars, deviceVars, Ends
    <3>2. Done' /\ Accounted'
      BY <1>15, <2>2 DEF StopUnit, historyVars, deviceVars, Done, Accounted,
                         WithServer
    <3> QED
      BY <2>2, <3>1, <3>2, KeptSame DEF deviceVars
  <2> QED
    BY <1>15, <2>1, <2>2 DEF StopUnit
<1>16. CASE Rests
  BY <1>1, <1>16 DEF Rests
<1> QED
  BY <1>1, <1>2, <1>3, <1>4, <1>5, <1>6, <1>7, <1>8, <1>9, <1>10, <1>11,
     <1>12, <1>13, <1>14, <1>15, <1>16 DEF Next, Progress, Failure

\* What the calls before a step have established holds when it begins, in every
\* process of the unit and whatever the ones before it have left.
THEOREM SpecIInv == Spec => []IInv
BY InitIInv, NextIInv, PTL DEF Spec

-----------------------------------------------------------------------------
\* Startup.TypeOK for every set of prefixes and every number of faults.
THEOREM StartupTypes == Spec => []TypeOK
<1>1. IInv => TypeOK
  BY DEF IInv
<1> QED
  BY <1>1, SpecIInv, PTL

\* What CheckInterface looks for in the two families.
LEMMA CheckFindsIPv4 ==
  ASSUME TypeOK, NEW p \in Prefix4
  PROVE  (\E a \in Addrs : NormalizeInterfacePrefix(a) = p) <=> iface.v4 = p
<1>1. p = <<p[1], p[2]>> /\ p[2] \in 0..32 /\ p[1] \in IPv4Addresses /\ p # NoPrefix
  BY PrefixAssumption DEF IPv4Addresses
<1>2. ASSUME iface.v4 = p
      PROVE  \E a \in Addrs : NormalizeInterfacePrefix(a) = p
  <2> DEFINE a == [ip |-> p[1], ones |-> p[2], width |-> 32]
  <2>1. a \in Addrs
    BY <1>1, <1>2 DEF Addrs
  <2>2. NormalizeInterfacePrefix(a) = p
    BY <1>1 DEF NormalizeInterfacePrefix
  <2> QED
    BY <2>1, <2>2
<1>3. ASSUME NEW a \in Addrs, NormalizeInterfacePrefix(a) = p
      PROVE  iface.v4 = p
  <2>1. a.ip = p[1] /\ a.ones = p[2] /\ a.width = 32
    <3>1. /\ a.width = IF a.ip \in IPv4Addresses THEN 32 ELSE 128
          /\ <<a.ip, a.ones>> = p
      BY <1>1, <1>3 DEF NormalizeInterfacePrefix
    <3> QED
      BY <1>1, <3>1
  <2>2. /\ iface.v4 # NoPrefix
        /\ a = [ip |-> iface.v4[1], ones |-> iface.v4[2], width |-> 32]
    BY <2>1 DEF Addrs
  <2>3. iface.v4 = <<iface.v4[1], iface.v4[2]>>
    BY <2>2, PrefixAssumption DEF TypeOK, Interface, Interface4
  <2> QED
    BY <1>1, <2>1, <2>2, <2>3
<1> QED
  BY <1>2, <1>3

\* An IPv6 prefix is found exactly if the interface has it: IPv4 addresses, in
\* their 16-byte form too, normalise to prefixes of the other family.
LEMMA CheckFindsIPv6 ==
  ASSUME TypeOK, NEW p \in Prefix6
  PROVE  (\E a \in Addrs : NormalizeInterfacePrefix(a) = p) <=> p \in iface.v6
<1>1. p = <<p[1], p[2]>> /\ p[2] \in 0..128 /\ p[1] \notin IPv4Addresses /\ p # NoPrefix
  BY PrefixAssumption
<1>2. ASSUME p \in iface.v6
      PROVE  \E a \in Addrs : NormalizeInterfacePrefix(a) = p
  <2> DEFINE a == [ip |-> p[1], ones |-> p[2], width |-> 128]
  <2>1. a \in Addrs
    BY <1>2 DEF Addrs
  <2>2. NormalizeInterfacePrefix(a) = p
    BY <1>1 DEF NormalizeInterfacePrefix
  <2> QED
    BY <2>1, <2>2
<1>3. ASSUME NEW a \in Addrs, NormalizeInterfacePrefix(a) = p
      PROVE  p \in iface.v6
  <2>1. a.ip = p[1] /\ a.ones = p[2] /\ a.width = 128
    <3>1. /\ a.width = IF a.ip \in IPv4Addresses THEN 32 ELSE 128
          /\ <<a.ip, a.ones>> = p
      BY <1>1, <1>3 DEF NormalizeInterfacePrefix
    <3> QED
      BY <1>1, <3>1
  <2>2. PICK q \in iface.v6 : a = [ip |-> q[1], ones |-> q[2], width |-> 128]
    BY <2>1 DEF Addrs
  <2>3. q = <<q[1], q[2]>>
    BY PrefixAssumption DEF TypeOK, Interface
  <2> QED
    BY <1>1, <2>1, <2>2, <2>3
<1> QED
  BY <1>2, <1>3

\* The positions behind ConfigureAddresses.
LEMMA ListeningIsLate ==
  ASSUME step \in Listening
  PROVE  step \in LateSteps \cap AfterMTU \cap AfterAddress \cap AfterOpen \cap AfterAttach
BY DEF Listening, LateSteps, AfterOpen, AfterAttach, AfterAddress, AfterMTU

\* StartsConverge: by Done the listening server has made every change of an
\* undisturbed start, and by Kept nothing else has been changed, in the process
\* that listens or in any before it.
THEOREM AllStartsConverge == Spec => []StartsConverge
<1>1. IInv => StartsConverge
  <2> SUFFICES ASSUME IInv, step \in Listening
               PROVE  iface = OneStart
    BY DEF StartsConverge
  <2>1. iface.exists /\ iface.up /\ iface.mtu = TunnelMTU
    BY ListeningIsLate DEF IInv, Done
  <2>2. iface.v4 = IF setup.v4 = NoPrefix THEN setup.deployed.v4 ELSE setup.v4
    BY ListeningIsLate DEF IInv, Done, Kept
  <2>3. iface.v6 = IF setup.v6 = NoPrefix
                   THEN setup.deployed.v6 ELSE WithServer(setup.deployed.v6)
    BY ListeningIsLate DEF IInv, Done, Kept
  <2>4. iface = [exists |-> iface.exists, up |-> iface.up, mtu |-> iface.mtu,
                 v4 |-> iface.v4, v6 |-> iface.v6]
    BY DEF IInv, TypeOK, Interface
  <2> QED
    BY <2>1, <2>2, <2>3, <2>4 DEF OneStart
<1> QED
  BY <1>1, SpecIInv, PTL

\* "ip addr replace" leaves the server's prefix on the interface unless the
\* deployment has set the address with another length.
LEMMA PrefixIsSet ==
  ASSUME TypeOK
  PROVE  setup.v6 \in WithServer(setup.deployed.v6) <=> ~LengthKept
<1>1. OneLength(setup.deployed.v6)
  <2>1. setup.deployed \in Prepared \cup {Gone}
    BY DEF TypeOK, Setup
  <2>2. CASE setup.deployed \in Prepared
    <3>1. setup.deployed.v6 \in {v6 \in SUBSET Foreign6 : OneLength(v6)}
      BY <2>2 DEF Prepared
    <3> QED
      BY <3>1
  <2>3. CASE setup.deployed = Gone
    BY <2>3 DEF Gone, OneLength
  <2> QED
    BY <2>1, <2>2, <2>3
<1>2. CASE \E p \in setup.deployed.v6 : p[1] = setup.v6[1]
  BY <1>1, <1>2 DEF WithServer, LengthKept, OneLength
<1>3. CASE ~ \E p \in setup.deployed.v6 : p[1] = setup.v6[1]
  BY <1>3 DEF WithServer, LengthKept
<1> QED
  BY <1>2, <1>3

\* ListeningIsConfigured: when ConfigureAddresses has returned nil, the check
\* of health_linux.go passes for the IPv4 prefix, on any interface, and for the
\* IPv6 prefix exactly if the deployment has not set its address otherwise.
THEOREM ListeningConfigured == Spec => []ListeningIsConfigured
<1>1. IInv /\ StartsConverge => ListeningIsConfigured
  <2> SUFFICES ASSUME IInv, StartsConverge, step \in Listening
               PROVE  /\ fd = "file"
                      /\ \A p \in Prefixes :
                           CheckInterface(p, TunnelMTU) <=>
                             ~(p = setup.v6 /\ LengthKept)
    BY DEF ListeningIsConfigured
  <2>1. fd = "file" /\ iface.exists /\ iface.up /\ iface.mtu = TunnelMTU
    BY ListeningIsLate DEF IInv, Done
  <2>2. setup.v4 \in Prefix4 \cup {NoPrefix} /\ setup.v6 \in Prefix6 \cup {NoPrefix}
    BY DEF IInv, TypeOK, Setup
  <2>3. ASSUME NEW p \in Prefixes
        PROVE  (\E a \in Addrs : NormalizeInterfacePrefix(a) = p) <=>
                 ~(p = setup.v6 /\ LengthKept)
    <3>1. CASE p = setup.v4
      <4>1. p \in Prefix4 /\ iface.v4 = p
        BY <2>2, <2>3, <3>1, ListeningIsLate DEF IInv, Done, Prefixes
      <4>2. p # setup.v6
        BY <2>2, <4>1, PrefixAssumption DEF IPv4Addresses
      <4> QED
        BY <4>1, <4>2, CheckFindsIPv4 DEF IInv
    <3>2. CASE p = setup.v6
      <4>1. p \in Prefix6 /\ iface.v6 = WithServer(setup.deployed.v6)
        BY <2>2, <2>3, <3>2, ListeningIsLate DEF IInv, Done, Prefixes
      <4> QED
        BY <3>2, <4>1, CheckFindsIPv6, PrefixIsSet DEF IInv
    <3> QED
      BY <2>3, <3>1, <3>2 DEF Prefixes
  <2> QED
    BY <2>1, <2>3 DEF CheckInterface
<1> QED
  BY <1>1, SpecIInv, AllStartsConverge, PTL

\* ComesUpConfigured: SetUp alone raises the interface, and Done tells what has
\* been set when it comes.
THEOREM InterfaceComesUpConfigured == Spec => ComesUpConfigured
<1> DEFINE Raise ==
      ~iface.up /\ iface'.up =>
        /\ fd = "file"
        /\ iface.mtu = TunnelMTU
        /\ setup.v4 # NoPrefix => iface.v4 = setup.v4
<1>1. ASSUME IInv, [Next]_vars PROVE Raise
  <2>1. iface = [exists |-> iface.exists, up |-> iface.up, mtu |-> iface.mtu,
                 v4 |-> iface.v4, v6 |-> iface.v6]
    BY <1>1 DEF IInv, TypeOK, Interface
  <2>2. CASE UNCHANGED iface
    BY <2>2
  <2>3. CASE iface' = Detached
    BY <1>1, <2>3, DetachedOK DEF IInv
  <2>4. CASE SetUp
    BY <1>1, <2>4 DEF SetUp, Goes, IInv, Done, AfterOpen, AfterAddress, AfterMTU
  <2>5. CASE SetIff \/ SetAddress \/ SetNetmask \/ SetMTU \/ IpReplace \/ IpFails
    BY <1>1, <2>1, <2>5
       DEF SetIff, SetAddress, SetNetmask, SetMTU, IpReplace, IpFails, WithIPv6
  <2>6. CASE ConfigureDevice \/ DeviceError
    BY <2>2, <2>3, <2>4, <2>5, <2>6
       DEF ConfigureDevice, DeviceStep, OpenFd, SetNonblock, NewFile,
           DeviceError, DeviceFails, OpenFails, ConfigureFails
  <2>7. CASE Load \/ ListenPacket \/ Listen \/ Restart \/ StepFails
             \/ DispatcherFails \/ Rests \/ UNCHANGED vars
    BY <2>2, <2>7 DEF Load, ListenPacket, Listen, Restart, StepFails,
                      DispatcherFails, Rests, vars, deviceVars
  <2>8. CASE ReturnError \/ ReturnOnSignal \/ ReturnOnFatal \/ Kill
             \/ ReturnOnServeError \/ StopUnit
    BY <2>2, <2>3, <2>8 DEF ReturnError, ReturnOnSignal, ReturnOnFatal, Kill,
                            ReturnOnServeError, StopUnit, Ends, deviceVars
  <2> QED
    BY <1>1, <2>6, <2>7, <2>8 DEF Next, Progress, Failure
<1>2. IInv /\ [Next]_vars => [Raise]_vars
  BY <1>1
<1> HIDE DEF Raise
<1>3. Spec => [][Raise]_vars
  BY <1>2, SpecIInv, PTL DEF Spec
<1> QED
  BY <1>3 DEF Raise, ComesUpConfigured

\* CheckIsExact: whatever others have put on the interface, mapped addresses
\* included, the check takes nothing for a server prefix but that prefix.
THEOREM CheckExact == Spec => []CheckIsExact
<1>1. TypeOK => CheckIsExact
  BY CheckFindsIPv4, CheckFindsIPv6 DEF CheckIsExact, CheckInterface
<1> QED
  BY <1>1, StartupTypes, PTL

\* DispatcherLossIsNoticed: from the step that starts the dispatcher on, it
\* reads or its message waits in the buffer of fatal.
THEOREM DispatcherLossNoticed == Spec => []DispatcherLossIsNoticed
<1>1. IInv => DispatcherLossIsNoticed
  BY DEF IInv, Accounted, Listening, DispatcherLossIsNoticed
<1> QED
  BY <1>1, SpecIInv, PTL

-----------------------------------------------------------------------------
(* The end of a process and the next one                                   *)

\* What becomes of a stop request, a failure and a process.
UnitInv ==
  /\ unit = "active" <=> step # "ended"
  /\ step = "ended" => dispatcher = "none" /\ ~fatal
  /\ signalled => stopAsked
  /\ stopAsked => unit = "inactive" \/ signalled
  /\ unit = "inactive" => stopAsked \/ listenerGone
  /\ unit = "waiting" \/ fatal => faulted

\* A process that ends with a failure has had one, and one that ends with
\* success has been stopped or has lost its listener.
LEMMA EndsUnitInv ==
  ASSUME NEW status \in {"failure", "success"}, Ends(status),
         status = "failure" => faulted' /\ stopAsked' = stopAsked,
         status = "success" => stopAsked' \/ listenerGone'
  PROVE  UnitInv'
BY DEF Ends, UnitInv

\* Every step of the program, of systemd and of the operator preserves it.
LEMMA NextUnitInv == IInv /\ UnitInv /\ [Next]_vars => UnitInv'
<1> SUFFICES ASSUME IInv, UnitInv, [Next]_vars PROVE UnitInv'
  OBVIOUS
<1>1. /\ step = "failed" => faulted
      /\ step \in Configuring \cup Listening \cup {"load", "ended"}
  BY DEF IInv, Accounted, TypeOK
<1>2. CASE UNCHANGED vars
  BY <1>2 DEF vars, deviceVars, processVars, historyVars, UnitInv
<1>3. ASSUME UNCHANGED <<processVars, stopAsked, listenerGone>>,
             faulted => faulted', step # "ended", step' # "ended"
      PROVE  UnitInv'
  BY <1>3 DEF processVars, UnitInv
<1>4. CASE Load \/ ConfigureDevice \/ Listen
  <2>1. step # "ended" /\ step' # "ended"
    BY <1>4 DEF Load, ConfigureDevice, Listen, Goes, DeviceStep, OpenFd, SetIff,
                SetNonblock, NewFile, FirstConfigure, SetAddress, SetNetmask,
                SetMTU, SetUp, IpReplace
  <2> QED
    BY <1>3, <1>4, <2>1 DEF Load, ConfigureDevice, Listen, historyVars
<1>5. CASE ListenPacket
  BY <1>5 DEF ListenPacket, Goes, historyVars, UnitInv
<1>6. CASE DeviceError \/ StepFails
  <2>1. step # "ended" /\ step' # "ended"
    BY <1>6 DEF DeviceError, DeviceFails, OpenFails, ConfigureFails, IpFails,
                StepFails, Goes
  <2> QED
    BY <1>3, <1>6, <2>1 DEF DeviceError, StepFails, Fault
<1>7. CASE DispatcherFails
  BY <1>7 DEF DispatcherFails, Fault, deviceVars, UnitInv
<1>8. CASE ReturnError \/ ReturnOnFatal
  <2>1. Ends("failure") /\ faulted' /\ stopAsked' = stopAsked
    BY <1>1, <1>8 DEF ReturnError, ReturnOnFatal, historyVars, UnitInv
  <2> QED
    BY <2>1, EndsUnitInv
<1>9. CASE ReturnOnSignal
  <2>1. Ends("success") /\ stopAsked'
    BY <1>9 DEF ReturnOnSignal, UnitInv
  <2> QED
    BY <2>1, EndsUnitInv
<1>10. CASE Kill
  BY <1>10, EndsUnitInv DEF Kill, Fault
<1>11. CASE ReturnOnServeError
  BY <1>11, EndsUnitInv DEF ReturnOnServeError
<1>12. CASE StopUnit
  <2>1. CASE Ends("success")
    BY <1>12, <2>1, EndsUnitInv DEF StopUnit
  <2>2. CASE ~Ends("success")
    BY <1>12, <2>2 DEF StopUnit, deviceVars, historyVars, UnitInv
  <2> QED
    BY <2>1, <2>2
<1>13. CASE Restart
  BY <1>13 DEF Restart, UnitInv
<1>14. CASE Rests
  BY <1>2, <1>14 DEF Rests
<1> QED
  BY <1>2, <1>4, <1>5, <1>6, <1>7, <1>8, <1>9, <1>10, <1>11, <1>12, <1>13,
     <1>14 DEF Next, Progress, Failure

\* A stop request is heard by the process that runs or by systemd, the unit is
\* down only on purpose or with its listener, and it is restarted only after
\* something has failed: never for what was left behind.
THEOREM UnitInvariance == Spec => []UnitInv
<1>1. Init => UnitInv
  BY DEF Init, DeviceInit, UnitInv
<1> QED
  BY <1>1, NextUnitInv, SpecIInv, PTL DEF Spec

\* StartupRestIsSettled: where nobody goes on by himself, the server serves with
\* all it needs or the unit is down on purpose.
THEOREM StartupRestServes == Spec => []StartupRestIsSettled
<1>1. IInv /\ UnitInv /\ StartsConverge => StartupRestIsSettled
  BY ListeningIsLate
     DEF IInv, Done, Accounted, UnitInv, StartsConverge, Listening,
         StartupWaits, StartupRestIsSettled, TypeOK
<1> QED
  BY <1>1, SpecIInv, UnitInvariance, AllStartsConverge, PTL

-----------------------------------------------------------------------------
(* Every start goes on                                                     *)

Position == [load |-> 0, open |-> 1, setiff |-> 2, nonblock |-> 3,
             newfile |-> 4, setaddr |-> 5, setmask |-> 6, setmtu |-> 7,
             setup |-> 8, ip |-> 9, configured |-> 10, listen |-> 11,
             serving |-> 12, failed |-> 13, ended |-> 14]

\* A process only ever goes forward, past every call of the start-up once, and
\* the next one starts only where this one has ended with a failure that it
\* had itself.  With StartupRestIsSettled that is Recovers but for the
\* scheduling.
StartsAdvance ==
  [][step' # step =>
       \/ Position[step'] > Position[step]
       \/ step' = "load" /\ unit = "waiting" /\ faulted
    ]_vars

\* No step of the program, of systemd or of the operator takes a start back.
THEOREM StartsGoForward == Spec => StartsAdvance
<1> DEFINE Forward ==
      step' # step =>
        \/ Position[step'] > Position[step]
        \/ step' = "load" /\ unit = "waiting" /\ faulted
<1>1. ASSUME IInv, UnitInv, [Next]_vars PROVE Forward
  <2>1. /\ step \in Configuring \cup Listening \cup {"load", "ended"}
        /\ unit = "active" <=> step # "ended"
        /\ unit = "waiting" => faulted
    BY <1>1 DEF IInv, TypeOK, UnitInv
  <2>2. ASSUME step' = "ended" PROVE Forward
    BY <2>1, <2>2 DEF Position, Configuring, Listening
  <2>3. CASE ConfigureDevice
    BY <2>3 DEF ConfigureDevice, Goes, DeviceStep, OpenFd, SetIff, SetNonblock,
                NewFile, FirstConfigure, SetAddress, SetNetmask, SetMTU, SetUp,
                IpReplace, Position
  <2>4. CASE Load \/ ListenPacket \/ Listen
    BY <2>4 DEF Load, ListenPacket, Listen, Goes, Position
  <2>5. CASE DeviceError \/ StepFails
    BY <2>5 DEF DeviceError, DeviceFails, OpenFails, ConfigureFails, IpFails,
                StepFails, Goes, Position
  <2>6. CASE ReturnError \/ ReturnOnSignal \/ ReturnOnFatal \/ Kill
             \/ ReturnOnServeError
    BY <2>2, <2>6 DEF ReturnError, ReturnOnSignal, ReturnOnFatal, Kill,
                      ReturnOnServeError, Ends
  <2>7. CASE StopUnit
    BY <2>2, <2>7 DEF StopUnit, deviceVars, Ends
  <2>8. CASE DispatcherFails \/ Rests \/ UNCHANGED vars
    BY <2>8 DEF DispatcherFails, Rests, vars, deviceVars
  <2>9. CASE Restart
    BY <2>1, <2>9 DEF Restart
  <2> QED
    BY <1>1, <2>3, <2>4, <2>5, <2>6, <2>7, <2>8, <2>9 DEF Next, Progress, Failure
<1>2. IInv /\ UnitInv /\ [Next]_vars => [Forward]_vars
  BY <1>1
<1> HIDE DEF Forward
<1>3. Spec => [][Forward]_vars
  BY <1>2, SpecIInv, UnitInvariance, PTL DEF Spec
<1> QED
  BY <1>3 DEF Forward, StartsAdvance

=============================================================================
