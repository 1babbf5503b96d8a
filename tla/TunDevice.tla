------------------------------ MODULE TunDevice ------------------------------
(***************************************************************************)
(* internal/connectip/tunnel: Open and ConfigureAddresses (tun_linux.go),  *)
(* one system call or command at a time, and CheckInterface                *)
(* (health_linux.go).                                                      *)
(*                                                                         *)
(* The interface masque0 is the kernel's.  It comes with the descriptor    *)
(* and goes with it, unless the deployment has created it as a persistent  *)
(* one; then it exists before, keeps what was configured and may have been *)
(* configured by others.  It has one IPv4 address at most: where there are *)
(* several, the ioctls act on the first, which is not modelled.            *)
(***************************************************************************)
EXTENDS Naturals, FiniteSets

CONSTANTS
  Prefix4, Prefix6,   \* prefixes <<address, bits>> a server may be given
  Foreign4, Foreign6, \* prefixes others may leave on a persistent interface
  NoPrefix

IPv4Addresses == { p[1] : p \in Prefix4 \cup Foreign4 }

\* optionalPrefix refuses an IPv6 prefix that is a mapped IPv4 one; others may
\* have set it all the same.
ASSUME PrefixAssumption ==
  /\ \A p \in Prefix4 \cup Foreign4 : p = <<p[1], p[2]>> /\ p[2] \in 0..32
  /\ \A p \in Prefix6 \cup Foreign6 : p = <<p[1], p[2]>> /\ p[2] \in 0..128
  /\ \A p \in Prefix6 : p[1] \notin IPv4Addresses
  /\ NoPrefix \notin Prefix4 \cup Prefix6 \cup Foreign4 \cup Foreign6
  /\ \A p \in Prefix4 : NoPrefix # <<p[1], 32>>

TunnelMTU == 1280
KernelMTU == 1500

VARIABLES
  setup,   \* server addresses, and masque0 as it was deployed
  step,    \* the call that comes next
  fd,      \* descriptor of /dev/net/tun: an integer, owned by an os.File, ...
  iface    \* masque0

deviceVars == <<setup, step, fd, iface>>

\* masque0 as the program and others can make it.
Interface4 ==
  Foreign4 \cup Prefix4 \cup {NoPrefix} \cup {<<p[1], 32>> : p \in Prefix4}

Interface ==
  [exists : BOOLEAN, up : BOOLEAN, mtu : {KernelMTU, TunnelMTU},
   v4 : Interface4, v6 : SUBSET (Foreign6 \cup Prefix6)]

Gone == [exists |-> FALSE, up |-> FALSE, mtu |-> KernelMTU,
         v4 |-> NoPrefix, v6 |-> {}]

\* The kernel keeps an IPv6 address of an interface once, whatever its length.
OneLength(v6) == \A p, q \in v6 : p[1] = q[1] => p = q

\* What a deployment may have made of a persistent interface.
Prepared ==
  [exists : {TRUE}, up : BOOLEAN, mtu : {KernelMTU, TunnelMTU},
   v4 : Foreign4 \cup Prefix4 \cup {NoPrefix},
   v6 : {v6 \in SUBSET Foreign6 : OneLength(v6)}]

Setup == { s \in [v4 : Prefix4 \cup {NoPrefix}, v6 : Prefix6 \cup {NoPrefix},
                  deployed : Prepared \cup {Gone}] :
             s.v4 # NoPrefix \/ s.v6 # NoPrefix }

\* TunnelAddresses.Prefixes
Prefixes == {setup.v4, setup.v6} \ {NoPrefix}

DeviceInit ==
  /\ setup \in Setup
  /\ step = "load"
  /\ fd = "none"
  /\ iface = setup.deployed

\* The last descriptor of the device is closed.
Detached == IF setup.deployed.exists THEN iface ELSE Gone

-----------------------------------------------------------------------------
(* openTun                                                                 *)

Goes(from, to) ==
  /\ step = from
  /\ step' = to
  /\ UNCHANGED setup

\* Mutant of FirstConfigure: the branch for IPv6 alone forgets the MTU.
FirstConfigureUp == IF setup.v4 = NoPrefix THEN "setup" ELSE "setaddr"

\* The first ioctl depends on the family.
FirstConfigure == IF setup.v4 = NoPrefix THEN "setmtu" ELSE "setaddr"

OpenFd ==
  /\ Goes("open", "setiff")
  /\ fd' = "raw"
  /\ UNCHANGED iface

\* TUNSETIFF attaches the descriptor to masque0 and creates it if need be.
SetIff ==
  /\ Goes("setiff", "nonblock")
  /\ iface' = [iface EXCEPT !.exists = TRUE]
  /\ UNCHANGED fd

SetNonblock ==
  /\ Goes("nonblock", "newfile")
  /\ UNCHANGED <<fd, iface>>

NewFile ==
  /\ Goes("newfile", FirstConfigure)
  /\ fd' = "file"
  /\ UNCHANGED iface

\* A call of openTun fails; what is open is closed by the deferred function.
OpenFails ==
  /\ \E s \in {"open", "setiff", "nonblock", "newfile"} : Goes(s, "failed")
  /\ fd' = "none"
  /\ iface' = Detached

-----------------------------------------------------------------------------
(* ConfigureAddresses                                                      *)

\* Mutant of SetAddress: an address that is there is taken as configured.
SetAddressOnce ==
  /\ step = "setaddr"
  /\ IF iface.v4 # NoPrefix /\ iface.v4[1] = setup.v4[1]
     THEN Goes("setaddr", "setmtu") /\ UNCHANGED iface
     ELSE /\ Goes("setaddr", "setmask")
          /\ iface' = [iface EXCEPT !.v4 = <<setup.v4[1], 32>>]
  /\ UNCHANGED fd

\* SIOCSIFADDR replaces the IPv4 address of a point-to-point interface and
\* gives a new one the full mask.
SetAddress ==
  /\ Goes("setaddr", "setmask")
  /\ iface' = IF iface.v4 # NoPrefix /\ iface.v4[1] = setup.v4[1]
              THEN iface
              ELSE [iface EXCEPT !.v4 = <<setup.v4[1], 32>>]
  /\ UNCHANGED fd

\* Mutant of SetNetmask: the mask is left as SIOCSIFADDR made it.
SetNoNetmask ==
  /\ Goes("setmask", "setmtu")
  /\ UNCHANGED <<fd, iface>>

SetNetmask ==
  /\ Goes("setmask", "setmtu")
  /\ iface' = [iface EXCEPT !.v4 = <<@[1], setup.v4[2]>>]
  /\ UNCHANGED fd

SetMTU ==
  /\ Goes("setmtu", "setup")
  /\ iface' = [iface EXCEPT !.mtu = TunnelMTU]
  /\ UNCHANGED fd

\* The flags are read and written back with IFF_UP.
SetUp ==
  /\ Goes("setup", IF setup.v6 = NoPrefix THEN "configured" ELSE "ip")
  /\ iface' = [iface EXCEPT !.up = TRUE]
  /\ UNCHANGED fd

\* An ioctl fails or its socket cannot be opened.
ConfigureFails ==
  /\ \E s \in {"setaddr", "setmask", "setmtu", "setup"} : Goes(s, "failed")
  /\ UNCHANGED <<fd, iface>>

\* "ip addr replace" finds an IPv6 address by itself and adds it if it is not
\* there; one that is there keeps its prefix length, and the command succeeds.
WithServer(v6) ==
  IF \E p \in v6 : p[1] = setup.v6[1] THEN v6 ELSE v6 \cup {setup.v6}

WithIPv6 == [iface EXCEPT !.v6 = WithServer(@)]

\* ip -6 addr replace
IpReplace ==
  /\ Goes("ip", "configured")
  /\ iface' = WithIPv6
  /\ UNCHANGED fd

\* The command fails, or is killed after two seconds: before or after it has
\* set the address.
IpFails ==
  /\ Goes("ip", "failed")
  /\ iface' \in {iface, WithIPv6}
  /\ UNCHANGED fd

\* What Open and ConfigureAddresses do if nothing fails.
DeviceStep ==
  \/ OpenFd \/ SetIff \/ SetNonblock \/ NewFile
  \/ SetAddress \/ SetNetmask \/ SetMTU \/ SetUp \/ IpReplace

DeviceFails == OpenFails \/ ConfigureFails \/ IpFails

-----------------------------------------------------------------------------
(* CheckInterface                                                          *)

\* net.Interface.Addrs: sixteen bytes for either family, so that a mapped
\* IPv6 address differs from the IPv4 address only by the width of its mask.
Addrs ==
  { [ip |-> p[1], ones |-> p[2], width |-> 32] : p \in {iface.v4} \ {NoPrefix} }
  \cup
  { [ip |-> p[1], ones |-> p[2], width |-> 128] : p \in iface.v6 }

\* Mutant of NormalizeInterfacePrefix: any mask that fits is taken.
NormalizeAnyMask(a) ==
  IF a.ones <= (IF a.ip \in IPv4Addresses THEN 32 ELSE 128)
  THEN <<a.ip, a.ones>>
  ELSE NoPrefix

\* After Unmap the width of the mask has to agree with the family.
NormalizeInterfacePrefix(a) ==
  LET width == IF a.ip \in IPv4Addresses THEN 32 ELSE 128
  IN  IF a.width = width /\ a.ones <= width
      THEN <<a.ip, a.ones>>
      ELSE NoPrefix

CheckInterface(expected, mtu) ==
  /\ iface.exists
  /\ iface.up
  /\ iface.mtu = mtu
  /\ \E a \in Addrs : NormalizeInterfacePrefix(a) = expected

-----------------------------------------------------------------------------
(* Properties                                                              *)

Configuring == {"open", "setiff", "nonblock", "newfile", "setaddr", "setmask",
                "setmtu", "setup", "ip", "configured", "failed"}

\* The deployment has given the server's IPv6 address another prefix length.
LengthKept ==
  \E p \in setup.deployed.v6 : p[1] = setup.v6[1] /\ p # setup.v6

\* What a single start in which nothing fails makes of the deployed interface.
OneStart ==
  [exists |-> TRUE, up |-> TRUE, mtu |-> TunnelMTU,
   v4 |-> IF setup.v4 = NoPrefix THEN setup.deployed.v4 ELSE setup.v4,
   v6 |-> IF setup.v6 = NoPrefix
          THEN setup.deployed.v6 ELSE WithServer(setup.deployed.v6)]

\* The check never takes an IPv6 address, mapped ones included, for the IPv4
\* prefix it is asked for, nor the other way round.
CheckIsExact ==
  /\ \A p \in Prefix4 : CheckInterface(p, TunnelMTU) => iface.v4 = p
  /\ \A p \in Prefix6 : CheckInterface(p, TunnelMTU) => p \in iface.v6

=============================================================================
