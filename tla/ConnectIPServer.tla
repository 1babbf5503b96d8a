--------------------------- MODULE ConnectIPServer ---------------------------
(***************************************************************************)
(* cmd/jiejie-masque/main.go: the CONNECT-IP server around the session     *)
(* manager.                                                                *)
(*                                                                         *)
(*   - handleRequest admits a request and runs the handler of its session  *)
(*     (HandlerStep of SessionManager);                                    *)
(*   - one reader goroutine per session moves packets from the client to   *)
(*     the TUN device;                                                     *)
(*   - a single dispatcher goroutine moves packets from the TUN device to  *)
(*     the session that owns the destination;                              *)
(*   - serveConnectIPArgs waits for a reason to stop, closes the sessions  *)
(*     of one snapshot and shuts the HTTP/3 server down.                   *)
(*                                                                         *)
(* Here every caller of Session.Close is a goroutine of the program, where *)
(* SessionManager allows anybody who could have found the session.         *)
(***************************************************************************)
EXTENDS SessionManager

CONSTANT NoAddress   \* the dispatcher holds no packet

ASSUME NoAddressAssumption == NoAddress \notin Address

\* What ResolvedClients establishes: module ClientAccess with the theorem
\* ManagerGetsClientTable.
ASSUME ConfigAssumption ==
  ClientTable(Session, Identity, IdentityOf, ClientIPs, MaxSessions)

VARIABLES
  admitted,    \* requests for which handleRequest has built the session
  reader,      \* sessionReaderWithAddresses of each session
  dispatcher,  \* tunDispatcher
  dst,         \* destination of the packet the dispatcher holds
  target,      \* session the dispatcher found for it
  fatal,       \* a message waits in the fatal channel
  main,        \* serveConnectIPArgs from its select on
  snapshot,    \* sessions the shutdown loop has still to close
  victim,      \* session whose Close the shutdown loop waits for
  lastSeen     \* history: nextGeneration when the snapshot was taken

managerVars == vars
dispatcherVars == <<dispatcher, dst, target>>
mainVars == <<main, snapshot, victim, lastSeen>>
serverVars == <<managerVars, admitted, reader, dispatcherVars, fatal, mainVars>>

Running == main # "exited"

ServerInit ==
  /\ Init
  /\ admitted = {}
  /\ reader = [s \in Session |-> "none"]
  /\ dispatcher = "reading"
  /\ dst = NoAddress
  /\ target = NoSession
  /\ fatal = FALSE
  /\ main = "running"
  /\ snapshot = {}
  /\ victim = NoSession
  /\ lastSeen = 0

-----------------------------------------------------------------------------
(* handleRequest                                                           *)

\* The HTTP/3 server stops taking requests when Shutdown begins.
Listening == main \in {"running", "stopping", "closing"}

\* Every check has passed, the tunnel is established, its addresses and
\* routes are announced and the session object is built.  A request that
\* fails before this leaves no trace in the state.
Admit(s) ==
  /\ Listening
  /\ s \notin admitted
  /\ admitted' = admitted \cup {s}
  /\ UNCHANGED <<managerVars, reader, dispatcherVars, fatal, mainVars>>

\* Replace, the wait and the final Close; the reader is started in between.
Handle(s) ==
  /\ s \in admitted
  /\ HandlerStep(s)
  /\ reader' = [reader EXCEPT ![s] =
                  IF pc[s] = "evicting" /\ pc'[s] = "serving"
                  THEN "reading" ELSE @]
  /\ UNCHANGED <<admitted, dispatcherVars, fatal, mainVars>>

\* The client or its connection goes away.
Disconnect(s) ==
  /\ s \in admitted
  /\ pc[s] # "returned"
  /\ ParentCancel(s)
  /\ UNCHANGED <<admitted, reader, dispatcherVars, fatal, mainVars>>

\* The body of Close goes on, in whatever goroutine started it.
CloseBody(s) ==
  /\ CloseStep(s)
  /\ UNCHANGED <<admitted, reader, dispatcherVars, fatal, mainVars>>

-----------------------------------------------------------------------------
(* sessionReaderWithAddresses                                              *)

ReaderGoes(s, from, to) ==
  /\ reader[s] = from
  /\ reader' = [reader EXCEPT ![s] = to]
  /\ UNCHANGED <<managerVars, admitted, dispatcherVars, fatal, mainVars>>

\* Mutant of ReaderAccept: the context is not checked after the read.
ReaderAcceptAny(s) == ReaderGoes(s, "reading", "writing")

\* ReadPacket returns a packet that prepareSessionPacket accepts: the client
\* owns its source, it leaves the tunnel network and the session is alive.
ReaderAccept(s) ==
  /\ ~ctxDone[s]
  /\ ReaderGoes(s, "reading", "writing")

\* The loop condition fails, or ReadPacket does as it does when the session
\* or its stream is closed.  A packet that is not accepted changes nothing.
ReaderEnd(s) == ReaderGoes(s, "reading", "done")

\* ReadPacket fails in another way while the session is alive.
ReaderFail(s) ==
  /\ ~ctxDone[s]
  /\ ReaderGoes(s, "reading", "closing")

\* The packet is handed to the TUN device, which may fail.
ReaderWrite(s) ==
  \/ ReaderGoes(s, "writing", "reading")
  \/ ReaderGoes(s, "writing", "closing")

\* Mutant of ReaderClose: the teardown is not guarded by closeOnce.
ReaderCloseAgain(s) ==
  /\ reader[s] = "closing"
  /\ closing' = [closing EXCEPT ![s] = "cancelled"]
  /\ ctxDone' = [ctxDone EXCEPT ![s] = TRUE]
  /\ UNCHANGED <<tableVars, mu, removed, pc, victims, admitted, reader,
                 dispatcherVars, fatal, mainVars>>

ReaderClose(s) ==
  /\ reader[s] = "closing"
  /\ StartClose(s)
  /\ UNCHANGED <<tableVars, mu, removed, pc, victims, admitted, reader,
                 dispatcherVars, fatal, mainVars>>

ReaderClosed(s) ==
  /\ closing[s] = "closed"
  /\ ReaderGoes(s, "closing", "done")

\* Conn.Close wakes a reader that is blocked in ReadPacket.
ReaderUnblock(s) ==
  /\ closing[s] \in {"connClosed", "claimed", "closed"}
  /\ ReaderEnd(s)

ReaderStep(s) ==
  \/ ReaderAccept(s) \/ ReaderEnd(s) \/ ReaderFail(s) \/ ReaderWrite(s)
  \/ ReaderClose(s) \/ ReaderClosed(s)

-----------------------------------------------------------------------------
(* tunDispatcher and dispatchTUNPacket                                     *)

DispatcherGoes(from, to) ==
  /\ dispatcher = from
  /\ dispatcher' = to
  /\ UNCHANGED <<managerVars, admitted, reader, mainVars>>

\* The dispatcher is done with its packet and reads the next one.
DispatcherIsDone(from) ==
  /\ DispatcherGoes(from, "reading")
  /\ dst' = NoAddress
  /\ target' = NoSession
  /\ UNCHANGED fatal

\* A packet arrives.
DispatchRead ==
  /\ DispatcherGoes("reading", "lookup")
  /\ UNCHANGED <<dst, target, fatal>>

\* The TUN device fails: report and stop.
DispatchFail ==
  /\ DispatcherGoes("reading", "failed")
  /\ fatal' = TRUE
  /\ UNCHANGED <<dst, target>>

\* Lookup of its destination.
DispatchLookup ==
  /\ mu = Free
  /\ DispatcherGoes("lookup", "writing")
  /\ \E ip \in Address :
       /\ LookupLocked(ip) # NoSession
       /\ dst' = ip
       /\ target' = LookupLocked(ip)
  /\ UNCHANGED fatal

\* Mutant of DispatchDrop: a packet without a session is kept.
DispatchKeep ==
  /\ mu = Free
  /\ SnapshotLocked # {}
  /\ DispatcherIsDone("lookup")

\* The destination is malformed or belongs to no session.
DispatchDrop ==
  /\ mu = Free
  /\ DispatcherIsDone("lookup")

\* WritePacket succeeds, or fails as it does on a closed session.
DispatchWrite == DispatcherIsDone("writing")

\* WritePacket fails in another way, or the ICMP answer cannot be written.
DispatchWriteFail ==
  /\ DispatcherGoes("writing", "closing")
  /\ UNCHANGED <<dst, target, fatal>>

DispatchClose ==
  /\ dispatcher = "closing"
  /\ StartClose(target)
  /\ UNCHANGED <<tableVars, mu, removed, pc, victims, admitted, reader,
                 dispatcherVars, fatal, mainVars>>

DispatchClosed ==
  /\ dispatcher = "closing"
  /\ closing[target] = "closed"
  /\ DispatcherIsDone("closing")

\* What the dispatcher does with a packet once it has one.
DispatchStep ==
  \/ DispatchLookup \/ DispatchDrop \/ DispatchWrite \/ DispatchWriteFail
  \/ DispatchClose \/ DispatchClosed

-----------------------------------------------------------------------------
(* serveConnectIPArgs after its select                                     *)

MainGoes(from, to) ==
  /\ main = from
  /\ main' = to
  /\ UNCHANGED <<managerVars, admitted, reader, dispatcherVars>>

\* A signal arrives or ServeListener returns.
Stop ==
  /\ MainGoes("running", "stopping")
  /\ UNCHANGED <<fatal, snapshot, victim, lastSeen>>

\* The dispatcher's message is received.
StopOnFatal ==
  /\ fatal
  /\ fatal' = FALSE
  /\ MainGoes("running", "stopping")
  /\ UNCHANGED <<snapshot, victim, lastSeen>>

TakeSnapshot ==
  /\ mu = Free
  /\ MainGoes("stopping", "closing")
  /\ snapshot' = SnapshotLocked
  /\ lastSeen' = nextGeneration
  /\ UNCHANGED <<fatal, victim>>

\* The loop calls Close on the next session, in the order of a Go map: it
\* enters closeOnce or finds that another goroutine has.
CloseNext ==
  /\ main = "closing"
  /\ victim = NoSession
  /\ \E s \in snapshot :
       /\ victim' = s
       /\ snapshot' = snapshot \ {s}
       /\ \/ StartClose(s)
          \/ closing[s] # "open" /\ UNCHANGED <<closing, ctxDone>>
  /\ UNCHANGED <<tableVars, mu, removed, pc, victims, admitted, reader,
                 dispatcherVars, fatal, main, lastSeen>>

CloseDone ==
  /\ main = "closing"
  /\ victim # NoSession
  /\ closing[victim] = "closed"
  /\ victim' = NoSession
  /\ UNCHANGED <<managerVars, admitted, reader, dispatcherVars, fatal, main,
                 snapshot, lastSeen>>

\* Mutant of ShutdownStart: the sessions of the snapshot are not closed.
ShutdownEarly ==
  /\ victim = NoSession
  /\ MainGoes("closing", "shutdown")
  /\ UNCHANGED <<fatal, snapshot, victim, lastSeen>>

ShutdownStart ==
  /\ victim = NoSession
  /\ snapshot = {}
  /\ MainGoes("closing", "shutdown")
  /\ UNCHANGED <<fatal, snapshot, victim, lastSeen>>

HandlerReturned(s) ==
  s \in admitted => pc[s] = "returned"

\* Shutdown returns nil: every request has ended.
ShutdownClean ==
  /\ \A s \in Session : HandlerReturned(s)
  /\ MainGoes("shutdown", "exited")
  /\ UNCHANGED <<fatal, snapshot, victim, lastSeen>>

\* Mutant of ShutdownTimeout: Shutdown is given no deadline.
ShutdownForever ==
  /\ \A s \in Session : HandlerReturned(s)
  /\ MainGoes("shutdown", "exited")
  /\ UNCHANGED <<fatal, snapshot, victim, lastSeen>>

\* Three seconds are over, the server is closed and the process ends.
ShutdownTimeout ==
  /\ \E s \in Session : ~HandlerReturned(s)
  /\ MainGoes("shutdown", "exited")
  /\ UNCHANGED <<fatal, snapshot, victim, lastSeen>>

MainStep ==
  \/ StopOnFatal \/ TakeSnapshot \/ CloseNext \/ CloseDone
  \/ ShutdownStart \/ ShutdownClean \/ ShutdownTimeout

-----------------------------------------------------------------------------
\* The process has ended and with it every goroutine.
Exited == ~Running /\ UNCHANGED serverVars

ServerNext ==
  \/ /\ Running
     /\ \/ \E s \in Session :
             \/ Admit(s) \/ Disconnect(s)
             \/ Handle(s) \/ CloseBody(s) \/ ReaderStep(s)
        \/ DispatchRead \/ DispatchFail \/ DispatchStep
        \/ Stop \/ MainStep
  \/ Exited

ServerSpec == ServerInit /\ [][ServerNext]_serverVars

\* A goroutine that can run is run, Conn.Close and WritePacket return, and
\* so does a ReadPacket whose connection is closed.  Packets, disconnections,
\* device failures and stop signals need never come.
ServerFairness ==
  /\ \A s \in Session :
       /\ WF_serverVars(Running /\ Handle(s))
       /\ WF_serverVars(Running /\ CloseBody(s))
       /\ WF_serverVars(Running /\ (ReaderUnblock(s) \/ ReaderWrite(s)
            \/ ReaderClose(s) \/ ReaderClosed(s)))
  /\ WF_serverVars(Running /\ DispatchStep)
  /\ WF_serverVars(Running /\ MainStep)

LiveServerSpec == ServerSpec /\ ServerFairness

\* The device works and nobody stops the server.
Undisturbed == [](main = "running" /\ ~fatal)

-----------------------------------------------------------------------------
(* What a goroutine of the server waits for                                *)

\* A reader has ended, is blocked in ReadPacket on a connection that nobody
\* has closed, or waits for a Close that another goroutine runs.
ReaderWaits(s) ==
  \/ reader[s] \in {"none", "done"}
  \/ reader[s] = "reading" /\ closing[s] \in {"open", "cancelled"}
  \/ reader[s] = "closing" /\ CloseRuns(s)

\* The dispatcher waits for a packet, for the lock or for such a Close, or
\* has given up.
DispatcherWaits ==
  \/ dispatcher \in {"reading", "failed"}
  \/ dispatcher = "lookup" /\ mu # Free
  \/ dispatcher = "closing" /\ CloseRuns(target)

\* serveConnectIPArgs waits for a reason to stop, for the lock or for such a
\* Close.  Shutdown has a deadline and never waits for good.
MainWaits ==
  \/ main = "running" /\ ~fatal
  \/ main = "stopping" /\ mu # Free
  \/ main = "closing" /\ victim # NoSession /\ CloseRuns(victim)

ServerAtRest ==
  /\ Running /\ DispatcherWaits /\ MainWaits
  /\ \A s \in Session : ReaderWaits(s) /\ CloseWaits(s)
  /\ \A s \in admitted : HandlerWaits(s)

\* Where every goroutine waits, nobody waits for the lock and every admitted
\* registration is decided, whatever Conn.Close hangs.  If none does, the
\* server does its work, with a device that has not failed: the dispatcher
\* waits for a packet, nobody has asked it to stop, what has been replaced is
\* closed, and of a session whose context has ended neither the handler nor
\* the reader nor an entry is left.
ServerRestIsSettled ==
  ServerAtRest =>
    /\ dispatcher # "lookup" /\ main # "stopping"
    /\ \A s \in admitted : pc[s] \notin {"created", "locked"}
    /\ (\A s \in Session : closing[s] # "cancelled") =>
         /\ dispatcher = "reading" /\ main = "running"
         /\ \A s \in Session :
              /\ generation[s] # 0 /\ Superseded(s) => closing[s] = "closed"
              /\ ctxDone[s] =>
                   /\ pc[s] = "returned" /\ reader[s] \in {"none", "done"}
                   /\ s \notin SnapshotLocked

-----------------------------------------------------------------------------
(* Properties                                                              *)

ServerTypeOK ==
  /\ TypeOK
  /\ admitted \in SUBSET Session
  /\ reader \in [Session -> {"none", "reading", "writing", "closing", "done"}]
  /\ dispatcher \in {"reading", "lookup", "writing", "closing", "failed"}
  /\ dst \in Address \cup {NoAddress}
  /\ target \in Session \cup {NoSession}
  /\ fatal \in BOOLEAN
  /\ main \in {"running", "stopping", "closing", "shutdown", "exited"}
  /\ snapshot \in SUBSET Session
  /\ victim \in Session \cup {NoSession}
  /\ lastSeen \in Nat

\* With a valid configuration Replace never fails: the tables never keep a
\* client out, neither for the limit nor for an address, so the conflict
\* answer of the handler is unreachable.
RegistrationNeverFails == \A s \in Session : pc[s] # "rejected"

\* The dispatcher may hold a session that has been replaced or closed since
\* it was looked up, but the packet never reaches another client, and an
\* old session is written to only if its client has a newer one or if it is
\* being closed.
DeliveryWithinIdentity ==
  dispatcher \in {"writing", "closing"} =>
    /\ \A t \in Session :
         dst \in ClientIPs[t] => IdentityOf[t] = IdentityOf[target]
    /\ \/ LookupLocked(dst) = target
       \/ closing[target] # "open"
       \/ Superseded(target)

\* Once Replace has returned to the handler of the session that took over from
\* it, the reader of a replaced session accepts no further packet.  A session
\* further on says nothing: what it replaced may still be on its way to
\* closing what came before (OneActiveSession).
ReplacedReaderAcceptsNothing ==
  [][\A s, t \in Session :
       Successor(s, t) /\ pc[s] \in {"serving", "closing", "returned"} =>
         ~(reader[t] = "reading" /\ reader'[t] = "writing")
    ]_serverVars

\* When the loop over the snapshot is over, every session that was ever
\* registered before the snapshot is closed or being closed or about to be
\* closed by the handler that replaced it; only later ones may be live.
SnapshotIsClosed ==
  main \in {"shutdown", "exited"} =>
    \A s \in Session :
      generation[s] \in 1..lastSeen =>
        \/ closing[s] # "open"
        \/ \E t \in Session : s \in victims[t]

\* The goroutines of the program close only sessions they may: the server is
\* one of the environments that SessionManager allows.
ServerUsesManager == Spec

\* Under LiveServerSpec, a packet in the dispatcher's hands never blocks it for
\* good, although it may have to wait for a Close that another goroutine runs,
\* which may wait for the lock.  An exit would excuse it, so there is none.
DispatcherAdvances ==
  Undisturbed =>
    (dispatcher \in {"lookup", "writing", "closing"} ~> dispatcher = "reading")

\* Under LiveServerSpec, the reader of a session whose context is done ends,
\* whoever cancelled it: the reader itself may be blocked in ReadPacket or wait
\* for a Close, and it takes the handler to close the connection.
ReaderEnds ==
  Undisturbed =>
    \A s \in Session :
      (reader[s] # "none" /\ ctxDone[s]) ~> reader[s] = "done"

\* Under LiveServerSpec, a program that is asked to stop or whose TUN device
\* has failed ends, whatever sessions are being replaced, closed or registered
\* meanwhile.
StopLeadsToExit == (main # "running" \/ dispatcher = "failed") ~> ~Running

=============================================================================
