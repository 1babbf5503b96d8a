----------------------------- MODULE ServerProofs -----------------------------
(***************************************************************************)
(* The server uses the session manager as SessionManager allows, so what   *)
(* is proved of the manager holds of the server; and with a valid          *)
(* configuration no registration fails and no packet reaches a client it   *)
(* is not addressed to.                                                    *)
(*                                                                         *)
(* SessionManager lets anybody close a registered session.  ServerInv says *)
(* that whatever session a goroutine of the server holds is one.           *)
(***************************************************************************)
EXTENDS ConnectIPServer, SessionProgressProofs

\* Each goroutine holds registered sessions only.
HeldAreRegistered ==
  /\ \A s \in Session : pc[s] \in {"evicting", "serving"} => s \in Registered
  /\ \A s \in Session : reader[s] # "none" => s \in Registered
  /\ dispatcher \in {"writing", "closing"} =>
       target \in Registered /\ dst \in ClientIPs[target]
  /\ snapshot \subseteq Registered

ServerInv ==
  /\ IInv
  /\ reader \in [Session -> {"none", "reading", "writing", "closing", "done"}]
  /\ HeldAreRegistered

-----------------------------------------------------------------------------
\* A registered session stays registered: its generation is never reset.
LEMMA RegisteredGrows ==
  ASSUME IInv, [Next]_vars
  PROVE  Registered \subseteq Registered'
<1>1. generation \in [Session -> Nat] /\ nextGeneration \in Nat
  BY DEF IInv, TypeOK
<1>2. ASSUME NEW r \in Session, ReplaceInstall(r)
      PROVE  Registered \subseteq Registered'
  BY <1>1, <1>2 DEF ReplaceInstall, Registered
<1>3. ASSUME UNCHANGED generation PROVE Registered \subseteq Registered'
  BY <1>3 DEF Registered
<1>4. UNCHANGED tableVars \/ UNCHANGED vars => UNCHANGED generation
  BY DEF tableVars, vars
<1>5. ASSUME NEW r \in Session, RemoveIfCurrent(r) PROVE UNCHANGED generation
  BY <1>5 DEF RemoveIfCurrent
<1> QED  BY <1>2, <1>3, <1>4, <1>5, TablesUnchanged
         DEF Next, HandlerStep, CloseStep, AllReturned

\* Where a step of the server is a step of the manager, and which.
LEMMA StepIsManagerStep ==
  ASSUME ServerInv, [ServerNext]_serverVars
  PROVE  [Next]_vars
<1>1. HeldAreRegistered /\ IInv
  BY DEF ServerInv
<1>2. ASSUME NEW s \in Session, Handle(s) \/ Disconnect(s) \/ CloseBody(s)
      PROVE  Next
  BY <1>2 DEF Handle, Disconnect, CloseBody, Next
<1>3. ASSUME NEW s \in Session, ReaderStep(s) PROVE [Next]_vars
  <2>1. CASE ReaderClose(s)
    <3>1. OtherClose(s)
      BY <1>1, <2>1 DEF ReaderClose, OtherClose, HeldAreRegistered, Registered
    <3> QED  BY <3>1 DEF Next
  <2>2. CASE ~ReaderClose(s)
    BY <1>3, <2>2
       DEF ReaderStep, ReaderAccept, ReaderEnd, ReaderFail, ReaderWrite,
           ReaderClosed, ReaderGoes, managerVars
  <2> QED  BY <2>1, <2>2
<1>4. ASSUME DispatchStep PROVE [Next]_vars
  <2>1. CASE DispatchClose
    <3>1. target \in Session /\ OtherClose(target)
      BY <1>1, <2>1
         DEF DispatchClose, OtherClose, HeldAreRegistered, Registered
    <3> QED  BY <3>1 DEF Next
  <2>2. CASE ~DispatchClose
    BY <1>4, <2>2
       DEF DispatchStep, DispatchLookup, DispatchDrop, DispatchWrite,
           DispatchWriteFail, DispatchClosed, DispatcherIsDone,
           DispatcherGoes, managerVars
  <2> QED  BY <2>1, <2>2
<1>5. ASSUME MainStep PROVE [Next]_vars
  <2>1. CASE CloseNext
    <3>1. PICK s \in snapshot :
            \/ StartClose(s)
            \/ closing[s] # "open" /\ UNCHANGED <<closing, ctxDone>>
      BY <2>1 DEF CloseNext
    <3>2. s \in Session /\ generation[s] # 0
      BY <1>1 DEF HeldAreRegistered, Registered
    <3>3. CASE StartClose(s)
      BY <2>1, <3>2, <3>3 DEF CloseNext, OtherClose, Next
    <3>4. CASE UNCHANGED <<closing, ctxDone>>
      BY <2>1, <3>4 DEF CloseNext, tableVars, vars
    <3> QED  BY <3>1, <3>3, <3>4
  <2>2. CASE ~CloseNext
    BY <1>5, <2>2
       DEF MainStep, StopOnFatal, TakeSnapshot, CloseDone, ShutdownStart,
           ShutdownClean, ShutdownTimeout, MainGoes, managerVars
  <2> QED  BY <2>1, <2>2
<1>6. ASSUME \/ \E s \in Session : Admit(s)
             \/ DispatchRead \/ DispatchFail \/ Stop \/ Exited
             \/ UNCHANGED serverVars
      PROVE  [Next]_vars
  BY <1>6 DEF Admit, DispatchRead, DispatchFail, DispatcherGoes, Stop,
              MainGoes, Exited, serverVars, managerVars
<1> QED  BY <1>2, <1>3, <1>4, <1>5, <1>6 DEF ServerNext

-----------------------------------------------------------------------------
\* At the start of the server nobody holds a session.
LEMMA InitServerInv == ServerInit => ServerInv
BY InitIInv DEF ServerInit, Init, ServerInv, HeldAreRegistered

\* A handler that has got through Replace has a registered session.
LEMMA HandlersHoldRegistered ==
  ASSUME IInv, [Next]_vars, HeldAreRegistered
  PROVE  \A s \in Session :
           pc'[s] \in {"evicting", "serving"} => s \in Registered'
<1> SUFFICES ASSUME NEW s \in Session, pc'[s] \in {"evicting", "serving"}
             PROVE  s \in Registered'
  OBVIOUS
<1>1. /\ pc \in [Session -> PC]
      /\ generation \in [Session -> Nat] /\ nextGeneration \in Nat
  BY DEF IInv, TypeOK
<1>2. Registered \subseteq Registered'
  BY RegisteredGrows
<1>3. CASE pc[s] \in {"evicting", "serving"}
  BY <1>2, <1>3 DEF HeldAreRegistered
<1>4. CASE pc[s] \notin {"evicting", "serving"}
  <2>1. ASSUME NEW r \in Session, HandlerStep(r) PROVE ReplaceInstall(s)
    BY <1>1, <1>4, <2>1
       DEF HandlerStep, ReplaceLock, ReplaceReject, ReplaceInstall,
           EvictClose, EvictClosed, Serve, Wake, HandlerClose, Return
  <2>2. ASSUME NEW r \in Session,
               CloseStep(r) \/ ParentCancel(r) \/ OtherClose(r)
        PROVE  pc' = pc
    BY <2>2 DEF CloseStep, ConnClose, CloseUnregistered, RemoveClaim,
                RemoveIfCurrent, ParentCancel, OtherClose
  <2>3. ReplaceInstall(s)
    BY <1>4, <2>1, <2>2 DEF Next, AllReturned, vars
  <2> QED  BY <1>1, <2>3 DEF ReplaceInstall, Registered
<1> QED  BY <1>3, <1>4

\* Every step of a goroutine of the server preserves the invariant.
LEMMA NextServerInv == ServerInv /\ [ServerNext]_serverVars => ServerInv'
<1> SUFFICES ASSUME ServerInv, [ServerNext]_serverVars PROVE ServerInv'
  OBVIOUS
<1> DEFINE ReaderType ==
      reader \in [Session -> {"none", "reading", "writing", "closing", "done"}]
<1>1. IInv /\ HeldAreRegistered /\ ReaderType
  BY DEF ServerInv
<1>2. [Next]_vars
  BY StepIsManagerStep
<1>3. IInv'
  BY <1>1, <1>2, NextIInv
<1>4. Registered \subseteq Registered'
  BY <1>1, <1>2, RegisteredGrows
<1>5. \A s \in Session :
        pc'[s] \in {"evicting", "serving"} => s \in Registered'
  BY <1>1, <1>2, HandlersHoldRegistered
<1>6. ReaderType' /\ \A s \in Session : reader'[s] # "none" => s \in Registered'
  <2>1. ASSUME NEW s \in Session, Handle(s)
        PROVE  /\ ReaderType'
               /\ \A r \in Session : reader'[r] # "none" => r \in Registered'
    BY <1>1, <1>4, <2>1 DEF Handle, HeldAreRegistered
  <2>2. ASSUME NEW s \in Session, ReaderStep(s)
        PROVE  /\ ReaderType'
               /\ \A r \in Session : reader'[r] # "none" => reader[r] # "none"
    BY <1>1, <2>2
       DEF ReaderStep, ReaderAccept, ReaderEnd, ReaderFail, ReaderWrite,
           ReaderClose, ReaderClosed, ReaderGoes
  <2>3. ASSUME UNCHANGED reader
        PROVE  /\ ReaderType'
               /\ \A r \in Session : reader'[r] # "none" => reader[r] # "none"
    BY <1>1, <2>3
  <2>4. \/ \E s \in Session : Handle(s) \/ ReaderStep(s)
        \/ UNCHANGED reader
    BY DEF ServerNext, serverVars, Admit, Disconnect, CloseBody,
           DispatchRead, DispatchFail, DispatchStep, DispatchLookup,
           DispatchDrop, DispatchWrite, DispatchWriteFail, DispatchClose,
           DispatchClosed, DispatcherIsDone, DispatcherGoes, Stop, MainStep,
           StopOnFatal, TakeSnapshot, CloseNext, CloseDone, ShutdownStart,
           ShutdownClean, ShutdownTimeout, MainGoes, Exited
  <2> QED  BY <1>1, <1>4, <2>1, <2>2, <2>3, <2>4 DEF HeldAreRegistered
<1>7. dispatcher' \in {"writing", "closing"} =>
        target' \in Registered' /\ dst' \in ClientIPs[target']
  <2>1. CASE DispatchLookup
    <3>1. PICK ip \in Address :
            /\ LookupLocked(ip) # NoSession
            /\ dst' = ip
            /\ target' = LookupLocked(ip)
      BY <2>1 DEF DispatchLookup
    <3>2. LookupLocked(ip) \in SnapshotLocked
      BY <1>1, <3>1, LookupType, SnapshotDef DEF IInv
    <3>3. LookupLocked(ip) \in Registered
      BY <1>1, <3>2 DEF IInv, RegisteredState, Registered, SnapshotLocked
    <3>4. ip \in ClientIPs[LookupLocked(ip)]
      BY <1>1, <3>1 DEF IInv, TablesSound
    <3> QED  BY <1>4, <3>1, <3>3, <3>4
  <2>2. CASE ~DispatchLookup
    <3>1. \/ dispatcher' \notin {"writing", "closing"}
          \/ /\ dispatcher \in {"writing", "closing"}
             /\ UNCHANGED <<dst, target>>
      BY <2>2
         DEF ServerNext, serverVars, dispatcherVars, Admit, Handle,
             Disconnect, CloseBody, ReaderStep, ReaderAccept, ReaderEnd,
             ReaderFail, ReaderWrite, ReaderClose, ReaderClosed, ReaderGoes,
             DispatchRead, DispatchFail, DispatchStep, DispatchDrop,
             DispatchWrite, DispatchWriteFail, DispatchClose, DispatchClosed,
             DispatcherIsDone, DispatcherGoes, Stop, MainStep, StopOnFatal,
             TakeSnapshot, CloseNext, CloseDone, ShutdownStart,
             ShutdownClean, ShutdownTimeout, MainGoes, Exited
    <3> QED  BY <1>1, <1>4, <3>1 DEF HeldAreRegistered
  <2> QED  BY <2>1, <2>2
<1>8. snapshot' \subseteq Registered'
  <2>1. CASE TakeSnapshot
    <3>1. SnapshotLocked \subseteq Registered
      BY <1>1 DEF IInv, RegisteredState, Registered, SnapshotLocked
    <3> QED  BY <1>4, <2>1, <3>1 DEF TakeSnapshot
  <2>2. CASE ~TakeSnapshot
    <3>1. snapshot' \subseteq snapshot
      BY <2>2
         DEF ServerNext, serverVars, mainVars, Admit, Handle,
             Disconnect, CloseBody, ReaderStep, ReaderAccept, ReaderEnd,
             ReaderFail, ReaderWrite, ReaderClose, ReaderClosed, ReaderGoes,
             DispatchRead, DispatchFail, DispatchStep, DispatchLookup,
             DispatchDrop, DispatchWrite, DispatchWriteFail, DispatchClose,
             DispatchClosed, DispatcherIsDone, DispatcherGoes, Stop,
             MainStep, StopOnFatal, CloseNext, CloseDone, ShutdownStart,
             ShutdownClean, ShutdownTimeout, MainGoes, Exited
    <3> QED  BY <1>1, <1>4, <3>1 DEF HeldAreRegistered
  <2> QED  BY <2>1, <2>2
<1> QED  BY <1>3, <1>5, <1>6, <1>7, <1>8 DEF ServerInv, HeldAreRegistered

\* Whatever session the dispatcher, a reader or the shutdown loop holds has been
\* registered, and the manager's invariant holds in the server.
THEOREM ServerInvariance == ServerSpec => []ServerInv
BY InitServerInv, NextServerInv, PTL DEF ServerSpec

\* Every behaviour of the server is one of the manager: the invariants of
\* SessionManager hold of the program.
THEOREM ServerImplementsManager == ServerSpec => ServerUsesManager
<1>1. ServerInit => Init
  BY DEF ServerInit
<1>2. ServerInv /\ [ServerNext]_serverVars => [Next]_vars
  BY StepIsManagerStep
<1> QED  BY <1>1, <1>2, ServerInvariance, PTL
         DEF ServerSpec, ServerUsesManager, Spec

\* The server implements one atomic owner per identity: what two tables, a
\* lock and four kinds of goroutines do to the sessions of a client amounts to
\* a register that takes over and releases in one step each.
THEOREM ServerImplementsRegistry == ServerSpec => ImplementsRegistry
BY ServerImplementsManager, Refinement DEF ServerUsesManager

\* What no run of the server checks holds of it as well: no goroutine of it
\* takes a session back a stage, a session that serves has seen the end of the
\* one it replaced, and nobody waits with the lock in hand.
THEOREM ServerInheritsProgress ==
  ServerSpec => EveryStepAdvances /\ []OneSuccessorServes /\ []WaitInv
BY ServerImplementsManager, StepsAdvance, SuccessorServesAlone,
   LockIsHeldBriefly
   DEF ServerUsesManager

-----------------------------------------------------------------------------
(* What the configuration buys                                             *)

\* The sessions of other clients are fewer than the clients: each registered
\* session has a client of its own, and none of them is the caller's.
LEMMA OthersAreFew ==
  ASSUME IInv, NEW s \in Session,
         NEW others,
         others = {t \in SnapshotLocked : IdentityOf[t] # IdentityOf[s]}
  PROVE  /\ IsFiniteSet(others)
         /\ Cardinality(others) < Cardinality(Identity)
<1> DEFINE rest == Identity \ {IdentityOf[s]}
           f == [t \in others |-> IdentityOf[t]]
<1>1. IdentityOf[s] \in Identity /\ IsFiniteSet(Identity)
  BY ManagerAssumption, ConfigAssumption DEF ClientTable
<1>2. IsFiniteSet(rest) /\ Cardinality(rest) = Cardinality(Identity) - 1
  BY <1>1, FS_RemoveElement
<1>3. f \in Injection(others, rest)
  <2>1. \A t \in others : t \in Session /\ IdentityOf[t] \in rest
    BY ManagerAssumption DEF SnapshotLocked
  <2>2. \A t, u \in others : IdentityOf[t] = IdentityOf[u] => t = u
    BY DEF IInv, OneSessionPerIdentity
  <2> QED  BY <2>1, <2>2 DEF Injection, IsInjective
<1>4. IsFiniteSet(others) /\ Cardinality(others) <= Cardinality(rest)
  BY <1>2, <1>3, FS_Injection
<1>5. Cardinality(others) \in Nat /\ Cardinality(Identity) \in Nat
  BY <1>1, <1>4, FS_CardinalityType
<1> HIDE DEF rest
<1> QED  BY <1>2, <1>4, <1>5

\* Replace finds no address of another client and room for every client.
LEMMA NothingToReject ==
  ASSUME IInv, NEW s \in Session
  PROVE  ~ReplaceReject(s)
<1> SUFFICES ASSUME ReplaceReject(s) PROVE FALSE
  OBVIOUS
<1>1. ~OwnedByAnother(s)
  <2> SUFFICES ASSUME NEW t \in Occupants(s), IdentityOf[t] # IdentityOf[s]
               PROVE  FALSE
    BY DEF OwnedByAnother
  <2>1. PICK ip \in ClientIPs[s] : LookupLocked(ip) = t
    BY DEF Occupants
  <2>2. ip \in Address /\ t # NoSession
    BY ManagerAssumption DEF Occupants
  <2>3. t \in Session /\ ip \in ClientIPs[t]
    BY <2>1, <2>2, LookupType DEF IInv, TablesSound
  <2> QED  BY <2>3, ConfigAssumption DEF ClientTable
<1>2. CapacityExhausted(s)
  BY <1>1 DEF ReplaceReject
<1> DEFINE others == {t \in SnapshotLocked : IdentityOf[t] # IdentityOf[s]}
<1>3. s \notin SnapshotLocked
  BY DEF IInv, HandlerState, RegisteredState, ReplaceReject
<1>4. OldSet(s) \in SUBSET SnapshotLocked
  BY OldSetType DEF IInv
<1>5. SnapshotLocked \ OldSet(s) = others
  BY <1>1, <1>3 DEF OldSet, OwnedByAnother
<1>6. Cardinality(others) = CountLocked - Cardinality(OldSet(s))
  BY <1>4, <1>5, SnapshotFinite, DifferenceCardinality DEF CountLocked
<1>7. IsFiniteSet(others) /\ Cardinality(others) < Cardinality(Identity)
  BY OthersAreFew
<1>8. Cardinality(others) \in Nat /\ Cardinality(Identity) \in Nat
  BY <1>7, ConfigAssumption, FS_CardinalityType DEF ClientTable
<1> HIDE DEF others
<1>9. Cardinality(others) >= Cardinality(Identity)
  BY <1>2, <1>6, ConfigAssumption DEF ClientTable, CapacityExhausted
<1> QED  BY <1>7, <1>8, <1>9

\* With one entry per client and an address set of its own for each, Replace
\* never fails.
THEOREM ClientsAreNeverRejected == ServerSpec => []RegistrationNeverFails
<1>1. ServerInit => RegistrationNeverFails
  BY DEF ServerInit, Init, RegistrationNeverFails
<1>2. ServerInv /\ RegistrationNeverFails /\ [ServerNext]_serverVars
        => RegistrationNeverFails'
  <2> SUFFICES ASSUME ServerInv, RegistrationNeverFails,
                      [ServerNext]_serverVars, NEW s \in Session,
                      pc'[s] = "rejected"
               PROVE  FALSE
    BY DEF RegistrationNeverFails
  <2>1. IInv /\ [Next]_vars
    BY StepIsManagerStep DEF ServerInv
  <2>2. pc \in [Session -> PC] /\ pc[s] # "rejected"
    BY <2>1 DEF IInv, TypeOK, RegistrationNeverFails
  <2>3. ASSUME NEW r \in Session, HandlerStep(r) PROVE ReplaceReject(s)
    BY <2>2, <2>3
       DEF HandlerStep, ReplaceLock, ReplaceReject, ReplaceInstall,
           EvictClose, EvictClosed, Serve, Wake, HandlerClose, Return
  <2>4. ASSUME NEW r \in Session,
               CloseStep(r) \/ ParentCancel(r) \/ OtherClose(r)
        PROVE  pc' = pc
    BY <2>4 DEF CloseStep, ConnClose, CloseUnregistered, RemoveClaim,
                RemoveIfCurrent, ParentCancel, OtherClose
  <2>5. ReplaceReject(s)
    BY <2>1, <2>2, <2>3, <2>4 DEF Next, AllReturned, vars
  <2> QED  BY <2>1, <2>5, NothingToReject
<1> QED  BY <1>1, <1>2, ServerInvariance, PTL DEF ServerSpec

\* A packet for an address of a client is written to a session of that
\* client: to the one it has now, unless the dispatcher holds one that has
\* been replaced meanwhile or is being closed.
THEOREM PacketsStayWithTheirClient == ServerSpec => []DeliveryWithinIdentity
<1>1. ASSUME ServerInv, dispatcher \in {"writing", "closing"}
      PROVE  /\ \A t \in Session :
                  dst \in ClientIPs[t] => IdentityOf[t] = IdentityOf[target]
             /\ \/ LookupLocked(dst) = target
                \/ closing[target] # "open"
                \/ Superseded(target)
  <2>1. target \in Session /\ generation[target] # 0 /\ dst \in ClientIPs[target]
    BY <1>1 DEF ServerInv, HeldAreRegistered, Registered
  <2>2. \A t \in Session :
          dst \in ClientIPs[t] => IdentityOf[t] = IdentityOf[target]
    BY <2>1, ConfigAssumption DEF ClientTable
  <2>3. \/ LookupLocked(dst) = target
        \/ closing[target] # "open"
        \/ Superseded(target)
    BY <1>1, <2>1 DEF ServerInv, IInv, LiveSessionReachable
  <2> QED  BY <2>2, <2>3
<1>2. ServerInv => DeliveryWithinIdentity
  BY <1>1 DEF DeliveryWithinIdentity
<1> QED  BY <1>2, ServerInvariance, PTL

-----------------------------------------------------------------------------
(* Sessions that have been replaced                                        *)

\* Whoever is to be closed has been closed or will be.
THEOREM Evictions == ServerSpec => []EvictInv
BY ServerImplementsManager, ReplacedAreHanded DEF ServerUsesManager

\* Once the takeover from a session has returned, the session is cancelled and
\* its reader accepts nothing.
THEOREM ReplacedReadersAreSilent == ServerSpec => ReplacedReaderAcceptsNothing
<1> DEFINE Silent ==
      \A s, t \in Session :
        Successor(s, t) /\ pc[s] \in {"serving", "closing", "returned"} =>
          ~(reader[t] = "reading" /\ reader'[t] = "writing")
<1>1. ServerInv /\ EvictInv /\ [ServerNext]_serverVars => [Silent]_serverVars
  <2> SUFFICES ASSUME ServerInv, EvictInv, [ServerNext]_serverVars,
                      NEW s \in Session, NEW t \in Session, Successor(s, t),
                      pc[s] \in {"serving", "closing", "returned"},
                      reader[t] = "reading", reader'[t] = "writing"
               PROVE  FALSE
    OBVIOUS
  <2>1. t \in Registered
    BY DEF ServerInv, HeldAreRegistered
  <2>2. closing[t] # "open" /\ ctxDone[t]
    BY <2>1 DEF EvictInv
  <2>3. reader \in [Session -> {"none", "reading", "writing", "closing", "done"}]
    BY DEF ServerInv
  <2>4. ASSUME NEW r \in Session, ReaderStep(r) PROVE FALSE
    BY <2>2, <2>3, <2>4
       DEF ReaderStep, ReaderAccept, ReaderEnd, ReaderFail, ReaderWrite,
           ReaderClose, ReaderClosed, ReaderGoes
  <2>5. ASSUME NEW r \in Session, Handle(r) PROVE FALSE
    BY <2>3, <2>5 DEF Handle
  <2>6. reader' # reader
    OBVIOUS
  <2> QED  BY <2>4, <2>5, <2>6
           DEF ServerNext, serverVars, Admit, Disconnect, CloseBody,
               DispatchRead, DispatchFail, DispatchStep, DispatchLookup,
               DispatchDrop, DispatchWrite, DispatchWriteFail, DispatchClose,
               DispatchClosed, DispatcherIsDone, DispatcherGoes, Stop,
               MainStep, StopOnFatal, TakeSnapshot, CloseNext, CloseDone,
               ShutdownStart, ShutdownClean, ShutdownTimeout, MainGoes, Exited
<1> HIDE DEF Silent
<1>2. ServerSpec => [][Silent]_serverVars
  BY <1>1, ServerInvariance, Evictions, PTL DEF ServerSpec
<1> QED  BY <1>2 DEF Silent, ReplacedReaderAcceptsNothing

-----------------------------------------------------------------------------
(* Shutdown                                                                *)

\* The sessions registered before the snapshot.
Seen(s) == generation[s] # 0 /\ generation[s] <= lastSeen

\* The loop has still to close what nobody else closes.
ShutdownInv ==
  /\ lastSeen \in Nat /\ lastSeen <= nextGeneration
  /\ main = "closing" => \A s \in Session : Seen(s) => s \in snapshot \/ Handed(s)
  /\ main \in {"shutdown", "exited"} => \A s \in Session : Seen(s) => Handed(s)

\* A session that is being closed, or is going to be, remains so.
LEMMA HandedStays ==
  ASSUME IInv, EvictInv, [Next]_vars, NEW s \in Session, Handed(s)
  PROVE  Handed(s)'
<1>1. /\ closing \in [Session -> Closing] /\ pc \in [Session -> PC]
      /\ victims \in [Session -> SUBSET Session]
  BY DEF IInv, TypeOK
<1>2. closing[s] # "open" => closing'[s] # "open"
  BY <1>1 DEF Next, HandlerStep, CloseStep, ReplaceLock, ReplaceReject,
              ReplaceInstall, EvictClose, EvictClosed, Serve, Wake,
              HandlerClose, Return, ConnClose, CloseUnregistered, RemoveClaim,
              RemoveIfCurrent, ParentCancel, OtherClose, StartClose,
              AllReturned, vars
<1>3. ASSUME NEW t \in Session, s \in victims[t]
      PROVE  s \in victims'[t] \/ closing'[s] # "open"
  <2>1. pc[t] = "evicting"
    BY <1>3 DEF EvictInv
  <2>2. ASSUME NEW x \in Session, HandlerStep(x)
        PROVE  s \in victims'[t] \/ closing'[s] # "open"
    <3>1. CASE ReplaceInstall(x)
      BY <1>1, <1>3, <2>1, <3>1 DEF ReplaceInstall
    <3>2. CASE EvictClosed(x)
      BY <1>1, <1>3, <3>2 DEF EvictClosed
    <3>3. CASE ~ReplaceInstall(x) /\ ~EvictClosed(x)
      <4>1. victims' = victims
        BY <2>2, <3>3 DEF HandlerStep, ReplaceLock, ReplaceReject, EvictClose,
                          Serve, Wake, HandlerClose, Return
      <4> QED  BY <1>3, <4>1
    <3> QED  BY <3>1, <3>2, <3>3
  <2>3. ASSUME NEW x \in Session,
               CloseStep(x) \/ ParentCancel(x) \/ OtherClose(x)
        PROVE  victims' = victims
    BY <2>3 DEF CloseStep, ConnClose, CloseUnregistered, RemoveClaim,
                RemoveIfCurrent, ParentCancel, OtherClose
  <2> QED  BY <1>3, <2>2, <2>3 DEF Next, AllReturned, vars
<1> QED  BY <1>2, <1>3 DEF Handed

\* Later registrations have later generations.
LEMMA GenerationsGrow ==
  ASSUME IInv, [Next]_vars
  PROVE  /\ nextGeneration \in Nat /\ nextGeneration' \in Nat
         /\ nextGeneration <= nextGeneration'
         /\ \A s \in Session : \/ generation'[s] = generation[s]
                               \/ /\ generation'[s] \in Nat
                                  /\ generation'[s] > nextGeneration
<1>1. generation \in [Session -> Nat] /\ nextGeneration \in Nat
  BY DEF IInv, TypeOK
<1>2. ASSUME NEW x \in Session, ReplaceInstall(x)
      PROVE  /\ nextGeneration' = nextGeneration + 1
             /\ \A s \in Session : \/ generation'[s] = generation[s]
                                   \/ /\ generation'[s] \in Nat
                                      /\ generation'[s] > nextGeneration
  BY <1>1, <1>2 DEF ReplaceInstall
<1>3. ASSUME NEW x \in Session, RemoveIfCurrent(x)
      PROVE  UNCHANGED <<nextGeneration, generation>>
  BY <1>3 DEF RemoveIfCurrent
<1>4. UNCHANGED tableVars \/ UNCHANGED vars
        => UNCHANGED <<nextGeneration, generation>>
  BY DEF tableVars, vars
<1> QED  BY <1>1, <1>2, <1>3, <1>4, TablesUnchanged
         DEF Next, HandlerStep, CloseStep, AllReturned

\* Every step of the server preserves the invariant of the shutdown.
LEMMA NextShutdownInv ==
  ServerInv /\ EvictInv /\ ShutdownInv /\ [ServerNext]_serverVars
    => ShutdownInv'
<1> SUFFICES ASSUME ServerInv, EvictInv, ShutdownInv, [ServerNext]_serverVars
             PROVE  ShutdownInv'
  OBVIOUS
<1>1. IInv /\ [Next]_vars
  BY StepIsManagerStep DEF ServerInv
<1>2. \A s \in Session : Handed(s) => Handed(s)'
  BY <1>1, HandedStays
<1>3. generation \in [Session -> Nat] /\ lastSeen \in Nat
  BY <1>1 DEF IInv, TypeOK, ShutdownInv
<1>4. ASSUME lastSeen' = lastSeen
      PROVE  /\ lastSeen' \in Nat /\ lastSeen' <= nextGeneration'
             /\ \A s \in Session : Seen(s)' => Seen(s)
  BY <1>1, <1>3, <1>4, GenerationsGrow DEF ShutdownInv, Seen
<1>5. CASE TakeSnapshot
  <2>1. /\ main' = "closing" /\ snapshot' = SnapshotLocked
        /\ lastSeen' = nextGeneration /\ UNCHANGED <<managerVars>>
    BY <1>5 DEF TakeSnapshot, MainGoes
  <2>2. nextGeneration' = nextGeneration /\ generation' = generation
    BY <2>1 DEF managerVars, vars
  <2>3. \A s \in Session : Seen(s)' => s \in snapshot' \/ Handed(s)
    BY <2>1, <2>2 DEF EvictInv, Registered, Seen
  <2> QED  BY <1>1, <1>2, <2>1, <2>2, <2>3, GenerationsGrow DEF ShutdownInv
<1>6. CASE CloseNext
  <2>1. PICK v \in snapshot :
          /\ snapshot' = snapshot \ {v}
          /\ \/ StartClose(v)
             \/ closing[v] # "open" /\ UNCHANGED <<closing, ctxDone>>
    BY <1>6 DEF CloseNext
  <2>2. main = "closing" /\ main' = "closing" /\ lastSeen' = lastSeen
    BY <1>6 DEF CloseNext
  <2>3. v \in Session /\ closing \in [Session -> Closing]
    BY <1>1, <2>1 DEF ServerInv, HeldAreRegistered, Registered, IInv, TypeOK
  <2>4. Handed(v)'
    BY <2>1, <2>3 DEF Handed, StartClose
  <2>5. \A s \in Session : Seen(s)' => s \in snapshot' \/ Handed(s)'
    BY <1>2, <1>4, <2>1, <2>2, <2>4 DEF ShutdownInv
  <2> QED  BY <1>4, <2>2, <2>5 DEF ShutdownInv
<1>7. CASE ShutdownStart
  <2>1. /\ main = "closing" /\ main' = "shutdown" /\ snapshot = {}
        /\ lastSeen' = lastSeen
    BY <1>7 DEF ShutdownStart, MainGoes
  <2>2. \A s \in Session : Seen(s)' => Handed(s)'
    BY <1>2, <1>4, <2>1 DEF ShutdownInv
  <2> QED  BY <1>4, <2>1, <2>2 DEF ShutdownInv
<1>8. CASE ~TakeSnapshot /\ ~CloseNext /\ ~ShutdownStart
  <2>1. /\ UNCHANGED <<snapshot, lastSeen>>
        /\ \/ main' = main
           \/ main' = "stopping"
           \/ main = "shutdown" /\ main' = "exited"
    BY <1>8
       DEF ServerNext, serverVars, mainVars, Admit, Handle, Disconnect,
           CloseBody, ReaderStep, ReaderAccept, ReaderEnd, ReaderFail,
           ReaderWrite, ReaderClose, ReaderClosed, ReaderGoes, DispatchRead,
           DispatchFail, DispatchStep, DispatchLookup, DispatchDrop,
           DispatchWrite, DispatchWriteFail, DispatchClose, DispatchClosed,
           DispatcherIsDone, DispatcherGoes, Stop, MainStep, StopOnFatal,
           CloseDone, ShutdownClean, ShutdownTimeout, MainGoes, Exited
  <2>2. main' = "closing" =>
          \A s \in Session : Seen(s)' => s \in snapshot' \/ Handed(s)'
    BY <1>2, <1>4, <2>1 DEF ShutdownInv
  <2>3. main' \in {"shutdown", "exited"} =>
          \A s \in Session : Seen(s)' => Handed(s)'
    BY <1>2, <1>4, <2>1 DEF ShutdownInv
  <2> QED  BY <1>4, <2>1, <2>2, <2>3 DEF ShutdownInv
<1> QED  BY <1>5, <1>6, <1>7, <1>8

\* What was registered when the shutdown loop took its snapshot is closed when
\* the loop is over, or in the hands of a handler that closes it.
THEOREM SnapshotGetsClosed == ServerSpec => []SnapshotIsClosed
<1>1. ServerInit => ShutdownInv
  BY DEF ServerInit, Init, ShutdownInv
<1>2. ServerSpec => []ShutdownInv
  BY <1>1, NextShutdownInv, ServerInvariance, Evictions, PTL DEF ServerSpec
<1>3. ServerInv /\ ShutdownInv => SnapshotIsClosed
  <2> SUFFICES ASSUME ServerInv, ShutdownInv, main \in {"shutdown", "exited"},
                      NEW s \in Session, generation[s] \in 1..lastSeen
               PROVE  closing[s] # "open" \/ \E t \in Session : s \in victims[t]
    BY DEF SnapshotIsClosed
  <2>1. Seen(s)
    BY DEF Seen, ShutdownInv
  <2> QED  BY <2>1 DEF ShutdownInv, Handed
<1> QED  BY <1>2, <1>3, ServerInvariance, PTL

-----------------------------------------------------------------------------
(* Types                                                                   *)

\* Every variable of the server keeps its type.
THEOREM ServerTypes == ServerSpec => []ServerTypeOK
<1> DEFINE Own ==
      /\ admitted \in SUBSET Session
      /\ dispatcher \in {"reading", "lookup", "writing", "closing", "failed"}
      /\ dst \in Address \cup {NoAddress}
      /\ target \in Session \cup {NoSession}
      /\ fatal \in BOOLEAN
      /\ main \in {"running", "stopping", "closing", "shutdown", "exited"}
      /\ victim \in Session \cup {NoSession}
      /\ lastSeen \in Nat
<1>1. ServerInit => Own
  <2>1. ServerInit => fatal \in BOOLEAN
    BY Zenon DEF ServerInit
  <2>2. ServerInit => lastSeen \in Nat
    BY DEF ServerInit
  <2> QED  BY <2>1, <2>2, Zenon DEF ServerInit
<1>2. ServerInv /\ Own /\ [ServerNext]_serverVars => Own'
  <2> SUFFICES ASSUME ServerInv, Own, [ServerNext]_serverVars PROVE Own'
    OBVIOUS
  <2>1. TypeOK /\ snapshot \subseteq Session
    BY DEF ServerInv, IInv, HeldAreRegistered, Registered
  <2>2. \A ip \in Address : LookupLocked(ip) \in Session \cup {NoSession}
    BY <2>1, LookupType
  <2>3. ASSUME NEW s \in Session,
               Admit(s) \/ Handle(s) \/ Disconnect(s) \/ CloseBody(s)
        PROVE  Own'
    BY <2>3 DEF Admit, Handle, Disconnect, CloseBody, dispatcherVars, mainVars
  <2>4. ASSUME NEW s \in Session, ReaderStep(s) PROVE Own'
    BY <2>4 DEF ReaderStep, ReaderAccept, ReaderEnd, ReaderFail, ReaderWrite,
                ReaderClose, ReaderClosed, ReaderGoes, dispatcherVars, mainVars
  <2>5. CASE DispatchRead \/ DispatchFail \/ DispatchStep
    BY <2>2, <2>5
       DEF DispatchRead, DispatchFail, DispatchStep, DispatchLookup,
           DispatchDrop, DispatchWrite, DispatchWriteFail, DispatchClose,
           DispatchClosed, DispatcherIsDone, DispatcherGoes, dispatcherVars,
           mainVars
  <2>6. CASE Stop \/ MainStep
    BY <2>1, <2>6
       DEF Stop, MainStep, StopOnFatal, TakeSnapshot, CloseNext, CloseDone,
           ShutdownStart, ShutdownClean, ShutdownTimeout, MainGoes,
           dispatcherVars, TypeOK
  <2>7. CASE Exited \/ UNCHANGED serverVars
    BY <2>7 DEF Exited, serverVars, dispatcherVars, mainVars
  <2> QED  BY <2>3, <2>4, <2>5, <2>6, <2>7 DEF ServerNext
<1>3. ServerInv /\ Own => ServerTypeOK
  BY DEF ServerInv, IInv, HeldAreRegistered, Registered, ServerTypeOK
<1> HIDE DEF Own
<1>4. ServerSpec => []Own
  BY <1>1, <1>2, ServerInvariance, PTL DEF ServerSpec
<1> QED  BY <1>3, <1>4, ServerInvariance, PTL

-----------------------------------------------------------------------------
(* Where nothing can go on                                                 *)

\* Only what handleRequest has admitted runs or is cancelled; the shutdown loop
\* waits only for a Close that has begun; and the end of the dispatcher is on
\* its way to the main goroutine or has been overtaken by another reason to
\* stop.
WorkInv ==
  /\ \A s \in Session : s \notin admitted => pc[s] = "created" /\ ~ctxDone[s]
  /\ victim # NoSession => closing[victim] # "open"
  /\ dispatcher = "failed" => fatal \/ main # "running"

\* A registered session has been admitted.
LEMMA RegisteredAreAdmitted ==
  ASSUME IInv, WorkInv
  PROVE  Registered \subseteq admitted
BY DEF IInv, HandlerState, WorkInv, Registered

\* Every step of the server preserves the invariant.
LEMMA NextWorkInv ==
  ServerInv /\ ServerTypeOK /\ WorkInv /\ [ServerNext]_serverVars => WorkInv'
<1> SUFFICES ASSUME ServerInv, ServerTypeOK, WorkInv, [ServerNext]_serverVars
             PROVE  WorkInv'
  OBVIOUS
<1>1. /\ pc \in [Session -> PC] /\ closing \in [Session -> Closing]
      /\ ctxDone \in [Session -> BOOLEAN]
      /\ victims \in [Session -> SUBSET Session]
      /\ victim \in Session \cup {NoSession}
  BY DEF ServerTypeOK, TypeOK
<1>2. Registered \subseteq admitted /\ HeldAreRegistered
  BY RegisteredAreAdmitted DEF ServerInv
<1>3. \A s \in Session : closing[s] # "open" => closing'[s] # "open"
  BY <1>1, StepIsManagerStep
     DEF Next, HandlerStep, CloseStep, ReplaceLock, ReplaceReject,
         ReplaceInstall, EvictClose, EvictClosed, Serve, Wake, HandlerClose,
         Return, ConnClose, CloseUnregistered, RemoveClaim, RemoveIfCurrent,
         ParentCancel, OtherClose, StartClose, AllReturned, vars
<1>4. \A s \in Session : s \notin admitted' => pc'[s] = "created" /\ ~ctxDone'[s]
  <2>1. ASSUME NEW x \in Session, StartClose(x), x \in admitted,
               UNCHANGED <<pc, admitted>>
        PROVE  \A s \in Session :
                 s \notin admitted' => pc'[s] = "created" /\ ~ctxDone'[s]
    BY <1>1, <2>1 DEF StartClose, WorkInv
  <2>2. ASSUME NEW x \in admitted, x \in Session, HandlerStep(x),
               UNCHANGED admitted
        PROVE  \A s \in Session :
                 s \notin admitted' => pc'[s] = "created" /\ ~ctxDone'[s]
    <3>1. CASE EvictClose(x)
      <4>1. PICK t \in victims[x] : StartClose(t)
        BY <3>1 DEF EvictClose
      <4>2. t \in Session /\ t \in admitted /\ UNCHANGED pc
        BY <1>1, <1>2, <2>2, <3>1
           DEF EvictClose, ServerInv, IInv, HandlerState, Registered
      <4> QED  BY <2>1, <2>2, <4>1, <4>2
    <3>2. CASE HandlerClose(x)
      BY <2>1, <2>2, <3>2 DEF HandlerClose
    <3>3. CASE ~EvictClose(x) /\ ~HandlerClose(x)
      BY <1>1, <2>2, <3>3
         DEF HandlerStep, ReplaceLock, ReplaceReject, ReplaceInstall,
             EvictClosed, Serve, Wake, Return, WorkInv
    <3> QED  BY <3>1, <3>2, <3>3
  <2>3. ASSUME NEW x \in Session, Admit(x) \/ Disconnect(x) \/ CloseBody(x)
        PROVE  \A s \in Session :
                 s \notin admitted' => pc'[s] = "created" /\ ~ctxDone'[s]
    BY <1>1, <2>3
       DEF Admit, Disconnect, ParentCancel, CloseBody, CloseStep, ConnClose,
           CloseUnregistered, RemoveClaim, RemoveIfCurrent, WorkInv,
           managerVars, vars
  <2>4. ASSUME NEW x \in Session, Handle(x)
        PROVE  \A s \in Session :
                 s \notin admitted' => pc'[s] = "created" /\ ~ctxDone'[s]
    BY <2>2, <2>4 DEF Handle
  <2>5. ASSUME NEW x \in Session, ReaderClose(x)
        PROVE  \A s \in Session :
                 s \notin admitted' => pc'[s] = "created" /\ ~ctxDone'[s]
    BY <1>2, <2>1, <2>5 DEF ReaderClose, HeldAreRegistered
  <2>6. CASE DispatchClose
    <3>1. target \in Session /\ target \in admitted
      BY <1>2, <2>6 DEF DispatchClose, HeldAreRegistered, Registered
    <3> QED  BY <2>1, <2>6, <3>1 DEF DispatchClose
  <2>7. CASE CloseNext
    <3>1. PICK x \in snapshot :
            StartClose(x) \/ UNCHANGED <<closing, ctxDone>>
      BY <2>7 DEF CloseNext
    <3>2. x \in Session /\ x \in admitted
      BY <1>2, <3>1 DEF HeldAreRegistered, Registered
    <3> QED  BY <2>1, <2>7, <3>1, <3>2 DEF CloseNext, WorkInv
  <2>8. \/ \E x \in Session : \/ Admit(x) \/ Disconnect(x) \/ CloseBody(x)
                             \/ Handle(x) \/ ReaderClose(x)
        \/ DispatchClose \/ CloseNext
        \/ UNCHANGED <<pc, ctxDone, admitted>>
    BY DEF ServerNext, serverVars, managerVars, vars, ReaderStep, ReaderAccept,
           ReaderEnd, ReaderFail, ReaderWrite, ReaderClosed, ReaderGoes,
           DispatchRead, DispatchFail, DispatchStep, DispatchLookup,
           DispatchDrop, DispatchWrite, DispatchWriteFail, DispatchClosed,
           DispatcherIsDone, DispatcherGoes, Stop, MainStep, StopOnFatal,
           TakeSnapshot, CloseDone, ShutdownStart, ShutdownClean,
           ShutdownTimeout, MainGoes, Exited
  <2> QED  BY <2>3, <2>4, <2>5, <2>6, <2>7, <2>8 DEF WorkInv
<1>5. victim' # NoSession => closing'[victim'] # "open"
  <2>1. CASE CloseNext
    <3>1. PICK x \in snapshot :
            /\ victim' = x
            /\ \/ StartClose(x)
               \/ closing[x] # "open" /\ UNCHANGED <<closing, ctxDone>>
      BY <2>1 DEF CloseNext
    <3>2. x \in Session
      BY <1>2 DEF HeldAreRegistered, Registered
    <3> QED  BY <1>1, <3>1, <3>2 DEF StartClose
  <2>2. CASE ~CloseNext
    <3>1. victim' = victim \/ victim' = NoSession
      BY <2>2
         DEF ServerNext, serverVars, mainVars, Admit, Handle, Disconnect,
             CloseBody, ReaderStep, ReaderAccept, ReaderEnd, ReaderFail,
             ReaderWrite, ReaderClose, ReaderClosed, ReaderGoes, DispatchRead,
             DispatchFail, DispatchStep, DispatchLookup, DispatchDrop,
             DispatchWrite, DispatchWriteFail, DispatchClose, DispatchClosed,
             DispatcherIsDone, DispatcherGoes, Stop, MainStep, StopOnFatal,
             TakeSnapshot, CloseDone, ShutdownStart, ShutdownClean,
             ShutdownTimeout, MainGoes, Exited
    <3> QED  BY <1>1, <1>3, <3>1 DEF WorkInv
  <2> QED  BY <2>1, <2>2
<1>6. dispatcher' = "failed" => fatal' \/ main' # "running"
  BY DEF WorkInv, ServerNext, serverVars, dispatcherVars, mainVars, Admit,
         Handle, Disconnect, CloseBody, ReaderStep, ReaderAccept, ReaderEnd,
         ReaderFail, ReaderWrite, ReaderClose, ReaderClosed, ReaderGoes,
         DispatchRead, DispatchFail, DispatchStep, DispatchLookup,
         DispatchDrop, DispatchWrite, DispatchWriteFail, DispatchClose,
         DispatchClosed, DispatcherIsDone, DispatcherGoes, Stop, MainStep,
         StopOnFatal, TakeSnapshot, CloseNext, CloseDone, ShutdownStart,
         ShutdownClean, ShutdownTimeout, MainGoes, Exited
<1> QED  BY <1>4, <1>5, <1>6 DEF WorkInv

\* The server touches only what it has admitted, and the failure of the
\* dispatcher is never lost while the program runs.
THEOREM WorkInvariance == ServerSpec => []WorkInv
<1>1. ServerInit => WorkInv
  BY DEF ServerInit, Init, WorkInv
<1> QED  BY <1>1, NextWorkInv, ServerInvariance, ServerTypes, PTL DEF ServerSpec

\* Wherever no goroutine of the running server can go on, nobody waits for the
\* lock; and unless the transport keeps a Conn.Close, the dispatcher is ready
\* for a packet, nobody has asked for a stop that has not happened, and of
\* sessions that are replaced or have ended nothing is left.
THEOREM ServerRestLeavesNothing == ServerSpec => []ServerRestIsSettled
<1>1. ASSUME ServerInv, ServerTypeOK, WorkInv, EvictInv, WaitInv, ServerAtRest
      PROVE  ServerRestIsSettled
  <2>1. \A s \in Session : pc[s] # "created" => HandlerWaits(s)
    BY <1>1 DEF WorkInv, ServerAtRest
  <2>2. \A s \in Session : CloseWaits(s) /\ ReaderWaits(s)
    BY <1>1 DEF ServerAtRest
  <2>3. IInv
    BY <1>1 DEF ServerInv
  <2>4. mu = Free
    <3>1. mu \in Session \cup {Free}
      BY <1>1 DEF ServerTypeOK, TypeOK
    <3> QED  BY <1>1, <2>1, <2>2, <2>3, <3>1, RestFreesLock
  <2>5. dispatcher # "lookup" /\ main # "stopping"
    BY <1>1, <2>4 DEF ServerAtRest, DispatcherWaits, MainWaits
  <2>6. \A s \in admitted : pc[s] \notin {"created", "locked"}
    BY <1>1, <2>4 DEF ServerAtRest, HandlerWaits
  <2>7. ASSUME \A s \in Session : closing[s] # "cancelled"
        PROVE  /\ dispatcher = "reading" /\ main = "running"
               /\ \A s \in Session :
                    /\ generation[s] # 0 /\ Superseded(s) =>
                         closing[s] = "closed"
                    /\ ctxDone[s] =>
                         /\ pc[s] = "returned" /\ reader[s] \in {"none", "done"}
                         /\ s \notin SnapshotLocked
    <3>1. ASSUME NEW s \in Session
          PROVE  /\ closing[s] \in {"open", "closed"} /\ ~CloseRuns(s)
                 /\ ctxDone[s] /\ pc[s] # "created" =>
                      pc[s] = "returned" /\ s \notin SnapshotLocked
                 /\ generation[s] # 0 /\ Superseded(s) => closing[s] = "closed"
      BY <1>1, <2>1, <2>2, <2>3, <2>7, RestCompletes DEF CloseRuns
    <3>2. dispatcher # "closing" \/ ~CloseRuns(target)
      <4>1. dispatcher = "closing" => target \in Session
        BY <1>1 DEF ServerInv, HeldAreRegistered, Registered
      <4> QED  BY <3>1, <4>1
    <3>3. victim = NoSession \/ ~CloseRuns(victim)
      BY <1>1, <3>1 DEF ServerTypeOK
    <3>4. main = "running" /\ ~fatal
      BY <1>1, <2>4, <3>3 DEF ServerAtRest, MainWaits
    <3>5. dispatcher = "reading"
      BY <1>1, <2>4, <3>2, <3>4 DEF ServerAtRest, DispatcherWaits, WorkInv
    <3>6. ASSUME NEW s \in Session, ctxDone[s]
          PROVE  /\ pc[s] = "returned" /\ reader[s] \in {"none", "done"}
                 /\ s \notin SnapshotLocked
      <4>1. pc[s] # "created"
        BY <1>1, <2>6, <3>6 DEF WorkInv
      <4>2. pc[s] = "returned" /\ s \notin SnapshotLocked
        BY <3>1, <3>6, <4>1
      <4>3. closing[s] = "closed"
        BY <1>1, <4>2 DEF WaitInv
      <4> QED  BY <2>2, <3>1, <4>2, <4>3 DEF ReaderWaits
    <3> QED  BY <3>1, <3>4, <3>5, <3>6
  <2> QED  BY <2>5, <2>6, <2>7 DEF ServerRestIsSettled
<1>2. ServerInv /\ ServerTypeOK /\ WorkInv /\ EvictInv /\ WaitInv
        => ServerRestIsSettled
  BY <1>1 DEF ServerRestIsSettled
<1> QED  BY <1>2, ServerInvariance, ServerTypes, WorkInvariance, Evictions,
            ServerInheritsProgress, PTL

=============================================================================
