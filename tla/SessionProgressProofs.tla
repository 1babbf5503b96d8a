------------------------ MODULE SessionProgressProofs ------------------------
(***************************************************************************)
(* What of the manager's liveness is safety: a session that has been       *)
(* replaced is in somebody's hands, every step brings a session forward,   *)
(* and where no goroutine can go on nothing is left undone.                *)
(***************************************************************************)
EXTENDS SessionManagerProofs

Registered == {s \in Session : generation[s] # 0}

-----------------------------------------------------------------------------
(* Sessions that have been replaced                                        *)

\* Somebody has begun to close the session, or is going to.
Handed(s) == closing[s] # "open" \/ \E t \in Session : s \in victims[t]

\* A registered session that is in no table is on its way out, and a session
\* that took over from another holds it until it has been closed.
EvictInv ==
  /\ \A s \in Session : victims[s] # {} => pc[s] = "evicting"
  /\ \A s \in Session : closing[s] # "open" => ctxDone[s]
  /\ \A s \in Registered : s \notin SnapshotLocked => Handed(s)
  /\ \A s \in Session, t \in Registered :
       Successor(s, t) => closing[t] # "open" \/ t \in victims[s]

\* Nobody has anything to close at the start.
LEMMA InitEvictInv == Init => EvictInv
<1> SUFFICES ASSUME Init PROVE EvictInv
  OBVIOUS
<1>1. Registered = {}
  BY DEF Init, Registered
<1> QED  BY <1>1 DEF Init, EvictInv

\* Steps that leave the tables alone.
LEMMA KeptTablesEvict ==
  ASSUME IInv, EvictInv, UNCHANGED tableVars,
         \A s \in Session :
           /\ closing[s] # "open" => closing'[s] # "open"
           /\ closing'[s] # "open" => ctxDone'[s]
           /\ victims'[s] \subseteq victims[s]
           /\ \A t \in victims[s] : t \in victims'[s] \/ closing[t] # "open"
           /\ victims'[s] # {} => pc'[s] = "evicting"
  PROVE  EvictInv'
<1>1. Registered' = Registered /\ SnapshotLocked' = SnapshotLocked
  BY DEF tableVars, Registered, SnapshotLocked
<1>2. \A s, t \in Session : Successor(s, t)' = Successor(s, t)
  BY DEF tableVars, Successor, Newer
<1>3. \A s \in Session : Handed(s) => Handed(s)'
  BY DEF Handed
<1>4. \A s \in Registered' : s \notin SnapshotLocked' => Handed(s)'
  BY <1>1, <1>3 DEF EvictInv, Registered
<1>5. \A s \in Session, t \in Registered' :
        Successor(s, t)' => closing'[t] # "open" \/ t \in victims'[s]
  BY <1>1, <1>2 DEF EvictInv, Registered
<1> QED  BY <1>4, <1>5 DEF EvictInv

\* The takeover puts the session that it finds into the hands of the handler.
LEMMA InstallEvict ==
  ASSUME IInv, EvictInv, NEW x \in Session, ReplaceInstall(x)
  PROVE  EvictInv'
<1>1. TypeOK /\ HandlerState /\ LiveSessionReachable
  BY DEF IInv
<1>2. /\ pc[x] = "locked" /\ generation[x] = 0 /\ victims[x] = {}
      /\ x \notin Registered /\ closing[x] = "open"
  BY <1>1 DEF ReplaceInstall, HandlerState, EvictInv, Registered
<1>3. /\ pc' = [pc EXCEPT ![x] = "evicting"]
      /\ victims' = [victims EXCEPT ![x] = OldSet(x)]
      /\ generation' = [generation EXCEPT ![x] = nextGeneration + 1]
      /\ UNCHANGED <<closing, ctxDone>>
  BY DEF ReplaceInstall
<1>4. /\ victims'[x] = OldSet(x) /\ generation'[x] = nextGeneration + 1
      /\ pc'[x] = "evicting"
      /\ \A s \in Session \ {x} :
           /\ victims'[s] = victims[s] /\ generation'[s] = generation[s]
           /\ pc'[s] = pc[s]
  BY <1>1, <1>3 DEF TypeOK
<1>5. nextGeneration \in Nat
      /\ \A s \in Session : generation[s] \in Nat /\ generation[s] <= nextGeneration
  BY <1>1 DEF TypeOK, HandlerState
<1>6. \A s \in Session : victims[s] \subseteq victims'[s]
  BY <1>2, <1>4
<1>7. Registered' = Registered \cup {x}
  BY <1>4, <1>5 DEF Registered
<1>8. \A ip \in Address : ip \in ClientIPs[x] => LookupLocked(ip)' = x
  BY <1>1, InstallLookup
<1>9. x \in SnapshotLocked'
  <2>1. PICK ip \in ClientIPs[x] : ip \in Address
    BY ManagerAssumption, AddressSetAssumption DEF AddressSets
  <2>2. LookupLocked(ip)' = x
    BY <1>8, <2>1
  <2> QED  BY <2>1, <2>2, ManagerAssumption
           DEF SnapshotLocked, LookupLocked, Address
<1>10. ASSUME NEW s \in Registered', s \notin SnapshotLocked'
       PROVE  Handed(s)'
  <2>1. s \in Registered /\ s # x
    BY <1>7, <1>9, <1>10
  <2>2. CASE s \notin SnapshotLocked
    BY <1>3, <1>6, <2>1, <2>2 DEF EvictInv, Handed
  <2>3. CASE s \in SnapshotLocked
    <3>1. PICK ip \in Address : LookupLocked(ip) = s
      BY <2>3, SnapshotDef
    <3>2. LookupLocked(ip)' # s
      BY <1>10, <2>1, <3>1, ManagerAssumption
         DEF SnapshotLocked, LookupLocked, Address, Registered
    <3>3. s \in OldSet(x)
      <4>1. CASE ip \in ClientIPs[x]
        BY <2>1, <3>1, <4>1, ManagerAssumption DEF OldSet, Occupants, Registered
      <4>2. CASE ip \notin ClientIPs[x]
        BY <1>1, <3>1, <3>2, <4>2, InstallLookup
      <4> QED  BY <4>1, <4>2
    <3> QED  BY <1>4, <3>3 DEF Handed
  <2> QED  BY <2>2, <2>3
<1>11. ASSUME NEW s \in Session, NEW t \in Registered', Successor(s, t)'
       PROVE  closing'[t] # "open" \/ t \in victims'[s]
  <2>1. /\ IdentityOf[s] = IdentityOf[t] /\ generation'[s] > generation'[t]
        /\ \A u \in Session :
             ~(/\ IdentityOf[u] = IdentityOf[t] /\ generation'[u] > generation'[t]
               /\ IdentityOf[s] = IdentityOf[u] /\ generation'[s] > generation'[u])
    BY <1>11 DEF Successor, Newer
  <2>2. t # x /\ t \in Registered /\ t \in Session
    BY <1>4, <1>5, <1>7, <2>1 DEF Registered
  <2>3. CASE s # x
    <3>1. Successor(s, t)
      <4> SUFFICES ASSUME NEW u \in Session, Newer(u, t), Newer(s, u)
                   PROVE  FALSE
        BY <1>4, <2>1, <2>2, <2>3 DEF Successor, Newer
      <4>1. u # x
        BY <1>2, <1>5, <2>2 DEF Newer
      <4> QED  BY <1>4, <2>1, <2>2, <2>3, <4>1 DEF Newer
    <3> QED  BY <1>3, <1>4, <2>2, <2>3, <3>1 DEF EvictInv
  <2>4. CASE s = x
    <3>1. ~Superseded(t)
      <4> SUFFICES ASSUME NEW u \in Session, Newer(u, t) PROVE FALSE
        BY DEF Superseded
      <4>1. u # x
        BY <1>2, <1>5, <2>2 DEF Newer
      <4>2. generation'[x] > generation'[u]
        BY <1>4, <1>5, <4>1
      <4> QED  BY <1>4, <2>1, <2>2, <2>4, <4>1, <4>2 DEF Newer
    <3>2. CASE closing[t] = "open"
      <4>1. \A ip \in ClientIPs[t] : LookupLocked(ip) = t
        BY <1>1, <2>2, <3>1, <3>2 DEF LiveSessionReachable, Registered
      <4>2. PICK ip \in ClientIPs[t] : ip \in Address
        BY <2>2, ManagerAssumption, AddressSetAssumption DEF AddressSets
      <4>3. t \in SnapshotLocked
        BY <2>2, <4>1, <4>2, SnapshotDef
      <4>4. t \in OldSet(x)
        BY <2>1, <2>2, <2>4, <4>3 DEF OldSet
      <4> QED  BY <1>4, <2>4, <4>4
    <3>3. CASE closing[t] # "open"
      BY <1>3, <3>3
    <3> QED  BY <3>2, <3>3
  <2> QED  BY <2>3, <2>4
<1>12. \A s \in Session : victims'[s] # {} => pc'[s] = "evicting"
  BY <1>4 DEF EvictInv
<1> QED  BY <1>3, <1>10, <1>11, <1>12 DEF EvictInv

\* The end of a teardown unmaps a session that is closed by then.
LEMMA RemoveEvict ==
  ASSUME IInv, EvictInv, NEW x \in Session, RemoveIfCurrent(x)
  PROVE  EvictInv'
<1>1. TypeOK /\ RegisteredState
  BY DEF IInv
<1>2. /\ closing[x] = "claimed" /\ closing' = [closing EXCEPT ![x] = "closed"]
      /\ UNCHANGED <<generation, ctxDone, pc, victims>>
  BY DEF RemoveIfCurrent
<1>3. \A s \in Session : closing[s] # "open" <=> closing'[s] # "open"
  BY <1>1, <1>2 DEF TypeOK
<1>4. Registered' = Registered /\ \A s, t \in Session : Successor(s, t)' = Successor(s, t)
  BY <1>2 DEF Registered, Successor, Newer
<1>5. \A s \in Session : Handed(s)' = Handed(s)
  BY <1>2, <1>3 DEF Handed
<1>6. ASSUME NEW s \in Registered, s \notin SnapshotLocked' PROVE Handed(s)
  <2>1. CASE s = x
    BY <1>2, <2>1 DEF Handed
  <2>2. CASE s # x /\ s \in SnapshotLocked
    <3>1. PICK ip \in Address : LookupLocked(ip) = s
      BY <2>2, SnapshotDef
    <3>2. LookupLocked(ip)' = s
      BY <1>1, <2>2, <3>1, RemoveLookup
    <3> QED  BY <1>6, <3>1, <3>2, ManagerAssumption
             DEF SnapshotLocked, LookupLocked, Address, Registered
  <2>3. CASE s \notin SnapshotLocked
    BY <2>3 DEF EvictInv
  <2> QED  BY <2>1, <2>2, <2>3
<1>7. \A s \in Session, t \in Registered' :
        Successor(s, t)' => closing'[t] # "open" \/ t \in victims'[s]
  BY <1>2, <1>3, <1>4 DEF EvictInv, Registered
<1>8. \A s \in Registered' : s \notin SnapshotLocked' => Handed(s)'
  BY <1>4, <1>5, <1>6 DEF Registered
<1> QED  BY <1>2, <1>3, <1>7, <1>8 DEF EvictInv

\* Every step of the manager preserves the invariant.
LEMMA NextEvictInv == IInv /\ EvictInv /\ [Next]_vars => EvictInv'
<1> SUFFICES ASSUME IInv, EvictInv, [Next]_vars PROVE EvictInv'
  OBVIOUS
<1> USE DEF EvictInv
<1>1. /\ pc \in [Session -> PC] /\ closing \in [Session -> Closing]
      /\ ctxDone \in [Session -> BOOLEAN]
      /\ victims \in [Session -> SUBSET Session]
  BY DEF IInv, TypeOK
<1>2. ASSUME NEW x \in Session, HandlerStep(x) PROVE EvictInv'
  <2>1. CASE ReplaceInstall(x)
    BY <2>1, InstallEvict
  <2>2. CASE ReplaceLock(x) \/ ReplaceReject(x) \/ Wake(x) \/ Return(x)
    <3>1. pc[x] # "evicting" /\ victims[x] = {}
      BY <2>2 DEF ReplaceLock, ReplaceReject, Wake, Return
    <3> QED  BY <1>1, <2>2, <3>1, TablesUnchanged, KeptTablesEvict
             DEF ReplaceLock, ReplaceReject, Wake, Return
  <2>3. CASE Serve(x)
    BY <1>1, <2>3, TablesUnchanged, KeptTablesEvict DEF Serve
  <2>4. CASE EvictClose(x) \/ HandlerClose(x)
    <3>1. PICK t \in Session : StartClose(t)
      BY <1>1, <2>4 DEF EvictClose, HandlerClose
    <3>2. UNCHANGED <<pc, victims>>
      BY <2>4 DEF EvictClose, HandlerClose
    <3> QED  BY <1>1, <2>4, <3>1, <3>2, TablesUnchanged, KeptTablesEvict
             DEF StartClose
  <2>5. CASE EvictClosed(x)
    <3>1. PICK t \in victims[x] :
            /\ closing[t] = "closed"
            /\ victims' = [victims EXCEPT ![x] = @ \ {t}]
      BY <2>5 DEF EvictClosed
    <3>2. UNCHANGED <<pc, closing, ctxDone>>
      BY <2>5 DEF EvictClosed
    <3>3. \A s \in Session :
            /\ victims'[s] \subseteq victims[s]
            /\ \A u \in victims[s] : u \in victims'[s] \/ closing[u] # "open"
      BY <1>1, <3>1
    <3> QED  BY <2>5, <3>2, <3>3, TablesUnchanged, KeptTablesEvict
  <2> QED  BY <1>2, <2>1, <2>2, <2>3, <2>4, <2>5 DEF HandlerStep
<1>3. ASSUME NEW x \in Session, CloseStep(x) PROVE EvictInv'
  <2>1. CASE RemoveIfCurrent(x)
    BY <2>1, RemoveEvict
  <2>2. CASE ConnClose(x) \/ CloseUnregistered(x) \/ RemoveClaim(x)
    <3>1. /\ UNCHANGED <<pc, victims, ctxDone>>
          /\ closing[x] # "open"
          /\ \E to : closing' = [closing EXCEPT ![x] = to] /\ to # "open"
      BY <2>2 DEF ConnClose, CloseUnregistered, RemoveClaim
    <3> QED  BY <1>1, <2>2, <3>1, TablesUnchanged, KeptTablesEvict
  <2> QED  BY <1>3, <2>1, <2>2 DEF CloseStep
<1>4. ASSUME NEW x \in Session, ParentCancel(x) PROVE EvictInv'
  BY <1>1, <1>4, TablesUnchanged, KeptTablesEvict DEF ParentCancel
<1>5. ASSUME NEW x \in Session, OtherClose(x) PROVE EvictInv'
  BY <1>1, <1>5, TablesUnchanged, KeptTablesEvict DEF OtherClose, StartClose
<1>6. CASE UNCHANGED vars
  BY <1>6, KeptTablesEvict DEF vars, tableVars
<1> QED  BY <1>2, <1>3, <1>4, <1>5, <1>6 DEF Next, AllReturned

\* In every reachable state of the manager, whoever is to be closed has been
\* closed or will be.
THEOREM ReplacedAreHanded == Spec => []EvictInv
BY InitEvictInv, NextEvictInv, Invariance, PTL DEF Spec

\* What does hold of "one active session": from the return of Replace on, the
\* session that was replaced is cancelled and in no table; and of the sessions
\* of a client that nobody has begun to close, all but the newest are in the
\* hands of a handler that is still inside Replace.
OneSuccessorServes ==
  \A s, t \in Session :
    generation[t] # 0 /\ Newer(s, t) =>
      /\ Successor(s, t) /\ pc[s] \in {"serving", "closing", "returned"} =>
           ctxDone[t] /\ closing[t] # "open"
      /\ closing[t] = "open" =>
           \E u \in Session : pc[u] = "evicting" /\ t \in victims[u]

\* The immediate predecessor of a session that is served is cancelled, and an
\* older session that is still open is about to be closed.
THEOREM SuccessorServesAlone == Spec => []OneSuccessorServes
<1>1. IInv /\ EvictInv => OneSuccessorServes
  <2> SUFFICES ASSUME IInv, EvictInv, NEW s \in Session, NEW t \in Session,
                      generation[t] # 0, Newer(s, t)
               PROVE  /\ Successor(s, t)
                           /\ pc[s] \in {"serving", "closing", "returned"} =>
                           ctxDone[t] /\ closing[t] # "open"
                      /\ closing[t] = "open" =>
                           \E u \in Session :
                             pc[u] = "evicting" /\ t \in victims[u]
    BY DEF OneSuccessorServes
  <2>1. t \in Registered
    BY DEF Registered
  <2>2. ASSUME Successor(s, t), pc[s] \in {"serving", "closing", "returned"}
        PROVE  ctxDone[t] /\ closing[t] # "open"
    BY <2>1, <2>2 DEF EvictInv
  <2>3. ASSUME closing[t] = "open"
        PROVE  \E u \in Session : pc[u] = "evicting" /\ t \in victims[u]
    <3>1. t \notin SnapshotLocked
      <4>1. generation[s] > generation[t] /\ IdentityOf[s] = IdentityOf[t]
        BY DEF Newer
      <4>2. generation[s] \in Nat /\ generation[t] \in Nat
        BY DEF IInv, TypeOK
      <4> QED  BY <4>1, <4>2 DEF IInv, HolderIsNewest
    <3> QED  BY <2>1, <2>3, <3>1 DEF EvictInv, Handed
  <2> QED  BY <2>2, <2>3
<1> QED  BY <1>1, ReplacedAreHanded, Invariance, PTL

-----------------------------------------------------------------------------
(* Where nothing can go on                                                 *)

\* The lock is held only inside the critical section of Replace, never while
\* its holder waits; the compare-and-swap on removed is lost by nobody; and a
\* handler returns only behind its own Close.
WaitInv ==
  /\ \A s \in Session : mu = s => pc[s] = "locked"
  /\ \A s \in Session : removed[s] => closing[s] \in {"claimed", "closed"}
  /\ \A s \in Session : pc[s] = "returned" => closing[s] = "closed"

\* Nobody holds the lock at the start, and nothing has been removed.
LEMMA InitWaitInv == Init => WaitInv
BY ManagerAssumption DEF Init, WaitInv

\* Every step preserves the invariant.
LEMMA NextWaitInv == TypeOK /\ WaitInv /\ [Next]_vars => WaitInv'
<1> SUFFICES ASSUME TypeOK, WaitInv, [Next]_vars PROVE WaitInv'
  OBVIOUS
<1> USE ManagerAssumption DEF WaitInv
<1>1. /\ pc \in [Session -> PC] /\ closing \in [Session -> Closing]
      /\ removed \in [Session -> BOOLEAN]
  BY DEF TypeOK
<1>2. ASSUME NEW x \in Session, HandlerStep(x) PROVE WaitInv'
  <2>1. CASE ReplaceLock(x)
    BY <1>1, <2>1 DEF ReplaceLock
  <2>2. CASE ReplaceReject(x) \/ ReplaceInstall(x)
    BY <1>1, <2>2 DEF ReplaceReject, ReplaceInstall
  <2>3. CASE EvictClose(x) \/ HandlerClose(x)
    <3>1. PICK t \in Session : StartClose(t)
      BY <2>3 DEF EvictClose, HandlerClose, TypeOK
    <3>2. UNCHANGED <<mu, removed, pc>>
      BY <2>3 DEF EvictClose, HandlerClose
    <3> QED  BY <1>1, <3>1, <3>2 DEF StartClose
  <2>4. CASE EvictClosed(x)
    BY <2>4 DEF EvictClosed
  <2>5. CASE Serve(x) \/ Wake(x) \/ Return(x)
    BY <1>1, <2>5 DEF Serve, Wake, Return
  <2> QED  BY <1>2, <2>1, <2>2, <2>3, <2>4, <2>5 DEF HandlerStep
<1>3. ASSUME NEW x \in Session, CloseStep(x) PROVE WaitInv'
  <2>1. CASE ConnClose(x) \/ CloseUnregistered(x) \/ RemoveClaim(x)
    BY <1>1, <2>1 DEF ConnClose, CloseUnregistered, RemoveClaim
  <2>2. CASE RemoveIfCurrent(x)
    BY <1>1, <2>2 DEF RemoveIfCurrent
  <2> QED  BY <1>3, <2>1, <2>2 DEF CloseStep
<1>4. ASSUME NEW x \in Session, ParentCancel(x) \/ OtherClose(x) PROVE WaitInv'
  BY <1>1, <1>4 DEF ParentCancel, OtherClose, StartClose
<1>5. CASE UNCHANGED vars
  BY <1>5 DEF vars
<1> QED  BY <1>2, <1>3, <1>4, <1>5 DEF Next, AllReturned

\* In no reachable state does anybody hold the lock and wait.
THEOREM LockIsHeldBriefly == Spec => []WaitInv
<1>1. IInv => TypeOK
  BY DEF IInv
<1> QED  BY <1>1, InitWaitInv, NextWaitInv, Invariance, PTL DEF Spec

\* Where every teardown and every handler behind its first step waits, the lock
\* is free, nobody is inside the critical section and a Close that runs is
\* inside Conn.Close.
LEMMA RestFreesLock ==
  ASSUME IInv, WaitInv, \A t \in Session : CloseWaits(t),
         \A t \in Session : pc[t] # "created" => HandlerWaits(t),
         NEW s \in Session
  PROVE  /\ mu = Free
         /\ pc[s] # "locked"
         /\ CloseRuns(s) => closing[s] = "cancelled"
<1>1. mu \in Session \cup {Free} /\ closing[s] \in Closing
  BY DEF IInv, TypeOK
<1>2. mu = Free
  <2> SUFFICES ASSUME mu \in Session PROVE FALSE
    BY <1>1
  <2>1. pc[mu] = "locked" /\ HandlerWaits(mu)
    BY DEF WaitInv
  <2> QED  BY <2>1 DEF HandlerWaits
<1>3. pc[s] # "locked"
  BY DEF HandlerWaits
<1>4. ASSUME CloseRuns(s) PROVE closing[s] = "cancelled"
  BY <1>1, <1>2, <1>4 DEF CloseWaits, CloseRuns, WaitInv
<1> QED  BY <1>2, <1>3, <1>4

\* If moreover no Conn.Close hangs, no Close runs at all: a handler behind its
\* first step is served or has returned, and what has been replaced is closed.
LEMMA RestCompletes ==
  ASSUME IInv, EvictInv, WaitInv, \A t \in Session : CloseWaits(t),
         \A t \in Session : pc[t] # "created" => HandlerWaits(t),
         \A t \in Session : closing[t] # "cancelled", NEW s \in Session
  PROVE  /\ closing[s] \in {"open", "closed"}
         /\ ctxDone[s] /\ pc[s] # "created" =>
              pc[s] = "returned" /\ s \notin SnapshotLocked
         /\ generation[s] # 0 /\ Superseded(s) => closing[s] = "closed"
<1>1. pc \in [Session -> PC] /\ victims \in [Session -> SUBSET Session]
  BY DEF IInv, TypeOK
<1>2. \A t \in Session : ~CloseRuns(t)
  BY RestFreesLock
<1>3. \A t \in Session : victims[t] = {}
  <2> SUFFICES ASSUME NEW t \in Session, victims[t] # {} PROVE FALSE
    OBVIOUS
  <2>1. pc[t] = "evicting"
    BY DEF EvictInv
  <2>2. PICK u \in victims[t] : CloseRuns(u)
    BY <2>1 DEF HandlerWaits
  <2> QED  BY <1>1, <1>2, <2>2
<1>4. ASSUME ctxDone[s], pc[s] # "created"
      PROVE  pc[s] = "returned" /\ s \notin SnapshotLocked
  <2>1. pc[s] = "returned"
    BY <1>2, <1>3, <1>4, RestFreesLock DEF HandlerWaits
  <2> QED  BY <2>1 DEF WaitInv, IInv, RegisteredState
<1>5. ASSUME generation[s] # 0, Superseded(s) PROVE closing[s] = "closed"
  <2>1. s \notin SnapshotLocked
    <3>1. PICK t \in Session : Newer(t, s)
      BY <1>5 DEF Superseded
    <3>2. generation[t] \in Nat /\ generation[s] \in Nat
      BY DEF IInv, TypeOK
    <3> QED  BY <3>1, <3>2 DEF IInv, HolderIsNewest, Newer
  <2>2. Handed(s)
    BY <1>5, <2>1 DEF EvictInv, Registered
  <2> QED  BY <1>2, <1>3, <2>2 DEF Handed, CloseRuns
<1> QED  BY <1>2, <1>4, <1>5 DEF CloseRuns

\* Wherever no goroutine can go on, nobody waits for the lock, every
\* registration is decided, and unless a Conn.Close hangs no teardown is left.
THEOREM RestLeavesNothing == Spec => []RestIsSettled
<1>1. IInv /\ EvictInv /\ WaitInv => RestIsSettled
  <2> SUFFICES ASSUME IInv, EvictInv, WaitInv, AtRest PROVE RestIsSettled
    BY DEF RestIsSettled
  <2>1. \A t \in Session : HandlerWaits(t) /\ CloseWaits(t)
    BY DEF AtRest
  <2>2. ASSUME NEW s \in Session
        PROVE  /\ pc[s] \notin {"created", "locked"}
               /\ CloseRuns(s) => closing[s] = "cancelled"
    BY <2>1, RestFreesLock DEF HandlerWaits
  <2> QED  BY <2>1, <2>2, RestCompletes DEF RestIsSettled
<1> QED  BY <1>1, Invariance, ReplacedAreHanded, LockIsHeldBriefly, PTL

-----------------------------------------------------------------------------
(* Every step goes on                                                      *)

HandlerStage == [created |-> 0, locked |-> 1, rejected |-> 2, evicting |-> 2,
                 serving |-> 3, closing |-> 4, returned |-> 5]
CloseStage == [open |-> 0, cancelled |-> 1, connClosed |-> 2, claimed |-> 3,
               closed |-> 4]

\* A step takes nothing of s back,
KeepsProgress(s) ==
  /\ HandlerStage[pc'[s]] >= HandlerStage[pc[s]]
  /\ CloseStage[closing'[s]] >= CloseStage[closing[s]]
  /\ ctxDone[s] => ctxDone'[s]
  /\ pc'[s] = pc[s] => victims'[s] \subseteq victims[s]

\* or brings s forward.
MakesProgress(s) ==
  \/ HandlerStage[pc'[s]] > HandlerStage[pc[s]]
  \/ CloseStage[closing'[s]] > CloseStage[closing[s]]
  \/ ctxDone'[s] /\ ~ctxDone[s]
  \/ pc'[s] = pc[s] /\ victims'[s] # victims[s]

\* No retry, no second Close and no takeover ever throws a session back: every
\* step brings some session forward and none behind.  With VictimsAreFew a
\* session takes eleven steps at most, so the manager comes to rest, and
\* RestIsSettled says how.
EveryStepAdvances ==
  [][/\ \A s \in Session : KeepsProgress(s)
     /\ \E s \in Session : MakesProgress(s)
    ]_vars

\* The stages are numbers.
LEMMA StagesAreNumbers ==
  /\ \A p \in PC : HandlerStage[p] \in Nat
  /\ \A c \in Closing : CloseStage[c] \in Nat
BY DEF PC, Closing, HandlerStage, CloseStage

\* Steps that change the position of one handler only.
LEMMA HandlerAdvances ==
  ASSUME TypeOK, NEW x \in Session, NEW to \in PC,
         pc' = [pc EXCEPT ![x] = to],
         HandlerStage[to] > HandlerStage[pc[x]],
         UNCHANGED <<closing, ctxDone>>,
         \A s \in Session \ {x} : victims'[s] = victims[s]
  PROVE  (\A s \in Session : KeepsProgress(s)) /\ \E s \in Session : MakesProgress(s)
<1>1. /\ pc \in [Session -> PC] /\ closing \in [Session -> Closing]
  BY DEF TypeOK
<1>2. \A s \in Session : HandlerStage[pc[s]] \in Nat /\ CloseStage[closing[s]] \in Nat
  BY <1>1, StagesAreNumbers
<1>3. pc'[x] = to /\ pc'[x] # pc[x] /\ \A s \in Session \ {x} : pc'[s] = pc[s]
  BY <1>1, <1>2
<1>4. MakesProgress(x)
  BY <1>3 DEF MakesProgress
<1>5. ASSUME NEW s \in Session PROVE KeepsProgress(s)
  <2>1. HandlerStage[pc'[s]] >= HandlerStage[pc[s]]
    BY <1>2, <1>3, StagesAreNumbers
  <2> QED  BY <1>2, <1>3, <2>1 DEF KeepsProgress
<1> QED  BY <1>4, <1>5

\* Steps that change the progress of one Close only.
LEMMA CloseAdvances ==
  ASSUME TypeOK, NEW x \in Session, NEW to \in Closing,
         closing' = [closing EXCEPT ![x] = to],
         CloseStage[to] > CloseStage[closing[x]],
         UNCHANGED <<pc, victims>>,
         \A s \in Session : ctxDone[s] => ctxDone'[s]
  PROVE  (\A s \in Session : KeepsProgress(s)) /\ \E s \in Session : MakesProgress(s)
<1>1. /\ pc \in [Session -> PC] /\ closing \in [Session -> Closing]
  BY DEF TypeOK
<1>2. \A s \in Session : HandlerStage[pc[s]] \in Nat /\ CloseStage[closing[s]] \in Nat
  BY <1>1, StagesAreNumbers
<1>3. closing'[x] = to /\ \A s \in Session \ {x} : closing'[s] = closing[s]
  BY <1>1
<1>4. MakesProgress(x)
  BY <1>3 DEF MakesProgress
<1>5. ASSUME NEW s \in Session PROVE KeepsProgress(s)
  <2>1. CloseStage[closing'[s]] >= CloseStage[closing[s]]
    BY <1>2, <1>3, StagesAreNumbers
  <2> QED  BY <1>2, <1>3, <2>1 DEF KeepsProgress
<1> QED  BY <1>4, <1>5

\* The first call of Close is a step forward of its session.
LEMMA StartAdvances ==
  ASSUME IInv, NEW t \in Session, StartClose(t), UNCHANGED <<pc, victims>>
  PROVE  (\A s \in Session : KeepsProgress(s)) /\ \E s \in Session : MakesProgress(s)
<1>1. /\ TypeOK /\ ctxDone \in [Session -> BOOLEAN]
  BY DEF IInv, TypeOK
<1>2. /\ closing[t] = "open" /\ closing' = [closing EXCEPT ![t] = "cancelled"]
      /\ \A s \in Session : ctxDone[s] => ctxDone'[s]
  BY <1>1 DEF StartClose
<1>3. "cancelled" \in Closing /\ CloseStage["cancelled"] > CloseStage["open"]
  BY DEF Closing, CloseStage
<1> QED  BY <1>1, <1>2, <1>3, CloseAdvances

\* Every step of the manager that changes anything brings some session forward
\* and throws none back: a session that has been closed, cancelled or served
\* never returns to an earlier stage.
THEOREM StepsAdvance == Spec => EveryStepAdvances
<1> DEFINE Forward == /\ \A s \in Session : KeepsProgress(s)
                      /\ \E s \in Session : MakesProgress(s)
<1>1. ASSUME IInv, NEW x \in Session, HandlerStep(x) PROVE Forward
  <2>1. /\ TypeOK /\ pc \in [Session -> PC] /\ closing \in [Session -> Closing]
        /\ victims \in [Session -> SUBSET Session]
    BY <1>1 DEF IInv, TypeOK
  <2>2. CASE ReplaceInstall(x)
    <3>1. \A s \in Session \ {x} : victims'[s] = victims[s]
      BY <2>1, <2>2 DEF ReplaceInstall
    <3>2. /\ pc' = [pc EXCEPT ![x] = "evicting"] /\ pc[x] = "locked"
          /\ UNCHANGED <<closing, ctxDone>>
      BY <2>2 DEF ReplaceInstall
    <3>3. "evicting" \in PC /\ HandlerStage["evicting"] > HandlerStage["locked"]
      BY DEF PC, HandlerStage
    <3> QED  BY <2>1, <3>1, <3>2, <3>3, HandlerAdvances
  <2>3. CASE ReplaceLock(x) \/ ReplaceReject(x) \/ Serve(x) \/ Wake(x) \/ Return(x)
    <3>1. PICK to \in PC :
            /\ pc' = [pc EXCEPT ![x] = to]
            /\ HandlerStage[to] > HandlerStage[pc[x]]
      BY <2>3 DEF ReplaceLock, ReplaceReject, Serve, Wake, Return, PC, HandlerStage
    <3>2. UNCHANGED <<closing, ctxDone, victims>>
      BY <2>3 DEF ReplaceLock, ReplaceReject, Serve, Wake, Return
    <3> QED  BY <2>1, <3>1, <3>2, HandlerAdvances
  <2>4. CASE EvictClose(x) \/ HandlerClose(x)
    <3>1. PICK t \in Session : StartClose(t)
      BY <2>1, <2>4 DEF EvictClose, HandlerClose
    <3>2. UNCHANGED <<pc, victims>>
      BY <2>4 DEF EvictClose, HandlerClose
    <3> QED  BY <1>1, <3>1, <3>2, StartAdvances
  <2>5. CASE EvictClosed(x)
    <3>1. PICK t \in victims[x] : victims' = [victims EXCEPT ![x] = @ \ {t}]
      BY <2>5 DEF EvictClosed
    <3>2. UNCHANGED <<pc, closing, ctxDone>>
      BY <2>5 DEF EvictClosed
    <3>3. MakesProgress(x)
      BY <2>1, <3>1, <3>2 DEF MakesProgress
    <3>4. \A s \in Session : victims'[s] \subseteq victims[s]
      BY <2>1, <3>1
    <3>5. \A s \in Session : KeepsProgress(s)
      BY <2>1, <3>2, <3>4, StagesAreNumbers DEF KeepsProgress
    <3> QED  BY <3>3, <3>5
  <2> QED  BY <1>1, <2>2, <2>3, <2>4, <2>5 DEF HandlerStep
<1>2. ASSUME IInv, NEW x \in Session, CloseStep(x) PROVE Forward
  <2>1. PICK to \in Closing :
          /\ closing' = [closing EXCEPT ![x] = to]
          /\ CloseStage[to] > CloseStage[closing[x]]
    BY <1>2 DEF CloseStep, ConnClose, CloseUnregistered, RemoveClaim,
                RemoveIfCurrent, Closing, CloseStage
  <2>2. UNCHANGED <<pc, victims, ctxDone>>
    BY <1>2 DEF CloseStep, ConnClose, CloseUnregistered, RemoveClaim,
                RemoveIfCurrent
  <2> QED  BY <1>2, <2>1, <2>2, CloseAdvances DEF IInv
<1>3. ASSUME IInv, NEW x \in Session, OtherClose(x) PROVE Forward
  BY <1>3, StartAdvances DEF OtherClose
<1>4. ASSUME IInv, NEW x \in Session, ParentCancel(x) PROVE Forward
  <2>1. /\ pc \in [Session -> PC] /\ closing \in [Session -> Closing]
        /\ ctxDone \in [Session -> BOOLEAN]
    BY <1>4 DEF IInv, TypeOK
  <2>2. /\ ~ctxDone[x] /\ ctxDone' = [ctxDone EXCEPT ![x] = TRUE]
        /\ UNCHANGED <<pc, closing, victims>>
    BY <1>4 DEF ParentCancel
  <2>3. MakesProgress(x)
    BY <2>1, <2>2 DEF MakesProgress
  <2>4. \A s \in Session : ctxDone[s] => ctxDone'[s]
    BY <2>1, <2>2
  <2>5. \A s \in Session : KeepsProgress(s)
    BY <2>1, <2>2, <2>4, StagesAreNumbers DEF KeepsProgress
  <2> QED  BY <2>3, <2>5
<1>5. IInv /\ [Next]_vars => [Forward]_vars
  BY <1>1, <1>2, <1>3, <1>4 DEF Next, AllReturned
<1> HIDE DEF Forward
<1>6. Spec => [][Forward]_vars
  BY <1>5, Invariance, PTL DEF Spec
<1> QED  BY <1>6 DEF Forward, EveryStepAdvances

=============================================================================
