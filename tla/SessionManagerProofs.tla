------------------------ MODULE SessionManagerProofs ------------------------
(***************************************************************************)
(* The safety of the session registry, for any number of sessions,         *)
(* identities and addresses and any session limit.                         *)
(*                                                                         *)
(* The tables are only ever read through LookupLocked, so the proofs first *)
(* say what each write does to LookupLocked and then forget the tables.    *)
(***************************************************************************)
EXTENDS SessionManager, FiniteSetTheorems, TLAPS

\* Every entry names a session that owns the address.
TablesSound ==
  \A ip \in Address :
    LookupLocked(ip) # NoSession => ip \in ClientIPs[LookupLocked(ip)]

\* What the tables may refer to.
RegisteredState ==
  \A s \in SnapshotLocked : generation[s] # 0 /\ closing[s] # "closed"

\* What the progress of a handler says about its session: until it has gone
\* through Replace, nobody else can reach the session and close it.
HandlerState ==
  \A s \in Session :
    /\ pc[s] \in {"created", "locked", "rejected"} => generation[s] = 0
    /\ pc[s] \in {"created", "locked"} => closing[s] = "open"
    /\ generation[s] # 0 => manager[s]
    /\ generation[s] <= nextGeneration
    /\ \A t \in victims[s] : generation[t] # 0

\* The holder of an address is the newest session of its identity.
HolderIsNewest ==
  \A s \in SnapshotLocked : \A t \in Session :
    IdentityOf[t] = IdentityOf[s] => generation[t] <= generation[s]

IInv ==
  /\ TypeOK
  /\ TablesSound
  /\ AtomicRegistration
  /\ OneSessionPerIdentity
  /\ RegisteredState
  /\ HandlerState
  /\ HolderIsNewest
  /\ LiveSessionReachable

-----------------------------------------------------------------------------
(* Types                                                                   *)

\* A lookup finds a session or nothing.
LEMMA LookupType ==
  ASSUME TypeOK, NEW ip \in Address
  PROVE  LookupLocked(ip) \in Session \cup {NoSession}
BY ManagerAssumption DEF TypeOK, LookupLocked, Address

\* A session is in the snapshot iff some address finds it.
LEMMA SnapshotDef ==
  ASSUME NEW s
  PROVE  s \in SnapshotLocked <=>
           s \in Session /\ \E ip \in Address : LookupLocked(ip) = s
BY ManagerAssumption DEF SnapshotLocked, LookupLocked, Address

\* The sessions that give way are in the tables and are others than s.
LEMMA OldSetType ==
  ASSUME TypeOK, NEW s \in Session
  PROVE  /\ OldSet(s) \subseteq SnapshotLocked
         /\ s \notin OldSet(s)
<1>1. \A t \in Occupants(s) : t \in SnapshotLocked /\ t # s
  BY ManagerAssumption, LookupType, SnapshotDef DEF Occupants, Address
<1> QED  BY <1>1 DEF OldSet

\* Deleting from a table and mapping into it keep it a table.
LEMMA TableType ==
  ASSUME NEW D, NEW table \in [D -> Session \cup {NoSession}],
         NEW gone, NEW s \in Session
  PROVE  /\ Delete(table, gone) \in [D -> Session \cup {NoSession}]
         /\ MapAddresses(table, s) \in [D -> Session \cup {NoSession}]
BY DEF Delete, MapAddresses

-----------------------------------------------------------------------------
(* What the writes do to LookupLocked                                      *)

\* What a lookup finds after the critical section of Replace.
LEMMA InstallLookup ==
  ASSUME TypeOK, NEW s \in Session, ReplaceInstall(s), NEW ip \in Address
  PROVE  LookupLocked(ip)' =
           IF ip \in ClientIPs[s] THEN s
           ELSE IF LookupLocked(ip) \in OldSet(s)
                   /\ ip \in ClientIPs[LookupLocked(ip)]
                THEN NoSession ELSE LookupLocked(ip)
BY ManagerAssumption
   DEF TypeOK, ReplaceInstall, LookupLocked, Address, Delete, MapAddresses

\* What a lookup finds after the critical section of RemoveIfCurrent.
LEMMA RemoveLookup ==
  ASSUME TypeOK, NEW s \in Session, RemoveIfCurrent(s), NEW ip \in Address
  PROVE  LookupLocked(ip)' =
           IF LookupLocked(ip) = s /\ ip \in ClientIPs[s]
           THEN NoSession ELSE LookupLocked(ip)
BY ManagerAssumption
   DEF TypeOK, RemoveIfCurrent, LookupLocked, Address, Delete

\* Only an accepted registration and the end of a teardown touch the tables,
\* and only the former the generations.
LEMMA TablesUnchanged ==
  ASSUME NEW s \in Session,
         \/ ReplaceLock(s) \/ ReplaceReject(s) \/ EvictClose(s)
         \/ EvictClosed(s) \/ Serve(s) \/ Wake(s) \/ HandlerClose(s)
         \/ Return(s) \/ ConnClose(s) \/ CloseUnregistered(s)
         \/ RemoveClaim(s) \/ ParentCancel(s) \/ OtherClose(s)
  PROVE  UNCHANGED tableVars
BY DEF ReplaceLock, ReplaceReject, EvictClose, EvictClosed, Serve, Wake,
       HandlerClose, Return, ConnClose, CloseUnregistered, RemoveClaim,
       ParentCancel, OtherClose

-----------------------------------------------------------------------------
(* Type correctness                                                        *)

\* The initial state has its type.
LEMMA InitTypeOK == Init => TypeOK
BY DEF Init, TypeOK, PC, Closing

\* Every step keeps the type.
LEMMA NextTypeOK == TypeOK /\ [Next]_vars => TypeOK'
<1> SUFFICES ASSUME TypeOK, [Next]_vars PROVE TypeOK'
  OBVIOUS
<1> USE DEF TypeOK, PC, Closing
<1>1. ASSUME NEW s \in Session, HandlerStep(s) PROVE TypeOK'
  <2>1. CASE ReplaceInstall(s)
    <3>1. /\ sessions4' \in [Addr4 -> Session \cup {NoSession}]
          /\ sessions6' \in [Addr6 -> Session \cup {NoSession}]
      BY <2>1, TableType DEF ReplaceInstall
    <3>2. OldSet(s) \subseteq Session
      BY OldSetType DEF SnapshotLocked
    <3> QED  BY <2>1, <3>1, <3>2 DEF ReplaceInstall
  <2>2. CASE ReplaceLock(s) \/ ReplaceReject(s)
    BY <2>2 DEF ReplaceLock, ReplaceReject, tableVars
  <2>3. CASE EvictClose(s)
    <3>1. PICK t \in victims[s] : StartClose(t)
      BY <2>3 DEF EvictClose
    <3> QED  BY <2>3, <3>1 DEF EvictClose, StartClose, tableVars
  <2>4. CASE EvictClosed(s)
    <3>1. PICK t \in victims[s] : victims' = [victims EXCEPT ![s] = @ \ {t}]
      BY <2>4 DEF EvictClosed
    <3>2. victims' \in [Session -> SUBSET Session]
      BY <3>1
    <3> QED  BY <2>4, <3>2 DEF EvictClosed, tableVars
  <2>5. CASE Serve(s) \/ Wake(s) \/ HandlerClose(s) \/ Return(s)
    BY <2>5 DEF Serve, Wake, HandlerClose, Return, StartClose, tableVars
  <2> QED  BY <1>1, <2>1, <2>2, <2>3, <2>4, <2>5 DEF HandlerStep
<1>2. ASSUME NEW s \in Session, CloseStep(s) PROVE TypeOK'
  <2>1. CASE RemoveIfCurrent(s)
    <3>1. /\ sessions4' \in [Addr4 -> Session \cup {NoSession}]
          /\ sessions6' \in [Addr6 -> Session \cup {NoSession}]
      BY <2>1, TableType DEF RemoveIfCurrent
    <3> QED  BY <2>1, <3>1 DEF RemoveIfCurrent
  <2>2. CASE ConnClose(s) \/ CloseUnregistered(s)
    BY <2>2 DEF ConnClose, CloseUnregistered, tableVars
  <2>3. CASE RemoveClaim(s)
    BY <2>3 DEF RemoveClaim, tableVars
  <2> QED  BY <1>2, <2>1, <2>2, <2>3 DEF CloseStep
<1>3. ASSUME NEW s \in Session, ParentCancel(s) \/ OtherClose(s)
      PROVE  TypeOK'
  BY <1>3 DEF ParentCancel, OtherClose, StartClose, tableVars
<1>4. CASE UNCHANGED vars
  BY <1>4 DEF vars
<1> QED  BY <1>1, <1>2, <1>3, <1>4 DEF Next, AllReturned

\* Every variable keeps its type.
THEOREM TypeCorrect == Spec => []TypeOK
BY InitTypeOK, NextTypeOK, PTL DEF Spec

-----------------------------------------------------------------------------
(* The inductive invariant                                                 *)

\* What a registration does to the set of registered sessions: those of the
\* same identity leave, those of other identities keep every address.
LEMMA InstallEffect ==
  ASSUME IInv, NEW s \in Session, ReplaceInstall(s)
  PROVE  /\ s \notin SnapshotLocked
         /\ \A t \in OldSet(s) : IdentityOf[t] = IdentityOf[s]
         /\ \A t \in SnapshotLocked \ OldSet(s) :
              /\ IdentityOf[t] # IdentityOf[s]
              /\ \A ip \in Address : LookupLocked(ip) = t =>
                   LookupLocked(ip)' = t
         /\ SnapshotLocked' = (SnapshotLocked \ OldSet(s)) \cup {s}
<1> USE ManagerAssumption, AddressSetAssumption DEF AddressSets
<1>1. TypeOK /\ TablesSound /\ AtomicRegistration
  BY DEF IInv
<1>2. s \notin SnapshotLocked
  BY DEF IInv, HandlerState, RegisteredState, ReplaceInstall
<1>3. ASSUME NEW t \in OldSet(s) PROVE IdentityOf[t] = IdentityOf[s]
  BY <1>3 DEF OldSet, OwnedByAnother, ReplaceInstall
<1>4. ASSUME NEW t \in SnapshotLocked \ OldSet(s)
      PROVE  IdentityOf[t] # IdentityOf[s]
  BY <1>2, <1>4 DEF OldSet
<1>5. ASSUME NEW t \in SnapshotLocked \ OldSet(s), NEW ip \in Address,
             LookupLocked(ip) = t
      PROVE  LookupLocked(ip)' = t
  <2>1. t \in Session /\ t # NoSession /\ t # s
    BY <1>2, <1>5 DEF SnapshotLocked
  <2>2. ip \notin ClientIPs[s]
    BY <1>5, <2>1 DEF OldSet, Occupants
  <2> QED  BY <1>1, <1>5, <2>2, InstallLookup
<1>6. ASSUME NEW t PROVE
        t \in SnapshotLocked' <=> t \in (SnapshotLocked \ OldSet(s)) \cup {s}
  <2>1. t \in SnapshotLocked' <=>
          t \in Session /\ \E ip \in Address : LookupLocked(ip)' = t
    BY DEF SnapshotLocked, LookupLocked, Address
  <2>2. CASE t = s
    <3>1. PICK ip \in ClientIPs[s] : ip \in Address
      OBVIOUS
    <3>2. LookupLocked(ip)' = s
      BY <1>1, <3>1, InstallLookup
    <3> QED  BY <2>1, <2>2, <3>1, <3>2
  <2>3. CASE t # s /\ t \in SnapshotLocked \ OldSet(s)
    <3>1. PICK ip \in Address : LookupLocked(ip) = t
      BY <2>3, SnapshotDef
    <3> QED  BY <1>5, <2>1, <2>3, <3>1 DEF SnapshotLocked
  <2>4. CASE t # s /\ t \in SnapshotLocked'
    <3>1. PICK ip \in Address : LookupLocked(ip)' = t
      BY <2>1, <2>4
    <3>2. t \in Session /\ t # NoSession
      BY <2>1, <2>4
    <3>3. LookupLocked(ip) = t
      BY <1>1, <2>4, <3>1, <3>2, InstallLookup
    <3>4. ip \in ClientIPs[t]
      BY <1>1, <3>2, <3>3 DEF TablesSound
    <3>5. t \notin OldSet(s)
      BY <1>1, <2>4, <3>1, <3>2, <3>3, <3>4, InstallLookup
    <3> QED  BY <2>4, <3>2, <3>3, <3>5, SnapshotDef
  <2> QED  BY <2>2, <2>3, <2>4
<1> QED  BY <1>2, <1>3, <1>4, <1>5, <1>6

\* A registration preserves the inductive invariant.
LEMMA InstallPreserves ==
  ASSUME IInv, NEW s \in Session, ReplaceInstall(s), TypeOK'
  PROVE  IInv'
<1> USE ManagerAssumption, AddressSetAssumption DEF AddressSets
<1>1. TypeOK /\ TablesSound /\ AtomicRegistration /\ OneSessionPerIdentity
      /\ RegisteredState /\ HandlerState /\ HolderIsNewest
      /\ LiveSessionReachable
  BY DEF IInv
<1>2. \A t \in SnapshotLocked' :
        \/ t = s
        \/ t \in SnapshotLocked \ OldSet(s) /\ IdentityOf[t] # IdentityOf[s]
  BY InstallEffect
<1>3. /\ generation' = [generation EXCEPT ![s] = nextGeneration + 1]
      /\ nextGeneration' = nextGeneration + 1
      /\ manager' = [manager EXCEPT ![s] = TRUE]
      /\ closing' = closing
      /\ pc' = [pc EXCEPT ![s] = "evicting"]
      /\ victims' = [victims EXCEPT ![s] = OldSet(s)]
      /\ pc[s] = "locked"
  BY DEF ReplaceInstall
<1>4. /\ generation \in [Session -> Nat]
      /\ nextGeneration \in Nat
      /\ pc \in [Session -> PC]
      /\ closing \in [Session -> Closing]
      /\ manager \in [Session -> BOOLEAN]
      /\ victims \in [Session -> SUBSET Session]
  BY <1>1 DEF TypeOK
<1>5. TablesSound'
  <2> SUFFICES ASSUME NEW ip \in Address, LookupLocked(ip)' # NoSession
               PROVE  ip \in ClientIPs[LookupLocked(ip)']
    BY DEF TablesSound
  <2> QED  BY <1>1, InstallLookup DEF TablesSound
<1>6. AtomicRegistration'
  <2> SUFFICES ASSUME NEW t \in SnapshotLocked', NEW ip \in ClientIPs[t]
               PROVE  LookupLocked(ip)' = t
    BY DEF AtomicRegistration
  <2>1. t \in Session
    BY DEF SnapshotLocked
  <2>2. ip \in Address
    BY <2>1
  <2>3. CASE t = s
    BY <1>1, <2>2, <2>3, InstallLookup
  <2>4. CASE t \in SnapshotLocked \ OldSet(s)
    BY <1>1, <2>2, <2>4, InstallEffect DEF AtomicRegistration
  <2> QED  BY <1>2, <2>3, <2>4
<1>7. OneSessionPerIdentity'
  BY <1>1, <1>2 DEF OneSessionPerIdentity
<1>8. RegisteredState'
  <2> SUFFICES ASSUME NEW t \in SnapshotLocked'
               PROVE  generation'[t] # 0 /\ closing'[t] # "closed"
    BY DEF RegisteredState
  <2>1. CASE t = s
    BY <1>1, <1>3, <1>4, <2>1 DEF HandlerState
  <2>2. CASE t # s
    BY <1>1, <1>2, <1>3, <1>4, <2>2 DEF RegisteredState, SnapshotLocked
  <2> QED  BY <2>1, <2>2
<1>9. HandlerState'
  <2>1. \A t \in OldSet(s) : generation[t] # 0 /\ t \in Session
    BY <1>1, OldSetType DEF RegisteredState, SnapshotLocked
  <2> SUFFICES ASSUME NEW r \in Session
               PROVE  /\ pc'[r] \in {"created", "locked", "rejected"} =>
                           generation'[r] = 0
                      /\ pc'[r] \in {"created", "locked"} => closing'[r] = "open"
                      /\ generation'[r] # 0 => manager'[r]
                      /\ generation'[r] <= nextGeneration'
                      /\ \A t \in victims'[r] : generation'[t] # 0
    BY DEF HandlerState
  <2>2. \A t \in victims'[r] : t \in Session /\ generation[t] # 0
    BY <1>1, <1>3, <1>4, <2>1 DEF HandlerState
  <2>3. \A t \in victims'[r] : generation'[t] # 0
    BY <1>3, <1>4, <2>2
  <2>4. CASE r = s
    BY <1>1, <1>3, <1>4, <2>3, <2>4
  <2>5. CASE r # s
    BY <1>1, <1>3, <1>4, <2>3, <2>5 DEF HandlerState
  <2> QED  BY <2>4, <2>5
<1>10. HolderIsNewest'
  <2> SUFFICES ASSUME NEW t \in SnapshotLocked', NEW u \in Session,
                      IdentityOf[u] = IdentityOf[t]
               PROVE  generation'[u] <= generation'[t]
    BY DEF HolderIsNewest
  <2>1. CASE t = s
    BY <1>1, <1>3, <1>4, <2>1 DEF HandlerState
  <2>2. CASE t # s
    <3>1. t \in SnapshotLocked /\ t \in Session /\ u # s
      BY <1>2, <2>2 DEF SnapshotLocked
    <3> QED  BY <1>1, <1>3, <1>4, <2>2, <3>1 DEF HolderIsNewest
  <2> QED  BY <2>1, <2>2
<1>11. LiveSessionReachable'
  <2> SUFFICES ASSUME NEW t \in Session, generation'[t] # 0,
                      closing'[t] = "open", ~Superseded(t)',
                      NEW ip \in ClientIPs[t]
               PROVE  LookupLocked(ip)' = t
    BY DEF LiveSessionReachable
  <2>1. ip \in Address
    OBVIOUS
  <2>2. CASE t = s
    BY <1>1, <2>1, <2>2, InstallLookup
  <2>3. CASE t # s
    <3>1. generation[t] # 0 /\ closing[t] = "open"
      BY <1>3, <1>4, <2>3
    <3>2. IdentityOf[t] # IdentityOf[s]
      <4>1. generation[t] <= nextGeneration
        BY <1>1 DEF HandlerState
      <4>2. generation'[s] > generation'[t]
        BY <1>3, <1>4, <2>3, <4>1
      <4> QED  BY <4>2 DEF Superseded, Newer
    <3>3. ~Superseded(t)
      <4> SUFFICES ASSUME NEW u \in Session, Newer(u, t) PROVE FALSE
        BY DEF Superseded
      <4>1. u # s
        BY <3>2 DEF Newer
      <4>2. generation'[u] > generation'[t]
        BY <1>3, <1>4, <2>3, <4>1 DEF Newer
      <4> QED  BY <4>2 DEF Superseded, Newer
    <3>4. LookupLocked(ip) = t
      BY <1>1, <3>1, <3>3 DEF LiveSessionReachable
    <3>5. t \in SnapshotLocked
      BY <2>1, <3>4, SnapshotDef
    <3>6. t \notin OldSet(s)
      BY <3>2, InstallEffect
    <3> QED  BY <2>1, <3>4, <3>5, <3>6, InstallEffect
  <2> QED  BY <2>2, <2>3
<1> QED  BY <1>5, <1>6, <1>7, <1>8, <1>9, <1>10, <1>11 DEF IInv

\* The end of a teardown unmaps the session and touches nobody else.
LEMMA RemoveEffect ==
  ASSUME IInv, NEW s \in Session, RemoveIfCurrent(s)
  PROVE  /\ SnapshotLocked' = SnapshotLocked \ {s}
         /\ \A ip \in Address : LookupLocked(ip) # s =>
              LookupLocked(ip)' = LookupLocked(ip)
         /\ \A ip \in Address : LookupLocked(ip)' # s
         /\ \A ip \in Address : LookupLocked(ip) = s =>
              LookupLocked(ip)' = NoSession
<1>1. TypeOK /\ TablesSound /\ NoSession \notin Session
  BY ManagerAssumption DEF IInv
<1>2. \A ip \in Address : LookupLocked(ip) # s =>
        LookupLocked(ip)' = LookupLocked(ip)
  BY <1>1, RemoveLookup
<1>3. \A ip \in Address : LookupLocked(ip) = s =>
        LookupLocked(ip)' = NoSession
  BY <1>1, RemoveLookup DEF TablesSound
<1>4. \A t : t \in SnapshotLocked' <=>
        t \in Session /\ \E ip \in Address : LookupLocked(ip)' = t
  BY ManagerAssumption DEF SnapshotLocked, LookupLocked, Address
<1>5. \A t : t \in SnapshotLocked <=>
        t \in Session /\ \E ip \in Address : LookupLocked(ip) = t
  BY SnapshotDef
<1> QED  BY <1>1, <1>2, <1>3, <1>4, <1>5

\* The end of a teardown preserves the inductive invariant.
LEMMA RemovePreserves ==
  ASSUME IInv, NEW s \in Session, RemoveIfCurrent(s), TypeOK'
  PROVE  IInv'
<1> USE ManagerAssumption
<1>1. TypeOK /\ TablesSound /\ AtomicRegistration /\ OneSessionPerIdentity
      /\ RegisteredState /\ HandlerState /\ HolderIsNewest
      /\ LiveSessionReachable
  BY DEF IInv
<1>2. /\ closing' = [closing EXCEPT ![s] = "closed"]
      /\ closing \in [Session -> Closing]
      /\ closing[s] = "claimed"
      /\ UNCHANGED <<generation, nextGeneration, manager, pc, victims>>
  BY <1>1 DEF TypeOK, RemoveIfCurrent
<1>3. TablesSound'
  BY <1>1, RemoveEffect DEF TablesSound
<1>4. AtomicRegistration'
  BY <1>1, RemoveEffect DEF AtomicRegistration, SnapshotLocked, Address
<1>5. OneSessionPerIdentity'
  BY <1>1, RemoveEffect DEF OneSessionPerIdentity
<1>6. RegisteredState'
  BY <1>1, <1>2, RemoveEffect DEF RegisteredState, SnapshotLocked
<1>7. HandlerState'
  BY <1>1, <1>2 DEF HandlerState
<1>8. HolderIsNewest'
  BY <1>1, <1>2, RemoveEffect DEF HolderIsNewest
<1>9. LiveSessionReachable'
  <2> SUFFICES ASSUME NEW t \in Session, generation'[t] # 0,
                      closing'[t] = "open", ~Superseded(t)',
                      NEW ip \in ClientIPs[t]
               PROVE  LookupLocked(ip)' = t
    BY DEF LiveSessionReachable
  <2>1. t # s /\ closing[t] = "open"
    BY <1>2
  <2>2. LookupLocked(ip) = t
    BY <1>1, <1>2, <2>1 DEF LiveSessionReachable, Superseded, Newer
  <2> QED  BY <2>1, <2>2, RemoveEffect
<1> QED  BY <1>3, <1>4, <1>5, <1>6, <1>7, <1>8, <1>9 DEF IInv

\* A step that leaves the tables alone can only disturb the parts about
\* handlers and about closing.
LEMMA KeptTablesPreserve ==
  ASSUME IInv, TypeOK', UNCHANGED tableVars, HandlerState',
         \A s \in Session : closing'[s] = "open" => closing[s] = "open",
         \A s \in SnapshotLocked : closing'[s] # "closed"
  PROVE  IInv'
<1>1. /\ \A ip \in Address : LookupLocked(ip)' = LookupLocked(ip)
      /\ SnapshotLocked' = SnapshotLocked
      /\ generation' = generation
  BY DEF tableVars, LookupLocked, SnapshotLocked
<1>2. TablesSound'
  BY <1>1 DEF IInv, TablesSound
<1>3. AtomicRegistration'
  BY <1>1, ManagerAssumption DEF IInv, AtomicRegistration, SnapshotLocked
<1>4. OneSessionPerIdentity' /\ HolderIsNewest'
  BY <1>1 DEF IInv, OneSessionPerIdentity, HolderIsNewest
<1>5. RegisteredState'
  BY <1>1 DEF IInv, RegisteredState
<1>6. LiveSessionReachable'
  BY <1>1, ManagerAssumption
     DEF IInv, LiveSessionReachable, Superseded, Newer
<1> QED  BY <1>2, <1>3, <1>4, <1>5, <1>6 DEF IInv

\* The empty manager satisfies the inductive invariant.
LEMMA InitIInv == Init => IInv
<1> SUFFICES ASSUME Init PROVE IInv
  OBVIOUS
<1>1. \A ip \in Address : LookupLocked(ip) = NoSession
  BY DEF Init, LookupLocked, Address
<1>2. SnapshotLocked = {}
  BY <1>1, SnapshotDef, ManagerAssumption
<1>3. TablesSound
  BY <1>1 DEF TablesSound
<1>4. /\ AtomicRegistration /\ OneSessionPerIdentity /\ RegisteredState
      /\ HolderIsNewest
  BY <1>2
     DEF AtomicRegistration, OneSessionPerIdentity, RegisteredState,
         HolderIsNewest
<1>5. HandlerState /\ LiveSessionReachable
  BY DEF Init, HandlerState, LiveSessionReachable
<1> QED  BY <1>3, <1>4, <1>5, InitTypeOK DEF IInv

\* The steps of a handler other than a registration preserve the inductive
\* invariant.
LEMMA HandlerPreserves ==
  ASSUME IInv, NEW s \in Session, HandlerStep(s), ~ReplaceInstall(s), TypeOK'
  PROVE  IInv'
<1>1. TypeOK /\ RegisteredState /\ HandlerState
  BY DEF IInv
<1>2. /\ pc \in [Session -> PC]
      /\ closing \in [Session -> Closing]
      /\ victims \in [Session -> SUBSET Session]
  BY <1>1 DEF TypeOK
<1> USE DEF HandlerState
<1>3. CASE ReplaceLock(s)
  <2>1. UNCHANGED tableVars /\ HandlerState' /\ closing' = closing
    BY <1>1, <1>2, <1>3 DEF ReplaceLock, tableVars
  <2> QED  BY <1>1, <2>1, KeptTablesPreserve DEF RegisteredState
<1>4. CASE ReplaceReject(s)
  <2>1. UNCHANGED tableVars /\ HandlerState' /\ closing' = closing
    BY <1>1, <1>2, <1>4 DEF ReplaceReject, tableVars
  <2> QED  BY <1>1, <2>1, KeptTablesPreserve DEF RegisteredState
<1>5. CASE EvictClose(s)
  <2>1. PICK t \in victims[s] : StartClose(t)
    BY <1>5 DEF EvictClose
  <2>2. t \in Session /\ generation[t] # 0
    BY <1>1, <1>2, <2>1
  <2>3. /\ UNCHANGED tableVars
        /\ closing' = [closing EXCEPT ![t] = "cancelled"]
        /\ UNCHANGED <<pc, victims>>
    BY <1>5, <2>1 DEF EvictClose, StartClose
  <2>4. HandlerState'
    BY <1>1, <1>2, <2>2, <2>3 DEF tableVars
  <2> QED  BY <1>1, <1>2, <2>2, <2>3, <2>4, KeptTablesPreserve
              DEF RegisteredState
<1>6. CASE EvictClosed(s)
  <2>1. PICK t \in victims[s] : victims' = [victims EXCEPT ![s] = @ \ {t}]
    BY <1>6 DEF EvictClosed
  <2>2. UNCHANGED tableVars /\ closing' = closing /\ pc' = pc
    BY <1>6 DEF EvictClosed
  <2>3. HandlerState'
    BY <1>1, <1>2, <2>1, <2>2 DEF tableVars
  <2> QED  BY <1>1, <2>2, <2>3, KeptTablesPreserve DEF RegisteredState
<1>7. CASE Serve(s)
  <2>1. UNCHANGED tableVars /\ HandlerState' /\ closing' = closing
    BY <1>1, <1>2, <1>7 DEF Serve, tableVars
  <2> QED  BY <1>1, <2>1, KeptTablesPreserve DEF RegisteredState
<1>8. CASE Wake(s)
  <2>1. UNCHANGED tableVars /\ HandlerState' /\ closing' = closing
    BY <1>1, <1>2, <1>8 DEF Wake, tableVars
  <2> QED  BY <1>1, <2>1, KeptTablesPreserve DEF RegisteredState
<1>9. CASE HandlerClose(s)
  <2>1. /\ UNCHANGED tableVars
        /\ closing' = [closing EXCEPT ![s] = "cancelled"]
        /\ UNCHANGED <<pc, victims>>
        /\ pc[s] \in {"closing", "rejected"}
    BY <1>9 DEF HandlerClose, StartClose
  <2>2. HandlerState'
    BY <1>1, <1>2, <2>1 DEF tableVars
  <2> QED  BY <1>1, <1>2, <2>1, <2>2, KeptTablesPreserve
              DEF RegisteredState, SnapshotLocked
<1>10. CASE Return(s)
  <2>1. UNCHANGED tableVars /\ HandlerState' /\ closing' = closing
    BY <1>1, <1>2, <1>10 DEF Return, tableVars
  <2> QED  BY <1>1, <2>1, KeptTablesPreserve DEF RegisteredState
<1> QED  BY <1>3, <1>4, <1>5, <1>6, <1>7, <1>8, <1>9, <1>10 DEF HandlerStep

\* The steps of a teardown, whoever runs it, and a client that goes away
\* preserve the inductive invariant.
LEMMA ClosePreserves ==
  ASSUME IInv, NEW s \in Session, TypeOK',
         CloseStep(s) \/ ParentCancel(s) \/ OtherClose(s)
  PROVE  IInv'
<1>1. TypeOK /\ RegisteredState /\ HandlerState
  BY DEF IInv
<1>2. closing \in [Session -> Closing]
  BY <1>1 DEF TypeOK
<1> USE DEF HandlerState
<1>3. CASE ConnClose(s) \/ RemoveClaim(s)
  <2>1. /\ UNCHANGED tableVars
        /\ UNCHANGED <<pc, victims>>
        /\ \/ /\ closing[s] = "cancelled"
              /\ closing' = [closing EXCEPT ![s] = "connClosed"]
           \/ /\ closing[s] = "connClosed"
              /\ closing' = [closing EXCEPT ![s] = "claimed"]
    BY <1>3 DEF ConnClose, RemoveClaim
  <2>2. HandlerState'
    BY <1>1, <1>2, <2>1 DEF tableVars
  <2> QED  BY <1>1, <1>2, <2>1, <2>2, KeptTablesPreserve
              DEF RegisteredState, SnapshotLocked
<1>4. CASE CloseUnregistered(s)
  <2>1. /\ UNCHANGED tableVars
        /\ UNCHANGED <<pc, victims>>
        /\ closing[s] = "connClosed"
        /\ closing' = [closing EXCEPT ![s] = "closed"]
        /\ s \notin SnapshotLocked
    BY <1>1, <1>4 DEF CloseUnregistered, RegisteredState
  <2>2. HandlerState'
    BY <1>1, <1>2, <2>1 DEF tableVars
  <2> QED  BY <1>1, <1>2, <2>1, <2>2, KeptTablesPreserve
              DEF RegisteredState, SnapshotLocked
<1>5. CASE RemoveIfCurrent(s)
  BY <1>5, RemovePreserves
<1>6. CASE ParentCancel(s)
  <2>1. UNCHANGED tableVars /\ UNCHANGED <<closing, pc, victims>>
    BY <1>6 DEF ParentCancel
  <2>2. HandlerState'
    BY <1>1, <2>1 DEF tableVars
  <2> QED  BY <1>1, <2>1, <2>2, KeptTablesPreserve DEF RegisteredState
<1>7. CASE OtherClose(s)
  <2>1. /\ UNCHANGED tableVars
        /\ UNCHANGED <<pc, victims>>
        /\ generation[s] # 0
        /\ closing' = [closing EXCEPT ![s] = "cancelled"]
    BY <1>7 DEF OtherClose, StartClose
  <2>2. HandlerState'
    BY <1>1, <1>2, <2>1 DEF tableVars
  <2> QED  BY <1>1, <1>2, <2>1, <2>2, KeptTablesPreserve
              DEF RegisteredState, SnapshotLocked
<1> QED  BY <1>3, <1>4, <1>5, <1>6, <1>7 DEF CloseStep

\* Every step preserves the inductive invariant.
LEMMA NextIInv == IInv /\ [Next]_vars => IInv'
<1> SUFFICES ASSUME IInv, [Next]_vars PROVE IInv'
  OBVIOUS
<1>1. TypeOK'
  BY NextTypeOK DEF IInv
<1>2. CASE UNCHANGED vars
  <2>1. /\ UNCHANGED tableVars
        /\ UNCHANGED <<closing, pc, victims>>
    BY <1>2 DEF vars, tableVars
  <2>2. HandlerState'
    BY <2>1 DEF IInv, HandlerState, tableVars
  <2> QED  BY <1>1, <2>1, <2>2, KeptTablesPreserve DEF IInv, RegisteredState
<1>3. ASSUME NEW s \in Session, HandlerStep(s) PROVE IInv'
  BY <1>1, <1>3, InstallPreserves, HandlerPreserves
<1>4. ASSUME NEW s \in Session,
             CloseStep(s) \/ ParentCancel(s) \/ OtherClose(s)
      PROVE  IInv'
  BY <1>1, <1>4, ClosePreserves
<1> QED  BY <1>2, <1>3, <1>4 DEF Next, AllReturned

\* The tables, the generations, the handlers and the teardowns fit together in
\* every reachable state of the manager.
THEOREM Invariance == Spec => []IInv
BY InitIInv, NextIInv, PTL DEF Spec

-----------------------------------------------------------------------------
(* The safety properties                                                   *)

\* No interleaving of registrations and teardowns leaves a session found at
\* one of its addresses and not at another.
THEOREM RegistrationIsAtomic == Spec => []AtomicRegistration
BY Invariance, PTL DEF IInv

\* An identity never has two sessions in the tables.
THEOREM IdentityIsExclusive == Spec => []OneSessionPerIdentity
BY Invariance, PTL DEF IInv

\* The late teardown of an older session takes no address from the session
\* that replaced it, nor does anything else but its own Close or a newer
\* session of its identity.
THEOREM LiveSessionsStayReachable == Spec => []LiveSessionReachable
BY Invariance, PTL DEF IInv

\* Once Close has run to its end the session is in no table.
THEOREM ClosedSessionsAreUnmapped == Spec => []ClosedIsUnmapped
<1>1. IInv => ClosedIsUnmapped
  BY DEF IInv, RegisteredState, ClosedIsUnmapped
<1> QED  BY <1>1, Invariance, PTL

\* A replaced session is found at no address from the step on that replaced
\* it.
THEOREM ReplacedSessionsAreUnmapped == Spec => []NoStaleOwner
<1>1. ASSUME IInv, NEW s \in SnapshotLocked, NEW t \in Session, Newer(t, s)
      PROVE  FALSE
  <2>1. generation[t] <= generation[s] /\ generation[t] > generation[s]
    BY <1>1 DEF IInv, HolderIsNewest, Newer
  <2>2. generation[s] \in Nat /\ generation[t] \in Nat
    BY <1>1 DEF IInv, TypeOK, SnapshotLocked
  <2> QED  BY <2>1, <2>2
<1>2. IInv => NoStaleOwner
  BY <1>1 DEF NoStaleOwner, Superseded
<1> QED  BY <1>2, Invariance, PTL

-----------------------------------------------------------------------------
(* The session limit                                                       *)

\* There are finitely many sessions to count.
LEMMA SnapshotFinite ==
  /\ IsFiniteSet(SnapshotLocked)
  /\ Cardinality(SnapshotLocked) \in Nat
<1>1. SnapshotLocked \in SUBSET Session
  BY DEF SnapshotLocked
<1> QED  BY <1>1, ManagerAssumption, FS_Subset, FS_CardinalityType

\* Removing a subset subtracts its cardinality.
LEMMA DifferenceCardinality ==
  ASSUME NEW S, IsFiniteSet(S), NEW T \in SUBSET S
  PROVE  /\ IsFiniteSet(S \ T)
         /\ Cardinality(S \ T) = Cardinality(S) - Cardinality(T)
<1>1. S \cap T = T
  OBVIOUS
<1> QED  BY <1>1, FS_Difference

\* Neither registrations nor takeovers ever exceed the session limit of the
\* manager, whatever it is.
THEOREM LimitHolds == Spec => []CapacityRespected
<1>1. Init => CapacityRespected
  <2> SUFFICES ASSUME Init PROVE SnapshotLocked = {}
    BY FS_EmptySet, ManagerAssumption DEF CapacityRespected, CountLocked
  <2> QED  BY ManagerAssumption DEF Init, SnapshotLocked
<1>2. IInv /\ CapacityRespected /\ [Next]_vars => CapacityRespected'
  <2> SUFFICES ASSUME IInv, CapacityRespected, [Next]_vars, MaxSessions > 0
               PROVE  Cardinality(SnapshotLocked') <= MaxSessions
    BY DEF CapacityRespected, CountLocked
  <2>1. Cardinality(SnapshotLocked) <= MaxSessions /\ MaxSessions \in Nat
    BY ManagerAssumption DEF CapacityRespected, CountLocked
  <2>2. ASSUME NEW s \in Session, ReplaceInstall(s)
        PROVE  Cardinality(SnapshotLocked') <= MaxSessions
    <3> DEFINE kept == SnapshotLocked \ OldSet(s)
    <3>1. OldSet(s) \in SUBSET SnapshotLocked
      BY OldSetType DEF IInv
    <3>2. /\ IsFiniteSet(kept)
          /\ Cardinality(kept) = CountLocked - Cardinality(OldSet(s))
      BY <3>1, SnapshotFinite, DifferenceCardinality DEF CountLocked
    <3>3. Cardinality(kept) < MaxSessions /\ Cardinality(kept) \in Nat
      <4>1. ~(Cardinality(kept) >= MaxSessions)
        BY <2>2, <3>2 DEF ReplaceInstall, CapacityExhausted
      <4>2. Cardinality(kept) \in Nat
        BY <3>2, FS_CardinalityType
      <4> QED  BY <2>1, <4>1, <4>2
    <3>4. SnapshotLocked' = kept \cup {s}
      BY <2>2, InstallEffect
    <3>5. Cardinality(kept \cup {s}) <= Cardinality(kept) + 1
      BY <3>2, <3>3, FS_AddElement
    <3> HIDE DEF kept
    <3>6. Cardinality(SnapshotLocked') <= Cardinality(kept) + 1
      BY <3>4, <3>5
    <3>7. Cardinality(SnapshotLocked') \in Nat
      BY <3>2, <3>4, FS_AddElement, FS_CardinalityType
    <3> QED  BY <2>1, <3>3, <3>6, <3>7
  <2>3. ASSUME NEW s \in Session, RemoveIfCurrent(s)
        PROVE  Cardinality(SnapshotLocked') <= MaxSessions
    <3>1. SnapshotLocked' \in SUBSET SnapshotLocked
      BY <2>3, RemoveEffect
    <3>2. /\ Cardinality(SnapshotLocked') <= Cardinality(SnapshotLocked)
          /\ Cardinality(SnapshotLocked') \in Nat
      BY <3>1, SnapshotFinite, FS_Subset, FS_CardinalityType
    <3> QED  BY <2>1, <3>2, SnapshotFinite
  <2>4. ASSUME UNCHANGED tableVars
        PROVE  Cardinality(SnapshotLocked') <= MaxSessions
    BY <2>1, <2>4 DEF tableVars, SnapshotLocked
  <2>5. UNCHANGED vars => UNCHANGED tableVars
    BY DEF vars, tableVars
  <2> QED  BY <2>2, <2>3, <2>4, <2>5, TablesUnchanged
           DEF Next, HandlerStep, CloseStep, AllReturned
<1> QED  BY <1>1, <1>2, Invariance, PTL DEF Spec

-----------------------------------------------------------------------------
(* What a step may never do                                                *)

\* An address passes to a newer session of the same identity or is given up
\* by the teardown of its holder, and by no other step.
THEOREM AddressesStayWithinIdentity == Spec => TakeoverWithinIdentity
<1> DEFINE Passed ==
      \A ip \in Address, s \in Session :
        LookupLocked(ip) = s /\ LookupLocked(ip)' # s =>
          \/ closing[s] = "claimed" /\ LookupLocked(ip)' = NoSession
          \/ \E t \in Session :
               /\ IdentityOf[t] = IdentityOf[s]
               /\ generation'[t] > generation[s]
               /\ LookupLocked(ip)' \in {NoSession, t}
<1>1. ASSUME IInv, NEW r \in Session, ReplaceInstall(r) PROVE Passed
  <2> SUFFICES ASSUME NEW ip \in Address, NEW s \in Session,
                      LookupLocked(ip) = s, LookupLocked(ip)' # s
               PROVE  /\ IdentityOf[r] = IdentityOf[s]
                      /\ generation'[r] > generation[s]
                      /\ LookupLocked(ip)' \in {NoSession, r}
    BY DEF Passed
  <2>1. s \in SnapshotLocked
    BY SnapshotDef
  <2>2. s \in OldSet(r)
    BY <1>1, <2>1, InstallEffect
  <2>3. IdentityOf[r] = IdentityOf[s]
    BY <1>1, <2>2, InstallEffect
  <2>4. generation'[r] > generation[s]
    <3>1. /\ generation' = [generation EXCEPT ![r] = nextGeneration + 1]
          /\ generation \in [Session -> Nat] /\ nextGeneration \in Nat
          /\ generation[s] <= nextGeneration
      BY <1>1 DEF ReplaceInstall, IInv, TypeOK, HandlerState
    <3> QED  BY <3>1
  <2>5. LookupLocked(ip)' \in {NoSession, r}
    BY <1>1, InstallLookup DEF IInv
  <2> QED  BY <2>3, <2>4, <2>5
<1>2. ASSUME IInv, NEW r \in Session, RemoveIfCurrent(r) PROVE Passed
  BY <1>2, RemoveEffect DEF RemoveIfCurrent
<1>3. ASSUME UNCHANGED tableVars PROVE Passed
  BY <1>3 DEF tableVars, LookupLocked
<1>4. UNCHANGED vars => UNCHANGED tableVars
  BY DEF vars, tableVars
<1>5. IInv /\ [Next]_vars => Passed
  BY <1>1, <1>2, <1>3, <1>4, TablesUnchanged
     DEF Next, HandlerStep, CloseStep, AllReturned
<1>6. IInv /\ [Next]_vars => [Passed]_vars
  BY <1>5
<1> QED  BY <1>6, Invariance, PTL DEF Spec, TakeoverWithinIdentity

\* A registration is refused only for an address of another identity, or
\* when other identities fill the limit.
THEOREM RefusalsAreJustified == Spec => RefusalJustified
<1> DEFINE others(s) == {t \in SnapshotLocked : IdentityOf[t] # IdentityOf[s]}
           Justified(s) ==
             \/ \E t \in others(s) : ClientIPs[t] \cap ClientIPs[s] # {}
             \/ MaxSessions > 0 /\ Cardinality(others(s)) >= MaxSessions
           Refused ==
             \A s \in Session :
               pc[s] = "locked" /\ pc'[s] = "rejected" => Justified(s)
<1>1. ASSUME IInv, NEW s \in Session, ReplaceReject(s) PROVE Justified(s)
  <2>1. CASE OwnedByAnother(s)
    <3>1. PICK t \in Occupants(s) : IdentityOf[t] # IdentityOf[s]
      BY <2>1 DEF OwnedByAnother
    <3>2. PICK ip \in ClientIPs[s] : LookupLocked(ip) = t
      BY <3>1 DEF Occupants
    <3>3. ip \in Address
      BY ManagerAssumption
    <3>4. t # NoSession /\ ip \in ClientIPs[t]
      BY <1>1, <3>1, <3>2, <3>3 DEF IInv, TablesSound, Occupants
    <3>5. t \in SnapshotLocked
      BY <1>1, <3>2, <3>3, <3>4, LookupType, SnapshotDef DEF IInv
    <3> QED  BY <3>1, <3>2, <3>4, <3>5
  <2>2. CASE ~OwnedByAnother(s) /\ CapacityExhausted(s)
    <3>1. OldSet(s) \in SUBSET SnapshotLocked
      BY <1>1, OldSetType DEF IInv
    <3>2. s \notin SnapshotLocked
      BY <1>1 DEF IInv, HandlerState, RegisteredState, ReplaceReject
    <3>3. SnapshotLocked \ OldSet(s) = others(s)
      BY <2>2, <3>2 DEF OldSet, OwnedByAnother
    <3>4. Cardinality(others(s)) = CountLocked - Cardinality(OldSet(s))
      BY <3>1, <3>3, SnapshotFinite, DifferenceCardinality DEF CountLocked
    <3> QED  BY <2>2, <3>4 DEF CapacityExhausted
  <2> QED  BY <1>1, <2>1, <2>2 DEF ReplaceReject
<1>2. IInv /\ [Next]_vars => Refused
  <2> SUFFICES ASSUME IInv, [Next]_vars, NEW s \in Session,
                      pc[s] = "locked", pc'[s] = "rejected"
               PROVE  ReplaceReject(s)
    BY <1>1
  <2>1. pc \in [Session -> PC]
    BY DEF IInv, TypeOK
  <2>2. ASSUME NEW r \in Session, HandlerStep(r) PROVE ReplaceReject(s)
    BY <2>1, <2>2
       DEF HandlerStep, ReplaceLock, ReplaceReject, ReplaceInstall,
           EvictClose, EvictClosed, Serve, Wake, HandlerClose, Return
  <2>3. ASSUME NEW r \in Session,
               CloseStep(r) \/ ParentCancel(r) \/ OtherClose(r)
        PROVE  pc' = pc
    BY <2>3 DEF CloseStep, ConnClose, CloseUnregistered, RemoveClaim,
                RemoveIfCurrent, ParentCancel, OtherClose
  <2> QED  BY <2>2, <2>3 DEF Next, AllReturned, vars
<1>3. IInv /\ [Next]_vars => [Refused]_vars
  BY <1>2
<1> QED  BY <1>3, Invariance, PTL DEF Spec, RefusalJustified

\* A takeover displaces one session at most.
THEOREM OneVictimAtMost == Spec => []VictimsAreFew
<1> DEFINE AtMostOne == \A s \in Session : \A t, u \in victims[s] : t = u
<1>1. Init => AtMostOne
  BY DEF Init
<1>2. IInv /\ AtMostOne /\ [Next]_vars => AtMostOne'
  <2> SUFFICES ASSUME IInv, AtMostOne, [Next]_vars PROVE AtMostOne'
    OBVIOUS
  <2>1. victims \in [Session -> SUBSET Session]
    BY DEF IInv, TypeOK
  <2>2. ASSUME NEW r \in Session, ReplaceInstall(r) PROVE AtMostOne'
    <3>1. \A t, u \in OldSet(r) : t = u
      BY <2>2, InstallEffect, OldSetType DEF IInv, OneSessionPerIdentity
    <3> QED  BY <2>1, <2>2, <3>1 DEF ReplaceInstall
  <2>3. ASSUME NEW r \in Session, EvictClosed(r) PROVE AtMostOne'
    <3>1. PICK t \in victims[r] : victims' = [victims EXCEPT ![r] = @ \ {t}]
      BY <2>3 DEF EvictClosed
    <3> QED  BY <2>1, <3>1
  <2>4. ASSUME victims' = victims PROVE AtMostOne'
    BY <2>4
  <2> QED
    BY <2>2, <2>3, <2>4
       DEF Next, AllReturned, vars, HandlerStep, CloseStep, ReplaceLock,
           ReplaceReject, EvictClose, Serve, Wake, HandlerClose, Return,
           ConnClose, CloseUnregistered, RemoveClaim, RemoveIfCurrent,
           ParentCancel, OtherClose
<1>3. AtMostOne => VictimsAreFew
  <2> SUFFICES ASSUME AtMostOne, NEW s \in Session
               PROVE  Cardinality(victims[s]) <= 1
    BY DEF VictimsAreFew
  <2>1. CASE victims[s] = {}
    <3>1. Cardinality({}) = 0
      BY FS_EmptySet
    <3> QED  BY <2>1, <3>1
  <2>2. CASE victims[s] # {}
    <3>1. PICK t : victims[s] = {t}
      BY <2>2
    <3>2. Cardinality({t}) = 1
      BY FS_Singleton
    <3> QED  BY <3>1, <3>2
  <2> QED  BY <2>1, <2>2
<1> HIDE DEF AtMostOne
<1> QED  BY <1>1, <1>2, <1>3, Invariance, PTL DEF Spec

-----------------------------------------------------------------------------
(* The manager implements SessionRegistry.  An accepted registration is     *)
(* Establish, the removal of a registered session is Retire, and every      *)
(* other step, the removal of a session that has already been replaced      *)
(* included, leaves the abstract state alone.                               *)

Owner == [i \in Identity |-> OwnerOf(i)]
Spent == {s \in Session : generation[s] # 0}

\* OwnerOf is determined by the snapshot.
OwnerDetermined ==
  \A i \in Identity :
    /\ \A s \in SnapshotLocked : IdentityOf[s] = i => OwnerOf(i) = s
    /\ (\A s \in SnapshotLocked : IdentityOf[s] # i) => OwnerOf(i) = NoSession

\* The owner of an identity is the session of that identity in the tables.
LEMMA OwnerFacts == IInv => OwnerDetermined
<1> SUFFICES ASSUME IInv, NEW i \in Identity
             PROVE  /\ \A s \in SnapshotLocked :
                         IdentityOf[s] = i => OwnerOf(i) = s
                    /\ (\A s \in SnapshotLocked : IdentityOf[s] # i) =>
                         OwnerOf(i) = NoSession
  BY DEF OwnerDetermined
<1>1. ASSUME NEW s \in SnapshotLocked, IdentityOf[s] = i
      PROVE  OwnerOf(i) = s
  <2>1. \A t \in SnapshotLocked : IdentityOf[t] = i => t = s
    BY <1>1 DEF IInv, OneSessionPerIdentity
  <2>2. OwnerOf(i) = CHOOSE t \in SnapshotLocked : IdentityOf[t] = i
    BY <1>1 DEF OwnerOf
  <2> QED  BY <1>1, <2>1, <2>2
<1> QED  BY <1>1 DEF OwnerOf

\* The same in the next state.
LEMMA OwnerFactsNext == IInv' => OwnerDetermined'
BY OwnerFacts, PTL

\* The abstract registry's active sessions are those in the tables.
LEMMA ActiveIsSnapshot == IInv => Registry!Active = SnapshotLocked
<1> SUFFICES ASSUME IInv PROVE Registry!Active = SnapshotLocked
  OBVIOUS
<1>1. Registry!Active = {OwnerOf(i) : i \in Identity} \ {NoSession}
  BY DEF Registry!Active
<1>2. ASSUME NEW s \in SnapshotLocked
      PROVE  s \in Registry!Active
  <2>1. s \in Session /\ s # NoSession /\ IdentityOf[s] \in Identity
    BY ManagerAssumption DEF SnapshotLocked
  <2>2. OwnerOf(IdentityOf[s]) = s
    BY <2>1, OwnerFacts DEF OwnerDetermined
  <2> QED  BY <1>1, <2>1, <2>2
<1>3. ASSUME NEW i \in Identity, OwnerOf(i) # NoSession
      PROVE  OwnerOf(i) \in SnapshotLocked
  BY <1>3, OwnerFacts DEF OwnerDetermined
<1> QED  BY <1>1, <1>2, <1>3

\* A lookup returns the owner that holds the address.
THEOREM LookupIsResolve == Spec => []LookupAgrees
<1>1. ASSUME IInv, NEW ip \in Address
      PROVE  LookupLocked(ip) = Registry!Resolve(ip)
  <2>1. TypeOK /\ TablesSound /\ AtomicRegistration
    BY <1>1 DEF IInv
  <2>2. Registry!Active = SnapshotLocked
    BY <1>1, ActiveIsSnapshot
  <2>3. CASE LookupLocked(ip) = NoSession
    <3>1. ~ \E s \in SnapshotLocked : ip \in ClientIPs[s]
      BY <2>1, <2>3, ManagerAssumption
         DEF AtomicRegistration, SnapshotLocked
    <3> QED  BY <2>2, <2>3, <3>1 DEF Registry!Resolve
  <2>4. CASE LookupLocked(ip) # NoSession
    <3>1. /\ LookupLocked(ip) \in SnapshotLocked
          /\ ip \in ClientIPs[LookupLocked(ip)]
      BY <2>1, <2>4, LookupType, SnapshotDef DEF TablesSound
    <3>2. \A s \in SnapshotLocked : ip \in ClientIPs[s] => s = LookupLocked(ip)
      BY <2>1 DEF AtomicRegistration
    <3>3. Registry!Resolve(ip) = CHOOSE s \in SnapshotLocked : ip \in ClientIPs[s]
      BY <2>2, <3>1 DEF Registry!Resolve
    <3> QED  BY <3>1, <3>2, <3>3
  <2> QED  BY <2>3, <2>4
<1>2. IInv => LookupAgrees
  BY <1>1 DEF LookupAgrees
<1> QED  BY <1>2, Invariance, PTL

-----------------------------------------------------------------------------
\* An empty manager is an empty registry.
LEMMA InitRefines == Init => Registry!Init
<1> SUFFICES ASSUME Init PROVE Registry!Init
  OBVIOUS
<1>1. SnapshotLocked = {}
  BY ManagerAssumption DEF Init, SnapshotLocked
<1>2. \A i \in Identity : OwnerOf(i) = NoSession
  BY <1>1 DEF OwnerOf
<1>3. \A s \in Session : generation[s] = 0
  BY DEF Init
<1> QED  BY <1>2, <1>3 DEF Registry!Init

\* SessionRegistry brings its own copy of FiniteSets.
LEMMA SameCardinality == \A S : Registry!Cardinality(S) = Cardinality(S)
BY DEF Registry!Cardinality, Cardinality

\* The critical section of Replace establishes the owner.
LEMMA InstallRefines ==
  ASSUME IInv, IInv', NEW s \in Session, ReplaceInstall(s)
  PROVE  Registry!Establish(s)
<1> DEFINE id == IdentityOf[s]
           others == Registry!Active \ {Owner[id]}
           kept == SnapshotLocked \ OldSet(s)
<1>1. id \in Identity
  BY ManagerAssumption
<1>2. others = kept
  <2>1. Registry!Active = SnapshotLocked
    BY ActiveIsSnapshot
  <2>2. \A t \in SnapshotLocked :
          t \in OldSet(s) <=> IdentityOf[t] = IdentityOf[s]
    BY InstallEffect
  <2>3. \A t \in SnapshotLocked : IdentityOf[t] = id <=> t = Owner[id]
    <3>1. \A t \in SnapshotLocked : IdentityOf[t] = id => t = Owner[id]
      BY <1>1, OwnerFacts DEF OwnerDetermined, Owner
    <3>2. Owner[id] \in SnapshotLocked => IdentityOf[Owner[id]] = id
      BY <1>1, OwnerFacts, ManagerAssumption
         DEF OwnerDetermined, Owner, SnapshotLocked
    <3> QED  BY <3>1, <3>2
  <2> QED  BY <2>1, <2>2, <2>3
<1>3. s \notin Spent
  BY DEF IInv, HandlerState, ReplaceInstall, Spent
<1>4. \A t \in others : ClientIPs[t] \cap ClientIPs[s] = {}
  <2> SUFFICES ASSUME NEW t \in kept, NEW ip \in ClientIPs[t],
                      ip \in ClientIPs[s]
               PROVE  FALSE
    BY <1>2
  <2>1. LookupLocked(ip) = t
    BY DEF IInv, AtomicRegistration
  <2>2. t # s /\ t # NoSession
    BY ManagerAssumption, InstallEffect DEF SnapshotLocked
  <2>3. t \in OldSet(s)
    BY <2>1, <2>2 DEF OldSet, Occupants
  <2> QED  BY <2>3
<1>5. MaxSessions > 0 => Cardinality(others) < MaxSessions
  <2>1. OldSet(s) \in SUBSET SnapshotLocked
    BY OldSetType DEF IInv
  <2>2. /\ IsFiniteSet(kept)
        /\ Cardinality(kept) = CountLocked - Cardinality(OldSet(s))
    BY <2>1, SnapshotFinite, DifferenceCardinality DEF CountLocked
  <2>3. Cardinality(kept) \in Nat /\ MaxSessions \in Nat
    BY <2>2, FS_CardinalityType, ManagerAssumption
  <2>4. MaxSessions > 0 => ~(Cardinality(kept) >= MaxSessions)
    BY <2>2 DEF ReplaceInstall, CapacityExhausted
  <2> HIDE DEF kept
  <2>5. MaxSessions > 0 => Cardinality(kept) < MaxSessions
    BY <2>3, <2>4
  <2> QED  BY <1>2, <2>5
<1>6. Owner' = [Owner EXCEPT ![id] = s]
  <2>1. s \in SnapshotLocked'
    BY InstallEffect
  <2>2. OwnerOf(id)' = s
    BY <1>1, <2>1, OwnerFactsNext DEF OwnerDetermined
  <2>3. ASSUME NEW i \in Identity, i # id PROVE OwnerOf(i)' = OwnerOf(i)
    <3>1. \A t : t \in SnapshotLocked' /\ IdentityOf[t] = i <=>
                 t \in SnapshotLocked /\ IdentityOf[t] = i
      BY <2>3, InstallEffect
    <3>2. CASE \E t \in SnapshotLocked : IdentityOf[t] = i
      <4>1. PICK t \in SnapshotLocked : IdentityOf[t] = i
        BY <3>2
      <4>2. OwnerOf(i) = t
        BY <4>1, OwnerFacts DEF OwnerDetermined
      <4>3. OwnerOf(i)' = t
        BY <3>1, <4>1, OwnerFactsNext DEF OwnerDetermined
      <4> QED  BY <4>2, <4>3
    <3>3. CASE ~ \E t \in SnapshotLocked : IdentityOf[t] = i
      <4>1. OwnerOf(i) = NoSession
        BY <3>3, OwnerFacts DEF OwnerDetermined
      <4>2. OwnerOf(i)' = NoSession
        BY <3>1, <3>3, OwnerFactsNext DEF OwnerDetermined
      <4> QED  BY <4>1, <4>2
    <3> QED  BY <3>2, <3>3
  <2> QED  BY <1>1, <2>2, <2>3 DEF Owner
<1>7. Spent' = Spent \cup {s}
  <2>1. generation' = [generation EXCEPT ![s] = nextGeneration + 1]
    BY DEF ReplaceInstall
  <2>2. generation \in [Session -> Nat] /\ nextGeneration \in Nat
    BY DEF IInv, TypeOK
  <2> QED  BY <2>1, <2>2 DEF Spent
<1> QED  BY <1>3, <1>4, <1>5, <1>6, <1>7, SameCardinality
         DEF Registry!Establish, Owner, Spent

\* The snapshot and the generations determine the abstract state.
LEMMA SameSnapshotStutters ==
  ASSUME IInv, IInv', SnapshotLocked' = SnapshotLocked,
         UNCHANGED generation
  PROVE  Owner' = Owner /\ Spent' = Spent
<1>1. ASSUME NEW i \in Identity PROVE OwnerOf(i)' = OwnerOf(i)
  <2>1. CASE \E t \in SnapshotLocked : IdentityOf[t] = i
    BY <2>1, OwnerFacts, OwnerFactsNext DEF OwnerDetermined
  <2>2. CASE ~ \E t \in SnapshotLocked : IdentityOf[t] = i
    BY <2>2, OwnerFacts, OwnerFactsNext DEF OwnerDetermined
  <2> QED  BY <2>1, <2>2
<1> QED  BY <1>1 DEF Owner, Spent

\* The critical section of RemoveIfCurrent retires the owner, or does nothing
\* when the session had been replaced.
LEMMA RemoveRefines ==
  ASSUME IInv, IInv', NEW s \in Session, RemoveIfCurrent(s)
  PROVE  Registry!Retire(IdentityOf[s]) \/ (Owner' = Owner /\ Spent' = Spent)
<1> DEFINE id == IdentityOf[s]
<1>1. id \in Identity /\ s # NoSession
  BY ManagerAssumption
<1>2. UNCHANGED generation /\ SnapshotLocked' = SnapshotLocked \ {s}
  BY RemoveEffect DEF RemoveIfCurrent
<1>3. CASE s \notin SnapshotLocked
  <2>1. SnapshotLocked' = SnapshotLocked
    BY <1>2, <1>3
  <2> QED  BY <1>2, <2>1, SameSnapshotStutters
<1>4. CASE s \in SnapshotLocked
  <2>1. \A t \in SnapshotLocked : IdentityOf[t] = id => t = s
    BY <1>4 DEF IInv, OneSessionPerIdentity
  <2>2. OwnerOf(id) = s
    BY <1>1, <1>4, OwnerFacts DEF OwnerDetermined
  <2>3. OwnerOf(id)' = NoSession
    BY <1>1, <1>2, <2>1, OwnerFactsNext DEF OwnerDetermined
  <2>4. ASSUME NEW i \in Identity, i # id PROVE OwnerOf(i)' = OwnerOf(i)
    <3>1. CASE \E t \in SnapshotLocked : IdentityOf[t] = i
      <4>1. PICK t \in SnapshotLocked : IdentityOf[t] = i
        BY <3>1
      <4>2. t \in SnapshotLocked'
        BY <1>2, <2>4, <4>1
      <4> QED  BY <4>1, <4>2, OwnerFacts, OwnerFactsNext DEF OwnerDetermined
    <3>2. CASE ~ \E t \in SnapshotLocked : IdentityOf[t] = i
      BY <1>2, <3>2, OwnerFacts, OwnerFactsNext DEF OwnerDetermined
    <3> QED  BY <3>1, <3>2
  <2>5. Owner' = [Owner EXCEPT ![id] = NoSession]
    BY <1>1, <2>3, <2>4 DEF Owner
  <2>6. Owner[id] # NoSession
    BY <1>1, <2>2 DEF Owner
  <2>7. Spent' = Spent
    BY <1>2 DEF Spent
  <2> QED  BY <2>5, <2>6, <2>7 DEF Registry!Retire, Owner, Spent
<1> QED  BY <1>3, <1>4

\* Every step of the manager is a step of the registry or none.
LEMMA NextRefines == IInv /\ IInv' /\ [Next]_vars
                       => [Registry!Next]_(Registry!registryVars)
<1> SUFFICES ASSUME IInv, IInv', [Next]_vars
             PROVE  Registry!Next \/ (Owner' = Owner /\ Spent' = Spent)
  BY DEF Registry!registryVars, Owner, Spent
<1>1. ASSUME UNCHANGED tableVars PROVE Owner' = Owner /\ Spent' = Spent
  <2>1. SnapshotLocked' = SnapshotLocked /\ UNCHANGED generation
    BY <1>1 DEF tableVars, SnapshotLocked
  <2> QED  BY <2>1, SameSnapshotStutters
<1>2. ASSUME NEW s \in Session, ReplaceInstall(s) PROVE Registry!Next
  BY <1>2, InstallRefines DEF Registry!Next
<1>3. ASSUME NEW s \in Session, RemoveIfCurrent(s)
      PROVE  Registry!Next \/ (Owner' = Owner /\ Spent' = Spent)
  BY <1>3, RemoveRefines, ManagerAssumption DEF Registry!Next
<1>4. UNCHANGED vars => UNCHANGED tableVars
  BY DEF vars, tableVars
<1> QED  BY <1>1, <1>2, <1>3, <1>4, TablesUnchanged
         DEF Next, HandlerStep, CloseStep, AllReturned

\* The manager with its two tables, its lock and its teardown steps
\* implements the registry of one atomic owner per identity.
THEOREM Refinement == Spec => ImplementsRegistry
<1>1. IInv /\ IInv' /\ [Next]_vars => [Registry!Next]_(Registry!registryVars)
  BY NextRefines
<1> QED  BY <1>1, InitRefines, Invariance, PTL
         DEF Spec, ImplementsRegistry, Registry!Spec

=============================================================================
