---------------------------- MODULE SessionManager ----------------------------
(***************************************************************************)
(* internal/connectip/session: the address tables of Manager, the teardown *)
(* of Session, and the part of the HTTP handler that drives them.          *)
(*                                                                         *)
(* Each element of Session stands for one session object together with the *)
(* goroutine that runs its CONNECT-IP request.  That goroutine registers   *)
(* the session (Replace), closes the sessions it displaced, serves until   *)
(* the context ends and closes its own session.  Close may be called by    *)
(* any goroutine that found the session in the tables; closeOnce makes the *)
(* first caller run the body and every other caller wait for it.           *)
(*                                                                         *)
(* mu is the manager's lock.  Everything Replace reads and writes happens  *)
(* while it is held, so its critical section is one step that ends with    *)
(* the unlock; taking the lock is a step of its own, and so is each step   *)
(* of Close.                                                               *)
(***************************************************************************)
EXTENDS Naturals, SessionConstants

CONSTANTS
  Session,      \* session objects, one per CONNECT-IP request
  Identity,     \* authenticated client identities (public keys)
  Addr4, Addr6, \* tunnel addresses by family
  IdentityOf,   \* [Session -> Identity]
  ClientIPs,    \* [Session -> SUBSET (Addr4 \cup Addr6)]
  MaxSessions,  \* NewManager's limit, 0 for none
  NoSession,    \* nil *Session
  Free          \* the lock is not held

Address == Addr4 \cup Addr6

ASSUME ManagerAssumption ==
  /\ IsFiniteSet(Session)
  /\ NoSession \notin Session
  /\ Free \notin Session
  /\ Addr4 \cap Addr6 = {}
  /\ IdentityOf \in [Session -> Identity]
  /\ ClientIPs \in [Session -> SUBSET Address]
  /\ MaxSessions \in Nat

ASSUME AddressSetAssumption == AddressSets(Session, Addr4, ClientIPs)

VARIABLES
  sessions4,      \* Manager.sessions4
  sessions6,      \* Manager.sessions6
  nextGeneration, \* Manager.nextGeneration
  mu,             \* the session whose goroutine holds Manager.mu
  generation,     \* Session.Generation, 0 until registered
  manager,        \* Session.manager is not nil
  ctxDone,        \* Session.Ctx has ended
  closing,        \* how far the closeOnce body has come
  removed,        \* Session.removed
  pc,             \* the handler goroutine of each session
  victims         \* oldSet sessions the handler has still to close

tableVars == <<sessions4, sessions6, nextGeneration, generation, manager>>
vars == <<sessions4, sessions6, nextGeneration, mu, generation, manager,
          ctxDone, closing, removed, pc, victims>>

PC == {"created", "locked", "rejected", "evicting", "serving", "closing",
       "returned"}
Closing == {"open", "cancelled", "connClosed", "claimed", "closed"}

-----------------------------------------------------------------------------
(* Reading the tables                                                      *)

LookupLocked(ip) == IF ip \in Addr4 THEN sessions4[ip] ELSE sessions6[ip]

SnapshotLocked ==
  {s \in Session : \/ \E ip \in Addr4 : sessions4[ip] = s
                   \/ \E ip \in Addr6 : sessions6[ip] = s}

CountLocked == Cardinality(SnapshotLocked)

\* Sessions that Replace(s) finds at the addresses of s.
Occupants(s) == {LookupLocked(ip) : ip \in ClientIPs[s]} \ {NoSession, s}

\* Mutant of OwnedByAnother: the conflict check is forgotten.
OwnerIgnored(s) == FALSE

OwnedByAnother(s) == \E t \in Occupants(s) : IdentityOf[t] # IdentityOf[s]

\* Mutant of OldSet: the scan of the tables for the identity is forgotten.
OldSetByAddress(s) == Occupants(s)

OldSet(s) ==
  {t \in SnapshotLocked \ {s} : IdentityOf[t] = IdentityOf[s]} \cup Occupants(s)

\* Mutant of CapacityExhausted: one session too many.
CapacityOffByOne(s) ==
  MaxSessions > 0 /\ CountLocked - Cardinality(OldSet(s)) > MaxSessions

\* Mutant of CapacityExhausted: the sessions that give way are counted.
CapacityCountsOld(s) == MaxSessions > 0 /\ CountLocked >= MaxSessions

CapacityExhausted(s) ==
  LET active == CountLocked - Cardinality(OldSet(s))
  IN  MaxSessions > 0 /\ active >= MaxSessions

\* Mutant of Delete: entries are removed whatever session they name.
DeleteByAddress(table, gone) ==
  [ip \in DOMAIN table |->
     IF \E s \in gone : ip \in ClientIPs[s] THEN NoSession ELSE table[ip]]

\* Mutant of Delete: the IPv6 table is forgotten.
DeleteIPv4(table, gone) ==
  [ip \in DOMAIN table |->
     IF table[ip] \in gone /\ ip \in Addr4 THEN NoSession ELSE table[ip]]

\* Deleting from one table every entry of a session in gone.
Delete(table, gone) ==
  [ip \in DOMAIN table |->
     IF table[ip] \in gone /\ ip \in ClientIPs[table[ip]]
     THEN NoSession ELSE table[ip]]

\* Mutant of MapAddresses: only IPv4 addresses are mapped.
MapIPv4(table, s) ==
  [ip \in DOMAIN table |->
     IF ip \in ClientIPs[s] \cap Addr4 THEN s ELSE table[ip]]

MapAddresses(table, s) ==
  [ip \in DOMAIN table |-> IF ip \in ClientIPs[s] THEN s ELSE table[ip]]

-----------------------------------------------------------------------------
Init ==
  /\ sessions4 = [ip \in Addr4 |-> NoSession]
  /\ sessions6 = [ip \in Addr6 |-> NoSession]
  /\ nextGeneration = 0
  /\ mu = Free
  /\ generation = [s \in Session |-> 0]
  /\ manager = [s \in Session |-> FALSE]
  /\ ctxDone = [s \in Session |-> FALSE]
  /\ closing = [s \in Session |-> "open"]
  /\ removed = [s \in Session |-> FALSE]
  /\ pc = [s \in Session |-> "created"]
  /\ victims = [s \in Session |-> {}]

(* Replace                                                                 *)

\* Mutant of ReplaceLock: the lock is kept until the evictions have ended.
ReplaceLockKept(s) ==
  /\ pc[s] = "created"
  /\ mu = Free
  /\ \A t \in Session : pc[t] # "evicting"
  /\ mu' = s
  /\ pc' = [pc EXCEPT ![s] = "locked"]
  /\ UNCHANGED <<tableVars, ctxDone, closing, removed, victims>>

ReplaceLock(s) ==
  /\ pc[s] = "created"
  /\ mu = Free
  /\ mu' = s
  /\ pc' = [pc EXCEPT ![s] = "locked"]
  /\ UNCHANGED <<tableVars, ctxDone, closing, removed, victims>>

\* Mutant of ReplaceReject: the early return does not unlock.
ReplaceRejectLocked(s) ==
  /\ pc[s] = "locked"
  /\ OwnedByAnother(s) \/ CapacityExhausted(s)
  /\ pc' = [pc EXCEPT ![s] = "rejected"]
  /\ UNCHANGED <<tableVars, mu, ctxDone, closing, removed, victims>>

\* An address belongs to another identity, or the limit is reached: unlock
\* and fail without touching the tables.
ReplaceReject(s) ==
  /\ pc[s] = "locked"
  /\ OwnedByAnother(s) \/ CapacityExhausted(s)
  /\ mu' = Free
  /\ pc' = [pc EXCEPT ![s] = "rejected"]
  /\ UNCHANGED <<tableVars, ctxDone, closing, removed, victims>>

\* Unmap the sessions that give way, map every address of s, unlock.
ReplaceInstall(s) ==
  /\ pc[s] = "locked"
  /\ ~OwnedByAnother(s)
  /\ ~CapacityExhausted(s)
  /\ sessions4' = MapAddresses(Delete(sessions4, OldSet(s)), s)
  /\ sessions6' = MapAddresses(Delete(sessions6, OldSet(s)), s)
  /\ nextGeneration' = nextGeneration + 1
  /\ generation' = [generation EXCEPT ![s] = nextGeneration + 1]
  /\ manager' = [manager EXCEPT ![s] = TRUE]
  /\ victims' = [victims EXCEPT ![s] = OldSet(s)]
  /\ mu' = Free
  /\ pc' = [pc EXCEPT ![s] = "evicting"]
  /\ UNCHANGED <<ctxDone, closing, removed>>

-----------------------------------------------------------------------------
(* Close                                                                   *)

\* The first call of s.Close enters closeOnce and cancels the context.
StartClose(s) ==
  /\ closing[s] = "open"
  /\ closing' = [closing EXCEPT ![s] = "cancelled"]
  /\ ctxDone' = [ctxDone EXCEPT ![s] = TRUE]

\* Conn.Close returns.
ConnClose(s) ==
  /\ closing[s] = "cancelled"
  /\ closing' = [closing EXCEPT ![s] = "connClosed"]
  /\ UNCHANGED <<tableVars, mu, ctxDone, removed, pc, victims>>

\* A session that was never registered has no manager to leave.
CloseUnregistered(s) ==
  /\ closing[s] = "connClosed"
  /\ ~manager[s]
  /\ closing' = [closing EXCEPT ![s] = "closed"]
  /\ UNCHANGED <<tableVars, mu, ctxDone, removed, pc, victims>>

\* RemoveIfCurrent up to the lock: the compare-and-swap on removed.
RemoveClaim(s) ==
  /\ closing[s] = "connClosed"
  /\ manager[s]
  /\ ~removed[s]
  /\ removed' = [removed EXCEPT ![s] = TRUE]
  /\ closing' = [closing EXCEPT ![s] = "claimed"]
  /\ UNCHANGED <<tableVars, mu, ctxDone, pc, victims>>

\* RemoveIfCurrent under the lock: delete the entries that still name s.
RemoveIfCurrent(s) ==
  /\ closing[s] = "claimed"
  /\ mu = Free
  /\ sessions4' = Delete(sessions4, {s})
  /\ sessions6' = Delete(sessions6, {s})
  /\ closing' = [closing EXCEPT ![s] = "closed"]
  /\ UNCHANGED <<nextGeneration, mu, generation, manager, ctxDone, removed,
                 pc, victims>>

-----------------------------------------------------------------------------
(* The goroutines around the manager                                       *)

\* The client goes away: the request context, parent of Ctx, is cancelled.
ParentCancel(s) ==
  /\ ~ctxDone[s]
  /\ ctxDone' = [ctxDone EXCEPT ![s] = TRUE]
  /\ UNCHANGED <<tableVars, mu, closing, removed, pc, victims>>

\* The TUN dispatcher, the session's reader or the shutdown loop, holding a
\* session it found in the tables, calls Close.
OtherClose(s) ==
  /\ generation[s] # 0
  /\ StartClose(s)
  /\ UNCHANGED <<tableVars, mu, removed, pc, victims>>

\* The tail of Replace: close the displaced sessions one after the other.
\* The set has one element at most (VictimsAreFew), so no order is lost.
EvictClose(s) ==
  /\ pc[s] = "evicting"
  /\ \E t \in victims[s] : StartClose(t)
  /\ UNCHANGED <<tableVars, mu, removed, pc, victims>>

\* Mutant of EvictClosed: a displaced session is not closed.
EvictForgotten(s) ==
  /\ pc[s] = "evicting"
  /\ \E t \in victims[s] : victims' = [victims EXCEPT ![s] = @ \ {t}]
  /\ UNCHANGED <<tableVars, mu, ctxDone, closing, removed, pc>>

EvictClosed(s) ==
  /\ pc[s] = "evicting"
  /\ \E t \in victims[s] :
       /\ closing[t] = "closed"
       /\ victims' = [victims EXCEPT ![s] = @ \ {t}]
  /\ UNCHANGED <<tableVars, mu, ctxDone, closing, removed, pc>>

\* Replace returns, the handler starts the reader and waits.
Serve(s) ==
  /\ pc[s] = "evicting"
  /\ victims[s] = {}
  /\ pc' = [pc EXCEPT ![s] = "serving"]
  /\ UNCHANGED <<tableVars, mu, ctxDone, closing, removed, victims>>

\* Mutant of Wake: the handler waits for Close instead of the context.
WakeOnClose(s) ==
  /\ pc[s] = "serving"
  /\ closing[s] # "open"
  /\ pc' = [pc EXCEPT ![s] = "closing"]
  /\ UNCHANGED <<tableVars, mu, ctxDone, closing, removed, victims>>

\* The request context or the session context ends the wait.
Wake(s) ==
  /\ pc[s] = "serving"
  /\ ctxDone[s]
  /\ pc' = [pc EXCEPT ![s] = "closing"]
  /\ UNCHANGED <<tableVars, mu, ctxDone, closing, removed, victims>>

HandlerClose(s) ==
  /\ pc[s] \in {"closing", "rejected"}
  /\ StartClose(s)
  /\ UNCHANGED <<tableVars, mu, removed, pc, victims>>

\* Close has returned, whoever ran its body, and the handler returns.
Return(s) ==
  /\ pc[s] \in {"closing", "rejected"}
  /\ closing[s] = "closed"
  /\ pc' = [pc EXCEPT ![s] = "returned"]
  /\ UNCHANGED <<tableVars, mu, ctxDone, closing, removed, victims>>

\* Every request of the bounded supply has been served.
AllReturned ==
  /\ \A s \in Session : pc[s] = "returned"
  /\ UNCHANGED vars

\* The steps of the body of s.Close after its first, whoever runs it.
CloseStep(s) ==
  ConnClose(s) \/ CloseUnregistered(s) \/ RemoveClaim(s) \/ RemoveIfCurrent(s)

\* The steps of the goroutine that serves the request of s.
HandlerStep(s) ==
  \/ ReplaceLock(s) \/ ReplaceReject(s) \/ ReplaceInstall(s)
  \/ EvictClose(s) \/ EvictClosed(s) \/ Serve(s)
  \/ Wake(s) \/ HandlerClose(s) \/ Return(s)

Next ==
  \/ \E s \in Session : \/ HandlerStep(s)
                        \/ CloseStep(s)
                        \/ ParentCancel(s)
                        \/ OtherClose(s)
  \/ AllReturned

Spec == Init /\ [][Next]_vars

\* A goroutine that can run is run.  Nothing makes a client go away or the
\* data path call Close, and Conn.Close belongs to the transport.
Fairness ==
  \A s \in Session :
    /\ WF_vars(HandlerStep(s))
    /\ WF_vars(CloseUnregistered(s) \/ RemoveClaim(s) \/ RemoveIfCurrent(s))

\* The transport may keep any Conn.Close from returning.
LiveSpec == Spec /\ Fairness

\* The transport lets every Conn.Close return.
ConnsClose == \A s \in Session : WF_vars(ConnClose(s))

-----------------------------------------------------------------------------
(* Safety                                                                  *)

TypeOK ==
  /\ sessions4 \in [Addr4 -> Session \cup {NoSession}]
  /\ sessions6 \in [Addr6 -> Session \cup {NoSession}]
  /\ nextGeneration \in Nat
  /\ mu \in Session \cup {Free}
  /\ generation \in [Session -> Nat]
  /\ manager \in [Session -> BOOLEAN]
  /\ ctxDone \in [Session -> BOOLEAN]
  /\ closing \in [Session -> Closing]
  /\ removed \in [Session -> BOOLEAN]
  /\ pc \in [Session -> PC]
  /\ victims \in [Session -> SUBSET Session]

\* t was registered after s by the same identity.
Newer(t, s) ==
  IdentityOf[t] = IdentityOf[s] /\ generation[t] > generation[s]

Superseded(s) == \E t \in Session : Newer(t, s)

\* s is the next session of its client that was registered after t.
Successor(s, t) ==
  Newer(s, t) /\ \A u \in Session : ~(Newer(u, t) /\ Newer(s, u))

\* A session found at one of its addresses is found at all of them: the two
\* tables never disagree about a dual-stack session, whatever registrations
\* and teardowns run.
AtomicRegistration ==
  \A s \in SnapshotLocked : \A ip \in ClientIPs[s] : LookupLocked(ip) = s

\* The tables never hold two sessions of one identity, not even when the two
\* share no address.
OneSessionPerIdentity ==
  \A s, t \in SnapshotLocked : IdentityOf[s] = IdentityOf[t] => s = t

\* Registrations and takeovers together never exceed the session limit.
CapacityRespected == MaxSessions > 0 => CountLocked <= MaxSessions

\* A registration is refused only where it would take an address from another
\* identity or where other identities use up the limit by themselves: a
\* client that reconnects at the limit is never turned away by its own
\* former session.
RefusalJustified ==
  [][\A s \in Session :
       pc[s] = "locked" /\ pc'[s] = "rejected" =>
         LET others == {t \in SnapshotLocked : IdentityOf[t] # IdentityOf[s]}
         IN  \/ \E t \in others : ClientIPs[t] \cap ClientIPs[s] # {}
             \/ MaxSessions > 0 /\ Cardinality(others) >= MaxSessions
    ]_vars

\* A session that nobody has closed and no later session of its identity has
\* replaced stays reachable at every address: the teardown of an older
\* session, which may end long after the takeover, takes nothing from it.
LiveSessionReachable ==
  \A s \in Session :
    generation[s] # 0 /\ closing[s] = "open" /\ ~Superseded(s) =>
      \A ip \in ClientIPs[s] : LookupLocked(ip) = s

\* No packet is looked up to a session that a later session of the same
\* identity has replaced.
NoStaleOwner == \A s \in SnapshotLocked : ~Superseded(s)

\* When Close has returned the session is in no table, although Close and
\* Replace of the same session are run by different goroutines.
ClosedIsUnmapped ==
  \A s \in Session : closing[s] = "closed" => s \notin SnapshotLocked

\* manager.go says of Replace that an identity "has one active CONNECT-IP
\* session": while the handler of a session serves, every session that it or
\* an earlier one of its identity has replaced is at least cancelled.
OneActiveSession ==
  \A s, t \in Session :
    generation[t] # 0 /\ Newer(s, t) /\ pc[s] = "serving" => ctxDone[t]

\* A takeover has one session to close at most, so the order in which
\* Replace ranges over oldSet does not matter.
VictimsAreFew == \A s \in Session : Cardinality(victims[s]) <= 1

\* An address that a session holds is given up only when that session is torn
\* down, or to a newer session of the same identity: no registration ever
\* changes what another identity finds at its addresses.
TakeoverWithinIdentity ==
  [][\A ip \in Address, s \in Session :
       LookupLocked(ip) = s /\ LookupLocked(ip)' # s =>
         \/ closing[s] = "claimed" /\ LookupLocked(ip)' = NoSession
         \/ \E t \in Session :
              /\ IdentityOf[t] = IdentityOf[s]
              /\ generation'[t] > generation[s]
              /\ LookupLocked(ip)' \in {NoSession, t}
    ]_vars

-----------------------------------------------------------------------------
(* What a goroutine waits for                                              *)

\* Somebody is inside the closeOnce body of s; whoever calls Close waits.
CloseRuns(s) == closing[s] \notin {"open", "closed"}

\* The handler of s waits for the lock, for a Close whose body others run or
\* for its context, or has returned.
HandlerWaits(s) ==
  \/ pc[s] = "created" /\ mu # Free
  \/ pc[s] = "evicting" /\ victims[s] # {} /\ \A t \in victims[s] : CloseRuns(t)
  \/ pc[s] = "serving" /\ ~ctxDone[s]
  \/ pc[s] \in {"rejected", "closing"} /\ CloseRuns(s)
  \/ pc[s] = "returned"

\* The body of s.Close waits for Conn.Close or the lock, has lost the
\* compare-and-swap on removed, or nobody runs it.
CloseWaits(s) ==
  \/ ~CloseRuns(s)
  \/ closing[s] = "cancelled"
  \/ closing[s] = "connClosed" /\ manager[s] /\ removed[s]
  \/ closing[s] = "claimed" /\ mu # Free

AtRest == \A s \in Session : HandlerWaits(s) /\ CloseWaits(s)

\* Where every goroutine waits, it waits for a client or, through one Close at
\* most, for a Conn.Close: nobody waits for the lock and every registration is
\* decided.  If no Conn.Close hangs either, nothing is left undone: the
\* handlers of ended contexts have returned and unmapped their sessions, and
\* every replaced session is closed.
RestIsSettled ==
  AtRest =>
    /\ \A s \in Session :
         /\ pc[s] \notin {"created", "locked"}
         /\ CloseRuns(s) => closing[s] = "cancelled"
    /\ (\A s \in Session : closing[s] # "cancelled") =>
         \A s \in Session :
           /\ ctxDone[s] => pc[s] = "returned" /\ s \notin SnapshotLocked
           /\ generation[s] # 0 /\ Superseded(s) => closing[s] = "closed"

-----------------------------------------------------------------------------
(* Liveness                                                                *)

\* Under LiveSpec, if every Conn.Close returns, a replaced session is closed
\* in the end, whoever starts the closing: no connection of a former owner is
\* left open.
SupersededIsClosed ==
  ConnsClose =>
    \A s \in Session :
      (generation[s] # 0 /\ Superseded(s)) ~> closing[s] = "closed"

\* Under LiveSpec, if every Conn.Close returns, the handler of a session whose
\* context has ended returns and leaves it unmapped, wherever in the
\* registration it was.
CancelledReturns ==
  ConnsClose =>
    \A s \in Session :
      ctxDone[s] ~> pc[s] = "returned" /\ s \notin SnapshotLocked

\* Under LiveSpec, a concurrent registration is decided even while the
\* Conn.Close of other sessions hangs.
RegistrationDecided ==
  \A s \in Session : pc[s] = "created" ~> pc[s] \notin {"created", "locked"}

-----------------------------------------------------------------------------
(* The promise of the manager                                              *)

OwnerOf(i) ==
  IF \E s \in SnapshotLocked : IdentityOf[s] = i
  THEN CHOOSE s \in SnapshotLocked : IdentityOf[s] = i
  ELSE NoSession

Registry == INSTANCE SessionRegistry WITH
  owner <- [i \in Identity |-> OwnerOf(i)],
  spent <- {s \in Session : generation[s] # 0}

\* The two tables, the lock and the teardown steps implement one atomic
\* owner per identity.
ImplementsRegistry == Registry!Spec

\* Lookup finds the owner that holds the address.
LookupAgrees == \A ip \in Address : LookupLocked(ip) = Registry!Resolve(ip)

=============================================================================
