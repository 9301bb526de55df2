-------------------------- MODULE NetServerProofs --------------------------
(***************************************************************************)
(* Proofs about NetServer, for every finite pool of sessions, every finite *)
(* set of sockets and every amount of data.                                *)
(*                                                                         *)
(* What on_accept must leave consistent is spread over the pool, the map   *)
(* and the connections.  The invariant ties them together: the sockets on  *)
(* the map are sockets that were accepted, so the next one is not among    *)
(* them and its session goes where it should.                              *)
(***************************************************************************)
EXTENDS NetServer, FiniteSetTheorems, SequenceTheorems, TLAPS

(***************************************************************************)
(* The two properties need each other: that a session taken off the map is *)
(* on it nowhere else follows from its knowing its one socket, and that it *)
(* keeps that socket from its being with one owner at a time.              *)
(***************************************************************************)
ManagerInv == ManagerTypeOK /\ OnePlace /\ OneSocket

\* The pool as a set: it has its sessions at the positions 1 to its length.
LEMMA PoolElements ==
  ASSUME NEW S, NEW free \in Seq(S)
  PROVE  /\ Len(free) \in Nat /\ DOMAIN free = 1 .. Len(free)
         /\ Elements(free) \subseteq S
         /\ \A s : s \in Elements(free) <=> \E i \in 1 .. Len(free) : s = free[i]
<1>1. Len(free) \in Nat /\ DOMAIN free = 1 .. Len(free)
  BY LenProperties
<1>2. \A i \in 1 .. Len(free) : free[i] \in S
  BY ElementOfSeq
<1>3. QED
  BY <1>1, <1>2 DEF Elements

\* Claiming takes one session out of the pool and no other.
LEMMA TailElements ==
  ASSUME NEW free \in Seq(Sessions), free # <<>>,
         \A i, j \in DOMAIN free : free[i] = free[j] => i = j
  PROVE  /\ Head(free) \in Elements(free)
         /\ Tail(free) \in Seq(Sessions)
         /\ Elements(Tail(free)) = Elements(free) \ {Head(free)}
         /\ \A i, j \in DOMAIN Tail(free) : Tail(free)[i] = Tail(free)[j] => i = j
<1> DEFINE n == Len(free)
           rest == Tail(free)
<1>1. /\ n \in Nat \ {0} /\ DOMAIN free = 1 .. n /\ Head(free) = free[1]
      /\ \A s : s \in Elements(free) <=> \E i \in 1 .. n : s = free[i]
  BY PoolElements, EmptySeq
<1>2. /\ rest \in Seq(Sessions) /\ Len(rest) = n - 1
      /\ \A i \in 1 .. n - 1 : rest[i] = free[i + 1]
  BY HeadTailProperties
<1>3. /\ DOMAIN rest = 1 .. n - 1
      /\ \A s : s \in Elements(rest) <=> \E i \in 1 .. n - 1 : s = rest[i]
  <2> HIDE DEF n, rest
  <2>1. /\ DOMAIN rest = 1 .. Len(rest)
        /\ \A s : s \in Elements(rest) <=> \E i \in 1 .. Len(rest) : s = rest[i]
    BY <1>2, PoolElements
  <2>2. QED
    BY <1>2, <2>1
<1> HIDE DEF n, rest
<1>4. ASSUME NEW s
      PROVE  s \in Elements(rest) <=> s \in Elements(free) /\ s # free[1]
  <2>1. ASSUME s \in Elements(rest)
        PROVE  s \in Elements(free) /\ s # free[1]
    <3>1. PICK i \in 1 .. n - 1 : s = rest[i]
      BY <1>3, <2>1
    <3>2. i + 1 \in 1 .. n /\ 1 \in 1 .. n /\ i + 1 # 1 /\ s = free[i + 1]
      BY <1>1, <1>2, <3>1
    <3>3. QED
      BY <1>1, <3>2
  <2>2. ASSUME s \in Elements(free), s # free[1]
        PROVE  s \in Elements(rest)
    <3>1. PICK i \in 1 .. n : s = free[i]
      BY <1>1, <2>2
    <3>2. i - 1 \in 1 .. n - 1 /\ (i - 1) + 1 = i
      BY <1>1, <2>2, <3>1
    <3>3. rest[i - 1] = s
      BY <1>2, <3>1, <3>2
    <3>4. QED
      BY <1>3, <3>2, <3>3
  <2>3. QED
    BY <2>1, <2>2
<1>5. ASSUME NEW i \in DOMAIN rest, NEW j \in DOMAIN rest, rest[i] = rest[j]
      PROVE  i = j
  <2>1. /\ i \in 1 .. n - 1 /\ j \in 1 .. n - 1 /\ i + 1 \in 1 .. n /\ j + 1 \in 1 .. n
    BY <1>1, <1>3
  <2>2. free[i + 1] = free[j + 1]
    BY <1>2, <1>5, <2>1
  <2>3. i + 1 = j + 1
    BY <1>1, <2>1, <2>2
  <2>4. QED
    BY <2>1, <2>3
<1>6. Head(free) \in Elements(free)
  <2>1. 1 \in 1 .. n
    BY <1>1
  <2>2. QED
    BY <1>1, <2>1
<1>7. Elements(rest) = Elements(free) \ {Head(free)}
  BY <1>1, <1>4
<1>8. QED
  BY <1>2, <1>5, <1>6, <1>7 DEF rest

\* Reclaiming puts one more session into the pool.
LEMMA AppendElements ==
  ASSUME NEW free \in Seq(Sessions), NEW session \in Sessions,
         session \notin Elements(free),
         \A i, j \in DOMAIN free : free[i] = free[j] => i = j
  PROVE  /\ Append(free, session) \in Seq(Sessions)
         /\ Elements(Append(free, session)) = Elements(free) \union {session}
         /\ \A i, j \in DOMAIN Append(free, session) :
              Append(free, session)[i] = Append(free, session)[j] => i = j
<1> DEFINE n == Len(free)
           more == Append(free, session)
<1>1. /\ n \in Nat /\ DOMAIN free = 1 .. n
      /\ \A s : s \in Elements(free) <=> \E i \in 1 .. n : s = free[i]
  BY PoolElements
<1>2. /\ more \in Seq(Sessions) /\ Len(more) = n + 1
      /\ \A i \in 1 .. n : more[i] = free[i]
      /\ more[n + 1] = session
  BY AppendProperties
<1>3. /\ DOMAIN more = 1 .. n + 1
      /\ \A s : s \in Elements(more) <=> \E i \in 1 .. n + 1 : s = more[i]
  <2> HIDE DEF n, more
  <2>1. /\ DOMAIN more = 1 .. Len(more)
        /\ \A s : s \in Elements(more) <=> \E i \in 1 .. Len(more) : s = more[i]
    BY <1>2, PoolElements
  <2>2. QED
    BY <1>2, <2>1
<1> HIDE DEF n, more
<1>4. 1 .. n + 1 = 1 .. n \union {n + 1} /\ n + 1 \notin 1 .. n
  BY <1>1
<1>5. Elements(more) = Elements(free) \union {session}
  BY <1>1, <1>2, <1>3, <1>4
<1>6. ASSUME NEW i \in DOMAIN more, NEW j \in DOMAIN more, more[i] = more[j]
      PROVE  i = j
  <2>1. \A k \in 1 .. n : more[k] # session
    BY <1>1, <1>2
  <2>2. CASE i = n + 1
    BY <1>2, <1>3, <1>4, <1>6, <2>1, <2>2
  <2>3. CASE j = n + 1
    BY <1>2, <1>3, <1>4, <1>6, <2>1, <2>3
  <2>4. CASE i \in 1 .. n /\ j \in 1 .. n
    BY <1>1, <1>2, <1>6, <2>4
  <2>5. QED
    BY <1>3, <1>4, <2>2, <2>3, <2>4
<1>7. QED
  BY <1>2, <1>5, <1>6 DEF more

-----------------------------------------------------------------------------
\* init_sessions() puts every session into the pool, once.
LEMMA InitManager == ManagerInit => ManagerInv
<1> SUFFICES ASSUME ManagerInit PROVE ManagerInv
  OBVIOUS
<1> DEFINE n == Cardinality(Sessions)
<1>1. n \in Nat
  BY SessionAssumption, FS_CardinalityType
<1>2. /\ vct_sessions \in [1 .. n -> Sessions] /\ Elements(vct_sessions) = Sessions
      /\ map_sessions = [fd \in {} |-> NoSession] /\ held = {}
      /\ socket_of = [session \in Sessions |-> 0]
  BY DEF ManagerInit
<1>3. vct_sessions \in Seq(Sessions) /\ DOMAIN vct_sessions = 1 .. n
  BY <1>1, <1>2
<1>4. DOMAIN map_sessions = {} /\ Mapped = {}
  BY <1>2 DEF Mapped
<1>5. ManagerTypeOK
  BY <1>2, <1>3, <1>4 DEF ManagerTypeOK
<1>6. ASSUME NEW i \in DOMAIN vct_sessions, NEW j \in DOMAIN vct_sessions,
             vct_sessions[i] = vct_sessions[j]
      PROVE  i = j
  <2>1. vct_sessions \in Surjection(1 .. n, Sessions)
    BY <1>2, <1>3 DEF Surjection, Elements
  <2>2. IsFiniteSet(1 .. n) /\ Cardinality(1 .. n) = n
    BY <1>1, FS_Interval
  <2>3. vct_sessions \in Injection(1 .. n, Sessions)
    BY <2>1, <2>2, FS_SurjSameCardinalityImpliesInj
  <2>4. QED
    BY <1>6, <2>3 DEF Injection, IsInjective
<1>7. OnePlace
  BY <1>2, <1>4, <1>6 DEF OnePlace
<1>8. OneSocket
  BY <1>4 DEF OneSocket
<1>9. QED
  BY <1>5, <1>7, <1>8 DEF ManagerInv

\* The sessions in the pool.
Pool == Elements(vct_sessions)

\* Claiming moves the first session of the pool into the caller's hands.
LEMMA ClaimManager ==
  ASSUME ManagerInv, Claim
  PROVE  ManagerInv'
<1> DEFINE session == Head(vct_sessions)
<1>1. /\ vct_sessions # <<>>
      /\ vct_sessions' = Tail(vct_sessions) /\ held' = held \union {session}
      /\ UNCHANGED <<map_sessions, socket_of>>
  BY DEF Claim, claim_one_session, WithoutClaimed
<1>2. /\ vct_sessions \in Seq(Sessions)
      /\ Pool \union held \union Mapped = Sessions
      /\ Pool \intersect (held \union Mapped) = {}
      /\ held \intersect Mapped = {}
      /\ \A i, j \in DOMAIN vct_sessions : vct_sessions[i] = vct_sessions[j] => i = j
  BY DEF ManagerInv, ManagerTypeOK, OnePlace, Pool
<1>3. /\ session \in Pool /\ vct_sessions' \in Seq(Sessions)
      /\ Pool' = Pool \ {session}
      /\ \A i, j \in DOMAIN vct_sessions' : vct_sessions'[i] = vct_sessions'[j] => i = j
  BY <1>1, <1>2, TailElements DEF Pool
<1> HIDE DEF session
<1>4. Mapped' = Mapped
  BY <1>1 DEF Mapped
<1>5. ManagerTypeOK'
  BY <1>1, <1>2, <1>3 DEF ManagerInv, ManagerTypeOK
<1>6. OnePlace'
  BY <1>1, <1>2, <1>3, <1>4 DEF OnePlace, Pool
<1>7. OneSocket'
  BY <1>1 DEF ManagerInv, OneSocket
<1>8. QED
  BY <1>5, <1>6, <1>7 DEF ManagerInv

\* Inserting gives a held session to a socket.  When the socket has one
\* already the caller keeps its session, whose socket is set all the same.
LEMMA InsertManager ==
  ASSUME ManagerInv, NEW fd \in Sockets, NEW session \in Sessions, Insert(fd, session)
  PROVE  ManagerInv'
<1>1. /\ session \in held
      /\ socket_of' = [socket_of EXCEPT ![session] = fd]
      /\ map_sessions' = insert_session(map_sessions, fd, session)
      /\ held' = IF fd \in DOMAIN map_sessions THEN held ELSE held \ {session}
      /\ vct_sessions' = vct_sessions
  BY DEF Insert
<1>2. /\ map_sessions \in [DOMAIN map_sessions -> Sessions]
      /\ DOMAIN map_sessions \subseteq Sockets
      /\ socket_of \in [Sessions -> Sockets \union {0}] /\ held \subseteq Sessions
      /\ session \notin Mapped
      /\ \A f \in DOMAIN map_sessions : map_sessions[f] # session
  BY <1>1 DEF ManagerInv, ManagerTypeOK, OnePlace, Mapped
<1>3. OneSocket'
  <2> SUFFICES ASSUME NEW f \in DOMAIN map_sessions'
               PROVE  socket_of'[map_sessions'[f]] = f
    BY DEF OneSocket
  <2>1. CASE f \in DOMAIN map_sessions
    <3>1. map_sessions'[f] = map_sessions[f]
      BY <1>1, <2>1 DEF insert_session
    <3>2. map_sessions[f] \in Sessions /\ map_sessions[f] # session
      BY <1>2, <2>1
    <3>3. socket_of[map_sessions[f]] = f
      BY <2>1 DEF ManagerInv, OneSocket
    <3>4. QED
      BY <1>1, <1>2, <3>1, <3>2, <3>3
  <2>2. CASE f \notin DOMAIN map_sessions
    <3>1. f = fd /\ map_sessions'[f] = session
      BY <1>1, <2>2 DEF insert_session
    <3>2. QED
      BY <1>1, <1>2, <3>1
  <2>3. QED
    BY <2>1, <2>2
<1>4. CASE fd \in DOMAIN map_sessions
  <2>1. DOMAIN map_sessions' = DOMAIN map_sessions /\ map_sessions' = map_sessions
    BY <1>1, <1>2, <1>4 DEF insert_session
  <2>2. ManagerTypeOK'
    BY <1>1, <1>2, <1>4, <2>1 DEF ManagerInv, ManagerTypeOK
  <2>3. OnePlace'
    BY <1>1, <1>4, <2>1 DEF ManagerInv, OnePlace, Mapped
  <2>4. QED
    BY <1>3, <2>2, <2>3 DEF ManagerInv
<1>5. CASE fd \notin DOMAIN map_sessions
  <2>1. /\ DOMAIN map_sessions' = DOMAIN map_sessions \union {fd}
        /\ \A f \in DOMAIN map_sessions' :
             map_sessions'[f] = IF f \in DOMAIN map_sessions THEN map_sessions[f] ELSE session
        /\ map_sessions' = [f \in DOMAIN map_sessions' |-> map_sessions'[f]]
    BY <1>1 DEF insert_session
  <2>2. Mapped' = Mapped \union {session}
    BY <1>5, <2>1 DEF Mapped
  <2>3. ManagerTypeOK'
    <3>1. map_sessions' \in [DOMAIN map_sessions' -> Sessions]
      BY <1>2, <2>1
    <3>2. QED
      BY <1>1, <1>2, <1>5, <2>1, <3>1 DEF ManagerInv, ManagerTypeOK
  <2>4. OnePlace'
    BY <1>1, <1>5, <2>2 DEF ManagerInv, OnePlace
  <2>5. QED
    BY <1>3, <2>3, <2>4 DEF ManagerInv
<1>6. QED
  BY <1>4, <1>5

\* Removing gives the session of a socket back to a caller.
LEMMA RemoveManager ==
  ASSUME ManagerInv, NEW fd \in Sockets, Remove(fd)
  PROVE  ManagerInv'
<1> DEFINE session == map_sessions[fd]
<1>1. /\ fd \in DOMAIN map_sessions
      /\ map_sessions' = [f \in DOMAIN map_sessions \ {fd} |-> map_sessions[f]]
      /\ held' = held \union {session}
      /\ UNCHANGED <<vct_sessions, socket_of>>
  BY DEF Remove, remove_session, get_one_session
<1>2. /\ map_sessions \in [DOMAIN map_sessions -> Sessions]
      /\ DOMAIN map_sessions \subseteq Sockets /\ session \in Mapped /\ session \in Sessions
  BY <1>1 DEF ManagerInv, ManagerTypeOK, Mapped
<1>3. \A f \in DOMAIN map_sessions : map_sessions[f] = session => f = fd
  BY <1>1 DEF ManagerInv, OneSocket
<1>4. /\ DOMAIN map_sessions' = DOMAIN map_sessions \ {fd}
      /\ \A f \in DOMAIN map_sessions' : map_sessions'[f] = map_sessions[f]
  BY <1>1
<1>5. Mapped' = Mapped \ {session}
  BY <1>1, <1>3, <1>4 DEF Mapped
<1> HIDE DEF session
<1>6. ManagerTypeOK'
  BY <1>1, <1>2, <1>4 DEF ManagerInv, ManagerTypeOK
<1>7. OnePlace'
  BY <1>1, <1>2, <1>5 DEF ManagerInv, OnePlace
<1>8. OneSocket'
  BY <1>1, <1>4 DEF ManagerInv, OneSocket
<1>9. QED
  BY <1>6, <1>7, <1>8 DEF ManagerInv

\* Reclaiming puts a held session at the end of the pool.
LEMMA ReclaimManager ==
  ASSUME ManagerInv, NEW session \in Sessions, Reclaim(session)
  PROVE  ManagerInv'
<1>1. /\ session \in held
      /\ vct_sessions' = Append(vct_sessions, session) /\ held' = held \ {session}
      /\ UNCHANGED <<map_sessions, socket_of>>
  BY DEF Reclaim, reclaim_one_session
<1>2. /\ vct_sessions \in Seq(Sessions) /\ session \notin Elements(vct_sessions)
      /\ \A i, j \in DOMAIN vct_sessions : vct_sessions[i] = vct_sessions[j] => i = j
  BY <1>1 DEF ManagerInv, ManagerTypeOK, OnePlace
<1>3. /\ vct_sessions' \in Seq(Sessions)
      /\ Elements(vct_sessions') = Elements(vct_sessions) \union {session}
      /\ \A i, j \in DOMAIN vct_sessions' : vct_sessions'[i] = vct_sessions'[j] => i = j
  BY <1>1, <1>2, AppendElements
<1>4. ManagerTypeOK'
  BY <1>1, <1>3 DEF ManagerInv, ManagerTypeOK
<1>5. OnePlace'
  <2>1. Mapped' = Mapped
    BY <1>1 DEF Mapped
  <2>2. QED
    BY <1>1, <1>3, <2>1 DEF ManagerInv, OnePlace
<1>6. OneSocket'
  BY <1>1 DEF ManagerInv, OneSocket
<1>7. QED
  BY <1>4, <1>5, <1>6 DEF ManagerInv

\* Every operation of the manager preserves the invariant.
LEMMA StepManager ==
  ASSUME ManagerInv, [ManagerNext]_manager
  PROVE  ManagerInv'
<1>1. CASE Claim
  BY <1>1, ClaimManager
<1>2. ASSUME NEW fd \in Sockets, NEW session \in Sessions, Insert(fd, session)
      PROVE  ManagerInv'
  BY <1>2, InsertManager
<1>3. ASSUME NEW fd \in Sockets, Remove(fd)
      PROVE  ManagerInv'
  BY <1>3, RemoveManager
<1>4. ASSUME NEW session \in Sessions, Reclaim(session)
      PROVE  ManagerInv'
  BY <1>4, ReclaimManager
<1>5. CASE UNCHANGED manager
  BY <1>5 DEF manager, ManagerInv, ManagerTypeOK, OnePlace, OneSocket, Mapped
<1>6. QED
  BY <1>1, <1>2, <1>3, <1>4, <1>5 DEF ManagerNext

\* The invariant always holds.
THEOREM ManagerInvHolds == ManagerSpec => []ManagerInv
<1>1. ManagerInit => ManagerInv
  BY InitManager
<1>2. ManagerInv /\ [ManagerNext]_manager => ManagerInv'
  BY StepManager
<1>3. QED
  BY <1>1, <1>2, PTL DEF ManagerSpec

\* Pool, map and sockets have their types: in particular the map never
\* leads to the null pointer.
THEOREM ManagerTypeCorrect == ManagerSpec => []ManagerTypeOK
<1>1. ManagerInv => ManagerTypeOK
  BY DEF ManagerInv
<1>2. QED
  BY <1>1, ManagerInvHolds, PTL

\* Callers that keep the rule, that only the holder of a session inserts or
\* reclaims it, have every session in one place and every session on the map
\* serve the one socket it knows: the checks reclaim_one_session lacks are not
\* needed by them.
THEOREM RuleSuffices == ManagerSpec => [](OnePlace /\ OneSocket)
<1>1. ManagerInv => OnePlace /\ OneSocket
  BY DEF ManagerInv
<1>2. QED
  BY <1>1, ManagerInvHolds, PTL

-----------------------------------------------------------------------------
(***************************************************************************)
(* The server.                                                             *)
(***************************************************************************)

\* Every connection is counted once, and select is right about the backlog.
Backlog ==
  /\ coming + pending <= Cardinality(Sockets)
  /\ AcceptEvent \in active => pending > 0

\* No data comes from nowhere.
DataBound == \A fd \in Sockets : unsent + arrived[fd] <= MaxData

\* Only a socket that was accepted has a session, and the session knows it.
BoundAccepted == Bound \subseteq Accepted

IInv ==
  /\ TypeOK
  /\ Backlog
  /\ DataBound
  /\ BoundAccepted
  /\ OnePlace
  /\ OneSocket
  /\ held = {}

\* The part of it that is about pool and map, and the part about the sockets.
SessionsInv == ManagerInv /\ held = {} /\ Bound \subseteq Sockets

-----------------------------------------------------------------------------

LEMMA SocketsCount == Cardinality(Sockets) \in Nat
BY ServerAssumption, FS_CardinalityType

-----------------------------------------------------------------------------

\* on_accept for a socket that has no session: one session moves from the
\* pool to the map, or nothing does.
LEMMA OnAcceptSessions ==
  ASSUME NEW fd \in Sockets, SessionsInv, fd \notin Bound, on_accept(fd), held' = held
  PROVE  /\ SessionsInv'
         /\ Bound' \subseteq Bound \union {fd} /\ Bound \subseteq Bound'
         /\ \A f \in Bound : map_sessions'[f] = map_sessions[f]
<1>0. /\ ManagerTypeOK /\ OnePlace /\ OneSocket /\ Bound \subseteq Sockets
      /\ held = {} /\ held' = {}
  BY DEF SessionsInv, ManagerInv
<1>1. CASE vct_sessions = <<>>
  <2>1. UNCHANGED manager
    BY <1>1 DEF on_accept, claim_one_session, WithoutClaimed, manager
  <2>2. QED
    BY <1>0, <2>1 DEF manager, SessionsInv, ManagerInv, ManagerTypeOK, OnePlace,
       OneSocket, Mapped, Bound
<1>2. CASE vct_sessions # <<>>
  <2> DEFINE session == Head(vct_sessions)
  <2>1. /\ vct_sessions \in Seq(Sessions)
        /\ \A i, j \in DOMAIN vct_sessions : vct_sessions[i] = vct_sessions[j] => i = j
    BY <1>0 DEF ManagerTypeOK, OnePlace
  <2>2. /\ session \in Elements(vct_sessions)
        /\ Tail(vct_sessions) \in Seq(Sessions)
        /\ Elements(Tail(vct_sessions)) = Elements(vct_sessions) \ {session}
        /\ \A i, j \in DOMAIN Tail(vct_sessions) :
             Tail(vct_sessions)[i] = Tail(vct_sessions)[j] => i = j
    BY <1>2, <2>1, TailElements
  <2>3. session \in Sessions /\ session # NoSession
    BY <1>0, <2>2, SessionAssumption DEF OnePlace
  <2>4. /\ vct_sessions' = Tail(vct_sessions)
        /\ socket_of' = [socket_of EXCEPT ![session] = fd]
        /\ map_sessions' = [f \in Bound \union {fd} |->
                              IF f \in Bound THEN map_sessions[f] ELSE session]
    BY <1>2, <2>3 DEF on_accept, claim_one_session, WithoutClaimed,
       insert_session, Bound
  <2> HIDE DEF session
  <2>5. /\ Bound' = Bound \union {fd}
        /\ \A f \in Bound : map_sessions'[f] = map_sessions[f]
        /\ map_sessions'[fd] = session
    BY <2>4 DEF Bound
  <2>6. /\ \A f \in Bound : map_sessions[f] \in Sessions /\ socket_of[map_sessions[f]] = f
        /\ socket_of \in [Sessions -> Sockets \union {0}]
    BY <1>0 DEF ManagerTypeOK, OneSocket, Bound
  <2>7. Mapped = {map_sessions[f] : f \in Bound}
    BY DEF Mapped, Bound
  <2>8. Mapped' = Mapped \union {session}
    <3>1. Mapped' = {map_sessions'[f] : f \in Bound'}
      BY DEF Mapped, Bound
    <3>2. QED
      BY <2>5, <2>7, <3>1
  <2>9. session \notin Mapped
    BY <1>0, <2>2 DEF OnePlace
  <2>10. ManagerTypeOK'
    <3>1. socket_of' \in [Sessions -> Sockets \union {0}]
      BY <2>4, <2>6
    <3>2. map_sessions' \in [Bound' -> Sessions] /\ Bound' \subseteq Sockets
      BY <1>0, <2>3, <2>4, <2>5, <2>6
    <3>3. QED
      BY <1>0, <2>2, <2>4, <3>1, <3>2 DEF ManagerTypeOK, Bound
  <2>11. OnePlace'
    BY <1>0, <2>2, <2>4, <2>8, <2>9 DEF OnePlace
  <2>12. OneSocket'
    <3>1. ASSUME NEW f \in Bound'
          PROVE  socket_of'[map_sessions'[f]] = f
      <4>1. CASE f = fd
        BY <2>3, <2>4, <2>5, <2>6, <4>1
      <4>2. CASE f # fd
        <5>1. f \in Bound /\ map_sessions'[f] = map_sessions[f]
          BY <2>5, <3>1, <4>2
        <5>2. map_sessions[f] # session
          BY <2>7, <2>9, <5>1
        <5>3. QED
          BY <2>4, <2>6, <5>1, <5>2
      <4>3. QED
        BY <4>1, <4>2
    <3>2. QED
      BY <3>1 DEF OneSocket, Bound
  <2>13. QED
    BY <1>0, <2>5, <2>10, <2>11, <2>12 DEF SessionsInv, ManagerInv
<1>3. QED
  BY <1>1, <1>2

\* The sockets' own part of the invariant: all but pool and map.
SocketsInv ==
  /\ coming \in Nat /\ pending \in Nat
  /\ peer \in [Sockets -> {"none", "open", "closed"}]
  /\ unsent \in 0 .. MaxData
  /\ arrived \in [Sockets -> 0 .. MaxData]
  /\ ev_listen \in EventState
  /\ ev_read \in [Sockets -> EventState]
  /\ ev_write \in [Sockets -> EventState]
  /\ active \subseteq {AcceptEvent} \union ({"read", "write"} \X Sockets)
  /\ queued \in [Sessions -> 0 .. QueueLen]
  /\ writing \in Bound \union {0}
  /\ wedged \subseteq Sockets
  /\ broken \in BOOLEAN
  /\ Backlog
  /\ DataBound

LEMMA Parts ==
  /\ IInv <=> SocketsInv /\ SessionsInv /\ BoundAccepted
  /\ (IInv <=> SocketsInv /\ SessionsInv /\ BoundAccepted)'
<1> SUFFICES IInv <=> SocketsInv /\ SessionsInv /\ BoundAccepted
  BY PTL
<1>1. SocketsInv => coming \in 0 .. Cardinality(Sockets)
                    /\ pending \in 0 .. Cardinality(Sockets)
  BY SocketsCount DEF SocketsInv, Backlog
<1>2. TypeOK => coming \in Nat /\ pending \in Nat
  BY SocketsCount DEF TypeOK
<1>3. ManagerTypeOK => Bound \subseteq Sockets
  BY DEF ManagerTypeOK, Bound
<1>4. QED
  BY <1>1, <1>2, <1>3 DEF IInv, SocketsInv, SessionsInv, ManagerInv, TypeOK

\* A step that leaves pool and map alone.
LEMMA SameSessions ==
  ASSUME SessionsInv, UNCHANGED manager
  PROVE  SessionsInv' /\ Bound' = Bound
BY DEF manager, SessionsInv, ManagerInv, ManagerTypeOK, OnePlace, OneSocket,
   Mapped, Bound

LEMMA InitIInv == Init => IInv
<1> SUFFICES ASSUME Init PROVE IInv
  OBVIOUS
<1>1. ManagerInit
  BY Zenon DEF Init
<1>2. map_sessions = [fd \in {} |-> NoSession] /\ held = {}
  BY <1>1, Zenon DEF ManagerInit
<1>3. Bound = {}
  BY <1>2 DEF Bound
<1>4. SessionsInv
  BY <1>1, <1>2, <1>3, InitManager DEF SessionsInv
<1>5. SocketsInv
  <2>1. /\ coming = Cardinality(Sockets) /\ pending = 0
        /\ peer = [fd \in Sockets |-> "none"]
        /\ unsent = MaxData /\ arrived = [fd \in Sockets |-> 0]
        /\ ev_listen = "added"
        /\ ev_read = [fd \in Sockets |-> "null"] /\ ev_write = [fd \in Sockets |-> "null"]
        /\ active = {} /\ broken = FALSE
        /\ queued = [session \in Sessions |-> 0] /\ writing = 0 /\ wedged = {}
    BY Zenon DEF Init
  <2>2. MaxData \in 0 .. MaxData /\ 0 \in 0 .. MaxData /\ 0 \in 0 .. QueueLen
    BY ServerAssumption
  <2>3. Backlog /\ DataBound
    BY <2>1, SocketsCount, ServerAssumption DEF Backlog, DataBound
  <2>4. QED
    BY <2>1, <2>2, <2>3, SocketsCount DEF SocketsInv, EventState
<1>6. BoundAccepted
  BY <1>3 DEF BoundAccepted
<1>7. QED
  BY <1>4, <1>5, <1>6, Parts

-----------------------------------------------------------------------------

\* The loop, and the callbacks that accept no connection.
LEMMA LoopIInv ==
  ASSUME IInv,
         \/ Poll \/ AcceptFails \/ FetchMessage \/ EndWrite
         \/ \E fd \in Sockets : Read(fd) \/ BeginWrite(fd)
  PROVE  IInv'
<1>1. SocketsInv /\ SessionsInv /\ BoundAccepted
  BY Parts
<1> USE DEF Poll, AcceptFails, FetchMessage, EndWrite, Read, BeginWrite
<1>2. UNCHANGED <<manager, peer, coming, unsent>>
  BY DEF net
<1>3. SessionsInv' /\ Bound' = Bound /\ Accepted' = Accepted
  BY <1>1, <1>2, SameSessions DEF Accepted
<1>4. ev_listen' = ev_listen
  BY DEF AfterCallback, events
<1>5. ev_read' = ev_read
  BY <1>1 DEF SocketsInv, AfterCallback, events
<1>6. ev_write' = ev_write
  BY <1>1 DEF SocketsInv, AfterCallback, events
<1>7. BoundAccepted'
  BY <1>1, <1>3 DEF BoundAccepted
<1>8. /\ active' \subseteq active \union Ready
      /\ Ready \subseteq {AcceptEvent} \union ({"read", "write"} \X Sockets)
      /\ AcceptEvent \in Ready => pending > 0
  <2>1. active' = active \/ active' \subseteq active \/ active' = Ready
    BY DEF Run, events
  <2>2. Ready \subseteq {AcceptEvent} \union ({"read", "write"} \X Sockets)
    BY DEF Ready, Accepted
  <2>3. AcceptEvent \in Ready => pending > 0
    BY DEF Ready, AcceptEvent
  <2>4. QED
    BY <2>1, <2>2, <2>3
<1>9. pending' \in Nat /\ Backlog'
  <2>1. CASE UNCHANGED pending
    BY <1>1, <1>2, <1>8, <2>1 DEF SocketsInv, Backlog
  <2>2. CASE AcceptFails
    <3>1. pending > 0 /\ pending' = pending - 1 /\ AcceptEvent \notin active'
      BY <1>1, <2>2 DEF SocketsInv, Run, Backlog
    <3>2. QED
      BY <1>1, <1>2, <3>1, SocketsCount DEF SocketsInv, Backlog
  <2>3. QED
    BY <2>1, <2>2
<1>10. active' \subseteq {AcceptEvent} \union ({"read", "write"} \X Sockets)
  BY <1>1, <1>8 DEF SocketsInv
<1>11. arrived' \in [Sockets -> 0 .. MaxData] /\ DataBound'
  <2>1. CASE UNCHANGED arrived
    BY <1>1, <1>2, <2>1 DEF SocketsInv, DataBound
  <2>2. CASE arrived' # arrived
    <3>1. PICK fd \in Sockets : Read(fd)
      BY <2>2 DEF net
    <3>2. PICK n \in 1 .. arrived[fd] : arrived' = [arrived EXCEPT ![fd] = arrived[fd] - n]
      BY <2>2, <3>1
    <3>3. /\ arrived \in [Sockets -> 0 .. MaxData] /\ unsent \in 0 .. MaxData
          /\ \A f \in Sockets : unsent + arrived[f] <= MaxData
      BY <1>1 DEF SocketsInv, DataBound
    <3>4. arrived[fd] - n \in 0 .. MaxData /\ arrived[fd] - n <= arrived[fd]
      BY <3>2, <3>3, ServerAssumption
    <3>5. arrived' \in [Sockets -> 0 .. MaxData]
      BY <3>2, <3>3, <3>4
    <3>6. \A f \in Sockets : unsent + arrived'[f] <= MaxData
      BY <3>2, <3>3, <3>4, ServerAssumption
    <3>7. QED
      BY <1>2, <3>5, <3>6 DEF DataBound
  <2>3. QED
    BY <2>1, <2>2
<1>12. queued' \in [Sessions -> 0 .. QueueLen]
  <2>1. CASE UNCHANGED queued
    BY <1>1, <2>1 DEF SocketsInv
  <2>2. CASE FetchMessage
    <3> DEFINE session == get_one_session(map_sessions, writing)
    <3>1. queued[session] > 0 /\ queued' = [queued EXCEPT ![session] = queued[session] - 1]
      BY <2>2 DEF Fetched
    <3> HIDE DEF session
    <3>2. /\ queued \in [Sessions -> 0 .. QueueLen] /\ QueueLen \in Nat
          /\ \A s \in Sessions : queued[s] > 0 => queued[s] - 1 \in 0 .. QueueLen
      BY <1>1, ServerAssumption DEF SocketsInv
    <3>3. QED
      BY <3>1, <3>2
  <2>3. QED
    BY <2>1, <2>2
<1>13. /\ writing' \in Bound' \union {0} /\ wedged' \subseteq Sockets
       /\ broken' \in BOOLEAN
  BY <1>1, <1>3 DEF SocketsInv
<1>14. SocketsInv'
  BY <1>1, <1>2, <1>4, <1>5, <1>6, <1>9, <1>10, <1>11, <1>12, <1>13 DEF SocketsInv
<1>15. QED
  BY <1>3, <1>7, <1>14, Parts

\* net_event_accept: whether the events could be made or not, the session goes
\* to a socket that had none, and to no other.
LEMMA AcceptIInv ==
  ASSUME NEW fd \in Sockets, NEW r \in BOOLEAN, NEW w \in BOOLEAN,
         IInv, ~broken, Accept(fd, r, w)
  PROVE  IInv'
<1>1. SocketsInv /\ SessionsInv /\ BoundAccepted
  BY Parts
<1>2. /\ AcceptEvent \in active /\ active' = active \ {AcceptEvent}
      /\ peer[fd] = "none" /\ peer' = [peer EXCEPT ![fd] = "open"]
      /\ pending' = pending - 1 /\ coming' = coming
      /\ unsent' = unsent /\ arrived' = arrived
      /\ ev_listen' = ev_listen /\ broken' = ~(r /\ w)
      /\ on_accept(fd) /\ held' = held
      /\ queued' = queued /\ writing' = writing /\ wedged' = wedged
  BY DEF Accept, Run, AfterCallback
<1>3. /\ ev_read' = [ev_read EXCEPT ![fd] =
             IF r /\ w THEN "added" ELSE IF r THEN "freed" ELSE "null"]
      /\ ev_write' = [ev_write EXCEPT ![fd] =
             IF r /\ w THEN "new" ELSE IF w THEN "freed" ELSE "null"]
  BY DEF Accept
<1>4. /\ peer \in [Sockets -> {"none", "open", "closed"}]
      /\ ev_read \in [Sockets -> EventState] /\ ev_write \in [Sockets -> EventState]
  BY <1>1 DEF SocketsInv
<1>5. fd \notin Bound
  BY <1>1, <1>2 DEF BoundAccepted, Accepted
<1>6. /\ SessionsInv' /\ Bound' \subseteq Bound \union {fd} /\ Bound \subseteq Bound'
      /\ \A f \in Bound : map_sessions'[f] = map_sessions[f]
  BY <1>1, <1>2, <1>5, OnAcceptSessions
<1>7. BoundAccepted'
  <2>1. fd \in Accepted' /\ Accepted \subseteq Accepted'
    BY <1>2, <1>4 DEF Accepted
  <2>2. QED
    BY <1>1, <1>6, <2>1 DEF BoundAccepted
<1>8. pending' \in Nat /\ Backlog'
  <2>1. pending > 0 /\ AcceptEvent \notin active'
    BY <1>1, <1>2 DEF SocketsInv, Backlog
  <2>2. QED
    BY <1>1, <1>2, <2>1, SocketsCount DEF SocketsInv, Backlog
<1>9. /\ ev_read' \in [Sockets -> EventState] /\ ev_write' \in [Sockets -> EventState]
       /\ peer' \in [Sockets -> {"none", "open", "closed"}]
  BY <1>2, <1>3, <1>4 DEF EventState
<1>10. SocketsInv'
  <2>1. DataBound'
    BY <1>1, <1>2 DEF SocketsInv, DataBound
  <2>2. broken' \in BOOLEAN /\ writing' \in Bound' \union {0}
    BY <1>1, <1>2, <1>6 DEF SocketsInv
  <2>3. QED
    BY <1>1, <1>2, <1>8, <1>9, <2>1, <2>2 DEF SocketsInv
<1>11. QED
  BY <1>6, <1>7, <1>10, Parts

\* The logic thread adds the write event of a session's socket, and pushes.
LEMMA LogicIInv ==
  ASSUME NEW session \in Mapped, IInv, push_to_writequeue(session)
  PROVE  IInv'
<1> DEFINE fd == socket_of[session]
<1>1. SocketsInv /\ SessionsInv /\ BoundAccepted
  BY Parts
<1>2. /\ ev_write' \in {ev_write, [ev_write EXCEPT ![fd] = "added"]}
      /\ queued' = IF queued[session] < QueueLen
                   THEN [queued EXCEPT ![session] = queued[session] + 1] ELSE queued
      /\ UNCHANGED <<pending, net, ev_listen, ev_read, manager, active, writing, wedged, broken>>
  BY DEF push_to_writequeue, add_write_event
<1> HIDE DEF fd
<1>3. SessionsInv' /\ Bound' = Bound /\ Accepted' = Accepted
  BY <1>1, <1>2, SameSessions DEF Accepted, net
<1>4. BoundAccepted'
  BY <1>1, <1>3 DEF BoundAccepted
<1>5. SocketsInv'
  <2>1. ev_write' \in [Sockets -> EventState]
    BY <1>1, <1>2 DEF SocketsInv, EventState
  <2>2. queued' \in [Sessions -> 0 .. QueueLen]
    <3>1. queued \in [Sessions -> 0 .. QueueLen] /\ QueueLen \in Nat
      BY <1>1, ServerAssumption DEF SocketsInv
    <3>2. \A s \in Sessions : queued[s] < QueueLen => queued[s] + 1 \in 0 .. QueueLen
      BY <3>1
    <3>3. CASE queued[session] < QueueLen
      BY <1>2, <3>1, <3>2, <3>3
    <3>4. CASE ~(queued[session] < QueueLen)
      BY <1>2, <3>1, <3>4
    <3>5. QED
      BY <3>3, <3>4
  <2>3. QED
    BY <1>1, <1>2, <1>3, <2>1, <2>2 DEF SocketsInv, Backlog, DataBound, net
<1>6. QED
  BY <1>3, <1>4, <1>5, Parts

\* The peers connect, send and close.
LEMMA PeersIInv ==
  ASSUME IInv, Peers
  PROVE  IInv'
<1>1. SocketsInv /\ SessionsInv /\ BoundAccepted
  BY Parts
<1>2. UNCHANGED <<events, manager, active, queued, writing, wedged, broken>>
  BY DEF Peers, Connect, Send, Close
<1>3. SessionsInv' /\ Bound' = Bound
  BY <1>1, <1>2, SameSessions
<1>4. CASE Connect
  <2>1. UNCHANGED <<peer, unsent, arrived>>
    BY <1>4 DEF Connect
  <2>2. /\ coming' \in Nat /\ pending' \in Nat /\ pending' > pending
        /\ coming' + pending' = coming + pending
    BY <1>1, <1>4 DEF SocketsInv, Connect
  <2>3. Backlog' /\ DataBound'
    <3>1. pending \in Nat /\ Backlog /\ DataBound
      BY <1>1 DEF SocketsInv
    <3>2. pending' > 0
      BY <2>2, <3>1
    <3>3. QED
      BY <2>1, <2>2, <3>1, <3>2 DEF Backlog, DataBound
  <2>4. SocketsInv' /\ BoundAccepted'
    BY <1>1, <1>2, <1>3, <2>1, <2>2, <2>3 DEF SocketsInv, BoundAccepted, Accepted, events
  <2>5. QED
    BY <1>3, <2>4, Parts
<1>5. ASSUME NEW fd \in Sockets, Send(fd)
      PROVE  IInv'
  <2>1. /\ unsent > 0
        /\ unsent' = unsent - 1
        /\ arrived' = [arrived EXCEPT ![fd] = arrived[fd] + 1]
        /\ UNCHANGED <<coming, pending, peer>>
    BY <1>5 DEF Send
  <2>2. /\ unsent \in 0 .. MaxData /\ arrived \in [Sockets -> 0 .. MaxData]
        /\ \A f \in Sockets : unsent + arrived[f] <= MaxData
    BY <1>1 DEF SocketsInv, DataBound
  <2>3. unsent' \in 0 .. MaxData /\ arrived[fd] + 1 \in 0 .. MaxData
    BY <2>1, <2>2, ServerAssumption
  <2>4. unsent' \in 0 .. MaxData /\ arrived' \in [Sockets -> 0 .. MaxData]
    BY <2>1, <2>2, <2>3
  <2>5. DataBound'
    <3>1. \A f \in Sockets : unsent' + arrived'[f] <= unsent + arrived[f]
      BY <2>1, <2>2, ServerAssumption
    <3>2. \A f \in Sockets : unsent' + arrived'[f] <= MaxData
      <4>1. MaxData \in Nat
        BY ServerAssumption
      <4> SUFFICES ASSUME NEW f \in Sockets PROVE unsent' + arrived'[f] <= MaxData
        OBVIOUS
      <4>2. unsent' \in Nat /\ arrived'[f] \in Nat /\ unsent \in Nat /\ arrived[f] \in Nat
        BY <2>2, <2>4, <4>1
      <4>3. QED
        BY <2>2, <3>1, <4>1, <4>2
    <3>3. QED
      BY <3>2 DEF DataBound
  <2>6. SocketsInv' /\ BoundAccepted'
    BY <1>1, <1>2, <1>3, <2>1, <2>4, <2>5
       DEF SocketsInv, Backlog, BoundAccepted, Accepted, events
  <2>7. QED
    BY <1>3, <2>6, Parts
<1>6. ASSUME NEW fd \in Sockets, Close(fd)
      PROVE  IInv'
  <2>1. /\ peer[fd] = "open" /\ peer' = [peer EXCEPT ![fd] = "closed"]
        /\ UNCHANGED <<coming, pending, unsent, arrived>>
    BY <1>6 DEF Close
  <2>2. /\ peer \in [Sockets -> {"none", "open", "closed"}]
        /\ peer' \in [Sockets -> {"none", "open", "closed"}]
    BY <1>1, <2>1 DEF SocketsInv
  <2>3. Accepted' = Accepted
    BY <2>1, <2>2 DEF Accepted
  <2>4. SocketsInv' /\ BoundAccepted'
    BY <1>1, <1>2, <1>3, <2>1, <2>2, <2>3
       DEF SocketsInv, Backlog, DataBound, BoundAccepted, events
  <2>5. QED
    BY <1>3, <2>4, Parts
<1>7. QED
  BY <1>4, <1>5, <1>6 DEF Peers

LEMMA StepIInv ==
  ASSUME IInv, [Next]_vars
  PROVE  IInv'
<1>1. CASE NetThread
  BY <1>1, LoopIInv, AcceptIInv DEF NetThread
<1>2. CASE LogicThread
  BY <1>2, LogicIInv DEF LogicThread
<1>3. CASE Peers
  BY <1>3, PeersIInv
<1>4. CASE UNCHANGED vars
  <2>1. SocketsInv /\ SessionsInv /\ BoundAccepted
    BY Parts
  <2>2. UNCHANGED <<manager, net, events, pending, active, queued, writing, wedged, broken>>
    BY <1>4 DEF vars
  <2>3. SessionsInv' /\ Bound' = Bound
    BY <2>1, <2>2, SameSessions
  <2>4. SocketsInv' /\ BoundAccepted'
    BY <2>1, <2>2, <2>3 DEF SocketsInv, Backlog, DataBound, BoundAccepted, Accepted,
       net, events
  <2>5. QED
    BY <2>3, <2>4, Parts
<1>5. QED
  BY <1>1, <1>2, <1>3, <1>4 DEF Next

\* The invariant always holds.
THEOREM InvariantHolds == Spec => []IInv
<1>1. Init => IInv
  BY InitIInv
<1>2. IInv /\ [Next]_vars => IInv'
  BY StepIInv
<1>3. QED
  BY <1>1, <1>2, PTL DEF Spec

\* The types: no connection is accepted that nobody made, and the data that
\* waits in a socket was sent.
THEOREM TypeCorrect == Spec => []TypeOK
<1>1. IInv => TypeOK
  BY DEF IInv
<1>2. QED
  BY <1>1, InvariantHolds, PTL

\* However many connections come, whatever event_new returns and wherever the
\* code breaks, on_accept loses no session and hands none out twice.
THEOREM OnePlaceHolds == Spec => []OnePlace
<1>1. IInv => OnePlace
  BY DEF IInv
<1>2. QED
  BY <1>1, InvariantHolds, PTL

\* ... and every session on the map serves the one socket it knows, through
\* which push_to_writequeue finds the events.
THEOREM OneSocketHolds == Spec => []OneSocket
<1>1. IInv => OneSocket
  BY DEF IInv
<1>2. QED
  BY <1>1, InvariantHolds, PTL
=============================================================================
