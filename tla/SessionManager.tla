--------------------------- MODULE SessionManager ---------------------------
(***************************************************************************)
(* session_manager (src/src/leo_net_session.h, leo_net_session.cpp): a     *)
(* pool of sessions allocated once, and the map from a socket to the       *)
(* session that serves it.                                                 *)
(*                                                                         *)
(* The class has no idea of who owns a session: its calls take any socket  *)
(* and any pointer, and check neither where a session is nor whose it is.  *)
(* They are the operators below, on the pool and on the map.               *)
(*                                                                         *)
(* Between a claim and a reclaim the pointer is in a caller's hands, which *)
(* is `held'.  Of the callers the program has only on_accept, which claims *)
(* and inserts (NetServer); nothing removes or reclaims.  The actions here *)
(* are callers as the class needs them, and their guards are the rule they *)
(* keep, not the class's: only the holder of a session inserts or reclaims *)
(* it.  ManagerSpec is that rule.  A caller that breaks it has one session *)
(* serve two sockets: reclaim_one_session would not notice.                *)
(***************************************************************************)
EXTENDS Integers, Sequences, FiniteSets

CONSTANTS
  Sessions,   \* the addresses of __malloc_session[0 .. MAX_SESSION - 1]
  Sockets,    \* socket descriptors, all positive
  NoSession   \* NULL

ASSUME SessionAssumption ==
  /\ IsFiniteSet(Sessions)
  /\ NoSession \notin Sessions

VARIABLES
  vct_sessions,   \* __vct_sessions
  map_sessions,   \* __map_sessions
  socket_of,      \* each session's __socket (0 in the constructor)
  held            \* the sessions a caller has claimed or taken off the map

manager == <<vct_sessions, map_sessions, socket_of, held>>

Elements(seq) == {seq[i] : i \in DOMAIN seq}
Mapped == {map_sessions[fd] : fd \in DOMAIN map_sessions}

(***************************************************************************)
(* The operations as functions of the pool and the map.                    *)
(***************************************************************************)
claim_one_session(pool) == IF pool = <<>> THEN NoSession ELSE Head(pool)

WithoutClaimed(pool) == IF pool = <<>> THEN pool ELSE Tail(pool)

\* Wherever the session is now.
reclaim_one_session(pool, session) == Append(pool, session)

get_one_session(map, fd) == IF fd \in DOMAIN map THEN map[fd] ELSE NoSession

\* An existing entry is kept and the call returns false.
insert_session(map, fd, session) ==
  [f \in DOMAIN map \union {fd} |-> IF f \in DOMAIN map THEN map[f] ELSE session]

remove_session(map, fd) == [f \in DOMAIN map \ {fd} |-> map[f]]

(***************************************************************************)
(* The callers that keep the rule.                                         *)
(***************************************************************************)
Claim ==
  LET session == claim_one_session(vct_sessions)
  IN /\ session # NoSession
     /\ vct_sessions' = WithoutClaimed(vct_sessions)
     /\ held' = held \union {session}
     /\ UNCHANGED <<map_sessions, socket_of>>

\* set_socket(fd) followed by insert_session(fd, session), as in on_accept.
\* The session stays with its caller when the socket is already mapped.
Insert(fd, session) ==
  /\ session \in held
  /\ socket_of' = [socket_of EXCEPT ![session] = fd]
  /\ map_sessions' = insert_session(map_sessions, fd, session)
  /\ held' = IF fd \in DOMAIN map_sessions THEN held ELSE held \ {session}
  /\ UNCHANGED vct_sessions

\* The caller looked the session up before and keeps it.
Remove(fd) ==
  /\ fd \in DOMAIN map_sessions
  /\ map_sessions' = remove_session(map_sessions, fd)
  /\ held' = held \union {get_one_session(map_sessions, fd)}
  /\ UNCHANGED <<vct_sessions, socket_of>>

Reclaim(session) ==
  /\ session \in held
  /\ vct_sessions' = reclaim_one_session(vct_sessions, session)
  /\ held' = held \ {session}
  /\ UNCHANGED <<map_sessions, socket_of>>

\* init_sessions() has filled the pool, in the order of the addresses.
ManagerInit ==
  /\ vct_sessions \in [1 .. Cardinality(Sessions) -> Sessions]
  /\ Elements(vct_sessions) = Sessions
  /\ map_sessions = [fd \in {} |-> NoSession]
  /\ socket_of = [session \in Sessions |-> 0]
  /\ held = {}

ManagerNext ==
  \/ Claim
  \/ \E fd \in Sockets, session \in Sessions : Insert(fd, session)
  \/ \E fd \in Sockets : Remove(fd)
  \/ \E session \in Sessions : Reclaim(session)

ManagerSpec == ManagerInit /\ [][ManagerNext]_manager
-----------------------------------------------------------------------------
(***************************************************************************)
(* Properties                                                              *)
(***************************************************************************)
ManagerTypeOK ==
  /\ vct_sessions \in Seq(Sessions)
  /\ DOMAIN map_sessions \subseteq Sockets
  /\ map_sessions \in [DOMAIN map_sessions -> Sessions]
  /\ socket_of \in [Sessions -> Sockets \union {0}]
  /\ held \subseteq Sessions

\* A session is in exactly one place: once in the pool, or with a caller, or
\* on the map.  None is lost by a call and none is handed out twice.
OnePlace ==
  /\ Elements(vct_sessions) \union held \union Mapped = Sessions
  /\ Elements(vct_sessions) \intersect (held \union Mapped) = {}
  /\ held \intersect Mapped = {}
  /\ \A i, j \in DOMAIN vct_sessions : vct_sessions[i] = vct_sessions[j] => i = j

\* No two sockets are served by the same session, which would interleave
\* their bytes and advance one sequence number from two connections; and the
\* session on the map knows its socket, through which it finds its events.
OneSocket ==
  \A fd \in DOMAIN map_sessions : socket_of[map_sessions[fd]] = fd
=============================================================================
