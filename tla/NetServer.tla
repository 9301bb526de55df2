------------------------------ MODULE NetServer ------------------------------
(***************************************************************************)
(* The net thread of the server: net_event_accept and the event callbacks  *)
(* of src/src/leo_net_service.c, on_accept, on_read and on_write of        *)
(* src/src/main.c, and the session pool they share, driven by libevent's   *)
(* loop and by connections that come and go.                               *)
(*                                                                         *)
(* The program closes no socket and gives no session back, so descriptors  *)
(* are never reused and a session once bound stays bound.  What on_read    *)
(* and on_write do with the bytes is the business of ReadPath and          *)
(* WritePath; here a recv takes some of what has arrived, or nothing any   *)
(* more where ReadPath stops in front of a length that exceeds its ring,   *)
(* and on_write takes messages for as long as it finds one.                *)
(*                                                                         *)
(* The tables of session_manager are those of SessionManager, and          *)
(* on_accept performs its operations in one step: between two callbacks    *)
(* no session is in a caller's hands, so `held' stays empty.               *)
(*                                                                         *)
(* Libevent is external: one iteration of its loop asks select for the     *)
(* events that are ready and then runs the callback of each of them, one   *)
(* after the other: while on_write loops no other callback runs.           *)
(*                                                                         *)
(* Where the code uses memory it must not use (an event that is null or    *)
(* freed, the uninitialised pointer of on_write, the memory behind a ring) *)
(* it is `broken', and what happens after that is not followed.            *)
(***************************************************************************)
EXTENDS SessionManager

CONSTANTS
  MaxData,    \* bound: the pieces of data the peers send
  QueueLen    \* MAX_QUEUE_LEN

\* Sockets is a bound too: the descriptors accept can return.
ASSUME ServerAssumption ==
  /\ IsFiniteSet(Sockets)
  /\ 0 \notin Sockets
  /\ MaxData \in Nat
  /\ QueueLen \in Nat \ {0}

VARIABLES
  coming,         \* connections the peers will still make
  pending,        \* connections in the backlog of listen_fd
  peer,           \* each descriptor's connection: "none", "open", "closed"
  unsent,         \* pieces of data the peers will still send
  arrived,        \* pieces of data that wait in the socket
  ev_listen,      \* the event main made for listen_fd: "new", "added"
  ev_read,        \* net_events[fd].ev_read: "null", "new", "added", "freed"
  ev_write,       \* net_events[fd].ev_write
  active,         \* events the current loop iteration has still to run
  queued,         \* how many messages each session's __write_queue holds
  writing,        \* the socket whose on_write is running, 0 when none is
  wedged,         \* sockets whose read buffer is full in front of a length
                  \* that exceeds it
  broken          \* the code has used memory it must not use

net == <<coming, peer, unsent, arrived>>
events == <<ev_listen, ev_read, ev_write>>
vars == <<pending, net, events, manager, active, queued, writing, wedged, broken>>

Bound == DOMAIN map_sessions
Accepted == {fd \in Sockets : peer[fd] # "none"}

(***************************************************************************)
(* The loop.  select is level-triggered: data, or the end of the stream,   *)
(* that nobody takes is ready again in the next iteration.  A connected    *)
(* socket is always writable here.                                         *)
(***************************************************************************)
AcceptEvent == <<"accept", 0>>
Ready ==
  {e \in {AcceptEvent} : ev_listen = "added" /\ pending > 0}
  \union {<<"read", fd>> : fd \in {f \in Accepted :
            ev_read[f] = "added" /\ (arrived[f] > 0 \/ peer[f] = "closed")}}
  \union {<<"write", fd>> : fd \in {f \in Accepted : ev_write[f] = "added"}}

Poll ==
  /\ writing = 0
  /\ active = {}
  /\ Ready # {}
  /\ active' = Ready
  /\ UNCHANGED <<pending, net, events, manager, queued, writing, wedged, broken>>

Run(event) ==
  /\ writing = 0
  /\ event \in active
  /\ active' = active \ {event}

(***************************************************************************)
(* net_event_accept and on_accept.                                         *)
(***************************************************************************)
\* EV_PERSIST: running the callback leaves the event added.
Faulty_AfterCallback(state) == "new"
AfterCallback(state) == state

\* accept returns an error: the peer has given up waiting.
AcceptFails ==
  /\ Run(AcceptEvent)
  /\ pending' = pending - 1
  /\ ev_listen' = AfterCallback(ev_listen)
  /\ UNCHANGED <<net, ev_read, ev_write, manager, queued, writing, wedged, broken>>

Faulty_on_accept(fd) ==
  LET session == claim_one_session(vct_sessions)
  IN /\ vct_sessions' = WithoutClaimed(vct_sessions)
     /\ IF session = NoSession
        THEN UNCHANGED <<map_sessions, socket_of>>
        ELSE /\ map_sessions' = insert_session(map_sessions, fd, session)
             /\ UNCHANGED socket_of
Faulty_on_accept3(fd) ==
  LET session == claim_one_session(vct_sessions)
  IN /\ vct_sessions' = WithoutClaimed(vct_sessions)
     /\ socket_of' = [socket_of EXCEPT ![session] = fd]
     /\ map_sessions' = insert_session(map_sessions, fd, session)
Faulty_on_accept2(fd) ==
  LET session == claim_one_session(vct_sessions)
  IN /\ UNCHANGED vct_sessions
     /\ IF session = NoSession
        THEN UNCHANGED <<map_sessions, socket_of>>
        ELSE /\ socket_of' = [socket_of EXCEPT ![session] = fd]
             /\ map_sessions' = insert_session(map_sessions, fd, session)
on_accept(fd) ==
  LET session == claim_one_session(vct_sessions)
  IN /\ vct_sessions' = WithoutClaimed(vct_sessions)
     /\ IF session = NoSession
        THEN UNCHANGED <<map_sessions, socket_of>>
        ELSE /\ socket_of' = [socket_of EXCEPT ![session] = fd]
             /\ map_sessions' = insert_session(map_sessions, fd, session)

\* `r' and `w': whether event_new succeeded for the read and the write event.
\* When one failed the other is freed, but the pointer stays; event_add is
\* called on ev_read in any case, and on_accept binds a session.
Accept(fd, r, w) ==
  /\ Run(AcceptEvent)
  /\ peer[fd] = "none"
  /\ pending' = pending - 1
  /\ peer' = [peer EXCEPT ![fd] = "open"]
  /\ ev_read' = [ev_read EXCEPT ![fd] =
       IF r /\ w THEN "added" ELSE IF r THEN "freed" ELSE "null"]
  /\ ev_write' = [ev_write EXCEPT ![fd] =
       IF r /\ w THEN "new" ELSE IF w THEN "freed" ELSE "null"]
  /\ ev_listen' = AfterCallback(ev_listen)
  /\ broken' = ~(r /\ w)
  /\ on_accept(fd)
  /\ UNCHANGED <<coming, unsent, arrived, held, queued, writing, wedged>>

(***************************************************************************)
(* net_event_read and on_read: recv for a socket that has a session, whose *)
(* end-of-stream and error results change nothing; nothing for one that    *)
(* has none.  With the bytes may come a length that exceeds the ring: once *)
(* what follows has filled it, recv is given no room any more and returns  *)
(* 0, whatever has arrived.  ReadPath shows when this and the use of the   *)
(* memory behind the ring happen.                                          *)
(***************************************************************************)
\* recv with some room, and with data in the socket.
Faulty_Receives(fd) == peer[fd] = "open" /\ fd \in Bound \ wedged /\ arrived[fd] > 0
Receives(fd) == fd \in Bound \ wedged /\ arrived[fd] > 0

Read(fd) ==
  /\ Run(<<"read", fd>>)
  /\ IF Receives(fd)
     THEN /\ \E n \in 1 .. arrived[fd] : arrived' = [arrived EXCEPT ![fd] = @ - n]
          /\ wedged' \in {wedged, wedged \union {fd}}
          /\ broken' \in BOOLEAN
     ELSE UNCHANGED <<arrived, wedged, broken>>
  /\ ev_read' = [ev_read EXCEPT ![fd] = AfterCallback(@)]
  /\ UNCHANGED <<coming, pending, peer, unsent, ev_listen, ev_write, manager,
                 queued, writing>>

(***************************************************************************)
(* net_event_write and on_write: it takes messages until it finds none.    *)
(* Each is lost, and the pointer used in its place is any: the message is  *)
(* refused, or memory is used that must not be.  So the write buffer stays *)
(* empty, send is given nothing to send, and the event is never deleted.   *)
(***************************************************************************)
BeginWrite(fd) ==
  /\ Run(<<"write", fd>>)
  /\ writing' = IF fd \in Bound THEN fd ELSE writing
  /\ ev_write' = [ev_write EXCEPT ![fd] = AfterCallback(@)]
  /\ UNCHANGED <<pending, net, ev_listen, ev_read, manager, queued, wedged, broken>>

\* fetch_from_writequeue, on the session of the socket.
Faulty_Fetched(session) == queued
Fetched(session) == [queued EXCEPT ![session] = @ - 1]

FetchMessage ==
  /\ writing # 0
  /\ LET session == get_one_session(map_sessions, writing)
     IN /\ queued[session] > 0
        /\ queued' = Fetched(session)
  /\ broken' \in BOOLEAN
  /\ UNCHANGED <<pending, net, events, manager, active, writing, wedged>>

EndWrite ==
  /\ writing # 0
  /\ queued[get_one_session(map_sessions, writing)] = 0
  /\ writing' = 0
  /\ UNCHANGED <<pending, net, events, manager, active, queued, wedged, broken>>

NetThread ==
  /\ ~broken
  /\ \/ Poll
     \/ AcceptFails
     \/ \E fd \in Sockets, r, w \in BOOLEAN : Accept(fd, r, w)
     \/ \E fd \in Sockets : Read(fd) \/ BeginWrite(fd)
     \/ FetchMessage
     \/ EndWrite

(***************************************************************************)
(* The logic thread: net_session::push_to_writequeue on a session that is  *)
(* on the map.  It adds the write event, since the write buffer is always  *)
(* empty, and pushes; a full queue refuses the message.  The steps of the  *)
(* call are those of WritePath.                                            *)
(***************************************************************************)
add_write_event(session) ==
  LET fd == socket_of[session]
  IN ev_write' = IF ev_write[fd] = "null" THEN ev_write
                 ELSE [ev_write EXCEPT ![fd] = "added"]

push_to_writequeue(session) ==
  /\ add_write_event(session)
  /\ queued' = IF queued[session] < QueueLen
               THEN [queued EXCEPT ![session] = @ + 1] ELSE queued
  /\ UNCHANGED <<pending, net, ev_listen, ev_read, manager, active, writing, wedged, broken>>

LogicThread ==
  /\ ~broken
  /\ \E session \in Mapped : push_to_writequeue(session)

(***************************************************************************)
(* The peers.                                                              *)
(***************************************************************************)
Connect ==
  /\ coming > 0
  /\ coming' = coming - 1
  /\ pending' = pending + 1
  /\ UNCHANGED <<peer, unsent, arrived, events, manager, active,
                 queued, writing, wedged, broken>>

Send(fd) ==
  /\ peer[fd] = "open"
  /\ unsent > 0
  /\ unsent' = unsent - 1
  /\ arrived' = [arrived EXCEPT ![fd] = @ + 1]
  /\ UNCHANGED <<coming, pending, peer, events, manager, active,
                 queued, writing, wedged, broken>>

Close(fd) ==
  /\ peer[fd] = "open"
  /\ peer' = [peer EXCEPT ![fd] = "closed"]
  /\ UNCHANGED <<coming, pending, unsent, arrived, events, manager, active,
                 queued, writing, wedged, broken>>

Peers == ~broken /\ (Connect \/ \E fd \in Sockets : Send(fd) \/ Close(fd))

\* main up to event_base_dispatch.
Init ==
  /\ coming = Cardinality(Sockets)
  /\ pending = 0
  /\ peer = [fd \in Sockets |-> "none"]
  /\ unsent = MaxData
  /\ arrived = [fd \in Sockets |-> 0]
  /\ ev_listen = "added"
  /\ ev_read = [fd \in Sockets |-> "null"]
  /\ ev_write = [fd \in Sockets |-> "null"]
  /\ ManagerInit
  /\ active = {}
  /\ queued = [session \in Sessions |-> 0]
  /\ writing = 0
  /\ wedged = {}
  /\ broken = FALSE

Next == NetThread \/ LogicThread \/ Peers

Spec == Init /\ [][Next]_vars

\* The net thread runs, and nothing obliges it to break; nobody owes the server
\* a connection or a byte.
Turn == NetThread /\ ~broken'

FairSpec == Spec /\ WF_vars(Turn)
-----------------------------------------------------------------------------
(***************************************************************************)
(* Properties                                                              *)
(***************************************************************************)
EventState == {"null", "new", "added", "freed"}

TypeOK ==
  /\ coming \in 0 .. Cardinality(Sockets)
  /\ pending \in 0 .. Cardinality(Sockets)
  /\ peer \in [Sockets -> {"none", "open", "closed"}]
  /\ unsent \in 0 .. MaxData
  /\ arrived \in [Sockets -> 0 .. MaxData]
  /\ ev_listen \in EventState
  /\ ev_read \in [Sockets -> EventState]
  /\ ev_write \in [Sockets -> EventState]
  /\ ManagerTypeOK
  /\ active \subseteq {AcceptEvent} \union ({"read", "write"} \X Sockets)
  /\ queued \in [Sessions -> 0 .. QueueLen]
  /\ writing \in Bound \union {0}
  /\ wedged \subseteq Sockets
  /\ broken \in BOOLEAN

\* event_add is only given events that event_new has made, as event.h asks of
\* its callers.
AddsInitialised == \A fd \in Accepted : ev_read[fd] \notin {"null", "freed"}

\* The loop gets out of on_write again and again.  The code does not see to it:
\* while the logic thread sends on a session, on_write may find one message
\* after the other.
LoopTurns == []<>(writing = 0)

\* When the logic thread stops sending, on_write comes to an end: whatever was
\* queued, it stops at the first empty queue.
OnWriteReturns == <>[][~LogicThread]_vars => LoopTurns \/ <>broken

\* Whatever sockets spin in the loop (closed ones, those turned away, and those
\* nothing is received from any more), a connection that waits is accepted if
\* the loop turns.
ConnectionsAccepted == LoopTurns => (pending > 0 ~> pending = 0 \/ broken)

\* ... and the data of a socket that has a session is received, unless a length
\* that exceeds its ring has stopped it.
DataReceived ==
  LoopTurns =>
    \A fd \in Sockets :
      fd \in Bound /\ arrived[fd] > 0 ~> arrived[fd] = 0 \/ fd \in wedged \/ broken

=============================================================================
