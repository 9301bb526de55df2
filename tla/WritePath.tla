------------------------------ MODULE WritePath ------------------------------
(***************************************************************************)
(* How a message leaves through a session: the logic thread's              *)
(* push_to_writequeue (src/src/leo_net_session.h) against the net thread's *)
(* on_write (src/src/main.c), with the libevent loop between them.         *)
(*                                                                         *)
(* push_to_writequeue tests the write buffer, adds the write event, and    *)
(* pushes, in this order and without a lock.  on_write drains the queue    *)
(* into the write buffer, sends, and deletes the event when everything has *)
(* been sent.  The queue is the one LockFreeQueue implements: a push and a *)
(* pop each happen at one instant.                                         *)
(*                                                                         *)
(* fetch_from_writequeue takes the message pointer by value, so on_write   *)
(* goes on with the uninitialised pointer `message': the message popped is *)
(* lost, and the size read through the pointer is any size, unless the     *)
(* process ends there (/RTC in the Debug build, an access violation in the *)
(* Release build).                                                         *)
(***************************************************************************)
EXTENDS SessionQueue

CONSTANTS
  Messages,   \* what the logic thread sends
  Nothing,    \* no message
  Sizes,      \* the values get_real_size() can return
  BufSize     \* MAX_BUFFER_LEN

ASSUME WriteAssumption ==
  /\ Sizes \subseteq Nat
  /\ BufSize \in Nat \ {0}
  /\ Nothing \notin Messages

VARIABLES
  write_queue,   \* __write_queue, oldest first
  write_used,    \* __write_buffer.used()
  ev_added,      \* whether ev_write is among the events of the loop
  logic,         \* the logic thread: "idle", "test", "add", "push"
  msg,           \* nm of the running push_to_writequeue
  loop,          \* the net thread: "poll", "select", "fetch", "send"
  watched,       \* whether the running select was asked about this socket
  crashed        \* the process has ended

write_vars == <<write_queue, write_used, ev_added, logic, msg, loop, watched, crashed>>

HeaderLen == 6

(***************************************************************************)
(* The logic thread: push_to_writequeue.                                   *)
(***************************************************************************)
BeginSend(m) ==
  /\ logic = "idle"
  /\ logic' = "test"
  /\ msg' = m
  /\ UNCHANGED <<write_queue, write_used, ev_added, loop, watched, crashed>>

\* __write_buffer.empty(), read while on_write may be moving its indices.
Faulty_MustAdd == write_used # 0
MustAdd == write_used = 0

TestBuffer ==
  /\ logic = "test"
  /\ logic' = IF MustAdd THEN "add" ELSE "push"
  /\ UNCHANGED <<write_queue, write_used, ev_added, msg, loop, watched, crashed>>

add_write_event ==
  /\ logic = "add"
  /\ logic' = "push"
  /\ ev_added' = TRUE
  /\ UNCHANGED <<write_queue, write_used, msg, loop, watched, crashed>>

\* A full queue refuses the message; push_to_writequeue returns false.
PushMessage ==
  /\ logic = "push"
  /\ logic' = "idle"
  /\ write_queue' = push_back(write_queue, msg)
  /\ UNCHANGED <<write_used, ev_added, msg, loop, watched, crashed>>

LogicCall == TestBuffer \/ add_write_event \/ PushMessage
Logic == LogicCall \/ \E m \in Messages : BeginSend(m)

(***************************************************************************)
(* The loop (libevent, external): select is given the events added so far, *)
(* and returns when the socket is watched (it is always writable, since    *)
(* nothing is ever sent) or any other event of the server is ready.  An    *)
(* event_add in another thread would make it return if libevent had been   *)
(* told of the threads (evthread_use_windows_threads); main never does.    *)
(***************************************************************************)
StartSelect ==
  /\ loop = "poll"
  /\ loop' = "select"
  /\ watched' = ev_added
  /\ UNCHANGED <<write_queue, write_used, ev_added, logic, msg, crashed>>

Writable ==
  /\ loop = "select"
  /\ watched
  /\ loop' = "fetch"
  /\ UNCHANGED <<write_queue, write_used, ev_added, logic, msg, watched, crashed>>

OtherEvent ==
  /\ loop = "select"
  /\ ~watched
  /\ loop' = "poll"
  /\ UNCHANGED <<write_queue, write_used, ev_added, logic, msg, watched, crashed>>

(***************************************************************************)
(* on_write.                                                               *)
(***************************************************************************)
\* The bytes transform_message_to_buffer writes for a message of that size
\* into a buffer of buf_len bytes.
transform_message_to_buffer(size, buf_len) ==
  IF HeaderLen + size > buf_len THEN 0 ELSE HeaderLen + size

\* The length on_write passes as that of the buffer: the message's own size.
BufLen(size) == size

FetchMessage ==
  /\ loop = "fetch"
  /\ write_queue # <<>>
  /\ write_queue' = Tail(write_queue)
  /\ \E size \in Sizes :
       LET len == transform_message_to_buffer(size, BufLen(size))
       IN write_used' = IF len <= BufSize - write_used THEN write_used + len ELSE write_used
  /\ UNCHANGED <<ev_added, logic, msg, loop, watched, crashed>>

FetchNothing ==
  /\ loop = "fetch"
  /\ write_queue = <<>>
  /\ loop' = "send"
  /\ UNCHANGED <<write_queue, write_used, ev_added, logic, msg, watched, crashed>>

\* The uninitialised pointer is used.
Crash ==
  /\ loop = "fetch"
  /\ crashed' = TRUE
  /\ UNCHANGED <<write_queue, write_used, ev_added, logic, msg, loop, watched>>

\* When on_write deletes the event: send took something, and the buffer is
\* empty.  Nothing moves the buffer's read index, before or after the send.
Faulty_Drained(len) == write_used = 0
Drained(len) == len > 0 /\ write_used = 0

\* send takes any number of the buffer's bytes, or fails; del_write_event.
Send ==
  /\ loop = "send"
  /\ loop' = "poll"
  /\ \E len \in -1 .. write_used : ev_added' = (ev_added /\ ~Drained(len))
  /\ UNCHANGED <<write_queue, write_used, logic, msg, watched, crashed>>

Net ==
  \/ StartSelect
  \/ Writable
  \/ FetchMessage
  \/ FetchNothing
  \/ Send

WriteInit ==
  /\ write_queue = <<>>
  /\ write_used = 0
  /\ ev_added = FALSE
  /\ logic = "idle"
  /\ msg = Nothing
  /\ loop = "poll"
  /\ watched = FALSE
  /\ crashed = FALSE

WriteNext == ~crashed /\ (Logic \/ Net \/ OtherEvent \/ Crash)

WriteSpec == WriteInit /\ [][WriteNext]_write_vars

\* Both threads run: a call that has begun ends, and the loop goes on as soon
\* as select returns.  Nobody owes the server another event.
FairWriteSpec == WriteSpec /\ WF_write_vars(~crashed /\ LogicCall) /\ WF_write_vars(~crashed /\ Net)
-----------------------------------------------------------------------------
(***************************************************************************)
(* Properties                                                              *)
(***************************************************************************)
WriteTypeOK ==
  /\ write_queue \in Seq(Messages)
  /\ Len(write_queue) <= QueueLen
  /\ write_used \in 0 .. BufSize
  /\ ev_added \in BOOLEAN
  /\ logic \in {"idle", "test", "add", "push"}
  /\ msg \in Messages \union {Nothing}
  /\ loop \in {"poll", "select", "fetch", "send"}
  /\ watched \in BOOLEAN
  /\ crashed \in BOOLEAN

\* While a message waits the write event is added, although the logic thread
\* adds it before it pushes and on_write may run, find the queue empty, and
\* finish between the two.
NoLostWakeup == write_queue # <<>> => ev_added

\* on_write comes, or the process is gone, for every message that waits.
MessagesServed == write_queue # <<>> ~> loop = "fetch" \/ crashed
=============================================================================
