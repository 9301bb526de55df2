----------------------------- MODULE NetSession -----------------------------
(***************************************************************************)
(* Both directions of one session: ReadPath and WritePath in the two       *)
(* threads they really share.  The net thread runs one callback at a time, *)
(* on_read before on_write when select reports both (main.c), and select   *)
(* returns for a readable socket as for any other event.  The logic thread *)
(* fetches messages and sends messages, one call after the other.          *)
(***************************************************************************)
EXTENDS ReadPath, WritePath

session_vars == <<vars, write_vars>>

\* Where the loop may call on_read.
Faulty_SelectReturned == loop # "poll"
SelectReturned == loop = "select"

(***************************************************************************)
(* The net thread.  When on_read returns, so does this turn of the loop,   *)
(* unless the running select was asked about writing too.                  *)
(***************************************************************************)
EnterOnRead ==
  /\ SelectReturned
  /\ \E len \in 1 .. Size : Recv(len)
  /\ UNCHANGED write_vars

TurnOfOnRead == (TakeMessage \/ Misread) /\ UNCHANGED write_vars

ReturnFromOnRead == LeaveLoop /\ (Writable \/ OtherEvent)

Select == StartSelect /\ UNCHANGED vars

EnterOnWrite == pc = "idle" /\ Writable /\ UNCHANGED vars

Faulty_TurnOfOnWrite == (FetchMessage \/ Send) /\ UNCHANGED vars
TurnOfOnWrite == (FetchMessage \/ FetchNothing \/ Send) /\ UNCHANGED vars

OtherSocket == pc = "idle" /\ OtherEvent /\ UNCHANGED vars

NetThread ==
  \/ Select
  \/ EnterOnRead
  \/ TurnOfOnRead
  \/ ReturnFromOnRead
  \/ EnterOnWrite
  \/ TurnOfOnWrite

(***************************************************************************)
(* The logic thread.                                                       *)
(***************************************************************************)
FetchFromRead == logic = "idle" /\ Fetch /\ UNCHANGED write_vars

SendCall == LogicCall /\ UNCHANGED vars

BeginSendCall == \E m \in Messages : BeginSend(m) /\ UNCHANGED vars

PeerSends == \E len \in Lengths : SendFrame(len) /\ UNCHANGED write_vars

SessionInit == Init /\ WriteInit

Running == Followed /\ ~crashed

SessionNext ==
  /\ Running
  /\ \/ NetThread
     \/ OtherSocket
     \/ Crash /\ UNCHANGED vars
     \/ FetchFromRead
     \/ SendCall
     \/ BeginSendCall
     \/ PeerSends

SessionSpec == SessionInit /\ [][SessionNext]_session_vars

\* Both threads run, and other sockets keep the loop turning.  TCP delivers: a
\* loop that keeps asking select will be told of bytes under way.
FairSessionSpec ==
  /\ SessionSpec
  /\ WF_session_vars(Running /\ NetThread)
  /\ SF_session_vars(Running /\ EnterOnRead)
  /\ WF_session_vars(Running /\ OtherSocket)
  /\ WF_session_vars(Running /\ SendCall)
-----------------------------------------------------------------------------
(***************************************************************************)
(* Properties                                                              *)
(***************************************************************************)
\* on_read is under way only where select has returned: never while on_write
\* is, although both may be due, and never while select is asked again.
OneCallback == pc = "parse" => loop = "select"

\* The types of both paths, and one callback at a time.
SessionTypeOK == TypeOK /\ WriteTypeOK /\ OneCallback

\* A message waits no longer than the net thread needs, whatever the peer sends.
SendServed == write_queue # <<>> ~> loop = "fetch" \/ ~Running

\* Once the logic thread stops sending, what the peer has sent is read.  While
\* it sends, on_write's loop may go on for ever: the loop ends where it finds the
\* queue empty, and every message it takes makes room for another.  A ring filled
\* in front of a length that exceeds it (StoppedByLength) takes nothing any more.
ReadsServed ==
  <>[](logic = "idle") => (wire # <<>> ~> pc = "parse" \/ available = 0 \/ ~Running)
=============================================================================
