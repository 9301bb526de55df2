---------------------------- MODULE SessionQueue ----------------------------
(***************************************************************************)
(* The two queues between a session and the logic thread, __read_queue and *)
(* __write_queue (src/src/leo_net_session.h), as the two paths see them:   *)
(* LockFreeQueue shows that a push and a pop each happen at one instant.   *)
(***************************************************************************)
EXTENDS Integers, Sequences

CONSTANT QueueLen   \* MAX_QUEUE_LEN

ASSUME SessionQueueAssumption == QueueLen \in Nat \ {0}

\* A full queue refuses the message.
push_back(queue, m) == IF Len(queue) < QueueLen THEN Append(queue, m) ELSE queue
=============================================================================
