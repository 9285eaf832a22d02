--------------------------- MODULE CancelRequests ---------------------------
(***************************************************************************)
(* ThreadPoolFileService with one history variable: the operations that    *)
(* were outstanding on a file when cancel() was called on it.              *)
(***************************************************************************)
EXTENDS ThreadPoolFileService

VARIABLE requested   \* requested[o]: where o was when cancel() was called

RequestInit == Init /\ requested = [o \in Ops |-> "no"]

RequestNext ==
  /\ Next
  /\ requested' = [o \in Ops |->
       IF /\ requested[o] = "no"
          /\ opst[o] \in {"queued", "started"}
          /\ \E f \in Files : assoc[o] = f /\ cancel(f)
       THEN opst[o] ELSE requested[o]]

RequestSpec == RequestInit /\ [][RequestNext]_<<vars, requested>>

\* thread_pool_file_service::cancel documents "cancel all operations associated
\* with the handle": none that was queued starts afterwards, also if the handle
\* was received by move_assign.
CancelStopsQueued ==
  \A o \in Ops : requested[o] = "queued" => opst[o] # "started"

=============================================================================
