------------------------------ MODULE Connect ------------------------------
(***************************************************************************)
(* asioext::connect and asioext::async_connect (connect.hpp,               *)
(* impl/connect.cpp): a name is resolved and the socket is connected to    *)
(* the first of the resolved endpoints that accepts.  The caller has one   *)
(* operation under way at a time, and may close the socket at any moment.  *)
(* Resolver, socket and asio::async_connect are external.                  *)
(***************************************************************************)
EXTENDS Naturals, Sequences

CONSTANTS Endpoints, NoEndpoint

ASSUME NoEndpointAssumption == NoEndpoint \notin Endpoints

VARIABLES
  sock,     \* "closed", "open" (no connection yet) or "connected"
  peer,     \* the endpoint the socket is connected to
  job,      \* the connect_op under way: where it is, and what is left to try
  reported  \* what the last connect completed with

connectVars == <<sock, peer, job, reported>>

Results == {<<>>} \cup {<<e>> : e \in Endpoints}
           \cup {r \in Endpoints \X Endpoints : r[1] # r[2]}

NoJob == [pc |-> "idle", todo |-> <<>>]

ConnectInit ==
  /\ sock = "closed" /\ peer = NoEndpoint /\ job = NoJob
  /\ reported = [ec |-> "never", endpoint |-> NoEndpoint]

complete_connect(ec, e) ==
  /\ job' = NoJob
  /\ reported' = [ec |-> ec, endpoint |-> e]

\* Mutant of FirstAccepting: an endpoint that refused may be taken for the one.
FirstRefusing(outcomes) ==
  CHOOSE i \in 1 .. Len(outcomes) : \A j \in 1 .. i - 1 : ~outcomes[j]

\* The endpoint at which the loop over the results returns.
FirstAccepting(outcomes) ==
  CHOOSE i \in 1 .. Len(outcomes) :
    outcomes[i] /\ \A j \in 1 .. i - 1 : ~outcomes[j]

\* connect(): resolve, then close() and connect() for each entry until one
\* accepts; outcomes[i] says whether the i-th would.
connect(results, outcomes) ==
  /\ job.pc = "idle"
  /\ UNCHANGED job
  /\ \/ /\ reported' = [ec |-> "unresolved", endpoint |-> NoEndpoint]
        /\ UNCHANGED <<sock, peer>>
     \/ /\ results = <<>>
        /\ reported' = [ec |-> "host_not_found", endpoint |-> NoEndpoint]
        /\ UNCHANGED <<sock, peer>>
     \/ /\ results # <<>> /\ TRUE \notin {outcomes[i] : i \in 1 .. Len(results)}
        /\ reported' = [ec |-> "refused", endpoint |-> NoEndpoint]
        /\ sock' = "open" /\ peer' = NoEndpoint
     \/ /\ TRUE \in {outcomes[i] : i \in 1 .. Len(results)}
        /\ LET i == FirstAccepting(outcomes) IN
             /\ reported' = [ec |-> "none", endpoint |-> results[i]]
             /\ sock' = IF outcomes[i] THEN "connected" ELSE "open"
             /\ peer' = IF outcomes[i] THEN results[i] ELSE NoEndpoint

\* async_connect(): the first call of connect_op starts the resolver.
async_connect ==
  /\ job.pc = "idle"
  /\ job' = [NoJob EXCEPT !.pc = "resolving"]
  /\ UNCHANGED <<sock, peer, reported>>

\* connect_op::operator()(ec, results)
resolve_fails ==
  /\ job.pc = "resolving"
  /\ complete_connect("unresolved", NoEndpoint)
  /\ UNCHANGED <<sock, peer>>

resolved(results) ==
  /\ job.pc = "resolving"
  /\ job' = [pc |-> "connecting", todo |-> results]
  /\ IF results = <<>>
       THEN UNCHANGED <<sock, peer>>
       ELSE sock' = "open" /\ peer' = NoEndpoint
  /\ UNCHANGED reported

\* asio::async_connect on the results, one endpoint after the other, and then
\* connect_op::operator()(ec, ep).
accepted ==
  /\ job.pc = "connecting" /\ job.todo # <<>> /\ sock = "open"
  /\ sock' = "connected" /\ peer' = Head(job.todo)
  /\ complete_connect("none", Head(job.todo))

refused ==
  /\ job.pc = "connecting" /\ job.todo # <<>> /\ sock = "open"
  /\ IF Len(job.todo) = 1
       THEN complete_connect("refused", NoEndpoint)
       ELSE job' = [job EXCEPT !.todo = Tail(@)] /\ UNCHANGED reported
  /\ UNCHANGED <<sock, peer>>

exhausted ==
  /\ job.pc = "connecting"
  /\ job.todo = <<>> \/ sock = "closed"
  /\ complete_connect(IF job.todo = <<>> THEN "not_found" ELSE "aborted", NoEndpoint)
  /\ UNCHANGED <<sock, peer>>

\* The application closes the socket.
close ==
  /\ sock # "closed"
  /\ sock' = "closed" /\ peer' = NoEndpoint
  /\ UNCHANGED <<job, reported>>

ConnectStep ==
  \/ resolve_fails \/ accepted \/ refused \/ exhausted
  \/ \E r \in Results : resolved(r)

ConnectNext ==
  \/ \E r \in Results : \E o \in [1 .. Len(r) -> BOOLEAN] : connect(r, o)
  \/ async_connect \/ ConnectStep \/ close

-----------------------------------------------------------------------------
\* A reported success names the endpoint the socket is connected to, for as
\* long as the socket is not closed or connected anew; a connect that has tried
\* the endpoints and failed leaves no connection behind.
ConnectReports ==
  job.pc = "idle" /\ sock # "closed" =>
    /\ reported.ec = "none" => sock = "connected" /\ peer = reported.endpoint
    /\ reported.ec \in {"refused", "aborted"} => sock = "open"

=============================================================================
