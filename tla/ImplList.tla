------------------------------ MODULE ImplList ------------------------------
(***************************************************************************)
(* The intrusive doubly linked lists of file implementations               *)
(* (thread_pool_file_service::impl_list_ and implementation_type::next_,   *)
(* prev_).  Each service keeps one list; construct, move_construct,        *)
(* move_assign and destroy edit it under the service's mutex_, so one edit *)
(* is one step.  shutdown_service walks it from impl_list_ along next_.    *)
(***************************************************************************)
CONSTANTS
  Services,   \* the thread_pool_file_service objects
  Impls,      \* the implementation_type objects
  Nil         \* the null pointer

ASSUME NilAssumption == Nil \notin Impls /\ Nil \notin Services

VARIABLES
  impl_list,  \* impl_list[s]: head of the list of service s
  next,       \* next[i], prev[i]: neighbours of implementation i
  prev,
  member      \* member[i]: the service that i is registered with

vars == <<impl_list, next, prev, member>>

TypeOK ==
  /\ impl_list \in [Services -> Impls \cup {Nil}]
  /\ next \in [Impls -> Impls \cup {Nil}]
  /\ prev \in [Impls -> Impls \cup {Nil}]
  /\ member \in [Impls -> Services \cup {Nil}]

-----------------------------------------------------------------------------
\* Mutant of push_front: the new head is not joined to the old one.
push_front_loses_tail(s, i) ==
  /\ next' = next
  /\ prev' = [j \in Impls |-> IF j = i THEN Nil
                           ELSE IF j = impl_list[s] THEN i ELSE prev[j]]
  /\ impl_list' = [impl_list EXCEPT ![s] = i]

\* The pointer assignments of an insertion at the head of s's list.
push_front(s, i) ==
  /\ next' = [next EXCEPT ![i] = impl_list[s]]
  /\ prev' = [j \in Impls |-> IF j = i THEN Nil
                           ELSE IF j = impl_list[s] THEN i ELSE prev[j]]
  /\ impl_list' = [impl_list EXCEPT ![s] = i]

\* Mutant of unlink: the neighbours are joined, the head is not moved on.
unlink_keeps_head(s, i) ==
  /\ impl_list' = impl_list
  /\ next' = [j \in Impls |-> IF j = i THEN Nil
                           ELSE IF j = prev[i] THEN next[i] ELSE next[j]]
  /\ prev' = [j \in Impls |-> IF j = i THEN Nil
                           ELSE IF j = next[i] THEN prev[i] ELSE prev[j]]

\* Mutant of unlink: the successor keeps its pointer back to i.
unlink_keeps_prev(s, i) ==
  /\ impl_list' = [impl_list EXCEPT ![s] = IF @ = i THEN next[i] ELSE @]
  /\ next' = [j \in Impls |-> IF j = i THEN Nil
                           ELSE IF j = prev[i] THEN next[i] ELSE next[j]]
  /\ prev' = [prev EXCEPT ![i] = Nil]

\* The pointer assignments of a removal from s's list.
unlink(s, i) ==
  /\ impl_list' = [impl_list EXCEPT ![s] = IF @ = i THEN next[i] ELSE @]
  /\ next' = [j \in Impls |-> IF j = i THEN Nil
                           ELSE IF j = prev[i] THEN next[i] ELSE next[j]]
  /\ prev' = [j \in Impls |-> IF j = i THEN Nil
                           ELSE IF j = next[i] THEN prev[i] ELSE prev[j]]

-----------------------------------------------------------------------------

Init ==
  /\ impl_list = [s \in Services |-> Nil]
  /\ next = [i \in Impls |-> Nil]
  /\ prev = [i \in Impls |-> Nil]
  /\ member = [i \in Impls |-> Nil]

Insert(s, i) ==
  /\ member[i] = Nil
  /\ push_front(s, i)
  /\ member' = [member EXCEPT ![i] = s]

Remove(s, i) ==
  /\ member[i] = s
  /\ unlink(s, i)
  /\ member' = [member EXCEPT ![i] = Nil]

Next == \E s \in Services, i \in Impls : Insert(s, i) \/ Remove(s, i)

Spec == Init /\ [][Next]_vars

-----------------------------------------------------------------------------
\* The pointers of registered implementations are inverse to each other, stay
\* within one list, and end in Nil at both ends.
WellLinked ==
  /\ \A i \in Impls : member[i] # Nil /\ next[i] # Nil
       => prev[next[i]] = i /\ member[next[i]] = member[i]
  /\ \A i \in Impls : member[i] # Nil /\ prev[i] # Nil
       => next[prev[i]] = i /\ member[prev[i]] = member[i]
  /\ \A i \in Impls : member[i] # Nil /\ prev[i] = Nil
       => impl_list[member[i]] = i
  /\ \A s \in Services : impl_list[s] # Nil
       => member[impl_list[s]] = s /\ prev[impl_list[s]] = Nil

\* R holds everything a walk of s's list from its head visits.
ClosedUnderNext(s, R) ==
  /\ impl_list[s] # Nil => impl_list[s] \in R
  /\ \A i \in R : next[i] # Nil => next[i] \in R

\* A walk of the list of s, as in shutdown_service, misses no implementation
\* that is registered with s, however insertions and removals interleaved.
WalkVisitsAll ==
  \A s \in Services : \A R \in SUBSET Impls :
    ClosedUnderNext(s, R) => {i \in Impls : member[i] = s} \subseteq R

\* ... and visits none that is not: unregistered ones may be gone already.
WalkVisitsOnlyMembers ==
  \A s \in Services : ClosedUnderNext(s, {i \in Impls : member[i] = s})

=============================================================================
