--------------------------- MODULE ImplListProofs ---------------------------
(***************************************************************************)
(* Proofs about ImplList, for any number of services and implementations:  *)
(* the links stay consistent, and a walk visits exactly the registered     *)
(* implementations.                                                        *)
(***************************************************************************)
EXTENDS ImplList, TLAPS

\* What WellLinked leaves open about implementations in no list: unlink and
\* the constructors clear their pointers.
Unlinked == \A i \in Impls : member[i] = Nil => next[i] = Nil /\ prev[i] = Nil

LinkInv == TypeOK /\ WellLinked /\ Unlinked

LEMMA InitLinkInv == Init => LinkInv
  BY NilAssumption DEF Init, LinkInv, TypeOK, WellLinked, Unlinked

LEMMA InsertLinkInv ==
  ASSUME LinkInv, NEW s \in Services, NEW i \in Impls, Insert(s, i)
  PROVE  LinkInv'
<1> USE NilAssumption
<1>1. TypeOK'
  BY DEF LinkInv, TypeOK, Insert, push_front
<1>2. WellLinked'
  BY <1>1 DEF LinkInv, TypeOK, WellLinked, Unlinked, Insert, push_front
<1>3. Unlinked'
  BY DEF LinkInv, TypeOK, WellLinked, Unlinked, Insert, push_front
<1> QED
  BY <1>1, <1>2, <1>3 DEF LinkInv

LEMMA RemoveLinkInv ==
  ASSUME LinkInv, NEW s \in Services, NEW i \in Impls, Remove(s, i)
  PROVE  LinkInv'
<1> USE NilAssumption
<1>1. TypeOK'
  BY DEF LinkInv, TypeOK, Remove, unlink
<1>2. WellLinked'
  BY <1>1 DEF LinkInv, TypeOK, WellLinked, Unlinked, Remove, unlink
<1>3. Unlinked'
  BY DEF LinkInv, TypeOK, WellLinked, Unlinked, Remove, unlink
<1> QED
  BY <1>1, <1>2, <1>3 DEF LinkInv

LEMMA NextLinkInv == LinkInv /\ [Next]_vars => LinkInv'
<1>1. CASE UNCHANGED vars
  BY <1>1 DEF vars, LinkInv, TypeOK, WellLinked, Unlinked
<1> QED
  BY <1>1, InsertLinkInv, RemoveLinkInv DEF Next

LEMMA LinkInvInvariant == Spec => []LinkInv
  BY InitLinkInv, NextLinkInv, PTL DEF Spec

\* Pointers stay within the set of implementations.
THEOREM TypeInvariant == Spec => []TypeOK
<1>1. LinkInv => TypeOK
  BY DEF LinkInv
<1> QED
  BY LinkInvInvariant, <1>1, PTL

\* The links of registered implementations are mutually inverse and no list
\* reaches into another, after any sequence of insertions and removals.
THEOREM WellLinkedInvariant == Spec => []WellLinked
<1>1. LinkInv => WellLinked
  BY DEF LinkInv
<1> QED
  BY LinkInvInvariant, <1>1, PTL

\* A walk of a service's list meets only implementations registered with it.
THEOREM WalkVisitsOnlyMembersInvariant == Spec => []WalkVisitsOnlyMembers
<1>1. ASSUME LinkInv PROVE WalkVisitsOnlyMembers
  <2> SUFFICES ASSUME NEW s \in Services
               PROVE  ClosedUnderNext(s, {i \in Impls : member[i] = s})
    BY DEF WalkVisitsOnlyMembers
  <2>1. impl_list[s] # Nil => impl_list[s] \in Impls /\ member[impl_list[s]] = s
    BY <1>1 DEF LinkInv, TypeOK, WellLinked
  <2>2. \A i \in Impls : member[i] = s /\ next[i] # Nil
          => next[i] \in Impls /\ member[next[i]] = s
    BY <1>1, NilAssumption DEF LinkInv, TypeOK, WellLinked
  <2> QED
    BY <2>1, <2>2 DEF ClosedUnderNext
<1> QED
  BY LinkInvInvariant, <1>1, PTL

-----------------------------------------------------------------------------
(* WalkVisitsAll is a statement about every closed set R, so it is its own *)
(* induction hypothesis: each step turns a set closed for the new list     *)
(* into one closed for the old list.                                       *)

\* The implementations registered with s.
Members(s) == {i \in Impls : member[i] = s}

LEMMA InsertWalk ==
  ASSUME LinkInv, WalkVisitsAll, NEW s \in Services, NEW i \in Impls, Insert(s, i)
  PROVE  WalkVisitsAll'
<1> SUFFICES ASSUME NEW r \in Services, NEW R \in SUBSET Impls, ClosedUnderNext(r, R)'
             PROVE  Members(r)' \subseteq R
  BY DEF WalkVisitsAll, Members
<1>1. ClosedUnderNext(r, R)
  BY NilAssumption DEF LinkInv, TypeOK, Unlinked, Insert, push_front, ClosedUnderNext
<1>2. Members(r) \subseteq R
  BY <1>1 DEF WalkVisitsAll, Members
<1>3. r = s => i \in R
  BY NilAssumption DEF LinkInv, TypeOK, Insert, push_front, ClosedUnderNext
<1> QED
  BY <1>2, <1>3 DEF LinkInv, TypeOK, Insert, Members

\* If R holds i's predecessor, or i heads the list that is walked, R \cup {i}
\* was closed; otherwise nothing in R led to i and R \ {i} was.
LEMMA RemoveWalk ==
  ASSUME LinkInv, WalkVisitsAll, NEW s \in Services, NEW i \in Impls, Remove(s, i)
  PROVE  WalkVisitsAll'
<1> USE NilAssumption
<1> SUFFICES ASSUME NEW r \in Services, NEW R \in SUBSET Impls, ClosedUnderNext(r, R)'
             PROVE  Members(r)' \subseteq R
  BY DEF WalkVisitsAll, Members
<1>1. Members(r)' \subseteq Members(r) \ {i}
  BY DEF LinkInv, TypeOK, Remove, Members
<1>2. CASE prev[i] \in R \/ (r = s /\ prev[i] = Nil)
  <2>1. ClosedUnderNext(r, R \cup {i})
    <3>1. impl_list[r] # Nil => impl_list[r] \in R \cup {i}
      BY DEF LinkInv, TypeOK, Remove, unlink, ClosedUnderNext
    <3>2. next[i] # Nil => next[i] \in R
      <4>1. CASE prev[i] \in R
        <5>1. CASE prev[i] = i
          BY <4>1, <5>1 DEF LinkInv, WellLinked, Remove
        <5>2. CASE prev[i] # i
          <6>1. next'[prev[i]] = next[i]
            BY <4>1, <5>2 DEF Remove, unlink
          <6> QED
            BY <4>1, <6>1 DEF ClosedUnderNext
        <5> QED
          BY <5>1, <5>2
      <4>2. CASE r = s /\ prev[i] = Nil
        BY <4>2 DEF LinkInv, TypeOK, WellLinked, Remove, unlink, ClosedUnderNext
      <4> QED
        BY <1>2, <4>1, <4>2
    <3>3. \A j \in R : next[j] # Nil => next[j] \in R \cup {i}
      <4> SUFFICES ASSUME NEW j \in R, next[j] # Nil
                   PROVE  next[j] \in R \cup {i}
        OBVIOUS
      <4>1. CASE j = prev[i]
        BY <4>1 DEF LinkInv, TypeOK, WellLinked, Remove
      <4>2. CASE j # i /\ j # prev[i]
        BY <4>2 DEF LinkInv, TypeOK, Remove, unlink, ClosedUnderNext
      <4> QED
        BY <3>2, <4>1, <4>2
    <3> QED
      BY <3>1, <3>2, <3>3 DEF ClosedUnderNext
  <2>2. Members(r) \subseteq R \cup {i}
    BY <2>1 DEF WalkVisitsAll, Members
  <2> QED
    BY <1>1, <2>2
<1>3. CASE prev[i] \notin R /\ ~(r = s /\ prev[i] = Nil)
  <2>1. impl_list[r] # i
    BY <1>3 DEF LinkInv, TypeOK, WellLinked, Remove
  <2>2. \A j \in R \ {i} : next[j] # i
    BY <1>3 DEF LinkInv, TypeOK, WellLinked, Unlinked, Remove
  <2>3. ClosedUnderNext(r, R \ {i})
    BY <1>3, <2>1, <2>2 DEF LinkInv, TypeOK, Remove, unlink, ClosedUnderNext
  <2>4. Members(r) \subseteq R \ {i}
    BY <2>3 DEF WalkVisitsAll, Members
  <2> QED
    BY <1>1, <2>4
<1> QED
  BY <1>2, <1>3

\* The walk of shutdown_service misses no implementation registered with the
\* service, however many there are and however they came and went.
THEOREM WalkVisitsAllInvariant == Spec => []WalkVisitsAll
<1>1. Init => WalkVisitsAll
  BY NilAssumption DEF Init, WalkVisitsAll
<1>2. LinkInv /\ WalkVisitsAll /\ [Next]_vars => WalkVisitsAll'
  <2>1. CASE UNCHANGED vars
    BY <2>1 DEF vars, WalkVisitsAll, ClosedUnderNext
  <2> QED
    BY <2>1, InsertWalk, RemoveWalk DEF Next
<1> QED
  BY LinkInvInvariant, <1>1, <1>2, PTL DEF Spec

=============================================================================
