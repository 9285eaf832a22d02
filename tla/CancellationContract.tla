------------------------ MODULE CancellationContract ------------------------
(***************************************************************************)
(* What cancellation_token_source and cancellation_token promise, without  *)
(* saying how (cancellation_token.hpp): a token watches the source that    *)
(* issued it, a source cancels every token that watches it, a source that  *)
(* is moved takes its watchers along, and a token that watches nothing is  *)
(* cancelled for good.                                                     *)
(***************************************************************************)
CONSTANTS
  Sources,   \* storage slots for cancellation_token_source objects
  Tokens     \* storage slots for cancellation_token objects

VARIABLES
  sources,   \* the sources that are alive
  issuing,   \* the sources among them that are not destroy()ed
  tokens,    \* the tokens that are alive
  watch      \* watch[t]: the sources that can still cancel t

vars == <<sources, issuing, tokens, watch>>

TypeOK ==
  /\ sources \subseteq Sources
  /\ issuing \subseteq sources
  /\ tokens \subseteq Tokens
  /\ watch \in [Tokens -> SUBSET Sources]

\* Every token watching s is cancelled: nothing can cancel it once more.
WithoutWatchers(s) == [t \in Tokens |-> watch[t] \ {s}]

Init ==
  /\ sources = {}
  /\ issuing = {}
  /\ tokens = {}
  /\ watch = [t \in Tokens |-> {}]

Construct(s) ==
  /\ s \notin sources
  /\ sources' = sources \cup {s}
  /\ issuing' = issuing \cup {s}
  /\ UNCHANGED <<tokens, watch>>

\* Move-construction and move-assignment of s from o: s's own watchers are
\* cancelled, o's watchers follow the move, o is left destroy()ed.
Move(s, o) ==
  /\ o \in sources
  /\ s # o
  /\ sources' = sources \cup {s}
  /\ issuing' = (issuing \ {s, o}) \cup {x \in {s} : o \in issuing}
  /\ watch' = [t \in Tokens |-> IF o \in watch[t] THEN {s} ELSE watch[t] \ {s}]
  /\ UNCHANGED tokens

\* cancel() also puts a destroy()ed source back to work.
Cancel(s) ==
  /\ s \in sources
  /\ issuing' = issuing \cup {s}
  /\ watch' = WithoutWatchers(s)
  /\ UNCHANGED <<sources, tokens>>

Destroy(s) ==
  /\ s \in sources
  /\ issuing' = issuing \ {s}
  /\ watch' = WithoutWatchers(s)
  /\ UNCHANGED <<sources, tokens>>

\* reset() revives a destroy()ed source and, like cancel(), cancels the tokens
\* already issued by one that was not destroy()ed.
Reset(s) == Cancel(s)

Destruct(s) ==
  /\ s \in sources
  /\ sources' = sources \ {s}
  /\ issuing' = issuing \ {s}
  /\ watch' = WithoutWatchers(s)
  /\ UNCHANGED tokens

\* A token issued by a destroy()ed source starts cancelled.
Issue(t, s) ==
  /\ t \notin tokens
  /\ s \in sources
  /\ tokens' = tokens \cup {t}
  /\ watch' = [watch EXCEPT ![t] = {x \in {s} : s \in issuing}]
  /\ UNCHANGED <<sources, issuing>>

CopyToken(t, u) ==
  /\ t \notin tokens
  /\ u \in tokens
  /\ tokens' = tokens \cup {t}
  /\ watch' = [watch EXCEPT ![t] = watch[u]]
  /\ UNCHANGED <<sources, issuing>>

DropToken(t) ==
  /\ t \in tokens
  /\ tokens' = tokens \ {t}
  /\ watch' = [watch EXCEPT ![t] = {}]
  /\ UNCHANGED <<sources, issuing>>

Next ==
  \/ \E s \in Sources :
       \/ Construct(s) \/ Cancel(s) \/ Destroy(s) \/ Reset(s) \/ Destruct(s)
       \/ \E o \in Sources : Move(s, o)
       \/ \E t \in Tokens : Issue(t, s)
  \/ \E t \in Tokens : DropToken(t) \/ \E u \in Tokens : CopyToken(t, u)

Spec == Init /\ [][Next]_vars

\* A token that watches no source is cancelled (cancelled() returns true).
IsCancelled(t) == t \in tokens /\ watch[t] = {}

\* cancelled() never turns from true to false while the token lives, whatever
\* is done to its source, to other sources and to other tokens.
CancelledIsFinal ==
  [][\A t \in Tokens : IsCancelled(t) /\ t \in tokens' => IsCancelled(t)']_vars

=============================================================================
