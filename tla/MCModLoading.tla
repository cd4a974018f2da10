---------------------------- MODULE MCModLoading ----------------------------
(* Instances of ModLoading for TLC: families of dependency graphs.         *)
EXTENDS ModLoading, SequencesExt

CONSTANTS m1, m2, m3, main, ev1, a1

\* A list of modules for each set of modules.
Listing(S) == SetToSeq(S)
Listings(D, R) == {[d \in D |-> Listing(f[d])] : f \in [D -> SUBSET R]}

MCModule2 == {m1, m2}
MCModule3 == {m1, m2, m3}
MCUevent1 == {ev1}

\* Two modules, every dependency graph (cycles and self-loops included),
\* every post-dependency graph, any set of built-in modules; nothing to do
\* with the third.
AnyGraph2 ==
  LET graphs == {(m3 :> <<>>) @@ g : g \in Listings(MCModule2, MCModule2)} IN
  {[force |-> <<m1>>, deps |-> d, post |-> p, builtin |-> b, aliases |-> (a1 :> <<m2>>)] :
     d \in graphs, p \in graphs, b \in SUBSET MCModule2}

-----------------------------------------------------------------------------
\* The modules one walk can reach from those in S, built-in ones left out.
RECURSIVE Reach(_, _, _)
Reach(S, deps, builtin) ==
  LET more == (UNION {SetOf(deps[m]) : m \in S}) \ (S \cup builtin)
  IN  IF more = {} THEN S ELSE Reach(S \cup more, deps, builtin)

Acyclic(deps, D) == \A m \in D : m \notin Reach(SetOf(deps[m]), deps, {})

AcyclicListings(D) == {d \in Listings(D, D) : Acyclic(d, D)}

\* The walks a run can make: the forced modules, those of the alias, and the
\* post-dependencies of each module.  No two of them meet.
WalksDisjoint(c, D) ==
  LET Walk(s) == Reach(SetOf(s) \ c.builtin, c.deps, c.builtin)
      Disjoint(s, t) == Walk(s) \cap Walk(t) = {}
  IN /\ Disjoint(c.force, c.aliases[a1])
     /\ \A m \in D : /\ Disjoint(c.force, c.post[m])
                     /\ Disjoint(c.aliases[a1], c.post[m])
                     /\ \A n \in D \ {m} : Disjoint(c.post[n], c.post[m])

\* Three modules, acyclic dependencies, walks that do not meet.
Separate3 ==
  {c \in [force : {<<m1>>, <<m1, m2>>}, deps : AcyclicListings(MCModule3),
          post : Listings(MCModule3, MCModule3), builtin : {{}, {m3}},
          aliases : {(a1 :> <<>>), (a1 :> <<m3>>)}] : WalksDisjoint(c, MCModule3)}

\* The modules the loader of m waits for: its dependencies and, transitively,
\* their post-dependencies, which are requested on behalf of m.
AwaitedBy(c) == [m \in DOMAIN c.deps |-> Listing(Reach(SetOf(c.deps[m]), c.post, {}))]

\* Three modules, none of which waits for itself: a chain, a diamond, two
\* dependencies, each module with at most one post-dependency.
Acyclic3 ==
  {c \in [force : {<<m3>>},
          deps : {(m1 :> <<>> @@ m2 :> <<m1>> @@ m3 :> <<m2>>),
                  (m1 :> <<>> @@ m2 :> <<m1>> @@ m3 :> <<m1, m2>>),
                  (m1 :> <<>> @@ m2 :> <<>> @@ m3 :> <<m1, m2>>)},
          post : [MCModule3 -> {<<>>, <<m1>>, <<m2>>, <<m3>>}],
          builtin : {{}}, aliases : {(a1 :> <<m1>>), (a1 :> <<m2>>)}] :
     Acyclic(AwaitedBy(c), MCModule3)}

\* Whether the walks meet or not.
Waiting3 == Separate3 \cup Acyclic3

AnyGraph == AnyGraph2 \cup Waiting3

\* A module asked for at boot and, later, for a device.
BootThenDevice ==
  {[force |-> <<m1>>, deps |-> [m \in MCModule2 |-> <<>>], post |-> [m \in MCModule2 |-> <<>>],
    builtin |-> {}, aliases |-> (a1 :> <<m1>>)]}

\* A module that depends on one whose post-dependency it is, as hid_generic
\* on hid.
PostNeedsProvider ==
  {[force |-> <<m2>>, deps |-> (m1 :> <<>> @@ m2 :> <<m1>>),
    post |-> (m1 :> <<m2>> @@ m2 :> <<>>), builtin |-> {}, aliases |-> (a1 :> <<>>)]}
=============================================================================
