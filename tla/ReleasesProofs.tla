--------------------------- MODULE ReleasesProofs ---------------------------
(***************************************************************************)
(* Theorems about packs and releases, for any catalogue and any number of  *)
(* instances, operators, packs, edits and releases: that every dangerous   *)
(* action took a confirmation of its own, that a version number names one  *)
(* release, and that a pack is closed under its prerequisites and names no *)
(* content that is gone.  And about the writers of packs, for any packs,   *)
(* mods and loads: that a pack gets no entries of another, and that none   *)
(* gets lost.                                                              *)
(*                                                                         *)
(* What expandPackEntries computes is reasoned about by induction: over    *)
(* the number of mods a call has left to visit, and over the loop inside   *)
(* it.  Both inductions go by the least counterexample.                    *)
(***************************************************************************)
EXTENDS Releases, PackContents, FiniteSetTheorems, SequenceTheorems, WellFoundedInduction, TLAPS

(***************************************************************************)
(* Induction, from the least counterexample.                               *)
(***************************************************************************)
\* Natural numbers are well ordered.
LEMMA LeastNat ==
  ASSUME NEW T \in SUBSET Nat, T # {}
  PROVE  \E x \in T : \A y \in T : x <= y
<1>1. IsWellFoundedOn(OpToRel(<, Nat), Nat)
  BY NatLessThanWellFounded
<1>2. PICK x \in T : \A y \in T : ~ (<<y, x>> \in OpToRel(<, Nat))
  BY <1>1, WFMin
<1>3. \A y \in T : ~ (y < x)
  BY <1>2 DEF OpToRel
<1> QED
  BY <1>3

\* What holds of 0 and of the successor of what it holds of.
LEMMA Upwards ==
  ASSUME NEW T \in SUBSET Nat, 0 \in T, \A n \in T : n + 1 \in T
  PROVE  T = Nat
<1>1. SUFFICES ASSUME Nat \ T # {} PROVE FALSE
  OBVIOUS
<1>2. PICK x \in Nat \ T : \A y \in Nat \ T : x <= y
  BY <1>1, LeastNat
<1>3. x # 0 /\ x - 1 \in Nat /\ x - 1 \in T
  BY <1>2
<1> QED
  BY <1>2, <1>3

\* Phi says what a function from X to V is at a point, from what it is at the
\* points of a lower rank; ranks are below b.
Ranked(X, V, f0, b, rank, Phi) ==
  /\ f0 \in [X -> V] /\ b \in Nat /\ rank \in [X -> Nat] /\ \A x \in X : rank[x] < b
  /\ Phi \in [[X -> V] -> [X -> V]]
  /\ \A f, h \in [X -> V], x \in X :
       (\A y \in X : rank[y] < rank[x] => f[y] = h[y]) => Phi[f][x] = Phi[h][x]

\* A function that is defined by such a recursion exists.
LEMMA Recursion ==
  ASSUME NEW X, NEW V, NEW f0, NEW b, NEW rank, NEW Phi, Ranked(X, V, f0, b, rank, Phi)
  PROVE  \E f \in [X -> V] : f = Phi[f]
<1> USE DEF Ranked
<1> DEFINE T == {n \in Nat : \E f \in [X -> V] : \A x \in X : rank[x] < n => f[x] = Phi[f][x]}
<1>1. 0 \in T
  OBVIOUS
<1>2. ASSUME NEW n \in T PROVE n + 1 \in T
  <2>1. PICK f \in [X -> V] : \A x \in X : rank[x] < n => f[x] = Phi[f][x]
    BY <1>2
  <2>2. ASSUME NEW x \in X, rank[x] < n + 1 PROVE Phi[f][x] = Phi[Phi[f]][x]
    <3>1. \A y \in X : rank[y] < rank[x] => f[y] = Phi[f][y]
      BY <2>1, <2>2
    <3>2. Phi[f] \in [X -> V]
      OBVIOUS
    <3> QED
      BY <3>1, <3>2
  <2> QED
    BY <2>2
<1> HIDE DEF T
<1>3. b \in T
  <2>1. T \in SUBSET Nat
    BY DEF T
  <2> QED
    BY <1>1, <1>2, <2>1, Upwards
<1>4. PICK f \in [X -> V] : \A x \in X : rank[x] < b => f[x] = Phi[f][x]
  BY <1>3 DEF T
<1>5. f = Phi[f]
  BY <1>4
<1> QED
  BY <1>5

(***************************************************************************)
(* Ensure and EnsureAll.                                                   *)
(***************************************************************************)
Ordered == Manifests \cup {None}
Wanted == {o.version : o \in Offers} \cup {None}
Ask == [mod : Mods, version : Wanted]

Call(visiting, asked, ordered) ==
  [visiting |-> visiting, mod |-> asked.mod, version |-> asked.version, ordered |-> ordered]

\* A call of ensure for an entry that may be asked for.
LEMMA CallTyped ==
  ASSUME NEW visiting \in SUBSET Mods, NEW asked, asked.mod \in Mods, asked.version \in Wanted,
         NEW ordered \in Ordered
  PROVE  /\ Call(visiting, asked, ordered) \in Calls
         /\ Call(visiting, asked, ordered).visiting = visiting
         /\ Call(visiting, asked, ordered).mod = asked.mod
         /\ Call(visiting, asked, ordered).ordered = ordered
BY DEF Call, Calls, Wanted, Ordered

\* The loop over what is asked, step by step: what is ordered after each call.
Loop(ensure, visiting, asked, after) ==
  \A k \in 1..Len(asked) : after[k] = ensure[Call(visiting, asked[k], after[k - 1])]

\* Entries that may be asked for, and calls that are answered.
Askable(asked) ==
  Len(asked) \in Nat /\ \A k \in 1..Len(asked) : asked[k].mod \in Mods /\ asked[k].version \in Wanted

Answers(ensure, visiting) == \A call \in Calls : call.visiting = visiting => ensure[call] \in Ordered

\* EnsureAll is defined, and is what is ordered after the last call of the loop.
LEMMA EnsureAllSteps ==
  ASSUME NEW ensure, NEW visiting \in SUBSET Mods, Answers(ensure, visiting),
         NEW asked, Askable(asked), NEW ordered \in Ordered
  PROVE  \E after \in [0..Len(asked) -> Ordered] :
           /\ after[0] = ordered /\ Loop(ensure, visiting, asked, after)
           /\ EnsureAll(ensure, visiting, asked, ordered) = after[Len(asked)]
<1> USE DEF Askable, Answers
<1> DEFINE X == 0..Len(asked)
           body(f, k) == IF k = 0 THEN ordered ELSE ensure[Call(visiting, asked[k], f[k - 1])]
           Phi == [f \in [X -> Ordered] |-> [k \in X |-> body(f, k)]]
           rank == [k \in X |-> k]
           f0 == [k \in X |-> ordered]
<1>1. rank \in [X -> Nat] /\ f0 \in [X -> Ordered] /\ (\A k \in X : rank[k] < Len(asked) + 1) /\ Len(asked) + 1 \in Nat
  OBVIOUS
<1>2. ASSUME NEW f \in [X -> Ordered], NEW k \in X PROVE body(f, k) \in Ordered
  <2>1. CASE k = 0
    BY <2>1
  <2>2. CASE k # 0
    <3>1. k \in 1..Len(asked) /\ k - 1 \in X
      BY <2>2
    <3>2. /\ Call(visiting, asked[k], f[k - 1]) \in Calls
          /\ Call(visiting, asked[k], f[k - 1]).visiting = visiting
      BY <3>1, CallTyped
    <3> QED
      BY <2>2, <3>2
  <2> QED
    BY <2>1, <2>2
<1>3. Phi \in [[X -> Ordered] -> [X -> Ordered]]
  BY <1>2
<1>4. ASSUME NEW f \in [X -> Ordered], NEW h \in [X -> Ordered], NEW k \in X,
             \A j \in X : rank[j] < rank[k] => f[j] = h[j]
      PROVE  Phi[f][k] = Phi[h][k]
  <2>1. body(f, k) = body(h, k)
    <3>1. CASE k = 0
      BY <3>1
    <3>2. CASE k # 0
      <4>1. k - 1 \in X /\ rank[k - 1] < rank[k]
        BY <3>2
      <4> QED
        BY <1>4, <4>1
    <3> QED
      BY <3>1, <3>2
  <2>2. Phi[f][k] = body(f, k) /\ Phi[h][k] = body(h, k)
    OBVIOUS
  <2> QED
    BY <2>1, <2>2
<1> HIDE DEF Phi, rank, f0
<1>5. \E f \in [X -> Ordered] : f = Phi[f]
  <2> DEFINE b == Len(asked) + 1
  <2>1. Ranked(X, Ordered, f0, b, rank, Phi)
    BY <1>1, <1>3, <1>4 DEF Ranked
  <2> HIDE DEF X, b
  <2> QED
    BY <2>1, Recursion
<1>6. \E f \in [X -> Ordered] : f = [k \in X |-> body(f, k)]
  BY <1>5 DEF Phi
<1> DEFINE after == CHOOSE f : f = [k \in X |-> body(f, k)]
<1>7. after = [k \in X |-> body(after, k)]
  BY <1>6
<1>8. EnsureAll(ensure, visiting, asked, ordered) = after[Len(asked)]
  BY Zenon DEF EnsureAll, Call
<1> HIDE DEF after
<1>9. after \in [X -> Ordered]
  <2> DEFINE T == {n \in Nat : n \in X => after[n] \in Ordered}
  <2>1. 0 \in T
    BY <1>7
  <2>2. ASSUME NEW n \in T PROVE n + 1 \in T
    <3> SUFFICES ASSUME n + 1 \in X PROVE after[n + 1] \in Ordered
      OBVIOUS
    <3>1. n \in X /\ after[n] \in Ordered /\ n + 1 \in 1..Len(asked) /\ n + 1 # 0 /\ (n + 1) - 1 = n
      OBVIOUS
    <3>2. /\ Call(visiting, asked[n + 1], after[n]) \in Calls
          /\ Call(visiting, asked[n + 1], after[n]).visiting = visiting
      BY <3>1, CallTyped
    <3>3. after[n + 1] = body(after, n + 1)
      BY <1>7
    <3>4. after[n + 1] = ensure[Call(visiting, asked[n + 1], after[n])]
      BY <3>1, <3>3
    <3> QED
      BY <3>2, <3>4
  <2> HIDE DEF T
  <2>3. T = Nat
    <3>1. T \in SUBSET Nat
      BY DEF T
    <3> QED
      BY <2>1, <2>2, <3>1, Upwards
  <2>4. \A n \in X : after[n] \in Ordered
    BY <2>3 DEF T
  <2> QED
    BY <1>7, <2>4
<1>10. after[0] = ordered /\ Loop(ensure, visiting, asked, after)
  <2>1. after[0] = ordered
    BY <1>7
  <2>2. ASSUME NEW k \in 1..Len(asked) PROVE after[k] = ensure[Call(visiting, asked[k], after[k - 1])]
    <3>1. k \in X /\ k # 0
      OBVIOUS
    <3> QED
      BY <1>7, <3>1
  <2> QED
    BY <2>1, <2>2 DEF Loop
<1> QED
  BY <1>8, <1>9, <1>10

\* The loop depends on the calls it makes alone.
LEMMA EnsureAllSame ==
  ASSUME NEW f, NEW h, NEW visiting \in SUBSET Mods,
         Answers(f, visiting), \A call \in Calls : call.visiting = visiting => f[call] = h[call],
         NEW asked, Askable(asked), NEW ordered \in Ordered
  PROVE  EnsureAll(f, visiting, asked, ordered) = EnsureAll(h, visiting, asked, ordered)
<1>0. Answers(h, visiting)
  BY DEF Answers
<1>1. PICK a \in [0..Len(asked) -> Ordered] :
        /\ a[0] = ordered /\ Loop(f, visiting, asked, a)
        /\ EnsureAll(f, visiting, asked, ordered) = a[Len(asked)]
  BY <1>0, EnsureAllSteps
<1>2. PICK b \in [0..Len(asked) -> Ordered] :
        /\ b[0] = ordered /\ Loop(h, visiting, asked, b)
        /\ EnsureAll(h, visiting, asked, ordered) = b[Len(asked)]
  BY <1>0, EnsureAllSteps
<1> USE DEF Askable
<1> DEFINE T == {n \in Nat : n <= Len(asked) => a[n] = b[n]}
<1>3. 0 \in T
  BY <1>1, <1>2
<1>4. ASSUME NEW n \in T PROVE n + 1 \in T
  <2> SUFFICES ASSUME n + 1 <= Len(asked) PROVE a[n + 1] = b[n + 1]
    OBVIOUS
  <2>1. n + 1 \in 1..Len(asked) /\ n \in 0..Len(asked) /\ a[n] = b[n] /\ (n + 1) - 1 = n
    OBVIOUS
  <2>2. /\ Call(visiting, asked[n + 1], a[n]) \in Calls
        /\ Call(visiting, asked[n + 1], a[n]).visiting = visiting
    BY <2>1, CallTyped
  <2>3. /\ a[n + 1] = f[Call(visiting, asked[n + 1], a[n])]
        /\ b[n + 1] = h[Call(visiting, asked[n + 1], b[n])]
    BY <1>1, <1>2, <2>1 DEF Loop
  <2> QED
    BY <2>1, <2>2, <2>3
<1>5. T \in SUBSET Nat
  OBVIOUS
<1> HIDE DEF T
<1>6. T = Nat
  BY <1>3, <1>4, <1>5, Upwards
<1>7. a[Len(asked)] = b[Len(asked)]
  BY <1>6 DEF T
<1> QED
  BY <1>1, <1>2, <1>7

(***************************************************************************)
(* What ensure adds to what is ordered so far.                             *)
(***************************************************************************)
Needs(o) == {o.dependsOn[n] : n \in DOMAIN o.dependsOn}

\* Every mod once, and after its prerequisites.
Whole(manifest) ==
  /\ \A j, k \in 1..Len(manifest) : manifest[j].mod = manifest[k].mod => j = k
  /\ \A k \in 1..Len(manifest) : \A d \in Needs(manifest[k]) : \E j \in 1..(k - 1) : manifest[j].mod = d

\* From s to t mods were added at the end, none of them of those visited, and
\* the wanted ones are there.
Grown(s, t, visited, wanted) ==
  /\ s \in Manifests /\ t \in Manifests
  /\ Len(s) <= Len(t) /\ \A k \in 1..Len(s) : t[k] = s[k]
  /\ \A k \in (Len(s) + 1)..Len(t) : t[k].mod \notin visited
  /\ wanted \subseteq ModsOf(t)
  /\ Whole(s) => Whole(t)

\* Growing by nothing, twice, and by a mod whose prerequisites are there.
LEMMA GrownSelf ==
  ASSUME NEW s \in Manifests, NEW visited, NEW wanted, wanted \subseteq ModsOf(s)
  PROVE  Grown(s, s, visited, wanted)
BY DEF Grown, Manifests

\* One expansion after another is an expansion.
LEMMA GrownTwice ==
  ASSUME NEW s, NEW t, NEW u, NEW visited, NEW a, NEW b,
         Grown(s, t, visited, a), Grown(t, u, visited, b)
  PROVE  Grown(s, u, visited, a \cup b)
<1>1. /\ Len(s) \in Nat /\ Len(t) \in Nat /\ Len(u) \in Nat
      /\ s \in Manifests /\ u \in Manifests /\ t \in Manifests
      /\ DOMAIN t = 1..Len(t) /\ DOMAIN u = 1..Len(u)
  BY DEF Grown, Manifests
<1>2. Len(s) <= Len(u) /\ \A k \in 1..Len(s) : u[k] = s[k]
  BY <1>1 DEF Grown
<1>3. \A k \in (Len(s) + 1)..Len(u) : u[k].mod \notin visited
  <2> SUFFICES ASSUME NEW k \in (Len(s) + 1)..Len(u) PROVE u[k].mod \notin visited
    OBVIOUS
  <2>1. CASE k <= Len(t)
    BY <1>1, <2>1 DEF Grown
  <2>2. CASE k > Len(t)
    BY <1>1, <2>2 DEF Grown
  <2> QED
    BY <1>1, <2>1, <2>2
<1>4. ModsOf(t) \subseteq ModsOf(u)
  BY <1>1 DEF ModsOf, Grown
<1> QED
  BY <1>1, <1>2, <1>3, <1>4 DEF Grown

\* A mod that follows its dependencies joins an expansion of them.
LEMMA GrownAppend ==
  ASSUME NEW s, NEW t, NEW visited, NEW o \in Offers, o.mod \notin visited, o.mod \notin ModsOf(s),
         Grown(s, t, visited \cup {o.mod}, Needs(o))
  PROVE  Grown(s, Append(t, o), visited, {o.mod})
<1> DEFINE u == Append(t, o)
<1>1. /\ Len(s) \in Nat /\ Len(t) \in Nat /\ s \in Manifests /\ t \in Manifests
      /\ DOMAIN s = 1..Len(s) /\ DOMAIN t = 1..Len(t)
  BY DEF Grown, Manifests
<1>2. /\ u \in Manifests /\ Len(u) = Len(t) + 1 /\ DOMAIN u = 1..Len(u)
      /\ u[Len(t) + 1] = o /\ \A k \in 1..Len(t) : u[k] = t[k]
  BY <1>1 DEF Manifests
<1> HIDE DEF u
<1>3. \A k \in 1..Len(t) : t[k].mod # o.mod
  <2> SUFFICES ASSUME NEW k \in 1..Len(t) PROVE t[k].mod # o.mod
    OBVIOUS
  <2>1. CASE k <= Len(s)
    BY <1>1, <2>1 DEF Grown, ModsOf
  <2>2. CASE k > Len(s)
    BY <1>1, <2>2 DEF Grown
  <2> QED
    BY <1>1, <2>1, <2>2
<1>4. Whole(s) => Whole(u)
  <2> SUFFICES ASSUME Whole(t) PROVE Whole(u)
    BY DEF Grown
  <2>1. \A j, k \in 1..Len(u) : u[j].mod = u[k].mod => j = k
    BY <1>1, <1>2, <1>3 DEF Whole
  <2>2. ASSUME NEW k \in 1..Len(u), NEW d \in Needs(u[k])
        PROVE  \E j \in 1..(k - 1) : u[j].mod = d
    <3>1. CASE k <= Len(t)
      <4>1. k \in 1..Len(t) /\ d \in Needs(t[k])
        BY <1>1, <1>2, <2>2, <3>1
      <4>2. PICK j \in 1..(k - 1) : t[j].mod = d
        BY <4>1 DEF Whole
      <4> QED
        BY <1>1, <1>2, <4>1, <4>2
    <3>2. CASE k > Len(t)
      <4>1. k = Len(t) + 1 /\ d \in Needs(o)
        BY <1>1, <1>2, <2>2, <3>2
      <4>2. d \in ModsOf(t)
        BY <4>1 DEF Grown
      <4>3. PICK j \in 1..Len(t) : t[j].mod = d
        BY <1>1, <4>2 DEF ModsOf
      <4> QED
        BY <1>1, <1>2, <4>1, <4>3
    <3> QED
      BY <1>1, <1>2, <3>1, <3>2
  <2> QED
    BY <2>1, <2>2 DEF Whole
<1>5. {o.mod} \subseteq ModsOf(u)
  BY <1>1, <1>2 DEF ModsOf
<1>6. Len(s) <= Len(u) /\ \A k \in 1..Len(s) : u[k] = s[k]
  BY <1>1, <1>2 DEF Grown
<1>7. \A k \in (Len(s) + 1)..Len(u) : u[k].mod \notin visited
  <2> SUFFICES ASSUME NEW k \in (Len(s) + 1)..Len(u) PROVE u[k].mod \notin visited
    OBVIOUS
  <2>1. CASE k <= Len(t)
    BY <1>1, <1>2, <2>1 DEF Grown
  <2>2. CASE k > Len(t)
    BY <1>1, <1>2, <2>2
  <2> QED
    BY <1>1, <1>2, <2>1, <2>2
<1>8. Grown(s, u, visited, {o.mod})
  BY <1>1, <1>2, <1>4, <1>5, <1>6, <1>7 DEF Grown
<1> QED
  BY <1>8 DEF u

(***************************************************************************)
(* The versions that are listed.                                           *)
(***************************************************************************)
\* The largest of some positions is one of them.
LEMMA MaxIn ==
  ASSUME NEW n \in Nat, NEW S \in SUBSET (1..n), S # {}
  PROVE  Max(S) \in S
<1> DEFINE T == {x \in Nat : \E k \in S : x = n - k}
<1>1. T \in SUBSET Nat /\ T # {}
  <2>1. PICK k \in S : TRUE
    OBVIOUS
  <2>2. k \in 1..n
    OBVIOUS
  <2>3. n - k \in Nat
    BY <2>2
  <2>4. n - k \in T
    BY <2>3
  <2> QED
    BY <2>4
<1>2. PICK x \in T : \A y \in T : x <= y
  BY <1>1, LeastNat
<1>3. PICK m \in S : x = n - m
  OBVIOUS
<1>4. \A k \in S : m >= k
  <2> SUFFICES ASSUME NEW k \in S PROVE m >= k
    OBVIOUS
  <2>1. n - m <= n - k
    BY <1>2, <1>3
  <2> QED
    BY <2>1
<1> QED
  BY <1>4 DEF Max

\* A mod's version is of that mod.
LEMMA VersionForTyped ==
  ASSUME NEW c, c.versions \in Manifests, NEW call, NEW g, VersionFor(c, call, g) # None
  PROVE  VersionFor(c, call, g) \in Offers /\ VersionFor(c, call, g).mod = call.mod
<1>1. \A k \in DOMAIN c.versions : c.versions[k] \in Offers
  BY DEF Manifests
<1>2. Registered(c, call.mod, call.version) # None =>
        /\ Registered(c, call.mod, call.version) \in Offers
        /\ Registered(c, call.mod, call.version).mod = call.mod
  BY <1>1, Zenon DEF Registered, Versions
<1>3. PickCompatibleVersion(c, call.mod, g) # None =>
        /\ PickCompatibleVersion(c, call.mod, g) \in Offers
        /\ PickCompatibleVersion(c, call.mod, g).mod = call.mod
  <2> DEFINE fits == {k \in DOMAIN c.versions :
                        c.versions[k].mod = call.mod /\ GameVersionMatches(c.versions[k], g)}
  <2> SUFFICES ASSUME fits # {}
               PROVE  c.versions[Max(fits)] \in Offers /\ c.versions[Max(fits)].mod = call.mod
    BY Zenon DEF PickCompatibleVersion
  <2>1. Len(c.versions) \in Nat /\ fits \in SUBSET (1..Len(c.versions))
    BY DEF Manifests
  <2>2. Max(fits) \in fits
    BY <2>1, MaxIn
  <2> QED
    BY <1>1, <2>2
<1> QED
  BY <1>2, <1>3, Zenon DEF VersionFor

\* Registering a version again leaves a list of versions.
LEMMA RegisteredTyped ==
  ASSUME NEW versions \in Manifests, NEW o \in Offers
  PROVE  Append(Unregistered(versions, o), o) \in Manifests
<1> DEFINE same == {k \in DOMAIN versions : versions[k].mod = o.mod /\ versions[k].version = o.version}
<1>1. Len(versions) \in Nat /\ same \in SUBSET (1..Len(versions))
  BY DEF Manifests
<1>2. same # {} => RemoveAt(versions, Max(same)) \in Manifests
  <2> SUFFICES ASSUME same # {} PROVE RemoveAt(versions, Max(same)) \in Manifests
    OBVIOUS
  <2>1. Max(same) \in 1..Len(versions)
    BY <1>1, MaxIn
  <2> DEFINE m == Max(same)
  <2> HIDE DEF m
  <2>2. SubSeq(versions, 1, m - 1) \in Manifests /\ SubSeq(versions, m + 1, Len(versions)) \in Manifests
    <3>1. /\ m \in 1..Len(versions) /\ 1 \in Int /\ m - 1 \in Int /\ m + 1 \in Int /\ Len(versions) \in Int
          /\ \A k \in 1..Len(versions) : versions[k] \in Offers
      BY <1>1, <2>1 DEF m, Manifests
    <3>2. /\ \A k \in 1..(m - 1) : versions[k] \in Offers
          /\ \A k \in (m + 1)..Len(versions) : versions[k] \in Offers
      BY <3>1
    <3> QED
      BY <3>1, <3>2, SubSeqProperties DEF Manifests
  <2>3. RemoveAt(versions, m) \in Manifests
    BY <2>2 DEF RemoveAt, Manifests
  <2> QED
    BY <2>3 DEF m
<1>3. Unregistered(versions, o) \in Manifests
  BY <1>2, Zenon DEF Unregistered
<1> HIDE DEF same
<1> QED
  BY <1>3 DEF Manifests

\* What a version requires can be asked for.
LEMMA RequiredAskable ==
  ASSUME NEW o \in Offers
  PROVE  /\ Askable(Required(o)) /\ Len(Required(o)) = Len(o.dependsOn)
         /\ \A k \in 1..Len(o.dependsOn) : Required(o)[k].mod = o.dependsOn[k]
<1>1. o.dependsOn \in Seq(Mods)
  BY CatalogAssumption
<1> DEFINE n == Len(o.dependsOn)
           s == [k \in 1..n |-> [mod |-> o.dependsOn[k], version |-> None]]
<1>2. n \in Nat /\ DOMAIN o.dependsOn = 1..n /\ \A k \in 1..n : o.dependsOn[k] \in Mods
  BY <1>1
<1>3. Required(o) = s
  BY <1>2 DEF Required
<1>4. Len(s) = n
  BY <1>2
<1>5. \A k \in 1..n : s[k].mod = o.dependsOn[k] /\ s[k].version = None
  OBVIOUS
<1> HIDE DEF s, n
<1>6. Askable(s)
  BY <1>2, <1>4, <1>5 DEF Askable, Wanted
<1> QED
  BY <1>3, <1>4, <1>5, <1>6 DEF n

(***************************************************************************)
(* ensure is defined.                                                      *)
(***************************************************************************)
\* What a call gives, when the calls it makes go to ensure.
Body(c, g, ensure, call) ==
  LET version == VersionFor(c, call, g)
      before == EnsureAll(ensure, call.visiting \cup {call.mod}, Required(version), call.ordered)
  IN  IF call.ordered = None THEN None
      ELSE IF call.mod \in ModsOf(call.ordered) THEN call.ordered
      ELSE IF call.mod \in call.visiting \/ version = None THEN None
      ELSE IF before = None THEN None ELSE Append(before, version)

\* The calls that are made inside a call, which visits one mod more.
Inside(call, other) ==
  other \in Calls /\ other.visiting = call.visiting \cup {call.mod} /\ call.mod \notin call.visiting

Left(call) == Cardinality(Mods \ call.visiting)

\* Inside a call fewer mods are left to visit.
LEMMA LeftFalls ==
  ASSUME NEW call \in Calls, NEW other, Inside(call, other)
  PROVE  Left(call) \in Nat /\ Left(other) \in Nat /\ Left(other) < Left(call)
<1>1. call.mod \in Mods \ call.visiting
  BY DEF Inside, Calls
<1>2. Mods \ other.visiting = (Mods \ call.visiting) \ {call.mod}
  BY DEF Inside
<1>3. IsFiniteSet(Mods \ call.visiting)
  BY CatalogAssumption, FS_Subset
<1>4. IsFiniteSet(Mods \ other.visiting)
  BY CatalogAssumption, FS_Subset
<1>5. Left(other) = Left(call) - 1
  BY <1>1, <1>2, <1>3, FS_RemoveElement, SMTT(30) DEF Left
<1>6. Left(call) \in Nat /\ Left(other) \in Nat
  BY <1>3, <1>4, FS_CardinalityType DEF Left
<1> QED
  BY <1>5, <1>6

\* What a call gives depends on the calls inside it alone.
LEMMA BodySame ==
  ASSUME NEW c, c.versions \in Manifests, NEW g, NEW f, NEW h, NEW call \in Calls,
         \A other : Inside(call, other) => f[other] \in Ordered /\ f[other] = h[other]
  PROVE  Body(c, g, f, call) = Body(c, g, h, call)
<1> DEFINE version == VersionFor(c, call, g)
           visiting == call.visiting \cup {call.mod}
<1>1. CASE call.mod \in call.visiting \/ version = None
  BY <1>1, Zenon DEF Body
<1>2. CASE call.mod \notin call.visiting /\ version # None /\ call.ordered # None
  <2>1. version \in Offers /\ visiting \in SUBSET Mods /\ call.ordered \in Ordered
    BY <1>2, VersionForTyped DEF Calls, Ordered
  <2>2. Answers(f, visiting) /\ \A other \in Calls : other.visiting = visiting => f[other] = h[other]
    BY <1>2 DEF Inside, Answers
  <2>3. EnsureAll(f, visiting, Required(version), call.ordered) = EnsureAll(h, visiting, Required(version), call.ordered)
    BY <2>1, <2>2, RequiredAskable, EnsureAllSame
  <2> QED
    BY <2>3, Zenon DEF Body
<1>3. CASE call.ordered = None
  BY <1>3, Zenon DEF Body
<1> QED
  BY <1>1, <1>2, <1>3

\* The loop grows what was ordered before by the mods that were asked for.
LEMMA EnsureAllGrows ==
  ASSUME NEW ensure, NEW visiting \in SUBSET Mods,
         \A call \in Calls : call.visiting = visiting =>
           \/ ensure[call] = None
           \/ Grown(call.ordered, ensure[call], call.visiting, {call.mod}),
         NEW asked, Askable(asked), NEW ordered \in Manifests
  PROVE  LET r == EnsureAll(ensure, visiting, asked, ordered) IN
         r = None \/ Grown(ordered, r, visiting, {asked[k].mod : k \in 1..Len(asked)})
<1>1. Answers(ensure, visiting) /\ ordered \in Ordered
  BY DEF Answers, Ordered, Grown
<1>2. PICK a \in [0..Len(asked) -> Ordered] :
        /\ a[0] = ordered /\ Loop(ensure, visiting, asked, a)
        /\ EnsureAll(ensure, visiting, asked, ordered) = a[Len(asked)]
  BY <1>1, EnsureAllSteps
<1> USE DEF Askable
<1> DEFINE Mentioned(n) == {asked[k].mod : k \in 1..n}
           T == {n \in Nat : n <= Len(asked) => a[n] = None \/ Grown(ordered, a[n], visiting, Mentioned(n))}
<1>3. 0 \in T
  <2>1. Mentioned(0) \subseteq ModsOf(ordered)
    OBVIOUS
  <2> QED
    BY <1>2, <2>1, GrownSelf
<1>4. ASSUME NEW n \in T PROVE n + 1 \in T
  <2> SUFFICES ASSUME n + 1 <= Len(asked)
               PROVE  a[n + 1] = None \/ Grown(ordered, a[n + 1], visiting, Mentioned(n + 1))
    OBVIOUS
  <2>1. /\ n + 1 \in 1..Len(asked) /\ n \in 0..Len(asked) /\ (n + 1) - 1 = n
        /\ a[n] = None \/ Grown(ordered, a[n], visiting, Mentioned(n))
    OBVIOUS
  <2> DEFINE call == Call(visiting, asked[n + 1], a[n])
  <2>2. call \in Calls /\ call.visiting = visiting /\ call.mod = asked[n + 1].mod /\ call.ordered = a[n]
    BY <2>1, CallTyped
  <2>3. a[n + 1] = ensure[call]
    BY <1>2, <2>1 DEF Loop
  <2>4. a[n + 1] = None \/ Grown(a[n], a[n + 1], visiting, {asked[n + 1].mod})
    BY <2>2, <2>3
  <2>5. a[n + 1] # None => a[n] # None
    BY <2>4, CatalogAssumption DEF Grown, Manifests
  <2>6. Mentioned(n + 1) = Mentioned(n) \cup {asked[n + 1].mod}
    BY <2>1
  <2> HIDE DEF Mentioned
  <2> QED
    BY <2>1, <2>4, <2>5, <2>6, GrownTwice
<1>5. T \in SUBSET Nat
  OBVIOUS
<1> HIDE DEF T
<1>6. T = Nat
  BY <1>3, <1>4, <1>5, Upwards
<1>7. a[Len(asked)] = None \/ Grown(ordered, a[Len(asked)], visiting, Mentioned(Len(asked)))
  <2> DEFINE n == Len(asked)
  <2>1. n \in T /\ n <= n
    BY <1>6
  <2> HIDE DEF n, Mentioned
  <2>2. a[n] = None \/ Grown(ordered, a[n], visiting, Mentioned(n))
    BY <2>1 DEF T
  <2> QED
    BY <2>2 DEF n
<1> QED
  BY <1>2, <1>7

\* A call gives a manifest or is refused.
LEMMA BodyTyped ==
  ASSUME NEW c, c.versions \in Manifests, NEW g, NEW f \in [Calls -> Ordered], NEW call \in Calls
  PROVE  Body(c, g, f, call) \in Ordered
<1> DEFINE version == VersionFor(c, call, g)
           visiting == call.visiting \cup {call.mod}
           before == EnsureAll(f, visiting, Required(version), call.ordered)
<1>1. call.ordered \in Ordered /\ None \in Ordered
  BY DEF Calls, Ordered
<1>2. CASE version = None \/ before = None
  BY <1>1, <1>2, Zenon DEF Body
<1>3. CASE version # None /\ before # None
  <2>1. version \in Offers /\ visiting \in SUBSET Mods
    BY <1>3, VersionForTyped DEF Calls
  <2>2. Answers(f, visiting) /\ Askable(Required(version))
    BY <2>1, RequiredAskable DEF Answers
  <2>3. before \in Ordered
    <3> DEFINE asked == Required(version)
    <3>1. Len(asked) \in 0..Len(asked)
      BY <2>2 DEF Askable
    <3>2. EnsureAll(f, visiting, asked, call.ordered) \in Ordered
      <4>1. Askable(asked)
        BY <2>2
      <4> HIDE DEF asked, visiting, version
      <4> QED
        BY <1>1, <2>1, <2>2, <3>1, <4>1, EnsureAllSteps, SMTT(30)
    <3> QED
      BY <3>2
  <2>4. Append(before, version) \in Ordered
    <3> HIDE DEF before, version
    <3> QED
      BY <1>3, <2>1, <2>3 DEF Ordered, Manifests
  <2> QED
    BY <1>1, <2>4, Zenon DEF Body
<1> QED
  BY <1>2, <1>3

\* When the calls inside a call grow what was ordered before, so does the call.
LEMMA BodyGrows ==
  ASSUME NEW c, c.versions \in Manifests, NEW g, NEW ensure, NEW call \in Calls,
         \A other : Inside(call, other) => \/ ensure[other] = None
                                           \/ Grown(other.ordered, ensure[other], other.visiting, {other.mod})
  PROVE  LET r == Body(c, g, ensure, call) IN r = None \/ Grown(call.ordered, r, call.visiting, {call.mod})
<1> DEFINE version == VersionFor(c, call, g)
           visiting == call.visiting \cup {call.mod}
           r == Body(c, g, ensure, call)
<1>1. CASE call.ordered # None /\ call.mod \in ModsOf(call.ordered)
  <2>1. r = call.ordered
    BY <1>1, Zenon DEF Body
  <2>2. call.ordered \in Manifests
    BY <1>1 DEF Calls
  <2> QED
    BY <1>1, <2>1, <2>2, GrownSelf
<1>2. CASE /\ call.ordered # None /\ call.mod \notin ModsOf(call.ordered)
           /\ call.mod \notin call.visiting /\ version # None
  <2> DEFINE before == EnsureAll(ensure, visiting, Required(version), call.ordered)
  <2>1. version \in Offers /\ version.mod = call.mod /\ visiting \in SUBSET Mods /\ call.ordered \in Manifests
    BY <1>2, VersionForTyped DEF Calls
  <2>2. \A other \in Calls : other.visiting = visiting =>
          \/ ensure[other] = None
          \/ Grown(other.ordered, ensure[other], other.visiting, {other.mod})
    BY <1>2 DEF Inside
  <2>3. r = IF before = None THEN None ELSE Append(before, version)
    BY <1>2, Zenon DEF Body
  <2>4. before = None \/ Grown(call.ordered, before, visiting, Needs(version))
    <3>1. Askable(Required(version)) /\ {Required(version)[k].mod : k \in 1..Len(Required(version))} = Needs(version)
      BY <2>1, RequiredAskable, CatalogAssumption DEF Needs
    <3> DEFINE asked == Required(version)
    <3>2. \/ EnsureAll(ensure, visiting, asked, call.ordered) = None
          \/ Grown(call.ordered, EnsureAll(ensure, visiting, asked, call.ordered), visiting,
                   {asked[k].mod : k \in 1..Len(asked)})
      <4>1. Askable(asked)
        BY <3>1
      <4> HIDE DEF asked, visiting, version
      <4> QED
        BY <2>1, <2>2, <4>1, EnsureAllGrows, ZenonT(90)
    <3> QED
      BY <3>1, <3>2
  <2>5. CASE before = None
    BY <2>3, <2>5
  <2>6. CASE before # None
    <3> HIDE DEF before, version
    <3>1. Grown(call.ordered, Append(before, version), call.visiting, {call.mod})
      BY <1>2, <2>1, <2>4, <2>6, GrownAppend
    <3> QED
      BY <2>3, <2>6, <3>1
  <2> QED
    BY <2>5, <2>6
<1>3. CASE \/ call.ordered = None
           \/ call.mod \notin ModsOf(call.ordered) /\ (call.mod \in call.visiting \/ version = None)
  BY <1>3, Zenon DEF Body
<1> QED
  BY <1>1, <1>2, <1>3

(***************************************************************************)
(* What ensure and expandPackEntries give.                                 *)
(***************************************************************************)
\* ensure satisfies its own equation.
LEMMA EnsureDefined ==
  ASSUME NEW c, c.versions \in Manifests, NEW g
  PROVE  Ensure(c, g) = [call \in Calls |-> Body(c, g, Ensure(c, g), call)]
<1> DEFINE Phi == [f \in [Calls -> Ordered] |-> [call \in Calls |-> Body(c, g, f, call)]]
           rank == [call \in Calls |-> Left(call)]
           b == Cardinality(Mods) + 1
           f0 == [call \in Calls |-> None]
<1>1. ASSUME NEW f \in [Calls -> Ordered], NEW call \in Calls PROVE Body(c, g, f, call) \in Ordered
  BY <1>1, BodyTyped
<1>2. f0 \in [Calls -> Ordered] /\ Phi \in [[Calls -> Ordered] -> [Calls -> Ordered]]
  BY <1>1 DEF Ordered
<1>3. b \in Nat /\ rank \in [Calls -> Nat] /\ \A call \in Calls : rank[call] < b
  <2>1. ASSUME NEW call \in Calls PROVE Left(call) \in Nat /\ Left(call) <= Cardinality(Mods)
    BY CatalogAssumption, FS_Subset, FS_CardinalityType DEF Left
  <2>2. Cardinality(Mods) \in Nat
    BY CatalogAssumption, FS_CardinalityType
  <2> QED
    BY <2>1, <2>2
<1>4. ASSUME NEW f \in [Calls -> Ordered], NEW h \in [Calls -> Ordered], NEW call \in Calls,
             \A other \in Calls : rank[other] < rank[call] => f[other] = h[other]
      PROVE  Phi[f][call] = Phi[h][call]
  <2>1. \A other : Inside(call, other) => f[other] \in Ordered /\ f[other] = h[other]
    <3> SUFFICES ASSUME NEW other, Inside(call, other) PROVE f[other] \in Ordered /\ f[other] = h[other]
      OBVIOUS
    <3>1. other \in Calls /\ Left(other) < Left(call)
      BY LeftFalls DEF Inside
    <3> QED
      BY <1>4, <3>1
  <2>2. Body(c, g, f, call) = Body(c, g, h, call)
    BY <2>1, BodySame
  <2> QED
    BY <2>2
<1>5. Ranked(Calls, Ordered, f0, b, rank, Phi)
  <2> HIDE DEF Phi, rank, b, f0
  <2> QED
    BY <1>2, <1>3, <1>4 DEF Ranked
<1>6. \E f \in [Calls -> Ordered] : f = Phi[f]
  <2> HIDE DEF Phi, rank, b, f0
  <2> QED
    BY <1>5, Recursion
<1>7. \E f : f = [call \in Calls |-> Body(c, g, f, call)]
  BY <1>6
<1> DEFINE e == CHOOSE f : f = [call \in Calls |-> Body(c, g, f, call)]
<1>8. e = [call \in Calls |-> Body(c, g, e, call)]
  BY <1>7, Zenon
<1>9. Ensure(c, g) = e
  BY Zenon DEF Ensure, Body
<1> QED
  BY <1>8, <1>9, Zenon

\* Whatever call: it is refused, or adds the mod and what it needs.
LEMMA EnsureGrows ==
  ASSUME NEW c, c.versions \in Manifests, NEW g, NEW call \in Calls
  PROVE  LET r == Ensure(c, g)[call] IN r = None \/ Grown(call.ordered, r, call.visiting, {call.mod})
<1> DEFINE ensure == Ensure(c, g)
           Right(x) == ensure[x] = None \/ Grown(x.ordered, ensure[x], x.visiting, {x.mod})
           T == {n \in Nat : \A x \in Calls : Left(x) < n => Right(x)}
<1>1. \A x \in Calls : Left(x) \in Nat
  BY CatalogAssumption, FS_Subset, FS_CardinalityType DEF Left
<1>2. 0 \in T
  BY <1>1
<1>3. ASSUME NEW n \in T PROVE n + 1 \in T
  <2> SUFFICES ASSUME NEW x \in Calls, Left(x) < n + 1 PROVE Right(x)
    OBVIOUS
  <2>1. \A other : Inside(x, other) => Right(other)
    <3> SUFFICES ASSUME NEW other, Inside(x, other) PROVE Right(other)
      OBVIOUS
    <3>1. other \in Calls /\ Left(other) < Left(x) /\ Left(other) \in Nat /\ Left(x) \in Nat
      BY LeftFalls DEF Inside
    <3> QED
      BY <3>1
  <2>2. ensure[x] = Body(c, g, ensure, x)
    BY EnsureDefined
  <2>3. Body(c, g, ensure, x) = None \/ Grown(x.ordered, Body(c, g, ensure, x), x.visiting, {x.mod})
    <3> HIDE DEF ensure
    <3> QED
      BY <2>1, BodyGrows
  <2> HIDE DEF ensure
  <2> QED
    BY <2>2, <2>3
<1>4. T \in SUBSET Nat
  OBVIOUS
<1> HIDE DEF T
<1>5. T = Nat
  BY <1>2, <1>3, <1>4, Upwards
<1>6. Left(call) + 1 \in T /\ Left(call) < Left(call) + 1
  BY <1>1, <1>5
<1>7. Right(call)
  BY <1>6 DEF T
<1> QED
  BY <1>7

\* expandPackEntries: refused, or closed under the prerequisites.
LEMMA ExpandCloses ==
  ASSUME NEW c, c.versions \in Manifests, NEW g, NEW entries, Askable(entries),
         DOMAIN entries = 1..Len(entries), ExpandPackEntries(c, entries, g) # None
  PROVE  Closed(entries, ExpandPackEntries(c, entries, g))
<1> DEFINE ensure == Ensure(c, g)
           manifest == ExpandPackEntries(c, entries, g)
<1>1. /\ {} \in SUBSET Mods /\ <<>> \in Manifests
      /\ \A call \in Calls : call.visiting = {} =>
           ensure[call] = None \/ Grown(call.ordered, ensure[call], call.visiting, {call.mod})
  <2>1. \A call \in Calls :
          ensure[call] = None \/ Grown(call.ordered, ensure[call], call.visiting, {call.mod})
    BY EnsureGrows
  <2>2. {} \in SUBSET Mods /\ <<>> \in Manifests
    BY DEF Manifests
  <2> HIDE DEF ensure
  <2> QED
    BY <2>1, <2>2
<1>2. manifest = EnsureAll(ensure, {}, entries, <<>>)
  BY Zenon DEF ExpandPackEntries
<1>3. Grown(<<>>, manifest, {}, {entries[k].mod : k \in 1..Len(entries)})
  <2> HIDE DEF ensure
  <2>1. \/ EnsureAll(ensure, {}, entries, <<>>) = None
        \/ Grown(<<>>, EnsureAll(ensure, {}, entries, <<>>), {}, {entries[k].mod : k \in 1..Len(entries)})
    BY <1>1, EnsureAllGrows
  <2> QED
    BY <1>2, <2>1
<1>4. Whole(<<>>)
  BY DEF Whole
<1> HIDE DEF manifest
<1>5. Whole(manifest) /\ DOMAIN manifest = 1..Len(manifest)
  BY <1>3, <1>4 DEF Grown, Manifests
<1>6. \A k \in DOMAIN entries : entries[k].mod \in ModsOf(manifest)
  BY <1>3 DEF Grown
<1>7. Closed(entries, manifest)
  BY <1>5, <1>6 DEF Closed, Whole, Needs
<1> QED
  BY <1>7 DEF manifest

(***************************************************************************)
(* Rows.                                                                   *)
(***************************************************************************)
StoredPack == [game : Games, entries : Seq(Entry), latest : Nat]
StoredRelease == [pack : Packs, number : Nat, mods : Manifests, overlays : SUBSET Contents,
                  previous : Nat, revoked : BOOLEAN]

Rec(v, s, c, l, b, p, n, d, t) ==
  [versions |-> v, slots |-> s, contents |-> c, licensed |-> l, banned |-> b, packs |-> p,
   releases |-> n, paused |-> d, tokens |-> t]

\* A stored state, whatever its versions, slots, reviews and bans: its packs,
\* contents, releases and tokens are typed, and a release is of a pack it has.
Sound(r) ==
  /\ r = Rec(r.versions, r.slots, r.contents, r.licensed, r.banned, r.packs, r.releases, r.paused,
             r.tokens)
  /\ r.versions \in Manifests /\ r.contents \subseteq Contents
  /\ r.packs \in [Packs -> StoredPack \cup {None}]
  /\ r.releases \in Seq(StoredRelease)
  /\ r.tokens \in [Dangerous -> Nat]
  /\ \A n \in DOMAIN r.releases : r.packs[r.releases[n].pack] # None

\* Nothing is not a pack.
LEMMA NoneStored == None \notin StoredPack
BY ReleasesAssumption DEF StoredPack

\* Packs never go away.
Keeps(r, s) == \A p \in Packs : r.packs[p] # None => s.packs[p] # None

\* What an operator's request holds between its snapshot and its mutation.
Holds(q) ==
  /\ q.instance \in Instances /\ q.pack \in Packs
  /\ \/ /\ q.kind = "publish" /\ q.value \in StoredRelease /\ q.value.pack = q.pack
        /\ row.packs[q.pack] # None
     \/ /\ q.kind = "save" /\ q.value \in StoredPack
        /\ \A k \in DOMAIN q.value.entries : q.value.entries[k].contents \subseteq q.checked[2]

Stored ==
  /\ Sound(row)
  /\ copy \in [Instances -> {copy[i] : i \in Instances}]
  /\ \A i \in Instances : Sound(copy[i]) /\ Keeps(copy[i], row)
  /\ DOMAIN request = Operators
  /\ \A w \in Operators : request[w] # None => Holds(request[w])
  /\ issued \in Nat /\ done \in Nat

\* A mutation to a sound row that keeps the packs leaves everything stored.
LEMMA MutateSound ==
  ASSUME Stored, NEW i \in Instances, NEW r, Mutate(i, r), Sound(r), Keeps(row, r),
         UNCHANGED request, issued' \in Nat, done' \in Nat
  PROVE  Stored'
<1>1. row' = r /\ copy' = [copy EXCEPT ![i] = r]
  BY DEF Mutate
<1>2. \A j \in Instances : copy'[j] = IF j = i THEN r ELSE copy[j]
  BY <1>1 DEF Stored
<1>3. copy' \in [Instances -> {copy'[j] : j \in Instances}]
  BY <1>1 DEF Stored
<1>4. \A j \in Instances : Sound(copy'[j]) /\ Keeps(copy'[j], r)
  BY <1>2 DEF Stored, Keeps
<1>5. \A w \in Operators : request[w] # None => Holds(request[w])'
  BY <1>1 DEF Stored, Holds, Keeps
<1> QED
  BY <1>1, <1>3, <1>4, <1>5 DEF Stored

\* A row with another field is a row.
LEMMA RowExcept ==
  ASSUME NEW r, NEW x,
         r = Rec(r.versions, r.slots, r.contents, r.licensed, r.banned, r.packs, r.releases, r.paused, r.tokens)
  PROVE  /\ [r EXCEPT !.versions = x] =
              Rec(x, r.slots, r.contents, r.licensed, r.banned, r.packs, r.releases, r.paused, r.tokens)
         /\ [r EXCEPT !.slots = x] =
              Rec(r.versions, x, r.contents, r.licensed, r.banned, r.packs, r.releases, r.paused, r.tokens)
         /\ [r EXCEPT !.contents = x] =
              Rec(r.versions, r.slots, x, r.licensed, r.banned, r.packs, r.releases, r.paused, r.tokens)
         /\ [r EXCEPT !.licensed = x] =
              Rec(r.versions, r.slots, r.contents, x, r.banned, r.packs, r.releases, r.paused, r.tokens)
         /\ [r EXCEPT !.banned = x] =
              Rec(r.versions, r.slots, r.contents, r.licensed, x, r.packs, r.releases, r.paused, r.tokens)
         /\ [r EXCEPT !.packs = x] =
              Rec(r.versions, r.slots, r.contents, r.licensed, r.banned, x, r.releases, r.paused, r.tokens)
         /\ [r EXCEPT !.releases = x] =
              Rec(r.versions, r.slots, r.contents, r.licensed, r.banned, r.packs, x, r.paused, r.tokens)
         /\ [r EXCEPT !.paused = x] =
              Rec(r.versions, r.slots, r.contents, r.licensed, r.banned, r.packs, r.releases, x, r.tokens)
         /\ [r EXCEPT !.tokens = x] =
              Rec(r.versions, r.slots, r.contents, r.licensed, r.banned, r.packs, r.releases, r.paused, x)
<1>1. [r EXCEPT !.versions = x] =
        Rec(x, r.slots, r.contents, r.licensed, r.banned, r.packs, r.releases, r.paused, r.tokens)
  BY DEF Rec
<1>2. [r EXCEPT !.slots = x] =
        Rec(r.versions, x, r.contents, r.licensed, r.banned, r.packs, r.releases, r.paused, r.tokens)
  BY DEF Rec
<1>3. [r EXCEPT !.contents = x] =
        Rec(r.versions, r.slots, x, r.licensed, r.banned, r.packs, r.releases, r.paused, r.tokens)
  BY DEF Rec
<1>4. [r EXCEPT !.licensed = x] =
        Rec(r.versions, r.slots, r.contents, x, r.banned, r.packs, r.releases, r.paused, r.tokens)
  BY DEF Rec
<1>5. [r EXCEPT !.banned = x] =
        Rec(r.versions, r.slots, r.contents, r.licensed, x, r.packs, r.releases, r.paused, r.tokens)
  BY DEF Rec
<1>6. [r EXCEPT !.packs = x] =
        Rec(r.versions, r.slots, r.contents, r.licensed, r.banned, x, r.releases, r.paused, r.tokens)
  BY DEF Rec
<1>7. [r EXCEPT !.releases = x] =
        Rec(r.versions, r.slots, r.contents, r.licensed, r.banned, r.packs, x, r.paused, r.tokens)
  BY DEF Rec
<1>8. [r EXCEPT !.paused = x] =
        Rec(r.versions, r.slots, r.contents, r.licensed, r.banned, r.packs, r.releases, x, r.tokens)
  BY DEF Rec
<1>9. [r EXCEPT !.tokens = x] =
        Rec(r.versions, r.slots, r.contents, r.licensed, r.banned, r.packs, r.releases, r.paused, x)
  BY DEF Rec
<1> QED
  BY <1>1, <1>2, <1>3, <1>4, <1>5, <1>6, <1>7, <1>8, <1>9

\* The fields of a row.
LEMMA RowFields ==
  ASSUME NEW v, NEW s, NEW c, NEW l, NEW b, NEW p, NEW n, NEW d, NEW t
  PROVE  LET r == Rec(v, s, c, l, b, p, n, d, t) IN
         /\ r.versions = v /\ r.slots = s /\ r.contents = c /\ r.licensed = l /\ r.banned = b
         /\ r.packs = p /\ r.releases = n /\ r.paused = d /\ r.tokens = t
BY DEF Rec

\* A sound row that differs in neither packs nor releases nor contents nor tokens.
Alike(r, s) ==
  /\ Sound(s) /\ Keeps(r, s) /\ s.releases = r.releases /\ s.packs = r.packs
  /\ s.contents = r.contents /\ s.tokens = r.tokens

\* An edit of these columns of a sound row leaves the rest as it was.
LEMMA EditAlike ==
  ASSUME NEW r, Sound(r), NEW x
  PROVE  /\ x \in Manifests => Alike(r, [r EXCEPT !.versions = x])
         /\ Alike(r, [r EXCEPT !.slots = x])
         /\ Alike(r, [r EXCEPT !.licensed = x]) /\ Alike(r, [r EXCEPT !.banned = x])
         /\ Alike(r, [r EXCEPT !.paused = x])
<1>1. ASSUME x \in Manifests PROVE Alike(r, [r EXCEPT !.versions = x])
  <2> DEFINE s == [r EXCEPT !.versions = x]
  <2>1. s = Rec(x, r.slots, r.contents, r.licensed, r.banned, r.packs, r.releases, r.paused, r.tokens)
    BY RowExcept DEF Sound
  <2> HIDE DEF s
  <2>2. /\ s = Rec(s.versions, s.slots, s.contents, s.licensed, s.banned, s.packs, s.releases, s.paused,
                   s.tokens)
        /\ s.versions = x /\ s.packs = r.packs /\ s.releases = r.releases
        /\ s.contents = r.contents /\ s.tokens = r.tokens
    BY <2>1, RowFields
  <2>3. Alike(r, s)
    BY <1>1, <2>2 DEF Alike, Sound, Keeps
  <2> QED
    BY <2>3 DEF s
<1>2. Alike(r, [r EXCEPT !.slots = x])
  <2> DEFINE s == [r EXCEPT !.slots = x]
  <2>1. s = Rec(r.versions, x, r.contents, r.licensed, r.banned, r.packs, r.releases, r.paused, r.tokens)
    BY RowExcept DEF Sound
  <2> HIDE DEF s
  <2>2. /\ s = Rec(s.versions, s.slots, s.contents, s.licensed, s.banned, s.packs, s.releases, s.paused,
                   s.tokens)
        /\ s.versions = r.versions /\ s.packs = r.packs /\ s.releases = r.releases
        /\ s.contents = r.contents /\ s.tokens = r.tokens
    BY <2>1, RowFields
  <2>3. Alike(r, s)
    BY <2>2 DEF Alike, Sound, Keeps
  <2> QED
    BY <2>3 DEF s
<1>3. Alike(r, [r EXCEPT !.licensed = x])
  <2> DEFINE s == [r EXCEPT !.licensed = x]
  <2>1. s = Rec(r.versions, r.slots, r.contents, x, r.banned, r.packs, r.releases, r.paused, r.tokens)
    BY RowExcept DEF Sound
  <2> HIDE DEF s
  <2>2. /\ s = Rec(s.versions, s.slots, s.contents, s.licensed, s.banned, s.packs, s.releases, s.paused,
                   s.tokens)
        /\ s.versions = r.versions /\ s.packs = r.packs /\ s.releases = r.releases
        /\ s.contents = r.contents /\ s.tokens = r.tokens
    BY <2>1, RowFields
  <2>3. Alike(r, s)
    BY <2>2 DEF Alike, Sound, Keeps
  <2> QED
    BY <2>3 DEF s
<1>4. Alike(r, [r EXCEPT !.banned = x])
  <2> DEFINE s == [r EXCEPT !.banned = x]
  <2>1. s = Rec(r.versions, r.slots, r.contents, r.licensed, x, r.packs, r.releases, r.paused, r.tokens)
    BY RowExcept DEF Sound
  <2> HIDE DEF s
  <2>2. /\ s = Rec(s.versions, s.slots, s.contents, s.licensed, s.banned, s.packs, s.releases, s.paused,
                   s.tokens)
        /\ s.versions = r.versions /\ s.packs = r.packs /\ s.releases = r.releases
        /\ s.contents = r.contents /\ s.tokens = r.tokens
    BY <2>1, RowFields
  <2>3. Alike(r, s)
    BY <2>2 DEF Alike, Sound, Keeps
  <2> QED
    BY <2>3 DEF s
<1>5. Alike(r, [r EXCEPT !.paused = x])
  <2> DEFINE s == [r EXCEPT !.paused = x]
  <2>1. s = Rec(r.versions, r.slots, r.contents, r.licensed, r.banned, r.packs, r.releases, x, r.tokens)
    BY RowExcept DEF Sound
  <2> HIDE DEF s
  <2>2. /\ s = Rec(s.versions, s.slots, s.contents, s.licensed, s.banned, s.packs, s.releases, s.paused,
                   s.tokens)
        /\ s.versions = r.versions /\ s.packs = r.packs /\ s.releases = r.releases
        /\ s.contents = r.contents /\ s.tokens = r.tokens
    BY <2>1, RowFields
  <2>3. Alike(r, s)
    BY <2>2 DEF Alike, Sound, Keeps
  <2> QED
    BY <2>3 DEF s
<1> QED
  BY <1>1, <1>2, <1>3, <1>4, <1>5

\* A release is of a pack.
LEMMA ReleasePack ==
  ASSUME NEW r, Sound(r), NEW n \in DOMAIN r.releases
  PROVE  r.releases[n] \in StoredRelease /\ r.releases[n].pack \in Packs
<1>1. r.releases[n] \in StoredRelease
  BY DEF Sound
<1> QED
  BY <1>1 DEF StoredRelease

\* A sound row with other contents.
LEMMA ContentSet ==
  ASSUME NEW r, Sound(r), NEW x, x \subseteq Contents
  PROVE  LET s == [r EXCEPT !.contents = x] IN
         /\ Sound(s) /\ Keeps(r, s) /\ s.contents = x
         /\ s.packs = r.packs /\ s.releases = r.releases /\ s.tokens = r.tokens
<1> DEFINE s == [r EXCEPT !.contents = x]
<1>1. s = Rec(r.versions, r.slots, x, r.licensed, r.banned, r.packs, r.releases, r.paused, r.tokens)
  BY RowExcept DEF Sound
<1> HIDE DEF s
<1>2. /\ s = Rec(s.versions, s.slots, s.contents, s.licensed, s.banned, s.packs, s.releases, s.paused,
                 s.tokens)
      /\ s.versions = r.versions /\ s.contents = x /\ s.packs = r.packs
      /\ s.releases = r.releases /\ s.tokens = r.tokens
  BY <1>1, RowFields
<1>3. Sound(s) /\ Keeps(r, s)
  <2>1. \A n \in DOMAIN r.releases : r.releases[n].pack \in Packs
    BY ReleasePack
  <2> QED
    BY <1>2, <2>1 DEF Sound, Keeps
<1> QED
  BY <1>2, <1>3 DEF s

\* A sound row with other tokens.
LEMMA TokenSet ==
  ASSUME NEW r, Sound(r), NEW x, x \in [Dangerous -> Nat]
  PROVE  LET s == [r EXCEPT !.tokens = x] IN
         /\ Sound(s) /\ Keeps(r, s) /\ s.tokens = x
         /\ s.packs = r.packs /\ s.releases = r.releases /\ s.contents = r.contents
<1> DEFINE s == [r EXCEPT !.tokens = x]
<1>1. s = Rec(r.versions, r.slots, r.contents, r.licensed, r.banned, r.packs, r.releases, r.paused, x)
  BY RowExcept DEF Sound
<1> HIDE DEF s
<1>2. /\ s = Rec(s.versions, s.slots, s.contents, s.licensed, s.banned, s.packs, s.releases, s.paused,
                 s.tokens)
      /\ s.versions = r.versions /\ s.tokens = x
      /\ s.packs = r.packs /\ s.releases = r.releases /\ s.contents = r.contents
  BY <1>1, RowFields
<1>3. Sound(s) /\ Keeps(r, s)
  <2>1. \A n \in DOMAIN r.releases : r.releases[n].pack \in Packs
    BY ReleasePack
  <2> QED
    BY <1>2, <2>1 DEF Sound, Keeps
<1> QED
  BY <1>2, <1>3 DEF s

\* A sound row with other packs.
LEMMA PackSet ==
  ASSUME NEW r, Sound(r), NEW x, x \in [Packs -> StoredPack \cup {None}], \A p \in Packs : r.packs[p] # None => x[p] # None
  PROVE  LET s == [r EXCEPT !.packs = x] IN
         /\ Sound(s) /\ Keeps(r, s) /\ s.packs = x
         /\ s.releases = r.releases /\ s.contents = r.contents /\ s.tokens = r.tokens
<1> DEFINE s == [r EXCEPT !.packs = x]
<1>1. s = Rec(r.versions, r.slots, r.contents, r.licensed, r.banned, x, r.releases, r.paused, r.tokens)
  BY RowExcept DEF Sound
<1> HIDE DEF s
<1>2. /\ s = Rec(s.versions, s.slots, s.contents, s.licensed, s.banned, s.packs, s.releases, s.paused,
                 s.tokens)
      /\ s.versions = r.versions /\ s.packs = x
      /\ s.releases = r.releases /\ s.contents = r.contents /\ s.tokens = r.tokens
  BY <1>1, RowFields
<1>3. Sound(s) /\ Keeps(r, s)
  <2>1. \A n \in DOMAIN r.releases : r.releases[n].pack \in Packs
    BY ReleasePack
  <2> QED
    BY <1>2, <2>1 DEF Sound, Keeps
<1> QED
  BY <1>2, <1>3 DEF s

\* A sound row with other releases.
LEMMA ReleaseSet ==
  ASSUME NEW r, Sound(r), NEW x, x \in Seq(StoredRelease), \A n \in DOMAIN x : r.packs[x[n].pack] # None
  PROVE  LET s == [r EXCEPT !.releases = x] IN
         /\ Sound(s) /\ Keeps(r, s) /\ s.releases = x
         /\ s.packs = r.packs /\ s.contents = r.contents /\ s.tokens = r.tokens
<1> DEFINE s == [r EXCEPT !.releases = x]
<1>1. s = Rec(r.versions, r.slots, r.contents, r.licensed, r.banned, r.packs, x, r.paused, r.tokens)
  BY RowExcept DEF Sound
<1> HIDE DEF s
<1>2. /\ s = Rec(s.versions, s.slots, s.contents, s.licensed, s.banned, s.packs, s.releases, s.paused,
                 s.tokens)
      /\ s.versions = r.versions /\ s.releases = x
      /\ s.packs = r.packs /\ s.contents = r.contents /\ s.tokens = r.tokens
  BY <1>1, RowFields
<1>3. Sound(s) /\ Keeps(r, s)
  <2>1. \A n \in DOMAIN r.releases : r.releases[n].pack \in Packs
    BY ReleasePack
  <2> QED
    BY <1>2, <2>1 DEF Sound, Keeps
<1> QED
  BY <1>2, <1>3 DEF s

\* One more or one less token of an action.
LEMMA TokenCount ==
  ASSUME NEW r, Sound(r), NEW a \in Dangerous, NEW n \in Nat
  PROVE  LET s == [r EXCEPT !.tokens[a] = n] IN
         /\ Sound(s) /\ Keeps(r, s) /\ s.tokens = [r.tokens EXCEPT ![a] = n]
         /\ s.packs = r.packs /\ s.releases = r.releases /\ s.contents = r.contents
<1> DEFINE x == [r.tokens EXCEPT ![a] = n]
<1>1. x \in [Dangerous -> Nat]
  BY DEF Sound
<1>2. [r EXCEPT !.tokens[a] = n] = [r EXCEPT !.tokens = x]
  OBVIOUS
<1> HIDE DEF x
<1> QED
  BY <1>1, <1>2, TokenSet

\* What purging contents from a row leaves.
LEMMA PurgedSound ==
  ASSUME NEW r, Sound(r), NEW gone
  PROVE  LET s == Purged(r, gone) IN
         /\ Sound(s) /\ Keeps(r, s)
         /\ s.releases = r.releases /\ s.tokens = r.tokens /\ s.contents = r.contents \ gone
         /\ \A p \in Packs : s.packs[p] # None =>
              /\ DOMAIN s.packs[p].entries = DOMAIN r.packs[p].entries
              /\ \A k \in DOMAIN r.packs[p].entries :
                   s.packs[p].entries[k].contents = r.packs[p].entries[k].contents \ gone
<1> DEFINE new(p) == [r.packs[p] EXCEPT !.entries = WithoutContents(r.packs[p].entries, gone)]
           packs == [p \in Packs |-> IF r.packs[p] = None THEN None ELSE new(p)]
           t == [r EXCEPT !.contents = r.contents \ gone]
           s == [t EXCEPT !.packs = packs]
<1>1. Sound(t) /\ Keeps(r, t) /\ t.contents = r.contents \ gone
      /\ t.packs = r.packs /\ t.releases = r.releases /\ t.tokens = r.tokens
  <2>1. r.contents \ gone \subseteq Contents
    BY DEF Sound
  <2> QED
    BY <2>1, ContentSet
<1>2. Purged(r, gone) = s
  BY DEF Purged, PurgedPacks
<1>3. ASSUME NEW p \in Packs, r.packs[p] # None
      PROVE  /\ new(p) \in StoredPack /\ new(p) # None
             /\ DOMAIN new(p).entries = DOMAIN r.packs[p].entries
             /\ \A k \in DOMAIN r.packs[p].entries :
                  new(p).entries[k].contents = r.packs[p].entries[k].contents \ gone
  <2> DEFINE es == r.packs[p].entries
  <2>1. r.packs[p] \in StoredPack /\ es \in Seq(Entry)
    BY <1>3 DEF Sound, StoredPack
  <2>2. ASSUME NEW k \in DOMAIN es
        PROVE  /\ [es[k] EXCEPT !.contents = @ \ gone] \in Entry
               /\ [es[k] EXCEPT !.contents = @ \ gone].contents = es[k].contents \ gone
    <3>0. es[k] \in Entry
      BY <2>1
    <3> QED
      BY <3>0 DEF Entry
  <2>3. WithoutContents(es, gone) = [k \in DOMAIN es |-> [es[k] EXCEPT !.contents = @ \ gone]]
    BY DEF WithoutContents
  <2>4. /\ WithoutContents(es, gone) \in Seq(Entry) /\ DOMAIN WithoutContents(es, gone) = DOMAIN es
        /\ \A k \in DOMAIN es : WithoutContents(es, gone)[k].contents = es[k].contents \ gone
    <3> DEFINE ws == WithoutContents(es, gone)
    <3>1. DOMAIN es = 1..Len(es) /\ Len(es) \in Nat
      BY <2>1
    <3>2. ws = [k \in 1..Len(es) |-> [es[k] EXCEPT !.contents = @ \ gone]]
      BY <2>3, <3>1
    <3>3. \A k \in 1..Len(es) : ws[k] \in Entry /\ ws[k].contents = es[k].contents \ gone
      BY <2>2, <3>1, <3>2, SMTT(30)
    <3>4. DOMAIN ws = 1..Len(es)
      BY <3>2
    <3>5. ws \in [1..Len(es) -> Entry]
      BY <3>2, <3>3
    <3> QED
      BY <3>1, <3>3, <3>4, <3>5
  <2>5. new(p) \in StoredPack /\ new(p).entries = WithoutContents(es, gone)
    BY <2>1, <2>4 DEF StoredPack
  <2>6. new(p) # None
    BY <2>5, NoneStored
  <2> QED
    BY <2>4, <2>5, <2>6
<1>4. packs \in [Packs -> StoredPack \cup {None}] /\ \A p \in Packs : t.packs[p] # None => packs[p] # None
  BY <1>1, <1>3
<1>5. /\ Sound(s) /\ Keeps(t, s) /\ s.packs = packs
      /\ s.tokens = t.tokens /\ s.releases = t.releases /\ s.contents = t.contents
  <2> HIDE DEF t, packs
  <2> QED
    BY <1>1, <1>4, PackSet
<1>6. \A p \in Packs : packs[p] # None =>
          /\ DOMAIN packs[p].entries = DOMAIN r.packs[p].entries
          /\ \A k \in DOMAIN r.packs[p].entries :
               packs[p].entries[k].contents = r.packs[p].entries[k].contents \ gone
  BY <1>3
<1> QED
  BY <1>1, <1>2, <1>5, <1>6 DEF Keeps

\* Purging makes no pack.
LEMMA PurgedNone ==
  ASSUME NEW r, Sound(r), NEW gone, NEW p \in Packs, Purged(r, gone).packs[p] # None
  PROVE  r.packs[p] # None
<1> DEFINE t == [r EXCEPT !.contents = r.contents \ gone]
           s == [t EXCEPT !.packs = PurgedPacks(r.packs, gone)]
<1>1. Sound(t) /\ t.packs = r.packs
  <2>1. r.contents \ gone \subseteq Contents
    BY DEF Sound
  <2> QED
    BY <2>1, ContentSet
<1>2. Purged(r, gone) = s
  <2>1. [r EXCEPT !.contents = @ \ gone, !.packs = PurgedPacks(@, gone)]
          = [t EXCEPT !.packs = PurgedPacks(t.packs, gone)]
    BY DEF Purged
  <2> QED
    BY <1>1, <2>1 DEF Purged
<1> HIDE DEF t
<1>3. s.packs = PurgedPacks(r.packs, gone)
  BY <1>1, RowExcept, RowFields DEF Sound
<1> QED
  BY <1>2, <1>3 DEF PurgedPacks

(***************************************************************************)
(* What each kind of step does.                                            *)
(***************************************************************************)
\* A step that touches neither releases nor tokens.
Quiet == /\ row'.releases = row.releases /\ row'.tokens = row.tokens
         /\ UNCHANGED <<issued, done, current>>

\* A step after which packs name no content that is gone, when they did not before.
KeepsKnown == NamesKnownContents => NamesKnownContents'

\* A mutation to a row that is alike is quiet.
LEMMA AlikeStep ==
  ASSUME Stored, NEW i \in Instances, NEW r, Mutate(i, r), Alike(row, r),
         UNCHANGED <<request, counts>>
  PROVE  Stored' /\ Quiet /\ KeepsKnown
<1>1. row' = r /\ UNCHANGED <<issued, done, current, outdated>>
  BY DEF Mutate, counts
<1>2. Stored'
  BY <1>1, MutateSound DEF Stored, Alike
<1>3. Quiet
  BY <1>1 DEF Quiet, Alike
<1>4. KeepsKnown
  BY <1>1 DEF KeepsKnown, NamesKnownContents, Alike
<1> QED
  BY <1>2, <1>3, <1>4

\* A mutation that purges contents is quiet.
LEMMA PurgeStep ==
  ASSUME Stored, NEW i \in Instances, NEW r, Alike(row, r), NEW gone, Mutate(i, Purged(r, gone)),
         UNCHANGED <<request, counts>>
  PROVE  Stored' /\ Quiet /\ KeepsKnown
<1> DEFINE s == Purged(r, gone)
<1>1. row' = s /\ UNCHANGED <<issued, done, current, outdated>>
  BY DEF Mutate, counts
<1>2. /\ Sound(s) /\ Keeps(r, s)
      /\ s.releases = r.releases /\ s.tokens = r.tokens /\ s.contents = r.contents \ gone
      /\ \A p \in Packs : s.packs[p] # None =>
           /\ DOMAIN s.packs[p].entries = DOMAIN r.packs[p].entries
           /\ \A k \in DOMAIN r.packs[p].entries :
                s.packs[p].entries[k].contents = r.packs[p].entries[k].contents \ gone
  BY PurgedSound DEF Alike
<1> HIDE DEF s
<1>3. Keeps(row, s)
  BY <1>2 DEF Alike, Keeps
<1>4. Mutate(i, s)
  BY DEF s
<1>5. Stored'
  BY <1>1, <1>2, <1>3, <1>4, MutateSound DEF Stored
<1>6. Quiet
  BY <1>1, <1>2 DEF Quiet, Alike
<1>7. KeepsKnown
  <2>1. \A p \in Packs : s.packs[p] # None => row.packs[p] # None
    BY PurgedNone DEF Alike, s
  <2> SUFFICES ASSUME NamesKnownContents, NEW p \in Packs \ outdated, s.packs[p] # None,
                      NEW k \in DOMAIN s.packs[p].entries
               PROVE  s.packs[p].entries[k].contents \subseteq s.contents
    BY <1>1 DEF KeepsKnown, NamesKnownContents
  <2>2. row.packs[p].entries[k].contents \subseteq row.contents
    BY <1>2, <2>1 DEF NamesKnownContents, Alike
  <2> QED
    BY <1>2, <2>2 DEF Alike
<1> QED
  BY <1>5, <1>6, <1>7

\* Other slots leave the rest of a row as it was.
LEMMA SlotsAlike ==
  ASSUME Sound(row), NEW m, NEW slots
  PROVE  Alike(row, WithSlots(m, slots))
BY EditAlike DEF WithSlots

\* Changes of the catalogue.
LEMMA CatalogueStep ==
  ASSUME Stored, NEW i \in Instances, Catalogue(i)
  PROVE  Stored' /\ Quiet /\ KeepsKnown
<1> DEFINE Goal == Stored' /\ Quiet /\ KeepsKnown
<1>0. Sound(row)
  BY DEF Stored
<1>1. ASSUME NEW o \in Offers, NEW slots \in SUBSET Slots, RegisterMod(i, o, slots) PROVE Goal
  <2> DEFINE r == WithSlots(o.mod, slots)
             x == Append(Unregistered(r.versions, o), o)
             s == [r EXCEPT !.versions = x]
  <2>1. Alike(row, r) /\ Sound(r)
    BY <1>0, SlotsAlike DEF Alike
  <2>2. Mutate(i, s) /\ UNCHANGED <<request, counts>>
    BY <1>1 DEF RegisterMod
  <2> HIDE DEF r
  <2>3. x \in Manifests
    BY <2>1, RegisteredTyped DEF Sound
  <2> HIDE DEF x
  <2>4. Alike(r, s)
    BY <2>1, <2>3, EditAlike
  <2> HIDE DEF s
  <2>5. Alike(row, s)
    BY <2>1, <2>4 DEF Alike, Keeps
  <2> QED
    BY <2>2, <2>5, AlikeStep
<1>2. ASSUME NEW m \in Mods, NEW slots \in SUBSET Slots, SetSlots(i, m, slots) PROVE Goal
  <2>1. PICK gone : Mutate(i, Purged(WithSlots(m, slots), gone)) /\ UNCHANGED <<request, counts>>
    BY <1>2 DEF SetSlots
  <2> QED
    BY <1>0, <2>1, SlotsAlike, PurgeStep
<1>3. ASSUME NEW k \in Contents, SubmitContent(i, k) PROVE Goal
  <2> DEFINE s == [row EXCEPT !.contents = row.contents \cup {k}]
  <2>1. Mutate(i, s) /\ UNCHANGED <<request, issued, done, current, outdated>>
    BY <1>3 DEF SubmitContent, counts
  <2>2. /\ Sound(s) /\ Keeps(row, s) /\ s.contents = row.contents \cup {k}
        /\ s.packs = row.packs /\ s.releases = row.releases /\ s.tokens = row.tokens
    <3>1. row.contents \cup {k} \subseteq Contents
      BY <1>0 DEF Sound
    <3> QED
      BY <1>0, <3>1, ContentSet
  <2> HIDE DEF s
  <2>3. row' = s
    BY <2>1 DEF Mutate
  <2>4. Stored'
    BY <2>1, <2>2, MutateSound DEF Stored
  <2> QED
    BY <2>1, <2>2, <2>3, <2>4 DEF Quiet, KeepsKnown, NamesKnownContents
<1>4. ASSUME NEW k \in Contents, DeleteContent(i, k) PROVE Goal
  <2>1. Alike(row, row)
    BY <1>0 DEF Alike, Keeps
  <2> QED
    BY <1>4, <2>1, PurgeStep DEF DeleteContent
<1>5. ASSUME NEW h, NEW approved \in BOOLEAN, Review(i, h, approved) PROVE Goal
  <2>1. PICK x : Mutate(i, [row EXCEPT !.licensed = x])
    BY <1>5 DEF Review
  <2> QED
    BY <1>0, <1>5, <2>1, EditAlike, AlikeStep DEF Review
<1>6. ASSUME NEW h, Ban(i, h) PROVE Goal
  <2>1. PICK x : Mutate(i, [row EXCEPT !.banned = x])
    BY <1>6 DEF Ban
  <2> QED
    BY <1>0, <1>6, <2>1, EditAlike, AlikeStep DEF Ban
<1> QED
  BY <1>1, <1>2, <1>3, <1>4, <1>5, <1>6 DEF Catalogue

\* What a request holds between its snapshot and its mutation may change.
LEMMA RequestStep ==
  ASSUME Stored, NEW w \in Operators, NEW q, q = None \/ Holds(q),
         request' = [request EXCEPT ![w] = q], UNCHANGED <<row, copy, history>>
  PROVE  Stored' /\ Quiet /\ KeepsKnown
<1>1. \A v \in Operators : request'[v] # None => Holds(request'[v])
  BY DEF Stored
<1>2. \A v \in Operators : request'[v] # None => Holds(request[v])' \/ Holds(q)'
  BY <1>1 DEF Stored, Holds
<1>3. \A v \in Operators : request'[v] # None => Holds(request[v])'
  BY <1>1 DEF Stored, Holds
<1>4. Stored'
  BY <1>3 DEF Stored, history
<1> QED
  BY <1>4 DEF Quiet, KeepsKnown, NamesKnownContents, history

\* The contents of a pack that is saved are those of the snapshot.
LEMMA SaveReadStep ==
  ASSUME Stored, NEW w \in Operators, NEW i \in Instances, NEW p \in Packs, NEW a \in Requests,
         SaveRead(w, i, p, a)
  PROVE  Stored' /\ Quiet /\ KeepsKnown
<1> DEFINE c == copy[i]
           manifest == ExpandPackEntries(c, a.entries, a.game)
           entries == [k \in DOMAIN manifest |->
                         [mod |-> manifest[k].mod, version |-> manifest[k].version,
                          contents |-> ContentsAsked(a.entries, manifest[k].mod)]]
           value == [game |-> a.game, entries |-> entries, latest |-> 0]
           q == [kind |-> "save", instance |-> i, pack |-> p, checked |-> Checked(c), value |-> value]
<1>1. /\ manifest \in Manifests
      /\ \A k \in DOMAIN manifest : ContentsFit(c, manifest[k].mod, entries[k].contents)
      /\ request' = [request EXCEPT ![w] = q]
      /\ UNCHANGED <<row, copy, history>>
  BY DEF SaveRead
<1>2. c.contents \subseteq Contents
  BY DEF Stored, Sound
<1> HIDE DEF manifest, c
<1>3. DOMAIN manifest = 1..Len(manifest) /\ Len(manifest) \in Nat
      /\ \A k \in DOMAIN manifest : manifest[k] \in Offers
  BY <1>1 DEF Manifests
<1>4. \A k \in DOMAIN manifest : entries[k].contents \subseteq c.contents
  BY <1>1 DEF ContentsFit
<1>5. \A k \in DOMAIN manifest : entries[k] \in Entry
  BY <1>2, <1>3, <1>4 DEF Entry
<1>6. DOMAIN entries = DOMAIN manifest
  OBVIOUS
<1> HIDE DEF entries
<1>7. entries \in Seq(Entry)
  <2>1. entries \in [1..Len(manifest) -> Entry]
    BY <1>3, <1>5, <1>6 DEF entries
  <2> QED
    BY <1>3, <2>1
<1>8. value \in StoredPack /\ value.entries = entries
  BY <1>7, ReleasesAssumption DEF StoredPack
<1>9. Checked(c)[2] = c.contents
  BY DEF Checked
<1> HIDE DEF value
<1>10. Holds(q)
  BY <1>4, <1>6, <1>8, <1>9 DEF Holds
<1> QED
  BY <1>1, <1>10, RequestStep

\* The releases of a pack are counted.
LEMMA CountedReleases ==
  ASSUME NEW r, Sound(r), NEW p
  PROVE  IsFiniteSet(ReleasesOf(r, p)) /\ ReleaseNumber(r, p) \in Nat
<1>1. DOMAIN r.releases = 1..Len(r.releases) /\ Len(r.releases) \in Nat
  BY DEF Sound
<1>2. IsFiniteSet(1..Len(r.releases))
  BY <1>1, FS_Interval
<1>3. ReleasesOf(r, p) \subseteq 1..Len(r.releases)
  BY <1>1 DEF ReleasesOf
<1>4. IsFiniteSet(ReleasesOf(r, p))
  BY <1>2, <1>3, FS_Subset
<1>5. Cardinality(ReleasesOf(r, p)) \in Nat
  BY <1>4, FS_CardinalityType
<1> QED
  BY <1>4, <1>5 DEF ReleaseNumber

\* A publish that read this state holds a manifest that stays sound.
LEMMA PublishReadStep ==
  ASSUME Stored, NEW w \in Operators, NEW i \in Instances, NEW p \in Packs, PublishRead(w, i, p)
  PROVE  Stored' /\ Quiet /\ KeepsKnown
<1> DEFINE c == copy[i]
           pack == c.packs[p]
           manifest == ExpandPackEntries(c, pack.entries, pack.game)
           asked(k) == ContentsAsked(pack.entries, manifest[k].mod)
           overlays == UNION {Overlays(c, asked(k)) : k \in DOMAIN manifest}
           value == [pack |-> p, number |-> ReleaseNumber(c, p), mods |-> manifest,
                     overlays |-> overlays, previous |-> ActiveRelease(c, p), revoked |-> FALSE]
           q == [kind |-> "publish", instance |-> i, pack |-> p, value |-> value]
<1>1. /\ pack # None /\ manifest \in Manifests
      /\ request' = [request EXCEPT ![w] = q]
      /\ UNCHANGED <<row, copy, history>>
  BY DEF PublishRead
<1>2. Sound(c) /\ Keeps(c, row)
  BY DEF Stored
<1> HIDE DEF c
<1>3. ReleaseNumber(c, p) \in Nat
  BY <1>2, CountedReleases
<1>4. ActiveRelease(c, p) \in Nat
  <2>1. pack \in StoredPack
    BY <1>1, <1>2 DEF Sound
  <2>2. c.packs[p].latest \in Nat
    BY <2>1 DEF StoredPack
  <2> QED
    BY <2>2 DEF ActiveRelease
<1>5. overlays \subseteq Contents
  <2>1. \A k : Overlays(c, asked(k)) \subseteq c.contents
    BY DEF Overlays
  <2>2. c.contents \subseteq Contents
    BY <1>2 DEF Sound
  <2> HIDE DEF asked, manifest
  <2> QED
    BY <2>1, <2>2
<1> HIDE DEF overlays, manifest
<1>6. value \in StoredRelease /\ value.pack = p
  BY <1>1, <1>3, <1>4, <1>5 DEF StoredRelease
<1>7. row.packs[p] # None
  BY <1>1, <1>2 DEF Keeps
<1> HIDE DEF value, pack
<1>8. Holds(q)
  BY <1>6, <1>7 DEF Holds
<1> QED
  BY <1>1, <1>8, RequestStep

\* Requests that end without a mutation.
LEMMA FailsStep ==
  ASSUME Stored, NEW w \in Operators, Fails(w)
  PROVE  Stored' /\ Quiet /\ KeepsKnown
BY RequestStep DEF Fails

(***************************************************************************)
(* Mutations of packs, releases and tokens.                                *)
(***************************************************************************)
\* A pack's row is the one of its request.
LEMMA SaveWriteStep ==
  ASSUME Stored, NEW w \in Operators, SaveWrite(w)
  PROVE  Stored' /\ Quiet /\ KeepsKnown
<1> DEFINE q == request[w]
           known == row.packs[q.pack]
           latest == IF known = None THEN 0 ELSE known.latest
           new == [q.value EXCEPT !.latest = latest]
           packs == [row.packs EXCEPT ![q.pack] = new]
           s == [row EXCEPT !.packs = packs]
<1>1. /\ q # None /\ q.kind = "save" /\ Mutate(q.instance, s)
      /\ outdated' = IF q.checked = Checked(row) THEN outdated \ {q.pack} ELSE outdated \cup {q.pack}
      /\ request' = [request EXCEPT ![w] = None] /\ UNCHANGED <<issued, done, current>>
  <2>1. [row EXCEPT !.packs[q.pack] = new] = s
    OBVIOUS
  <2> QED
    BY <2>1 DEF SaveWrite
<1>2. /\ q.instance \in Instances /\ q.pack \in Packs /\ q.value \in StoredPack
      /\ \A k \in DOMAIN q.value.entries : q.value.entries[k].contents \subseteq q.checked[2]
  BY <1>1 DEF Stored, Holds
<1>3. Sound(row)
  BY DEF Stored
<1>4. latest \in Nat
  <2>1. known # None => known \in StoredPack
    BY <1>2, <1>3 DEF Sound
  <2> QED
    BY <2>1 DEF StoredPack
<1> HIDE DEF latest
<1>5. new \in StoredPack /\ new.entries = q.value.entries
  BY <1>2, <1>4 DEF StoredPack
<1>6. new # None
  BY <1>5, NoneStored
<1> HIDE DEF new
<1>7. packs \in [Packs -> StoredPack \cup {None}] /\ \A p \in Packs : row.packs[p] # None => packs[p] # None
  BY <1>2, <1>3, <1>5, <1>6 DEF Sound
<1>8. \A p \in Packs : packs[p] = IF p = q.pack THEN new ELSE row.packs[p]
  BY <1>2, <1>3 DEF Sound
<1> HIDE DEF packs
<1>9. /\ Sound(s) /\ Keeps(row, s) /\ s.packs = packs
      /\ s.releases = row.releases /\ s.contents = row.contents /\ s.tokens = row.tokens
  BY <1>3, <1>7, PackSet
<1> HIDE DEF s
<1>10. row' = s /\ copy' = [copy EXCEPT ![q.instance] = s]
  BY <1>1 DEF Mutate
<1>11. Stored'
  <2>1. \A j \in Instances : copy'[j] = IF j = q.instance THEN s ELSE copy[j]
    BY <1>10 DEF Stored
  <2>2. copy' \in [Instances -> {copy'[j] : j \in Instances}]
    BY <1>10 DEF Stored
  <2>3. \A j \in Instances : Sound(copy'[j]) /\ Keeps(copy'[j], s)
    BY <2>1, <1>9 DEF Stored, Keeps
  <2>4. \A v \in Operators : request'[v] # None => Holds(request[v])' /\ request'[v] = request[v]
    BY <1>1, <1>9, <1>10 DEF Stored, Holds, Keeps
  <2>5. \A v \in Operators : request'[v] # None => Holds(request[v])'
    BY <2>4
  <2>6. DOMAIN request' = Operators /\ issued' \in Nat /\ done' \in Nat
    BY <1>1 DEF Stored
  <2> QED
    BY <1>9, <1>10, <2>2, <2>3, <2>5, <2>6 DEF Stored
<1>12. Quiet
  BY <1>1, <1>9, <1>10 DEF Quiet
<1>13. KeepsKnown
  <2> SUFFICES ASSUME NamesKnownContents, NEW p \in Packs \ outdated', s.packs[p] # None,
                      NEW k \in DOMAIN s.packs[p].entries
               PROVE  s.packs[p].entries[k].contents \subseteq s.contents
    BY <1>10 DEF KeepsKnown, NamesKnownContents
  <2>1. CASE p = q.pack
    <3>1. q.checked[2] = row.contents
      BY <1>1, <2>1 DEF Checked
    <3> QED
      BY <1>2, <1>5, <1>8, <1>9, <2>1, <3>1
  <2>2. CASE p # q.pack
    <3>1. p \in Packs \ outdated
      BY <1>1, <2>2
    <3> QED
      BY <1>8, <1>9, <2>2, <3>1 DEF NamesKnownContents
  <2> QED
    BY <2>1, <2>2
<1> QED
  BY <1>11, <1>12, <1>13

\* What is known of the numbers: a release that none was written before, since
\* its snapshot, has as its number how many of its pack there were.
Earlier(n) == {m \in 1..(n - 1) : row.releases[m].pack = row.releases[n].pack}

Numbered ==
  \A n \in current : n \in DOMAIN row.releases /\ row.releases[n].number = Cardinality(Earlier(n)) + 1

\* A step that leaves packs and numbers of releases as they are.
SameNames ==
  /\ DOMAIN row'.releases = DOMAIN row.releases /\ current' = current
  /\ \A n \in DOMAIN row.releases : /\ row'.releases[n].pack = row.releases[n].pack
                                    /\ row'.releases[n].number = row.releases[n].number

\* A step that adds and withdraws no release keeps every number.
LEMMA SameNumbered ==
  ASSUME Stored, Numbered, SameNames
  PROVE  Numbered'
<1> SUFFICES ASSUME NEW n \in current
             PROVE  n \in DOMAIN row'.releases /\ row'.releases[n].number = Cardinality(Earlier(n)') + 1
  BY DEF SameNames, Numbered
<1>1. n \in DOMAIN row.releases /\ DOMAIN row.releases = 1..Len(row.releases) /\ Len(row.releases) \in Nat
  BY DEF Stored, Sound, Numbered
<1>2. \A m \in 1..(n - 1) : m \in DOMAIN row.releases
  BY <1>1
<1>3. Earlier(n)' = Earlier(n)
  BY <1>1, <1>2 DEF Earlier, SameNames
<1> QED
  BY <1>1, <1>3 DEF Numbered, SameNames

\* A release that is stored: when none of its pack was written since the
\* snapshot, its number is how many there were, and it is the last one.
LEMMA PublishWriteStep ==
  ASSUME Stored, NEW w \in Operators, PublishWrite(w)
  PROVE  /\ Stored' /\ KeepsKnown /\ (Numbered => Numbered')
         /\ row'.tokens = row.tokens /\ UNCHANGED <<issued, done>>
<1> DEFINE q == request[w]
           n == Len(row.releases) + 1
           releases == Append(row.releases, q.value)
           t == [row EXCEPT !.releases = releases]
           new == [row.packs[q.pack] EXCEPT !.latest = n]
           packs == [row.packs EXCEPT ![q.pack] = new]
           s == [t EXCEPT !.packs = packs]
<1>1. Sound(row)
  BY DEF Stored
<1>2. /\ q # None /\ q.kind = "publish" /\ Mutate(q.instance, s)
      /\ current' = IF ReleaseNumber(row, q.pack) = q.value.number THEN current \cup {n} ELSE current
      /\ request' = [request EXCEPT ![w] = None] /\ UNCHANGED <<issued, done, outdated>>
  <2>1. [row EXCEPT !.releases = Append(@, q.value), !.packs[q.pack].latest = n] = s
    BY <1>1 DEF Sound, Rec
  <2> QED
    BY <2>1 DEF PublishWrite
<1>3. /\ q.instance \in Instances /\ q.pack \in Packs /\ q.value \in StoredRelease
      /\ q.value.pack = q.pack /\ row.packs[q.pack] # None
  BY <1>2 DEF Stored, Holds
<1>4. /\ row.releases \in Seq(StoredRelease) /\ Len(row.releases) \in Nat
      /\ DOMAIN row.releases = 1..Len(row.releases)
  BY <1>1 DEF Sound
<1>5. /\ releases \in Seq(StoredRelease) /\ DOMAIN releases = 1..n
      /\ releases[n] = q.value /\ \A m \in DOMAIN row.releases : releases[m] = row.releases[m]
  BY <1>3, <1>4
<1> HIDE DEF releases
<1>6. \A m \in DOMAIN releases : row.packs[releases[m].pack] # None
  <2> SUFFICES ASSUME NEW m \in 1..n
               PROVE  row.packs[releases[m].pack] # None
    BY <1>5
  <2>1. m = n \/ m \in DOMAIN row.releases
    BY <1>4
  <2> QED
    BY <1>1, <1>3, <1>5, <2>1 DEF Sound
<1>7. /\ Sound(t) /\ Keeps(row, t) /\ t.releases = releases
      /\ t.packs = row.packs /\ t.contents = row.contents /\ t.tokens = row.tokens
  BY <1>1, <1>5, <1>6, ReleaseSet
<1> HIDE DEF t
<1>8. new \in StoredPack /\ new.entries = row.packs[q.pack].entries
  <2>1. row.packs[q.pack] \in StoredPack
    BY <1>1, <1>3 DEF Sound
  <2> QED
    BY <1>4, <2>1, SMTT(30) DEF StoredPack
<1>9. new # None
  BY <1>8, NoneStored
<1> HIDE DEF new
<1>10. packs \in [Packs -> StoredPack \cup {None}] /\ \A p \in Packs : t.packs[p] # None => packs[p] # None
  BY <1>1, <1>3, <1>7, <1>8, <1>9 DEF Sound
<1>11. \A p \in Packs : packs[p] = IF p = q.pack THEN new ELSE row.packs[p]
  BY <1>3, <1>1 DEF Sound
<1> HIDE DEF packs
<1>12. /\ Sound(s) /\ Keeps(t, s) /\ s.packs = packs
       /\ s.releases = releases /\ s.contents = row.contents /\ s.tokens = row.tokens
  BY <1>7, <1>10, PackSet
<1> HIDE DEF s
<1>13. row' = s /\ copy' = [copy EXCEPT ![q.instance] = s] /\ Keeps(row, s)
  BY <1>2, <1>7, <1>12 DEF Mutate, Keeps
<1>14. Stored'
  <2>1. \A j \in Instances : copy'[j] = IF j = q.instance THEN s ELSE copy[j]
    BY <1>13 DEF Stored
  <2>2. copy' \in [Instances -> {copy'[j] : j \in Instances}]
    BY <1>13 DEF Stored
  <2>3. \A j \in Instances : Sound(copy'[j]) /\ Keeps(copy'[j], s)
    BY <2>1, <1>12, <1>13 DEF Stored, Keeps
  <2>4. \A v \in Operators : request'[v] # None => Holds(request[v])' /\ request'[v] = request[v]
    BY <1>2, <1>13 DEF Stored, Holds, Keeps
  <2>5. \A v \in Operators : request'[v] # None => Holds(request[v])'
    BY <2>4
  <2>6. DOMAIN request' = Operators /\ issued' \in Nat /\ done' \in Nat
    BY <1>2 DEF Stored
  <2> QED
    BY <1>12, <1>13, <2>2, <2>3, <2>5, <2>6 DEF Stored
<1>15. KeepsKnown
  <2> SUFFICES ASSUME NamesKnownContents, NEW p \in Packs \ outdated, s.packs[p] # None,
                      NEW k \in DOMAIN s.packs[p].entries
               PROVE  s.packs[p].entries[k].contents \subseteq s.contents
    BY <1>2, <1>13 DEF KeepsKnown, NamesKnownContents
  <2>1. row.packs[p] # None /\ s.packs[p].entries = row.packs[p].entries
    BY <1>3, <1>8, <1>11, <1>12
  <2> QED
    BY <1>12, <2>1 DEF NamesKnownContents
<1>16. ASSUME Numbered PROVE Numbered'
  <2> SUFFICES ASSUME NEW m \in current'
               PROVE  m \in DOMAIN row'.releases /\ row'.releases[m].number = Cardinality(Earlier(m)') + 1
    BY DEF Numbered
  <2>1. CASE m \in current
    <3>1. m \in DOMAIN row.releases /\ m \in 1..n
      BY <1>4, <1>16, <2>1 DEF Numbered
    <3>2. \A k \in 1..(m - 1) : k \in DOMAIN row.releases
      BY <1>4, <3>1
    <3>3. Earlier(m)' = Earlier(m)
      BY <1>5, <1>12, <1>13, <3>1, <3>2 DEF Earlier
    <3> QED
      BY <1>5, <1>12, <1>13, <1>16, <2>1, <3>1, <3>3 DEF Numbered
  <2>2. CASE m \notin current
    <3>1. m = n /\ q.value.number = ReleaseNumber(row, q.pack)
      BY <1>2, <2>2
    <3>2. n \in 1..n /\ 1..(n - 1) = DOMAIN row.releases
      BY <1>4
    <3>3. 1..(m - 1) = DOMAIN row.releases /\ row'.releases[m] = q.value
      BY <1>5, <1>12, <1>13, <3>1, <3>2
    <3>4. \A k \in DOMAIN row.releases : row'.releases[k] = row.releases[k]
      BY <1>5, <1>12, <1>13
    <3>5. Earlier(m)' = ReleasesOf(row, q.pack)
      BY <1>3, <3>3, <3>4 DEF Earlier, ReleasesOf
    <3>6. m \in DOMAIN row'.releases
      BY <1>5, <1>12, <1>13, <3>1, <3>2
    <3> QED
      BY <3>1, <3>3, <3>5, <3>6 DEF ReleaseNumber
  <2> QED
    BY <2>1, <2>2
<1> QED
  BY <1>2, <1>12, <1>13, <1>14, <1>15, <1>16

\* The tokens of all actions, when those of one of them change.
LEMMA TokensChange ==
  ASSUME Stored, NEW a \in Dangerous, NEW n \in Nat, row'.tokens = [row.tokens EXCEPT ![a] = n]
  PROVE  Tokens \in Nat /\ Tokens' = Tokens - row.tokens[a] + n
<1>1. row.tokens \in [Dangerous -> Nat]
  BY DEF Stored, Sound
<1>2. /\ row.tokens["release.revoke"] \in Nat /\ row.tokens["pack.rollback"] \in Nat
      /\ row.tokens["distribution.pause"] \in Nat /\ row.tokens["distribution.resume"] \in Nat
  BY <1>1 DEF Dangerous
<1>3. CASE a = "release.revoke"
  BY <1>1, <1>2, <1>3 DEF Tokens, Dangerous
<1>4. CASE a = "pack.rollback"
  BY <1>1, <1>2, <1>4 DEF Tokens, Dangerous
<1>5. CASE a = "distribution.pause"
  BY <1>1, <1>2, <1>5 DEF Tokens, Dangerous
<1>6. CASE a = "distribution.resume"
  BY <1>1, <1>2, <1>6 DEF Tokens, Dangerous
<1> QED
  BY <1>3, <1>4, <1>5, <1>6 DEF Dangerous

\* What the steps that issue and use up confirmations keep.
Kept == Stored' /\ KeepsKnown /\ SameNames /\ (EveryDangerConfirmed => EveryDangerConfirmed')

\* A confirmation that is issued is one more of them, and nothing else.
LEMMA ConfirmStep ==
  ASSUME Stored, NEW i \in Instances, NEW a \in Dangerous, Confirm(i, a)
  PROVE  Kept
<1> DEFINE n == row.tokens[a] + 1
           s == [row EXCEPT !.tokens[a] = n]
<1>1. Sound(row) /\ row.tokens[a] \in Nat /\ n \in Nat
  BY DEF Stored, Sound
<1>2. Mutate(i, s) /\ issued' = issued + 1 /\ UNCHANGED <<request, done, current, outdated>>
  BY DEF Confirm
<1> HIDE DEF n
<1>3. /\ Sound(s) /\ Keeps(row, s) /\ s.tokens = [row.tokens EXCEPT ![a] = n]
      /\ s.packs = row.packs /\ s.releases = row.releases /\ s.contents = row.contents
  BY <1>1, TokenCount
<1> HIDE DEF s
<1>4. row' = s
  BY <1>2 DEF Mutate
<1>5. Stored'
  BY <1>2, <1>3, MutateSound DEF Stored
<1>6. KeepsKnown /\ SameNames
  BY <1>2, <1>3, <1>4 DEF KeepsKnown, NamesKnownContents, SameNames
<1>7. Tokens \in Nat /\ Tokens' = Tokens + 1
  <2>1. Tokens \in Nat /\ Tokens' = Tokens - row.tokens[a] + n
    BY <1>1, <1>3, <1>4, TokensChange
  <2> QED
    BY <1>1, <2>1 DEF n
<1>8. EveryDangerConfirmed => EveryDangerConfirmed'
  BY <1>2, <1>7 DEF EveryDangerConfirmed, Stored
<1> QED
  BY <1>5, <1>6, <1>8 DEF Kept

\* The row without a token of an action.
LEMMA ConsumedSound ==
  ASSUME Stored, NEW a \in Dangerous, row.tokens[a] > 0
  PROVE  /\ Sound(Consumed(a)) /\ Keeps(row, Consumed(a))
         /\ Consumed(a).packs = row.packs /\ Consumed(a).releases = row.releases
         /\ Consumed(a).contents = row.contents
         /\ Consumed(a).tokens = [row.tokens EXCEPT ![a] = row.tokens[a] - 1]
         /\ row.tokens[a] - 1 \in Nat
<1> DEFINE n == row.tokens[a] - 1
<1>1. Sound(row) /\ row.tokens[a] \in Nat
  BY DEF Stored, Sound
<1>2. n \in Nat
  BY <1>1
<1>3. Consumed(a) = [row EXCEPT !.tokens[a] = n]
  BY DEF Consumed
<1> HIDE DEF n
<1>4. LET s == [row EXCEPT !.tokens[a] = n] IN
      /\ Sound(s) /\ Keeps(row, s) /\ s.tokens = [row.tokens EXCEPT ![a] = n]
      /\ s.packs = row.packs /\ s.releases = row.releases /\ s.contents = row.contents
  BY <1>1, <1>2, TokenCount
<1>5. n = row.tokens[a] - 1
  BY DEF n
<1> QED
  BY <1>2, <1>3, <1>4, <1>5

\* A dangerous action, or one that finds no release, uses up a token.
LEMMA TokenUsed ==
  ASSUME Stored, NEW a \in Dangerous, row.tokens[a] > 0, done' \in {done, done + 1}, issued' = issued,
         row'.tokens = [row.tokens EXCEPT ![a] = row.tokens[a] - 1]
  PROVE  EveryDangerConfirmed => EveryDangerConfirmed'
<1>1. row.tokens[a] \in Nat /\ row.tokens[a] - 1 \in Nat
  BY DEF Stored, Sound
<1>2. Tokens \in Nat /\ Tokens' = Tokens - row.tokens[a] + (row.tokens[a] - 1)
  BY <1>1, TokensChange
<1>3. Tokens' = Tokens - 1
  BY <1>1, <1>2
<1> QED
  BY <1>2, <1>3 DEF EveryDangerConfirmed, Stored

\* A danger refused after its confirmation was used changes no release.
LEMMA NotFoundStep ==
  ASSUME Stored, NEW i \in Instances, NEW a \in Dangerous, NotFound(i, a)
  PROVE  Kept
<1>1. row.tokens[a] > 0 /\ Mutate(i, Consumed(a)) /\ UNCHANGED <<request, issued, done, current, outdated>>
  BY DEF NotFound, history
<1>2. /\ Sound(Consumed(a)) /\ Keeps(row, Consumed(a))
      /\ Consumed(a).packs = row.packs /\ Consumed(a).releases = row.releases
      /\ Consumed(a).contents = row.contents
      /\ Consumed(a).tokens = [row.tokens EXCEPT ![a] = row.tokens[a] - 1]
  BY <1>1, ConsumedSound
<1>3. row' = Consumed(a)
  BY <1>1 DEF Mutate
<1>4. Stored'
  BY <1>1, <1>2, MutateSound DEF Stored
<1>5. KeepsKnown /\ SameNames
  BY <1>1, <1>2, <1>3 DEF KeepsKnown, NamesKnownContents, SameNames
<1>6. EveryDangerConfirmed => EveryDangerConfirmed'
  BY <1>1, <1>2, <1>3, TokenUsed
<1> QED
  BY <1>4, <1>5, <1>6 DEF Kept

\* A confirmation that expires takes none of the others.
LEMMA ExpiresStep ==
  ASSUME Stored, NEW a \in Dangerous, ConfirmExpires(a)
  PROVE  Kept
<1>1. row.tokens[a] > 0 /\ row' = Consumed(a) /\ UNCHANGED <<copy, request, issued, done, current, outdated>>
  BY DEF ConfirmExpires, Consumed, history
<1>2. /\ Sound(Consumed(a)) /\ Keeps(row, Consumed(a))
      /\ Consumed(a).packs = row.packs /\ Consumed(a).releases = row.releases
      /\ Consumed(a).contents = row.contents
      /\ Consumed(a).tokens = [row.tokens EXCEPT ![a] = row.tokens[a] - 1]
  BY <1>1, ConsumedSound
<1>3. Stored'
  <2>1. \A w \in Operators : request[w] # None => Holds(request[w])'
    BY <1>1, <1>2 DEF Stored, Holds, Keeps
  <2>2. \A i \in Instances : Sound(copy[i]) /\ Keeps(copy[i], row')
    BY <1>1, <1>2 DEF Stored, Keeps
  <2> QED
    BY <1>1, <1>2, <2>1, <2>2 DEF Stored
<1>4. KeepsKnown /\ SameNames
  BY <1>1, <1>2 DEF KeepsKnown, NamesKnownContents, SameNames
<1>5. EveryDangerConfirmed => EveryDangerConfirmed'
  BY <1>1, <1>2, TokenUsed
<1> QED
  BY <1>3, <1>4, <1>5 DEF Kept

\* A revocation changes no pack and no number of a release.
LEMMA RevokeStep ==
  ASSUME Stored, NEW i \in Instances, NEW p \in Packs, NEW n, Revoke(i, p, n)
  PROVE  Kept
<1> DEFINE a == "release.revoke"
           t == Consumed(a)
           new == [t.releases[n] EXCEPT !.revoked = TRUE]
           x == [t.releases EXCEPT ![n] = new]
           s == [t EXCEPT !.releases = x]
<1>0. a \in Dangerous
  BY DEF Dangerous
<1>1. /\ n \in DOMAIN row.releases /\ row.tokens[a] > 0 /\ done' = done + 1 /\ Mutate(i, s)
      /\ UNCHANGED <<request, issued, current, outdated>>
  <2>1. [t EXCEPT !.releases[n].revoked = TRUE] = s
    OBVIOUS
  <2> QED
    BY <2>1 DEF Revoke, Danger, ReleasesOf
<1>2. /\ Sound(t) /\ Keeps(row, t)
      /\ t.packs = row.packs /\ t.releases = row.releases /\ t.contents = row.contents
      /\ t.tokens = [row.tokens EXCEPT ![a] = row.tokens[a] - 1]
  BY <1>0, <1>1, ConsumedSound
<1> HIDE DEF t, a
<1>3. t.releases[n] \in StoredRelease
  BY <1>1, <1>2, ReleasePack
<1>4. new \in StoredRelease /\ new.pack = t.releases[n].pack /\ new.number = t.releases[n].number
  BY <1>3 DEF StoredRelease
<1> HIDE DEF new
<1>5. /\ x \in Seq(StoredRelease) /\ DOMAIN x = DOMAIN t.releases
      /\ \A m \in DOMAIN t.releases : /\ x[m].pack = t.releases[m].pack
                                      /\ x[m].number = t.releases[m].number
  <2>1. t.releases \in Seq(StoredRelease)
    BY <1>2 DEF Sound
  <2> QED
    BY <1>1, <1>2, <1>4, <2>1
<1>6. \A m \in DOMAIN x : t.packs[x[m].pack] # None
  BY <1>2, <1>5 DEF Sound
<1> HIDE DEF x
<1>7. /\ Sound(s) /\ Keeps(t, s) /\ s.releases = x
      /\ s.packs = t.packs /\ s.contents = t.contents /\ s.tokens = t.tokens
  BY <1>2, <1>5, <1>6, ReleaseSet
<1> HIDE DEF s
<1>8. row' = s /\ Keeps(row, s)
  BY <1>1, <1>2, <1>7 DEF Mutate, Keeps
<1>9. Stored'
  <2>1. issued' \in Nat /\ done' \in Nat
    BY <1>1 DEF Stored
  <2> QED
    BY <1>1, <1>7, <1>8, <2>1, MutateSound
<1>10. KeepsKnown /\ SameNames
  BY <1>1, <1>2, <1>5, <1>7, <1>8 DEF KeepsKnown, NamesKnownContents, SameNames
<1>11. EveryDangerConfirmed => EveryDangerConfirmed'
  BY <1>0, <1>1, <1>2, <1>7, <1>8, TokenUsed
<1> QED
  BY <1>9, <1>10, <1>11 DEF Kept

\* Nor does a rollback: it changes what release is a pack's latest.
LEMMA RollbackStep ==
  ASSUME Stored, NEW i \in Instances, NEW p \in Packs, NEW n \in Nat, Rollback(i, p, n)
  PROVE  Kept
<1> DEFINE a == "pack.rollback"
           t == Consumed(a)
           new == [t.packs[p] EXCEPT !.latest = n]
           x == [t.packs EXCEPT ![p] = new]
           s == [t EXCEPT !.packs = x]
<1>0. a \in Dangerous
  BY DEF Dangerous
<1>1. /\ n \in DOMAIN row.releases /\ row.releases[n].pack = p /\ row.tokens[a] > 0
      /\ done' = done + 1 /\ Mutate(i, s)
      /\ UNCHANGED <<request, issued, current, outdated>>
  <2>1. [t EXCEPT !.packs[p].latest = n] = s
    OBVIOUS
  <2> QED
    BY <2>1 DEF Rollback, Danger, ReleasesOf
<1>2. /\ Sound(t) /\ Keeps(row, t)
      /\ t.packs = row.packs /\ t.releases = row.releases /\ t.contents = row.contents
      /\ t.tokens = [row.tokens EXCEPT ![a] = row.tokens[a] - 1]
  BY <1>0, <1>1, ConsumedSound
<1> HIDE DEF t, a
<1>3. t.packs[p] \in StoredPack
  BY <1>1, <1>2 DEF Sound
<1>4. new \in StoredPack /\ new.entries = t.packs[p].entries
  BY <1>3 DEF StoredPack
<1>5. new # None
  BY <1>4, NoneStored
<1> HIDE DEF new
<1>6. /\ x \in [Packs -> StoredPack \cup {None}]
      /\ \A o \in Packs : /\ t.packs[o] # None => x[o] # None
                          /\ x[o] = IF o = p THEN new ELSE t.packs[o]
  BY <1>2, <1>4, <1>5 DEF Sound
<1> HIDE DEF x
<1>7. /\ Sound(s) /\ Keeps(t, s) /\ s.packs = x
      /\ s.releases = t.releases /\ s.contents = t.contents /\ s.tokens = t.tokens
  BY <1>2, <1>6, PackSet
<1> HIDE DEF s
<1>8. row' = s /\ Keeps(row, s)
  BY <1>1, <1>2, <1>7 DEF Mutate, Keeps
<1>9. Stored'
  <2>1. issued' \in Nat /\ done' \in Nat
    BY <1>1 DEF Stored
  <2> QED
    BY <1>1, <1>7, <1>8, <2>1, MutateSound
<1>10. SameNames
  BY <1>1, <1>2, <1>7, <1>8 DEF SameNames
<1>11. KeepsKnown
  <2> SUFFICES ASSUME NamesKnownContents, NEW o \in Packs \ outdated, s.packs[o] # None,
                      NEW k \in DOMAIN s.packs[o].entries
               PROVE  s.packs[o].entries[k].contents \subseteq s.contents
    BY <1>1, <1>8 DEF KeepsKnown, NamesKnownContents
  <2>1. s.packs[o].entries = row.packs[o].entries /\ row.packs[o] # None
    BY <1>2, <1>4, <1>6, <1>7, <1>3, NoneStored
  <2> QED
    BY <1>2, <1>7, <2>1 DEF NamesKnownContents
<1>12. EveryDangerConfirmed => EveryDangerConfirmed'
  BY <1>0, <1>1, <1>2, <1>7, <1>8, TokenUsed
<1> QED
  BY <1>9, <1>10, <1>11, <1>12 DEF Kept

\* A pause and a resume each use up a confirmation of their own.
LEMMA PauseStep ==
  ASSUME Stored, NEW i \in Instances, NEW paused \in BOOLEAN, Pause(i, paused)
  PROVE  Kept
<1> DEFINE a == IF paused THEN "distribution.pause" ELSE "distribution.resume"
           t == Consumed(a)
           s == [t EXCEPT !.paused = paused]
<1>0. a \in Dangerous
  BY DEF Dangerous
<1>1. /\ row.tokens[a] > 0 /\ done' = done + 1 /\ Mutate(i, s)
      /\ UNCHANGED <<request, issued, current, outdated>>
  BY DEF Pause, Danger
<1>2. /\ Sound(t) /\ Keeps(row, t)
      /\ t.packs = row.packs /\ t.releases = row.releases /\ t.contents = row.contents
      /\ t.tokens = [row.tokens EXCEPT ![a] = row.tokens[a] - 1]
  BY <1>0, <1>1, ConsumedSound
<1> HIDE DEF t, a
<1>3. Alike(t, s)
  BY <1>2, EditAlike
<1> HIDE DEF s
<1>4. row' = s /\ Sound(s) /\ Keeps(row, s) /\ s.releases = row.releases /\ s.packs = row.packs
      /\ s.contents = row.contents /\ s.tokens = [row.tokens EXCEPT ![a] = row.tokens[a] - 1]
  BY <1>1, <1>2, <1>3 DEF Mutate, Alike, Keeps
<1>5. Stored'
  <2>1. issued' \in Nat /\ done' \in Nat
    BY <1>1 DEF Stored
  <2> QED
    BY <1>1, <1>4, <2>1, MutateSound
<1>6. KeepsKnown /\ SameNames
  BY <1>1, <1>4 DEF KeepsKnown, NamesKnownContents, SameNames
<1>7. EveryDangerConfirmed => EveryDangerConfirmed'
  BY <1>0, <1>1, <1>4, TokenUsed
<1> QED
  BY <1>5, <1>6, <1>7 DEF Kept

(***************************************************************************)
(* Every step, and the theorems.                                           *)
(***************************************************************************)
Inv == Stored /\ NamesKnownContents /\ Numbered /\ EveryDangerConfirmed

\* A step that touches neither releases nor tokens.
LEMMA QuietKept ==
  ASSUME Stored, Stored', Quiet
  PROVE  SameNames /\ (EveryDangerConfirmed => EveryDangerConfirmed')
<1>1. SameNames
  BY DEF Quiet, SameNames
<1>2. Tokens' = Tokens
  BY DEF Quiet, Tokens
<1> QED
  BY <1>1, <1>2 DEF Quiet, EveryDangerConfirmed

\* The stored state at the start is sound.
LEMMA InvInit == Init => Inv
<1> SUFFICES ASSUME Init PROVE Inv
  OBVIOUS
<1> USE ReleasesAssumption
<1>1. First \in Row /\ First.releases = <<>> /\ First.tokens = [a \in Dangerous |-> 0]
  OBVIOUS
<1>2. /\ First = Rec(First.versions, First.slots, First.contents, First.licensed, First.banned,
                     First.packs, First.releases, First.paused, First.tokens)
      /\ First.versions \in Manifests /\ First.contents \subseteq Contents
      /\ First.packs \in [Packs -> Pack \cup {None}]
  BY <1>1 DEF Row, Rec, Manifests
<1>3. First.packs \in [Packs -> StoredPack \cup {None}]
  <2>1. Pack \subseteq StoredPack
    BY DEF Pack, StoredPack
  <2> QED
    BY <1>2, <2>1
<1>4. /\ First.releases \in Seq(StoredRelease) /\ DOMAIN First.releases = {}
      /\ First.tokens \in [Dangerous -> Nat]
  BY <1>1
<1>5. Sound(First)
  BY <1>2, <1>3, <1>4 DEF Sound
<1>6. Stored
  <2>1. \A i \in Instances : Sound(copy[i]) /\ Keeps(copy[i], row)
    BY <1>5 DEF Init, Keeps
  <2>2. copy \in [Instances -> {copy[i] : i \in Instances}]
    BY DEF Init
  <2> QED
    BY <1>5, <2>1, <2>2 DEF Stored, Init
<1>7. NamesKnownContents
  BY DEF NamesKnownContents, Init
<1>8. Numbered
  BY DEF Numbered, Init
<1>9. EveryDangerConfirmed
  <2>1. Tokens = 0
    BY <1>1 DEF Tokens, Dangerous, Init
  <2> QED
    BY <2>1 DEF EveryDangerConfirmed, Init
<1> QED
  BY <1>6, <1>7, <1>8, <1>9 DEF Inv

\* Every step keeps the invariant.
LEMMA InvStep == Inv /\ [Next]_vars => Inv'
<1> SUFFICES ASSUME Inv, [Next]_vars PROVE Inv'
  OBVIOUS
<1>0. Stored
  BY DEF Inv
<1>1. ASSUME Stored' /\ Quiet /\ KeepsKnown PROVE Inv'
  BY <1>0, <1>1, QuietKept, SameNumbered DEF Inv, KeepsKnown
<1>2. ASSUME Kept PROVE Inv'
  BY <1>2, SameNumbered DEF Inv, Kept, KeepsKnown
<1>3. CASE UNCHANGED vars
  <2>1. Stored' = Stored
    BY <1>3 DEF Stored, Holds, vars, history
  <2> QED
    BY <1>3, <2>1 DEF Inv, NamesKnownContents, Numbered, Earlier, EveryDangerConfirmed, Tokens, vars, history
<1>4. ASSUME NEW i \in Instances, Catalogue(i) PROVE Inv'
  BY <1>0, <1>1, <1>4, CatalogueStep
<1>5. ASSUME NEW i \in Instances, Operate(i) PROVE Inv'
  <2>1. ASSUME NEW a \in Dangerous, Confirm(i, a) \/ NotFound(i, a) PROVE Inv'
    BY <1>0, <1>2, <2>1, ConfirmStep, NotFoundStep
  <2>2. ASSUME NEW p \in Packs, NEW n \in 1..MaxReleases, Revoke(i, p, n) \/ Rollback(i, p, n) PROVE Inv'
    <3>1. n \in Nat
      BY ReleasesAssumption
    <3> QED
      BY <1>0, <1>2, <2>2, <3>1, RevokeStep, RollbackStep
  <2>3. ASSUME NEW paused \in BOOLEAN, Pause(i, paused) PROVE Inv'
    BY <1>0, <1>2, <2>3, PauseStep
  <2> QED
    BY <1>5, <2>1, <2>2, <2>3 DEF Operate
<1>6. ASSUME NEW w \in Operators, Publish(w) PROVE Inv'
  <2>1. ASSUME NEW i \in Instances, NEW p \in Packs, PublishRead(w, i, p) PROVE Inv'
    BY <1>0, <1>1, <2>1, PublishReadStep
  <2>2. ASSUME NEW i \in Instances, NEW p \in Packs, NEW q \in Requests, SaveRead(w, i, p, q) PROVE Inv'
    BY <1>0, <1>1, <2>2, SaveReadStep
  <2>3. CASE SaveWrite(w)
    BY <1>0, <1>1, <2>3, SaveWriteStep
  <2>4. CASE PublishWrite(w)
    <3>1. /\ Stored' /\ KeepsKnown /\ (Numbered => Numbered')
          /\ row'.tokens = row.tokens /\ UNCHANGED <<issued, done>>
      BY <1>0, <2>4, PublishWriteStep
    <3>2. Tokens' = Tokens
      BY <3>1 DEF Tokens
    <3> QED
      BY <3>1, <3>2 DEF Inv, KeepsKnown, EveryDangerConfirmed
  <2>5. CASE Fails(w)
    BY <1>0, <1>1, <2>5, FailsStep
  <2> QED
    BY <1>6, <2>1, <2>2, <2>3, <2>4, <2>5 DEF Publish
<1>7. ASSUME NEW a \in Dangerous, ConfirmExpires(a) PROVE Inv'
  BY <1>0, <1>2, <1>7, ExpiresStep
<1> QED
  BY <1>3, <1>4, <1>5, <1>6, <1>7 DEF Next

\* Two releases of a pack that each have as number how many there were before
\* have two numbers: the later one has counted the earlier one.
LEMMA NumberedNames ==
  ASSUME Stored, Numbered
  PROVE  NumberNamesOneRelease
<1>1. DOMAIN row.releases = 1..Len(row.releases) /\ Len(row.releases) \in Nat
  BY DEF Stored, Sound
<1>2. ASSUME NEW j \in current, NEW k \in current, j < k,
             row.releases[j].pack = row.releases[k].pack,
             row.releases[j].number = row.releases[k].number
      PROVE  FALSE
  <2>1. /\ j \in 1..Len(row.releases) /\ k \in 1..Len(row.releases)
        /\ row.releases[j].number = Cardinality(Earlier(j)) + 1
        /\ row.releases[k].number = Cardinality(Earlier(k)) + 1
    BY <1>1 DEF Numbered
  <2>2. IsFiniteSet(1..(k - 1)) /\ IsFiniteSet(1..(j - 1))
    <3>1. 1 \in Int /\ k - 1 \in Int /\ j - 1 \in Int
      BY <1>1, <2>1
    <3> QED
      BY <3>1, FS_Interval
  <2>3. Earlier(k) \subseteq 1..(k - 1) /\ Earlier(j) \subseteq 1..(j - 1)
    BY DEF Earlier
  <2>4. IsFiniteSet(Earlier(k)) /\ IsFiniteSet(Earlier(j))
    BY <2>2, <2>3, FS_Subset
  <2>5. j \notin Earlier(j)
    BY <2>1, <2>3
  <2>6. Earlier(j) \cup {j} \subseteq Earlier(k)
    BY <1>2, <2>1 DEF Earlier
  <2>7. Cardinality(Earlier(j) \cup {j}) = Cardinality(Earlier(j)) + 1
    BY <2>4, <2>5, FS_AddElement
  <2>8. Cardinality(Earlier(j) \cup {j}) <= Cardinality(Earlier(k))
    BY <2>4, <2>6, FS_Subset
  <2>9. Cardinality(Earlier(j)) \in Nat /\ Cardinality(Earlier(k)) \in Nat
    BY <2>4, FS_CardinalityType
  <2> QED
    <3> DEFINE cj == Cardinality(Earlier(j))
               ck == Cardinality(Earlier(k))
    <3>1. cj + 1 = ck + 1
      BY <1>2, <2>1, Zenon
    <3>2. cj \in Nat /\ ck \in Nat /\ cj + 1 <= ck
      BY <2>7, <2>8, <2>9
    <3> HIDE DEF cj, ck
    <3> QED
      BY <3>1, <3>2
<1>3. \A j, k \in current : j \in Nat /\ k \in Nat
  BY <1>1 DEF Numbered
<1> QED
  BY <1>2, <1>3 DEF NumberNamesOneRelease

\* What the theorems rest on.
LEMMA Invariant == Spec => []Inv
<1>1. Init => Inv
  BY InvInit
<1>2. Inv /\ [Next]_vars => Inv'
  BY InvStep
<1> QED
  BY <1>1, <1>2, PTL DEF Spec

\* Every revocation, rollback, pause and resumption took a confirmation of
\* its own (requireConfirm in the mutation), whatever else instances did.
THEOREM DangerCorrect == Spec => []EveryDangerConfirmed
<1>1. Inv => EveryDangerConfirmed
  BY DEF Inv
<1> QED
  BY <1>1, Invariant, PTL

\* The version numbers of a pack's releases differ, of those published from an
\* up-to-date snapshot: revoking and rolling back give no number back.
THEOREM NumberCorrect == Spec => []NumberNamesOneRelease
<1>1. Inv => NumberNamesOneRelease
  BY NumberedNames DEF Inv
<1> QED
  BY <1>1, Invariant, PTL

\* The entries of a stored pack can be asked for.
LEMMA EntriesAskable ==
  ASSUME NEW entries \in Seq(Entry)
  PROVE  Askable(entries) /\ DOMAIN entries = 1..Len(entries)
<1>1. Len(entries) \in Nat /\ \A k \in 1..Len(entries) : entries[k] \in Entry
  OBVIOUS
<1>2. \A e \in Entry : e.mod \in Mods /\ e.version \in Wanted
  BY CatalogAssumption DEF Entry, Wanted
<1> QED
  BY <1>1, <1>2 DEF Askable

\* What a pack asks for is closed, of any copy of a stored state.
LEMMA StoredExpands == Stored => ExpandsClosed
<1> SUFFICES ASSUME Stored, NEW i \in Instances, NEW p \in Packs, copy[i].packs[p] # None,
                    ExpandPackEntries(copy[i], copy[i].packs[p].entries, copy[i].packs[p].game) # None
             PROVE  Closed(copy[i].packs[p].entries,
                           ExpandPackEntries(copy[i], copy[i].packs[p].entries, copy[i].packs[p].game))
  BY Zenon DEF ExpandsClosed
<1> DEFINE c == copy[i]
           pack == c.packs[p]
<1>1. c.versions \in Manifests /\ c.packs \in [Packs -> StoredPack \cup {None}]
  BY DEF Stored, Sound
<1>2. pack.entries \in Seq(Entry)
  BY <1>1 DEF StoredPack
<1> HIDE DEF c, pack
<1>3. ExpandPackEntries(c, pack.entries, pack.game) # None
        => Closed(pack.entries, ExpandPackEntries(c, pack.entries, pack.game))
  BY <1>1, <1>2, EntriesAskable, ExpandCloses
<1> QED
  BY <1>3 DEF c, pack

\* What any pack asks for is closed under its prerequisites, whatever versions
\* were registered, again or for the first time (expandPackEntries); and a pack
\* saved from an up-to-date snapshot names no content that is gone, whatever
\* was deleted, with its slot or by itself, since.
THEOREM PacksCorrect == Spec => []PacksAreWhole
<1>1. Inv => PacksAreWhole
  BY StoredExpands DEF Inv, PacksAreWhole
<1> QED
  BY <1>1, Invariant, PTL

(***************************************************************************)
(* The types: a sound state is one of the model's when its numbers are     *)
(* within the bounds.                                                      *)
(***************************************************************************)
Hashes == {o.sha : o \in Offers \cup Contents}

\* The rest of what a stored state is.
Limits(r) ==
  /\ r.slots \subseteq Slots /\ r.licensed \subseteq Hashes /\ r.banned \subseteq Hashes
  /\ r.paused \in BOOLEAN
  /\ \A p \in Packs : r.packs[p] # None => r.packs[p].latest <= MaxReleases
  /\ Len(r.releases) <= MaxReleases
  /\ \A n \in DOMAIN r.releases :
       r.releases[n].number \in 1..(MaxReleases + 1) /\ r.releases[n].previous <= MaxReleases
  /\ \A a \in Dangerous : r.tokens[a] <= MaxDangers

\* And of what a request holds.
RequestFits(q) ==
  /\ q.kind = "save" => q.value.latest <= MaxReleases
  /\ q.kind = "publish" => q.value.number \in 1..(MaxReleases + 1) /\ q.value.previous <= MaxReleases

Bounded ==
  /\ Limits(row) /\ \A i \in Instances : Limits(copy[i])
  /\ \A w \in Operators : request[w] # None => RequestFits(request[w])
  /\ issued <= MaxDangers /\ current \subseteq 1..MaxReleases /\ outdated \subseteq Packs
  /\ edits \in 0..MaxEdits

\* A sound state within the limits is one of the states the model has.
LEMMA LimitsRow ==
  ASSUME NEW r, Sound(r), Limits(r)
  PROVE  r \in Row
<1> USE ReleasesAssumption
<1>1. r.packs \in [Packs -> Pack \cup {None}]
  <2>1. ASSUME NEW p \in Packs, r.packs[p] # None PROVE r.packs[p] \in Pack
    <3>1. r.packs[p] \in StoredPack /\ r.packs[p].latest <= MaxReleases
      BY <2>1 DEF Sound, Limits
    <3> QED
      BY <3>1 DEF StoredPack, Pack
  <2> QED
    BY <2>1 DEF Sound
<1>2. r.releases \in Seq(Release)
  <2>1. Len(r.releases) \in Nat /\ DOMAIN r.releases = 1..Len(r.releases) /\ r.releases \in Seq(StoredRelease)
    BY DEF Sound
  <2>2. ASSUME NEW n \in DOMAIN r.releases PROVE r.releases[n] \in Release
    <3>1. r.releases[n] \in StoredRelease
      BY <2>1
    <3>2. r.releases[n].number \in 1..(MaxReleases + 1) /\ r.releases[n].previous \in 0..MaxReleases
      BY <3>1 DEF Limits, StoredRelease
    <3> QED
      BY <3>1, <3>2 DEF StoredRelease, Release
  <2> QED
    BY <2>1, <2>2
<1>3. r.tokens \in [Dangerous -> 0..MaxDangers]
  <2>1. r.tokens \in [Dangerous -> Nat] /\ \A a \in Dangerous : r.tokens[a] <= MaxDangers
    BY DEF Sound, Limits
  <2> QED
    BY <2>1
<1>4. r = Rec(r.versions, r.slots, r.contents, r.licensed, r.banned, r.packs, r.releases, r.paused, r.tokens)
  BY DEF Sound
<1> DEFINE v == r.versions
           s == r.slots
           c == r.contents
           l == r.licensed
           b == r.banned
           p == r.packs
           n == r.releases
           d == r.paused
           t == r.tokens
<1>5. v \in Seq(Offers) /\ s \in SUBSET Slots /\ c \in SUBSET Contents /\ l \in SUBSET Hashes
      /\ b \in SUBSET Hashes /\ d \in BOOLEAN
  BY DEF Sound, Limits, Manifests
<1>6. p \in [Packs -> Pack \cup {None}] /\ n \in Seq(Release) /\ t \in [Dangerous -> 0..MaxDangers]
      /\ r = Rec(v, s, c, l, b, p, n, d, t)
  BY <1>1, <1>2, <1>3, <1>4
<1> HIDE DEF v, s, c, l, b, p, n, d, t
<1> QED
  BY <1>5, <1>6 DEF Rec, Row, Hashes

\* The invariant and the bounds are the types.
LEMMA BoundedTyped == Inv /\ Bounded => TypeOK
<1> SUFFICES ASSUME Inv, Bounded PROVE TypeOK
  OBVIOUS
<1> USE ReleasesAssumption
<1>1. Stored
  BY DEF Inv
<1>2. row \in Row /\ Len(row.releases) <= MaxReleases
  BY <1>1, LimitsRow DEF Stored, Bounded, Limits
<1>3. copy \in [Instances -> Row]
  <2>1. \A i \in Instances : copy[i] \in Row
    BY <1>1, LimitsRow DEF Stored, Bounded
  <2> QED
    BY <1>1, <2>1 DEF Stored
<1>4. ASSUME NEW w \in Operators, request[w] # None
      PROVE  /\ request[w].instance \in Instances /\ request[w].pack \in Packs
             /\ \/ request[w].kind = "save" /\ request[w].value \in Pack
                \/ request[w].kind = "publish" /\ request[w].value \in Release
  <2> DEFINE q == request[w]
  <2>1. Holds(q) /\ RequestFits(q)
    BY <1>1, <1>4 DEF Stored, Bounded
  <2> HIDE DEF q
  <2>2. q.kind = "save" /\ q.value \in StoredPack => q.value \in Pack
    <3>1. q.kind = "save" => q.value.latest <= MaxReleases
      BY <2>1 DEF RequestFits
    <3> QED
      BY <3>1 DEF StoredPack, Pack
  <2>3. q.kind = "publish" /\ q.value \in StoredRelease => q.value \in Release
    <3>1. q.kind = "publish" => q.value.number \in 1..(MaxReleases + 1) /\ q.value.previous <= MaxReleases
      BY <2>1 DEF RequestFits
    <3> QED
      BY <3>1 DEF StoredRelease, Release
  <2> QED
    BY <2>1, <2>2, <2>3 DEF Holds, q
<1>5. issued \in 0..MaxDangers /\ done \in Nat
  BY <1>1 DEF Stored, Bounded
<1> QED
  BY <1>2, <1>3, <1>4, <1>5 DEF TypeOK, Bounded

\* The other fields of a row that was changed in one.
LEMMA OtherFields ==
  ASSUME NEW r, Sound(r), NEW x
  PROVE  /\ LET s == [r EXCEPT !.versions = x] IN
            /\ s.slots = r.slots /\ s.licensed = r.licensed /\ s.banned = r.banned /\ s.paused = r.paused
            /\ s.packs = r.packs /\ s.releases = r.releases /\ s.tokens = r.tokens
         /\ LET s == [r EXCEPT !.slots = x] IN
            /\ s.slots = x /\ s.licensed = r.licensed /\ s.banned = r.banned /\ s.paused = r.paused
            /\ s.packs = r.packs /\ s.releases = r.releases /\ s.tokens = r.tokens
         /\ LET s == [r EXCEPT !.contents = x] IN
            /\ s.slots = r.slots /\ s.licensed = r.licensed /\ s.banned = r.banned /\ s.paused = r.paused
            /\ s.packs = r.packs /\ s.releases = r.releases /\ s.tokens = r.tokens
         /\ LET s == [r EXCEPT !.licensed = x] IN
            /\ s.slots = r.slots /\ s.licensed = x /\ s.banned = r.banned /\ s.paused = r.paused
            /\ s.packs = r.packs /\ s.releases = r.releases /\ s.tokens = r.tokens
         /\ LET s == [r EXCEPT !.banned = x] IN
            /\ s.slots = r.slots /\ s.licensed = r.licensed /\ s.banned = x /\ s.paused = r.paused
            /\ s.packs = r.packs /\ s.releases = r.releases /\ s.tokens = r.tokens
         /\ LET s == [r EXCEPT !.packs = x] IN
            /\ s.slots = r.slots /\ s.licensed = r.licensed /\ s.banned = r.banned /\ s.paused = r.paused
            /\ s.packs = x /\ s.releases = r.releases /\ s.tokens = r.tokens
         /\ LET s == [r EXCEPT !.releases = x] IN
            /\ s.slots = r.slots /\ s.licensed = r.licensed /\ s.banned = r.banned /\ s.paused = r.paused
            /\ s.packs = r.packs /\ s.releases = x /\ s.tokens = r.tokens
         /\ LET s == [r EXCEPT !.paused = x] IN
            /\ s.slots = r.slots /\ s.licensed = r.licensed /\ s.banned = r.banned /\ s.paused = x
            /\ s.packs = r.packs /\ s.releases = r.releases /\ s.tokens = r.tokens
         /\ LET s == [r EXCEPT !.tokens = x] IN
            /\ s.slots = r.slots /\ s.licensed = r.licensed /\ s.banned = r.banned /\ s.paused = r.paused
            /\ s.packs = r.packs /\ s.releases = r.releases /\ s.tokens = x
<1>1. r = Rec(r.versions, r.slots, r.contents, r.licensed, r.banned, r.packs, r.releases, r.paused, r.tokens)
  BY DEF Sound
<1> QED
  BY <1>1 DEF Rec

\* No more tokens of an action than were issued.
LEMMA TokensFew ==
  ASSUME NEW t \in [Dangerous -> Nat], NEW k \in Nat, NEW m \in Nat,
         k + (t["release.revoke"] + t["pack.rollback"] + t["distribution.pause"] + t["distribution.resume"]) <= m
  PROVE  \A a \in Dangerous : t[a] <= m
<1>1. /\ t["release.revoke"] \in Nat /\ t["pack.rollback"] \in Nat
      /\ t["distribution.pause"] \in Nat /\ t["distribution.resume"] \in Nat
  BY DEF Dangerous
<1> QED
  BY <1>1 DEF Dangerous

\* A mutation to a row within the limits.
LEMMA MutateBounded ==
  ASSUME Inv, Bounded, Inv', NEW i \in Instances, NEW r, Mutate(i, r),
         (\A a \in Dangerous : r.tokens[a] <= MaxDangers) => Limits(r),
         \A w \in Operators : request'[w] \in {None, request[w]},
         issued' <= MaxDangers, current' \subseteq 1..MaxReleases, outdated' \subseteq Packs,
         edits' \in 0..MaxEdits
  PROVE  Bounded'
<1>1. row' = r /\ copy' = [copy EXCEPT ![i] = r]
  BY DEF Mutate
<1>2. \A a \in Dangerous : r.tokens[a] <= MaxDangers
  <2>1. /\ row'.tokens \in [Dangerous -> Nat] /\ done' \in Nat /\ issued' \in Nat
        /\ done' + (row'.tokens["release.revoke"] + row'.tokens["pack.rollback"]
                    + row'.tokens["distribution.pause"] + row'.tokens["distribution.resume"]) <= issued'
    BY DEF Inv, Stored, Sound, EveryDangerConfirmed, Tokens
  <2>2. \A a \in Dangerous : row'.tokens[a] <= issued'
    BY <2>1, TokensFew
  <2>3. MaxDangers \in Nat /\ \A a \in Dangerous : row'.tokens[a] \in Nat
    BY <2>1, ReleasesAssumption
  <2> QED
    BY <1>1, <2>1, <2>2, <2>3
<1>3. Limits(r)
  BY <1>2
<1>4. \A j \in Instances : copy'[j] = IF j = i THEN r ELSE copy[j]
  BY <1>1 DEF Inv, Stored
<1>5. Limits(row') /\ \A j \in Instances : Limits(copy'[j])
  BY <1>1, <1>3, <1>4 DEF Bounded
<1>6. \A w \in Operators : request'[w] # None => RequestFits(request'[w])
  BY DEF Bounded
<1> QED
  BY <1>5, <1>6 DEF Bounded

\* Purging leaves the limits alone.
LEMMA PurgedLimits ==
  ASSUME NEW r, Sound(r), Limits(r), NEW gone
  PROVE  LET s == Purged(r, gone) IN s.tokens = r.tokens /\ Limits(s)
<1> DEFINE t == [r EXCEPT !.contents = r.contents \ gone]
           packs == PurgedPacks(r.packs, gone)
           s == [t EXCEPT !.packs = packs]
<1>1. Sound(t) /\ t.packs = r.packs
  <2>1. r.contents \ gone \subseteq Contents
    BY DEF Sound
  <2> QED
    BY <2>1, ContentSet
<1>2. Purged(r, gone) = s
  <2>1. [r EXCEPT !.contents = @ \ gone, !.packs = PurgedPacks(@, gone)]
          = [t EXCEPT !.packs = PurgedPacks(t.packs, gone)]
    BY DEF Purged
  <2> QED
    BY <1>1, <2>1 DEF Purged
<1>3. /\ t.slots = r.slots /\ t.licensed = r.licensed /\ t.banned = r.banned /\ t.paused = r.paused
      /\ t.releases = r.releases /\ t.tokens = r.tokens
  BY OtherFields
<1> HIDE DEF t
<1>4. /\ s.slots = r.slots /\ s.licensed = r.licensed /\ s.banned = r.banned /\ s.paused = r.paused
      /\ s.packs = packs /\ s.releases = r.releases /\ s.tokens = r.tokens
  BY <1>1, <1>3, OtherFields
<1>5. ASSUME NEW p \in Packs, packs[p] # None PROVE packs[p].latest <= MaxReleases
  <2>1. r.packs[p] # None /\ packs[p] = [r.packs[p] EXCEPT !.entries = WithoutContents(@, gone)]
    BY <1>5 DEF PurgedPacks
  <2>2. r.packs[p] \in StoredPack /\ r.packs[p].latest <= MaxReleases
    BY <2>1 DEF Sound, Limits
  <2> QED
    BY <2>1, <2>2 DEF StoredPack
<1> HIDE DEF s, packs
<1>6. Limits(s)
  BY <1>4, <1>5 DEF Limits
<1> QED
  BY <1>2, <1>4, <1>6

\* Other slots of a mod keep the bounds of a row.
LEMMA SlotsLimits ==
  ASSUME Sound(row), Limits(row), NEW m, NEW slots \in SUBSET Slots
  PROVE  Limits(WithSlots(m, slots))
<1> DEFINE x == {s \in row.slots : s.mod # m} \cup slots
           r == [row EXCEPT !.slots = x]
<1>1. x \subseteq Slots
  BY DEF Limits
<1> HIDE DEF x
<1>2. /\ r.slots = x /\ r.licensed = row.licensed /\ r.banned = row.banned /\ r.paused = row.paused
      /\ r.packs = row.packs /\ r.releases = row.releases /\ r.tokens = row.tokens
  BY OtherFields
<1> HIDE DEF r
<1>3. Limits(r)
  BY <1>1, <1>2 DEF Limits
<1> QED
  BY <1>3 DEF r, x, WithSlots

\* Changes of the catalogue.
LEMMA CatalogueBounded ==
  ASSUME Inv, Bounded, Inv', NEW i \in Instances, Catalogue(i)
  PROVE  Bounded'
<1>0. Stored /\ Sound(row) /\ Limits(row)
  BY DEF Inv, Stored, Bounded
<1>1. ASSUME NEW kind, Edit(kind) PROVE edits' \in 0..MaxEdits
  BY <1>1, ReleasesAssumption DEF Edit, Bounded
<1>2. ASSUME NEW kind, Edit(kind), UNCHANGED <<request, counts>>, NEW r, Mutate(i, r), Limits(r)
      PROVE  Bounded'
  <2>1. issued' <= MaxDangers /\ current' \subseteq 1..MaxReleases /\ outdated' \subseteq Packs
        /\ \A w \in Operators : request'[w] \in {None, request[w]}
    BY <1>2 DEF counts, Bounded
  <2> QED
    BY <1>1, <1>2, <2>1, MutateBounded
<1>3. ASSUME NEW o \in Offers, NEW slots \in SUBSET Slots, RegisterMod(i, o, slots) PROVE Bounded'
  <2> DEFINE u == WithSlots(o.mod, slots)
             r == [u EXCEPT !.versions = Append(Unregistered(u.versions, o), o)]
  <2>1. Sound(u) /\ Limits(u)
    BY <1>0, SlotsAlike, SlotsLimits DEF Alike
  <2>2. Mutate(i, r) /\ Edit("mod") /\ UNCHANGED <<request, counts>>
    BY <1>3 DEF RegisterMod
  <2> HIDE DEF u
  <2>3. /\ r.slots = u.slots /\ r.licensed = u.licensed /\ r.banned = u.banned /\ r.paused = u.paused
        /\ r.packs = u.packs /\ r.releases = u.releases /\ r.tokens = u.tokens
    BY <2>1, OtherFields
  <2> HIDE DEF r
  <2>4. Limits(r)
    BY <2>1, <2>3 DEF Limits
  <2> QED
    BY <1>2, <2>2, <2>4
<1>4. ASSUME NEW m \in Mods, NEW slots \in SUBSET Slots, SetSlots(i, m, slots) PROVE Bounded'
  <2> DEFINE r == WithSlots(m, slots)
  <2>1. PICK gone : Mutate(i, Purged(r, gone)) /\ Edit("slots") /\ UNCHANGED <<request, counts>>
    BY <1>4 DEF SetSlots
  <2>2. Sound(r) /\ Limits(r)
    BY <1>0, SlotsAlike, SlotsLimits DEF Alike
  <2> HIDE DEF r
  <2>3. Limits(Purged(r, gone))
    BY <2>2, PurgedLimits
  <2> QED
    BY <1>2, <2>1, <2>3
<1>5. ASSUME NEW k \in Contents, SubmitContent(i, k) PROVE Bounded'
  <2> DEFINE r == [row EXCEPT !.contents = row.contents \cup {k}]
  <2>1. Mutate(i, r)
    BY <1>5 DEF SubmitContent
  <2>2. /\ r.slots = row.slots /\ r.licensed = row.licensed /\ r.banned = row.banned /\ r.paused = row.paused
        /\ r.packs = row.packs /\ r.releases = row.releases /\ r.tokens = row.tokens
    BY <1>0, OtherFields
  <2> HIDE DEF r
  <2>3. Limits(r)
    BY <1>0, <2>2 DEF Limits
  <2> QED
    BY <1>2, <1>5, <2>1, <2>3 DEF SubmitContent
<1>6. ASSUME NEW k \in Contents, DeleteContent(i, k) PROVE Bounded'
  <2>1. Limits(Purged(row, {k}))
    BY <1>0, PurgedLimits
  <2> QED
    BY <1>2, <1>6, <2>1 DEF DeleteContent
<1>7. ASSUME NEW h \in Hashes, NEW approved \in BOOLEAN, Review(i, h, approved) PROVE Bounded'
  <2>1. PICK x \in SUBSET Hashes : Mutate(i, [row EXCEPT !.licensed = x])
    <3>1. row.licensed \cup {h} \in SUBSET Hashes /\ row.licensed \ {h} \in SUBSET Hashes
      BY <1>0 DEF Limits
    <3> QED
      BY <1>7, <3>1 DEF Review
  <2> DEFINE r == [row EXCEPT !.licensed = x]
  <2>2. /\ r.slots = row.slots /\ r.licensed = x /\ r.banned = row.banned /\ r.paused = row.paused
        /\ r.packs = row.packs /\ r.releases = row.releases /\ r.tokens = row.tokens
    BY <1>0, OtherFields
  <2>3. Mutate(i, r)
    BY <2>1
  <2> HIDE DEF r
  <2>4. Limits(r)
    BY <1>0, <2>2 DEF Limits
  <2> QED
    BY <1>2, <1>7, <2>3, <2>4 DEF Review
<1>8. ASSUME NEW h \in Hashes, Ban(i, h) PROVE Bounded'
  <2>1. PICK x \in SUBSET Hashes : Mutate(i, [row EXCEPT !.banned = x])
    <3>1. row.banned \cup {h} \in SUBSET Hashes
      BY <1>0 DEF Limits
    <3> QED
      BY <1>8, <3>1 DEF Ban
  <2> DEFINE r == [row EXCEPT !.banned = x]
  <2>2. /\ r.slots = row.slots /\ r.licensed = row.licensed /\ r.banned = x /\ r.paused = row.paused
        /\ r.packs = row.packs /\ r.releases = row.releases /\ r.tokens = row.tokens
    BY <1>0, OtherFields
  <2>3. Mutate(i, r)
    BY <2>1
  <2> HIDE DEF r
  <2>4. Limits(r)
    BY <1>0, <2>2 DEF Limits
  <2> QED
    BY <1>2, <1>8, <2>3, <2>4 DEF Ban
<1> QED
  BY <1>3, <1>4, <1>5, <1>6, <1>7, <1>8 DEF Catalogue, Hashes

\* Other tokens, no more than there may be.
LEMMA TokenLimits ==
  ASSUME NEW r, Sound(r), Limits(r), NEW a \in Dangerous, NEW n \in Nat
  PROVE  LET s == [r EXCEPT !.tokens[a] = n] IN
         (\A b \in Dangerous : s.tokens[b] <= MaxDangers) => Limits(s)
<1> DEFINE x == [r.tokens EXCEPT ![a] = n]
           s == [r EXCEPT !.tokens = x]
<1>1. [r EXCEPT !.tokens[a] = n] = s
  OBVIOUS
<1> HIDE DEF x
<1>2. /\ s.slots = r.slots /\ s.licensed = r.licensed /\ s.banned = r.banned /\ s.paused = r.paused
      /\ s.packs = r.packs /\ s.releases = r.releases
  BY OtherFields
<1> HIDE DEF s
<1>3. (\A b \in Dangerous : s.tokens[b] <= MaxDangers) => Limits(s)
  BY <1>2 DEF Limits
<1> QED
  BY <1>1, <1>3

\* The row without a token of an action.
LEMMA ConsumedLimits ==
  ASSUME Inv, Bounded, NEW a \in Dangerous, row.tokens[a] > 0
  PROVE  Limits(Consumed(a)) /\ Sound(Consumed(a))
<1>1. Stored /\ Sound(row) /\ Limits(row)
  BY DEF Inv, Stored, Bounded
<1>2. /\ Sound(Consumed(a)) /\ Consumed(a).tokens = [row.tokens EXCEPT ![a] = row.tokens[a] - 1]
      /\ row.tokens[a] - 1 \in Nat
  BY <1>1, ConsumedSound
<1>3. row.tokens \in [Dangerous -> Nat] /\ \A b \in Dangerous : row.tokens[b] <= MaxDangers
  BY <1>1 DEF Sound, Limits
<1>4. \A b \in Dangerous : Consumed(a).tokens[b] <= MaxDangers
  BY <1>2, <1>3, ReleasesAssumption
<1> DEFINE n == row.tokens[a] - 1
<1>5. Consumed(a) = [row EXCEPT !.tokens[a] = n]
  BY DEF Consumed
<1> HIDE DEF n
<1>6. n \in Nat
  BY <1>2 DEF n
<1>7. Limits([row EXCEPT !.tokens[a] = n])
  BY <1>1, <1>4, <1>5, <1>6, TokenLimits
<1> QED
  BY <1>2, <1>5, <1>7

\* Confirmations, and what uses them up.
LEMMA OperateBounded ==
  ASSUME Inv, Bounded, Inv', NEW i \in Instances, Operate(i)
  PROVE  Bounded'
<1>0. Stored /\ Sound(row) /\ Limits(row)
  BY DEF Inv, Stored, Bounded
<1>1. /\ issued <= MaxDangers /\ current \subseteq 1..MaxReleases /\ outdated \subseteq Packs /\ edits \in 0..MaxEdits
      /\ issued \in Nat /\ MaxDangers \in Nat /\ MaxReleases \in Nat
  BY <1>0, ReleasesAssumption DEF Bounded, Stored
<1>2. ASSUME NEW r, Mutate(i, r), Limits(r), UNCHANGED <<request, issued, current, outdated, edits>>
      PROVE  Bounded'
  <2>1. /\ issued' <= MaxDangers /\ current' \subseteq 1..MaxReleases /\ outdated' \subseteq Packs
        /\ edits' \in 0..MaxEdits /\ \A w \in Operators : request'[w] \in {None, request[w]}
    BY <1>1, <1>2
  <2> QED
    BY <1>2, <2>1, MutateBounded
<1>3. ASSUME NEW a \in Dangerous, Confirm(i, a) PROVE Bounded'
  <2> DEFINE n == row.tokens[a] + 1
             r == [row EXCEPT !.tokens[a] = n]
  <2>1. n \in Nat
    BY <1>0 DEF Sound
  <2>2. Mutate(i, r) /\ issued' = issued + 1 /\ issued < MaxDangers
        /\ UNCHANGED <<request, current, outdated, edits>>
    BY <1>3 DEF Confirm
  <2> HIDE DEF n
  <2>3. (\A b \in Dangerous : r.tokens[b] <= MaxDangers) => Limits(r)
    BY <1>0, <2>1, TokenLimits
  <2> HIDE DEF r
  <2>4. /\ issued' <= MaxDangers /\ current' \subseteq 1..MaxReleases /\ outdated' \subseteq Packs
        /\ edits' \in 0..MaxEdits /\ \A w \in Operators : request'[w] \in {None, request[w]}
    BY <1>1, <2>2
  <2> QED
    BY <2>2, <2>3, <2>4, MutateBounded
<1>4. ASSUME NEW a \in Dangerous, NotFound(i, a) PROVE Bounded'
  <2>1. row.tokens[a] > 0 /\ Mutate(i, Consumed(a)) /\ UNCHANGED <<request, issued, current, outdated, edits>>
    BY <1>4 DEF NotFound, history
  <2> QED
    BY <1>2, <2>1, ConsumedLimits
<1>5. ASSUME NEW p \in Packs, NEW n \in 1..MaxReleases, Revoke(i, p, n) PROVE Bounded'
  <2> DEFINE t == Consumed("release.revoke")
             new == [t.releases[n] EXCEPT !.revoked = TRUE]
             x == [t.releases EXCEPT ![n] = new]
             r == [t EXCEPT !.releases = x]
  <2>1. /\ n \in DOMAIN row.releases /\ row.tokens["release.revoke"] > 0 /\ Mutate(i, r)
        /\ UNCHANGED <<request, issued, current, outdated, edits>>
    <3>1. [t EXCEPT !.releases[n].revoked = TRUE] = r
      OBVIOUS
    <3> QED
      BY <1>5, <3>1 DEF Revoke, Danger, ReleasesOf
  <2>2. Limits(t) /\ Sound(t) /\ t.releases = row.releases
    <3>1. "release.revoke" \in Dangerous
      BY DEF Dangerous
    <3> QED
      BY <1>0, <2>1, <3>1, ConsumedLimits, ConsumedSound
  <2> HIDE DEF t
  <2>3. /\ r.slots = t.slots /\ r.licensed = t.licensed /\ r.banned = t.banned /\ r.paused = t.paused
        /\ r.packs = t.packs /\ r.releases = x /\ r.tokens = t.tokens
    BY <2>2, OtherFields
  <2> HIDE DEF r
  <2>4. t.releases \in Seq(StoredRelease) /\ t.releases[n] \in StoredRelease
    BY <2>1, <2>2 DEF Sound
  <2>5. /\ new.number = t.releases[n].number /\ new.previous = t.releases[n].previous
    BY <2>4 DEF StoredRelease
  <2> HIDE DEF new
  <2>6. Len(x) = Len(t.releases) /\ DOMAIN x = DOMAIN t.releases
        /\ \A m \in DOMAIN x : x[m].number = t.releases[m].number /\ x[m].previous = t.releases[m].previous
    BY <2>1, <2>2, <2>4, <2>5
  <2> HIDE DEF x
  <2>7. Limits(r)
    BY <2>2, <2>3, <2>6 DEF Limits
  <2> QED
    BY <1>2, <2>1, <2>7
<1>6. ASSUME NEW p \in Packs, NEW n \in 1..MaxReleases, Rollback(i, p, n) PROVE Bounded'
  <2> DEFINE t == Consumed("pack.rollback")
             new == [t.packs[p] EXCEPT !.latest = n]
             x == [t.packs EXCEPT ![p] = new]
             r == [t EXCEPT !.packs = x]
  <2>1. /\ n \in DOMAIN row.releases /\ row.releases[n].pack = p /\ row.tokens["pack.rollback"] > 0 /\ Mutate(i, r)
        /\ UNCHANGED <<request, issued, current, outdated, edits>>
    <3>1. [t EXCEPT !.packs[p].latest = n] = r
      OBVIOUS
    <3> QED
      BY <1>6, <3>1 DEF Rollback, Danger, ReleasesOf
  <2>2. Limits(t) /\ Sound(t) /\ t.packs = row.packs
    <3>1. "pack.rollback" \in Dangerous
      BY DEF Dangerous
    <3> QED
      BY <1>0, <2>1, <3>1, ConsumedLimits, ConsumedSound
  <2> HIDE DEF t
  <2>3. /\ r.slots = t.slots /\ r.licensed = t.licensed /\ r.banned = t.banned /\ r.paused = t.paused
        /\ r.packs = x /\ r.releases = t.releases /\ r.tokens = t.tokens
    BY <2>2, OtherFields
  <2> HIDE DEF r
  <2>4. t.packs \in [Packs -> StoredPack \cup {None}] /\ t.packs[p] \in StoredPack
    BY <1>0, <2>1, <2>2 DEF Sound
  <2>5. new.latest = n
    BY <2>4 DEF StoredPack
  <2> HIDE DEF new
  <2>6. \A o \in Packs : x[o] = IF o = p THEN new ELSE t.packs[o]
    BY <2>4
  <2> HIDE DEF x
  <2>7. \A o \in Packs : x[o] # None => x[o].latest <= MaxReleases
    BY <1>1, <2>2, <2>5, <2>6 DEF Limits
  <2>8. Limits(r)
    BY <2>2, <2>3, <2>7 DEF Limits
  <2> QED
    BY <1>2, <2>1, <2>8
<1>7. ASSUME NEW paused \in BOOLEAN, Pause(i, paused) PROVE Bounded'
  <2> DEFINE a == IF paused THEN "distribution.pause" ELSE "distribution.resume"
             t == Consumed(a)
             r == [t EXCEPT !.paused = paused]
  <2>1. /\ row.tokens[a] > 0 /\ Mutate(i, r) /\ UNCHANGED <<request, issued, current, outdated, edits>>
    BY <1>7 DEF Pause, Danger
  <2>2. Limits(t) /\ Sound(t)
    <3>1. a \in Dangerous
      BY DEF Dangerous
    <3> QED
      BY <2>1, <3>1, ConsumedLimits
  <2> HIDE DEF t, a
  <2>3. /\ r.slots = t.slots /\ r.licensed = t.licensed /\ r.banned = t.banned /\ r.paused = paused
        /\ r.packs = t.packs /\ r.releases = t.releases /\ r.tokens = t.tokens
    BY <2>2, OtherFields
  <2> HIDE DEF r
  <2>4. Limits(r)
    BY <2>2, <2>3 DEF Limits
  <2> QED
    BY <1>2, <2>1, <2>4
<1> QED
  BY <1>3, <1>4, <1>5, <1>6, <1>7 DEF Operate

\* A confirmation that expires.
LEMMA ExpiresBounded ==
  ASSUME Inv, Bounded, NEW a \in Dangerous, ConfirmExpires(a)
  PROVE  Bounded'
<1>1. row.tokens[a] > 0 /\ row' = Consumed(a) /\ UNCHANGED <<copy, request, issued, current, outdated, edits>>
  BY DEF ConfirmExpires, Consumed, history
<1>2. Limits(row')
  BY <1>1, ConsumedLimits
<1> QED
  BY <1>1, <1>2 DEF Bounded

\* What a request holds between its snapshot and its mutation.
LEMMA RequestBounded ==
  ASSUME Inv, Bounded, NEW w \in Operators, NEW q, q = None \/ RequestFits(q),
         request' = [request EXCEPT ![w] = q], UNCHANGED <<row, copy, history>>
  PROVE  Bounded'
<1>1. \A v \in Operators : request'[v] # None => RequestFits(request'[v])
  BY DEF Inv, Stored, Bounded
<1> QED
  BY <1>1 DEF Bounded, history

\* A release that is made from a copy.
LEMMA PublishReadBounded ==
  ASSUME Inv, Bounded, NEW w \in Operators, NEW i \in Instances, NEW p \in Packs, PublishRead(w, i, p)
  PROVE  Bounded'
<1> DEFINE c == copy[i]
           pack == c.packs[p]
           manifest == ExpandPackEntries(c, pack.entries, pack.game)
           asked(k) == ContentsAsked(pack.entries, manifest[k].mod)
           overlays == UNION {Overlays(c, asked(k)) : k \in DOMAIN manifest}
           number == ReleaseNumber(c, p)
           previous == ActiveRelease(c, p)
           value == [pack |-> p, number |-> number, mods |-> manifest,
                     overlays |-> overlays, previous |-> previous, revoked |-> FALSE]
           q == [kind |-> "publish", instance |-> i, pack |-> p, value |-> value]
<1>1. pack # None /\ request' = [request EXCEPT ![w] = q] /\ UNCHANGED <<row, copy, history>>
  BY DEF PublishRead
<1>2. Sound(c) /\ Limits(c) /\ MaxReleases \in Nat
  BY ReleasesAssumption DEF Inv, Stored, Bounded
<1> HIDE DEF c
<1>3. number \in 1..(MaxReleases + 1)
  <2> DEFINE R == ReleasesOf(c, p)
             D == 1..Len(c.releases)
  <2>1. Len(c.releases) \in Nat /\ Len(c.releases) <= MaxReleases /\ R \subseteq D
    BY <1>2 DEF Sound, Limits, ReleasesOf
  <2>2. IsFiniteSet(D) /\ Cardinality(D) = Len(c.releases)
    BY <2>1, FS_Interval
  <2> HIDE DEF D
  <2>3. Cardinality(R) \in Nat /\ Cardinality(R) <= Len(c.releases)
    BY <2>1, <2>2, FS_Subset, FS_CardinalityType
  <2>4. number = Cardinality(R) + 1
    BY DEF ReleaseNumber
  <2> HIDE DEF R, number
  <2> QED
    BY <1>2, <2>1, <2>3, <2>4
<1>4. previous <= MaxReleases
  BY <1>1, <1>2 DEF ActiveRelease, Limits
<1> HIDE DEF number, previous, manifest, overlays
<1>5. value.number = number /\ value.previous = previous
  OBVIOUS
<1> HIDE DEF value
<1>6. RequestFits(q)
  BY <1>3, <1>4, <1>5 DEF RequestFits
<1> HIDE DEF q
<1> QED
  BY <1>1, <1>6, RequestBounded

\* A pack that is made from a copy.
LEMMA SaveReadBounded ==
  ASSUME Inv, Bounded, NEW w \in Operators, NEW i \in Instances, NEW p \in Packs, NEW a \in Requests,
         SaveRead(w, i, p, a)
  PROVE  Bounded'
<1> DEFINE c == copy[i]
           manifest == ExpandPackEntries(c, a.entries, a.game)
           entries == [k \in DOMAIN manifest |->
                         [mod |-> manifest[k].mod, version |-> manifest[k].version,
                          contents |-> ContentsAsked(a.entries, manifest[k].mod)]]
           value == [game |-> a.game, entries |-> entries, latest |-> 0]
           q == [kind |-> "save", instance |-> i, pack |-> p, checked |-> Checked(c), value |-> value]
<1>1. request' = [request EXCEPT ![w] = q] /\ UNCHANGED <<row, copy, history>>
  BY DEF SaveRead
<1> HIDE DEF manifest, entries
<1>2. value.latest = 0
  OBVIOUS
<1> HIDE DEF value
<1>3. RequestFits(q)
  BY <1>2, ReleasesAssumption DEF RequestFits
<1> HIDE DEF q
<1> QED
  BY <1>1, <1>3, RequestBounded

\* A pack is stored, with its latest release.
LEMMA SaveWriteBounded ==
  ASSUME Inv, Bounded, Inv', NEW w \in Operators, SaveWrite(w)
  PROVE  Bounded'
<1> DEFINE q == request[w]
           known == row.packs[q.pack]
           latest == IF known = None THEN 0 ELSE known.latest
           new == [q.value EXCEPT !.latest = latest]
           x == [row.packs EXCEPT ![q.pack] = new]
           r == [row EXCEPT !.packs = x]
<1>0. Stored /\ Sound(row) /\ Limits(row) /\ MaxReleases \in Nat /\ MaxEdits \in Nat /\ edits \in 0..MaxEdits
  BY ReleasesAssumption DEF Inv, Stored, Bounded
<1>1. /\ q # None /\ q.kind = "save" /\ Mutate(q.instance, r) /\ edits < MaxEdits /\ edits' = edits + 1
      /\ outdated' = IF q.checked = Checked(row) THEN outdated \ {q.pack} ELSE outdated \cup {q.pack}
      /\ request' = [request EXCEPT ![w] = None] /\ UNCHANGED <<issued, done, current>>
  <2>1. [row EXCEPT !.packs[q.pack] = new] = r
    OBVIOUS
  <2> QED
    BY <2>1 DEF SaveWrite, Edit
<1>2. q.instance \in Instances /\ q.pack \in Packs /\ q.value \in StoredPack
  BY <1>0, <1>1 DEF Stored, Holds
<1>3. latest <= MaxReleases
  BY <1>0, <1>2 DEF Limits
<1> HIDE DEF latest
<1>4. new.latest = latest
  BY <1>2 DEF StoredPack
<1> HIDE DEF new
<1>5. \A p \in Packs : x[p] = IF p = q.pack THEN new ELSE row.packs[p]
  BY <1>0, <1>2 DEF Sound
<1> HIDE DEF x
<1>6. /\ r.slots = row.slots /\ r.licensed = row.licensed /\ r.banned = row.banned /\ r.paused = row.paused
      /\ r.packs = x /\ r.releases = row.releases /\ r.tokens = row.tokens
  BY <1>0, OtherFields
<1> HIDE DEF r
<1>7. Limits(r)
  <2>1. \A p \in Packs : x[p] # None => x[p].latest <= MaxReleases
    BY <1>0, <1>3, <1>4, <1>5 DEF Limits
  <2> QED
    BY <1>0, <1>6, <2>1 DEF Limits
<1>8. /\ issued' <= MaxDangers /\ current' \subseteq 1..MaxReleases /\ outdated' \subseteq Packs
      /\ edits' \in 0..MaxEdits /\ \A v \in Operators : request'[v] \in {None, request[v]}
  <2>1. outdated' \subseteq Packs
    BY <1>1, <1>2 DEF Bounded
  <2>2. \A v \in Operators : request'[v] \in {None, request[v]}
    BY <1>0, <1>1 DEF Stored
  <2> QED
    BY <1>0, <1>1, <2>1, <2>2 DEF Bounded
<1> HIDE DEF q
<1> QED
  BY <1>1, <1>2, <1>7, <1>8, MutateBounded

\* A release is stored.
LEMMA PublishWriteBounded ==
  ASSUME Inv, Bounded, Inv', NEW w \in Operators, PublishWrite(w)
  PROVE  Bounded'
<1> DEFINE q == request[w]
           n == Len(row.releases) + 1
           y == Append(row.releases, q.value)
           t == [row EXCEPT !.releases = y]
           new == [row.packs[q.pack] EXCEPT !.latest = n]
           x == [row.packs EXCEPT ![q.pack] = new]
           r == [t EXCEPT !.packs = x]
<1>0. Stored /\ Sound(row) /\ Limits(row) /\ MaxReleases \in Nat
  BY ReleasesAssumption DEF Inv, Stored, Bounded
<1>1. /\ q # None /\ q.kind = "publish" /\ Mutate(q.instance, r) /\ n <= MaxReleases
      /\ current' \subseteq current \cup {n}
      /\ request' = [request EXCEPT ![w] = None] /\ UNCHANGED <<issued, done, outdated, edits>>
  <2>1. [row EXCEPT !.releases = Append(@, q.value), !.packs[q.pack].latest = n] = r
    BY <1>0 DEF Sound, Rec
  <2> QED
    BY <2>1 DEF PublishWrite
<1>2. /\ q.instance \in Instances /\ q.pack \in Packs /\ q.value \in StoredRelease
      /\ q.value.pack = q.pack /\ row.packs[q.pack] # None /\ RequestFits(q)
  BY <1>0, <1>1 DEF Stored, Holds, Bounded
<1>3. /\ row.releases \in Seq(StoredRelease) /\ Len(row.releases) \in Nat
      /\ DOMAIN row.releases = 1..Len(row.releases)
  BY <1>0 DEF Sound
<1>4. /\ y \in Seq(StoredRelease) /\ Len(y) = n /\ DOMAIN y = 1..n
      /\ y[n] = q.value /\ \A m \in DOMAIN row.releases : y[m] = row.releases[m]
  BY <1>2, <1>3
<1> HIDE DEF y
<1>5. \A m \in DOMAIN y : y[m].number \in 1..(MaxReleases + 1) /\ y[m].previous <= MaxReleases
  <2> SUFFICES ASSUME NEW m \in 1..n
               PROVE  y[m].number \in 1..(MaxReleases + 1) /\ y[m].previous <= MaxReleases
    BY <1>4
  <2>1. m = n \/ m \in DOMAIN row.releases
    BY <1>3
  <2> QED
    BY <1>0, <1>1, <1>2, <1>4, <2>1 DEF Limits, RequestFits
<1>6. Sound(t)
  <2> SUFFICES ASSUME NEW m \in DOMAIN y PROVE row.packs[y[m].pack] # None
    BY <1>0, <1>4, ReleaseSet
  <2>1. m = n \/ m \in DOMAIN row.releases
    BY <1>3, <1>4
  <2> QED
    BY <1>0, <1>2, <1>4, <2>1 DEF Sound
<1>7. /\ t.slots = row.slots /\ t.licensed = row.licensed /\ t.banned = row.banned /\ t.paused = row.paused
      /\ t.packs = row.packs /\ t.releases = y /\ t.tokens = row.tokens
  BY <1>0, OtherFields
<1> HIDE DEF t
<1>8. new.latest = n
  BY <1>0, <1>2 DEF Sound, StoredPack
<1> HIDE DEF new
<1>9. \A p \in Packs : x[p] = IF p = q.pack THEN new ELSE row.packs[p]
  BY <1>0, <1>2 DEF Sound
<1> HIDE DEF x
<1>10. /\ r.slots = t.slots /\ r.licensed = t.licensed /\ r.banned = t.banned /\ r.paused = t.paused
       /\ r.packs = x /\ r.releases = t.releases /\ r.tokens = t.tokens
  BY <1>6, OtherFields
<1> HIDE DEF r
<1>11. Limits(r)
  <2>1. \A p \in Packs : x[p] # None => x[p].latest <= MaxReleases
    BY <1>0, <1>1, <1>8, <1>9 DEF Limits
  <2> QED
    BY <1>0, <1>1, <1>4, <1>5, <1>7, <1>10, <2>1 DEF Limits
<1>12. /\ issued' <= MaxDangers /\ current' \subseteq 1..MaxReleases /\ outdated' \subseteq Packs
       /\ edits' \in 0..MaxEdits /\ \A v \in Operators : request'[v] \in {None, request[v]}
  <2>1. n \in 1..MaxReleases
    BY <1>0, <1>1, <1>3
  <2>2. \A v \in Operators : request'[v] \in {None, request[v]}
    BY <1>0, <1>1 DEF Stored
  <2> QED
    BY <1>0, <1>1, <2>1, <2>2 DEF Bounded
<1> HIDE DEF q, n
<1> QED
  BY <1>1, <1>2, <1>11, <1>12, MutateBounded

\* The state at the start.
LEMMA BoundedInit == Init => Bounded
<1> SUFFICES ASSUME Init PROVE Bounded
  OBVIOUS
<1> USE ReleasesAssumption
<1>1. First.releases = <<>> /\ First.tokens = [a \in Dangerous |-> 0] /\ MaxReleases \in Nat /\ MaxDangers \in Nat
      /\ MaxEdits \in Nat
  OBVIOUS
<1>2. /\ First.slots \subseteq Slots /\ First.licensed \subseteq Hashes /\ First.banned \subseteq Hashes
      /\ First.paused \in BOOLEAN
  BY DEF Row, Hashes
<1>3. \A p \in Packs : First.packs[p] # None => First.packs[p].latest <= MaxReleases
  OBVIOUS
<1>4. Limits(First)
  BY <1>1, <1>2, <1>3 DEF Limits
<1> QED
  BY <1>1, <1>4 DEF Bounded, Init

\* Every step keeps the bounds.
LEMMA BoundedStep == Inv /\ Bounded /\ [Next]_vars => Bounded'
<1> SUFFICES ASSUME Inv, Bounded, [Next]_vars PROVE Bounded'
  OBVIOUS
<1>1. Inv'
  BY InvStep
<1>2. CASE UNCHANGED vars
  BY <1>2 DEF Bounded, vars, history
<1>3. ASSUME NEW i \in Instances, Catalogue(i) \/ Operate(i) PROVE Bounded'
  BY <1>1, <1>3, CatalogueBounded, OperateBounded
<1>4. ASSUME NEW w \in Operators, Publish(w) PROVE Bounded'
  <2>1. ASSUME Fails(w) PROVE Bounded'
    BY <2>1, RequestBounded DEF Fails
  <2> QED
    BY <1>1, <1>4, <2>1, PublishReadBounded, SaveReadBounded, SaveWriteBounded, PublishWriteBounded DEF Publish
<1>5. ASSUME NEW a \in Dangerous, ConfirmExpires(a) PROVE Bounded'
  BY <1>5, ExpiresBounded
<1> QED
  BY <1>2, <1>3, <1>4, <1>5 DEF Next

\* The stored state, every copy of it and what requests hold are well typed and
\* within the bounds at every step.
THEOREM ReleasesAreTyped == Spec => []TypeOK
<1>1. Init => Inv /\ Bounded
  BY InvInit, BoundedInit
<1>2. Inv /\ Bounded /\ [Next]_vars => Inv' /\ Bounded'
  BY InvStep, BoundedStep
<1>3. Inv /\ Bounded => TypeOK
  BY BoundedTyped
<1> QED
  BY <1>1, <1>2, <1>3, PTL DEF Spec

(***************************************************************************)
(* The writers of packs: the editor of the console, the workshop and the   *)
(* deployment script, which edit the packs and mods of this catalogue.     *)
(***************************************************************************)
CONSTANTS NoPack, NewPack, PlatformPack, NoMod, Newest, DefaultGame, Declares, DependsOn, LoadSlots,
          MaxMoves, MaxSaves, MaxTrouble
VARIABLES created, registered, withdrawn, games, route, creating, shown, entries, removed, base, packGame, loads,
          adding, attached, settled, cart, deploy, moves, saves, trouble, revision

Writers == INSTANCE PackEditing WITH Slots <- LoadSlots

\* The parameters and types, and that what is under way has a pack.
WritersSound ==
  /\ Writers!PackEditingAssumption /\ Writers!TypeOK
  /\ \A s \in LoadSlots : loads[s].step # "free" => loads[s].pack \in Packs
  /\ save.step # "idle" => save.pack \in Packs
  /\ cart.step # "idle" => cart.pack \in Packs

\* The types of each part, and the parts of what keeps them.
EditorTyped ==
  /\ {route, shown} \subseteq Packs \cup {NoPack} /\ creating \in BOOLEAN
  /\ entries \in Writers!Entries /\ removed \subseteq Mods /\ base \in Nat
  /\ adding \in Mods \cup {NoMod} /\ packGame \in Games /\ attached \in BOOLEAN
LoadsTyped ==
  /\ loads \in [LoadSlots -> Writers!Load]
  /\ \A s \in LoadSlots : loads[s].step # "free" => loads[s].pack \in Packs
SaveTyped == save \in Writers!Draft /\ (save.step # "idle" => save.pack \in Packs)
CartTyped == cart \in Writers!Draft /\ (cart.step # "idle" => cart.pack \in Packs)
DeployTyped == deploy \in [step : {"register", "save", "release", "done"},
                           todo : SUBSET Built, entries : Writers!Entries, base : Nat, game : Games]
ApiTyped ==
  /\ stored \in [Packs -> Writers!Entries] /\ created \subseteq Packs
  /\ registered \in [Mods -> 1..Newest] /\ revision \in [Packs -> Nat] /\ stale \in BOOLEAN
  /\ withdrawn \subseteq Mods \X (1..Newest) /\ games \in [Packs -> Games]
CountsTyped == moves \in 0..MaxMoves /\ saves \in 0..MaxSaves /\ trouble \in 0..MaxTrouble
HistoryTyped == settled \in BOOLEAN /\ crossed \in BOOLEAN

\* Together they are the types.
LEMMA WritersParts ==
  WritersSound <=> /\ Writers!PackEditingAssumption /\ EditorTyped /\ LoadsTyped /\ SaveTyped
                   /\ CartTyped /\ DeployTyped /\ ApiTyped /\ CountsTyped /\ HistoryTyped
BY Zenon DEF WritersSound, Writers!TypeOK, EditorTyped, LoadsTyped, SaveTyped, CartTyped, DeployTyped, ApiTyped,
             CountsTyped, HistoryTyped

\* The constants as the proofs use them.
LEMMA WritersConstants ==
  ASSUME Writers!PackEditingAssumption
  PROVE  /\ NewPack \in Packs /\ PlatformPack \in Packs /\ NewPack # PlatformPack
         /\ NoPack \notin Packs /\ NoMod \notin Mods
         /\ Newest \in Nat /\ Newest > 0 /\ MaxMoves \in Nat /\ MaxSaves \in Nat /\ MaxTrouble \in Nat
         /\ Built \subseteq Plugins /\ Plugins \subseteq Mods /\ Plugins \subseteq Theme[PlatformPack]
         /\ Writers!Empty \in Writers!Entries /\ \A p \in Packs : Theme[p] \subseteq Mods
         /\ DefaultGame \in Games
         /\ \A m \in Mods, v \in 1..Newest : DependsOn[m][v] \subseteq Mods
         /\ \A p \in Packs : \A m \in Theme[p], v \in 1..Newest : DependsOn[m][v] \subseteq Theme[p]
BY DEF Writers!PackEditingAssumption, Writers!Empty, Writers!Entries

\* The pack that is edited is a pack.
LEMMA TargetTyped ==
  ASSUME WritersSound
  PROVE  /\ Writers!Target \in Packs /\ Writers!Current \in Packs \cup {NoPack}
         /\ Writers!Current # NoPack => Writers!Target = Writers!Current
BY WritersConstants DEF WritersSound, Writers!TypeOK, Writers!Target, Writers!Current

\* What nobody is doing is well typed.
LEMMA IdleTyped ==
  ASSUME Writers!PackEditingAssumption
  PROVE  Writers!Idle \in Writers!Draft /\ Writers!NoLoad \in Writers!Load
BY WritersConstants, Zenon DEF Writers!Idle, Writers!Draft, Writers!NoLoad, Writers!Load

\* A load that is asked for has a pack and takes a slot that was free.
LEMMA AsksTyped ==
  ASSUME WritersSound, NEW p \in Packs, Writers!Asks(p)
  PROVE  /\ LoadsTyped' /\ settled' = Writers!Quiet
         /\ \E s \in LoadSlots :
              /\ loads[s].step = "free" /\ loads'[s].step = "asked" /\ loads'[s].pack = p
              /\ \A t \in LoadSlots : t # s => loads'[t] = loads[t]
<1> DEFINE s == CHOOSE t \in Writers!FreeSlots : TRUE
           l == [Writers!NoLoad EXCEPT !.step = "asked", !.pack = p]
<1>1. Writers!FreeSlots # {} /\ loads' = [loads EXCEPT ![s] = l] /\ settled' = Writers!Quiet
  BY DEF Writers!Asks
<1>2. s \in LoadSlots /\ loads[s].step = "free"
  <2>1. s \in Writers!FreeSlots
    BY <1>1
  <2> QED
    BY <2>1 DEF Writers!FreeSlots
<1> HIDE DEF s
<1>3. l \in Writers!Load /\ l.step = "asked" /\ l.pack = p
  BY IdleTyped DEF WritersSound, Writers!NoLoad, Writers!Load
<1> HIDE DEF l
<1>4. loads \in [LoadSlots -> Writers!Load]
  BY DEF WritersSound, Writers!TypeOK
<1>5. LoadsTyped'
  BY <1>1, <1>2, <1>3, <1>4 DEF WritersSound, LoadsTyped
<1> QED
  BY <1>1, <1>2, <1>3, <1>4, <1>5

\* The version that the API picks is one of the mod, if there is one.
LEMMA LatestTyped ==
  ASSUME WritersSound, NEW m \in Mods, NEW g
  PROVE  Writers!Latest(m, g) \in 0..Newest
<1> DEFINE newest == {v \in 1..registered[m] :
                        g \in Declares[m][v] /\ \A w \in (v + 1)..registered[m] : g \notin Declares[m][w]}
<1>1. registered[m] \in 1..Newest /\ Newest \in Nat
  BY WritersConstants DEF WritersSound, Writers!TypeOK
<1>2. CASE newest = {}
  BY <1>1, <1>2 DEF Writers!Latest
<1>3. CASE newest # {}
  <2>1. (CHOOSE v \in newest : TRUE) \in newest
    BY <1>3
  <2>2. newest \subseteq 0..Newest
    BY <1>1
  <2>3. Writers!Latest(m, g) = CHOOSE v \in newest : TRUE
    BY <1>3, Zenon DEF Writers!Latest
  <2> QED
    BY <2>1, <2>2, <2>3
<1> QED
  BY <1>2, <1>3

\* What the API makes of entries are entries of the same pack: all that it was
\* sent, and what they need.
LEMMA ExpandedTyped ==
  ASSUME WritersSound, NEW p \in Packs, NEW e \in Writers!Entries, NEW g,
         NEW full \in Writers!Expanded(e, g), Writers!Accepts(e, full, g)
  PROVE  /\ full \in Writers!Entries
         /\ Writers!In(e) \subseteq Writers!In(full)
         /\ Writers!In(e) \subseteq Theme[p] => Writers!In(full) \subseteq Theme[p]
<1>1. PICK kept \in SUBSET (Writers!Needed(e) \cap Writers!In(e)) :
        full = [m \in Mods |-> IF m \in Writers!Needed(e) \ kept THEN Writers!Latest(m, g) ELSE e[m]]
  BY DEF Writers!Expanded
<1>2. \A m \in Mods : full[m] \in 0..Newest
  <2> SUFFICES ASSUME NEW m \in Mods PROVE full[m] \in 0..Newest
    OBVIOUS
  <2>1. Writers!Latest(m, g) \in 0..Newest
    BY LatestTyped
  <2>2. e[m] \in 0..Newest
    BY DEF Writers!Entries
  <2>3. full[m] = IF m \in Writers!Needed(e) \ kept THEN Writers!Latest(m, g) ELSE e[m]
    BY <1>1
  <2> QED
    BY <2>1, <2>2, <2>3
<1>3. full \in Writers!Entries
  BY <1>1, <1>2 DEF Writers!Entries
<1>4. Writers!In(e) \subseteq Writers!In(full)
  BY DEF Writers!Accepts
<1>5. Writers!In(full) \subseteq Writers!In(e) \cup Writers!Needed(e)
  BY <1>1 DEF Writers!In
<1>6. ASSUME Writers!In(e) \subseteq Theme[p] PROVE Writers!Needed(e) \subseteq Theme[p]
  <2> SUFFICES ASSUME NEW m \in Writers!In(e) PROVE DependsOn[m][e[m]] \subseteq Theme[p]
    BY DEF Writers!Needed
  <2>1. m \in Mods /\ e[m] \in 0..Newest /\ e[m] # 0 /\ Newest \in Nat
    BY WritersConstants DEF WritersSound, Writers!In, Writers!Entries
  <2>2. m \in Theme[p] /\ e[m] \in 1..Newest
    BY <1>6, <2>1
  <2> QED
    BY <2>2, WritersConstants DEF WritersSound
<1> QED
  BY <1>3, <1>4, <1>5, <1>6

\* What the API writes is well typed.
LEMMA WritesTyped ==
  ASSUME WritersSound, NEW p \in Packs, NEW e \in Writers!Entries, NEW g \in Games, NEW from,
         Writers!Writes(p, e, g, from)
  PROVE  ApiTyped'
<1>1. ApiTyped
  BY WritersParts
<1>2. stale' \in BOOLEAN
  BY Zenon DEF Writers!Writes
<1>3. PICK full \in Writers!Entries : stored' = [stored EXCEPT ![p] = full]
  BY ExpandedTyped DEF Writers!Writes
<1> QED
  BY <1>1, <1>2, <1>3 DEF ApiTyped, Writers!Writes

\* A pack that is opened.
LEMMA OpenTyped ==
  ASSUME WritersSound, NEW p \in Packs, Writers!Open(p), UNCHANGED crossed
  PROVE  EditorTyped' /\ LoadsTyped' /\ HistoryTyped'
<1>1. LoadsTyped' /\ settled' = Writers!Quiet
  BY AsksTyped DEF Writers!Open
<1>2. settled' \in BOOLEAN
  BY <1>1, Zenon DEF Writers!Quiet
<1>3. EditorTyped /\ HistoryTyped
  BY WritersParts
<1> QED
  BY <1>1, <1>2, <1>3 DEF EditorTyped, HistoryTyped, Writers!Open

\* A screen that is cleared.
LEMMA ClearsTyped ==
  ASSUME WritersSound, NEW creates \in BOOLEAN, Writers!Clears(creates), UNCHANGED crossed
  PROVE  EditorTyped' /\ LoadsTyped' /\ HistoryTyped'
<1>1. settled' \in BOOLEAN
  BY Zenon DEF Writers!Clears, Writers!Quiet
<1>2. EditorTyped /\ LoadsTyped /\ HistoryTyped /\ Writers!PackEditingAssumption
  BY WritersParts
<1> QED
  BY <1>1, <1>2, WritersConstants DEF EditorTyped, LoadsTyped, HistoryTyped, Writers!Clears

\* The editor keeps the types.
LEMMA EditorStep ==
  ASSUME WritersSound, Writers!EditorNext
  PROVE  WritersSound'
<1> USE DEF Writers!api, Writers!screen
<1>0. /\ EditorTyped /\ LoadsTyped /\ SaveTyped /\ CartTyped /\ DeployTyped /\ ApiTyped /\ CountsTyped
      /\ HistoryTyped /\ Writers!PackEditingAssumption
  BY WritersParts
<1>1. /\ MaxMoves \in Nat /\ MaxSaves \in Nat /\ MaxTrouble \in Nat /\ Newest \in Nat /\ NewPack \in Packs
      /\ Writers!Target \in Packs /\ Writers!Current \in Packs \cup {NoPack}
      /\ Writers!Idle \in Writers!Draft /\ Writers!NoLoad \in Writers!Load
  BY <1>0, WritersConstants, TargetTyped, IdleTyped
<1>2. UNCHANGED <<cart, deploy>> => CartTyped' /\ DeployTyped'
  BY <1>0 DEF CartTyped, DeployTyped
<1>3. UNCHANGED Writers!api => ApiTyped'
  BY <1>0 DEF ApiTyped
<1>4. UNCHANGED save => SaveTyped'
  BY <1>0 DEF SaveTyped
<1>5. UNCHANGED loads => LoadsTyped'
  BY <1>0 DEF LoadsTyped
<1>6. UNCHANGED <<settled, crossed>> => HistoryTyped'
  BY <1>0 DEF HistoryTyped
<1>7. /\ Writers!Move /\ UNCHANGED <<saves, trouble>> => CountsTyped'
      /\ Writers!Trouble /\ UNCHANGED <<moves, saves>> => CountsTyped'
      /\ UNCHANGED <<moves, saves, trouble>> => CountsTyped'
  BY <1>0, <1>1 DEF CountsTyped, Writers!Move, Writers!Trouble
<1>8. UNCHANGED <<route, creating, shown, entries, removed, base, packGame, adding, attached>> => EditorTyped'
  BY <1>0 DEF EditorTyped
<1>9. Writers!PackEditingAssumption'
  BY <1>0 DEF Writers!PackEditingAssumption
<1> DEFINE Rest == CartTyped' /\ DeployTyped' /\ CountsTyped'
           EditorKept == EditorTyped' /\ LoadsTyped' /\ SaveTyped' /\ ApiTyped' /\ HistoryTyped' /\ Rest
<1> SUFFICES EditorKept
  BY <1>9, Zenon DEF WritersSound, Writers!TypeOK, EditorTyped, LoadsTyped, SaveTyped, CartTyped, DeployTyped,
                     ApiTyped, CountsTyped, HistoryTyped
<1>10. ASSUME NEW p \in Packs, Writers!Select(p) PROVE EditorKept
  BY <1>2, <1>3, <1>4, <1>7, <1>10, OpenTyped DEF Writers!Select
<1>11. CASE Writers!StartCreate \/ Writers!Leave
  BY <1>2, <1>3, <1>4, <1>7, <1>11, ClearsTyped DEF Writers!StartCreate, Writers!Leave
<1>12. CASE Writers!Reload
  <2>1. Writers!Current \in Packs /\ Writers!Asks(Writers!Current)
    BY <1>1, <1>12 DEF Writers!Reload
  <2>2. LoadsTyped' /\ settled' = Writers!Quiet
    BY <2>1, AsksTyped
  <2>3. settled' \in BOOLEAN
    BY <2>2, Zenon DEF Writers!Quiet
  <2>4. HistoryTyped'
    BY <1>0, <1>12, <2>3 DEF HistoryTyped, Writers!Reload
  <2> QED
    BY <1>2, <1>3, <1>4, <1>7, <1>8, <1>12, <2>2, <2>4 DEF Writers!Reload
<1>13. ASSUME NEW s \in LoadSlots, Writers!LoadArrives(s) PROVE EditorKept
  <2> DEFINE p == loads[s].pack
             l == [loads[s] EXCEPT !.step = "shown", !.entries = stored[p], !.base = revision[p]]
  <2>1. loads[s] \in Writers!Load /\ p \in Packs
    BY <1>0, <1>13 DEF LoadsTyped, Writers!LoadArrives
  <2>2. stored[p] \in Writers!Entries /\ revision[p] \in Nat
    BY <1>0, <2>1 DEF ApiTyped
  <2>3. l \in Writers!Load /\ l.pack = p
    BY <2>1, <2>2 DEF Writers!Load
  <2>4. loads' = [loads EXCEPT ![s] = l] /\ shown' = p
    BY <1>13 DEF Writers!LoadArrives
  <2> HIDE DEF l, p
  <2>5. LoadsTyped'
    BY <1>0, <2>1, <2>3, <2>4 DEF LoadsTyped
  <2>6. EditorTyped'
    <3>1. packGame' = games[p] /\ games[p] \in Games
      BY <1>0, <1>13, <2>1 DEF ApiTyped, Writers!LoadArrives, p
    <3> QED
      BY <1>0, <1>13, <2>1, <2>4, <3>1 DEF EditorTyped, Writers!LoadArrives
  <2> QED
    BY <1>2, <1>3, <1>4, <1>6, <1>7, <1>13, <2>5, <2>6 DEF Writers!LoadArrives
<1>14. ASSUME NEW s \in LoadSlots, Writers!LoadEnds(s) \/ Writers!LoadFails(s) PROVE EditorKept
  <2>1. loads' = [loads EXCEPT ![s] = Writers!NoLoad] /\ Writers!NoLoad.step = "free"
    BY <1>14 DEF Writers!LoadEnds, Writers!LoadFails, Writers!NoLoad
  <2>2. LoadsTyped'
    BY <1>0, <1>1, <2>1 DEF LoadsTyped
  <2>3. loads[s] \in Writers!Load
    BY <1>0 DEF LoadsTyped
  <2>4. CASE Writers!LoadEnds(s)
    <3>1. loads[s].entries \in Writers!Entries /\ loads[s].base \in Nat
      BY <2>3 DEF Writers!Load
    <3>2. EditorTyped'
      BY <1>0, <2>4, <3>1 DEF EditorTyped, Writers!LoadEnds
    <3> QED
      BY <1>2, <1>3, <1>4, <1>6, <1>7, <2>2, <2>4, <3>2 DEF Writers!LoadEnds
  <2>5. CASE Writers!LoadFails(s)
    <3>1. HistoryTyped'
      BY <1>0, <2>5 DEF HistoryTyped, Writers!LoadFails
    <3> QED
      BY <1>2, <1>3, <1>4, <1>7, <1>8, <2>2, <2>5, <3>1 DEF Writers!LoadFails
  <2> QED
    BY <1>14, <2>4, <2>5
<1>15. ASSUME NEW m \in Mods, Writers!AddMod(m) \/ Writers!RemoveMod(m) \/ Writers!PickVersion(m)
       PROVE  EditorKept
  <2>1. CASE Writers!AddMod(m) \/ Writers!RemoveMod(m)
    <3>1. EditorTyped'
      <4>1. CASE Writers!AddMod(m)
        BY <1>0, <4>1 DEF EditorTyped, Writers!AddMod
      <4>2. CASE Writers!RemoveMod(m)
        <5>1. entries' = [entries EXCEPT ![m] = 0] /\ 0 \in 0..Newest
          BY <1>1, <4>2 DEF Writers!RemoveMod
        <5>2. entries' \in Writers!Entries
          BY <1>0, <5>1 DEF EditorTyped, Writers!Entries
        <5> QED
          BY <1>0, <4>2, <5>2 DEF EditorTyped, Writers!RemoveMod
      <4> QED
        BY <2>1, <4>1, <4>2
    <3> QED
      BY <1>2, <1>3, <1>4, <1>5, <1>6, <1>7, <2>1, <3>1 DEF Writers!AddMod, Writers!RemoveMod
  <2>2. CASE Writers!PickVersion(m)
    <3>1. PICK v \in 0..Newest : entries' = [entries EXCEPT ![m] = v]
      <4>1. registered[m] \in 1..Newest
        BY <1>0 DEF ApiTyped
      <4>2. PICK w \in 1..registered[m] : entries' = [entries EXCEPT ![m] = w]
        BY <2>2 DEF Writers!PickVersion
      <4>3. w \in 0..Newest
        BY <1>1, <4>1, <4>2
      <4> QED
        BY <4>2, <4>3
    <3>2. EditorTyped'
      BY <1>0, <2>2, <3>1 DEF EditorTyped, Writers!Entries, Writers!PickVersion
    <3> QED
      BY <1>2, <1>3, <1>4, <1>5, <1>6, <1>7, <2>2, <3>2 DEF Writers!PickVersion
  <2> QED
    BY <1>15, <2>1, <2>2
<1>22. ASSUME NEW g \in Games, Writers!PickGame(g) PROVE EditorKept
  <2>1. EditorTyped'
    BY <1>0, <1>22 DEF EditorTyped, Writers!PickGame
  <2> QED
    BY <1>2, <1>3, <1>4, <1>5, <1>6, <1>7, <1>22, <2>1 DEF Writers!PickGame
<1>16. CASE Writers!ModAdded
  <2>1. adding \in Mods /\ registered[adding] \in 1..Newest
    BY <1>0, <1>1, <1>16 DEF EditorTyped, ApiTyped, Writers!ModAdded
  <2>2. entries' \in Writers!Entries /\ removed' \subseteq Mods
    <3>1. CASE attached
      <4>1. PICK v \in 1..registered[adding] : entries' = [entries EXCEPT ![adding] = v]
        BY <1>16, <3>1 DEF Writers!ModAdded
      <4>2. v \in 0..Newest
        BY <1>1, <2>1
      <4>3. removed' = removed \ {adding}
        BY <1>16, <3>1 DEF Writers!ModAdded
      <4> QED
        BY <1>0, <2>1, <4>1, <4>2, <4>3 DEF EditorTyped, Writers!Entries
    <3>2. CASE ~attached
      BY <1>0, <1>16, <3>2 DEF EditorTyped, Writers!ModAdded
    <3> QED
      BY <3>1, <3>2
  <2>3. EditorTyped'
    BY <1>0, <1>16, <2>2 DEF EditorTyped, Writers!ModAdded
  <2> QED
    BY <1>2, <1>3, <1>4, <1>5, <1>6, <1>7, <1>16, <2>3 DEF Writers!ModAdded
<1>17. ASSUME NEW publish \in BOOLEAN, Writers!Save(publish) PROVE EditorKept
  <2>1. SaveTyped'
    <3>1. /\ save' = [step |-> "save", pack |-> Writers!Target, entries |-> entries, removed |-> removed,
                      base |-> base, game |-> packGame, publish |-> publish]
          /\ entries \in Writers!Entries /\ removed \subseteq Mods /\ base \in Nat /\ packGame \in Games
      BY <1>0, <1>17 DEF Writers!Save, EditorTyped
    <3> QED
      BY <1>1, <3>1 DEF SaveTyped, Writers!Draft
  <2>2. HistoryTyped'
    <3>1. crossed' = (crossed \/ ~settled \/ Writers!FreeSlots # LoadSlots) /\ settled' = settled
      BY <1>17 DEF Writers!Save
    <3>2. crossed' \in BOOLEAN
      BY <3>1, Zenon
    <3> QED
      BY <1>0, <3>1, <3>2 DEF HistoryTyped
  <2>3. CountsTyped'
    BY <1>0, <1>1, <1>17 DEF CountsTyped, Writers!Save
  <2> QED
    BY <1>2, <1>3, <1>5, <1>8, <1>17, <2>1, <2>2, <2>3 DEF Writers!Save
<1>18. CASE Writers!SaveWritten
  <2>1. /\ save \in Writers!Draft /\ save.pack \in Packs /\ save.entries \in Writers!Entries /\ save.game \in Games
        /\ Writers!Writes(save.pack, save.entries, save.game, save.base)
    BY <1>0, <1>18 DEF SaveTyped, Writers!SaveWritten, Writers!Draft
  <2>2. ApiTyped'
    BY <2>1, WritesTyped
  <2>3. SaveTyped'
    <3>1. save' = [Writers!Idle EXCEPT !.step = IF save.publish THEN "publish" ELSE "reload", !.pack = save.pack]
      BY <1>18 DEF Writers!SaveWritten
    <3> QED
      BY <1>1, <2>1, <3>1 DEF SaveTyped, Writers!Draft
  <2>4. EditorTyped'
    BY <1>0, <1>18, <2>1 DEF EditorTyped, Writers!SaveWritten
  <2> QED
    BY <1>2, <1>5, <1>6, <1>7, <1>18, <2>2, <2>3, <2>4 DEF Writers!SaveWritten
<1>19. CASE Writers!SavePublished
  <2>1. SaveTyped'
    BY <1>0, <1>19 DEF SaveTyped, Writers!Draft, Writers!SavePublished
  <2> QED
    BY <1>2, <1>3, <1>5, <1>6, <1>7, <1>8, <1>19, <2>1 DEF Writers!SavePublished
<1>20. CASE Writers!SaveEnds
  <2>1. save.pack \in Packs /\ Writers!Open(save.pack) /\ SaveTyped'
    BY <1>0, <1>1, <1>20 DEF SaveTyped, Writers!SaveEnds, Writers!Idle
  <2> QED
    BY <1>2, <1>3, <1>7, <1>20, <2>1, OpenTyped DEF Writers!SaveEnds
<1>21. CASE Writers!SaveFails
  <2>1. save.pack \in Packs /\ save.entries \in Writers!Entries /\ save.game \in Games /\ SaveTyped'
    BY <1>0, <1>1, <1>21 DEF SaveTyped, Writers!SaveFails, Writers!Idle, Writers!Draft
  <2>2. ApiTyped'
    BY <1>3, <1>21, <2>1, WritesTyped DEF Writers!SaveFails
  <2> QED
    BY <1>2, <1>5, <1>6, <1>7, <1>8, <1>21, <2>1, <2>2 DEF Writers!SaveFails
<1>23. CASE Writers!SaveRefused
  <2>1. SaveTyped'
    BY <1>1, <1>23 DEF SaveTyped, Writers!SaveRefused, Writers!Idle
  <2> QED
    BY <1>2, <1>3, <1>5, <1>6, <1>7, <1>8, <1>23, <2>1 DEF Writers!SaveRefused
<1> QED
  BY <1>10, <1>11, <1>12, <1>13, <1>14, <1>15, <1>16, <1>17, <1>18, <1>19, <1>20, <1>21, <1>22,
     <1>23, Zenon
     DEF Writers!EditorNext

\* The workshop keeps the types.
LEMMA WorkshopStep ==
  ASSUME WritersSound, Writers!WorkshopNext
  PROVE  CartTyped' /\ ApiTyped' /\ CountsTyped' /\ UNCHANGED <<Writers!editor, deploy, crossed>>
<1>0. CartTyped /\ ApiTyped /\ CountsTyped /\ Writers!PackEditingAssumption
  BY WritersParts
<1>1. MaxSaves \in Nat /\ Newest \in Nat /\ Writers!Idle \in Writers!Draft
  BY <1>0, WritersConstants, IdleTyped
<1>2. ASSUME NEW p \in Packs, Writers!ListPack(p)
      PROVE  CartTyped' /\ ApiTyped' /\ CountsTyped' /\ UNCHANGED <<Writers!editor, deploy, crossed>>
  <2>0. PICK g \in Games : cart' = [Writers!Idle EXCEPT !.step = "listed", !.pack = p, !.entries = stored[p],
                                                       !.base = revision[p], !.game = g]
    BY <1>0, <1>2 DEF ApiTyped, Writers!ListPack
  <2>1. stored[p] \in Writers!Entries /\ revision[p] \in Nat
    BY <1>0 DEF ApiTyped
  <2>2. CartTyped'
    BY <1>1, <2>0, <2>1 DEF CartTyped, Writers!Draft
  <2>3. ApiTyped' /\ CountsTyped'
    BY <1>0, <1>1, <1>2 DEF ApiTyped, CountsTyped, Writers!ListPack, Writers!api
  <2> QED
    BY <1>2, <2>2, <2>3 DEF Writers!ListPack
<1>3. ASSUME NEW cartMods \in SUBSET Mods, Writers!SubmitCart(cartMods)
      PROVE  CartTyped' /\ ApiTyped' /\ CountsTyped' /\ UNCHANGED <<Writers!editor, deploy, crossed>>
  <2>1. cart.pack \in Packs /\ cart.entries \in Writers!Entries /\ cart.game \in Games
    BY <1>0, <1>3 DEF CartTyped, Writers!Draft, Writers!SubmitCart
  <2>2. Writers!Merged(cartMods) \in Writers!Entries
    BY <1>0, <1>1, <2>1 DEF ApiTyped, Writers!Merged, Writers!Entries
  <2>3. ApiTyped'
    BY <1>3, <2>1, <2>2, WritesTyped DEF Writers!SubmitCart
  <2>4. CartTyped'
    BY <1>1, <1>3 DEF CartTyped, Writers!SubmitCart, Writers!Idle
  <2> QED
    BY <1>0, <1>3, <2>3, <2>4 DEF CountsTyped, Writers!SubmitCart
<1> QED
  BY <1>2, <1>3 DEF Writers!WorkshopNext, Writers!SubmitMod

\* The script keeps the types.
LEMMA DeployTypedStep ==
  ASSUME WritersSound, Writers!DeployStep \/ Writers!DeployFails
  PROVE  DeployTyped' /\ ApiTyped' /\ CountsTyped' /\ UNCHANGED <<Writers!editor, cart, crossed>>
<1>0. DeployTyped /\ ApiTyped /\ CountsTyped /\ Writers!PackEditingAssumption
  BY WritersParts
<1>1. /\ MaxTrouble \in Nat /\ Newest \in Nat /\ Newest > 0 /\ PlatformPack \in Packs
      /\ Writers!Empty \in Writers!Entries /\ DefaultGame \in Games
  BY <1>0, WritersConstants
<1>2. UNCHANGED <<moves, saves, trouble>> => CountsTyped'
  BY <1>0 DEF CountsTyped
<1>3. ASSUME NEW m \in Mods, Writers!DeployRegister(m)
      PROVE  DeployTyped' /\ ApiTyped' /\ CountsTyped' /\ UNCHANGED <<Writers!editor, cart, crossed>>
  <2>1. DeployTyped'
    BY <1>0, <1>3 DEF DeployTyped, Writers!DeployRegister
  <2>2. registered' \in [Mods -> 1..Newest] /\ withdrawn' \subseteq Mods \X (1..Newest)
    BY <1>0, <1>1, <1>3 DEF ApiTyped, Writers!DeployRegister
  <2>3. ApiTyped'
    BY <1>0, <1>3, <2>2 DEF ApiTyped, Writers!DeployRegister
  <2> QED
    BY <1>2, <1>3, <2>1, <2>3 DEF Writers!DeployRegister
<1>4. CASE Writers!DeployRead
  <2>1. stored[PlatformPack] \in Writers!Entries /\ revision[PlatformPack] \in Nat /\ games[PlatformPack] \in Games
    BY <1>0, <1>1 DEF ApiTyped
  <2>2. Writers!Upserted(stored[PlatformPack]) \in Writers!Entries
    BY <1>1, <2>1 DEF Writers!Upserted, Writers!Entries
  <2>3. DeployTyped'
    BY <1>0, <1>4, <2>1, <2>2 DEF DeployTyped, Writers!DeployRead
  <2>4. ApiTyped'
    BY <1>0, <1>4 DEF ApiTyped, Writers!DeployRead, Writers!api
  <2> QED
    BY <1>2, <1>4, <2>3, <2>4 DEF Writers!DeployRead
<1>5. ASSUME NEW step \in {"release", "done"}, Writers!Step(step) PROVE DeployTyped'
  <2>1. deploy' = [step |-> step, todo |-> {}, entries |-> Writers!Empty, base |-> 0, game |-> DefaultGame]
    BY <1>5 DEF Writers!Step, Writers!NotStarted
  <2> QED
    BY <1>1, <2>1 DEF DeployTyped
<1>6. CASE Writers!DeploySave
  <2>1. deploy.entries \in Writers!Entries /\ deploy.game \in Games
    BY <1>0 DEF DeployTyped
  <2>2. ApiTyped'
    BY <1>1, <1>6, <2>1, WritesTyped DEF Writers!DeploySave
  <2> QED
    BY <1>2, <1>5, <1>6, <2>2 DEF Writers!DeploySave
<1>7. CASE Writers!DeployRelease
  <2>1. ApiTyped'
    BY <1>0, <1>7 DEF ApiTyped, Writers!DeployRelease, Writers!api
  <2> QED
    BY <1>2, <1>5, <1>7, <2>1 DEF Writers!DeployRelease
<1>8. CASE Writers!DeployFails
  <2>1. DeployTyped' /\ ApiTyped' /\ CountsTyped'
    BY <1>0, <1>1, <1>8 DEF DeployTyped, ApiTyped, CountsTyped, Writers!DeployFails, Writers!NotStarted,
                            Writers!api, Writers!Trouble
  <2> QED
    BY <1>8, <2>1 DEF Writers!DeployFails
<1>9. CASE Writers!DeployRefused
  <2>1. DeployTyped' /\ ApiTyped'
    BY <1>0, <1>1, <1>9 DEF DeployTyped, ApiTyped, Writers!DeployRefused, Writers!NotStarted, Writers!api
  <2> QED
    BY <1>2, <1>9, <2>1 DEF Writers!DeployRefused
<1> QED
  BY <1>3, <1>4, <1>6, <1>7, <1>8, <1>9 DEF Writers!DeployStep

\* Reviews change what is withdrawn.
LEMMA ReviewTyped ==
  ASSUME WritersSound, Writers!ReviewNext
  PROVE  /\ ApiTyped' /\ CountsTyped' /\ UNCHANGED <<Writers!editor, cart, deploy, crossed, stored, revision>>
<1>0. ApiTyped /\ CountsTyped /\ Writers!PackEditingAssumption
  BY WritersParts
<1>1. Newest \in Nat /\ MaxTrouble \in Nat
  BY <1>0, WritersConstants
<1>2. ASSUME NEW m \in Mods, Writers!Withdraw(m)
      PROVE  /\ ApiTyped' /\ CountsTyped' /\ UNCHANGED <<Writers!editor, cart, deploy, crossed, stored, revision>>
  <2>1. PICK v \in 1..registered[m] : Writers!Review(withdrawn \cup {<<m, v>>})
    BY <1>2 DEF Writers!Withdraw
  <2>2. v \in 1..Newest
    BY <1>0, <1>1 DEF ApiTyped
  <2>3. ApiTyped'
    BY <1>0, <2>1, <2>2 DEF ApiTyped, Writers!Review
  <2>4. CountsTyped'
    BY <1>0, <1>1, <1>2, <2>1 DEF CountsTyped, Writers!Withdraw, Writers!Review, Writers!Trouble
  <2> QED
    BY <2>1, <2>3, <2>4 DEF Writers!Review
<1>3. CASE Writers!ApproveAgain
  <2>1. ApiTyped' /\ CountsTyped'
    BY <1>0, <1>3 DEF ApiTyped, CountsTyped, Writers!ApproveAgain, Writers!Review
  <2> QED
    BY <1>3, <2>1 DEF Writers!ApproveAgain, Writers!Review
<1> QED
  BY <1>2, <1>3 DEF Writers!ReviewNext

\* So everything does.
LEMMA WritersStep ==
  ASSUME WritersSound, [Writers!Next]_(Writers!vars)
  PROVE  WritersSound'
<1>1. /\ EditorTyped /\ LoadsTyped /\ SaveTyped /\ CartTyped /\ DeployTyped /\ ApiTyped /\ CountsTyped
      /\ HistoryTyped /\ Writers!PackEditingAssumption
  BY WritersParts
<1>2. CASE Writers!EditorNext
  BY <1>2, EditorStep
<1> DEFINE EditorKept == /\ EditorTyped' /\ LoadsTyped' /\ SaveTyped' /\ CartTyped' /\ DeployTyped' /\ ApiTyped'
                    /\ CountsTyped' /\ HistoryTyped'
<1>3. ASSUME EditorKept PROVE WritersSound'
  BY <1>1, <1>3, Zenon
     DEF WritersSound, Writers!TypeOK, EditorTyped, LoadsTyped, SaveTyped, CartTyped, DeployTyped,
         ApiTyped, CountsTyped, HistoryTyped, Writers!PackEditingAssumption
<1>4. UNCHANGED <<Writers!editor, crossed>> => EditorTyped' /\ LoadsTyped' /\ SaveTyped' /\ HistoryTyped'
  BY <1>1 DEF Writers!editor, Writers!screen, EditorTyped, LoadsTyped, SaveTyped, HistoryTyped
<1>5. CASE Writers!WorkshopNext
  <2>1. DeployTyped'
    BY <1>1, <1>5, WorkshopStep DEF DeployTyped
  <2> QED
    BY <1>3, <1>4, <1>5, <2>1, WorkshopStep
<1>6. CASE Writers!DeployStep \/ Writers!DeployFails
  <2>1. CartTyped'
    BY <1>1, <1>6, DeployTypedStep DEF CartTyped
  <2> QED
    BY <1>3, <1>4, <1>6, <2>1, DeployTypedStep
<1>8. CASE Writers!ReviewNext
  <2>1. CartTyped' /\ DeployTyped'
    BY <1>1, <1>8, ReviewTyped DEF CartTyped, DeployTyped
  <2> QED
    BY <1>3, <1>4, <1>8, <2>1, ReviewTyped
<1>7. CASE UNCHANGED Writers!vars
  <2>1. /\ UNCHANGED <<Writers!editor, crossed>> /\ CartTyped' /\ DeployTyped' /\ ApiTyped' /\ CountsTyped'
    BY <1>1, <1>7 DEF Writers!vars, Writers!api, CartTyped, DeployTyped, ApiTyped, CountsTyped
  <2> QED
    BY <1>3, <1>4, <2>1
<1> QED
  BY <1>2, <1>5, <1>6, <1>7, <1>8 DEF Writers!Next

\* The editor starts with the platform's pack, and nothing is under way.
LEMMA WritersInit ==
  ASSUME Writers!PackEditingAssumption, Writers!Init
  PROVE  WritersSound
<1>1. \A p \in Packs : stored[p] \in Writers!Entries
  <2>1. 0 \in 0..Newest /\ 1 \in 0..Newest
    BY WritersConstants
  <2> QED
    BY <2>1, WritersConstants DEF Writers!Init, Writers!Entries
<1>2. stored \in [Packs -> Writers!Entries]
  BY <1>1 DEF Writers!Init
<1>3. EditorTyped
  BY <1>1, WritersConstants DEF EditorTyped, Writers!Init
<1>4. LoadsTyped /\ SaveTyped /\ CartTyped
  BY IdleTyped DEF LoadsTyped, SaveTyped, CartTyped, Writers!Init, Writers!NoLoad, Writers!Idle
<1>5. DeployTyped
  BY WritersConstants DEF DeployTyped, Writers!Init, Writers!NotStarted
<1>6. ApiTyped /\ CountsTyped /\ HistoryTyped
  <2>1. registered \in [Mods -> 1..Newest]
    BY WritersConstants DEF Writers!Init
  <2>2. stale \in BOOLEAN /\ HistoryTyped
    BY DEF Writers!Init, HistoryTyped
  <2> QED
    BY <1>2, <2>1, <2>2, WritersConstants DEF ApiTyped, CountsTyped, Writers!Init
<1> QED
  BY <1>3, <1>4, <1>5, <1>6, WritersParts

(***************************************************************************)
(* What is written.  What makes the properties inductive: whatever was put *)
(* together from the latest revision of a pack has all of its entries but  *)
(* those that were taken out on purpose, and what the editor shows after   *)
(* loads that came one after the other is of the pack it will be saved to. *)
(***************************************************************************)
\* e was read from p at revision r of it, and lacks only what is in out.
Covers(sto, rev, e, out, r, p) ==
  r <= rev[p] /\ (r = rev[p] => Writers!In(sto[p]) \subseteq Writers!In(e) \cup out)

Themed(e, p) == Writers!In(e) \subseteq Theme[p]

ApiKept ==
  /\ revision[NewPack] = 0 => Writers!In(stored[NewPack]) = {}
  /\ ~crossed => Writers!IntendedContents

LoadsKept ==
  \A s \in LoadSlots : loads[s].step = "shown" =>
    /\ Covers(stored, revision, loads[s].entries, {}, loads[s].base, loads[s].pack)
    /\ ~crossed => Themed(loads[s].entries, loads[s].pack)

CartKept ==
  cart.step = "listed" =>
    /\ Covers(stored, revision, cart.entries, {}, cart.base, cart.pack)
    /\ ~crossed => Themed(cart.entries, cart.pack)

DeployKept ==
  deploy.step = "save" =>
    /\ Covers(stored, revision, deploy.entries, Plugins \ Built, deploy.base, PlatformPack)
    /\ ~crossed => Themed(deploy.entries, PlatformPack)

SaveKept ==
  save.step = "save" /\ ~crossed =>
    /\ Covers(stored, revision, save.entries, save.removed, save.base, save.pack)
    /\ Themed(save.entries, save.pack)

ScreenKept ==
  /\ creating => route = NoPack
  /\ settled =>
    /\ \A s \in LoadSlots : loads[s].step # "free" => loads[s].pack = Writers!Target
    /\ save.step = "save" => save.pack = Writers!Target
    /\ Writers!FreeSlots = LoadSlots =>
         /\ attached => adding \in Theme[Writers!Target]
         /\ Covers(stored, revision, entries, removed, base, Writers!Target)
         /\ ~crossed => Themed(entries, Writers!Target)

WritersKept == ApiKept /\ LoadsKept /\ CartKept /\ DeployKept /\ SaveKept /\ ScreenKept

\* What the API did to packs left every draft as good as it was.
DraftsKept ==
  /\ crossed => crossed'
  /\ \A e, out, r, p : r \in Nat /\ p \in Packs /\ Covers(stored, revision, e, out, r, p) =>
                         Covers(stored', revision', e, out, r, p)

\* A write makes every draft of the pack an old one.
LEMMA WritesKept ==
  ASSUME WritersSound, ApiKept, NEW p \in Packs, NEW e \in Writers!Entries, NEW g, NEW from,
         Writers!Writes(p, e, g, from), UNCHANGED crossed, ~crossed => Themed(e, p)
  PROVE  ApiKept' /\ DraftsKept
<1>0. PICK full \in Writers!Expanded(e, g) : Writers!Accepts(e, full, g) /\ stored' = [stored EXCEPT ![p] = full]
  BY DEF Writers!Writes
<1>5. ~crossed => Themed(full, p)
  BY <1>0, ExpandedTyped DEF Themed
<1>1. /\ stored \in [Packs -> Writers!Entries] /\ revision \in [Packs -> Nat]
      /\ stored' = [stored EXCEPT ![p] = full] /\ revision' = [revision EXCEPT ![p] = @ + 1]
  BY <1>0 DEF WritersSound, Writers!TypeOK, Writers!Writes
<1>2. DraftsKept
  <2> SUFFICES ASSUME NEW x, NEW out, NEW r \in Nat, NEW q \in Packs, Covers(stored, revision, x, out, r, q)
               PROVE  Covers(stored', revision', x, out, r, q)
    BY DEF DraftsKept
  <2>1. CASE q = p
    <3>1. revision[p] \in Nat /\ revision'[p] = revision[p] + 1 /\ r <= revision[p]
      BY <1>1, <2>1 DEF Covers
    <3>2. r <= revision'[p] /\ r # revision'[p]
      BY <3>1
    <3> QED
      BY <2>1, <3>2 DEF Covers
  <2>2. CASE q # p
    BY <1>1, <2>2 DEF Covers
  <2> QED
    BY <2>1, <2>2
<1>3. ASSUME revision'[NewPack] = 0 PROVE Writers!In(stored'[NewPack]) = {}
  <2>1. NewPack \in Packs /\ revision[p] \in Nat
    BY <1>1, WritersConstants DEF WritersSound
  <2>2. NewPack # p
    BY <1>1, <1>3, <2>1
  <2> QED
    BY <1>1, <1>3, <2>1, <2>2 DEF ApiKept
<1>4. ASSUME ~crossed PROVE Writers!IntendedContents'
  <2>1. \A q \in Packs : Writers!In(stored'[q]) \subseteq Theme[q]
    BY <1>1, <1>4, <1>5 DEF ApiKept, Writers!IntendedContents, Themed
  <2> QED
    BY <2>1 DEF Writers!IntendedContents, Writers!In
<1> QED
  BY <1>2, <1>3, <1>4 DEF ApiKept, Writers!In

\* So does a step that leaves the packs alone.
LEMMA ApiSame ==
  ASSUME ApiKept, UNCHANGED <<stored, revision>>, crossed => crossed'
  PROVE  ApiKept' /\ DraftsKept
BY DEF ApiKept, DraftsKept, Writers!IntendedContents, Writers!In

\* A draft that nobody touched is as good as it was.
LEMMA DraftsSame ==
  ASSUME WritersSound, WritersKept, DraftsKept
  PROVE  /\ UNCHANGED loads => LoadsKept'
         /\ UNCHANGED cart => CartKept'
         /\ UNCHANGED deploy => DeployKept'
         /\ save' = save \/ save'.step # "save" => SaveKept'
<1>1. ASSUME UNCHANGED loads PROVE LoadsKept'
  <2> SUFFICES ASSUME NEW s \in LoadSlots, loads[s].step = "shown"
               PROVE  /\ Covers(stored', revision', loads[s].entries, {}, loads[s].base, loads[s].pack)
                      /\ ~crossed' => Themed(loads[s].entries, loads[s].pack)
    BY <1>1 DEF LoadsKept, Covers, Themed, Writers!In
  <2>1. loads[s].base \in Nat /\ loads[s].pack \in Packs
    BY DEF WritersSound, Writers!TypeOK, Writers!Load
  <2> QED
    BY <2>1 DEF WritersKept, LoadsKept, DraftsKept
<1>2. ASSUME UNCHANGED cart PROVE CartKept'
  <2> SUFFICES ASSUME cart.step = "listed"
               PROVE  /\ Covers(stored', revision', cart.entries, {}, cart.base, cart.pack)
                      /\ ~crossed' => Themed(cart.entries, cart.pack)
    BY <1>2 DEF CartKept, Covers, Themed, Writers!In
  <2>1. cart.base \in Nat /\ cart.pack \in Packs
    BY DEF WritersSound, Writers!TypeOK, Writers!Draft
  <2> QED
    BY <2>1 DEF WritersKept, CartKept, DraftsKept
<1>3. ASSUME UNCHANGED deploy PROVE DeployKept'
  <2> SUFFICES ASSUME deploy.step = "save"
               PROVE  /\ Covers(stored', revision', deploy.entries, Plugins \ Built, deploy.base, PlatformPack)
                      /\ ~crossed' => Themed(deploy.entries, PlatformPack)
    BY <1>3 DEF DeployKept, Covers, Themed, Writers!In
  <2>1. deploy.base \in Nat /\ PlatformPack \in Packs
    BY WritersConstants DEF WritersSound, Writers!TypeOK
  <2> QED
    BY <2>1 DEF WritersKept, DeployKept, DraftsKept
<1>4. ASSUME save' = save \/ save'.step # "save" PROVE SaveKept'
  <2> SUFFICES ASSUME save' = save, save.step = "save", ~crossed
               PROVE  /\ Covers(stored', revision', save.entries, save.removed, save.base, save.pack)
                      /\ Themed(save.entries, save.pack)
    BY <1>4 DEF SaveKept, Covers, Themed, Writers!In, DraftsKept
  <2>1. save.base \in Nat /\ save.pack \in Packs
    BY DEF WritersSound, Writers!TypeOK, Writers!Draft
  <2> QED
    BY <2>1 DEF WritersKept, SaveKept, DraftsKept
<1> QED
  BY <1>1, <1>2, <1>3, <1>4

\* Nothing happened to the screen, or it is no longer settled.
LEMMA ScreenSame ==
  ASSUME WritersSound, WritersKept, DraftsKept, settled' => settled,
         creating' => route' = NoPack,
         settled' => /\ UNCHANGED <<entries, removed, base, adding, attached, loads>> /\ Writers!Target' = Writers!Target
                     /\ save'.step = "save" => save'.pack = Writers!Target
  PROVE  ScreenKept'
<1> SUFFICES ASSUME settled'
             PROVE  /\ \A s \in LoadSlots : loads'[s].step # "free" => loads'[s].pack = Writers!Target'
                    /\ save'.step = "save" => save'.pack = Writers!Target'
                    /\ Writers!FreeSlots' = LoadSlots =>
                         /\ attached' => adding' \in Theme[Writers!Target']
                         /\ Covers(stored', revision', entries', removed', base', Writers!Target')
                         /\ ~crossed' => Themed(entries', Writers!Target')
  BY DEF ScreenKept, Covers, Themed, Writers!In
<1> DEFINE t == Writers!Target
<1>1. /\ settled /\ UNCHANGED <<entries, removed, base, adding, attached, loads>> /\ Writers!Target' = t
      /\ save'.step = "save" => save'.pack = t
  OBVIOUS
<1>2. Writers!FreeSlots' = Writers!FreeSlots
  BY <1>1 DEF Writers!FreeSlots
<1>3. t \in Packs /\ base \in Nat
  BY TargetTyped DEF WritersSound, Writers!TypeOK
<1>4. /\ \A s \in LoadSlots : loads[s].step # "free" => loads[s].pack = t
      /\ Writers!FreeSlots = LoadSlots =>
           /\ attached => adding \in Theme[t]
           /\ Covers(stored, revision, entries, removed, base, t)
           /\ ~crossed => Themed(entries, t)
  BY <1>1 DEF WritersKept, ScreenKept
<1> HIDE DEF t
<1>5. Covers(stored, revision, entries, removed, base, t) => Covers(stored', revision', entries, removed, base, t)
  BY <1>3 DEF DraftsKept
<1>6. crossed => crossed'
  BY DEF DraftsKept
<1> QED
  BY <1>1, <1>2, <1>4, <1>5, <1>6

\* A pack is asked for: settled when nothing else is under way.
LEMMA AsksKept ==
  ASSUME WritersSound, WritersKept, NEW p \in Packs, Writers!Asks(p), UNCHANGED <<stored, revision, crossed>>,
         Writers!Target' = p, creating' => route' = NoPack, save' = save \/ save'.step # "save"
  PROVE  LoadsKept' /\ ScreenKept'
<1>1. PICK s \in LoadSlots : /\ loads[s].step = "free" /\ loads'[s].step = "asked" /\ loads'[s].pack = p
                         /\ \A t \in LoadSlots : t # s => loads'[t] = loads[t]
  BY AsksTyped
<1>2. settled' = Writers!Quiet
  BY AsksTyped
<1>3. LoadsKept'
  <2> SUFFICES ASSUME NEW t \in LoadSlots, loads'[t].step = "shown"
               PROVE  /\ Covers(stored, revision, loads'[t].entries, {}, loads'[t].base, loads'[t].pack)
                      /\ ~crossed => Themed(loads'[t].entries, loads'[t].pack)
    BY DEF LoadsKept, Covers, Themed, Writers!In
  <2>1. loads'[t] = loads[t]
    BY <1>1
  <2> QED
    BY <2>1 DEF WritersKept, LoadsKept
<1>4. ASSUME settled'
      PROVE  /\ \A t \in LoadSlots : loads'[t].step # "free" => loads'[t].pack = p
             /\ save'.step # "save" /\ Writers!FreeSlots' # LoadSlots
  <2>1. Writers!FreeSlots = LoadSlots /\ save.step \in {"idle", "reload"}
    BY <1>2, <1>4 DEF Writers!Quiet
  <2>2. \A t \in LoadSlots : loads[t].step = "free"
    BY <2>1 DEF Writers!FreeSlots
  <2>3. s \notin Writers!FreeSlots'
    BY <1>1 DEF Writers!FreeSlots
  <2> QED
    BY <1>1, <2>1, <2>2, <2>3
<1> QED
  BY <1>3, <1>4 DEF ScreenKept

\* A cleared screen is of the pack that is made.
LEMMA ClearsKept ==
  ASSUME WritersSound, WritersKept, NEW creates \in BOOLEAN, Writers!Clears(creates),
         UNCHANGED <<stored, revision, crossed, save>>
  PROVE  ScreenKept'
<1>1. /\ route' = NoPack /\ creating' = creates /\ shown' = NoPack /\ entries' = Writers!Empty
      /\ removed' = {} /\ base' = 0 /\ attached' = FALSE /\ settled' = Writers!Quiet /\ UNCHANGED <<adding, loads>>
  BY DEF Writers!Clears
<1>2. Writers!Target' = NewPack
  BY <1>1 DEF Writers!Target, Writers!Current
<1>3. Writers!In(entries') = {}
  BY <1>1 DEF Writers!In, Writers!Empty
<1>4. Covers(stored, revision, entries', {}, 0, NewPack) /\ Themed(entries', NewPack)
  <2>1. revision[NewPack] \in Nat
    BY WritersConstants DEF WritersSound, Writers!TypeOK
  <2> QED
    BY <1>3, <2>1 DEF Covers, Themed, WritersKept, ApiKept
<1>5. ASSUME settled'
      PROVE  /\ \A t \in LoadSlots : loads'[t].step = "free"
             /\ save'.step # "save"
  <2>1. Writers!FreeSlots = LoadSlots /\ save.step \in {"idle", "reload"}
    BY <1>1, <1>5 DEF Writers!Quiet
  <2> QED
    BY <1>1, <2>1 DEF Writers!FreeSlots
<1>6. Covers(stored, revision, entries, removed, base, Writers!Target)' /\ Themed(entries, Writers!Target)'
  BY <1>1, <1>2, <1>4 DEF Covers, Themed, Writers!In
<1> QED
  BY <1>1, <1>5, <1>6 DEF ScreenKept

\* A load that arrives brings the pack as it is stored.
LEMMA LoadArrivesKept ==
  ASSUME WritersSound, WritersKept, NEW s \in LoadSlots, Writers!LoadArrives(s)
  PROVE  LoadsKept' /\ ScreenKept'
<1> DEFINE p == loads[s].pack
           l == [loads[s] EXCEPT !.step = "shown", !.entries = stored[p], !.base = revision[p]]
<1>1. /\ loads[s].step = "asked" /\ loads' = [loads EXCEPT ![s] = l] /\ shown' = p
      /\ UNCHANGED <<stored, revision, route, creating, entries, removed, base, adding, attached, settled, save, crossed>>
  BY DEF Writers!LoadArrives, Writers!api
<1>2. loads \in [LoadSlots -> Writers!Load] /\ p \in Packs /\ revision[p] \in Nat
  BY <1>1 DEF WritersSound, Writers!TypeOK
<1>3. l.step = "shown" /\ l.pack = p /\ l.entries = stored[p] /\ l.base = revision[p]
  BY <1>2 DEF Writers!Load
<1> HIDE DEF l
<1>4. loads'[s] = l /\ \A t \in LoadSlots : t # s => loads'[t] = loads[t]
  BY <1>1, <1>2
<1>5. LoadsKept'
  <2> SUFFICES ASSUME NEW t \in LoadSlots, loads'[t].step = "shown"
               PROVE  /\ Covers(stored, revision, loads'[t].entries, {}, loads'[t].base, loads'[t].pack)
                      /\ ~crossed => Themed(loads'[t].entries, loads'[t].pack)
    BY <1>1 DEF LoadsKept, Covers, Themed, Writers!In
  <2>1. CASE t = s
    BY <1>2, <1>3, <1>4, <2>1 DEF Covers, Themed, WritersKept, ApiKept, Writers!IntendedContents
  <2>2. CASE t # s
    BY <1>4, <2>2 DEF WritersKept, LoadsKept
  <2> QED
    BY <2>1, <2>2
<1>6. ASSUME settled PROVE Writers!Target' = Writers!Target
  <2>1. p = Writers!Target
    BY <1>1, <1>6 DEF WritersKept, ScreenKept
  <2> QED
    BY <1>1, <1>2, <2>1, WritersConstants DEF WritersSound, Writers!Target, Writers!Current
<1>7. Writers!FreeSlots' # LoadSlots
  BY <1>3, <1>4 DEF Writers!FreeSlots
<1> QED
  BY <1>1, <1>3, <1>4, <1>5, <1>6, <1>7 DEF WritersKept, ScreenKept

\* What was loaded replaces what was on the screen.
LEMMA LoadEndsKept ==
  ASSUME WritersSound, WritersKept, NEW s \in LoadSlots, Writers!LoadEnds(s)
  PROVE  LoadsKept' /\ ScreenKept'
<1>1. /\ loads[s].step = "shown" /\ loads' = [loads EXCEPT ![s] = Writers!NoLoad]
      /\ entries' = loads[s].entries /\ base' = loads[s].base /\ removed' = {} /\ attached' = FALSE
      /\ UNCHANGED <<stored, revision, route, creating, shown, adding, settled, save, crossed>>
  BY DEF Writers!LoadEnds, Writers!api
<1>2. loads \in [LoadSlots -> Writers!Load] /\ Writers!NoLoad.step = "free"
  BY DEF WritersSound, Writers!TypeOK, Writers!NoLoad
<1>3. loads'[s].step = "free" /\ \A t \in LoadSlots : t # s => loads'[t] = loads[t]
  BY <1>1, <1>2
<1>4. LoadsKept'
  <2> SUFFICES ASSUME NEW t \in LoadSlots, loads'[t].step = "shown"
               PROVE  /\ Covers(stored, revision, loads'[t].entries, {}, loads'[t].base, loads'[t].pack)
                      /\ ~crossed => Themed(loads'[t].entries, loads'[t].pack)
    BY <1>1 DEF LoadsKept, Covers, Themed, Writers!In
  <2>1. loads'[t] = loads[t]
    BY <1>3
  <2> QED
    BY <2>1 DEF WritersKept, LoadsKept
<1>5. Writers!Target' = Writers!Target
  BY <1>1 DEF Writers!Target, Writers!Current
<1>6. /\ Covers(stored, revision, entries', {}, base', loads[s].pack)
      /\ ~crossed => Themed(entries', loads[s].pack)
  BY <1>1 DEF WritersKept, LoadsKept
<1>7. ASSUME settled
      PROVE  /\ Covers(stored, revision, entries, removed, base, Writers!Target)'
             /\ (~crossed => Themed(entries, Writers!Target))'
  <2>1. loads[s].pack = Writers!Target
    BY <1>1, <1>7 DEF WritersKept, ScreenKept
  <2> QED
    BY <1>1, <1>5, <1>6, <2>1 DEF Covers, Themed, Writers!In
<1> QED
  BY <1>1, <1>3, <1>4, <1>5, <1>7 DEF WritersKept, ScreenKept

\* What is changed by hand.
LEMMA ChangesKept ==
  ASSUME WritersSound, WritersKept,
         \/ \E m \in Mods : Writers!AddMod(m) \/ Writers!RemoveMod(m) \/ Writers!PickVersion(m)
         \/ \E g \in Games : Writers!PickGame(g)
         \/ Writers!ModAdded
  PROVE  ScreenKept'
<1> DEFINE t == Writers!Target
<1>1. /\ UNCHANGED <<stored, revision, route, creating, shown, base, settled, loads, save, crossed>>
  BY DEF Writers!AddMod, Writers!RemoveMod, Writers!PickVersion, Writers!PickGame, Writers!ModAdded, Writers!api
<1>2. Writers!Target' = t /\ Writers!FreeSlots' = Writers!FreeSlots
  BY <1>1 DEF Writers!Target, Writers!Current, Writers!FreeSlots
<1>3. entries \in Writers!Entries /\ registered \in [Mods -> 1..Newest] /\ Newest \in Nat
  BY WritersConstants DEF WritersSound, Writers!TypeOK
<1>4. ASSUME NEW m \in Mods, Writers!AddMod(m)
      PROVE  adding' \in Theme[t] /\ entries' = entries /\ removed' = removed
  BY <1>4 DEF Writers!AddMod
<1>5. ASSUME NEW m \in Mods, Writers!RemoveMod(m)
      PROVE  adding' = adding /\ attached' = FALSE /\ removed' = removed \cup {m}
             /\ Writers!In(entries') \subseteq Writers!In(entries)
             /\ Writers!In(entries) \subseteq Writers!In(entries') \cup {m}
  BY <1>3, <1>5 DEF Writers!RemoveMod, Writers!In, Writers!Entries
<1>6. ASSUME Writers!ModAdded, attached
      PROVE  attached' = FALSE /\ removed' = removed \ {adding}
             /\ Writers!In(entries') = Writers!In(entries) \cup {adding}
  <2>1. adding \in Mods /\ attached' = FALSE /\ removed' = removed \ {adding}
    BY <1>6 DEF Writers!ModAdded, WritersSound, Writers!TypeOK
  <2>2. PICK v \in 1..registered[adding] : entries' = [entries EXCEPT ![adding] = v]
    BY <1>6 DEF Writers!ModAdded
  <2>3. v # 0
    BY <1>3, <2>1, <2>2
  <2>4. Writers!In(entries') = Writers!In(entries) \cup {adding}
    BY <1>3, <2>1, <2>2, <2>3 DEF Writers!In, Writers!Entries
  <2> QED
    BY <2>1, <2>4
<1>9. ASSUME NEW m \in Mods, Writers!PickVersion(m)
      PROVE  Writers!In(entries') = Writers!In(entries) /\ UNCHANGED <<removed, adding, attached>>
  <2>1. PICK v \in 1..registered[m] : entries' = [entries EXCEPT ![m] = v]
    BY <1>9 DEF Writers!PickVersion
  <2>2. v # 0 /\ entries[m] # 0
    BY <1>3, <1>9, <2>1 DEF Writers!PickVersion
  <2>3. Writers!In(entries') = Writers!In(entries)
    BY <1>3, <2>1, <2>2 DEF Writers!In, Writers!Entries
  <2> QED
    BY <1>9, <2>3 DEF Writers!PickVersion
<1>10. ASSUME Writers!ModAdded, ~attached PROVE attached' = FALSE /\ UNCHANGED <<entries, removed>>
  BY <1>10 DEF Writers!ModAdded
<1>11. ASSUME NEW g \in Games, Writers!PickGame(g) PROVE UNCHANGED <<entries, removed, adding, attached>>
  BY <1>11 DEF Writers!PickGame
<1> HIDE DEF t
<1> DEFINE Good == /\ attached' => adding' \in Theme[t]
                   /\ Covers(stored, revision, entries', removed', base, t)
                   /\ ~crossed => Themed(entries', t)
<1>7. ASSUME settled, Writers!FreeSlots = LoadSlots PROVE Good
  <2>1. /\ attached => adding \in Theme[t]
        /\ Covers(stored, revision, entries, removed, base, t)
        /\ ~crossed => Themed(entries, t)
    BY <1>7 DEF WritersKept, ScreenKept, t
  <2>2. ASSUME NEW m \in Mods, Writers!AddMod(m) PROVE Good
    BY <1>4, <2>1, <2>2
  <2>3. ASSUME NEW m \in Mods, Writers!RemoveMod(m) PROVE Good
    BY <1>5, <2>1, <2>3 DEF Covers, Themed
  <2>4. CASE Writers!ModAdded /\ attached
    BY <1>6, <2>1, <2>4 DEF Covers, Themed
  <2>5. CASE Writers!ModAdded /\ ~attached
    BY <1>10, <2>1, <2>5
  <2>6. ASSUME NEW m \in Mods, Writers!PickVersion(m) PROVE Good
    BY <1>9, <2>1, <2>6 DEF Covers, Themed
  <2>7. ASSUME NEW g \in Games, Writers!PickGame(g) PROVE Good
    BY <1>11, <2>1, <2>7
  <2> QED
    BY <2>2, <2>3, <2>4, <2>5, <2>6, <2>7, Zenon
<1>8. ASSUME settled
      PROVE  (Writers!FreeSlots = LoadSlots =>
                /\ attached => adding \in Theme[Writers!Target]
                /\ Covers(stored, revision, entries, removed, base, Writers!Target)
                /\ ~crossed => Themed(entries, Writers!Target))'
  BY <1>1, <1>2, <1>7, <1>8 DEF Covers, Themed, Writers!In
<1> QED
  BY <1>1, <1>2, <1>8 DEF WritersKept, ScreenKept, t

\* A save of what is settled.
LEMMA SaveBeginsKept ==
  ASSUME WritersSound, WritersKept, NEW publish \in BOOLEAN, Writers!Save(publish)
  PROVE  WritersKept'
<1>1. /\ save' = [step |-> "save", pack |-> Writers!Target, entries |-> entries, removed |-> removed,
                  base |-> base, game |-> packGame, publish |-> publish]
      /\ crossed' = (crossed \/ ~settled \/ Writers!FreeSlots # LoadSlots)
      /\ UNCHANGED <<stored, revision, route, creating, shown, entries, removed, base, adding, attached, settled, loads,
                     cart, deploy>>
  BY DEF Writers!Save, Writers!api, Writers!screen
<1>2. (crossed => crossed') /\ (~crossed' => ~crossed /\ settled /\ Writers!FreeSlots = LoadSlots)
  BY <1>1, Zenon
<1>3. ApiKept' /\ DraftsKept
  BY <1>1, <1>2, ApiSame DEF WritersKept
<1>4. LoadsKept' /\ CartKept' /\ DeployKept'
  BY <1>1, <1>3, DraftsSame
<1>5. SaveKept'
  <2> SUFFICES ASSUME ~crossed'
               PROVE  Covers(stored, revision, entries, removed, base, Writers!Target)
                      /\ Themed(entries, Writers!Target)
    BY <1>1 DEF SaveKept, Covers, Themed, Writers!In
  <2> QED
    BY <1>2 DEF WritersKept, ScreenKept
<1>6. ScreenKept'
  <2>1. Writers!Target' = Writers!Target
    BY <1>1 DEF Writers!Target, Writers!Current
  <2>2. save'.pack = Writers!Target
    BY <1>1
  <2>3. creating' => route' = NoPack
    BY <1>1 DEF WritersKept, ScreenKept
  <2> QED
    BY <1>1, <1>3, <2>1, <2>2, <2>3, ScreenSame
<1> QED
  BY <1>3, <1>4, <1>5, <1>6 DEF WritersKept

\* The pack that was saved stays the one that is edited.
LEMMA SaveWrittenKept ==
  ASSUME WritersSound, WritersKept, Writers!SaveWritten
  PROVE  WritersKept'
<1>1. /\ save.step = "save" /\ save'.step # "save" /\ shown' = save.pack /\ creating' = FALSE
      /\ Writers!Writes(save.pack, save.entries, save.game, save.base)
      /\ UNCHANGED <<route, entries, removed, base, adding, attached, settled, loads, cart, deploy, crossed>>
  BY DEF Writers!SaveWritten, Writers!Idle
<1>2. save.pack \in Packs /\ save.entries \in Writers!Entries
  BY <1>1 DEF WritersSound, Writers!TypeOK, Writers!Draft
<1>3. ~crossed => Themed(save.entries, save.pack)
  BY <1>1 DEF WritersKept, SaveKept
<1>4. ApiKept' /\ DraftsKept
  BY <1>1, <1>2, <1>3, WritesKept DEF WritersKept
<1>5. LoadsKept' /\ CartKept' /\ DeployKept' /\ SaveKept'
  BY <1>1, <1>4, DraftsSame
<1>6. ASSUME settled PROVE Writers!Target' = Writers!Target
  <2>1. save.pack = Writers!Target /\ (creating => route = NoPack)
    BY <1>1, <1>6 DEF WritersKept, ScreenKept
  <2>2. NoPack \notin Packs
    BY WritersConstants DEF WritersSound
  <2> QED
    BY <1>1, <1>2, <2>1, <2>2 DEF Writers!Target, Writers!Current
<1>7. ScreenKept'
  BY <1>1, <1>4, <1>6, ScreenSame
<1> QED
  BY <1>4, <1>5, <1>7 DEF WritersKept

\* A save that fails may have written the pack.
LEMMA SaveFailsKept ==
  ASSUME WritersSound, WritersKept, Writers!SaveFails
  PROVE  WritersKept'
<1>1. /\ save'.step # "save"
      /\ UNCHANGED <<route, creating, shown, entries, removed, base, adding, attached, settled, loads, cart, deploy,
                     crossed>>
  BY DEF Writers!SaveFails, Writers!Idle, Writers!screen
<1>2. ApiKept' /\ DraftsKept
  <2>1. CASE UNCHANGED Writers!api
    BY <1>1, <2>1, ApiSame DEF WritersKept, Writers!api
  <2>2. CASE save.step = "save" /\ Writers!Writes(save.pack, save.entries, save.game, save.base)
    <3>1. save.pack \in Packs /\ save.entries \in Writers!Entries
      BY <2>2 DEF WritersSound, Writers!TypeOK, Writers!Draft
    <3>2. ~crossed => Themed(save.entries, save.pack)
      BY <2>2 DEF WritersKept, SaveKept
    <3> QED
      BY <1>1, <2>2, <3>1, <3>2, WritesKept DEF WritersKept
  <2> QED
    BY <2>1, <2>2 DEF Writers!SaveFails
<1>3. LoadsKept' /\ CartKept' /\ DeployKept' /\ SaveKept'
  BY <1>1, <1>2, DraftsSame
<1>4. Writers!Target' = Writers!Target /\ (creating' => route' = NoPack)
  BY <1>1 DEF Writers!Target, Writers!Current, WritersKept, ScreenKept
<1>5. ScreenKept'
  BY <1>1, <1>2, <1>4, ScreenSame
<1> QED
  BY <1>2, <1>3, <1>5 DEF WritersKept

\* The editor writes over nothing it has not seen.
LEMMA EditorKept ==
  ASSUME WritersSound, WritersKept, Writers!EditorNext
  PROVE  WritersKept'
<1> USE DEF Writers!api
<1>1. ASSUME UNCHANGED <<stored, revision, crossed>>
      PROVE  /\ ApiKept' /\ DraftsKept
             /\ UNCHANGED loads => LoadsKept'
             /\ UNCHANGED <<cart, deploy>> => CartKept' /\ DeployKept'
             /\ save' = save \/ save'.step # "save" => SaveKept'
  <2>1. ApiKept' /\ DraftsKept
    BY <1>1, ApiSame DEF WritersKept
  <2> QED
    BY <2>1, DraftsSame
<1>2. ASSUME NEW p \in Packs, Writers!Open(p), UNCHANGED <<stored, revision, crossed, cart, deploy>>,
             save' = save \/ save'.step # "save"
      PROVE  WritersKept'
  <2>1. Writers!Asks(p) /\ route' = p /\ creating' = FALSE /\ UNCHANGED adding
    BY <1>2 DEF Writers!Open
  <2>2. Writers!Target' = p
    BY <2>1, WritersConstants DEF WritersSound, Writers!Target, Writers!Current
  <2>3. LoadsKept' /\ ScreenKept'
    BY <1>2, <2>1, <2>2, AsksKept
  <2> QED
    BY <1>1, <1>2, <2>3 DEF WritersKept
<1>3. ASSUME NEW p \in Packs, Writers!Select(p) PROVE WritersKept'
  BY <1>2, <1>3 DEF Writers!Select
<1>4. CASE Writers!StartCreate \/ Writers!Leave
  <2>1. UNCHANGED <<stored, revision, crossed, save, cart, deploy, loads>>
        /\ \E creates \in BOOLEAN : Writers!Clears(creates)
    BY <1>4 DEF Writers!StartCreate, Writers!Leave, Writers!Clears
  <2>2. ScreenKept'
    BY <2>1, ClearsKept
  <2> QED
    BY <1>1, <2>1, <2>2 DEF WritersKept
<1>5. CASE Writers!Reload
  <2>1. /\ UNCHANGED <<stored, revision, crossed, save, cart, deploy, route, creating, shown, adding>>
        /\ Writers!Current # NoPack /\ Writers!Asks(Writers!Current)
    BY <1>5 DEF Writers!Reload
  <2>2. Writers!Current \in Packs /\ Writers!Target' = Writers!Current
    <3>1. Writers!Target' = Writers!Target
      BY <2>1 DEF Writers!Target, Writers!Current
    <3> QED
      BY <2>1, <3>1, TargetTyped
  <2>3. creating' => route' = NoPack
    BY <2>1 DEF WritersKept, ScreenKept
  <2>4. LoadsKept' /\ ScreenKept'
    BY <2>1, <2>2, <2>3, AsksKept
  <2> QED
    BY <1>1, <2>1, <2>4 DEF WritersKept
<1>6. ASSUME NEW s \in LoadSlots, Writers!LoadArrives(s) \/ Writers!LoadEnds(s) PROVE WritersKept'
  <2>1. UNCHANGED <<stored, revision, crossed, save, cart, deploy>>
    BY <1>6 DEF Writers!LoadArrives, Writers!LoadEnds
  <2>2. LoadsKept' /\ ScreenKept'
    BY <1>6, LoadArrivesKept, LoadEndsKept
  <2> QED
    BY <1>1, <2>1, <2>2 DEF WritersKept
<1>7. ASSUME NEW s \in LoadSlots, Writers!LoadFails(s) PROVE WritersKept'
  <2>1. /\ UNCHANGED <<stored, revision, crossed, save, cart, deploy, route, creating>> /\ settled' = FALSE
        /\ loads' = [loads EXCEPT ![s] = Writers!NoLoad] /\ Writers!NoLoad.step = "free"
    BY <1>7 DEF Writers!LoadFails, Writers!NoLoad
  <2>2. ScreenKept'
    BY <2>1 DEF WritersKept, ScreenKept
  <2>3. \A t \in LoadSlots : loads'[t].step = "shown" => loads'[t] = loads[t]
    BY <2>1 DEF WritersSound, Writers!TypeOK
  <2>4. LoadsKept'
    <3> SUFFICES ASSUME NEW t \in LoadSlots, loads'[t].step = "shown"
                 PROVE  /\ Covers(stored, revision, loads[t].entries, {}, loads[t].base, loads[t].pack)
                        /\ ~crossed => Themed(loads[t].entries, loads[t].pack)
      BY <2>1, <2>3 DEF LoadsKept, Covers, Themed, Writers!In
    <3> QED
      BY <2>3 DEF WritersKept, LoadsKept
  <2> QED
    BY <1>1, <2>1, <2>2, <2>4 DEF WritersKept
<1>8. CASE \/ \E m \in Mods : Writers!AddMod(m) \/ Writers!RemoveMod(m)
           \/ \E m \in Mods : Writers!PickVersion(m)
           \/ \E g \in Games : Writers!PickGame(g)
           \/ Writers!ModAdded
  <2>1. UNCHANGED <<stored, revision, crossed, save, cart, deploy, loads>>
    BY <1>8 DEF Writers!AddMod, Writers!RemoveMod, Writers!PickVersion, Writers!PickGame, Writers!ModAdded
  <2>2. ScreenKept'
    BY <1>8, ChangesKept
  <2> QED
    BY <1>1, <2>1, <2>2 DEF WritersKept
<1>9. CASE Writers!SavePublished \/ Writers!SaveRefused
  <2>1. /\ UNCHANGED <<stored, revision, crossed, cart, deploy, loads, route, creating, shown, entries, removed,
                       base, adding, attached, settled>>
        /\ save'.step # "save"
    BY <1>9 DEF Writers!SavePublished, Writers!SaveRefused, Writers!Idle, Writers!screen, WritersSound, Writers!TypeOK, Writers!Draft
  <2>2. Writers!Target' = Writers!Target /\ (creating' => route' = NoPack)
    BY <2>1 DEF Writers!Target, Writers!Current, WritersKept, ScreenKept
  <2>3. ScreenKept'
    BY <1>1, <2>1, <2>2, ScreenSame
  <2> QED
    BY <1>1, <2>1, <2>3 DEF WritersKept
<1>10. CASE Writers!SaveEnds
  <2>1. save.pack \in Packs /\ Writers!Open(save.pack) /\ save'.step # "save"
    BY <1>10 DEF Writers!SaveEnds, Writers!Idle, WritersSound
  <2> QED
    BY <1>2, <1>10, <2>1 DEF Writers!SaveEnds
<1> QED
  BY <1>3, <1>4, <1>5, <1>6, <1>7, <1>8, <1>9, <1>10, SaveBeginsKept, SaveWrittenKept, SaveFailsKept, Zenon
     DEF Writers!EditorNext

\* The screen of the editor when somebody else writes.
LEMMA ScreenElsewhere ==
  ASSUME WritersSound, WritersKept, DraftsKept, UNCHANGED Writers!editor
  PROVE  ScreenKept' /\ SaveKept' /\ LoadsKept'
<1>1. UNCHANGED <<route, creating, shown, entries, removed, base, adding, attached, settled, loads, save>>
  BY DEF Writers!editor, Writers!screen
<1>2. Writers!Target' = Writers!Target /\ (creating' => route' = NoPack)
  BY <1>1 DEF Writers!Target, Writers!Current, WritersKept, ScreenKept
<1>3. settled' => (save'.step = "save" => save'.pack = Writers!Target)
  BY <1>1 DEF WritersKept, ScreenKept
<1> QED
  BY <1>1, <1>2, <1>3, ScreenSame, DraftsSame

\* The workshop adds mods to what it listed.
LEMMA MergedKept ==
  ASSUME WritersSound, WritersKept, NEW cartMods \in SUBSET Mods, Writers!SubmitCart(cartMods)
  PROVE  /\ cart.pack \in Packs /\ Writers!Merged(cartMods) \in Writers!Entries
         /\ Covers(stored, revision, Writers!Merged(cartMods), {}, cart.base, cart.pack)
         /\ ~crossed => Themed(Writers!Merged(cartMods), cart.pack)
<1>1. /\ cart.step = "listed" /\ cartMods \subseteq Theme[cart.pack]
      /\ cart.pack \in Packs /\ cart.entries \in Writers!Entries /\ registered \in [Mods -> 1..Newest]
  BY DEF WritersSound, Writers!TypeOK, Writers!Draft, Writers!SubmitCart
<1>2. Newest \in Nat
  BY WritersConstants DEF WritersSound
<1>3. Writers!Merged(cartMods) \in Writers!Entries
  BY <1>1, <1>2 DEF Writers!Merged, Writers!Entries
<1>4. Writers!In(Writers!Merged(cartMods)) = Writers!In(cart.entries) \cup cartMods
  <2>1. \A m \in Mods : registered[m] # 0
    BY <1>1, <1>2
  <2> QED
    BY <2>1 DEF Writers!Merged, Writers!In
<1> QED
  BY <1>1, <1>3, <1>4 DEF WritersKept, CartKept, Covers, Themed

\* The workshop merges the cart into what it read.
LEMMA WorkshopKept ==
  ASSUME WritersSound, WritersKept, Writers!WorkshopNext
  PROVE  WritersKept'
<1>1. ASSUME NEW p \in Packs, Writers!ListPack(p) PROVE WritersKept'
  <2>1. /\ UNCHANGED <<stored, revision, crossed, deploy, Writers!editor>>
        /\ cart'.pack = p /\ cart'.entries = stored[p] /\ cart'.base = revision[p]
    BY <1>1 DEF Writers!ListPack, Writers!Idle, Writers!api
  <2>2. ApiKept' /\ DraftsKept
    BY <2>1, ApiSame DEF WritersKept
  <2>3. CartKept'
    <3>1. revision[p] \in Nat
      BY DEF WritersSound, Writers!TypeOK
    <3>2. Covers(stored, revision, stored[p], {}, revision[p], p) /\ (~crossed => Themed(stored[p], p))
      BY <3>1 DEF Covers, Themed, WritersKept, ApiKept, Writers!IntendedContents
    <3> QED
      BY <2>1, <3>2 DEF CartKept, Covers, Themed, Writers!In
  <2> QED
    BY <2>1, <2>2, <2>3, ScreenElsewhere, DraftsSame DEF WritersKept
<1>2. ASSUME NEW cartMods \in SUBSET Mods, Writers!SubmitCart(cartMods) PROVE WritersKept'
  <2>1. /\ Writers!Writes(cart.pack, Writers!Merged(cartMods), cart.game, cart.base) /\ cart'.step # "listed"
        /\ UNCHANGED <<crossed, deploy, Writers!editor>>
    BY <1>2 DEF Writers!SubmitCart, Writers!Idle
  <2>2. ApiKept' /\ DraftsKept
    BY <1>2, <2>1, MergedKept, WritesKept DEF WritersKept
  <2> QED
    BY <2>1, <2>2, ScreenElsewhere, DraftsSame DEF WritersKept, CartKept
<1> QED
  BY <1>1, <1>2 DEF Writers!WorkshopNext, Writers!SubmitMod

\* The script keeps what it does not maintain.
LEMMA DeployMaintains ==
  ASSUME WritersSound, WritersKept, Writers!DeployStep \/ Writers!DeployFails
  PROVE  WritersKept'
<1>1. ASSUME UNCHANGED <<stored, revision, crossed, cart, Writers!editor>>, DeployKept' PROVE WritersKept'
  <2>1. ApiKept' /\ DraftsKept
    BY <1>1, ApiSame DEF WritersKept
  <2> QED
    BY <1>1, <2>1, ScreenElsewhere, DraftsSame DEF WritersKept
<1>2. deploy \in [step : {"register", "save", "release", "done"},
                  todo : SUBSET Built, entries : Writers!Entries, base : Nat, game : Games]
  BY DEF WritersSound, Writers!TypeOK
<1>3. CASE (\E m \in Mods : Writers!DeployRegister(m)) \/ Writers!DeployRelease \/ Writers!DeployFails
          \/ Writers!DeployRefused
  <2>1. CASE \E m \in Mods : Writers!DeployRegister(m)
    <3>1. /\ deploy.step = "register" /\ deploy' = [deploy EXCEPT !.todo = deploy'.todo]
          /\ UNCHANGED <<stored, revision, crossed, cart, Writers!editor>>
      BY <1>2, <2>1 DEF Writers!DeployRegister
    <3>2. deploy'.step = "register"
      BY <1>2, <3>1
    <3> QED
      BY <1>1, <3>1, <3>2 DEF DeployKept
  <2>2. CASE Writers!DeployRelease
    <3>1. deploy'.step = "done" /\ UNCHANGED <<stored, revision, crossed, cart, Writers!editor>>
      BY <2>2 DEF Writers!DeployRelease, Writers!Step, Writers!NotStarted, Writers!api
    <3> QED
      BY <1>1, <3>1 DEF DeployKept
  <2>3. CASE Writers!DeployFails \/ Writers!DeployRefused
    <3>1. deploy'.step = "register" /\ UNCHANGED <<stored, revision, crossed, cart, Writers!editor>>
      BY <2>3 DEF Writers!DeployFails, Writers!DeployRefused, Writers!NotStarted, Writers!api
    <3> QED
      BY <1>1, <3>1 DEF DeployKept
  <2> QED
    BY <1>3, <2>1, <2>2, <2>3
<1>4. CASE Writers!DeployRead
  <2> DEFINE p == PlatformPack
             e == Writers!Upserted(stored[p])
  <2>1. /\ UNCHANGED <<stored, revision, crossed, cart, Writers!editor>>
        /\ deploy'.entries = e /\ deploy'.base = revision[p]
    BY <1>2, <1>4 DEF Writers!DeployRead, Writers!api
  <2>2. /\ Writers!In(stored[p]) \subseteq Writers!In(e) \cup (Plugins \ Built)
        /\ Writers!In(e) \subseteq Writers!In(stored[p]) \cup Built
    BY WritersConstants DEF WritersSound, Writers!Upserted, Writers!In
  <2>3. p \in Packs /\ revision[p] \in Nat /\ Built \subseteq Theme[p]
    BY WritersConstants DEF WritersSound, Writers!TypeOK
  <2>4. Covers(stored, revision, e, Plugins \ Built, revision[p], p) /\ (~crossed => Themed(e, p))
    BY <2>2, <2>3 DEF Covers, Themed, WritersKept, ApiKept, Writers!IntendedContents
  <2>5. DeployKept'
    BY <2>1, <2>4 DEF DeployKept, Covers, Themed, Writers!In
  <2> QED
    BY <1>1, <2>1, <2>5
<1>5. CASE Writers!DeploySave
  <2>1. /\ deploy.step = "save" /\ deploy'.step # "save" /\ UNCHANGED <<crossed, cart, Writers!editor>>
        /\ Writers!Writes(PlatformPack, deploy.entries, deploy.game, deploy.base)
    BY <1>5 DEF Writers!DeploySave, Writers!Step, Writers!NotStarted
  <2>2. PlatformPack \in Packs /\ deploy.entries \in Writers!Entries
    BY <1>2, WritersConstants DEF WritersSound
  <2>3. ApiKept' /\ DraftsKept
    BY <2>1, <2>2, WritesKept DEF WritersKept, DeployKept
  <2> QED
    BY <2>1, <2>3, ScreenElsewhere, DraftsSame DEF WritersKept, DeployKept
<1> QED
  BY <1>3, <1>4, <1>5 DEF Writers!DeployStep

\* Every step of the three keeps what was written and what is to be written.
LEMMA WritersKeep ==
  ASSUME WritersSound, WritersKept, [Writers!Next]_(Writers!vars)
  PROVE  WritersKept'
<1>1. CASE UNCHANGED Writers!vars
  <2>1. UNCHANGED <<stored, revision, crossed, cart, deploy, Writers!editor>>
    BY <1>1 DEF Writers!vars, Writers!api
  <2>2. ApiKept' /\ DraftsKept
    BY <2>1, ApiSame DEF WritersKept
  <2> QED
    BY <2>1, <2>2, ScreenElsewhere, DraftsSame DEF WritersKept
<1>2. CASE Writers!ReviewNext
  <2>1. UNCHANGED <<stored, revision, crossed, cart, deploy, Writers!editor>>
    BY <1>2, ReviewTyped
  <2>2. ApiKept' /\ DraftsKept
    BY <2>1, ApiSame DEF WritersKept
  <2> QED
    BY <2>1, <2>2, ScreenElsewhere, DraftsSame DEF WritersKept
<1> QED
  BY <1>1, <1>2, EditorKept, WorkshopKept, DeployMaintains DEF Writers!Next

\* At first the editor shows the platform's pack as it is stored.
LEMMA WritersKeptInit ==
  ASSUME Writers!PackEditingAssumption, Writers!Init
  PROVE  WritersKept
<1>1. /\ \A p \in Packs : Writers!In(stored[p]) \subseteq Theme[p]
      /\ Writers!In(stored[NewPack]) = {}
  BY WritersConstants DEF Writers!Init, Writers!In, Writers!Empty
<1>2. ApiKept /\ LoadsKept /\ CartKept /\ DeployKept /\ SaveKept
  BY <1>1 DEF Writers!Init, ApiKept, LoadsKept, CartKept, DeployKept, SaveKept, Writers!IntendedContents,
              Writers!NoLoad, Writers!Idle, Writers!NotStarted
<1>3. Writers!Target = PlatformPack
  BY WritersConstants DEF Writers!Init, Writers!Target, Writers!Current
<1>4. ScreenKept
  <2>1. /\ \A s \in LoadSlots : loads[s].step = "free"
        /\ save.step = "idle" /\ attached = FALSE /\ creating = FALSE
        /\ entries = stored[PlatformPack] /\ base = 0 /\ revision[PlatformPack] = 0
    BY WritersConstants DEF Writers!Init, Writers!NoLoad, Writers!Idle
  <2> QED
    BY <1>1, <1>3, <2>1, WritersConstants DEF ScreenKept, Covers, Themed
<1> QED
  BY <1>2, <1>4 DEF WritersKept

\* A write loses what was left out of it on purpose, or it was old.
LEMMA WriteLoses ==
  ASSUME WritersSound, NEW p \in Packs, NEW e \in Writers!Entries, NEW g, NEW from, NEW out,
         Writers!Writes(p, e, g, from), Covers(stored, revision, e, out, from, p), NEW q \in Packs
  PROVE  stale' \/ Writers!In(stored[q]) \ Writers!In(stored'[q]) \subseteq out
<1>0. PICK full \in Writers!Expanded(e, g) : Writers!Accepts(e, full, g) /\ stored' = [stored EXCEPT ![p] = full]
  BY DEF Writers!Writes
<1>1. /\ stored' = [stored EXCEPT ![p] = full] /\ stale' = (from # revision[p])
      /\ stored \in [Packs -> Writers!Entries] /\ Writers!In(e) \subseteq Writers!In(full)
  BY <1>0 DEF Writers!Writes, Writers!Accepts, WritersSound, Writers!TypeOK
<1>2. CASE from = revision[p]
  BY <1>1, <1>2 DEF Covers
<1>3. CASE from # revision[p]
  BY <1>1, <1>3, Zenon
<1> QED
  BY <1>2, <1>3

\* No step loses an entry.
LEMMA EntriesStep ==
  ASSUME WritersSound, WritersKept, [Writers!Next]_(Writers!vars)
  PROVE  \A p \in Packs :
           \/ Writers!In(stored[p]) \ Writers!In(stored'[p]) \subseteq save.removed \cup (Plugins \ Built)
           \/ stale' \/ crossed'
<1> SUFFICES ASSUME NEW q \in Packs, ~crossed'
             PROVE  \/ Writers!In(stored[q]) \ Writers!In(stored'[q]) \subseteq save.removed \cup (Plugins \ Built)
                    \/ stale'
  OBVIOUS
<1>1. CASE UNCHANGED stored
  BY <1>1
<1>2. CASE Writers!SaveWritten \/ Writers!SaveFails
  <2>1. CASE /\ save.step = "save" /\ Writers!Writes(save.pack, save.entries, save.game, save.base) /\ UNCHANGED crossed
    <3>1. save.pack \in Packs /\ save.entries \in Writers!Entries
      BY <2>1 DEF WritersSound, Writers!TypeOK, Writers!Draft
    <3>2. Covers(stored, revision, save.entries, save.removed, save.base, save.pack)
      BY <2>1 DEF WritersKept, SaveKept
    <3>3. stale' \/ Writers!In(stored[q]) \ Writers!In(stored'[q]) \subseteq save.removed
      BY <2>1, <3>1, <3>2, WriteLoses
    <3> QED
      BY <3>3
  <2> QED
    BY <1>1, <1>2, <2>1 DEF Writers!SaveWritten, Writers!SaveFails, Writers!api
<1>3. ASSUME NEW cartMods \in SUBSET Mods, Writers!SubmitCart(cartMods)
      PROVE  stale' \/ Writers!In(stored[q]) \ Writers!In(stored'[q]) \subseteq save.removed \cup (Plugins \ Built)
  <2>1. Writers!Writes(cart.pack, Writers!Merged(cartMods), cart.game, cart.base)
    BY <1>3 DEF Writers!SubmitCart
  <2>2. /\ cart.pack \in Packs /\ Writers!Merged(cartMods) \in Writers!Entries
        /\ Covers(stored, revision, Writers!Merged(cartMods), {}, cart.base, cart.pack)
    BY <1>3, MergedKept
  <2>3. stale' \/ Writers!In(stored[q]) \ Writers!In(stored'[q]) \subseteq {}
    BY <2>1, <2>2, WriteLoses
  <2> QED
    BY <2>3
<1>4. CASE Writers!DeploySave
  <2>1. /\ Writers!Writes(PlatformPack, deploy.entries, deploy.game, deploy.base) /\ PlatformPack \in Packs
        /\ deploy.entries \in Writers!Entries
        /\ Covers(stored, revision, deploy.entries, Plugins \ Built, deploy.base, PlatformPack)
    BY <1>4, WritersConstants DEF WritersSound, Writers!TypeOK, Writers!DeploySave, WritersKept, DeployKept
  <2>2. stale' \/ Writers!In(stored[q]) \ Writers!In(stored'[q]) \subseteq Plugins \ Built
    BY <2>1, WriteLoses
  <2> QED
    BY <2>2
<1>5. CASE \/ \E p \in Packs : Writers!Select(p) \/ Writers!ListPack(p)
           \/ Writers!StartCreate \/ Writers!Leave \/ Writers!Reload
           \/ \E s \in LoadSlots : Writers!LoadArrives(s) \/ Writers!LoadEnds(s) \/ Writers!LoadFails(s)
           \/ \E m \in Mods : Writers!AddMod(m) \/ Writers!RemoveMod(m) \/ Writers!DeployRegister(m)
           \/ \E m \in Mods : Writers!PickVersion(m)
           \/ \E g \in Games : Writers!PickGame(g)
           \/ Writers!ModAdded \/ \E publish \in BOOLEAN : Writers!Save(publish)
           \/ Writers!SaveRefused \/ Writers!SavePublished \/ Writers!SaveEnds
           \/ Writers!DeployRead \/ Writers!DeployRefused \/ Writers!DeployRelease \/ Writers!DeployFails
           \/ Writers!ReviewNext
           \/ UNCHANGED Writers!vars
  <2>1. UNCHANGED stored
    BY <1>5 DEF Writers!Select, Writers!ListPack, Writers!StartCreate, Writers!Leave, Writers!Reload,
                Writers!LoadArrives, Writers!LoadEnds, Writers!LoadFails, Writers!AddMod, Writers!RemoveMod,
                Writers!DeployRegister, Writers!ModAdded, Writers!PickVersion, Writers!PickGame, Writers!Save,
                Writers!SaveRefused, Writers!SavePublished, Writers!SaveEnds, Writers!DeployRead,
                Writers!DeployRefused, Writers!DeployRelease, Writers!DeployFails, Writers!ReviewNext,
                Writers!Withdraw, Writers!ApproveAgain, Writers!Review, Writers!vars, Writers!api
  <2> QED
    BY <1>1, <2>1
<1> QED
  BY <1>2, <1>3, <1>4, <1>5, Zenon
     DEF Writers!Next, Writers!EditorNext, Writers!WorkshopNext, Writers!DeployStep, Writers!SubmitMod

\* The editor, the workshop and the script are well typed at every step.
THEOREM WritersAreTyped ==
  ASSUME Writers!PackEditingAssumption
  PROVE  Writers!Spec => []Writers!TypeOK
<1>1. Writers!Init => WritersSound
  BY WritersInit
<1>2. WritersSound /\ [Writers!Next]_(Writers!vars) => WritersSound'
  BY WritersStep
<1>3. WritersSound => Writers!TypeOK
  BY DEF WritersSound
<1> QED
  BY <1>1, <1>2, <1>3, PTL DEF Writers!Spec

\* A pack never gets the entries of another (PacksView.vue), for any packs,
\* mods and loads: unless the editor saved what was not settled.
THEOREM ContentsIntended ==
  ASSUME Writers!PackEditingAssumption
  PROVE  Writers!Spec => []IntendedContents
<1>1. Writers!Init => WritersSound /\ WritersKept
  BY WritersInit, WritersKeptInit
<1>2. WritersSound /\ WritersKept /\ [Writers!Next]_(Writers!vars) => WritersSound' /\ WritersKept'
  BY WritersStep, WritersKeep
<1>3. WritersKept => IntendedContents
  BY DEF WritersKept, ApiKept, Writers!IntendedContents, Writers!In, IntendedContents, In
<1> QED
  BY <1>1, <1>2, <1>3, PTL DEF Writers!Spec

\* No entry gets lost (PacksView.vue, WorkshopView.vue, publish-platform.js):
\* unless what was written was old or not settled.
THEOREM NoEntryIsLost ==
  ASSUME Writers!PackEditingAssumption
  PROVE  Writers!Spec => EntriesSurvive
<1>1. Writers!Init => WritersSound /\ WritersKept
  BY WritersInit, WritersKeptInit
<1>2. WritersSound /\ WritersKept /\ [Writers!Next]_(Writers!vars) => WritersSound' /\ WritersKept'
  BY WritersStep, WritersKeep
<1>3. /\ WritersSound /\ WritersKept /\ [Writers!Next]_(Writers!vars)
      => [\A p \in Packs :
            In(stored[p]) \ In(stored'[p]) \subseteq save.removed \cup (Plugins \ Built) \/ stale' \/ crossed']_stored
  BY EntriesStep DEF In, Writers!In
<1> QED
  BY <1>1, <1>2, <1>3, PTL DEF Writers!Spec, EntriesSurvive

=============================================================================
