----------------------------- MODULE GraphProofs -----------------------------
(***************************************************************************)
(* The rules on graphs, for every graph and every application: the         *)
(* searches of CycleSearch find what they should, and what NestWiring      *)
(* reports is broken.                                                      *)
(*                                                                         *)
(* The first part is Tarjan's algorithm on sets: E maps a node to its      *)
(* edges, T to those it has yet to take, on is the set of nodes on the     *)
(* stack and act those with a frame.  Each step preserves Sound, and a     *)
(* component that is cut off is a strongly connected one.  The second part *)
(* shows that the steps of CycleSearch are such steps, the third that the  *)
(* search for a chain cannot fail in such a component.                     *)
(*                                                                         *)
(* The last part is provider-not-registered.  If the rule reports p, no    *)
(* module the walk meets exports it and none of them is unreadable, nor    *)
(* does a global module export it.  The modules imported by those, and the *)
(* global ones, therefore offer nothing to each other: the rest of the     *)
(* modules is closed under offering, so no module the owner sees is in the *)
(* least such set.                                                         *)
(***************************************************************************)
EXTENDS NestWiring, WellFoundedInduction, FiniteSetTheorems, TLAPS

(* The nodes of the stack that S leads to are in S.                        *)
Within(E, on, S) == S \subseteq on /\ \A v \in S : E[v] \cap on \subseteq S

(* Numbers grow along the stack, and only active nodes have edges left.    *)
Placed(N, E, T, idx, lo, cnt, on, act) ==
  /\ on \subseteq N /\ act \subseteq on
  /\ \A v \in on : idx[v] \in Nat /\ lo[v] \in Nat /\ lo[v] <= idx[v] /\ idx[v] < cnt
  /\ \A v, w \in on : idx[v] = idx[w] => v = w
  /\ \A v \in N : T[v] \subseteq E[v] /\ (v \notin act => T[v] = {})

SeenIsMet(N, E, T, idx) ==
  \A v \in N : idx[v] # Unmet => \A w \in E[v] \ T[v] : idx[w] # Unmet

(* What has left the stack leads only to what has left it.                 *)
Settled(N, E, idx, on) ==
  \A v \in N :
    idx[v] # Unmet /\ v \notin on => \A w \in E[v] : idx[w] # Unmet /\ w \notin on

(* A low link promises a node that low.                                    *)
Lends(N, E, idx, lo, on) ==
  \A S \in SUBSET N :
    Within(E, on, S) => \A v \in S : \E u \in S : idx[u] <= lo[v]

(* Every node of the stack leads to an active one that is not above it.    *)
Anchored(N, E, idx, on, act) ==
  \A S \in SUBSET N :
    Within(E, on, S) => \A v \in S : \E u \in S \cap act : idx[u] <= idx[v]

(* An edge taken above an active node has lowered a link above it.         *)
Lowered(E, T, idx, lo, on, act) ==
  \A a \in act : \A v \in on : idx[v] >= idx[a] =>
    \A w \in (E[v] \ T[v]) \cap on :
      \E b \in act : idx[b] >= idx[a] /\ lo[b] <= idx[w]

(* What lies above an active node is led to from between.                  *)
Supported(E, idx, on, act) ==
  \A a \in act : \A v \in on : idx[v] > idx[a] =>
    \E u \in on : idx[a] <= idx[u] /\ idx[u] < idx[v] /\ v \in E[u]

Typed(N, E, T, idx, lo, cnt) ==
  /\ E \in [N -> SUBSET N] /\ T \in [N -> SUBSET N]
  /\ idx \in [N -> Int] /\ lo \in [N -> Int] /\ cnt \in Nat

Sound(N, E, T, idx, lo, cnt, on, act) ==
  /\ Typed(N, E, T, idx, lo, cnt)
  /\ Placed(N, E, T, idx, lo, cnt, on, act)
  /\ SeenIsMet(N, E, T, idx)
  /\ Settled(N, E, idx, on)
  /\ Lends(N, E, idx, lo, on)
  /\ Anchored(N, E, idx, on, act)
  /\ Lowered(E, T, idx, lo, on, act)
  /\ Supported(E, idx, on, act)

IsTop(idx, act, p) == p \in act /\ \A a \in act : idx[a] <= idx[p]

-----------------------------------------------------------------------------
(* A node is met, from the active node p or as a new root.                 *)
Meets(N, E, T, T2, idx, act, n) ==
  /\ n \in N /\ idx[n] = Unmet
  /\ T2 \in [N -> SUBSET N] /\ T2[n] = E[n]
  /\ \/ act = {} /\ \A v \in N \ {n} : T2[v] = T[v]
     \/ \E p \in N : /\ IsTop(idx, act, p) /\ n \in E[p]
                     /\ T2[p] = T[p] \ {n}
                     /\ \A v \in N \ {n, p} : T2[v] = T[v]

LEMMA MeetKeepsSound ==
  ASSUME NEW N, NEW E, NEW T, NEW idx, NEW lo, NEW cnt, NEW on, NEW act,
         Sound(N, E, T, idx, lo, cnt, on, act),
         NEW n, NEW T2, Meets(N, E, T, T2, idx, act, n)
  PROVE  Sound(N, E, T2, [idx EXCEPT ![n] = cnt], [lo EXCEPT ![n] = cnt],
               cnt + 1, on \cup {n}, act \cup {n})
<1> Typed(N, E, T, idx, lo, cnt)
  BY DEF Sound
<1> USE DEF Typed
<1> USE DEF Meets
<1> DEFINE idx2 == [idx EXCEPT ![n] = cnt]
           low2 == [lo EXCEPT ![n] = cnt]
           on2  == on \cup {n}
           act2 == act \cup {n}
<1>1. /\ idx2 \in [N -> Int] /\ low2 \in [N -> Int]
      /\ idx2[n] = cnt /\ low2[n] = cnt
      /\ \A v \in N \ {n} : idx2[v] = idx[v] /\ low2[v] = lo[v]
  OBVIOUS
<1>2. Placed(N, E, T, idx, lo, cnt, on, act)
  BY DEF Sound
<1>3. n \notin on /\ on \subseteq N /\ act \subseteq on
  BY <1>2 DEF Placed, Unmet
<1>4. \A v \in N \ {n} : T2[v] \subseteq T[v] /\ T[v] \ {n} \subseteq T2[v]
                         /\ (v \notin act => T2[v] = T[v])
  BY DEF IsTop
<1> HIDE DEF idx2, low2
<1>5. Placed(N, E, T2, idx2, low2, cnt + 1, on2, act2)
  <2>1. \A v \in on2 : idx2[v] \in Nat /\ low2[v] \in Nat
                       /\ low2[v] <= idx2[v] /\ idx2[v] < cnt + 1
    BY <1>1, <1>2, <1>3 DEF Placed
  <2>2. \A v, w \in on2 : idx2[v] = idx2[w] => v = w
    BY <1>1, <1>2, <1>3 DEF Placed
  <2>3. \A v \in N : T2[v] \subseteq E[v] /\ (v \notin act2 => T2[v] = {})
    BY <1>2, <1>4 DEF Placed
  <2> QED BY <1>3, <2>1, <2>2, <2>3 DEF Placed
<1>6. SeenIsMet(N, E, T2, idx2)
  <2> SUFFICES ASSUME NEW v \in N, idx2[v] # Unmet, NEW w \in E[v] \ T2[v]
               PROVE  idx2[w] # Unmet
    BY DEF SeenIsMet
  <2>1. v # n
    OBVIOUS
  <2>2. w \in N
    OBVIOUS
  <2>3. CASE w = n
    BY <2>3, <1>1 DEF Unmet
  <2>4. CASE w # n
    <3>1. w \in E[v] \ T[v]
      BY <2>1, <2>4, <1>4
    <3>2. idx[w] # Unmet
      BY <3>1, <2>1, <1>1 DEF Sound, SeenIsMet
    <3> QED BY <3>2, <2>2, <2>4, <1>1
  <2> QED BY <2>3, <2>4
<1>7. Settled(N, E, idx2, on2)
  <2> SUFFICES ASSUME NEW v \in N, idx2[v] # Unmet, v \notin on2, NEW w \in E[v]
               PROVE  idx2[w] # Unmet /\ w \notin on2
    BY DEF Settled
  <2>1. idx[w] # Unmet /\ w \notin on /\ w \in N
    BY <1>1 DEF Sound, Settled
  <2> QED BY <2>1, <1>1
<1>8. \A S \in SUBSET N : Within(E, on2, S) => Within(E, on, S \ {n})
  BY <1>3 DEF Within
<1>9. Lends(N, E, idx2, low2, on2)
  <2> SUFFICES ASSUME NEW S \in SUBSET N, Within(E, on2, S), NEW v \in S
               PROVE  \E u \in S : idx2[u] <= low2[v]
    BY DEF Lends
  <2>1. CASE v = n
    BY <2>1, <1>1
  <2>2. CASE v # n
    <3>1. \E u \in S \ {n} : idx[u] <= lo[v]
      BY <2>2, <1>8 DEF Sound, Lends
    <3> QED BY <3>1, <2>2, <1>1
  <2> QED BY <2>1, <2>2
<1>10. Anchored(N, E, idx2, on2, act2)
  <2> SUFFICES ASSUME NEW S \in SUBSET N, Within(E, on2, S), NEW v \in S
               PROVE  \E u \in S \cap act2 : idx2[u] <= idx2[v]
    BY DEF Anchored
  <2>1. CASE v = n
    BY <2>1, <1>1
  <2>2. CASE v # n
    <3>1. \E u \in (S \ {n}) \cap act : idx[u] <= idx[v]
      BY <2>2, <1>8 DEF Sound, Anchored
    <3> QED BY <3>1, <2>2, <1>1
  <2> QED BY <2>1, <2>2
<1>11. Lowered(E, T2, idx2, low2, on2, act2)
  <2> SUFFICES ASSUME NEW a \in act2, NEW v \in on2, idx2[v] >= idx2[a],
                      NEW w \in (E[v] \ T2[v]) \cap on2
               PROVE  \E b \in act2 : idx2[b] >= idx2[a] /\ low2[b] <= idx2[w]
    BY DEF Lowered
  <2>1. v # n /\ v \in on /\ v \in N
    BY <1>3
  <2>2. a # n /\ a \in act /\ a \in on /\ a \in N
    <3>1. idx2[v] < cnt
      BY <2>1, <1>1, <1>2 DEF Placed
    <3> QED BY <3>1, <1>1, <1>3, <2>1
  <2>3. CASE w = n
    <3>1. low2[a] <= cnt
      BY <2>2, <1>1, <1>2 DEF Placed
    <3>2. idx2[a] >= idx2[a]
      BY <2>2, <1>1
    <3> QED BY <3>1, <3>2, <2>2, <2>3, <1>1
  <2>4. CASE w # n
    <3>1. w \in (E[v] \ T[v]) \cap on /\ w \in N
      BY <2>1, <2>4, <1>3, <1>4
    <3>2. \E b \in act : idx[b] >= idx[a] /\ lo[b] <= idx[w]
      BY <3>1, <2>1, <2>2, <1>1 DEF Sound, Lowered
    <3> QED BY <3>1, <3>2, <2>2, <2>4, <1>1, <1>3
  <2> QED BY <2>3, <2>4
<1>12. Supported(E, idx2, on2, act2)
  <2> SUFFICES ASSUME NEW a \in act2, NEW v \in on2, idx2[v] > idx2[a]
               PROVE  \E u \in on2 : idx2[a] <= idx2[u] /\ idx2[u] < idx2[v] /\ v \in E[u]
    BY DEF Supported
  <2>1. idx2[v] <= cnt
    BY <1>1, <1>2, <1>3 DEF Placed
  <2>2. a # n /\ a \in act /\ a \in on /\ a \in N
    BY <2>1, <1>1, <1>3
  <2>3. CASE v = n
    <3>1. PICK p \in N : IsTop(idx, act, p) /\ n \in E[p]
      BY <2>2
    <3>2. p \in on /\ idx[a] <= idx[p] /\ p # n /\ idx[p] < cnt
      BY <3>1, <2>2, <1>2, <1>3 DEF IsTop, Placed
    <3> QED BY <3>1, <3>2, <2>2, <2>3, <1>1
  <2>4. CASE v # n
    <3>1. \E u \in on : idx[a] <= idx[u] /\ idx[u] < idx[v] /\ v \in E[u]
      BY <2>2, <2>4, <1>1, <1>3 DEF Sound, Supported
    <3> QED BY <3>1, <2>2, <2>4, <1>1, <1>3
  <2> QED BY <2>3, <2>4
<1>13. Typed(N, E, T2, idx2, low2, cnt + 1)
  BY <1>1
<1> QED
  BY <1>13, <1>5, <1>6, <1>7, <1>9, <1>10, <1>11, <1>12 DEF Sound, idx2, low2

(* The active node p takes its edge to w, which was met before; if w is    *)
(* still on the stack, its index or its low link lowers that of p.         *)
Without(T, p, w) == [T EXCEPT ![p] = @ \ {w}]

Looks(N, T, T2, idx, lo, low2, on, act, p, w) ==
  /\ p \in N /\ IsTop(idx, act, p)
  /\ w \in T[p] /\ idx[w] # Unmet
  /\ T2 = Without(T, p, w)
  /\ low2 \in [N -> Int] /\ \A v \in N \ {p} : low2[v] = lo[v]
  /\ \E by \in Int :
       /\ w \in on => by = idx[w] \/ by = lo[w]
       /\ low2[p] = IF w \in on /\ by < lo[p] THEN by ELSE lo[p]

LEMMA LookKeepsSound ==
  ASSUME NEW N, NEW E, NEW T, NEW idx, NEW lo, NEW cnt, NEW on, NEW act,
         Sound(N, E, T, idx, lo, cnt, on, act),
         NEW low2, NEW T2, NEW p, NEW w, Looks(N, T, T2, idx, lo, low2, on, act, p, w)
  PROVE  Sound(N, E, T2, idx, low2, cnt, on, act)
<1> Typed(N, E, T, idx, lo, cnt)
  BY DEF Sound
<1> USE DEF Typed
<1>0. /\ p \in N /\ IsTop(idx, act, p)
      /\ w \in T[p] /\ idx[w] # Unmet
      /\ low2 \in [N -> Int] /\ T2 = [T EXCEPT ![p] = @ \ {w}]
      /\ \A v \in N \ {p} : low2[v] = lo[v]
  BY DEF Looks, Without
<1> PICK by \in Int :
       /\ w \in on => by = idx[w] \/ by = lo[w]
       /\ low2[p] = IF w \in on /\ by < lo[p] THEN by ELSE lo[p]
  BY DEF Looks
<1> USE <1>0
<1>1. T2[p] = T[p] \ {w} /\ \A v \in N \ {p} : T2[v] = T[v]
  OBVIOUS
<1>2. Placed(N, E, T, idx, lo, cnt, on, act)
  BY DEF Sound
<1>3. on \subseteq N /\ act \subseteq on /\ p \in on /\ w \in E[p] /\ w \in N
  BY <1>2 DEF Placed, IsTop
<1>4. w \in on => by \in Nat /\ by <= idx[w]
  BY <1>2 DEF Placed
<1>5. \A v \in on : low2[v] \in Nat /\ low2[v] <= lo[v]
  <2>1. \A v \in on \ {p} : low2[v] = lo[v] /\ lo[v] \in Nat
    BY <1>2, <1>3 DEF Placed
  <2>2. low2[p] \in Nat /\ low2[p] <= lo[p]
    BY <1>2, <1>3, <1>4 DEF Placed
  <2> QED BY <2>1, <2>2
<1>6. Placed(N, E, T2, idx, low2, cnt, on, act)
  <2>1. \A v \in on : idx[v] \in Nat /\ low2[v] \in Nat /\ low2[v] <= idx[v] /\ idx[v] < cnt
    BY <1>2, <1>5 DEF Placed
  <2>2. \A v \in N : T2[v] \subseteq E[v] /\ (v \notin act => T2[v] = {})
    BY <1>1, <1>2 DEF Placed
  <2> QED BY <1>2, <2>1, <2>2 DEF Placed
<1>7. SeenIsMet(N, E, T2, idx)
  BY <1>1 DEF Sound, SeenIsMet
<1>8. Lends(N, E, idx, low2, on)
  <2> SUFFICES ASSUME NEW S \in SUBSET N, Within(E, on, S), NEW v \in S
               PROVE  \E u \in S : idx[u] <= low2[v]
    BY DEF Lends
  <2>1. \A x \in S : \E u \in S : idx[u] <= lo[x]
    BY DEF Sound, Lends
  <2>2. CASE low2[v] = lo[v]
    BY <2>1, <2>2
  <2>3. CASE low2[v] # lo[v]
    <3>1. v = p /\ w \in on /\ low2[v] = by
      BY <2>3
    <3>2. w \in S
      BY <3>1, <1>3 DEF Within
    <3>3. CASE by = idx[w]
      BY <3>1, <3>2, <3>3
    <3>4. CASE by = lo[w]
      BY <3>1, <3>2, <3>4, <2>1
    <3> QED BY <3>1, <3>3, <3>4
  <2> QED BY <2>2, <2>3
<1>9. Lowered(E, T2, idx, low2, on, act)
  <2> SUFFICES ASSUME NEW a \in act, NEW v \in on, idx[v] >= idx[a],
                      NEW x \in (E[v] \ T2[v]) \cap on
               PROVE  \E b \in act : idx[b] >= idx[a] /\ low2[b] <= idx[x]
    BY DEF Lowered
  <2>1. v \in N
    BY <1>3
  <2>2. CASE x \in E[v] \ T[v]
    <3>1. PICK b \in act : idx[b] >= idx[a] /\ lo[b] <= idx[x]
      BY <2>2 DEF Sound, Lowered
    <3>2. low2[b] <= lo[b] /\ low2[b] \in Nat /\ lo[b] \in Nat /\ idx[x] \in Nat
      BY <1>2, <1>3, <1>5 DEF Placed
    <3> QED BY <3>1, <3>2
  <2>3. CASE x \notin E[v] \ T[v]
    <3>1. v = p /\ x = w
      BY <2>1, <2>3, <1>1
    <3>2. low2[p] <= by
      BY <3>1, <1>2, <1>3 DEF Placed
    <3>3. low2[p] <= idx[x]
      BY <3>1, <3>2, <1>2, <1>3, <1>4, <1>5 DEF Placed
    <3> QED BY <3>1, <3>3 DEF IsTop
  <2> QED BY <2>2, <2>3
<1>10. Typed(N, E, T2, idx, low2, cnt)
  OBVIOUS
<1> QED
  BY <1>10, <1>6, <1>7, <1>8, <1>9 DEF Sound

(* The active node n returns to its caller, if it has one, and stays on    *)
(* the stack.                                                              *)
Ends(T, idx, act, n) == IsTop(idx, act, n) /\ T[n] = {}

Follows(idx, act, E, lo, low2, N, n) ==
  \/ act = {n} /\ low2 = lo
  \/ \E p \in N :
       /\ IsTop(idx, act \ {n}, p) /\ n \in E[p]
       /\ low2 = [lo EXCEPT ![p] = IF lo[n] < @ THEN lo[n] ELSE @]

LEMMA ReturnKeepsSound ==
  ASSUME NEW N, NEW E, NEW T, NEW idx, NEW lo, NEW cnt, NEW on, NEW act,
         Sound(N, E, T, idx, lo, cnt, on, act),
         NEW n, n \in N, Ends(T, idx, act, n), lo[n] # idx[n],
         NEW low2,
         Follows(idx, act, E, lo, low2, N, n)
  PROVE  Sound(N, E, T, idx, low2, cnt, on, act \ {n})
<1> Typed(N, E, T, idx, lo, cnt)
  BY DEF Sound
<1> USE DEF Typed, Ends
<1> low2 \in [N -> Int]
  BY DEF Follows
<1> DEFINE act2 == act \ {n}
<1>1. Placed(N, E, T, idx, lo, cnt, on, act)
  BY DEF Sound
<1>2. on \subseteq N /\ act \subseteq on /\ n \in on /\ lo[n] \in Nat /\ lo[n] < idx[n]
  BY <1>1 DEF Placed, IsTop
<1>3. \A v \in on : low2[v] \in Nat /\ low2[v] <= lo[v]
  <2>1. \A v \in on : lo[v] \in Nat
    BY <1>1 DEF Placed
  <2> QED BY <2>1, <1>2 DEF Follows
<1>4. \A v \in on : low2[v] # lo[v] => n \in E[v] /\ low2[v] = lo[n]
  BY <1>2 DEF Follows
<1>5. Placed(N, E, T, idx, low2, cnt, on, act2)
  <2>1. \A v \in on : idx[v] \in Nat /\ low2[v] \in Nat /\ low2[v] <= idx[v] /\ idx[v] < cnt
    BY <1>1, <1>3 DEF Placed
  <2> QED BY <1>1, <2>1 DEF Placed
<1>6. Lends(N, E, idx, low2, on)
  <2> SUFFICES ASSUME NEW S \in SUBSET N, Within(E, on, S), NEW v \in S
               PROVE  \E u \in S : idx[u] <= low2[v]
    BY DEF Lends
  <2>1. \A x \in S : \E u \in S : idx[u] <= lo[x]
    BY DEF Sound, Lends
  <2>2. low2[v] # lo[v] => n \in S /\ low2[v] = lo[n]
    BY <1>2, <1>4 DEF Within
  <2> QED BY <2>1, <2>2
<1>7. Anchored(N, E, idx, on, act2)
  <2> SUFFICES ASSUME NEW S \in SUBSET N, Within(E, on, S), NEW v \in S
               PROVE  \E u \in S \cap act2 : idx[u] <= idx[v]
    BY DEF Anchored
  <2>1. \A x \in S : \E u \in S \cap act : idx[u] <= idx[x]
    BY DEF Sound, Anchored
  <2>2. PICK u \in S \cap act : idx[u] <= idx[v]
    BY <2>1
  <2>3. CASE u # n
    BY <2>2, <2>3
  <2>4. CASE u = n
    <3>1. PICK x \in S : idx[x] <= lo[n]
      BY <2>4 DEF Sound, Lends
    <3>2. PICK y \in S \cap act : idx[y] <= idx[x]
      BY <2>1
    <3>3. x \in on /\ y \in on /\ v \in on /\ idx[x] \in Nat /\ idx[y] \in Nat
          /\ idx[v] \in Nat /\ idx[n] \in Nat
      BY <1>1, <1>2 DEF Within, Placed
    <3>4. y # n /\ idx[y] <= idx[v]
      BY <3>1, <3>2, <3>3, <2>2, <2>4, <1>2
    <3> QED BY <3>2, <3>4
  <2> QED BY <2>3, <2>4
<1>8. Lowered(E, T, idx, low2, on, act2)
  <2> SUFFICES ASSUME NEW a \in act2, NEW v \in on, idx[v] >= idx[a],
                      NEW w \in (E[v] \ T[v]) \cap on
               PROVE  \E b \in act2 : idx[b] >= idx[a] /\ low2[b] <= idx[w]
    BY DEF Lowered
  <2>1. PICK b \in act : idx[b] >= idx[a] /\ lo[b] <= idx[w]
    BY DEF Sound, Lowered
  <2>2. \A x \in on : idx[x] \in Nat /\ lo[x] \in Nat /\ low2[x] \in Nat /\ low2[x] <= lo[x]
    BY <1>1, <1>3 DEF Placed
  <2>3. CASE b # n
    <3>1. low2[b] <= idx[w]
      BY <2>1, <2>2, <1>2
    <3> QED BY <3>1, <2>1, <2>3
  <2>4. CASE b = n
    <3>1. PICK p \in N : /\ IsTop(idx, act \ {n}, p) /\ n \in E[p]
                         /\ low2 = [lo EXCEPT ![p] = IF lo[n] < @ THEN lo[n] ELSE @]
      BY DEF Follows
    <3>2. p \in act2 /\ idx[p] >= idx[a] /\ p \in on
      BY <3>1, <2>2, <1>2 DEF IsTop
    <3>3. low2[p] <= lo[n]
      BY <3>1, <3>2, <2>2, <1>2
    <3> QED BY <3>2, <3>3, <2>1, <2>2, <2>4, <1>2
  <2> QED BY <2>3, <2>4
<1>9. Supported(E, idx, on, act2)
  BY DEF Sound, Supported
<1>20. Typed(N, E, T, idx, low2, cnt)
  OBVIOUS
<1> QED
  BY <1>20, <1>5, <1>6, <1>7, <1>8, <1>9 DEF Sound

(* What the stack loses when the active node n is the root of a component: *)
(* all of it from n on.                                                    *)
Above(idx, on, n) == {v \in on : idx[v] >= idx[n]}

(* All edges from there stay there, or lead to what left the stack before. *)
LEMMA CutIsClosed ==
  ASSUME NEW N, NEW E, NEW T, NEW idx, NEW lo, NEW cnt, NEW on, NEW act,
         Sound(N, E, T, idx, lo, cnt, on, act),
         NEW n \in N, Ends(T, idx, act, n), lo[n] = idx[n]
  PROVE  /\ act \cap Above(idx, on, n) = {n}
         /\ \A v \in Above(idx, on, n) : \A w \in E[v] :
              idx[w] # Unmet /\ (w \in on => w \in Above(idx, on, n))
<1> Typed(N, E, T, idx, lo, cnt)
  BY DEF Sound
<1> USE DEF Typed, Ends
<1> DEFINE C == Above(idx, on, n)
<1>1. Placed(N, E, T, idx, lo, cnt, on, act)
  BY DEF Sound
<1>2. on \subseteq N /\ act \subseteq on /\ n \in on /\ \A v \in on : idx[v] \in Nat
  BY <1>1 DEF Placed, IsTop
<1>3. act \cap C = {n}
  <2>1. \A a \in act \cap C : idx[a] = idx[n]
    BY <1>2 DEF IsTop, Above
  <2>2. n \in act \cap C
    BY <1>2 DEF IsTop, Above
  <2> QED BY <2>1, <2>2, <1>1, <1>2 DEF Placed
<1>4. \A v \in C : T[v] = {} /\ v \in N /\ v \in on /\ idx[v] # Unmet
  <2>1. \A v \in C : v \in N /\ v \in on /\ idx[v] # Unmet
    BY <1>2 DEF Above, Unmet
  <2> QED BY <2>1, <1>1, <1>3 DEF Placed
<1>5. ASSUME NEW v \in C, NEW w \in E[v]
      PROVE  idx[w] # Unmet /\ (w \in on => w \in C)
  <2>1. idx[w] # Unmet
    BY <1>4, <1>5 DEF Sound, SeenIsMet
  <2>2. ASSUME w \in on PROVE w \in C
    <3>1. PICK b \in act : idx[b] >= idx[n] /\ lo[b] <= idx[w]
      <4>1. n \in act /\ v \in on /\ idx[v] >= idx[n] /\ w \in (E[v] \ T[v]) \cap on
        BY <1>4, <1>5, <2>2 DEF Above, IsTop
      <4> QED BY <4>1 DEF Sound, Lowered
    <3>2. b = n
      BY <3>1, <1>2, <1>3 DEF Above
    <3> QED BY <3>1, <3>2, <2>2, <1>2 DEF Above
  <2> QED BY <2>1, <2>2
<1> QED
  BY <1>3, <1>5

LEMMA CutKeepsSound ==
  ASSUME NEW N, NEW E, NEW T, NEW idx, NEW lo, NEW cnt, NEW on, NEW act,
         Sound(N, E, T, idx, lo, cnt, on, act),
         NEW n, n \in N, Ends(T, idx, act, n), lo[n] = idx[n],
         NEW low2,
         Follows(idx, act, E, lo, low2, N, n)
  PROVE  Sound(N, E, T, idx, low2, cnt, on \ Above(idx, on, n), act \ {n})
<1> Typed(N, E, T, idx, lo, cnt)
  BY DEF Sound
<1> USE DEF Typed, Ends
<1> low2 \in [N -> Int]
  BY DEF Follows
<1> DEFINE C == Above(idx, on, n)
           on2 == on \ C
           act2 == act \ {n}
<1>1. Placed(N, E, T, idx, lo, cnt, on, act)
  BY DEF Sound
<1>2. on \subseteq N /\ act \subseteq on /\ n \in on
      /\ \A v \in on : idx[v] \in Nat /\ lo[v] \in Nat /\ lo[v] <= idx[v]
  BY <1>1 DEF Placed, IsTop
<1>3. act \cap C = {n} /\ \A v \in C : \A w \in E[v] : idx[w] # Unmet /\ (w \in on => w \in C)
  BY CutIsClosed
<1>4. on2 \subseteq N /\ act2 \subseteq on2 /\ \A v \in on2 : idx[v] < idx[n]
  BY <1>2, <1>3 DEF Above
<1>5. \A v \in N : low2[v] = lo[v]
  <2>1. ASSUME NEW p \in N, IsTop(idx, act \ {n}, p),
               low2 = [lo EXCEPT ![p] = IF lo[n] < @ THEN lo[n] ELSE @]
        PROVE  low2[p] = lo[p]
    <3>1. p \in on2 /\ idx[p] < idx[n] /\ lo[p] <= idx[p]
      BY <2>1, <1>2, <1>4 DEF IsTop
    <3> QED BY <3>1, <2>1, <1>2
  <2> QED BY <2>1 DEF Follows
<1>6. Placed(N, E, T, idx, low2, cnt, on2, act2)
  <2>1. \A v \in N : v \notin act2 => T[v] = {}
    BY <1>1 DEF Placed
  <2>2. \A v \in on2 : idx[v] \in Nat /\ low2[v] \in Nat /\ low2[v] <= idx[v] /\ idx[v] < cnt
    BY <1>1, <1>4, <1>5 DEF Placed
  <2> QED BY <1>1, <1>4, <2>1, <2>2 DEF Placed
<1>7. Settled(N, E, idx, on2)
  BY <1>3, <1>2 DEF Sound, Settled
<1>8. \A S \in SUBSET N : Within(E, on2, S) => Within(E, on, S \cup C)
  <2> SUFFICES ASSUME NEW S \in SUBSET N, Within(E, on2, S)
               PROVE  Within(E, on, S \cup C)
    OBVIOUS
  <2>1. S \cup C \subseteq on
    BY DEF Within, Above
  <2>2. ASSUME NEW v \in S \cup C, NEW w \in E[v], w \in on
        PROVE  w \in S \cup C
    <3>1. CASE v \in C
      BY <3>1, <2>2, <1>3
    <3>2. CASE v \in S
      BY <3>2, <2>2 DEF Within
    <3> QED BY <3>1, <3>2
  <2> QED BY <2>1, <2>2 DEF Within
<1>9. Lends(N, E, idx, low2, on2)
  <2> SUFFICES ASSUME NEW S \in SUBSET N, Within(E, on2, S), NEW v \in S
               PROVE  \E u \in S : idx[u] <= low2[v]
    BY DEF Lends
  <2>1. S \cup C \in SUBSET N
    BY <1>2 DEF Above
  <2>2. PICK u \in S \cup C : idx[u] <= lo[v]
    BY <2>1, <1>8 DEF Sound, Lends
  <2>3. v \in on2 /\ v \in on /\ v \in N
    BY <1>4 DEF Within
  <2>4. u \in on /\ idx[u] < idx[n]
    BY <2>2, <2>3, <1>2, <1>4 DEF Within, Above
  <2>5. u \in S
    BY <2>4, <2>2, <1>2 DEF Above
  <2> QED BY <2>2, <2>3, <2>5, <1>5
<1>10. Anchored(N, E, idx, on2, act2)
  <2> SUFFICES ASSUME NEW S \in SUBSET N, Within(E, on2, S), NEW v \in S
               PROVE  \E u \in S \cap act2 : idx[u] <= idx[v]
    BY DEF Anchored
  <2>1. S \cup C \in SUBSET N
    BY <1>2 DEF Above
  <2>2. PICK u \in (S \cup C) \cap act : idx[u] <= idx[v]
    BY <2>1, <1>8 DEF Sound, Anchored
  <2>3. v \in on2 /\ v \in on /\ u \in on
    BY <1>2, <1>4, <2>2 DEF Within
  <2>4. idx[u] < idx[n]
    BY <2>2, <2>3, <1>2, <1>4
  <2>5. u \in S /\ u # n
    BY <2>4, <2>3, <2>2, <1>2 DEF Above
  <2> QED BY <2>2, <2>5
<1>11. Lowered(E, T, idx, low2, on2, act2)
  <2> SUFFICES ASSUME NEW a \in act2, NEW v \in on2, idx[v] >= idx[a],
                      NEW w \in (E[v] \ T[v]) \cap on2
               PROVE  \E b \in act2 : idx[b] >= idx[a] /\ low2[b] <= idx[w]
    BY DEF Lowered
  <2>1. PICK b \in act : idx[b] >= idx[a] /\ lo[b] <= idx[w]
    BY DEF Sound, Lowered
  <2>2. b # n
    BY <2>1, <1>2, <1>4
  <2> QED BY <2>1, <2>2, <1>2, <1>4, <1>5
<1>12. Supported(E, idx, on2, act2)
  <2> SUFFICES ASSUME NEW a \in act2, NEW v \in on2, idx[v] > idx[a]
               PROVE  \E u \in on2 : idx[a] <= idx[u] /\ idx[u] < idx[v] /\ v \in E[u]
    BY DEF Supported
  <2>1. PICK u \in on : idx[a] <= idx[u] /\ idx[u] < idx[v] /\ v \in E[u]
    BY DEF Sound, Supported
  <2>2. u \in on2
    BY <2>1, <1>2, <1>4 DEF Above
  <2> QED BY <2>1, <2>2
<1>20. Typed(N, E, T, idx, low2, cnt)
  OBVIOUS
<1> QED
  BY <1>20, <1>6, <1>7, <1>9, <1>10, <1>11, <1>12 DEF Sound

-----------------------------------------------------------------------------
(* What is cut off is a strongly connected component. *)

(* n is in every closed set of nodes that m is in.                         *)
Leads(N, E, m, n) ==
  \A S \in SUBSET N : m \in S /\ (\A k \in S : E[k] \subseteq S) => n \in S

StrongPart(N, E, v) == {m \in N : Leads(N, E, m, v) /\ Leads(N, E, v, m)}

LEMMA LeastNumber ==
  ASSUME NEW S \in SUBSET Nat, S # {}
  PROVE  \E n \in S : \A m \in S : n <= m
<1>1. IsWellFoundedOn(OpToRel(<, Nat), Nat)
  BY NatLessThanWellFounded
<1>2. PICK x \in S : \A y \in S : ~(<<y, x>> \in OpToRel(<, Nat))
  BY <1>1, WFMin
<1>3. \A y \in S : y < x => <<y, x>> \in OpToRel(<, Nat)
  BY DEF OpToRel
<1>4. \A y \in S : ~(y < x)
  BY <1>2, <1>3
<1> QED
  BY <1>4

LEMMA CutIsComponent ==
  ASSUME NEW N, NEW E, NEW T, NEW idx, NEW lo, NEW cnt, NEW on, NEW act,
         Sound(N, E, T, idx, lo, cnt, on, act),
         NEW n \in N, Ends(T, idx, act, n), lo[n] = idx[n],
         NEW v \in Above(idx, on, n)
  PROVE  StrongPart(N, E, v) = Above(idx, on, n)
<1> Typed(N, E, T, idx, lo, cnt)
  BY DEF Sound
<1> USE DEF Typed, Ends
<1> DEFINE C == Above(idx, on, n)
<1>1. Placed(N, E, T, idx, lo, cnt, on, act)
  BY DEF Sound
<1>2. on \subseteq N /\ act \subseteq on /\ n \in on /\ \A x \in on : idx[x] \in Nat
  BY <1>1 DEF Placed, IsTop
<1>3. act \cap C = {n} /\ \A x \in C : \A w \in E[x] : idx[w] # Unmet /\ (w \in on => w \in C)
  BY CutIsClosed
<1>4. C \subseteq on /\ n \in C /\ v \in on /\ v \in N
  BY <1>2 DEF Above
(* What lies above n leads to n ... *)
<1>5. ASSUME NEW S \in SUBSET N, NEW m \in S, m \in C, \A k \in S : E[k] \subseteq S
      PROVE  C \subseteq S
  <2>1. Within(E, on, S \cap C)
    BY <1>3, <1>4, <1>5 DEF Within
  <2>2. PICK u \in (S \cap C) \cap act : TRUE
    BY <2>1, <1>5 DEF Sound, Anchored
  <2>3. n \in S
    BY <2>2, <1>3
  (* ... and n to all of it: the lowest it does not lead to has a support. *)
  <2>4. SUFFICES ASSUME C \ S # {} PROVE FALSE
    OBVIOUS
  <2> DEFINE R == {idx[x] : x \in C \ S}
  <2>5. R \in SUBSET Nat /\ R # {}
    BY <2>4, <1>2, <1>4
  <2>6. PICK r \in R : \A q \in R : r <= q
    BY <2>5, LeastNumber
  <2>7. PICK x \in C \ S : idx[x] = r
    BY <2>6
  <2>8. x \in on /\ n \in on /\ idx[x] > idx[n]
    <3>1. x # n /\ x \in on /\ idx[x] >= idx[n]
      BY <2>3, <2>7, <1>4 DEF Above
    <3>2. idx[x] # idx[n]
      BY <3>1, <1>1, <1>2 DEF Placed
    <3> QED BY <3>1, <3>2, <1>2
  <2>9. PICK z \in on : idx[n] <= idx[z] /\ idx[z] < idx[x] /\ x \in E[z]
    BY <2>8 DEF Sound, Supported, IsTop
  <2>10. z \in C
    BY <2>9, <1>2 DEF Above
  <2>11. z \in S
    <3>1. z \notin S => idx[z] \in R
      BY <2>10
    <3> HIDE DEF R
    <3> QED BY <3>1, <2>5, <2>6, <2>7, <2>9, <1>2
  <2>12. E[z] \subseteq S
    BY <2>11, <1>5
  <2> QED BY <2>12, <2>9, <2>7
<1>6. ASSUME NEW m \in C PROVE Leads(N, E, m, v) /\ Leads(N, E, v, m)
  BY <1>4, <1>5 DEF Leads
(* A node v leads to is above n or left the stack before; had it left, it  *)
(* would not lead to v.                                                    *)
<1>7. ASSUME NEW m \in N, Leads(N, E, m, v), Leads(N, E, v, m) PROVE m \in C
  <2> DEFINE D0 == {x \in N : idx[x] # Unmet /\ x \notin on}
  <2>1. \A k \in D0 : E[k] \subseteq D0
    BY DEF Sound, Settled
  <2>2. \A k \in D0 \cup C : E[k] \subseteq D0 \cup C
    <3>1. \A k \in C : E[k] \subseteq D0 \cup C
      <4> SUFFICES ASSUME NEW k \in C, NEW w \in E[k] PROVE w \in D0 \cup C
        OBVIOUS
      <4>1. k \in N /\ w \in N
        BY <1>2, <1>4
      <4> QED BY <4>1, <1>3
    <3> QED BY <3>1, <2>1
  <2>3. m \in D0 \cup C
    <3>1. D0 \cup C \in SUBSET N /\ v \in D0 \cup C
      BY <1>2, <1>4
    <3> HIDE DEF D0, C
    <3> QED BY <3>1, <2>2, <1>7 DEF Leads
  <2>4. m \notin D0
    BY <2>1, <1>7, <1>4 DEF Leads
  <2> QED BY <2>3, <2>4
<1> QED
  BY <1>2, <1>4, <1>6, <1>7 DEF StrongPart

-----------------------------------------------------------------------------
(* The stack and the frames as sequences *)

FrameSet(N) == [node : N, rest : SUBSET N]
NodesIn(c) == {c[i].node : i \in DOMAIN c}
TodoIn(N, c) ==
  [n \in N |-> {m \in N : \E i \in DOMAIN c : c[i].node = n /\ m \in c[i].rest}]

Sorted(f, s) == \A i, j \in DOMAIN s : i < j => f[s[i]] < f[s[j]]

(* Frames lead along edges, each to a node met later.                      *)
Nested(N, E, idx, s, c) ==
  /\ E \in [N -> SUBSET N] /\ idx \in [N -> Int] /\ ToSet(s) \subseteq N
  /\ c \in Seq(FrameSet(N))
  /\ \A i \in DOMAIN c : c[i].node \in ToSet(s) /\ c[i].rest \subseteq E[c[i].node]
  /\ \A i, j \in DOMAIN c : i < j => idx[c[i].node] < idx[c[j].node]
  /\ \A i \in DOMAIN c : i > 1 => c[i].node \in E[c[i - 1].node]

Linked(N, E, idx, lw, cnt, s, c) ==
  /\ s \in Seq(N) /\ Sorted(idx, s)
  /\ Nested(N, E, idx, s, c)
  /\ Sound(N, E, TodoIn(N, c), idx, lw, cnt, ToSet(s), NodesIn(c))

LEMMA AppendToSet ==
  ASSUME NEW N, NEW s \in Seq(N), NEW e \in N
  PROVE  ToSet(Append(s, e)) = ToSet(s) \cup {e}
<1>1. /\ Len(Append(s, e)) = Len(s) + 1
      /\ DOMAIN s = 1 .. Len(s) /\ DOMAIN Append(s, e) = 1 .. Len(s) + 1
      /\ Append(s, e)[Len(s) + 1] = e
      /\ \A i \in 1 .. Len(s) : Append(s, e)[i] = s[i]
  OBVIOUS
<1>2. \A x \in ToSet(Append(s, e)) : x \in ToSet(s) \cup {e}
  BY <1>1 DEF ToSet
<1>3. \A x \in ToSet(s) \cup {e} : x \in ToSet(Append(s, e))
  BY <1>1 DEF ToSet
<1> QED
  BY <1>2, <1>3

LEMMA CutToSet ==
  ASSUME NEW N, NEW f \in [N -> Int], NEW s \in Seq(N), Sorted(f, s),
         NEW p \in 1 .. Len(s)
  PROVE  /\ SubSeq(s, 1, p - 1) \in Seq(N) /\ Sorted(f, SubSeq(s, 1, p - 1))
         /\ ToSet(SubSeq(s, 1, p - 1)) = ToSet(s) \ Above(f, ToSet(s), s[p])
         /\ ToSet(SubSeq(s, p, Len(s))) = Above(f, ToSet(s), s[p])
<1> DEFINE a == SubSeq(s, 1, p - 1)
           b == SubSeq(s, p, Len(s))
<1>1. /\ a \in Seq(N) /\ DOMAIN a = 1 .. p - 1 /\ \A i \in 1 .. p - 1 : a[i] = s[i]
      /\ b \in Seq(N) /\ DOMAIN b = 1 .. Len(s) - p + 1
      /\ \A i \in 1 .. Len(s) - p + 1 : b[i] = s[p + i - 1]
      /\ DOMAIN s = 1 .. Len(s) /\ Len(s) \in Nat
      /\ \A i \in 1 .. Len(s) : s[i] \in N /\ f[s[i]] \in Int
  OBVIOUS
<1> HIDE DEF a, b
<1>2. Sorted(f, a)
  BY <1>1 DEF Sorted
<1>3. \A i \in 1 .. Len(s) : i < p => f[s[i]] < f[s[p]]
  BY <1>1 DEF Sorted
<1>4. \A i \in 1 .. Len(s) : i >= p => f[s[i]] >= f[s[p]]
  <2>1. \A i \in 1 .. Len(s) : i > p => f[s[p]] < f[s[i]]
    BY <1>1 DEF Sorted
  <2> QED BY <2>1, <1>1
<1> DEFINE len == Len(s)
<1>0. p \in Int /\ p >= 1 /\ p <= len /\ len \in Nat
  BY <1>1
<1>5. ToSet(a) = {s[i] : i \in {j \in 1 .. len : j < p}}
  <2>1. 1 .. p - 1 = {j \in 1 .. len : j < p}
    <3> HIDE DEF len
    <3> QED BY <1>0
  <2>2. ASSUME NEW I, DOMAIN a = I, \A i \in I : a[i] = s[i]
        PROVE  ToSet(a) = {s[i] : i \in I}
    BY <2>2 DEF ToSet
  <2>3. ToSet(a) = {s[i] : i \in 1 .. p - 1}
    BY <2>2, <1>1
  <2> QED BY <2>1, <2>3
<1>6. ToSet(b) = {s[i] : i \in {j \in 1 .. Len(s) : j >= p}}
  <2>1. \A x \in ToSet(b) : x \in {s[i] : i \in {j \in 1 .. Len(s) : j >= p}}
    <3> SUFFICES ASSUME NEW k \in 1 .. Len(s) - p + 1
                 PROVE  b[k] \in {s[i] : i \in {j \in 1 .. Len(s) : j >= p}}
      BY <1>1 DEF ToSet
    <3>1. p + k - 1 \in 1 .. len /\ p + k - 1 >= p
      <4> HIDE DEF len
      <4>1. k \in 1 .. len - p + 1
        BY DEF len
      <4> QED BY <4>1, <1>0
    <3> QED BY <3>1, <1>1
  <2>2. \A i \in 1 .. Len(s) : i >= p => s[i] \in ToSet(b)
    <3> SUFFICES ASSUME NEW i \in 1 .. Len(s), i >= p PROVE s[i] \in ToSet(b)
      OBVIOUS
    <3>1. i - p + 1 \in 1 .. Len(s) - p + 1 /\ p + (i - p + 1) - 1 = i
      BY <1>1
    <3>2. b[i - p + 1] = s[i]
      BY <3>1, <1>1
    <3> QED BY <3>1, <3>2, <1>1 DEF ToSet
  <2> QED BY <2>1, <2>2
<1>7. ToSet(s) = {s[i] : i \in 1 .. Len(s)}
  BY <1>1 DEF ToSet
<1>8. Above(f, ToSet(s), s[p]) = {s[i] : i \in {j \in 1 .. Len(s) : j >= p}}
  <2>1. \A i \in 1 .. Len(s) : f[s[i]] >= f[s[p]] <=> i >= p
    BY <1>1, <1>3, <1>4
  <2> QED BY <2>1, <1>7 DEF Above
<1>9. ToSet(s) \ Above(f, ToSet(s), s[p]) = {s[i] : i \in {j \in 1 .. Len(s) : j < p}}
  <2>1. \A i \in 1 .. Len(s) : i < p => ~(f[s[i]] >= f[s[p]])
    BY <1>1, <1>3
  <2> QED BY <2>1, <1>1, <1>7, <1>8 DEF Above
<1> QED
  BY <1>1, <1>2, <1>5, <1>6, <1>8, <1>9 DEF a, b

(* The frame on top is that of the active node met last.                   *)
LEMMA TopIsTop ==
  ASSUME NEW N, NEW E, NEW idx, NEW s, NEW c, Nested(N, E, idx, s, c), c # <<>>
  PROVE  /\ Last(c).node \in N /\ Last(c).rest \subseteq E[Last(c).node]
         /\ IsTop(idx, NodesIn(c), Last(c).node)
         /\ TodoIn(N, c)[Last(c).node] = Last(c).rest
         /\ \A i \in DOMAIN c : i < Len(c) => c[i].node # Last(c).node
<1> E \in [N -> SUBSET N] /\ idx \in [N -> Int] /\ ToSet(s) \subseteq N
  BY DEF Nested
<1>1. /\ DOMAIN c = 1 .. Len(c) /\ Len(c) \in Nat /\ Len(c) > 0 /\ Len(c) \in DOMAIN c
      /\ \A i \in DOMAIN c : c[i].node \in N /\ c[i].rest \subseteq N
      /\ Last(c) = c[Len(c)]
  BY DEF Nested, FrameSet, Last
<1>2. \A i \in DOMAIN c : i < Len(c) => idx[c[i].node] < idx[Last(c).node]
  BY <1>1 DEF Nested
<1>3. \A i \in DOMAIN c : i < Len(c) => c[i].node # Last(c).node
  BY <1>1, <1>2
<1>4. IsTop(idx, NodesIn(c), Last(c).node)
  <2>1. \A i \in DOMAIN c : i = Len(c) \/ i < Len(c)
    BY <1>1
  <2>2. \A i \in DOMAIN c : idx[c[i].node] <= idx[Last(c).node]
    BY <2>1, <1>1, <1>2
  <2> QED BY <2>2, <1>1 DEF IsTop, NodesIn
<1>5. TodoIn(N, c)[Last(c).node] = Last(c).rest
  <2>1. \A i \in DOMAIN c : c[i].node = Last(c).node => i = Len(c)
    BY <1>1, <1>3
  <2>2. \A m \in N : (\E i \in DOMAIN c : c[i].node = Last(c).node /\ m \in c[i].rest)
                       <=> m \in Last(c).rest
    BY <2>1, <1>1
  <2> QED BY <2>2, <1>1 DEF TodoIn
<1> QED
  BY <1>1, <1>3, <1>4, <1>5 DEF Nested

(* The frame on top gives up its edge to w.                                *)
Took(c, w) == [c EXCEPT ![Len(c)].rest = @ \ {w}]

LEMMA TookFrames ==
  ASSUME NEW N, NEW c, c \in Seq(FrameSet(N)), c # <<>>, NEW w
  PROVE  /\ Took(c, w) \in Seq(FrameSet(N)) /\ Took(c, w) # <<>>
         /\ Len(Took(c, w)) = Len(c) /\ DOMAIN Took(c, w) = DOMAIN c
         /\ \A i \in DOMAIN c : Took(c, w)[i].node = c[i].node
         /\ \A i \in DOMAIN c : i # Len(c) => Took(c, w)[i].rest = c[i].rest
         /\ Took(c, w)[Len(c)].rest = c[Len(c)].rest \ {w}
<1> DEFINE d == Len(c)
           c2 == Took(c, w)
<1>1. /\ DOMAIN c = 1 .. d /\ d \in Nat /\ d > 0 /\ d \in DOMAIN c
      /\ \A i \in DOMAIN c : c[i] \in FrameSet(N)
  OBVIOUS
<1>2. c[d] = [node |-> c[d].node, rest |-> c[d].rest] /\ c[d].node \in N /\ c[d].rest \in SUBSET N
  BY <1>1 DEF FrameSet
<1>3. /\ DOMAIN c2 = DOMAIN c
      /\ c2[d] = [node |-> c[d].node, rest |-> c[d].rest \ {w}]
      /\ \A i \in DOMAIN c : i # d => c2[i] = c[i]
  BY <1>1, <1>2 DEF Took
<1>4. c2 = [i \in DOMAIN c2 |-> c2[i]]
  BY DEF Took
<1> HIDE DEF c2
<1>5. c2[d] \in FrameSet(N)
  BY <1>2, <1>3 DEF FrameSet
<1>6. c2 \in Seq(FrameSet(N)) /\ Len(c2) = d
  <2>1. c2 \in [1 .. d -> FrameSet(N)]
    BY <1>1, <1>3, <1>4, <1>5
  <2> QED BY <2>1, <1>1
<1>7. c2[d].node = c[d].node /\ c2[d].rest = c[d].rest \ {w}
  BY <1>3
<1>8. \A i \in DOMAIN c : c2[i].node = c[i].node /\ (i # d => c2[i].rest = c[i].rest)
  BY <1>3, <1>7
<1>9. c2 # <<>>
  BY <1>1, <1>6
<1> QED
  BY <1>3, <1>6, <1>7, <1>8, <1>9 DEF c2

LEMMA TakeAnEdge ==
  ASSUME NEW N, NEW E, NEW idx, NEW s, NEW c, Nested(N, E, idx, s, c), c # <<>>,
         NEW w
  PROVE  /\ Nested(N, E, idx, s, Took(c, w)) /\ NodesIn(Took(c, w)) = NodesIn(c)
         /\ TodoIn(N, Took(c, w)) = Without(TodoIn(N, c), Last(c).node, w)
         /\ Len(Took(c, w)) = Len(c) /\ Last(Took(c, w)).node = Last(c).node
<1> E \in [N -> SUBSET N] /\ idx \in [N -> Int] /\ ToSet(s) \subseteq N
  BY DEF Nested
<1> DEFINE d == Len(c)
           c2 == Took(c, w)
<1>1. /\ c \in Seq(FrameSet(N)) /\ DOMAIN c = 1 .. d /\ d \in Nat /\ d > 0 /\ d \in DOMAIN c
      /\ \A i \in DOMAIN c : c[i] \in FrameSet(N)
      /\ Last(c) = c[d]
  BY DEF Nested, Last
<1>2. c[d].node \in N
  BY <1>1 DEF FrameSet
<1>3. /\ c2 \in Seq(FrameSet(N)) /\ DOMAIN c2 = DOMAIN c /\ Len(c2) = d
      /\ \A i \in DOMAIN c : c2[i].node = c[i].node
      /\ \A i \in DOMAIN c : i # d => c2[i].rest = c[i].rest
      /\ c2[d].rest = c[d].rest \ {w}
  BY <1>1, TookFrames
<1> HIDE DEF c2
<1>6. \A i \in DOMAIN c : c2[i].node = c[i].node /\ c2[i].rest \subseteq c[i].rest
  BY <1>3
<1>7. NodesIn(c2) = NodesIn(c)
  BY <1>3, <1>6 DEF NodesIn
<1>8. Nested(N, E, idx, s, c2)
  <2>1. \A i \in DOMAIN c : c[i].node \in ToSet(s) /\ c[i].rest \subseteq E[c[i].node]
    BY DEF Nested
  <2>2. \A i, j \in DOMAIN c : i < j => idx[c[i].node] < idx[c[j].node]
    BY DEF Nested
  <2>3. \A i \in DOMAIN c : i > 1 => i - 1 \in DOMAIN c /\ c[i].node \in E[c[i - 1].node]
    BY <1>1 DEF Nested
  <2>4. \A i \in DOMAIN c2 : c2[i].node \in ToSet(s) /\ c2[i].rest \subseteq E[c2[i].node]
    BY <2>1, <1>3, <1>6
  <2>5. \A i, j \in DOMAIN c2 : i < j => idx[c2[i].node] < idx[c2[j].node]
    BY <2>2, <1>3, <1>6
  <2>6. \A i \in DOMAIN c2 : i > 1 => c2[i].node \in E[c2[i - 1].node]
    BY <2>3, <1>3, <1>6
  <2> QED BY <2>4, <2>5, <2>6, <1>3 DEF Nested
<1>9. \A i \in DOMAIN c : i # d => c[i].node # c[d].node
  <2> HIDE DEF d
  <2>1. \A i \in DOMAIN c : i # d => i < d
    BY <1>1
  <2>2. \A i \in DOMAIN c : i < d => idx[c[i].node] < idx[c[d].node]
    BY <1>1 DEF Nested
  <2>3. \A i \in DOMAIN c : c[i].node \in N /\ idx[c[i].node] \in Int
    BY <1>1 DEF FrameSet
  <2> QED BY <1>1, <2>1, <2>2, <2>3
<1>10. TodoIn(N, c2) = [TodoIn(N, c) EXCEPT ![Last(c).node] = @ \ {w}]
  <2>1. ASSUME NEW n \in N, NEW m \in N
        PROVE  (\E i \in DOMAIN c2 : c2[i].node = n /\ m \in c2[i].rest) <=>
               /\ \E i \in DOMAIN c : c[i].node = n /\ m \in c[i].rest
               /\ ~(n = c[d].node /\ m = w)
    <3>1. ASSUME NEW i \in DOMAIN c2, c2[i].node = n, m \in c2[i].rest
          PROVE  /\ \E j \in DOMAIN c : c[j].node = n /\ m \in c[j].rest
                 /\ ~(n = c[d].node /\ m = w)
      BY <3>1, <1>3, <1>6, <1>9
    <3>2. ASSUME NEW i \in DOMAIN c, c[i].node = n, m \in c[i].rest,
                 ~(n = c[d].node /\ m = w)
          PROVE  \E j \in DOMAIN c2 : c2[j].node = n /\ m \in c2[j].rest
      BY <3>2, <1>3, <1>6
    <3> QED BY <3>1, <3>2
  <2>2. \A n \in N : TodoIn(N, c2)[n] =
          IF n = c[d].node THEN TodoIn(N, c)[n] \ {w} ELSE TodoIn(N, c)[n]
    BY <2>1 DEF TodoIn
  <2>3. /\ TodoIn(N, c) = [n \in N |-> TodoIn(N, c)[n]]
        /\ TodoIn(N, c2) = [n \in N |-> TodoIn(N, c2)[n]]
    BY DEF TodoIn
  <2>4. Last(c).node = c[d].node /\ c[d].node \in N
    BY <1>1, <1>2
  <2> HIDE DEF d
  <2> QED BY <2>2, <2>3, <2>4
<1> QED
  BY <1>1, <1>3, <1>6, <1>7, <1>8, <1>10 DEF Last, c2, Without

(* A frame for the new node n is put on top.                               *)
With(f, n, v) == [f EXCEPT ![n] = v]
Pushed(E, c, n) == Append(c, [node |-> n, rest |-> E[n]])

HasRoom(N, E, idx, cnt, s, c, n) ==
  /\ s \in Seq(N) /\ n \in N /\ n \notin ToSet(s) /\ cnt \in Int
  /\ \A v \in ToSet(s) : idx[v] < cnt
  /\ c # <<>> => n \in E[Last(c).node]

LEMMA PushAFrame ==
  ASSUME NEW N, NEW E, NEW idx, NEW s, NEW c, Nested(N, E, idx, s, c),
         NEW n, NEW cnt, HasRoom(N, E, idx, cnt, s, c, n)
  PROVE  /\ Nested(N, E, With(idx, n, cnt), Append(s, n), Pushed(E, c, n))
         /\ NodesIn(Pushed(E, c, n)) = NodesIn(c) \cup {n}
         /\ TodoIn(N, Pushed(E, c, n)) = With(TodoIn(N, c), n, E[n])
<1> USE DEF HasRoom
<1> E \in [N -> SUBSET N] /\ idx \in [N -> Int] /\ ToSet(s) \subseteq N
  BY DEF Nested
<1> DEFINE d == Len(c)
           c2 == Pushed(E, c, n)
           fr == [node |-> n, rest |-> E[n]]
           idx2 == With(idx, n, cnt)
<1>1. fr \in FrameSet(N) /\ fr.node = n /\ fr.rest = E[n]
  BY DEF FrameSet
<1>2. /\ c \in Seq(FrameSet(N)) /\ DOMAIN c = 1 .. d /\ d \in Nat
      /\ c # <<>> => d > 0 /\ Last(c) = c[d]
      /\ c = <<>> => d = 0
  BY DEF Nested, Last
<1>3. /\ c2 \in Seq(FrameSet(N)) /\ DOMAIN c2 = 1 .. d + 1
      /\ c2[d + 1] = fr /\ \A i \in 1 .. d : c2[i] = c[i]
  BY <1>1, <1>2 DEF Pushed
<1>4. \A v \in ToSet(s) : v \in N /\ idx2[v] = idx[v] /\ v # n
  BY DEF With
<1>5. idx2[n] = cnt /\ idx2 \in [N -> Int]
  BY DEF With
<1>6. ToSet(Append(s, n)) = ToSet(s) \cup {n}
  BY AppendToSet
<1>7. \A i \in 1 .. d : c[i].node \in ToSet(s) /\ c[i].rest \subseteq E[c[i].node]
  BY <1>2 DEF Nested
<1> HIDE DEF c2, idx2
<1>8. 1 .. d + 1 = 1 .. d \cup {d + 1} /\ d + 1 \notin 1 .. d
  BY <1>2
<1>9. Nested(N, E, idx2, Append(s, n), c2)
  <2>0. ToSet(Append(s, n)) \subseteq N
    BY <1>6
  <2>1. \A i \in DOMAIN c2 : c2[i].node \in ToSet(Append(s, n)) /\ c2[i].rest \subseteq E[c2[i].node]
    BY <1>1, <1>3, <1>6, <1>7, <1>8
  <2>2. \A i, j \in DOMAIN c2 : i < j => idx2[c2[i].node] < idx2[c2[j].node]
    <3> SUFFICES ASSUME NEW i \in DOMAIN c2, NEW j \in DOMAIN c2, i < j
                 PROVE  idx2[c2[i].node] < idx2[c2[j].node]
      OBVIOUS
    <3>1. i \in 1 .. d
      BY <1>2, <1>3
    <3>2. CASE j \in 1 .. d
      <4>1. idx[c[i].node] < idx[c[j].node]
        BY <3>1, <3>2, <1>2 DEF Nested
      <4> QED BY <4>1, <3>1, <3>2, <1>3, <1>4, <1>7
    <3>3. CASE j = d + 1
      BY <3>1, <3>3, <1>1, <1>3, <1>4, <1>5, <1>7
    <3> QED BY <3>2, <3>3, <1>3, <1>8
  <2>3. \A i \in DOMAIN c2 : i > 1 => c2[i].node \in E[c2[i - 1].node]
    <3> SUFFICES ASSUME NEW i \in DOMAIN c2, i > 1
                 PROVE  c2[i].node \in E[c2[i - 1].node]
      OBVIOUS
    <3>1. i - 1 \in 1 .. d /\ d > 0
      BY <1>2, <1>3
    <3>2. CASE i \in 1 .. d
      BY <3>1, <3>2, <1>2, <1>3 DEF Nested
    <3>3. CASE i = d + 1
      <4>1. i - 1 = d /\ c # <<>>
        BY <3>1, <3>3, <1>2
      <4> QED BY <4>1, <3>1, <3>3, <1>1, <1>2, <1>3
    <3> QED BY <3>2, <3>3, <1>3, <1>8
  <2> QED BY <2>0, <2>1, <2>2, <2>3, <1>3, <1>5 DEF Nested
<1>10. NodesIn(c2) = NodesIn(c) \cup {n}
  <2>1. \A x \in NodesIn(c2) : x \in NodesIn(c) \cup {n}
    BY <1>1, <1>2, <1>3, <1>8 DEF NodesIn
  <2>2. \A x \in NodesIn(c) \cup {n} : x \in NodesIn(c2)
    BY <1>1, <1>2, <1>3, <1>8 DEF NodesIn
  <2> QED BY <2>1, <2>2
<1>11. TodoIn(N, c2) = [TodoIn(N, c) EXCEPT ![n] = E[n]]
  <2>1. ASSUME NEW v \in N, NEW m \in N
        PROVE  (\E i \in DOMAIN c2 : c2[i].node = v /\ m \in c2[i].rest) <=>
               \/ v = n /\ m \in E[n]
               \/ v # n /\ \E i \in DOMAIN c : c[i].node = v /\ m \in c[i].rest
    <3>1. \A i \in 1 .. d : c[i].node # n
      BY <1>7
    <3> QED BY <3>1, <1>1, <1>2, <1>3, <1>8
  <2>2. \A v \in N : TodoIn(N, c2)[v] = IF v = n THEN E[n] ELSE TodoIn(N, c)[v]
    BY <2>1 DEF TodoIn
  <2>3. /\ TodoIn(N, c) = [v \in N |-> TodoIn(N, c)[v]]
        /\ TodoIn(N, c2) = [v \in N |-> TodoIn(N, c2)[v]]
    BY DEF TodoIn
  <2> QED BY <2>2, <2>3
<1> QED
  BY <1>9, <1>10, <1>11 DEF c2, idx2, With

(* The frame on top, with no edge left, is removed.                        *)
IsSpent(c) == Last(c).rest = {}

HasCaller(N, E, idx, c) ==
  /\ Front(c) # <<>> =>
       /\ Last(Front(c)) \in FrameSet(N)
       /\ IsTop(idx, NodesIn(c) \ {Last(c).node}, Last(Front(c)).node)
       /\ Last(c).node \in E[Last(Front(c)).node]
  /\ Front(c) = <<>> => NodesIn(c) = {Last(c).node}

LEMMA PopAFrame ==
  ASSUME NEW N, NEW E, NEW idx, NEW s, NEW c, Nested(N, E, idx, s, c), c # <<>>,
         IsSpent(c),
         NEW s2, ToSet(s2) \subseteq ToSet(s),
         NodesIn(c) \ {Last(c).node} \subseteq ToSet(s2)
  PROVE  /\ Nested(N, E, idx, s2, Front(c))
         /\ NodesIn(Front(c)) = NodesIn(c) \ {Last(c).node}
         /\ TodoIn(N, Front(c)) = TodoIn(N, c)
         /\ HasCaller(N, E, idx, c)
<1> E \in [N -> SUBSET N] /\ idx \in [N -> Int] /\ ToSet(s) \subseteq N
  BY DEF Nested
<1> DEFINE d == Len(c)
           c2 == Front(c)
<1>1. /\ c \in Seq(FrameSet(N)) /\ DOMAIN c = 1 .. d /\ d \in Nat /\ d > 0
      /\ Last(c) = c[d]
      /\ \A i \in DOMAIN c : c[i] \in FrameSet(N)
  BY DEF Nested, Last
<1>2. /\ c2 \in Seq(FrameSet(N)) /\ DOMAIN c2 = 1 .. d - 1 /\ Len(c2) = d - 1
      /\ \A i \in 1 .. d - 1 : c2[i] = c[i]
  BY <1>1 DEF Front
<1>0. \A i \in DOMAIN c : i < d => c[i].node # Last(c).node
  BY TopIsTop
<1> HIDE DEF c2, d
<1>3. 1 .. d = 1 .. d - 1 \cup {d} /\ d \notin 1 .. d - 1
  BY <1>1
<1>4. \A i \in 1 .. d - 1 : c[i].node # c[d].node
  <2>1. \A i \in 1 .. d - 1 : i \in 1 .. d /\ i < d
    BY <1>1
  <2> QED BY <2>1, <1>0, <1>1
<1>5. NodesIn(c2) = NodesIn(c) \ {c[d].node}
  <2>1. \A x \in NodesIn(c2) : x \in NodesIn(c) \ {c[d].node}
    BY <1>1, <1>2, <1>3, <1>4 DEF NodesIn
  <2>2. \A x \in NodesIn(c) \ {c[d].node} : x \in NodesIn(c2)
    BY <1>1, <1>2, <1>3, <1>4 DEF NodesIn
  <2> QED BY <2>1, <2>2
<1>6. TodoIn(N, c2) = TodoIn(N, c)
  <2>0. c[d].rest = {}
    BY <1>1 DEF IsSpent
  <2>1. ASSUME NEW v \in N, NEW m \in N
        PROVE  (\E i \in DOMAIN c2 : c2[i].node = v /\ m \in c2[i].rest) <=>
               (\E i \in DOMAIN c : c[i].node = v /\ m \in c[i].rest)
    BY <2>0, <1>1, <1>2, <1>3
  <2> QED BY <2>1 DEF TodoIn
<1>7. Nested(N, E, idx, s2, c2)
  <2>1. \A i \in 1 .. d - 1 : c[i].node \in ToSet(s2) /\ c[i].rest \subseteq E[c[i].node]
    <3>1. \A i \in 1 .. d - 1 : c[i].node \in NodesIn(c) \ {c[d].node}
      BY <1>1, <1>3, <1>4 DEF NodesIn
    <3> QED BY <3>1, <1>1, <1>3 DEF Nested
  <2>2. \A i, j \in 1 .. d - 1 : i < j => idx[c[i].node] < idx[c[j].node]
    BY <1>1, <1>3 DEF Nested
  <2>3. \A i \in 1 .. d - 1 : i > 1 => i - 1 \in 1 .. d - 1 /\ c[i].node \in E[c[i - 1].node]
    <3>1. \A i \in 1 .. d - 1 : i > 1 => i - 1 \in 1 .. d - 1
      BY <1>1
    <3> QED BY <3>1, <1>1, <1>3 DEF Nested
  <2>4. ToSet(s2) \subseteq N
    OBVIOUS
  <2>5. \A i \in DOMAIN c2 : c2[i].node \in ToSet(s2) /\ c2[i].rest \subseteq E[c2[i].node]
    BY <2>1, <1>2
  <2>6. \A i, j \in DOMAIN c2 : i < j => idx[c2[i].node] < idx[c2[j].node]
    BY <2>2, <1>2
  <2>7. \A i \in DOMAIN c2 : i > 1 => c2[i].node \in E[c2[i - 1].node]
    BY <2>3, <1>2
  <2> QED BY <2>4, <2>5, <2>6, <2>7, <1>2 DEF Nested
<1>8. ASSUME c2 # <<>>
      PROVE  /\ Last(c2) \in FrameSet(N)
             /\ IsTop(idx, NodesIn(c) \ {Last(c).node}, Last(c2).node)
             /\ Last(c).node \in E[Last(c2).node]
  <2>1. d - 1 > 0 /\ d - 1 \in 1 .. d - 1 /\ Last(c2) = c[d - 1]
    BY <1>8, <1>1, <1>2 DEF Last
  <2>2. Last(c2) \in FrameSet(N)
    BY <2>1, <1>1, <1>3
  <2>3. c[d].node \in E[c[d - 1].node]
    <3>1. d \in DOMAIN c /\ d > 1
      BY <2>1, <1>1, <1>3
    <3> QED BY <3>1 DEF Nested
  <2>4. IsTop(idx, NodesIn(c2), Last(c2).node)
    <3>1. \A i \in 1 .. d - 1 : i = d - 1 \/ i < d - 1
      BY <1>1
    <3>2. \A i \in 1 .. d - 1 : i < d - 1 => idx[c[i].node] < idx[c[d - 1].node]
      BY <2>1, <1>1, <1>3 DEF Nested
    <3>3. \A i \in 1 .. d - 1 : c[i].node \in N /\ idx[c[i].node] \in Int
      BY <1>1, <1>3 DEF FrameSet
    <3>4. \A i \in 1 .. d - 1 : idx[c[i].node] <= idx[c[d - 1].node]
      BY <3>1, <3>2, <3>3, <2>1
    <3> QED BY <3>4, <2>1, <1>2 DEF IsTop, NodesIn
  <2> QED BY <2>1, <2>2, <2>3, <2>4, <1>1, <1>5
<1>9. c2 = <<>> => NodesIn(c) = {Last(c).node}
  <2> SUFFICES ASSUME c2 = <<>> PROVE NodesIn(c) = {c[d].node}
    BY <1>1
  <2>1. Len(c2) = 0
    OBVIOUS
  <2>2. d = 1
    BY <2>1, <1>1, <1>2
  <2> QED BY <2>2, <1>1 DEF NodesIn
<1> QED
  BY <1>1, <1>5, <1>6, <1>7, <1>8, <1>9 DEF c2, d, HasCaller

LEMMA TodoIsFunction ==
  ASSUME NEW N, NEW c
  PROVE  TodoIn(N, c) \in [N -> SUBSET N]
BY DEF TodoIn

LEMMA LinkedMeet ==
  ASSUME NEW N, NEW E, NEW idx, NEW lw, NEW cnt, NEW s, NEW c,
         Linked(N, E, idx, lw, cnt, s, c),
         NEW n \in N, idx[n] = Unmet,
         NEW c2, \/ c = <<>> /\ c2 = c
                 \/ c # <<>> /\ n \in Last(c).rest /\ c2 = Took(c, n)
  PROVE  Linked(N, E, With(idx, n, cnt), With(lw, n, cnt), cnt + 1,
                Append(s, n), Pushed(E, c2, n))
<1> DEFINE on == ToSet(s)
           idx2 == With(idx, n, cnt)
           lw2 == With(lw, n, cnt)
<1>0. Typed(N, E, TodoIn(N, c), idx, lw, cnt)
  BY DEF Linked, Sound
<1> USE <1>0 DEF Typed
<1>1. /\ idx \in [N -> Int] /\ lw \in [N -> Int] /\ cnt \in Nat
      /\ s \in Seq(N) /\ Sorted(idx, s) /\ Nested(N, E, idx, s, c)
      /\ Sound(N, E, TodoIn(N, c), idx, lw, cnt, on, NodesIn(c))
  BY DEF Linked
<1>2. /\ on \subseteq N /\ NodesIn(c) \subseteq on
      /\ \A v \in on : idx[v] \in Nat /\ idx[v] < cnt
  BY <1>1 DEF Sound, Placed
<1>3. n \notin on /\ n \notin NodesIn(c)
  BY <1>2 DEF Unmet
<1>4. /\ Nested(N, E, idx, s, c2) /\ NodesIn(c2) = NodesIn(c)
      /\ c2 # <<>> => n \in E[Last(c2).node]
  <2>1. CASE c = <<>> /\ c2 = c
    BY <2>1, <1>1
  <2>2. CASE c # <<>> /\ n \in Last(c).rest /\ c2 = Took(c, n)
    <3>1. Nested(N, E, idx, s, c2) /\ NodesIn(c2) = NodesIn(c) /\ Last(c2).node = Last(c).node
      BY <2>2, <1>1, <1>2, TakeAnEdge
    <3>2. Last(c).rest \subseteq E[Last(c).node]
      BY <2>2, <1>1, <1>2, TopIsTop
    <3> QED BY <3>1, <3>2, <2>2
  <2> QED BY <2>1, <2>2
<1> DEFINE c3 == Pushed(E, c2, n)
<1>5. /\ Nested(N, E, idx2, Append(s, n), c3)
      /\ NodesIn(c3) = NodesIn(c) \cup {n}
      /\ TodoIn(N, c3) = With(TodoIn(N, c2), n, E[n])
  <2>1. cnt \in Int /\ \A v \in ToSet(s) : idx[v] < cnt
    BY <1>1, <1>2
  <2>2. idx \in [N -> Int] /\ s \in Seq(N) /\ n \notin ToSet(s)
    BY <1>1, <1>3
  <2>3. HasRoom(N, E, idx, cnt, s, c2, n)
    BY <2>1, <2>2, <1>4 DEF HasRoom
  <2> QED BY <2>3, <1>4, PushAFrame
<1>6. ToSet(Append(s, n)) = on \cup {n}
  BY <1>1, AppendToSet
<1>7. Sorted(idx2, Append(s, n))
  <2> DEFINE s2 == Append(s, n)
             len == Len(s)
  <2>1. /\ len \in Nat /\ DOMAIN s = 1 .. len /\ DOMAIN s2 = 1 .. len + 1
        /\ \A i \in 1 .. len : s2[i] = s[i] /\ s[i] \in on
        /\ s2[len + 1] = n
    BY <1>1 DEF ToSet
  <2>2. idx2[n] = cnt /\ \A v \in on : idx2[v] = idx[v]
    BY <1>1, <1>2, <1>3 DEF With
  <2> HIDE DEF s2, len, idx2
  <2> SUFFICES ASSUME NEW i \in DOMAIN s2, NEW j \in DOMAIN s2, i < j
               PROVE  idx2[s2[i]] < idx2[s2[j]]
    BY DEF Sorted, s2
  <2>3. i \in 1 .. len /\ (j \in 1 .. len \/ j = len + 1)
    BY <2>1
  <2>4. CASE j \in 1 .. len
    <3>1. idx[s[i]] < idx[s[j]]
      BY <2>1, <2>3, <2>4, <1>1 DEF Sorted
    <3> QED BY <3>1, <2>1, <2>2, <2>3, <2>4
  <2>5. CASE j = len + 1
    BY <2>1, <2>2, <2>3, <2>5, <1>2
  <2> QED BY <2>3, <2>4, <2>5
<1> HIDE DEF c3
<1>8. /\ TodoIn(N, c) \in [N -> SUBSET N] /\ TodoIn(N, c2) \in [N -> SUBSET N]
      /\ TodoIn(N, c3) \in [N -> SUBSET N]
  BY TodoIsFunction
<1>9. Meets(N, E, TodoIn(N, c), TodoIn(N, c3), idx, NodesIn(c), n)
  <2>1. TodoIn(N, c3)[n] = E[n] /\ \A v \in N \ {n} : TodoIn(N, c3)[v] = TodoIn(N, c2)[v]
    BY <1>5, <1>8 DEF With
  <2>2. CASE c = <<>> /\ c2 = c
    <3>1. NodesIn(c) = {}
      BY <2>2 DEF NodesIn
    <3> QED BY <3>1, <2>1, <2>2, <1>8 DEF Meets
  <2>3. CASE c # <<>> /\ n \in Last(c).rest /\ c2 = Took(c, n)
    <3> DEFINE p == Last(c).node
    <3>1. p \in N /\ IsTop(idx, NodesIn(c), p) /\ n \in E[p]
      BY <2>3, <1>1, <1>2, TopIsTop
    <3>2. TodoIn(N, c2) = Without(TodoIn(N, c), p, n)
      BY <2>3, <1>1, <1>2, TakeAnEdge
    <3>3. p # n
      BY <3>1, <1>3 DEF IsTop
    <3> HIDE DEF p
    <3>4. TodoIn(N, c3)[p] = TodoIn(N, c)[p] \ {n}
      BY <3>1, <3>2, <3>3, <2>1, <1>8 DEF Without
    <3>5. \A v \in N \ {n, p} : TodoIn(N, c3)[v] = TodoIn(N, c)[v]
      BY <3>2, <2>1, <1>8 DEF Without
    <3> QED BY <3>1, <3>4, <3>5, <2>1, <1>8 DEF Meets
  <2> QED BY <2>2, <2>3
<1>10. Sound(N, E, TodoIn(N, c3), idx2, lw2, cnt + 1, on \cup {n}, NodesIn(c) \cup {n})
  BY <1>1, <1>9, MeetKeepsSound DEF With
<1>11. Append(s, n) \in Seq(N)
  BY <1>1
<1> QED
  BY <1>5, <1>6, <1>7, <1>10, <1>11 DEF Linked, c3

LEMMA LinkedLook ==
  ASSUME NEW N, NEW E, NEW idx, NEW lw, NEW cnt, NEW s, NEW c,
         Linked(N, E, idx, lw, cnt, s, c), c # <<>>,
         NEW w \in Last(c).rest, idx[w] # Unmet,
         NEW lw2,
         \/ w \notin ToSet(s) /\ lw2 = lw
         \/ \E by \in {idx[w], lw[w]} :
              /\ w \in ToSet(s)
              /\ lw2 = [lw EXCEPT ![Last(c).node] = IF by < @ THEN by ELSE @]
  PROVE  Linked(N, E, idx, lw2, cnt, s, Took(c, w))
<1> DEFINE p == Last(c).node
           T == TodoIn(N, c)
           c2 == Took(c, w)
<1>0. Typed(N, E, T, idx, lw, cnt)
  BY DEF Linked, Sound
<1> USE <1>0 DEF Typed
<1>1. /\ idx \in [N -> Int] /\ lw \in [N -> Int] /\ cnt \in Nat
      /\ s \in Seq(N) /\ Sorted(idx, s) /\ Nested(N, E, idx, s, c)
      /\ Sound(N, E, T, idx, lw, cnt, ToSet(s), NodesIn(c))
  BY DEF Linked
<1>2. ToSet(s) \subseteq N
  BY <1>1 DEF Sound, Placed
<1>3. p \in N /\ IsTop(idx, NodesIn(c), p) /\ T[p] = Last(c).rest
  BY <1>1, <1>2, TopIsTop
<1>4. /\ Nested(N, E, idx, s, c2) /\ NodesIn(c2) = NodesIn(c)
      /\ TodoIn(N, c2) = Without(T, p, w)
  BY <1>1, <1>2, TakeAnEdge
<1>5. T \in [N -> SUBSET N] /\ TodoIn(N, c2) \in [N -> SUBSET N]
  BY TodoIsFunction
<1> HIDE DEF p, T, c2
<1>6. w \in T[p] /\ w \in N
  BY <1>3, <1>5
<1>7. lw2 \in [N -> Int] /\ Looks(N, T, TodoIn(N, c2), idx, lw, lw2, ToSet(s), NodesIn(c), p, w)
  <2>1. CASE w \notin ToSet(s) /\ lw2 = lw
    <3>1. 0 \in Int
      OBVIOUS
    <3> QED BY <3>1, <2>1, <1>1, <1>3, <1>4, <1>6 DEF Looks
  <2>2. CASE w \in ToSet(s)
    <3>1. PICK by \in {idx[w], lw[w]} : lw2 = [lw EXCEPT ![p] = IF by < @ THEN by ELSE @]
      BY <2>2 DEF p
    <3>2. by \in Int
      BY <1>1, <1>6
    <3>3. lw2 \in [N -> Int] /\ \A v \in N \ {p} : lw2[v] = lw[v]
      BY <3>1, <3>2, <1>1, <1>3
    <3>4. lw2[p] = IF w \in ToSet(s) /\ by < lw[p] THEN by ELSE lw[p]
      BY <3>1, <2>2, <1>1, <1>3
    <3> QED BY <3>1, <3>2, <3>3, <3>4, <1>3, <1>4, <1>6 DEF Looks
  <2> QED BY <2>1, <2>2
<1>8. Sound(N, E, TodoIn(N, c2), idx, lw2, cnt, ToSet(s), NodesIn(c))
  BY <1>1, <1>5, <1>7, LookKeepsSound
<1> QED
  BY <1>1, <1>4, <1>7, <1>8 DEF Linked, c2

(* The call for a node returns; its component is cut off if it is a root.  *)
LowerCaller(c, lw, lw2) ==
  IF Front(c) = <<>> THEN lw2 = lw
  ELSE lw2 = [lw EXCEPT ![Last(Front(c)).node] =
                IF lw[Last(c).node] < @ THEN lw[Last(c).node] ELSE @]

LEMMA LinkedReturn ==
  ASSUME NEW N, NEW E, NEW idx, NEW lw, NEW cnt, NEW s, NEW c,
         Linked(N, E, idx, lw, cnt, s, c), c # <<>>, IsSpent(c),
         NEW lw2, LowerCaller(c, lw, lw2)
  PROVE  LET n == Last(c).node IN
         /\ lw[n] # idx[n] => Linked(N, E, idx, lw2, cnt, s, Front(c))
         /\ \A p \in 1 .. Len(s) : lw[n] = idx[n] /\ s[p] = n =>
              LET on == ToSet(s)
                  cut == ToSet(SubSeq(s, p, Len(s)))
              IN /\ Linked(N, E, idx, lw2, cnt, SubSeq(s, 1, p - 1), Front(c))
                 /\ ToSet(SubSeq(s, 1, p - 1)) = on \ cut
                 /\ n \in cut /\ cut \subseteq on
                 /\ \A v \in cut : cut = StrongPart(N, E, v)
         /\ \E p \in 1 .. Len(s) : s[p] = n
<1> DEFINE T == TodoIn(N, c)
           on == ToSet(s)
           c2 == Front(c)
           n == Last(c).node
<1>0. Typed(N, E, T, idx, lw, cnt)
  BY DEF Linked, Sound
<1> USE <1>0 DEF Typed
<1>1. /\ idx \in [N -> Int] /\ lw \in [N -> Int] /\ cnt \in Nat
      /\ s \in Seq(N) /\ Sorted(idx, s) /\ Nested(N, E, idx, s, c)
      /\ Sound(N, E, T, idx, lw, cnt, on, NodesIn(c))
  BY DEF Linked
<1>2. on \subseteq N
  BY <1>1 DEF Sound, Placed
<1>3. n \in N /\ IsTop(idx, NodesIn(c), n) /\ T[n] = {}
  <2>1. n \in N /\ IsTop(idx, NodesIn(c), n) /\ T[n] = Last(c).rest
    BY <1>1, TopIsTop
  <2> QED BY <2>1 DEF IsSpent
<1>4. ASSUME NEW s2, ToSet(s2) \subseteq on, NodesIn(c) \ {n} \subseteq ToSet(s2)
      PROVE  /\ Nested(N, E, idx, s2, c2) /\ NodesIn(c2) = NodesIn(c) \ {n}
             /\ TodoIn(N, c2) = T /\ HasCaller(N, E, idx, c)
  BY <1>1, <1>2, <1>4, PopAFrame
<1>5. NodesIn(c) \subseteq on
  BY <1>1 DEF Sound, Placed
<1>6. T \in [N -> SUBSET N]
  BY TodoIsFunction
<1>7. lw2 \in [N -> Int] /\ Follows(idx, NodesIn(c), E, lw, lw2, N, n)
  <2>0. /\ c2 # <<>> => /\ Last(c2) \in FrameSet(N)
                         /\ IsTop(idx, NodesIn(c) \ {n}, Last(c2).node)
                         /\ n \in E[Last(c2).node]
        /\ c2 = <<>> => NodesIn(c) = {n}
    BY <1>4, <1>5 DEF HasCaller
  <2>1. CASE c2 = <<>>
    BY <2>0, <2>1, <1>1 DEF LowerCaller, Follows
  <2>2. CASE c2 # <<>>
    <3> DEFINE q == Last(c2).node
    <3>1. lw2 = [lw EXCEPT ![q] = IF lw[n] < @ THEN lw[n] ELSE @]
      BY <2>2 DEF LowerCaller
    <3>2. q \in N /\ IsTop(idx, NodesIn(c) \ {n}, q) /\ n \in E[q]
      BY <2>0, <2>2 DEF FrameSet
    <3> HIDE DEF q
    <3>3. lw2 \in [N -> Int]
      BY <3>1, <1>1, <1>3
    <3> QED BY <3>1, <3>2, <3>3 DEF Follows
  <2> QED BY <2>1, <2>2
<1> HIDE DEF T, c2
<1>b. Ends(T, idx, NodesIn(c), n)
  BY <1>3 DEF Ends
<1>8. ASSUME lw[n] # idx[n]
      PROVE  Linked(N, E, idx, lw2, cnt, s, c2)
  <2>1. Sound(N, E, T, idx, lw2, cnt, on, NodesIn(c) \ {n})
    BY <1>b, <1>1, <1>3, <1>6, <1>7, <1>8, ReturnKeepsSound
  <2>2. Nested(N, E, idx, s, c2) /\ NodesIn(c2) = NodesIn(c) \ {n} /\ TodoIn(N, c2) = T
    BY <1>4, <1>5
  <2> QED BY <2>1, <2>2, <1>1, <1>7 DEF Linked
<1>9. ASSUME lw[n] = idx[n], NEW p \in 1 .. Len(s), s[p] = n
      PROVE  LET cut == ToSet(SubSeq(s, p, Len(s)))
              IN /\ Linked(N, E, idx, lw2, cnt, SubSeq(s, 1, p - 1), c2)
                 /\ ToSet(SubSeq(s, 1, p - 1)) = on \ cut
                 /\ n \in cut /\ cut \subseteq on
                 /\ \A v \in cut : cut = StrongPart(N, E, v)
  <2> DEFINE s2 == SubSeq(s, 1, p - 1)
             cut == ToSet(SubSeq(s, p, Len(s)))
  <2>1. /\ s2 \in Seq(N) /\ Sorted(idx, s2)
        /\ ToSet(s2) = on \ Above(idx, on, n) /\ cut = Above(idx, on, n)
    BY <1>1, <1>9, CutToSet
  <2> HIDE DEF s2, cut
  <2>2. Sound(N, E, T, idx, lw2, cnt, on \ Above(idx, on, n), NodesIn(c) \ {n})
    BY <1>b, <1>1, <1>3, <1>6, <1>7, <1>9, CutKeepsSound
  <2>3. NodesIn(c) \ {n} \subseteq ToSet(s2)
    BY <2>1, <2>2 DEF Sound, Placed
  <2>4. Nested(N, E, idx, s2, c2) /\ NodesIn(c2) = NodesIn(c) \ {n} /\ TodoIn(N, c2) = T
    BY <2>1, <2>3, <1>4
  <2>5. Linked(N, E, idx, lw2, cnt, s2, c2)
    BY <2>1, <2>2, <2>4, <1>1, <1>7 DEF Linked
  <2>6. n \in cut /\ cut \subseteq on
    BY <2>1, <1>1, <1>3, <1>5 DEF IsTop, Above
  <2>7. \A v \in cut : cut = StrongPart(N, E, v)
    <3>1. \A v \in Above(idx, on, n) : StrongPart(N, E, v) = Above(idx, on, n)
      <4> TAKE v \in Above(idx, on, n)
      <4>1. Sound(N, E, T, idx, lw, cnt, on, NodesIn(c)) /\ n \in N /\ lw[n] = idx[n]
        BY <1>1, <1>3, <1>9
      <4> HIDE DEF on, n
      <4> QED BY <1>b, <4>1, CutIsComponent
    <3> QED BY <3>1, <2>1
  <2> QED BY <2>1, <2>5, <2>6, <2>7 DEF s2, cut
<1>10. \E p \in 1 .. Len(s) : s[p] = n
  <2>1. n \in ToSet(s) /\ DOMAIN s = 1 .. Len(s)
    BY <1>b, <1>1, <1>3, <1>5 DEF IsTop
  <2> QED BY <2>1 DEF ToSet
<1> QED
  BY <1>8, <1>9, <1>10 DEF c2

-----------------------------------------------------------------------------
(* The components that CycleSearch finds *)

EdgeMap == [n \in Nodes |-> Edges(n)]

LEMMA GraphFacts ==
  ASSUME graph \in Graphs
  PROVE  /\ graph.size \in Nat
         /\ \A n \in Nodes : graph.name[n] \in Nat /\ Edges(n) \subseteq Nodes /\ n \in Nat
         /\ graph.kind = "imports" => \A n \in Nodes : graph.name[n] = n
         /\ EdgeMap \in [Nodes -> SUBSET Nodes]
         /\ IsGraph(graph)
<1>1. IsGraph(graph)
  BY GraphAssumption
<1>2. graph.size \in Nat /\ graph.name \in [1 .. graph.size -> Range(graph.name)]
      /\ Range(graph.name) \subseteq Nat
  BY <1>1 DEF IsGraph, Graph
<1>3. \A n \in Nodes : graph.name[n] \in Nat /\ Edges(n) \subseteq Nodes /\ n \in Nat
  BY <1>2 DEF Nodes, Edges
<1>4. EdgeMap \in [Nodes -> SUBSET Nodes]
  BY <1>3 DEF EdgeMap
<1>5. graph.kind = "imports" => \A n \in Nodes : graph.name[n] = n
  BY <1>1 DEF IsGraph, Nodes
<1> QED
  BY <1>1, <1>2, <1>3, <1>4, <1>5

(* Whatever edges are left, one of them is the next.                       *)
LEMMA FirstIsIn ==
  ASSUME graph \in Graphs, NEW S, S \subseteq Nodes, S # {}
  PROVE  First(S) \in S
<1> DEFINE names == {graph.name[m] : m \in S}
<1>1. names \in SUBSET Nat /\ names # {}
  BY GraphFacts
<1>2. PICK a \in names : \A b \in names : a <= b
  BY <1>1, LeastNumber
<1> DEFINE B == {m \in S : graph.name[m] = a}
<1>3. B \in SUBSET Nat /\ B # {}
  BY <1>2, GraphFacts
<1>4. PICK m \in B : \A n \in B : m <= n
  BY <1>3, LeastNumber
<1>5. \A n \in S : m = n \/ Before(m, n)
  <2> SUFFICES ASSUME NEW n \in S PROVE m = n \/ Before(m, n)
    OBVIOUS
  <2>1. graph.name[n] \in Nat /\ graph.name[m] \in Nat /\ m \in Nat /\ n \in Nat
        /\ graph.name[m] = a /\ a <= graph.name[n]
    BY <1>2, GraphFacts
  <2>2. graph.name[n] = a => m <= n
    BY <1>4
  <2> QED BY <2>1, <2>2 DEF Before
<1>6. m \in S
  OBVIOUS
<1> HIDE DEF B, names
<1> QED
  BY <1>5, <1>6 DEF First

LEMMA MinIsIn ==
  ASSUME NEW S, S \subseteq Nat, S # {}
  PROVE  Min(S) \in S /\ \A m \in S : Min(S) <= m
BY LeastNumber DEF Min

(* Tarjan's invariant, and what the components found are.                  *)
KnotsAreParts ==
  \A k \in knots : k # {} /\ k \subseteq Nodes /\ \A n \in k : k = StrongPart(Nodes, EdgeMap, n)
MetArePlaced ==
  \A n \in Nodes \ UnmetNodes : n \in ToSet(stack) \/ \E k \in knots : n \in k
Searched == pc # "components" => calls = <<>> /\ UnmetNodes = {}

ComponentInv ==
  /\ graph \in Graphs
  /\ Linked(Nodes, EdgeMap, index, low, count, stack, calls)
  /\ KnotsAreParts
  /\ MetArePlaced
  /\ Searched

LEMMA InitLinked == Init => ComponentInv
<1> SUFFICES ASSUME Init PROVE ComponentInv
  OBVIOUS
<1> USE DEF Init
<1>1. graph \in Graphs /\ EdgeMap \in [Nodes -> SUBSET Nodes]
  BY GraphFacts
<1>2. index \in [Nodes -> Int] /\ low \in [Nodes -> Int] /\ \A n \in Nodes : index[n] = Unmet
  BY DEF Unmet
<1>3. ToSet(stack) = {} /\ NodesIn(calls) = {}
  BY DEF ToSet, NodesIn
<1>4. Nested(Nodes, EdgeMap, index, stack, calls)
  BY <1>1, <1>2, <1>3 DEF Nested
<1>5. stack \in Seq(Nodes) /\ Sorted(index, stack)
  BY DEF Sorted
<1>6. TodoIn(Nodes, calls) \in [Nodes -> SUBSET Nodes] /\ \A n \in Nodes : TodoIn(Nodes, calls)[n] = {}
  BY DEF TodoIn
<1>7. Sound(Nodes, EdgeMap, TodoIn(Nodes, calls), index, low, count, ToSet(stack), NodesIn(calls))
  <2> DEFINE T == TodoIn(Nodes, calls)
  <2>1. Typed(Nodes, EdgeMap, T, index, low, 0)
    BY <1>1, <1>2, <1>6 DEF Typed
  <2>2. Placed(Nodes, EdgeMap, T, index, low, 0, {}, {})
    BY <1>6 DEF Placed
  <2>3. SeenIsMet(Nodes, EdgeMap, T, index) /\ Settled(Nodes, EdgeMap, index, {})
    BY <1>2 DEF SeenIsMet, Settled
  <2>4. Lends(Nodes, EdgeMap, index, low, {}) /\ Anchored(Nodes, EdgeMap, index, {}, {})
    BY DEF Lends, Anchored, Within
  <2>5. Lowered(EdgeMap, T, index, low, {}, {}) /\ Supported(EdgeMap, index, {}, {})
    BY DEF Lowered, Supported
  <2> HIDE DEF T
  <2> QED BY <2>1, <2>2, <2>3, <2>4, <2>5, <1>3 DEF Sound, T
<1>8. Linked(Nodes, EdgeMap, index, low, count, stack, calls)
  BY <1>4, <1>5, <1>7 DEF Linked
<1> QED
  BY <1>1, <1>2, <1>8 DEF ComponentInv, KnotsAreParts, MetArePlaced, Searched, UnmetNodes

(* When no call is left, the stack is empty.                               *)
LEMMA IdleStack ==
  ASSUME ComponentInv, calls = <<>>
  PROVE  ToSet(stack) = {}
<1> DEFINE on == ToSet(stack)
<1>1. NodesIn(calls) = {}
  BY DEF NodesIn
<1>2. Anchored(Nodes, EdgeMap, index, on, NodesIn(calls)) /\ on \subseteq Nodes
  BY DEF ComponentInv, Linked, Sound, Placed
<1>3. Within(EdgeMap, on, on)
  BY DEF Within
<1> HIDE DEF on
<1>4. \A v \in on : \E u \in on \cap NodesIn(calls) : TRUE
  BY <1>2, <1>3 DEF Anchored
<1> QED
  BY <1>1, <1>4 DEF on

(* A node of a frame whose edges are taken in order.                       *)
LEMMA NextEdgeIsEdge ==
  ASSUME graph \in Graphs, NEW s, NEW c, Nested(Nodes, EdgeMap, index, s, c), c # <<>>,
         Last(c).rest # {}
  PROVE  /\ NextEdge(c) \in Last(c).rest /\ NextEdge(c) \in Nodes
         /\ Taken(c) = Took(c, NextEdge(c))
<1>1. Last(c).node \in Nodes /\ Last(c).rest \subseteq EdgeMap[Last(c).node]
  BY TopIsTop
<1>2. Last(c).rest \subseteq Nodes
  BY <1>1, GraphFacts
<1>3. NextEdge(c) \in Last(c).rest
  BY <1>2, FirstIsIn DEF NextEdge, Top
<1> QED
  BY <1>2, <1>3 DEF Taken, Took

(* A node is met: as a root or from the frame on top.                      *)
LEMMA MeetLinked ==
  ASSUME ComponentInv, NEW n \in Nodes, n \in UnmetNodes, pc = "components",
         NEW c2, Meet(n, c2),
         \/ calls = <<>> /\ c2 = calls
         \/ calls # <<>> /\ n \in Last(calls).rest /\ c2 = Took(calls, n)
  PROVE  ComponentInv'
<1> USE DEF Meet
<1>1. Linked(Nodes, EdgeMap, index, low, count, stack, calls)
  BY DEF ComponentInv
<1>2. index[n] = Unmet
  BY DEF UnmetNodes
<1>3. Linked(Nodes, EdgeMap, With(index, n, count), With(low, n, count), count + 1,
             Append(stack, n), Pushed(EdgeMap, c2, n))
  BY <1>1, <1>2, LinkedMeet
<1>4. Pushed(EdgeMap, c2, n) = calls'
  BY DEF Pushed, Frame, EdgeMap
<1>5. graph' = graph /\ Nodes' = Nodes /\ EdgeMap' = EdgeMap
  BY DEF Nodes, EdgeMap, Edges, Use
<1>6. Linked(Nodes, EdgeMap, index', low', count', stack', calls')
  BY <1>3, <1>4 DEF With
<1>7. index \in [Nodes -> Int] /\ count \in Nat /\ stack \in Seq(Nodes)
  BY <1>1 DEF Linked, Sound, Typed
<1>8. ToSet(stack') = ToSet(stack) \cup {n}
  BY <1>7, AppendToSet
<1>9. Nodes \ UnmetNodes' \subseteq (Nodes \ UnmetNodes) \cup {n}
  BY <1>5, <1>7 DEF UnmetNodes
<1>10. MetArePlaced'
  BY <1>5, <1>8, <1>9 DEF ComponentInv, MetArePlaced
<1>11. KnotsAreParts' /\ Searched'
  BY <1>5 DEF ComponentInv, KnotsAreParts, Searched
<1> QED
  BY <1>5, <1>6, <1>10, <1>11 DEF ComponentInv

LEMMA StepsKeepLinked ==
  ComponentInv /\ [Next]_vars => ComponentInv'
<1> SUFFICES ASSUME ComponentInv, [Next]_vars PROVE ComponentInv'
  OBVIOUS
<1>0. graph' = graph /\ Nodes' = Nodes /\ EdgeMap' = EdgeMap
  <2>1. graph' = graph
    BY DEF Next, vars, StartRoot, Descend, LookBack, LookAside, Return, ComponentsFound,
           Begin, Close, Enter, Pass, Back, ChainsFound, Meet
  <2> QED BY <2>1 DEF Nodes, EdgeMap, Edges, Use
<1>1. /\ graph \in Graphs /\ EdgeMap \in [Nodes -> SUBSET Nodes]
      /\ Linked(Nodes, EdgeMap, index, low, count, stack, calls)
      /\ Nested(Nodes, EdgeMap, index, stack, calls)
      /\ Typed(Nodes, EdgeMap, TodoIn(Nodes, calls), index, low, count)
  BY GraphFacts DEF ComponentInv, Linked, Sound
<1>2. ASSUME UNCHANGED <<search, pc>> PROVE ComponentInv'
  BY <1>0, <1>2 DEF search, ComponentInv, KnotsAreParts, MetArePlaced, Searched, UnmetNodes
<1>3. CASE StartRoot
  <2>1. UnmetNodes \subseteq Nat /\ UnmetNodes # {}
    BY <1>1, <1>3, GraphFacts DEF UnmetNodes, StartRoot
  <2>2. Min(UnmetNodes) \in UnmetNodes /\ Min(UnmetNodes) \in Nodes
    BY <2>1, MinIsIn DEF UnmetNodes
  <2> QED BY <2>2, <1>3, MeetLinked DEF StartRoot
<1>4. CASE Descend
  <2>1. calls # <<>> /\ Last(calls).rest # {} /\ pc = "components"
    BY <1>4 DEF Descend, TakeEdge, Top
  <2>2. NextEdge(calls) \in Last(calls).rest /\ NextEdge(calls) \in Nodes
        /\ Taken(calls) = Took(calls, NextEdge(calls))
    BY <2>1, <1>1, NextEdgeIsEdge
  <2> QED BY <2>1, <2>2, <1>4, MeetLinked DEF Descend
<1>5. CASE LookBack \/ LookAside
  <2> DEFINE w == NextEdge(calls)
  <2>1. calls # <<>> /\ Last(calls).rest # {}
    BY <1>5 DEF LookBack, LookAside, TakeEdge, Top
  <2>2. w \in Last(calls).rest /\ w \in Nodes /\ Taken(calls) = Took(calls, w)
    BY <2>1, <1>1, NextEdgeIsEdge
  <2>3. calls' = Took(calls, w) /\ UNCHANGED <<graph, pc, index, count, stack, knots>>
    BY <2>2, <1>5 DEF LookBack, LookAside
  <2>4. index[w] # Unmet
    <3>1. \A v \in ToSet(stack) : index[v] # Unmet
      BY <1>1 DEF Linked, Sound, Placed, Unmet
    <3> QED BY <3>1, <2>2, <1>5 DEF LookBack, LookAside, UnmetNodes
  <2>5. \/ w \notin ToSet(stack) /\ low' = low
        \/ \E by \in {index[w], low[w]} :
             /\ w \in ToSet(stack)
             /\ low' = [low EXCEPT ![Last(calls).node] = IF by < @ THEN by ELSE @]
    BY <1>5 DEF LookBack, LookAside, Lower, Link, Top
  <2> HIDE DEF w
  <2>6. Linked(Nodes, EdgeMap, index, low', count, stack, calls')
    BY <2>1, <2>2, <2>3, <2>4, <2>5, <1>1, LinkedLook
  <2>7. MetArePlaced' /\ KnotsAreParts' /\ Searched'
    <3>1. UnmetNodes' = UnmetNodes
      BY <2>3, <1>0 DEF UnmetNodes
    <3>2. pc = "components"
      BY <1>5 DEF LookBack, LookAside, TakeEdge
    <3> QED BY <3>1, <3>2, <2>3, <1>0 DEF ComponentInv, MetArePlaced, KnotsAreParts, Searched
  <2> QED BY <2>3, <2>6, <2>7, <1>0, <1>1 DEF ComponentInv
<1>6. CASE Return
  <2> DEFINE n == Last(calls).node
             p == Place(n)
             cut == ToSet(SubSeq(stack, p, Len(stack)))
  <2>1. /\ pc = "components" /\ calls # <<>> /\ IsSpent(calls)
        /\ calls' = Front(calls) /\ LowerCaller(calls, low, low')
        /\ UNCHANGED <<graph, pc, index, count>>
    BY <1>6 DEF Return, Top, IsSpent, LowerCaller, Lower
  <2>2. /\ low[n] # index[n] => Linked(Nodes, EdgeMap, index, low', count, stack, Front(calls))
        /\ \A q \in 1 .. Len(stack) : low[n] = index[n] /\ stack[q] = n =>
             LET on == ToSet(stack)
                 off == ToSet(SubSeq(stack, q, Len(stack)))
             IN /\ Linked(Nodes, EdgeMap, index, low', count, SubSeq(stack, 1, q - 1), Front(calls))
                /\ ToSet(SubSeq(stack, 1, q - 1)) = on \ off
                /\ n \in off /\ off \subseteq on
                /\ \A v \in off : off = StrongPart(Nodes, EdgeMap, v)
        /\ \E q \in 1 .. Len(stack) : stack[q] = n
    BY <2>1, <1>1, LinkedReturn
  <2>3. p \in 1 .. Len(stack) /\ stack[p] = n
    BY <2>2 DEF Place
  <2>4. UnmetNodes' = UnmetNodes /\ Searched'
    BY <2>1, <1>0 DEF UnmetNodes, Searched
  <2>5. CASE ~IsRoot(n)
    <3>1. stack' = stack /\ knots' = knots
      BY <2>5, <1>6 DEF Return, Cut, Top
    <3>2. Linked(Nodes, EdgeMap, index, low', count, stack, calls')
      BY <2>1, <2>2, <2>5 DEF IsRoot
    <3>3. MetArePlaced' /\ KnotsAreParts'
      BY <3>1, <2>4, <1>0 DEF ComponentInv, MetArePlaced, KnotsAreParts
    <3> QED BY <3>1, <3>2, <3>3, <2>1, <2>4, <1>0, <1>1 DEF ComponentInv
  <2>6. CASE IsRoot(n)
    <3>1. stack' = SubSeq(stack, 1, p - 1) /\ knots' = knots \cup {cut}
      BY <2>6, <1>6 DEF Return, Cut, Top
    <3>2. /\ Linked(Nodes, EdgeMap, index, low', count, stack', calls')
          /\ ToSet(stack') = ToSet(stack) \ cut
          /\ n \in cut /\ cut \subseteq ToSet(stack)
          /\ \A v \in cut : cut = StrongPart(Nodes, EdgeMap, v)
      BY <3>1, <2>1, <2>2, <2>3, <2>6 DEF IsRoot
    <3>3. cut \subseteq Nodes
      BY <3>2, <1>1 DEF Nested
    <3> HIDE DEF cut
    <3>4. KnotsAreParts'
      <4> SUFFICES ASSUME NEW k \in knots'
                   PROVE  k # {} /\ k \subseteq Nodes /\ \A v \in k : k = StrongPart(Nodes, EdgeMap, v)
        BY <1>0 DEF KnotsAreParts
      <4>1. CASE k = cut
        BY <4>1, <3>2, <3>3
      <4>2. CASE k \in knots
        BY <4>2 DEF ComponentInv, KnotsAreParts
      <4> QED BY <4>1, <4>2, <3>1
    <3>5. MetArePlaced'
      <4> SUFFICES ASSUME NEW v \in Nodes \ UnmetNodes
                   PROVE  v \in ToSet(stack') \/ \E k \in knots' : v \in k
        BY <1>0, <2>4 DEF MetArePlaced
      <4>1. v \in ToSet(stack) \/ \E k \in knots : v \in k
        BY DEF ComponentInv, MetArePlaced
      <4> QED BY <4>1, <3>1, <3>2
    <3> QED BY <3>2, <3>4, <3>5, <2>1, <2>4, <1>0, <1>1 DEF ComponentInv
  <2> QED BY <2>5, <2>6
<1>7. CASE ComponentsFound
  <2>1. UNCHANGED search /\ calls = <<>> /\ UnmetNodes = {}
    BY <1>7 DEF ComponentsFound
  <2>2. UnmetNodes' = UnmetNodes
    BY <2>1, <1>0 DEF search, UnmetNodes
  <2> QED BY <2>1, <2>2, <1>0 DEF search, ComponentInv, KnotsAreParts, MetArePlaced, Searched
<1>8. CASE Begin \/ Close \/ Enter \/ Pass \/ Back
  BY <1>2, <1>8 DEF Begin, Close, Enter, Pass, Back
<1>9. CASE ChainsFound
  <2>1. UNCHANGED search /\ pc = "chains"
    BY <1>9 DEF ChainsFound
  <2>2. UnmetNodes' = UnmetNodes
    BY <2>1, <1>0 DEF search, UnmetNodes
  <2>3. Searched'
    BY <2>1, <2>2 DEF search, ComponentInv, Searched
  <2> QED BY <2>1, <2>2, <2>3, <1>0 DEF search, ComponentInv, KnotsAreParts, MetArePlaced
<1>10. CASE UNCHANGED vars
  BY <1>2, <1>10 DEF vars, search
<1> QED
  BY <1>3, <1>4, <1>5, <1>6, <1>7, <1>8, <1>9, <1>10 DEF Next

LEMMA ComponentIsPart ==
  ASSUME NEW n \in Nodes
  PROVE  Component(n) = StrongPart(Nodes, EdgeMap, n)
<1>1. \A x, y \in Nodes : Reaches(x, y) <=> Leads(Nodes, EdgeMap, x, y)
  BY DEF Reaches, Leads, EdgeMap
<1> QED
  BY <1>1 DEF Component, StrongPart

LEMMA KnotsAreComponents == ComponentInv => ComponentsAreRight
<1> SUFFICES ASSUME ComponentInv, pc # "components" PROVE knots = Components
  BY DEF ComponentsAreRight
<1>1. \A n \in Nodes : \E k \in knots : n \in k
  <2>1. calls = <<>> /\ UnmetNodes = {}
    BY DEF ComponentInv, Searched
  <2> QED BY <2>1, IdleStack DEF ComponentInv, MetArePlaced
<1>2. \A k \in knots : k # {} /\ \A n \in k : n \in Nodes /\ k = Component(n)
  BY ComponentIsPart DEF ComponentInv, KnotsAreParts
<1>3. knots \subseteq Components
  BY <1>2 DEF Components
<1>4. Components \subseteq knots
  BY <1>1, <1>2 DEF Components
<1> QED
  BY <1>3, <1>4

(* The components are right in every graph: findCycleChains                *)
(* (engine/imports.ts) and findProviderCycles (nest/di-graph.ts) miss no   *)
(* cycle and join no two, whichever number a node on the stack lends.      *)
THEOREM ComponentsRight == Spec => []ComponentsAreRight
<1>1. Init => ComponentInv
  BY InitLinked
<1>2. ComponentInv /\ [Next]_vars => ComponentInv'
  BY StepsKeepLinked
<1>3. ComponentInv => ComponentsAreRight
  BY KnotsAreComponents
<1> QED
  BY <1>1, <1>2, <1>3, PTL DEF Spec

-----------------------------------------------------------------------------
(* The search for a chain, on sets *)

(* From a, all of whose edges within its component lead to U, one cannot   *)
(* return unless the component is a alone.                                 *)
Confined(N, E, K, a, U) ==
  /\ E \in [N -> SUBSET N] /\ a \in N /\ K = StrongPart(N, E, a)
  /\ U \subseteq K \ {a} /\ \A d \in U \cup {a} : E[d] \cap K \subseteq U

LEMMA NoWayBack ==
  ASSUME NEW N, NEW E, NEW K, NEW a, NEW U, Confined(N, E, K, a, U)
  PROVE  K = {a} /\ a \notin E[a]
<1> USE DEF Confined
<1> DEFINE Out == {x \in N : ~Leads(N, E, x, a)}
<1>1. \A x \in N : \A y \in E[x] : Leads(N, E, y, a) => Leads(N, E, x, a)
  BY DEF Leads
<1>2. \A x \in Out : E[x] \subseteq Out
  BY <1>1
<1>3. \A x \in K : x \in N /\ Leads(N, E, x, a) /\ Leads(N, E, a, x)
  BY DEF StrongPart
<1>4. \A x \in K : E[x] \subseteq K \cup Out
  <2> SUFFICES ASSUME NEW x \in K, NEW y \in E[x], Leads(N, E, y, a) PROVE y \in K
    BY <1>3
  <2>1. Leads(N, E, a, y)
    BY <1>3 DEF Leads
  <2> QED BY <2>1, <1>3 DEF StrongPart
<1>5. Leads(N, E, a, a) /\ a \in K /\ a \notin Out
  BY DEF Leads, StrongPart
<1>6. U = {}
  <2> SUFFICES ASSUME NEW u \in U PROVE FALSE
    OBVIOUS
  <2>1. \A x \in U \cup Out : E[x] \subseteq U \cup Out
    BY <1>2, <1>4
  <2>2. U \cup Out \in SUBSET N /\ u \in U \cup Out
    BY <1>3
  <2>3. a \in U \cup Out
    <3>1. Leads(N, E, u, a)
      BY <1>3
    <3> HIDE DEF Out
    <3> QED BY <3>1, <2>1, <2>2 DEF Leads
  <2> QED BY <2>3, <1>5
<1>7. a \notin E[a]
  BY <1>5, <1>6
<1>8. ASSUME NEW m \in K PROVE m = a
  <2>1. \A x \in {a} \cup Out : E[x] \subseteq {a} \cup Out
    BY <1>2, <1>4, <1>5, <1>6
  <2>2. {a} \cup Out \in SUBSET N /\ a \in {a} \cup Out
    OBVIOUS
  <2>3. m \in {a} \cup Out
    <3>1. Leads(N, E, a, m)
      BY <1>3
    <3> HIDE DEF Out
    <3> QED BY <3>1, <2>1, <2>2 DEF Leads
  <2> QED BY <2>3, <1>3
<1> QED
  BY <1>5, <1>7, <1>8

(* From the nodes of D the search cannot come back to a without crossing   *)
(* its own path P.                                                         *)
Dead(E, K, P, a, D) ==
  /\ D \subseteq K /\ D \cap P = {}
  /\ \A d \in D : a \notin E[d] /\ E[d] \cap K \subseteq D \cup P
DeadEnds(E, K, P, a) == UNION {D \in SUBSET K : Dead(E, K, P, a, D)}

LEMMA DeadEndsAreDead ==
  ASSUME NEW E, NEW K, NEW P, NEW a
  PROVE  Dead(E, K, P, a, DeadEnds(E, K, P, a))
BY DEF Dead, DeadEnds

(* The node n, whose edges were all tried in vain, is a dead end.          *)
LEMMA GivenUpIsDead ==
  ASSUME NEW E, NEW K, NEW P, NEW a, NEW n \in K, n \notin P, a \notin E[n],
         E[n] \cap K \subseteq P \cup {n} \cup DeadEnds(E, K, P \cup {n}, a)
  PROVE  n \in DeadEnds(E, K, P, a)
<1> DEFINE B == DeadEnds(E, K, P \cup {n}, a)
           D == {n} \cup B
<1>1. Dead(E, K, P \cup {n}, a, B)
  BY DeadEndsAreDead
<1> HIDE DEF B
<1>2. Dead(E, K, P, a, D)
  BY <1>1 DEF Dead, B
<1>3. D \in SUBSET K
  BY <1>2 DEF Dead
<1> QED
  BY <1>2, <1>3 DEF DeadEnds

(* The frames are a simple path from a in K, and every edge taken from one *)
(* leads to the next, or nowhere.                                          *)
Upto(c, i) == {c[j].node : j \in {h \in DOMAIN c : h <= i}}
Tried(E, K, a, c, i, m) ==
  /\ m # a
  /\ m \in K => \/ m \in Upto(c, i) \cup DeadEnds(E, K, Upto(c, i), a)
                \/ i < Len(c) /\ m = c[i + 1].node
Walk(N, E, K, a, c) ==
  /\ E \in [N -> SUBSET N] /\ K \subseteq N
  /\ c \in Seq(FrameSet(N)) /\ c # <<>> /\ c[1].node = a
  /\ \A i \in DOMAIN c : c[i].node \in K /\ c[i].rest \subseteq E[c[i].node]
  /\ \A i, j \in DOMAIN c : c[i].node = c[j].node => i = j
  /\ \A i \in DOMAIN c : i > 1 => c[i].node \in E[c[i - 1].node]
  /\ \A i \in DOMAIN c : \A m \in E[c[i].node] \ c[i].rest : Tried(E, K, a, c, i, m)

LEMMA WalkTook ==
  ASSUME NEW N, NEW E, NEW K, NEW a, NEW c, Walk(N, E, K, a, c),
         NEW w, w # a,
         NEW c2, c2 = Took(c, w)
  PROVE  /\ \A i \in DOMAIN c : Upto(c2, i) = Upto(c, i)
         /\ \A i \in DOMAIN c : \A m \in E[c2[i].node] \ c2[i].rest :
              (i = Len(c) /\ m = w) \/ Tried(E, K, a, c2, i, m)
         /\ w \notin K \ NodesIn(c) => Walk(N, E, K, a, c2)
<1> DEFINE d == Len(c)
<1>1. /\ E \in [N -> SUBSET N] /\ K \subseteq N
      /\ c \in Seq(FrameSet(N)) /\ c # <<>> /\ c[1].node = a
      /\ DOMAIN c = 1 .. d /\ d \in Nat /\ d > 0
  BY DEF Walk
<1>2. /\ c2 \in Seq(FrameSet(N)) /\ c2 # <<>> /\ Len(c2) = d /\ DOMAIN c2 = DOMAIN c
      /\ \A i \in DOMAIN c : c2[i].node = c[i].node
      /\ \A i \in DOMAIN c : i # d => c2[i].rest = c[i].rest
      /\ c2[d].rest = c[d].rest \ {w}
  BY <1>1, TookFrames
<1>3. \A i \in DOMAIN c : Upto(c2, i) = Upto(c, i)
  BY <1>2 DEF Upto
<1>4. ASSUME NEW i \in DOMAIN c, NEW m \in E[c2[i].node] \ c2[i].rest
      PROVE  (i = d /\ m = w) \/ Tried(E, K, a, c2, i, m)
  <2>1. (i = d /\ m = w) \/ m \in E[c[i].node] \ c[i].rest
    BY <1>2
  <2>2. ASSUME m \in E[c[i].node] \ c[i].rest PROVE Tried(E, K, a, c2, i, m)
    <3>1. Tried(E, K, a, c, i, m)
      BY <2>2 DEF Walk
    <3>2. i < Len(c) => c2[i + 1].node = c[i + 1].node
      <4>1. i < d => i + 1 \in DOMAIN c
        BY <1>1
      <4> QED BY <4>1, <1>2
    <3>3. Upto(c2, i) = Upto(c, i) /\ Len(c2) = Len(c)
      BY <1>2, <1>3
    <3> HIDE DEF d
    <3> QED BY <3>1, <3>2, <3>3 DEF Tried
  <2> QED BY <2>1, <2>2
<1>5. ASSUME w \notin K \ NodesIn(c) PROVE Walk(N, E, K, a, c2)
  <2>1. \A i \in DOMAIN c2 : c2[i].node \in K /\ c2[i].rest \subseteq E[c2[i].node]
    <3>1. \A i \in DOMAIN c : c[i].node \in K /\ c[i].rest \subseteq E[c[i].node]
      BY DEF Walk
    <3>2. \A i \in DOMAIN c : c2[i].rest \subseteq c[i].rest
      BY <1>2
    <3> QED BY <3>1, <3>2, <1>2
  <2>2. \A i, j \in DOMAIN c2 : c2[i].node = c2[j].node => i = j
    BY <1>2 DEF Walk
  <2>3. \A i \in DOMAIN c2 : i > 1 => c2[i].node \in E[c2[i - 1].node]
    <3>1. \A i \in DOMAIN c : i > 1 => i - 1 \in DOMAIN c
      BY <1>1
    <3> QED BY <3>1, <1>2 DEF Walk
  <2>4. Tried(E, K, a, c2, d, w)
    <3>1. d \in DOMAIN c
      BY <1>1
    <3>2. NodesIn(c) = Upto(c, d)
      <4>1. {h \in DOMAIN c : h <= d} = DOMAIN c
        BY <1>1
      <4> QED BY <4>1 DEF NodesIn, Upto
    <3>3. w \in K => w \in Upto(c2, d)
      BY <3>1, <3>2, <1>3, <1>5
    <3> HIDE DEF d
    <3> QED BY <3>3 DEF Tried
  <2>5. c2[1].node = a
    BY <1>1, <1>2
  <2>6. \A i \in DOMAIN c2 : \A m \in E[c2[i].node] \ c2[i].rest : Tried(E, K, a, c2, i, m)
    BY <2>4, <1>2, <1>4
  <2> QED BY <2>1, <2>2, <2>3, <2>5, <2>6, <1>1, <1>2 DEF Walk
<1> QED
  BY <1>3, <1>4, <1>5

(* An edge that leads nowhere new is left aside.                           *)
LEMMA WalkPass ==
  ASSUME NEW N, NEW E, NEW K, NEW a, NEW c, Walk(N, E, K, a, c),
         NEW w, w # a, w \notin K \ NodesIn(c)
  PROVE  Walk(N, E, K, a, Took(c, w))
BY WalkTook

LEMMA WalkEnter ==
  ASSUME NEW N, NEW E, NEW K, NEW a, NEW c, Walk(N, E, K, a, c),
         NEW w \in K, w \in Last(c).rest, w \notin NodesIn(c)
  PROVE  Walk(N, E, K, a, Pushed(E, Took(c, w), w))
<1> DEFINE d == Len(c)
           c2 == Took(c, w)
           c3 == Pushed(E, c2, w)
<1>1. /\ E \in [N -> SUBSET N] /\ K \subseteq N
      /\ c \in Seq(FrameSet(N)) /\ c # <<>> /\ c[1].node = a
      /\ DOMAIN c = 1 .. d /\ d \in Nat /\ d > 0 /\ Last(c) = c[d]
  BY DEF Walk, Last
<1>2. /\ c2 \in Seq(FrameSet(N)) /\ Len(c2) = d /\ DOMAIN c2 = DOMAIN c
      /\ \A i \in DOMAIN c : c2[i].node = c[i].node
      /\ \A i \in DOMAIN c : i # d => c2[i].rest = c[i].rest
      /\ c2[d].rest = c[d].rest \ {w}
  BY <1>1, TookFrames
<1> DEFINE fr == [node |-> w, rest |-> E[w]]
<1>3. fr \in FrameSet(N) /\ fr.node = w /\ fr.rest = E[w]
  BY <1>1 DEF FrameSet
<1> HIDE DEF c2, fr, d
<1>4. /\ c3 \in Seq(FrameSet(N)) /\ DOMAIN c3 = 1 .. d + 1 /\ Len(c3) = d + 1
      /\ c3[d + 1] = fr /\ \A i \in 1 .. d : c3[i] = c2[i]
  BY <1>1, <1>2, <1>3 DEF Pushed, fr
<1> HIDE DEF c3
<1>5. /\ \A i \in 1 .. d : c3[i].node = c[i].node /\ c3[i].rest \subseteq c[i].rest
      /\ c3[d + 1].node = w /\ c3[d + 1].rest = E[w]
  BY <1>1, <1>2, <1>3, <1>4
<1>6. 1 .. d + 1 = 1 .. d \cup {d + 1} /\ d + 1 \notin 1 .. d /\ 1 \in 1 .. d /\ d \in 1 .. d
  BY <1>1
<1>7. w # a /\ \A i \in 1 .. d : c[i].node # w
  BY <1>1, <1>6 DEF NodesIn
<1>8. \A i \in DOMAIN c3 : c3[i].node \in K /\ c3[i].rest \subseteq E[c3[i].node]
  <2>1. \A i \in DOMAIN c : c[i].node \in K /\ c[i].rest \subseteq E[c[i].node]
    BY DEF Walk
  <2> QED BY <2>1, <1>1, <1>4, <1>5, <1>6
<1>9. \A i, j \in DOMAIN c3 : c3[i].node = c3[j].node => i = j
  <2>1. \A i, j \in DOMAIN c : c[i].node = c[j].node => i = j
    BY DEF Walk
  <2> QED BY <2>1, <1>1, <1>4, <1>5, <1>6, <1>7
<1>10. \A i \in DOMAIN c3 : i > 1 => c3[i].node \in E[c3[i - 1].node]
  <2> SUFFICES ASSUME NEW i \in DOMAIN c3, i > 1 PROVE c3[i].node \in E[c3[i - 1].node]
    OBVIOUS
  <2>1. i - 1 \in 1 .. d /\ (i = d + 1 => i - 1 = d)
    BY <1>1, <1>4
  <2>2. CASE i \in 1 .. d
    BY <2>1, <2>2, <1>1, <1>5 DEF Walk
  <2>3. CASE i = d + 1
    <3>1. w \in E[c[d].node]
      BY <1>1, <1>6 DEF Walk
    <3> QED BY <3>1, <2>1, <2>3, <1>5
  <2> QED BY <2>2, <2>3, <1>4, <1>6
<1>11. \A i \in 1 .. d : Upto(c3, i) = Upto(c, i)
  <2> SUFFICES ASSUME NEW i \in 1 .. d PROVE Upto(c3, i) = Upto(c, i)
    OBVIOUS
  <2>1. {h \in DOMAIN c3 : h <= i} = {h \in DOMAIN c : h <= i}
    BY <1>1, <1>4
  <2>2. {h \in DOMAIN c : h <= i} \subseteq 1 .. d
    BY <1>1
  <2> QED BY <2>1, <2>2, <1>5 DEF Upto
<1>12. \A i \in DOMAIN c3 : \A m \in E[c3[i].node] \ c3[i].rest : Tried(E, K, a, c3, i, m)
  <2> SUFFICES ASSUME NEW i \in DOMAIN c3, NEW m \in E[c3[i].node] \ c3[i].rest
               PROVE  Tried(E, K, a, c3, i, m)
    OBVIOUS
  <2>1. i \in 1 .. d
    BY <1>4, <1>5, <1>6
  <2>2. (i = d /\ m = w) \/ Tried(E, K, a, c2, i, m)
    <3>1. \A j \in DOMAIN c : \A x \in E[c2[j].node] \ c2[j].rest :
            (j = d /\ x = w) \/ Tried(E, K, a, c2, j, x)
      BY <1>7, WalkTook DEF c2, d
    <3>2. m \in E[c2[i].node] \ c2[i].rest
      BY <2>1, <1>4
    <3> QED BY <3>1, <3>2, <2>1, <1>1
  <2>3. CASE i = d /\ m = w
    <3>1. i < Len(c3) /\ m = c3[i + 1].node
      BY <2>3, <1>1, <1>4, <1>5
    <3> QED BY <3>1, <2>3, <1>7 DEF Tried
  <2>4. CASE Tried(E, K, a, c2, i, m)
    <3>1. Upto(c2, i) = Upto(c, i)
      BY <2>1, <1>1, <1>7, WalkTook DEF c2
    <3>2. i < d => i + 1 \in 1 .. d
      BY <2>1, <1>1
    <3>3. i < d => c2[i + 1].node = c3[i + 1].node /\ i < Len(c3)
      BY <3>2, <1>1, <1>4
    <3>4. Upto(c3, i) = Upto(c2, i) /\ (i < Len(c2) => i < Len(c3) /\ c2[i + 1].node = c3[i + 1].node)
      BY <3>1, <3>3, <2>1, <1>2, <1>11
    <3> QED BY <3>4, <2>4 DEF Tried
  <2> QED BY <2>2, <2>3, <2>4
<1>13. c3 # <<>> /\ c3[1].node = a
  BY <1>1, <1>4, <1>5, <1>6
<1> QED
  BY <1>1, <1>4, <1>8, <1>9, <1>10, <1>12, <1>13 DEF Walk, c3, c2

(* What the frame on top has tried, when it has no edge left.              *)
LEMMA SpentTop ==
  ASSUME NEW N, NEW E, NEW K, NEW a, NEW c, Walk(N, E, K, a, c), IsSpent(c),
         NEW n, n = Last(c).node
  PROVE  /\ n \in K /\ a \notin E[n]
         /\ E[n] \cap K \subseteq Upto(c, Len(c)) \cup DeadEnds(E, K, Upto(c, Len(c)), a)
<1> DEFINE d == Len(c)
<1>1. /\ DOMAIN c = 1 .. d /\ d \in Nat /\ d > 0 /\ d \in DOMAIN c /\ n = c[d].node
  BY DEF Walk, Last
<1>2. c[d].rest = {}
  BY <1>1 DEF IsSpent, Last
<1> HIDE DEF d
<1>3. \A m \in E[n] : Tried(E, K, a, c, d, m)
  BY <1>1, <1>2 DEF Walk
<1>4. \A m \in E[n] : m # a /\ (m \in K => m \in Upto(c, d) \cup DeadEnds(E, K, Upto(c, d), a))
  BY <1>3, <1>1 DEF Tried, d
<1>5. n \in K
  BY <1>1 DEF Walk
<1> QED
  BY <1>4, <1>5 DEF d

LEMMA WalkBack ==
  ASSUME NEW N, NEW E, NEW K, NEW a, NEW c, Walk(N, E, K, a, c), IsSpent(c), Len(c) > 1
  PROVE  Walk(N, E, K, a, Front(c))
<1> DEFINE d == Len(c)
           c2 == Front(c)
           n == Last(c).node
<1>1. /\ E \in [N -> SUBSET N] /\ K \subseteq N
      /\ c \in Seq(FrameSet(N)) /\ c[1].node = a
      /\ DOMAIN c = 1 .. d /\ d \in Nat /\ d > 1 /\ n = c[d].node
  BY DEF Walk, Last
<1>2. /\ c2 \in Seq(FrameSet(N)) /\ DOMAIN c2 = 1 .. d - 1 /\ Len(c2) = d - 1
      /\ \A i \in 1 .. d - 1 : c2[i] = c[i]
  BY <1>1 DEF Front
<1>3. n \in K /\ a \notin E[n]
      /\ E[n] \cap K \subseteq Upto(c, d) \cup DeadEnds(E, K, Upto(c, d), a)
  BY SpentTop
<1> HIDE DEF c2, d, n
<1>4. 1 .. d = 1 .. d - 1 \cup {d} /\ d \notin 1 .. d - 1 /\ 1 \in 1 .. d - 1 /\ d - 1 \in 1 .. d - 1
  BY <1>1
<1>5. \A i \in 1 .. d - 1 : c[i].node # n
  BY <1>1, <1>4 DEF Walk
<1>6. \A i \in 1 .. d - 1 : Upto(c2, i) = Upto(c, i)
  <2> SUFFICES ASSUME NEW i \in 1 .. d - 1 PROVE Upto(c2, i) = Upto(c, i)
    OBVIOUS
  <2>1. {h \in DOMAIN c2 : h <= i} = {h \in DOMAIN c : h <= i}
    BY <1>1, <1>2
  <2>2. {h \in DOMAIN c : h <= i} \subseteq 1 .. d - 1
    BY <1>1
  <2> QED BY <2>1, <2>2, <1>2 DEF Upto
<1> DEFINE P == Upto(c, d - 1)
<1>7. Upto(c, d) = P \cup {n} /\ n \notin P
  <2>1. {h \in DOMAIN c : h <= d} = 1 .. d /\ {h \in DOMAIN c : h <= d - 1} = 1 .. d - 1
    BY <1>1
  <2>2. Upto(c, d) = {c[j].node : j \in 1 .. d} /\ P = {c[j].node : j \in 1 .. d - 1}
    BY <2>1 DEF Upto
  <2> HIDE DEF P
  <2> QED BY <2>2, <1>1, <1>4, <1>5
<1> HIDE DEF P
<1>8. n \in DeadEnds(E, K, P, a)
  BY <1>3, <1>7, GivenUpIsDead
<1>9. \A i \in 1 .. d - 1 : \A m \in E[c2[i].node] \ c2[i].rest : Tried(E, K, a, c2, i, m)
  <2> SUFFICES ASSUME NEW i \in 1 .. d - 1, NEW m \in E[c2[i].node] \ c2[i].rest
               PROVE  Tried(E, K, a, c2, i, m)
    OBVIOUS
  <2>1. Tried(E, K, a, c, i, m)
    BY <1>1, <1>2, <1>4 DEF Walk
  <2>2. CASE i = d - 1
    <3>1. i + 1 = d /\ Upto(c2, i) = P /\ Upto(c, i) = P
      BY <2>2, <1>1, <1>6 DEF P
    <3>2. m \in K => m \in P \cup DeadEnds(E, K, P, a) \/ m = n
      BY <2>1, <3>1, <1>1 DEF Tried
    <3> QED BY <2>1, <3>1, <3>2, <1>8 DEF Tried
  <2>3. CASE i # d - 1
    <3>1. i < d - 1 /\ i + 1 \in 1 .. d - 1
      BY <2>3, <1>1
    <3>2. c2[i + 1].node = c[i + 1].node /\ i < Len(c2) /\ Upto(c2, i) = Upto(c, i)
      BY <3>1, <1>2, <1>6
    <3> QED BY <2>1, <3>2 DEF Tried
  <2> QED BY <2>2, <2>3
<1>10. \A i \in 1 .. d - 1 : c[i].node \in K /\ c[i].rest \subseteq E[c[i].node]
  BY <1>1, <1>4 DEF Walk
<1>11. \A i, j \in 1 .. d - 1 : c[i].node = c[j].node => i = j
  BY <1>1, <1>4 DEF Walk
<1>12. \A i \in 1 .. d - 1 : i > 1 => i - 1 \in 1 .. d - 1 /\ c[i].node \in E[c[i - 1].node]
  <2>1. \A i \in 1 .. d - 1 : i > 1 => i - 1 \in 1 .. d - 1
    BY <1>1
  <2> QED BY <2>1, <1>1, <1>4 DEF Walk
<1>13. c2 # <<>> /\ c2[1].node = a
  BY <1>1, <1>2, <1>4
<1> QED
  BY <1>1, <1>2, <1>9, <1>10, <1>11, <1>12, <1>13 DEF Walk, c2

(* If the first frame has no edge left, its component is not on a cycle.   *)
LEMMA WalkEnds ==
  ASSUME NEW N, NEW E, NEW K, NEW a, NEW c, Walk(N, E, K, a, c), IsSpent(c), ~(Len(c) > 1),
         K = StrongPart(N, E, a)
  PROVE  K = {a} /\ a \notin E[a]
<1>1. Len(c) = 1 /\ DOMAIN c = {1} /\ Last(c).node = a /\ E \in [N -> SUBSET N] /\ K \subseteq N
  <2>1. c \in Seq(FrameSet(N)) /\ c # <<>> /\ c[1].node = a /\ E \in [N -> SUBSET N] /\ K \subseteq N
    BY DEF Walk
  <2>2. Len(c) = 1
    <3>1. Len(c) \in Nat /\ Len(c) # 0
      BY <2>1
    <3>2. \A d \in Nat : d # 0 /\ ~(d > 1) => d = 1
      OBVIOUS
    <3> QED BY <3>1, <3>2
  <2> QED BY <2>1, <2>2 DEF Last
<1> DEFINE U == DeadEnds(E, K, {a}, a)
<1>2. Upto(c, Len(c)) = {a}
  BY <1>1 DEF Upto, Walk
<1>3. a \in K /\ a \notin E[a] /\ E[a] \cap K \subseteq {a} \cup U
  <2> DEFINE n == Last(c).node
  <2>1. n \in K /\ a \notin E[n]
        /\ E[n] \cap K \subseteq Upto(c, Len(c)) \cup DeadEnds(E, K, Upto(c, Len(c)), a)
    BY SpentTop
  <2> QED BY <2>1, <1>1, <1>2
<1>4. Dead(E, K, {a}, a, U)
  BY DeadEndsAreDead
<1> HIDE DEF U
<1>5. U \subseteq K \ {a} /\ \A x \in U \cup {a} : E[x] \cap K \subseteq U
  BY <1>3, <1>4 DEF Dead
<1>6. a \in N
  BY <1>1, <1>3
<1>7. Confined(N, E, K, a, U)
  BY <1>1, <1>5, <1>6 DEF Confined
<1> QED
  BY <1>7, NoWayBack

LEMMA WalkBegins ==
  ASSUME NEW N, NEW E \in [N -> SUBSET N], NEW K, K \subseteq N, NEW a \in K
  PROVE  Walk(N, E, K, a, <<[node |-> a, rest |-> E[a]]>>)
<1> DEFINE fr == [node |-> a, rest |-> E[a]]
           c == <<fr>>
<1>1. fr \in FrameSet(N) /\ fr.node = a /\ fr.rest = E[a]
  BY DEF FrameSet
<1> HIDE DEF fr
<1>2. c \in Seq(FrameSet(N)) /\ c # <<>> /\ DOMAIN c = {1} /\ c[1] = fr
  BY <1>1
<1> HIDE DEF c
<1>3. \A i \in DOMAIN c : ~(i > 1)
  BY <1>2
<1> QED
  BY <1>1, <1>2, <1>3 DEF Walk, c, fr

-----------------------------------------------------------------------------
(* The chains that CycleSearch finds *)

CyclicKnots == {k \in knots : IsCyclic(k)}
LeftAreCyclic == left \subseteq CyclicKnots
PathIsWalk == path # <<>> => \E k \in left : Walk(Nodes, EdgeMap, k, Min(k), path)
CyclicAreServed ==
  pc # "components" =>
    \A k \in CyclicKnots : k \in left \/ \E c \in chains : c # <<>> /\ c[1] = Min(k)
ChainsAreSound ==
  \A c \in chains :
    /\ c \in Seq(Nodes) /\ c # <<>> /\ IsCycle(c)
    /\ \E k \in CyclicKnots \ left : ToSet(c) \subseteq k /\ c[1] = Min(k)
PhasesAreInOrder ==
  /\ pc \in {"components", "chains", "done"}
  /\ pc = "components" => left = {} /\ path = <<>> /\ chains = {}
  /\ pc = "done" => left = {} /\ path = <<>>

ChainInv ==
  LeftAreCyclic /\ PathIsWalk /\ CyclicAreServed /\ ChainsAreSound /\ PhasesAreInOrder

LEMMA KnotFacts ==
  ASSUME ComponentInv, NEW k \in knots
  PROVE  /\ k \subseteq Nodes /\ k # {} /\ Min(k) \in k /\ \A n \in k : Min(k) <= n
         /\ \A n \in k : k = StrongPart(Nodes, EdgeMap, n)
         /\ \A l \in knots : l \cap k # {} => l = k
<1>1. k \subseteq Nodes /\ k # {} /\ \A n \in k : k = StrongPart(Nodes, EdgeMap, n)
  BY DEF ComponentInv, KnotsAreParts
<1>2. k \subseteq Nat
  BY <1>1, GraphFacts DEF ComponentInv
<1>3. Min(k) \in k /\ \A n \in k : Min(k) <= n
  BY <1>1, <1>2, MinIsIn
<1>4. \A l \in knots : \A n \in l : l = StrongPart(Nodes, EdgeMap, n)
  BY DEF ComponentInv, KnotsAreParts
<1> QED
  BY <1>1, <1>3, <1>4

(* The path stays in the knot that Knot names.                             *)
LEMMA PathFacts ==
  ASSUME ComponentInv, ChainInv, path # <<>>
  PROVE  /\ Knot \in left /\ Knot \in knots /\ Start = Min(Knot)
         /\ Walk(Nodes, EdgeMap, Knot, Min(Knot), path)
         /\ OnPath = NodesIn(path)
         /\ pc = "chains"
<1>1. left \subseteq knots
  BY DEF ChainInv, LeftAreCyclic, CyclicKnots
<1>2. PICK k \in left : Walk(Nodes, EdgeMap, k, Min(k), path)
  BY DEF ChainInv, PathIsWalk
<1>3. Start = Min(k) /\ Start \in k
  BY <1>1, <1>2, KnotFacts DEF Walk, Start
<1>4. \A l \in left : Start \in l => l = k
  BY <1>1, <1>3, KnotFacts
<1>5. Knot = k
  BY <1>3, <1>4 DEF Knot
<1>6. OnPath = NodesIn(path)
  <2>1. DOMAIN NodesOf(path) = DOMAIN path /\ \A i \in DOMAIN path : NodesOf(path)[i] = path[i].node
    BY DEF NodesOf
  <2> QED BY <2>1 DEF OnPath, ToSet, NodesIn
<1>7. pc = "chains"
  BY DEF ChainInv, PhasesAreInOrder
<1> QED
  BY <1>1, <1>2, <1>3, <1>5, <1>6, <1>7

LEMMA NextStepIsEdge ==
  ASSUME ComponentInv, ChainInv, path # <<>>, Last(path).rest # {}
  PROVE  /\ NextEdge(path) \in Last(path).rest
         /\ Taken(path) = Took(path, NextEdge(path))
<1>1. path \in Seq(FrameSet(Nodes))
  BY PathFacts DEF Walk
<1>2. Last(path).rest \subseteq Nodes
  <2>1. Last(path) \in FrameSet(Nodes)
    BY <1>1 DEF Last
  <2> QED BY <2>1 DEF FrameSet
<1>3. NextEdge(path) \in Last(path).rest
  BY <1>2, FirstIsIn DEF NextEdge, Top, ComponentInv
<1> QED
  BY <1>3 DEF Taken, Took

(* The path that is closed is a chain as the rules expect it.              *)
LEMMA ClosedPathIsCycle ==
  ASSUME ComponentInv, ChainInv, path # <<>>, Start \in Last(path).rest,
         NEW c, c = NodesOf(path)
  PROVE  /\ c \in Seq(Nodes) /\ c # <<>> /\ IsCycle(c)
         /\ ToSet(c) \subseteq Knot /\ c[1] = Min(Knot)
<1> DEFINE d == Len(path)
<1>1. Walk(Nodes, EdgeMap, Knot, Min(Knot), path) /\ Knot \in knots /\ Start = Min(Knot)
  BY PathFacts
<1>2. /\ Knot \subseteq Nodes /\ path \in Seq(FrameSet(Nodes)) /\ path[1].node = Start
      /\ DOMAIN path = 1 .. d /\ d \in Nat /\ d > 0 /\ Last(path) = path[d]
  BY <1>1 DEF Walk, Last
<1>3. DOMAIN c = 1 .. d /\ c = [i \in 1 .. d |-> c[i]] /\ \A i \in 1 .. d : c[i] = path[i].node
  BY <1>2 DEF NodesOf
<1>4. \A i \in 1 .. d : c[i] \in Knot /\ path[i].rest \subseteq EdgeMap[c[i]]
  BY <1>1, <1>2, <1>3 DEF Walk
<1> HIDE DEF d
<1>5. c \in Seq(Nodes) /\ Len(c) = d /\ c # <<>>
  <2>1. c \in [1 .. d -> Nodes]
    BY <1>2, <1>3, <1>4
  <2> QED BY <2>1, <1>2
<1>6. \A i, j \in DOMAIN c : c[i] = c[j] => i = j
  BY <1>1, <1>2, <1>3 DEF Walk
<1>7. \A i \in DOMAIN c : c[1] <= c[i]
  BY <1>1, <1>2, <1>3, <1>4, KnotFacts
<1>8. \A i \in DOMAIN c : Follower(c, i) \in Edges(c[i])
  <2> SUFFICES ASSUME NEW i \in 1 .. d PROVE Follower(c, i) \in EdgeMap[c[i]]
    BY <1>2, <1>3, <1>4 DEF EdgeMap
  <2>1. CASE i = d
    <3>1. Follower(c, i) = Start
      BY <2>1, <1>2, <1>3, <1>5 DEF Follower
    <3> QED BY <3>1, <2>1, <1>2, <1>4
  <2>2. CASE i # d
    <3>1. i + 1 \in 1 .. d /\ i + 1 > 1 /\ (i + 1) - 1 = i
      BY <2>2, <1>2
    <3>2. path[i + 1].node \in EdgeMap[path[(i + 1) - 1].node]
      BY <3>1, <1>1, <1>2 DEF Walk
    <3>3. Follower(c, i) = c[i + 1]
      BY <2>2, <1>5 DEF Follower
    <3> QED BY <3>1, <3>2, <3>3, <1>3
  <2> QED BY <2>1, <2>2
<1>9. ToSet(c) \subseteq Knot
  BY <1>3, <1>4 DEF ToSet
<1>10. c[1] = Min(Knot)
  BY <1>1, <1>2, <1>3
<1> QED
  BY <1>5, <1>6, <1>7, <1>8, <1>9, <1>10 DEF IsCycle

(* A cyclic component is never given up.                                   *)
LEMMA NeverGivenUp ==
  ASSUME ComponentInv, ChainInv, path # <<>>, Last(path).rest = {}
  PROVE  Len(path) > 1
<1> SUFFICES ASSUME ~(Len(path) > 1) PROVE FALSE
  OBVIOUS
<1> DEFINE a == Min(Knot)
<1>1. Walk(Nodes, EdgeMap, Knot, a, path) /\ Knot \in left /\ Knot \in knots
  BY PathFacts
<1>2. a \in Knot /\ Knot = StrongPart(Nodes, EdgeMap, a) /\ a \in Nodes
  BY <1>1, KnotFacts
<1>3. IsSpent(path)
  BY DEF IsSpent
<1>4. Knot = {a} /\ a \notin EdgeMap[a]
  BY <1>1, <1>2, <1>3, WalkEnds
<1>5. IsCyclic(Knot)
  BY <1>1 DEF ChainInv, LeftAreCyclic, CyclicKnots
<1>6. a \notin Edges(a)
  BY <1>2, <1>4 DEF EdgeMap
<1> HIDE DEF a
<1>7. Cardinality(Knot) = 1
  BY <1>4, FS_Singleton
<1> QED
  BY <1>4, <1>5, <1>6, <1>7 DEF IsCyclic

LEMMA StepsKeepChains ==
  ComponentInv /\ ChainInv /\ [Next]_vars => ChainInv'
<1> SUFFICES ASSUME ComponentInv, ChainInv, [Next]_vars PROVE ChainInv'
  OBVIOUS
<1>0. graph' = graph /\ Nodes' = Nodes /\ EdgeMap' = EdgeMap
  <2>1. graph' = graph
    BY DEF Next, vars, StartRoot, Descend, LookBack, LookAside, Return, ComponentsFound,
           Begin, Close, Enter, Pass, Back, ChainsFound, Meet
  <2> QED BY <2>1 DEF Nodes, EdgeMap, Edges, Use
<1>1. /\ \A k : IsCyclic(k)' = IsCyclic(k)
      /\ \A c : IsCycle(c)' = IsCycle(c)
  BY <1>0 DEF IsCyclic, IsCycle, Edges, Use, Follower, Nodes
<1>2. knots' = knots => CyclicKnots' = CyclicKnots
  BY <1>1 DEF CyclicKnots
<1>3. ASSUME pc = "components", UNCHANGED <<pc, walk>> PROVE ChainInv'
  <2>1. left = {} /\ path = <<>> /\ chains = {}
    BY <1>3 DEF ChainInv, PhasesAreInOrder
  <2> QED BY <2>1, <1>3 DEF walk, ChainInv, LeftAreCyclic, PathIsWalk, CyclicAreServed,
                            ChainsAreSound, PhasesAreInOrder
<1>4. CASE StartRoot \/ Descend \/ LookBack \/ LookAside \/ Return
  BY <1>3, <1>4 DEF StartRoot, Descend, Meet, LookBack, LookAside, TakeEdge, Return
<1>5. CASE ComponentsFound
  <2>1. /\ pc = "components" /\ left' = CyclicKnots /\ pc' = "chains"
        /\ knots' = knots /\ path' = path /\ chains' = chains
    BY <1>5 DEF ComponentsFound, CyclicKnots, search
  <2>2. path = <<>> /\ chains = {}
    BY <2>1 DEF ChainInv, PhasesAreInOrder
  <2> QED BY <2>1, <2>2, <1>2 DEF ChainInv, LeftAreCyclic, PathIsWalk, CyclicAreServed,
                                  ChainsAreSound, PhasesAreInOrder
(* While chains are looked for, nothing changes but left, path and chains. *)
<1>6. ASSUME pc = "chains", pc' = "chains", knots' = knots, left' = left, chains' = chains,
             path' # <<>> => \E k \in left : Walk(Nodes, EdgeMap, k, Min(k), path')
      PROVE  ChainInv'
  <2>1. LeftAreCyclic' /\ CyclicAreServed' /\ PhasesAreInOrder'
    BY <1>2, <1>6 DEF ChainInv, LeftAreCyclic, CyclicAreServed, PhasesAreInOrder
  <2>2. ChainsAreSound'
    BY <1>0, <1>1, <1>2, <1>6 DEF ChainInv, ChainsAreSound
  <2>3. PathIsWalk'
    BY <1>0, <1>6 DEF PathIsWalk
  <2> QED BY <2>1, <2>2, <2>3 DEF ChainInv
<1>7. CASE Begin
  <2> DEFINE firsts == {Min(k) : k \in left}
             a == Min(firsts)
  <2>1. left \subseteq knots /\ left # {}
    BY <1>7 DEF Begin, ChainInv, LeftAreCyclic, CyclicKnots
  <2>2. firsts \subseteq Nat /\ firsts # {}
    BY <2>1, KnotFacts, GraphFacts DEF ComponentInv
  <2>3. a \in firsts
    BY <2>2, MinIsIn
  <2>4. PICK k \in left : a = Min(k)
    BY <2>3
  <2>5. a \in k /\ k \subseteq Nodes
    BY <2>1, <2>4, KnotFacts
  <2>6. path' = <<[node |-> a, rest |-> EdgeMap[a]]>>
    BY <2>5, <1>7 DEF Begin, Frame, EdgeMap
  <2> HIDE DEF a
  <2>7. Walk(Nodes, EdgeMap, k, a, path')
    BY <2>5, <2>6, WalkBegins, GraphFacts DEF ComponentInv
  <2> QED BY <2>4, <2>7, <1>6, <1>7 DEF Begin, search
<1>8. CASE Enter \/ Pass
  <2> DEFINE w == NextEdge(path)
  <2>1. path # <<>> /\ Last(path).rest # {} /\ pc = "chains"
    BY <1>8 DEF Enter, Pass, TakeStep, Top
  <2>2. /\ Knot \in left /\ Knot \in knots /\ Start = Min(Knot)
        /\ Walk(Nodes, EdgeMap, Knot, Min(Knot), path)
        /\ OnPath = NodesIn(path)
    BY <2>1, PathFacts
  <2>3. w \in Last(path).rest /\ Taken(path) = Took(path, w)
    BY <2>1, NextStepIsEdge
  <2>4. Start \in OnPath
    <3>1. path \in Seq(FrameSet(Nodes))
      BY <2>2 DEF Walk
    <3>2. 1 \in DOMAIN path
      BY <3>1, <2>1
    <3> QED BY <3>2, <2>2 DEF NodesIn, Start
  <2> HIDE DEF w
  <2>5. CASE Enter
    <3>1. w \in Knot /\ w \notin NodesIn(path) /\ path' = Append(Took(path, w), Frame(w))
      BY <2>2, <2>3, <2>5 DEF Enter, w
    <3>2. w \in Nodes
      BY <3>1, <2>2, KnotFacts
    <3>3. path' = Pushed(EdgeMap, Took(path, w), w)
      BY <3>1, <3>2 DEF Pushed, Frame, EdgeMap
    <3>4. Walk(Nodes, EdgeMap, Knot, Min(Knot), path')
      BY <3>1, <3>3, <2>2, <2>3, WalkEnter
    <3> QED BY <3>4, <2>1, <2>2, <2>5, <1>6 DEF Enter, search
  <2>6. CASE Pass
    <3>1. w # Start /\ w \notin Knot \ OnPath /\ path' = Took(path, w)
      BY <2>3, <2>6 DEF Pass, w
    <3>2. Walk(Nodes, EdgeMap, Knot, Min(Knot), path')
      BY <3>1, <2>2, <2>3, WalkPass
    <3> QED BY <3>2, <2>1, <2>2, <2>6, <1>6 DEF Pass, search
  <2> QED BY <2>5, <2>6, <1>8
<1>9. CASE Back
  <2>1. path # <<>> /\ Last(path).rest = {} /\ pc = "chains" /\ pc' = "chains" /\ knots' = knots
    BY <1>9 DEF Back, Top, search
  <2>2. Len(path) > 1
    BY <2>1, NeverGivenUp
  <2>3. path' = Front(path) /\ left' = left /\ chains' = chains
    BY <2>2, <1>9 DEF Back
  <2>4. Walk(Nodes, EdgeMap, Knot, Min(Knot), path) /\ Knot \in left
    BY <2>1, PathFacts
  <2>5. Walk(Nodes, EdgeMap, Knot, Min(Knot), path')
    BY <2>1, <2>2, <2>3, <2>4, WalkBack DEF IsSpent
  <2> QED BY <2>1, <2>3, <2>4, <2>5, <1>6
<1>10. CASE Close
  <2> DEFINE c == NodesOf(path)
             k == Knot
  <2>1. /\ path # <<>> /\ Last(path).rest # {} /\ pc = "chains" /\ NextEdge(path) = Start
        /\ left' = left \ {k} /\ chains' = chains \cup {c} /\ path' = <<>>
        /\ pc' = pc /\ knots' = knots
    BY <1>10 DEF Close, TakeStep, Top, Settle, search
  <2>2. Start \in Last(path).rest
    BY <2>1, NextStepIsEdge
  <2>3. /\ c \in Seq(Nodes) /\ c # <<>> /\ IsCycle(c)
        /\ ToSet(c) \subseteq k /\ c[1] = Min(k)
    BY <2>1, <2>2, ClosedPathIsCycle
  <2>4. k \in left /\ k \in CyclicKnots
    BY <2>1, PathFacts DEF ChainInv, LeftAreCyclic
  <2> HIDE DEF c, k
  <2>5. LeftAreCyclic' /\ PathIsWalk' /\ PhasesAreInOrder'
    BY <2>1, <1>2 DEF ChainInv, LeftAreCyclic, PathIsWalk, PhasesAreInOrder
  <2>6. CyclicAreServed'
    BY <2>1, <2>3, <1>2 DEF ChainInv, CyclicAreServed
  <2>7. ChainsAreSound'
    <3> SUFFICES ASSUME NEW d \in chains'
                 PROVE  /\ d \in Seq(Nodes) /\ d # <<>> /\ IsCycle(d)
                        /\ \E l \in CyclicKnots \ left' : ToSet(d) \subseteq l /\ d[1] = Min(l)
      BY <2>1, <1>0, <1>1, <1>2 DEF ChainsAreSound
    <3>1. CASE d = c
      BY <3>1, <2>1, <2>3, <2>4
    <3>2. CASE d \in chains
      BY <3>2, <2>1 DEF ChainInv, ChainsAreSound
    <3> QED BY <3>1, <3>2, <2>1
  <2> QED BY <2>5, <2>6, <2>7 DEF ChainInv
<1>11. CASE ChainsFound
  <2>1. /\ pc = "chains" /\ path = <<>> /\ left = {} /\ pc' = "done"
        /\ knots' = knots /\ left' = left /\ path' = path /\ chains' = chains
    BY <1>11 DEF ChainsFound, search, walk
  <2>2. LeftAreCyclic' /\ CyclicAreServed' /\ PhasesAreInOrder' /\ PathIsWalk'
    BY <2>1, <1>2 DEF ChainInv, LeftAreCyclic, CyclicAreServed, PhasesAreInOrder, PathIsWalk
  <2>3. ChainsAreSound'
    BY <1>0, <1>1, <1>2, <2>1 DEF ChainInv, ChainsAreSound
  <2> QED BY <2>2, <2>3 DEF ChainInv
<1>12. CASE UNCHANGED vars
  <2>1. /\ pc' = pc /\ knots' = knots /\ left' = left /\ path' = path /\ chains' = chains
    BY <1>12 DEF vars
  <2>2. LeftAreCyclic' /\ CyclicAreServed' /\ PhasesAreInOrder' /\ PathIsWalk'
    BY <2>1, <1>0, <1>2 DEF ChainInv, LeftAreCyclic, CyclicAreServed, PhasesAreInOrder, PathIsWalk
  <2>3. ChainsAreSound'
    BY <1>0, <1>1, <1>2, <2>1 DEF ChainInv, ChainsAreSound
  <2> QED BY <2>2, <2>3 DEF ChainInv
<1> QED
  BY <1>4, <1>5, <1>7, <1>8, <1>9, <1>10, <1>11, <1>12 DEF Next

LEMMA InitChains == Init => ChainInv
BY DEF Init, ChainInv, LeftAreCyclic, PathIsWalk, CyclicAreServed, ChainsAreSound,
       PhasesAreInOrder, CyclicKnots

(* The invariant of both searches.                                         *)
LEMMA SearchInv == Spec => [](ComponentInv /\ ChainInv)
<1>1. Init => ComponentInv /\ ChainInv
  BY InitLinked, InitChains
<1>2. ComponentInv /\ ChainInv /\ [Next]_vars => ComponentInv' /\ ChainInv'
  BY StepsKeepLinked, StepsKeepChains
<1> QED
  BY <1>1, <1>2, PTL DEF Spec

(* What either search hands to the rules as a chain is a simple cycle of   *)
(* real edges, told from its first member: no file is accused by mistake.  *)
THEOREM ChainsAreReal == Spec => []ChainsAreCycles
<1>1. ChainInv => ChainsAreCycles
  BY DEF ChainInv, ChainsAreSound, ChainsAreCycles
<1> QED
  BY <1>1, SearchInv, PTL

-----------------------------------------------------------------------------
(* One chain for each component on a cycle *)

LEMMA ReachesIsLeads ==
  ASSUME NEW x \in Nodes, NEW y \in Nodes
  PROVE  Reaches(x, y) <=> Leads(Nodes, EdgeMap, x, y)
BY DEF Reaches, Leads, EdgeMap

(* A component is cyclic as the code tells it exactly when one of its      *)
(* nodes is on a cycle.                                                    *)
LEMMA CyclicMeansOnCycle ==
  ASSUME ComponentInv, NEW k \in knots
  PROVE  IsCyclic(k) <=> \E n \in k : OnCycle(n)
<1>1. /\ k \subseteq Nodes /\ k # {} /\ \A n \in k : k = StrongPart(Nodes, EdgeMap, n)
      /\ EdgeMap \in [Nodes -> SUBSET Nodes] /\ graph.size \in Nat
  BY KnotFacts, GraphFacts DEF ComponentInv
<1>2. \A n \in Nodes : EdgeMap[n] = Edges(n)
  BY DEF EdgeMap
<1>3. IsFiniteSet(k)
  <2>1. IsFiniteSet(Nodes)
    BY <1>1, FS_Interval DEF Nodes
  <2> QED BY <2>1, <1>1, FS_Subset
<1>4. ASSUME NEW n \in k, n \in Edges(n) PROVE OnCycle(n)
  <2>1. Reaches(n, n)
    BY DEF Reaches
  <2> QED BY <2>1, <1>4 DEF OnCycle
<1>5. ASSUME NEW a \in k, NEW b \in k, a # b PROVE OnCycle(a)
  <2> SUFFICES ASSUME \A m \in EdgeMap[a] : ~Leads(Nodes, EdgeMap, m, a) PROVE FALSE
    BY <1>1, <1>2, ReachesIsLeads DEF OnCycle
  <2> DEFINE S == {a} \cup {x \in Nodes : ~Leads(Nodes, EdgeMap, x, a)}
  <2>1. a \in Nodes /\ b \in Nodes /\ Leads(Nodes, EdgeMap, a, b) /\ Leads(Nodes, EdgeMap, b, a)
    BY <1>1 DEF StrongPart
  <2>2. \A x \in Nodes : \A y \in EdgeMap[x] :
          Leads(Nodes, EdgeMap, y, a) => Leads(Nodes, EdgeMap, x, a)
    BY DEF Leads
  <2>3. \A x \in S : EdgeMap[x] \subseteq S
    BY <2>1, <2>2, <1>1
  <2>4. S \in SUBSET Nodes /\ a \in S
    BY <2>1
  <2>5. b \in S
    <3> HIDE DEF S
    <3> QED BY <2>1, <2>3, <2>4 DEF Leads
  <2> QED BY <2>1, <2>5, <1>5
<1>6. ASSUME Cardinality(k) > 1 PROVE \E n \in k : OnCycle(n)
  <2>1. PICK a \in k : TRUE
    BY <1>1
  <2>2. k # {a}
    BY <1>6, FS_Singleton
  <2>3. PICK b \in k : a # b
    BY <2>2
  <2> QED BY <2>3, <1>5
<1>7. ASSUME NEW n \in k, OnCycle(n), Cardinality(k) <= 1 PROVE n \in Edges(n)
  <2>1. PICK m \in Edges(n) : Reaches(m, n)
    BY <1>7 DEF OnCycle
  <2>2. n \in Nodes /\ m \in Nodes
    BY <1>1, <1>2
  <2>3. Leads(Nodes, EdgeMap, m, n) /\ Leads(Nodes, EdgeMap, n, m)
    <3>1. Leads(Nodes, EdgeMap, m, n)
      BY <2>1, <2>2, ReachesIsLeads
    <3>2. m \in EdgeMap[n]
      BY <2>1, <2>2, <1>2
    <3>3. Leads(Nodes, EdgeMap, n, m)
      BY <3>2 DEF Leads
    <3> QED BY <3>1, <3>3
  <2>4. m \in k
    BY <2>2, <2>3, <1>1 DEF StrongPart
  <2>5. m = n
    <3> SUFFICES ASSUME m # n PROVE FALSE
      OBVIOUS
    <3>1. IsFiniteSet({n}) /\ Cardinality({n}) = 1
      BY FS_Singleton
    <3>2. IsFiniteSet({n} \cup {m}) /\ Cardinality({n} \cup {m}) = 2
      BY <3>1, FS_AddElement
    <3>3. {n} \cup {m} \subseteq k
      BY <2>4
    <3>4. Cardinality({n} \cup {m}) <= Cardinality(k) /\ Cardinality(k) \in Nat
      BY <3>3, <1>3, FS_Subset, FS_CardinalityType
    <3> QED BY <3>2, <3>4, <1>7
  <2> QED BY <2>1, <2>5
<1>8. Cardinality(k) \in Nat
  BY <1>3, FS_CardinalityType
<1>9. ASSUME NEW n \in k, OnCycle(n) PROVE IsCyclic(k)
  <2>1. CASE Cardinality(k) > 1
    BY <2>1 DEF IsCyclic
  <2>2. CASE Cardinality(k) <= 1
    BY <2>2, <1>7, <1>9 DEF IsCyclic
  <2> QED BY <2>1, <2>2, <1>8
<1> QED
  BY <1>4, <1>6, <1>9 DEF IsCyclic

(* The rules report each cycle once: the search from the first member of a *)
(* cyclic component comes back to it whatever order its edges are in, and  *)
(* circular-dependency and circular-di find nothing elsewhere.             *)
THEOREM OneChainEach == Spec => []OneChainPerKnot
<1>1. ComponentInv /\ ChainInv => OneChainPerKnot
  <2> SUFFICES ASSUME ComponentInv, ChainInv, pc = "done", NEW k \in Components
               PROVE  {c[1] : c \in {d \in chains : ToSet(d) \cap k # {}}} =
                        IF \E n \in k : OnCycle(n) THEN {Min(k)} ELSE {}
    BY DEF OneChainPerKnot
  <2> DEFINE C == {d \in chains : ToSet(d) \cap k # {}}
  <2>1. k \in knots
    BY KnotsAreComponents DEF ComponentsAreRight
  <2>2. left = {}
    BY DEF ChainInv, PhasesAreInOrder
  <2>3. \A c \in chains : /\ c \in Seq(Nodes) /\ c # <<>>
                          /\ \E l \in CyclicKnots : ToSet(c) \subseteq l /\ c[1] = Min(l)
    BY DEF ChainInv, ChainsAreSound
  <2>4. \A c \in C : IsCyclic(k) /\ c[1] = Min(k)
    <3> SUFFICES ASSUME NEW c \in C PROVE IsCyclic(k) /\ c[1] = Min(k)
      OBVIOUS
    <3>1. PICK l \in CyclicKnots : ToSet(c) \subseteq l /\ c[1] = Min(l)
      BY <2>3
    <3>2. l \in knots /\ IsCyclic(l) /\ l \cap k # {}
      BY <3>1 DEF CyclicKnots
    <3>3. l = k
      BY <3>2, <2>1, KnotFacts
    <3> QED BY <3>1, <3>2, <3>3
  <2>5. ASSUME IsCyclic(k) PROVE \E c \in C : c[1] = Min(k)
    <3>1. PICK c \in chains : c # <<>> /\ c[1] = Min(k)
      BY <2>1, <2>2, <2>5 DEF ChainInv, CyclicAreServed, CyclicKnots
    <3>2. c[1] \in ToSet(c)
      <4>1. c \in Seq(Nodes)
        BY <2>3
      <4>2. 1 \in DOMAIN c
        BY <4>1, <3>1
      <4> QED BY <4>2 DEF ToSet
    <3>3. Min(k) \in k
      BY <2>1, KnotFacts
    <3> QED BY <3>1, <3>2, <3>3
  <2>6. IsCyclic(k) <=> \E n \in k : OnCycle(n)
    BY <2>1, CyclicMeansOnCycle
  <2> HIDE DEF C
  <2>7. {c[1] : c \in C} = IF \E n \in k : OnCycle(n) THEN {Min(k)} ELSE {}
    <3>1. CASE IsCyclic(k)
      BY <3>1, <2>4, <2>5, <2>6
    <3>2. CASE ~IsCyclic(k)
      BY <3>2, <2>4, <2>6
    <3> QED BY <3>1, <3>2
  <2> QED BY <2>7 DEF C
<1> QED
  BY <1>1, SearchInv, PTL

(* Both together: the chains the rules report are real cycles, one for     *)
(* each component that has a cycle, told from its first member.            *)
THEOREM ChainsRight == Spec => []ChainsAreRight
<1>1. ChainsAreCycles /\ OneChainPerKnot => ChainsAreRight
  BY DEF ChainsAreRight
<1> QED
  BY <1>1, ChainsAreReal, OneChainEach, PTL

(* missing-forward-ref (nest/missing-forward-ref.ts) names the injection   *)
(* that closes a cycle of plain ones: Nest fails at boot on each it names. *)
THEOREM BootFailures == Spec => []BootFailureIsReal
<1>1. ComponentInv /\ ChainInv => BootFailureIsReal
  <2> SUFFICES ASSUME ComponentInv, ChainInv, graph.kind = "providers",
                      NEW c \in chains, ~HasForwardRef(c)
               PROVE  /\ c[1] \in PlainEdges(Last(c))
                      /\ \A S \in SUBSET Nodes :
                           c[1] \in S /\ (\A k \in S : PlainEdges(k) \subseteq S) => Last(c) \in S
    BY DEF BootFailureIsReal, MissingForwardRef
  <2> DEFINE d == Len(c)
  <2>1. c \in Seq(Nodes) /\ c # <<>> /\ IsCycle(c)
    BY DEF ChainInv, ChainsAreSound
  <2>2. /\ DOMAIN c = 1 .. d /\ d \in Nat /\ d > 0 /\ d \in 1 .. d /\ Last(c) = c[d]
        /\ \A i \in 1 .. d : c[i] \in Nodes
    BY <2>1 DEF Last
  <2>3. \A n, m \in Nodes : Use(n, m) \in {"none", "plain", "deferred"}
    <3>1. IsGraph(graph)
      BY GraphFacts DEF ComponentInv
    <3>2. /\ graph.name \in [1 .. graph.size -> Range(graph.name)]
          /\ graph.use \in [1 .. graph.size -> [Range(graph.name) -> {"none", "plain", "deferred"}]]
      BY <3>1 DEF IsGraph, Graph
    <3> QED BY <3>2 DEF Use, Nodes
  <2>4. \A i \in 1 .. d : Follower(c, i) \in PlainEdges(c[i])
    <3> SUFFICES ASSUME NEW i \in 1 .. d PROVE Follower(c, i) \in PlainEdges(c[i])
      OBVIOUS
    <3>1. Follower(c, i) \in Edges(c[i])
      BY <2>1, <2>2 DEF IsCycle
    <3>2. Follower(c, i) \in Nodes /\ Use(c[i], Follower(c, i)) # "none"
      BY <3>1 DEF Edges
    <3>3. Use(c[i], Follower(c, i)) # "deferred"
      BY <2>2 DEF HasForwardRef
    <3> QED BY <3>1, <3>2, <3>3, <2>2, <2>3 DEF PlainEdges
  <2> HIDE DEF d
  <2>5. Follower(c, d) = c[1]
    BY DEF Follower, d
  <2>6. ASSUME NEW S \in SUBSET Nodes, c[1] \in S, \A k \in S : PlainEdges(k) \subseteq S
        PROVE  c[d] \in S
    <3> SUFFICES ASSUME c[d] \notin S PROVE FALSE
      OBVIOUS
    <3> DEFINE B == {i \in 1 .. d : c[i] \notin S}
    <3>1. B \in SUBSET Nat /\ B # {}
      BY <2>2
    <3>2. PICK i \in B : \A j \in B : i <= j
      BY <3>1, LeastNumber
    <3>3. i \in 1 .. d /\ c[i] \notin S /\ i # 1
      BY <2>6
    <3>4. i - 1 \in 1 .. d /\ i - 1 # d /\ (i - 1) + 1 = i /\ ~(i <= i - 1)
      BY <3>3, <2>2
    <3>5. c[i - 1] \in S
      BY <3>2, <3>4
    <3>6. Follower(c, i - 1) = c[i]
      BY <3>4 DEF Follower, d
    <3> QED BY <3>3, <3>4, <3>5, <3>6, <2>4, <2>6
  <2> QED BY <2>2, <2>4, <2>5, <2>6
<1> QED
  BY <1>1, SearchInv, PTL

-----------------------------------------------------------------------------
(* Types: a low link never rises above the index and never falls below     *)
(* what an unmet node has.                                                 *)
NumbersOK ==
  \A n \in Nodes : index[n] \in Unmet .. count - 1 /\ low[n] \in Unmet .. index[n]

LEMMA LowerNumbers ==
  ASSUME ComponentInv, NumbersOK, NEW p, NEW by, by \in Int, Unmet <= by,
         low' = [low EXCEPT ![p] = IF by < @ THEN by ELSE @],
         UNCHANGED <<graph, index, count>>
  PROVE  NumbersOK'
<1>1. index \in [Nodes -> Int] /\ low \in [Nodes -> Int] /\ count \in Nat
  BY DEF ComponentInv, Linked, Sound, Typed
<1>2. Nodes' = Nodes
  BY DEF Nodes
<1>3. \A n \in Nodes : Unmet <= low[n] /\ low[n] <= index[n]
  BY <1>1 DEF NumbersOK, Unmet
<1>4. \A n \in Nodes : low'[n] \in Int /\ Unmet <= low'[n] /\ low'[n] <= index[n]
  <2> SUFFICES ASSUME NEW n \in Nodes
               PROVE  low'[n] \in Int /\ Unmet <= low'[n] /\ low'[n] <= index[n]
    OBVIOUS
  <2>1. low'[n] = low[n] \/ (low'[n] = by /\ by < low[n])
    BY <1>1
  <2> QED BY <2>1, <1>1, <1>3 DEF Unmet
<1> QED
  BY <1>1, <1>2, <1>4 DEF NumbersOK, Unmet

LEMMA StepsKeepNumbers ==
  ComponentInv /\ NumbersOK /\ [Next]_vars => NumbersOK'
<1> SUFFICES ASSUME ComponentInv, NumbersOK, [Next]_vars PROVE NumbersOK'
  OBVIOUS
<1>1. /\ index \in [Nodes -> Int] /\ low \in [Nodes -> Int] /\ count \in Nat
      /\ graph \in Graphs
      /\ Nested(Nodes, EdgeMap, index, stack, calls)
  BY DEF ComponentInv, Linked, Sound, Typed
<1>2. \A n \in Nodes : index[n] \in Unmet .. count - 1 /\ low[n] \in Unmet .. index[n]
  BY DEF NumbersOK
<1>3. ASSUME UNCHANGED <<graph, index, low, count>> PROVE NumbersOK'
  BY <1>3 DEF NumbersOK, Nodes
<1>4. ASSUME NEW n \in Nodes, NEW c, Meet(n, c) PROVE NumbersOK'
  <2>1. Nodes' = Nodes /\ count' = count + 1
    BY <1>4 DEF Meet, Nodes
  <2>2. \A m \in Nodes : \/ m = n /\ index'[m] = count /\ low'[m] = count
                         \/ index'[m] = index[m] /\ low'[m] = low[m]
    BY <1>1, <1>4 DEF Meet
  <2> QED BY <2>1, <2>2, <1>1, <1>2 DEF NumbersOK, Unmet
<1>5. ASSUME calls # <<>>, Last(calls).rest # {} PROVE NextEdge(calls) \in Nodes
  BY <1>1, <1>5, NextEdgeIsEdge
<1>6. CASE StartRoot
  <2>1. UnmetNodes \subseteq Nat /\ UnmetNodes # {}
    BY <1>1, <1>6, GraphFacts DEF UnmetNodes, StartRoot
  <2>2. Min(UnmetNodes) \in Nodes
    BY <2>1, MinIsIn DEF UnmetNodes
  <2> QED BY <2>2, <1>4, <1>6 DEF StartRoot
<1>7. CASE Descend
  BY <1>4, <1>5, <1>7 DEF Descend, TakeEdge, Top
<1>8. CASE LookBack
  <2> DEFINE w == NextEdge(calls)
  <2>1. w \in Nodes
    BY <1>5, <1>8 DEF LookBack, TakeEdge, Top
  <2>2. Link(w) \in Int /\ Unmet <= Link(w)
    <3>1. index[w] \in Int /\ low[w] \in Int /\ Unmet <= index[w] /\ Unmet <= low[w]
      BY <2>1, <1>1, <1>2 DEF Unmet
    <3> QED BY <3>1 DEF Link
  <2>3. /\ low' = [low EXCEPT ![Last(calls).node] = IF Link(w) < @ THEN Link(w) ELSE @]
        /\ UNCHANGED <<graph, index, count>>
    BY <1>8 DEF LookBack, Lower, Top
  <2> QED BY <2>2, <2>3, LowerNumbers
<1>9. CASE Return
  <2> DEFINE n == Last(calls).node
  <2>1. calls # <<>> /\ UNCHANGED <<graph, index, count>>
    BY <1>9 DEF Return
  <2>2. n \in Nodes
    BY <2>1, <1>1, TopIsTop
  <2>3. low[n] \in Int /\ Unmet <= low[n]
    BY <2>2, <1>1, <1>2 DEF Unmet
  <2>4. \/ low' = low
        \/ \E p : low' = [low EXCEPT ![p] = IF low[n] < @ THEN low[n] ELSE @]
    BY <1>9 DEF Return, Lower, Top
  <2> QED BY <2>1, <2>3, <2>4, <1>3, LowerNumbers
<1>10. CASE LookAside \/ ComponentsFound \/ Begin \/ Close \/ Enter \/ Pass \/ Back \/ ChainsFound
  BY <1>3, <1>10 DEF LookAside, ComponentsFound, Begin, Close, Enter, Pass, Back, ChainsFound, search
<1>11. CASE UNCHANGED vars
  BY <1>3, <1>11 DEF vars
<1> QED
  BY <1>6, <1>7, <1>8, <1>9, <1>10, <1>11 DEF Next

(* Whatever the two searches meet, and whether a neighbour lends its index *)
(* (imports.ts) or its low link (di-graph.ts), a low link stays between -1 *)
(* and the index of its node, the frames hold edges not taken yet, and no  *)
(* component cut off the stack is empty.                                   *)
THEOREM TypeCorrect == Spec => []TypeOK
<1>1. Init => NumbersOK
  BY DEF Init, NumbersOK, Unmet
<1>2. ComponentInv /\ NumbersOK /\ [Next]_vars => NumbersOK'
  BY StepsKeepNumbers
<1>3. ComponentInv /\ ChainInv /\ NumbersOK => TypeOK
  <2> SUFFICES ASSUME ComponentInv, ChainInv, NumbersOK PROVE TypeOK
    OBVIOUS
  <2>1. /\ IsGraph(graph) /\ index \in [Nodes -> Int] /\ count \in Nat /\ stack \in Seq(Nodes)
        /\ Nested(Nodes, EdgeMap, index, stack, calls)
    BY GraphFacts DEF ComponentInv, Linked, Sound, Typed
  <2>2. \A n \in Nodes : EdgeMap[n] = Edges(n)
    BY DEF EdgeMap
  <2>3. IsFrames(calls)
    <3>1. \A i \in DOMAIN calls : calls[i].node \in Nodes /\ calls[i].rest \subseteq EdgeMap[calls[i].node]
      BY <2>1 DEF Nested
    <3> QED BY <3>1, <2>2 DEF IsFrames
  <2>4. IsFrames(path)
    <3>1. CASE path = <<>>
      BY <3>1 DEF IsFrames
    <3>2. CASE path # <<>>
      <4>1. /\ Knot \subseteq Nodes
            /\ \A i \in DOMAIN path : path[i].node \in Knot /\ path[i].rest \subseteq EdgeMap[path[i].node]
        BY <3>2, PathFacts DEF Walk
      <4> QED BY <4>1, <2>2 DEF IsFrames
    <3> QED BY <3>1, <3>2
  <2>5. index \in [Nodes -> Unmet .. count - 1] /\ \A n \in Nodes : low[n] \in Unmet .. index[n]
    <3> DEFINE Numbers == Unmet .. count - 1
    <3>1. \A n \in Nodes : index[n] \in Numbers /\ low[n] \in Unmet .. index[n]
      BY DEF NumbersOK
    <3> HIDE DEF Numbers
    <3>2. index \in [Nodes -> Numbers]
      BY <3>1, <2>1
    <3> QED BY <3>1, <3>2 DEF Numbers
  <2>6. knots \subseteq (SUBSET Nodes) \ {{}} /\ left \subseteq knots
    BY DEF ComponentInv, KnotsAreParts, ChainInv, LeftAreCyclic, CyclicKnots
  <2>7. chains \subseteq Seq(Nodes) /\ pc \in {"components", "chains", "done"}
    BY DEF ChainInv, ChainsAreSound, PhasesAreInOrder
  <2> QED BY <2>1, <2>3, <2>4, <2>5, <2>6, <2>7 DEF TypeOK
<1> QED
  BY <1>1, <1>2, <1>3, SearchInv, PTL DEF Spec

-----------------------------------------------------------------------------
(* What provider-not-registered reports.                                   *)

(* Extraction reads a module as it is written: what is not unresolved and  *)
(* not shorthand is known to the last token.                               *)
ModelIsRead ==
  step # "extract" =>
    model = [n \in {m \in Modules : app.modules[m].seen} |-> ReadModule(app.modules[n])]

ReportsFollowTheRule ==
  \A q \in unregistered :
    step # "extract" /\ ~IsInjectionResolvable(q.type) /\ q \in app.constructor

WiringInv == ModelIsRead /\ ReportsFollowTheRule

(* The model and the reports say what the rule computes from the source.   *)
LEMMA WiringInvHolds == RulesSpec => []WiringInv
<1>1. RulesInit => WiringInv
  BY DEF RulesInit, WiringInit, WiringInv, ModelIsRead, ReportsFollowTheRule
<1>2. WiringInv /\ [RulesNext]_<<vars, wiring>> => WiringInv'
  <2> SUFFICES ASSUME WiringInv, [RulesNext]_<<vars, wiring>> PROVE WiringInv'
    OBVIOUS
  <2>1. CASE Extract
    <3>1. unregistered = {}
      BY <2>1 DEF Extract, WiringInv, ReportsFollowTheRule
    <3> QED BY <2>1, <3>1 DEF Extract, WiringInv, ModelIsRead, ReportsFollowTheRule,
                              Modules, ReadModule, ReadReferences, Unreadable
  <2>2. CASE ReportUnregistered
    BY <2>2 DEF ReportUnregistered, WiringInv, ModelIsRead, ReportsFollowTheRule,
       Modules, ReadInjections, IsInjectionResolvable, Owners, Entries, FromGlobal,
       ReachableFrom, Walked, HasUnresolved
  <2>3. CASE UNCHANGED wiring
    BY <2>3 DEF wiring, WiringInv, ModelIsRead, ReportsFollowTheRule, Modules,
       IsInjectionResolvable, Owners, Entries, FromGlobal, ReachableFrom, Walked, HasUnresolved
  <2> QED BY <2>1, <2>2, <2>3 DEF RulesNext
<1> QED BY <1>1, <1>2, PTL DEF RulesSpec

(* In an entry without unresolved parts every list is read to the last     *)
(* token.                                                                  *)
LEMMA EntryIsWhole ==
  ASSUME WiringInv, step # "extract", ListsAreWrittenOut,
         NEW n \in Entries, ~HasUnresolved(n), NEW key \in Lists,
         IsApplication(app)
  PROVE  n \in Modules /\ model[n].refs[key] = Tokens(n, key)
<1>1. n \in Modules /\ model[n] = ReadModule(app.modules[n])
  BY DEF WiringInv, ModelIsRead, Entries
<1> DEFINE list == app.modules[n].lists[key]
<1>2. app.modules[n].static /\ ~Unreadable(list)
  BY <1>1 DEF ReadModule, HasUnresolved
<1>3. model[n].refs[key] = ReadReferences(list)
  BY <1>1, <1>2 DEF ReadModule
<1>4. list.form \in {"array", "expression", "shorthand"}
  BY <1>1 DEF IsApplication, Modules, Module, List
<1>5. /\ list.form = "array"
      /\ \A e \in list.elements : e.kind # "opaque" /\ e.token = e.class
  BY <1>1, <1>2, <1>4 DEF Unreadable, ListsAreWrittenOut
<1>6. ReadReferences(list) = {e.token : e \in list.elements}
  BY <1>5 DEF ReadReferences
<1> QED BY <1>1, <1>3, <1>6 DEF Tokens

(* Where dynamic modules add nothing, every class has one instance, and it *)
(* is what the class says.                                                 *)
LEMMA PlainInstances ==
  ASSUME DynamicModulesAddNothing
  PROVE  /\ \A n \in Modules : [module |-> n, brings |-> Nothing] \in Instances
         /\ \A x \in Instances :
              /\ x.module \in Modules
              /\ Provided(x) = Tokens(x.module, "providers")
              /\ Exported(x) = Tokens(x.module, "exports")
              /\ IsGlobal(x) => app.modules[x.module].global
              /\ \A y \in Visible(x) :
                   /\ y \in Instances
                   /\ y.module \in Tokens(x.module, "imports") \/ app.modules[y.module].global
<1>1. \A n \in Modules : \A x \in ImportedBy(n) :
        /\ x = [module |-> x.module, brings |-> Nothing]
        /\ x.module \in Modules /\ x.module \in Tokens(n, "imports")
  BY DEF ImportedBy, DynamicModulesAddNothing, Tokens
<1>2. \A n \in Modules : \A k \in Tokens(n, "imports") \cap Modules :
        [module |-> k, brings |-> Nothing] \in ImportedBy(n)
  BY DEF ImportedBy, DynamicModulesAddNothing, Tokens
<1>3. ASSUME NEW n \in Modules
      PROVE  [module |-> n, brings |-> Nothing] \in Instances
  <2>1. CASE \E l \in Modules : n \in Tokens(l, "imports")
    BY <1>2, <2>1 DEF Instances
  <2>2. CASE \A l \in Modules : n \notin Tokens(l, "imports")
    BY <2>2 DEF Instances
  <2> QED BY <2>1, <2>2
<1>4. ASSUME NEW x \in Instances
      PROVE  x.module \in Modules /\ x.brings = Nothing
  BY <1>1 DEF Instances
<1>5. ASSUME NEW x \in Instances
      PROVE  /\ Provided(x) = Tokens(x.module, "providers")
             /\ Exported(x) = Tokens(x.module, "exports")
             /\ IsGlobal(x) => app.modules[x.module].global
  BY <1>4 DEF Provided, Exported, IsGlobal, Nothing
<1>6. ASSUME NEW x \in Instances, NEW y \in Visible(x)
      PROVE  /\ y \in Instances
             /\ y.module \in Tokens(x.module, "imports") \/ app.modules[y.module].global
  BY <1>1, <1>4, <1>5 DEF Visible
<1> QED BY <1>3, <1>4, <1>5, <1>6

(* provider-not-registered.ts:8 "only provably broken wiring is reported": *)
(* the inductive step of the walk, for one report and one owner.           *)
LEMMA ReportIsBroken ==
  ASSUME WiringInv, IsApplication(app),
         ListsAreWrittenOut, ParametersAskForTheirType, GlobalsAreRead,
         DynamicModulesAddNothing,
         NEW q \in unregistered
  PROVE  BrokenFor(q)
<1>1. step # "extract" /\ ~IsInjectionResolvable(q.type) /\ q.token = q.type
  BY DEF WiringInv, ReportsFollowTheRule, ParametersAskForTheirType
<1>2. PICK owner \in Owners : ~ReachableFrom(owner, q.type)
  BY <1>1 DEF IsInjectionResolvable
<1>3. ~FromGlobal(q.type)
  BY <1>1 DEF IsInjectionResolvable
<1> DEFINE Met == Walked(owner)
           Bad == {n \in Modules : app.modules[n].global \/
                     \E k \in Met : n \in model[k].refs["imports"]}
           Good == {x \in Instances : x.module \notin Bad}
<1>4. owner \in Entries /\ ~HasUnresolved(owner)
  BY <1>2 DEF Owners, ReachableFrom
<1>5. owner \in Met /\ Met \subseteq Entries
  BY <1>4 DEF Walked
<1>6. \A k \in Met : \A i \in model[k].refs["imports"] :
        /\ i \in Entries /\ ~HasUnresolved(i)
        /\ q.type \notin model[i].refs["exports"]
  BY <1>2, <1>5 DEF ReachableFrom
<1>7. \A k \in Met : model[k].refs["imports"] \subseteq Met
  <2> SUFFICES ASSUME NEW k \in Met, NEW i \in model[k].refs["imports"],
                      NEW S \in SUBSET Entries, owner \in S,
                      \A l \in S : model[l].refs["imports"] \cap Entries \subseteq S
               PROVE  i \in S
    BY <1>6 DEF Walked
  <2>1. k \in S
    BY <1>5 DEF Walked
  <2> QED BY <2>1, <1>6
<1>8. \A n \in Modules : app.modules[n].global =>
        /\ n \in Entries /\ ~HasUnresolved(n)
        /\ q.type \notin model[n].refs["exports"]
        /\ Tokens(n, "exports") \cap Modules = {}
  <2> SUFFICES ASSUME NEW n \in Modules, app.modules[n].global
               PROVE  /\ n \in Entries /\ ~HasUnresolved(n)
                      /\ q.type \notin model[n].refs["exports"]
                      /\ Tokens(n, "exports") \cap Modules = {}
    OBVIOUS
  <2>1. /\ app.modules[n].seen /\ app.modules[n].static /\ app.modules[n].decorated
        /\ \A key \in Lists : ~Unreadable(app.modules[n].lists[key])
        /\ Tokens(n, "exports") \cap Modules = {}
    BY DEF GlobalsAreRead
  <2>2. n \in Entries /\ model[n] = ReadModule(app.modules[n])
    BY <2>1, <1>1 DEF WiringInv, ModelIsRead, Entries
  <2>3. ~HasUnresolved(n) /\ model[n].global
    BY <2>1, <2>2 DEF ReadModule, HasUnresolved
  <2> QED BY <2>1, <2>2, <2>3, <1>3 DEF FromGlobal
<1>9. \A n \in Bad : /\ n \in Entries /\ ~HasUnresolved(n)
                     /\ q.type \notin Tokens(n, "exports")
  <2> SUFFICES ASSUME NEW n \in Bad
               PROVE  /\ n \in Entries /\ ~HasUnresolved(n)
                      /\ q.type \notin Tokens(n, "exports")
    OBVIOUS
  <2>1. n \in Entries /\ ~HasUnresolved(n) /\ q.type \notin model[n].refs["exports"]
    BY <1>6, <1>8
  <2>2. model[n].refs["exports"] = Tokens(n, "exports")
    BY <2>1, <1>1, EntryIsWhole DEF Lists
  <2> QED BY <2>1, <2>2
<1>10. \A x \in Instances : x.module \in Met /\ ~HasUnresolved(x.module) =>
         \A y \in Visible(x) : y.module \in Bad
  <2> SUFFICES ASSUME NEW x \in Instances, x.module \in Met, ~HasUnresolved(x.module),
                      NEW y \in Visible(x)
               PROVE  y.module \in Bad
    OBVIOUS
  <2>1. model[x.module].refs["imports"] = Tokens(x.module, "imports")
    BY <1>5, <1>1, EntryIsWhole DEF Lists
  <2>2. /\ y.module \in Modules
        /\ y.module \in Tokens(x.module, "imports") \/ app.modules[y.module].global
    BY PlainInstances
  <2> QED BY <2>1, <2>2
<1>11. OfferedBy(Good, q.token) \subseteq Good
  <2> SUFFICES ASSUME NEW x \in Instances, x.module \in Bad, x \in OfferedBy(Good, q.token)
               PROVE  FALSE
    BY DEF OfferedBy
  <2>1. /\ Exported(x) = Tokens(x.module, "exports") /\ q.type \notin Exported(x)
    BY <1>9, PlainInstances
  <2>2. PICK y \in Visible(x) \cap Good : y.module \in Exported(x)
    BY <2>1, <1>1 DEF OfferedBy
  <2>3. y.module \in Modules /\ y.module \notin Bad
    BY <2>2, PlainInstances
  <2>4. CASE app.modules[x.module].global
    BY <2>1, <2>2, <2>3, <2>4, <1>8, PlainInstances
  <2>5. CASE ~app.modules[x.module].global
    <3>1. x.module \in Met
      BY <2>5, <1>7
    <3> QED BY <3>1, <1>9, <1>10, <2>2, <2>3
  <2> QED BY <2>4, <2>5
<1> DEFINE place == [module |-> owner, brings |-> Nothing]
<1>12. place \in Instances /\ ~Resolves(place, q.token)
  <2>0. owner \in Modules /\ place \in Instances /\ place.module = owner
    BY <1>1, <1>4, EntryIsWhole, PlainInstances DEF Lists
  <2> HIDE DEF place
  <2>1. q.token \notin Provided(place)
    <3>1. q.type \notin model[owner].refs["providers"]
      BY <1>2 DEF ReachableFrom
    <3>2. model[owner].refs["providers"] = Tokens(owner, "providers")
      BY <1>4, <1>1, EntryIsWhole DEF Lists
    <3> QED BY <3>1, <3>2, <1>1, <2>0, PlainInstances
  <2>2. ASSUME NEW y \in Visible(place), Offers(y, q.token) PROVE FALSE
    <3>1. y.module \in Bad
      BY <2>0, <2>2, <1>4, <1>5, <1>10
    <3>2. y \in Good
      <4>1. Good \in SUBSET Instances
        OBVIOUS
      <4> HIDE DEF Good
      <4> QED BY <2>2, <4>1, <1>11 DEF Offers
    <3> QED BY <3>1, <3>2
  <2> QED BY <2>0, <2>1, <2>2 DEF Resolves
<1>13. app.consumer \in Tokens(owner, "providers") \cup Tokens(owner, "controllers")
  <2>1. app.consumer \in model[owner].refs["providers"] \cup model[owner].refs["controllers"]
    BY <1>2 DEF Owners
  <2>2. /\ model[owner].refs["providers"] = Tokens(owner, "providers")
        /\ model[owner].refs["controllers"] = Tokens(owner, "controllers")
    BY <1>4, <1>1, EntryIsWhole DEF Lists
  <2> QED BY <2>1, <2>2
<1>14. app.consumer \in Provided(place) \cup Tokens(place.module, "controllers")
  <2>1. place.module = owner
    OBVIOUS
  <2> HIDE DEF place
  <2> QED BY <1>12, <1>13, <2>1, PlainInstances
<1> QED BY <1>12, <1>14 DEF BrokenFor

(* What is proved of CycleSearch holds of the composition: reading the     *)
(* model and reporting injections leave the search alone.                  *)
THEOREM RulesRunTheSearch == RulesSpec => Spec
<1>1. RulesInit => Init
  BY DEF RulesInit
<1>2. [RulesNext]_<<vars, wiring>> => [Next]_vars
  BY DEF RulesNext, ReportUnregistered
<1> QED
  BY <1>1, <1>2, PTL DEF RulesSpec, Spec

(* The application does not change.                                        *)
LEMMA ApplicationStays == RulesSpec => [](graph \in Graphs /\ app \in Applications(graph))
<1> DEFINE Given == graph \in Graphs /\ app \in Applications(graph)
<1>1. RulesInit => Given
  BY DEF RulesInit, WiringInit, Init
<1>2. Given /\ [RulesNext]_<<vars, wiring>> => Given'
  <2>1. Next => UNCHANGED graph
    BY DEF Next, StartRoot, Meet, Descend, LookBack, LookAside, Return, ComponentsFound,
       Begin, Close, Enter, Pass, Back, ChainsFound
  <2>2. RulesNext => UNCHANGED <<graph, app>>
    BY <2>1 DEF RulesNext, vars, wiring, Extract, ReportUnregistered
  <2> QED BY <2>2 DEF vars, wiring
<1> QED BY <1>1, <1>2, PTL DEF RulesSpec

(* provider-not-registered.ts:8 "only provably broken wiring is reported": *)
(* in every application whose lists are written out, whose parameters ask  *)
(* for their type, whose global modules are read and whose dynamic modules *)
(* add nothing to their class, each reported parameter belongs to a        *)
(* consumer some module registers and for which Nest finds no provider.    *)
THEOREM WiringIsReal == RulesSpec => []WiringReportsAreReal
<1>1. WiringInv /\ graph \in Graphs /\ app \in Applications(graph) => WiringReportsAreReal
  BY ReportIsBroken, ApplicationsAssumption DEF WiringReportsAreReal
<1> QED BY <1>1, WiringInvHolds, ApplicationStays, PTL
=============================================================================
