-------------------------- MODULE LinkGraphProofs --------------------------
(***************************************************************************)
(* Theorems about LinkGraph, for any finite set of pages, any crawl of     *)
(* them, any weights and any thresholds.                                   *)
(***************************************************************************)
EXTENDS LinkGraph, FiniteSetTheorems, SequenceTheorems, WellFoundedInduction,
        TLAPS

-----------------------------------------------------------------------------
(* Least and greatest elements, which the CHOOSEs of the model ask for and *)
(* which stand in for induction.                                           *)

(* A set of numbers has a least one.                                       *)
LEMMA LeastOf ==
  ASSUME NEW T \in SUBSET Nat, T # {}
  PROVE  \E n \in T : \A m \in T : n <= m
<1>1. IsWellFoundedOn(OpToRel(<, Nat), Nat)  BY NatLessThanWellFounded, Zenon
<1>2. PICK n \in T : \A m \in T : ~(<<m, n>> \in OpToRel(<, Nat))
  BY <1>1, WFMin, Zenon
<1>3. ASSUME NEW m \in T PROVE n <= m
  <2>1. ~(m < n)
    <3>1. SUFFICES ASSUME m < n PROVE <<m, n>> \in OpToRel(<, Nat)
      BY <1>2, Zenon
    <3>2. <<m, n>> \in Nat \X Nat /\ <<m, n>>[1] < <<m, n>>[2]  BY <3>1
    <3>3. QED  BY <3>2, Zenon DEF OpToRel
  <2>2. QED  BY <2>1
<1>4. QED  BY <1>3

(* A bounded set of numbers has a greatest one.                            *)
LEMMA GreatestOf ==
  ASSUME NEW T \in SUBSET Nat, T # {}, NEW bound \in Nat, \A n \in T : n <= bound
  PROVE  \E n \in T : \A m \in T : m <= n
<1> DEFINE U == {u \in Nat : \A m \in T : m <= u}
<1>1. PICK u \in U : \A v \in U : u <= v
  <2>1. bound \in U  OBVIOUS
  <2>2. U \in SUBSET Nat /\ U # {}  BY <2>1
  <2> HIDE DEF U
  <2>3. QED  BY <2>2, LeastOf
<1>2. u \in T
  <2>1. SUFFICES ASSUME u \notin T PROVE FALSE  OBVIOUS
  <2>2. \A m \in T : m < u  BY <2>1
  <2>3. PICK m \in T : TRUE  OBVIOUS
  <2>4. u > 0  BY <2>2, <2>3
  <2>5. u - 1 \in U  BY <2>2, <2>4
  <2>6. QED  BY <1>1, <2>5
<1>3. QED  BY <1>2

-----------------------------------------------------------------------------
(* Type correctness of the crawl and of the results.                       *)

(* There are finitely many pages, so their number is a number.             *)
LEMMA PageCount ==
  /\ Cardinality(SitePages) \in Nat
  /\ Homepage \in SitePages /\ MayLink \subseteq SitePages \X SitePages
  /\ IsFiniteSet(SitePages) /\ IsFiniteSet(MayLink)
<1>1. /\ IsFiniteSet(SitePages) /\ Homepage \in SitePages
      /\ MayLink \subseteq SitePages \X SitePages
  BY LinkAssumption
<1>2. Cardinality(SitePages) \in Nat  BY <1>1, FS_CardinalityType
<1>3. IsFiniteSet(SitePages \X SitePages)  BY <1>1, FS_Product
<1>4. IsFiniteSet(MayLink)  BY <1>1, <1>3, FS_Subset
<1>5. QED  BY <1>1, <1>2, <1>4

Reached(p) == depth[p] # Unreached

(* The types of the search; the bound of the depths comes later.           *)
GraphType ==
  /\ link \in [MayLink -> Sorts] /\ nodes \subseteq SitePages
  /\ stage \in {"crawl", "depths", "depths done", "components", "components done"}
  /\ queue \in Seq(SitePages)
  /\ now \in [url : SitePages, rest : SUBSET SitePages]
  /\ depth \in [SitePages -> {Unreached} \cup Nat]
  /\ path \in [SitePages -> Seq(SitePages)]
  /\ todo \subseteq MayLink /\ forest \subseteq SUBSET SitePages

(* What Reach does, for a page seen the first time and for another one.    *)
LEMMA ReachSteps ==
  ASSUME GraphType, NEW v \in SitePages, Reach(v)
  PROVE  /\ now'.url = now.url /\ now'.rest = now.rest \ {v}
         /\ now' \in [url : SitePages, rest : SUBSET SitePages]
         /\ \/ /\ ~Reached(v)
               /\ depth' = [depth EXCEPT ![v] = depth[now.url] + 1]
               /\ path' = [path EXCEPT ![v] = Append(path[now.url], v)]
               /\ queue' = Append(queue, v)
            \/ Reached(v) /\ UNCHANGED <<depth, path, queue>>
<1>1. now' = [now EXCEPT !.rest = @ \ {v}]  BY DEF Reach
<1>2. now \in [url : SitePages, rest : SUBSET SitePages]  BY DEF GraphType
<1>3. QED  BY <1>1, <1>2 DEF Reach, Reached
-----------------------------------------------------------------------------
(* What Within computes.  A recursive function is a CHOOSE: that a function*)
(* with the defining equation exists is shown by one, the pages at the end *)
(* of a walk of n steps, each of which follows a link or stays.            *)
WalkEnds(n) ==
  {p \in SitePages : \E s \in [0..n -> SitePages] :
     /\ s[0] = Homepage /\ s[n] = p
     /\ \A i \in 0 .. n - 1 : s[i + 1] \in Neighbours(s[i]) \cup {s[i]}}

Widened(set) == set \cup UNION {Neighbours(u) : u \in set}

(* A walk of no steps ends at the homepage; one of n + 1 steps follows a   *)
(* link, or stays, at the end of one of n steps.                           *)
LEMMA WalksWiden ==
  /\ WalkEnds(0) = {Homepage}
  /\ \A n \in Nat : WalkEnds(n + 1) = Widened(WalkEnds(n))
<1>0. \A u : Neighbours(u) \subseteq SitePages  BY DEF Neighbours
<1>1. WalkEnds(0) = {Homepage}
  <2>1. Homepage \in WalkEnds(0)
    <3> DEFINE s == [i \in 0..0 |-> Homepage]
    <3>1. s \in [0..0 -> SitePages] /\ s[0] = Homepage  BY PageCount
    <3>2. \A i \in 0 .. 0 - 1 : s[i + 1] \in Neighbours(s[i]) \cup {s[i]}
      OBVIOUS
    <3> HIDE DEF s
    <3>3. QED  BY <3>1, <3>2, PageCount DEF WalkEnds
  <2>2. \A p \in WalkEnds(0) : p = Homepage  BY DEF WalkEnds
  <2>3. QED  BY <2>1, <2>2
<1>2. ASSUME NEW n \in Nat PROVE WalkEnds(n + 1) = Widened(WalkEnds(n))
  <2>1. ASSUME NEW p \in WalkEnds(n + 1) PROVE p \in Widened(WalkEnds(n))
    <3>1. PICK s \in [0 .. n + 1 -> SitePages] :
            /\ s[0] = Homepage /\ s[n + 1] = p
            /\ \A i \in 0 .. (n + 1) - 1 : s[i + 1] \in Neighbours(s[i]) \cup {s[i]}
      BY DEF WalkEnds
    <3> DEFINE t == [i \in 0..n |-> s[i]]
    <3>2. t \in [0..n -> SitePages] /\ t[0] = Homepage /\ t[n] = s[n]
      BY <3>1
    <3>3. ASSUME NEW i \in 0 .. n - 1 PROVE t[i + 1] \in Neighbours(t[i]) \cup {t[i]}
      <4>1. t[i] = s[i] /\ t[i + 1] = s[i + 1]  OBVIOUS
      <4>2. i \in 0 .. (n + 1) - 1  OBVIOUS
      <4> HIDE DEF t
      <4>3. QED  BY <3>1, <4>1, <4>2
    <3>4. s[n] \in SitePages  OBVIOUS
    <3>5. s[n] \in WalkEnds(n)
      <4> HIDE DEF t
      <4>1. QED  BY <3>2, <3>3, <3>4 DEF WalkEnds
    <3>6. p \in Neighbours(s[n]) \cup {s[n]}
      <4>1. n \in 0 .. (n + 1) - 1  OBVIOUS
      <4>2. QED  BY <3>1, <4>1
    <3>7. QED  BY <3>5, <3>6 DEF Widened
  <2>2. ASSUME NEW u \in WalkEnds(n), NEW p \in Neighbours(u) \cup {u}
        PROVE  p \in WalkEnds(n + 1)
    <3>1. PICK s \in [0..n -> SitePages] :
            /\ s[0] = Homepage /\ s[n] = u
            /\ \A i \in 0 .. n - 1 : s[i + 1] \in Neighbours(s[i]) \cup {s[i]}
      BY DEF WalkEnds
    <3>2. p \in SitePages  BY <1>0, <2>2 DEF WalkEnds
    <3> DEFINE t == [i \in 0 .. n + 1 |-> IF i = n + 1 THEN p ELSE s[i]]
    <3>3. t \in [0 .. n + 1 -> SitePages] /\ t[0] = Homepage /\ t[n + 1] = p
      BY <3>1, <3>2
    <3>4. ASSUME NEW i \in 0 .. (n + 1) - 1
          PROVE  t[i + 1] \in Neighbours(t[i]) \cup {t[i]}
      <4>1. CASE i = n
        <5>1. t[i] = u /\ t[i + 1] = p  BY <3>1, <4>1
        <5> HIDE DEF t
        <5>2. QED  BY <2>2, <5>1
      <4>2. CASE i # n
        <5>1. i \in 0 .. n - 1 /\ t[i] = s[i] /\ t[i + 1] = s[i + 1]  BY <4>2
        <5> HIDE DEF t
        <5>2. QED  BY <3>1, <5>1
      <4>3. QED  BY <4>1, <4>2
    <3> HIDE DEF t
    <3>5. QED  BY <3>2, <3>3, <3>4 DEF WalkEnds
  <2>3. Widened(WalkEnds(n)) \subseteq WalkEnds(n + 1)
    BY <2>2 DEF Widened
  <2>4. QED  BY <2>1, <2>3
<1>3. QED  BY <1>1, <1>2

(* Within[n] is therefore what its definition says.                        *)
LEMMA WithinIs ==
  /\ Within[0] = {Homepage}
  /\ \A n \in Nat : Within[n + 1] = Widened(Within[n])
<1> DEFINE Step(f) == [n \in Nat |-> IF n = 0 THEN {Homepage}
                         ELSE f[n - 1] \cup UNION {Neighbours(u) : u \in f[n - 1]}]
           walks == [n \in Nat |-> WalkEnds(n)]
<1>1. walks = Step(walks)
  <2>1. ASSUME NEW n \in Nat
        PROVE  walks[n] = (IF n = 0 THEN {Homepage}
                  ELSE walks[n - 1] \cup UNION {Neighbours(u) : u \in walks[n - 1]})
    <3>1. CASE n = 0  BY <3>1, WalksWiden
    <3>2. CASE n # 0
      <4>1. n - 1 \in Nat /\ (n - 1) + 1 = n  BY <3>2
      <4>2. WalkEnds(n) = Widened(WalkEnds(n - 1))  BY <4>1, WalksWiden
      <4>3. walks[n] = WalkEnds(n) /\ walks[n - 1] = WalkEnds(n - 1)  BY <4>1
      <4> HIDE DEF walks
      <4>4. QED  BY <3>2, <4>2, <4>3 DEF Widened
    <3>3. QED  BY <3>1, <3>2
  <2>2. QED  BY <2>1
<1>2. Within = CHOOSE f : f = Step(f)  BY Zenon DEF Within
<1>3. Within = Step(Within)
  <2> HIDE DEF Step, walks
  <2>1. QED  BY <1>1, <1>2, Zenon
<1>4. \A n \in Nat : Within[n] = IF n = 0 THEN {Homepage}
          ELSE Within[n - 1] \cup UNION {Neighbours(u) : u \in Within[n - 1]}
  BY <1>3, Zenon
<1>5. Within[0] = {Homepage}  BY <1>4
<1>6. ASSUME NEW n \in Nat PROVE Within[n + 1] = Widened(Within[n])
  <2>1. n + 1 \in Nat /\ n + 1 # 0 /\ (n + 1) - 1 = n  OBVIOUS
  <2>2. Within[n + 1] = Within[n] \cup UNION {Neighbours(u) : u \in Within[n]}
    BY <1>4, <2>1
  <2>3. QED  BY <2>2 DEF Widened
<1>7. QED  BY <1>5, <1>6
-----------------------------------------------------------------------------
(* The breadth-first search.  The queue is in the order of the depths, no  *)
(* page is known at more than one click beyond the page under way, and a   *)
(* page that has left the queue has its neighbours known, or still to do.  *)
Levels ==
  /\ depth[Homepage] = 0 /\ Reached(now.url)
  /\ \A i \in 1 .. Len(queue) :
       Reached(queue[i]) /\ depth[now.url] <= depth[queue[i]]
  /\ \A i, j \in 1 .. Len(queue) : i <= j => depth[queue[i]] <= depth[queue[j]]
  /\ \A p \in SitePages : Reached(p) => depth[p] <= depth[now.url] + 1
  /\ now.rest \subseteq Neighbours(now.url)

Near(u, v) == Reached(v) /\ depth[v] <= depth[u] + 1

Waiting(u) == \E i \in 1 .. Len(queue) : queue[i] = u

Expanded ==
  \A u \in SitePages : Reached(u) =>
    \/ Waiting(u)
    \/ \A v \in Neighbours(u) : (u = now.url /\ v \in now.rest) \/ Near(u, v)

(* The path of a page is a way from the homepage, one page of each depth.  *)
IsWay(p, way) ==
  /\ Len(way) = depth[p] + 1
  /\ way[1] = Homepage /\ way[Len(way)] = p
  /\ \A i \in 1 .. Len(way) - 1 : way[i + 1] \in Neighbours(way[i])
  /\ \A i \in 1 .. Len(way) : depth[way[i]] = i - 1

Ways ==
  \A p \in SitePages : IF Reached(p) THEN IsWay(p, path[p]) ELSE path[p] = << >>

SearchOver == stage = "depths done"

SearchInv ==
  /\ GraphType
  /\ stage = "crawl" => now = [url |-> Homepage, rest |-> {}] /\ queue = << >>
  /\ stage \notin {"depths", "depths done"} =>
       \A p \in SitePages : ~Reached(p) /\ path[p] = << >>
  /\ stage \in {"depths", "depths done"} =>
       Levels /\ Expanded /\ Ways /\ nodes = SitePages
  /\ stage = "depths done" => queue = << >> /\ now.rest = {}

(* Before the crawl is read nothing is reached.                            *)
LEMMA SearchInit == GraphInit => SearchInv
<1> SUFFICES ASSUME GraphInit PROVE SearchInv  OBVIOUS
<1>1. GraphType  BY PageCount DEF GraphInit, GraphType, Sorts
<1>2. \A p \in SitePages : ~Reached(p) /\ path[p] = << >>
  BY DEF GraphInit, Reached
<1>3. QED  BY <1>1, <1>2 DEF GraphInit, SearchInv

(* The search starts at the homepage, of depth 0.                          *)
LEMMA SearchStart ==
  ASSUME SearchInv, StartDepths
  PROVE  SearchInv'
<1>0. GraphType /\ stage = "crawl" /\ stage' = "depths"
  BY DEF SearchInv, StartDepths
<1>1. now = [url |-> Homepage, rest |-> {}] /\ \A p \in SitePages : ~Reached(p) /\ path[p] = << >>
  BY <1>0 DEF SearchInv
<1>2. /\ link' \in [MayLink -> Sorts] /\ nodes' = SitePages /\ queue' = <<Homepage>>
      /\ depth' = [depth EXCEPT ![Homepage] = 0]
      /\ path' = [path EXCEPT ![Homepage] = <<Homepage>>]
      /\ now' = now /\ todo' = todo /\ forest' = forest
  BY DEF StartDepths
<1>3. /\ depth'[Homepage] = 0 /\ path'[Homepage] = <<Homepage>>
      /\ \A p \in SitePages \ {Homepage} : depth'[p] = Unreached /\ path'[p] = << >>
  BY <1>0, <1>1, <1>2, PageCount DEF GraphType, Reached
<1>4. Len(queue') = 1 /\ queue'[1] = Homepage /\ Len(<<Homepage>>) = 1
      /\ <<Homepage>>[1] = Homepage
  BY <1>2
<1>5. GraphType'
  <2>1. <<Homepage>> \in Seq(SitePages)  BY PageCount
  <2>2. depth' \in [SitePages -> {Unreached} \cup Nat]
    BY <1>0, <1>2 DEF GraphType
  <2>3. path' \in [SitePages -> Seq(SitePages)]
    BY <1>0, <1>2, <2>1 DEF GraphType
  <2>4. QED  BY <1>0, <1>2, <2>1, <2>2, <2>3 DEF GraphType
<1>6. Levels'
  <2>1. now'.url = Homepage /\ now'.rest = {}  BY <1>1, <1>2
  <2>2. \A i \in 1 .. Len(queue') : i = 1  BY <1>4
  <2>3. 0 # Unreached  BY DEF Unreached
  <2>4. \A p \in SitePages : depth'[p] # Unreached => depth'[p] = 0  BY <1>3
  <2>5. QED  BY <1>3, <1>4, <2>1, <2>2, <2>3, <2>4 DEF Levels, Reached
<1>7. Expanded'
  <2>1. \A u \in SitePages : Reached(u)' => u = Homepage  BY <1>3 DEF Reached
  <2>2. Waiting(Homepage)'  BY <1>4 DEF Waiting
  <2>3. QED  BY <2>1, <2>2 DEF Expanded
<1>8. Ways'
  <2>1. IsWay(Homepage, path[Homepage])'
    BY <1>3, <1>4 DEF IsWay
  <2>2. Reached(Homepage)' /\ \A p \in SitePages \ {Homepage} : ~Reached(p)'
    BY <1>3 DEF Reached, Unreached
  <2>3. QED  BY <1>3, <2>1, <2>2 DEF Ways
<1>9. QED  BY <1>0, <1>2, <1>5, <1>6, <1>7, <1>8 DEF SearchInv

(* The page that is shifted is of the lowest depth in the queue, and the   *)
(* page before it has no neighbour left to do.                             *)
LEMMA SearchShift ==
  ASSUME SearchInv, Shift
  PROVE  SearchInv'
<1>0. /\ GraphType /\ Levels /\ Expanded /\ Ways /\ nodes = SitePages
      /\ stage = "depths" /\ stage' = "depths"
      /\ now.rest = {} /\ queue # << >>
      /\ queue' = Tail(queue)
      /\ now' = [url |-> Head(queue), rest |-> Neighbours(Head(queue))]
      /\ UNCHANGED <<link, nodes, depth, path, todo, forest>>
  BY DEF SearchInv, Shift
<1> DEFINE h == Head(queue)
<1>1. queue \in Seq(SitePages)  BY <1>0 DEF GraphType
<1>2. /\ Len(queue) \in Nat /\ Len(queue) > 0 /\ h = queue[1]
      /\ h \in SitePages /\ queue' \in Seq(SitePages)
      /\ Len(queue') = Len(queue) - 1
      /\ \A i \in 1 .. Len(queue') : queue'[i] = queue[i + 1]
  <2>1. Len(queue) \in Nat \ {0}  BY <1>0, <1>1, EmptySeq
  <2>2. h = queue[1]  BY <1>0, <1>1
  <2>3. /\ h \in SitePages /\ Tail(queue) \in Seq(SitePages)
        /\ Len(Tail(queue)) = Len(queue) - 1
        /\ \A i \in 1 .. Len(Tail(queue)) : Tail(queue)[i] = queue[i + 1]
    BY <1>0, <1>1, HeadTailProperties
  <2>4. QED  BY <1>0, <2>1, <2>2, <2>3
<1>3. now'.url = h /\ now'.rest = Neighbours(h)  BY <1>0
<1>4. \A u : Neighbours(u)' = Neighbours(u)
  BY <1>0 DEF Neighbours
<1>5. Neighbours(h) \subseteq SitePages  BY DEF Neighbours
<1>6. GraphType'
  <2>1. now' \in [url : SitePages, rest : SUBSET SitePages]
    BY <1>0, <1>2, <1>5
  <2>2. QED  BY <1>0, <1>2, <2>1 DEF GraphType
<1>7. \A i \in 1 .. Len(queue') : i + 1 \in 1 .. Len(queue)  BY <1>2
<1>d. depth \in [SitePages -> {Unreached} \cup Nat] /\ now.url \in SitePages
  BY <1>0 DEF GraphType
<1>8. Levels'
  <2>1. Reached(h) /\ depth[now.url] <= depth[h]  BY <1>0, <1>2 DEF Levels
  <2>2. \A i \in 1 .. Len(queue') : Reached(queue'[i]) /\ depth[h] <= depth[queue'[i]]
    <3>1. ASSUME NEW i \in 1 .. Len(queue')
          PROVE  Reached(queue'[i]) /\ depth[h] <= depth[queue'[i]]
      <4>1. i + 1 \in 1 .. Len(queue) /\ 1 \in 1 .. Len(queue) /\ 1 <= i + 1
        BY <1>2, <1>7
      <4>2. QED  BY <1>0, <1>2, <4>1 DEF Levels
    <3>2. QED  BY <3>1
  <2>3. \A i, j \in 1 .. Len(queue') : i <= j => depth[queue'[i]] <= depth[queue'[j]]
    <3>1. ASSUME NEW i \in 1 .. Len(queue'), NEW j \in 1 .. Len(queue'), i <= j
          PROVE  depth[queue'[i]] <= depth[queue'[j]]
      <4>1. i + 1 \in 1 .. Len(queue) /\ j + 1 \in 1 .. Len(queue) /\ i + 1 <= j + 1
        BY <1>2, <1>7, <3>1
      <4>2. QED  BY <1>0, <1>2, <4>1 DEF Levels
    <3>2. QED  BY <3>1
  <2>4. \A p \in SitePages : Reached(p) => depth[p] <= depth[h] + 1
    <3>1. ASSUME NEW p \in SitePages, Reached(p) PROVE depth[p] <= depth[h] + 1
      <4>1. depth[p] \in Nat /\ depth[h] \in Nat /\ depth[now.url] \in Nat
        BY <1>0, <1>2, <1>d, <2>1, <3>1 DEF Reached, Levels
      <4>2. depth[p] <= depth[now.url] + 1  BY <1>0, <3>1 DEF Levels
      <4>3. QED  BY <2>1, <4>1, <4>2
    <3>2. QED  BY <3>1
  <2>5. depth[Homepage] = 0  BY <1>0 DEF Levels
  <2>6. QED  BY <1>0, <1>3, <1>4, <2>1, <2>2, <2>3, <2>4, <2>5 DEF Levels, Reached
<1>9. Expanded'
  <2> SUFFICES ASSUME NEW u \in SitePages, Reached(u), ~Waiting(u)',
                      NEW v \in Neighbours(u)
               PROVE  (u = h /\ v \in Neighbours(h)) \/ Near(u, v)
    BY <1>0, <1>3, <1>4 DEF Expanded, Reached, Near
  <2>1. CASE u = h  BY <2>1
  <2>2. CASE u # h
    <3>1. ~Waiting(u)
      <4>1. SUFFICES ASSUME NEW i \in 1 .. Len(queue), queue[i] = u PROVE FALSE
        BY DEF Waiting
      <4>2. i # 1  BY <1>2, <2>2, <4>1
      <4>3. i - 1 \in 1 .. Len(queue') /\ (i - 1) + 1 = i  BY <1>2, <4>2
      <4>4. queue'[i - 1] = u  BY <1>2, <4>1, <4>3
      <4>5. QED  BY <4>3, <4>4 DEF Waiting
    <3>2. QED  BY <1>0, <3>1 DEF Expanded
  <2>3. QED  BY <2>1, <2>2
<1>10. Ways'  BY <1>0, <1>4 DEF Ways, IsWay, Reached
<1>11. QED  BY <1>0, <1>6, <1>8, <1>9, <1>10 DEF SearchInv
(* A neighbour seen the first time is one click beyond the page under way, *)
(* and goes to the end of the queue.                                       *)
LEMMA SearchReach ==
  ASSUME SearchInv, NEW v \in SitePages, Reach(v)
  PROVE  SearchInv'
<1>0. /\ GraphType /\ Levels /\ Expanded /\ Ways /\ nodes = SitePages
      /\ stage = "depths" /\ stage' = "depths" /\ v \in now.rest
      /\ UNCHANGED <<link, nodes, todo, forest>>
  BY DEF SearchInv, Reach
<1>1. /\ now'.url = now.url /\ now'.rest = now.rest \ {v}
      /\ now' \in [url : SitePages, rest : SUBSET SitePages]
      /\ \/ /\ ~Reached(v)
            /\ depth' = [depth EXCEPT ![v] = depth[now.url] + 1]
            /\ path' = [path EXCEPT ![v] = Append(path[now.url], v)]
            /\ queue' = Append(queue, v)
         \/ Reached(v) /\ UNCHANGED <<depth, path, queue>>
  BY <1>0, ReachSteps
<1>2. \A u : Neighbours(u)' = Neighbours(u)  BY <1>0 DEF Neighbours
<1>3. /\ depth \in [SitePages -> {Unreached} \cup Nat] /\ now.url \in SitePages
      /\ queue \in Seq(SitePages) /\ Len(queue) \in Nat
      /\ path \in [SitePages -> Seq(SitePages)]
  BY <1>0 DEF GraphType
<1>4. v \in Neighbours(now.url) /\ now.rest \subseteq Neighbours(now.url)
  BY <1>0 DEF Levels
<1>5. depth[now.url] \in Nat  BY <1>0, <1>3 DEF Levels, Reached
<1>6. CASE Reached(v) /\ UNCHANGED <<depth, path, queue>>
  <2>1. GraphType'  BY <1>0, <1>1, <1>6 DEF GraphType
  <2>2. Levels'  BY <1>0, <1>1, <1>2, <1>4, <1>6 DEF Levels, Reached
  <2>3. Near(now.url, v)  BY <1>0, <1>6 DEF Near, Levels
  <2>4. Expanded'
    BY <1>0, <1>1, <1>2, <1>6, <2>3 DEF Expanded, Waiting, Near, Reached
  <2>5. Ways'  BY <1>0, <1>2, <1>6 DEF Ways, IsWay, Reached
  <2>6. QED  BY <1>0, <2>1, <2>2, <2>4, <2>5 DEF SearchInv
<1>7. CASE /\ ~Reached(v)
           /\ depth' = [depth EXCEPT ![v] = depth[now.url] + 1]
           /\ path' = [path EXCEPT ![v] = Append(path[now.url], v)]
           /\ queue' = Append(queue, v)
  <2> DEFINE d == depth[now.url] + 1
             way == path[now.url]
             n == Len(queue)
  <2>1. /\ depth'[v] = d /\ d \in Nat /\ d # Unreached
        /\ \A p \in SitePages : p # v => depth'[p] = depth[p]
        /\ now.url # v
    BY <1>0, <1>3, <1>5, <1>7 DEF Unreached, Reached, Levels
  <2>2. /\ queue' \in Seq(SitePages) /\ Len(queue') = n + 1 /\ queue'[n + 1] = v
        /\ \A i \in 1 .. n : queue'[i] = queue[i]
        /\ n \in Nat
    BY <1>3, <1>7
  <2>3. \A p \in SitePages : Reached(p) => Reached(p)' /\ depth'[p] = depth[p]
    BY <1>7, <2>1 DEF Reached
  <2>4. GraphType'
    <3>1. depth' \in [SitePages -> {Unreached} \cup Nat]  BY <1>3, <1>7, <2>1
    <3>2. Append(way, v) \in Seq(SitePages)  BY <1>3
    <3>3. path' \in [SitePages -> Seq(SitePages)]  BY <1>3, <1>7, <3>2
    <3>4. QED  BY <1>0, <1>1, <2>2, <3>1, <3>3 DEF GraphType
  <2>5. \A i \in 1 .. n : /\ queue[i] \in SitePages /\ Reached(queue[i])
                          /\ depth'[queue[i]] = depth[queue[i]]
                          /\ depth[queue[i]] \in Nat /\ depth[queue[i]] <= d
    <3>1. ASSUME NEW i \in 1 .. n
          PROVE  /\ queue[i] \in SitePages /\ Reached(queue[i])
                 /\ depth'[queue[i]] = depth[queue[i]]
                 /\ depth[queue[i]] \in Nat /\ depth[queue[i]] <= d
      <4>1. queue[i] \in SitePages  BY <1>3, ElementOfSeq
      <4>2. Reached(queue[i]) /\ depth[queue[i]] <= d  BY <1>0, <4>1 DEF Levels
      <4>3. QED  BY <1>3, <2>3, <4>1, <4>2 DEF Reached
    <3>2. QED  BY <3>1
  <2>6. Levels'
    <3>1. depth'[Homepage] = 0 /\ depth'[now.url] # Unreached
      BY <1>0, <1>3, <2>3, PageCount DEF Levels, Reached, Unreached
    <3>2. \A i \in 1 .. n + 1 :
            depth'[queue'[i]] # Unreached /\ depth[now.url] <= depth'[queue'[i]]
      <4>1. ASSUME NEW i \in 1 .. n + 1
            PROVE  depth'[queue'[i]] # Unreached /\ depth[now.url] <= depth'[queue'[i]]
        <5>1. CASE i = n + 1  BY <1>5, <2>1, <2>2, <5>1
        <5>2. CASE i # n + 1
          <6>1. i \in 1 .. n  BY <2>2, <5>2
          <6>2. QED  BY <1>0, <2>2, <2>5, <6>1 DEF Levels, Reached
        <5>3. QED  BY <5>1, <5>2
      <4>2. QED  BY <4>1
    <3>3. \A i, j \in 1 .. n + 1 : i <= j => depth'[queue'[i]] <= depth'[queue'[j]]
      <4>1. ASSUME NEW i \in 1 .. n + 1, NEW j \in 1 .. n + 1, i <= j
            PROVE  depth'[queue'[i]] <= depth'[queue'[j]]
        <5>1. CASE i = n + 1
          <6>1. j = i  BY <2>2, <4>1, <5>1
          <6>2. QED  BY <2>1, <2>2, <5>1, <6>1
        <5>2. CASE i # n + 1 /\ j = n + 1
          <6>1. i \in 1 .. n  BY <2>2, <5>2
          <6>2. QED  BY <2>1, <2>2, <2>5, <5>2, <6>1
        <5>3. CASE i # n + 1 /\ j # n + 1
          <6>1. i \in 1 .. n /\ j \in 1 .. n  BY <2>2, <5>3
          <6>2. QED  BY <1>0, <2>2, <2>5, <4>1, <6>1 DEF Levels
        <5>4. QED  BY <5>1, <5>2, <5>3
      <4>2. QED  BY <4>1
    <3>4. \A p \in SitePages : depth'[p] # Unreached => depth'[p] <= d
      BY <1>0, <2>1 DEF Levels, Reached
    <3>5. depth'[now.url] = depth[now.url]  BY <1>3, <2>1
    <3>6. QED
      BY <1>1, <1>2, <1>4, <2>2, <3>1, <3>2, <3>3, <3>4, <3>5 DEF Levels, Reached
  <2>7. Expanded'
    <3> SUFFICES ASSUME NEW u \in SitePages, Reached(u)', ~Waiting(u)',
                        NEW x \in Neighbours(u)
                 PROVE  (u = now.url /\ x \in now.rest \ {v}) \/ Near(u, x)'
      BY <1>1, <1>2 DEF Expanded
    <3>1. u # v  BY <2>2 DEF Waiting
    <3>2. Reached(u) /\ depth'[u] = depth[u]  BY <2>1, <3>1 DEF Reached
    <3>3. ~Waiting(u)
      <4>1. SUFFICES ASSUME NEW i \in 1 .. n, queue[i] = u PROVE FALSE  BY DEF Waiting
      <4>2. i \in 1 .. Len(queue') /\ queue'[i] = u  BY <2>2, <4>1
      <4>3. QED  BY <4>2 DEF Waiting
    <3>4. (u = now.url /\ x \in now.rest) \/ Near(u, x)  BY <1>0, <3>2, <3>3 DEF Expanded
    <3>5. x \in SitePages  BY DEF Neighbours
    <3>6. CASE u = now.url /\ x = v  BY <1>5, <2>1, <3>2, <3>6 DEF Near, Reached
    <3>7. CASE Near(u, x)  BY <2>3, <3>2, <3>5, <3>7 DEF Near
    <3>8. QED  BY <3>4, <3>6, <3>7
  <2>8. Ways'
    <3>1. IsWay(now.url, way)  BY <1>0, <1>3 DEF Ways, Levels
    <3> DEFINE new == Append(way, v)
    <3>2. /\ way \in Seq(SitePages) /\ Len(way) = d /\ Len(new) = d + 1
          /\ new[d + 1] = v /\ \A i \in 1 .. d : new[i] = way[i]
          /\ d >= 1
      BY <1>3, <1>5, <3>1 DEF IsWay
    <3>3. \A i \in 1 .. d : way[i] \in SitePages /\ depth'[way[i]] = i - 1
      <4>1. ASSUME NEW i \in 1 .. d PROVE way[i] \in SitePages /\ depth'[way[i]] = i - 1
        <5>1. way[i] \in SitePages  BY <3>2, ElementOfSeq
        <5>2. depth[way[i]] = i - 1  BY <3>1, <3>2 DEF IsWay
        <5>3. Reached(way[i])  BY <5>2 DEF Reached, Unreached
        <5>4. QED  BY <2>3, <5>1, <5>2, <5>3
      <4>2. QED  BY <4>1
    <3>4. new[1] = Homepage  BY <3>1, <3>2 DEF IsWay
    <3>5. \A i \in 1 .. d : new[i + 1] \in Neighbours(new[i])
      <4>1. ASSUME NEW i \in 1 .. d PROVE new[i + 1] \in Neighbours(new[i])
        <5>1. CASE i = d
          <6>1. new[i] = now.url  BY <3>1, <3>2, <5>1 DEF IsWay
          <6>2. QED  BY <1>4, <3>2, <5>1, <6>1
        <5>2. CASE i # d
          <6>1. i \in 1 .. Len(way) - 1 /\ i + 1 \in 1 .. d  BY <3>2, <5>2
          <6>2. QED  BY <3>1, <3>2, <6>1 DEF IsWay
        <5>3. QED  BY <5>1, <5>2
      <4>2. QED  BY <4>1
    <3>6. \A i \in 1 .. d + 1 : depth'[new[i]] = i - 1
      <4>1. ASSUME NEW i \in 1 .. d + 1 PROVE depth'[new[i]] = i - 1
        <5>1. CASE i = d + 1  BY <2>1, <3>2, <5>1
        <5>2. CASE i # d + 1
          <6>1. i \in 1 .. d  BY <2>1, <5>2
          <6>2. QED  BY <3>2, <3>3, <6>1
        <5>3. QED  BY <5>1, <5>2
      <4>2. QED  BY <4>1
    <3>7. path'[v] = new  BY <1>3, <1>7
    <3>8. IsWay(v, path[v])'
      <4> HIDE DEF new, d
      <4>1. d \in Nat /\ (d + 1) - 1 = d  BY <2>1
      <4>2. QED
        BY <1>2, <2>1, <3>2, <3>4, <3>5, <3>6, <3>7, <4>1 DEF IsWay
    <3>9. ASSUME NEW p \in SitePages, p # v
          PROVE  IF Reached(p)' THEN IsWay(p, path[p])' ELSE path'[p] = << >>
      <4>1. path'[p] = path[p] /\ depth'[p] = depth[p]  BY <1>3, <1>7, <2>1, <3>9
      <4>2. CASE ~Reached(p)  BY <1>0, <4>1, <4>2 DEF Ways, Reached
      <4>3. CASE Reached(p)
        <5>1. IsWay(p, path[p]) /\ path[p] \in Seq(SitePages)
          BY <1>0, <1>3, <4>3 DEF Ways
        <5>2. \A i \in 1 .. Len(path[p]) : depth'[path[p][i]] = i - 1
          <6>1. ASSUME NEW i \in 1 .. Len(path[p]) PROVE depth'[path[p][i]] = i - 1
            <7>1. path[p][i] \in SitePages  BY <5>1, ElementOfSeq
            <7>2. depth[path[p][i]] = i - 1  BY <5>1 DEF IsWay
            <7>3. Len(path[p]) \in Nat  BY <5>1
            <7>4. Reached(path[p][i])  BY <7>2, <7>3 DEF Reached, Unreached
            <7>5. QED  BY <2>3, <7>1, <7>2, <7>4
          <6>2. QED  BY <6>1
        <5>3. IsWay(p, path[p])'  BY <1>2, <4>1, <5>1, <5>2 DEF IsWay
        <5>4. QED  BY <2>3, <4>3, <5>3
      <4>4. QED  BY <4>2, <4>3
    <3>10. Reached(v)'  BY <2>1 DEF Reached
    <3>11. QED  BY <3>8, <3>9, <3>10 DEF Ways
  <2>9. QED  BY <1>0, <2>4, <2>6, <2>7, <2>8 DEF SearchInv
<1>8. QED  BY <1>1, <1>6, <1>7

(* The end of the search, and the other analysis, which does not touch it. *)
LEMMA SearchOthers ==
  ASSUME SearchInv,
         \/ DepthsDone \/ StartComponents \/ ComponentsDone
         \/ \E l \in MayLink : Unite(l)
         \/ UNCHANGED graphVars
  PROVE  SearchInv'
<1>0. GraphType  BY DEF SearchInv
<1>1. UNCHANGED <<queue, now, depth, path>>
  BY DEF DepthsDone, StartComponents, ComponentsDone, Unite, graphVars
<1>2. UNCHANGED link => (Levels => Levels') /\ (Expanded => Expanded') /\ (Ways => Ways')
  <2> SUFFICES ASSUME UNCHANGED link
               PROVE  (Levels => Levels') /\ (Expanded => Expanded') /\ (Ways => Ways')
    OBVIOUS
  <2>1. \A u : Neighbours(u)' = Neighbours(u)  BY DEF Neighbours
  <2>2. Levels => Levels'  BY <1>1, <2>1 DEF Levels, Reached
  <2>3. Expanded => Expanded'
    BY <1>1, <2>1 DEF Expanded, Waiting, Near, Reached
  <2>4. Ways => Ways'  BY <1>1, <2>1 DEF Ways, IsWay, Reached
  <2>5. QED  BY <2>2, <2>3, <2>4
<1>3. GraphType'
  <2>1. CASE StartComponents
    <3>1. link' \in [MayLink -> Sorts]  BY <2>1 DEF StartComponents, Sorts
    <3>2. nodes' \subseteq SitePages /\ todo' \subseteq MayLink
      BY <2>1 DEF StartComponents
    <3>3. forest' \subseteq SUBSET SitePages  BY <2>1, <3>2 DEF StartComponents
    <3>4. QED
      BY <1>0, <1>1, <2>1, <3>1, <3>2, <3>3 DEF GraphType, StartComponents
  <2>2. ASSUME NEW l \in MayLink, Unite(l) PROVE GraphType'
    <3>1. l[1] \in SitePages /\ l[2] \in SitePages  BY PageCount
    <3>2. \A p \in SitePages : SetOf(p) \subseteq SitePages
      BY <1>0 DEF SetOf, GraphType, Known
    <3>3. forest' \subseteq SUBSET SitePages
      BY <1>0, <2>2, <3>1, <3>2 DEF Unite, GraphType
    <3>4. QED  BY <1>0, <1>1, <2>2, <3>3 DEF GraphType, Unite
  <2>3. CASE DepthsDone \/ ComponentsDone \/ UNCHANGED graphVars
    BY <1>0, <2>3 DEF GraphType, DepthsDone, ComponentsDone, graphVars
  <2>4. QED  BY <2>1, <2>2, <2>3
<1>4. CASE DepthsDone
  BY <1>1, <1>2, <1>3, <1>4 DEF SearchInv, DepthsDone
<1>5. CASE StartComponents \/ ComponentsDone \/ \E l \in MayLink : Unite(l)
  <2>1. /\ stage \notin {"depths", "depths done"}
        /\ stage' \notin {"depths", "depths done"}
    BY <1>5 DEF StartComponents, ComponentsDone, Unite
  <2>2. stage' # "crawl"
    BY <1>5 DEF StartComponents, ComponentsDone, Unite
  <2>3. \A p \in SitePages : ~Reached(p)' /\ path'[p] = << >>
    BY <1>1, <2>1 DEF SearchInv, Reached
  <2>4. QED  BY <1>3, <2>1, <2>2, <2>3 DEF SearchInv
<1>6. CASE UNCHANGED graphVars
  BY <1>1, <1>2, <1>3, <1>6 DEF SearchInv, Reached, graphVars
<1>7. QED  BY <1>4, <1>5, <1>6

(* The search keeps its invariant.                                         *)
LEMMA SearchStep == SearchInv /\ [GraphNext]_graphVars => SearchInv'
<1> SUFFICES ASSUME SearchInv, [GraphNext]_graphVars PROVE SearchInv'  OBVIOUS
<1>1. CASE StartDepths  BY <1>1, SearchStart
<1>2. CASE Shift  BY <1>2, SearchShift
<1>3. CASE \E v \in SitePages : Reach(v)  BY <1>3, SearchReach
<1>4. CASE \/ DepthsDone \/ StartComponents \/ ComponentsDone
           \/ \E l \in MayLink : Unite(l)
           \/ UNCHANGED graphVars
  BY <1>4, SearchOthers
<1>5. QED  BY <1>1, <1>2, <1>3, <1>4 DEF GraphNext

(* The pages of a way are of different depths, so it has no more of them   *)
(* than there are.                                                         *)
LEMMA DepthBound ==
  ASSUME GraphType, Ways, NEW p \in SitePages, Reached(p)
  PROVE  depth[p] \in 0 .. Cardinality(SitePages)
<1> DEFINE way == path[p]
<1>1. IsWay(p, way) /\ way \in Seq(SitePages) /\ depth[p] \in Nat
  BY DEF GraphType, Ways, Reached
<1>2. Len(way) = depth[p] + 1 /\ way \in [1 .. Len(way) -> SitePages]
  BY <1>1, LenProperties DEF IsWay
<1>3. \A i, j \in 1 .. Len(way) : way[i] = way[j] => i = j
  <2>1. ASSUME NEW i \in 1 .. Len(way), NEW j \in 1 .. Len(way), way[i] = way[j]
        PROVE  i = j
    <3>1. depth[way[i]] = i - 1 /\ depth[way[j]] = j - 1  BY <1>1 DEF IsWay
    <3>2. i - 1 = j - 1  BY <2>1, <3>1
    <3>3. QED  BY <1>1, <1>2, <3>2
  <2>2. QED  BY <2>1
<1>4. way \in Injection(1 .. Len(way), SitePages)
  BY <1>2, <1>3 DEF Injection, IsInjective
<1>5. Cardinality(1 .. Len(way)) <= Cardinality(SitePages)
  BY <1>4, PageCount, FS_Injection
<1>6. Cardinality(1 .. Len(way)) = Len(way)
  <2>1. 1 \in Int /\ Len(way) \in Int /\ Len(way) >= 1  BY <1>1, <1>2
  <2>2. Cardinality(1 .. Len(way)) = IF 1 > Len(way) THEN 0 ELSE Len(way) - 1 + 1
    BY <2>1, FS_Interval
  <2>3. QED  BY <2>1, <2>2
<1>7. QED  BY <1>1, <1>2, <1>5, <1>6, PageCount

(* A page of depth d is within d clicks: its path shows it.                *)
LEMMA DepthIsEnough ==
  ASSUME GraphType, Ways, NEW p \in SitePages, Reached(p)
  PROVE  p \in Within[depth[p]]
<1> DEFINE way == path[p]
           d == depth[p]
           Missed == {n \in 0 .. d : way[n + 1] \notin Within[n]}
<1>1. IsWay(p, way) /\ way \in Seq(SitePages) /\ d \in Nat
  BY DEF GraphType, Ways, Reached
<1>2. SUFFICES Missed = {}
  <2>1. way[d + 1] = p  BY <1>1 DEF IsWay
  <2>2. d \in 0 .. d  BY <1>1
  <2>3. QED  BY <2>1, <2>2
<1>3. SUFFICES ASSUME Missed # {} PROVE FALSE  OBVIOUS
<1>4. PICK n \in Missed : \A m \in Missed : n <= m
  <2>1. Missed \in SUBSET Nat  BY <1>1
  <2> HIDE DEF Missed
  <2>2. QED  BY <1>3, <2>1, LeastOf
<1>5. n \in 0 .. d /\ way[n + 1] \notin Within[n]  OBVIOUS
<1>6. CASE n = 0
  <2>1. way[1] = Homepage  BY <1>1 DEF IsWay
  <2>2. QED  BY <1>5, <1>6, <2>1, WithinIs
<1>7. CASE n # 0
  <2> DEFINE m == n - 1
  <2>1. m \in 0 .. d /\ m + 1 = n /\ m \in Nat /\ ~(n <= m)  BY <1>1, <1>5, <1>7
  <2>2. way[m + 1] \in Within[m]  BY <1>4, <2>1
  <2>3. n \in 1 .. Len(way) - 1  BY <1>1, <1>5, <1>7 DEF IsWay
  <2>4. way[n + 1] \in Neighbours(way[n])  BY <1>1, <2>3 DEF IsWay
  <2>5. Within[n] = Widened(Within[m])  BY <2>1, WithinIs
  <2>6. QED  BY <1>5, <2>1, <2>2, <2>4, <2>5 DEF Widened
<1>8. QED  BY <1>6, <1>7

(* When the search is over, a page within n clicks is reached, at depth n  *)
(* at most.                                                                *)
LEMMA WithinIsReached ==
  ASSUME SearchInv, SearchOver, NEW n \in Nat
  PROVE  \A p \in Within[n] : p \in SitePages /\ Reached(p) /\ depth[p] <= n
<1> DEFINE Good(k) == \A p \in Within[k] : p \in SitePages /\ Reached(p) /\ depth[p] <= k
           Missed == {k \in Nat : ~Good(k)}
<1>0. GraphType /\ Levels /\ Expanded /\ queue = << >> /\ now.rest = {}
  BY DEF SearchInv, SearchOver
<1>1. SUFFICES Missed = {}  OBVIOUS
<1>2. Good(0)
  <2>1. depth[Homepage] = 0  BY <1>0 DEF Levels
  <2>2. Homepage \in SitePages /\ Reached(Homepage) /\ depth[Homepage] <= 0
    BY <2>1, PageCount DEF Reached, Unreached
  <2>3. QED  BY <2>2, WithinIs
<1>3. ASSUME NEW m \in Nat, Good(m) PROVE Good(m + 1)
  <2> SUFFICES ASSUME NEW p \in Within[m + 1]
               PROVE  p \in SitePages /\ Reached(p) /\ depth[p] <= m + 1
    OBVIOUS
  <2>1. p \in Widened(Within[m])  BY WithinIs
  <2>2. CASE p \in Within[m]
    <3>1. p \in SitePages /\ Reached(p) /\ depth[p] <= m  BY <1>3, <2>2
    <3>2. depth[p] \in Nat  BY <1>0, <3>1 DEF GraphType, Reached
    <3>3. QED  BY <3>1, <3>2
  <2>3. CASE \E u \in Within[m] : p \in Neighbours(u)
    <3>1. PICK u \in Within[m] : p \in Neighbours(u)  BY <2>3
    <3>2. u \in SitePages /\ Reached(u) /\ depth[u] <= m  BY <1>3
    <3>3. Len(queue) = 0  BY <1>0, EmptySeq
    <3>4. ~Waiting(u)  BY <3>3 DEF Waiting
    <3>5. Near(u, p)  BY <1>0, <3>1, <3>2, <3>4 DEF Expanded
    <3>6. p \in SitePages  BY <3>1 DEF Neighbours
    <3>7. depth[u] \in Nat /\ depth[p] \in Nat
      BY <1>0, <3>2, <3>5, <3>6 DEF GraphType, Reached, Near
    <3>8. Reached(p) /\ depth[p] <= depth[u] + 1  BY <3>5 DEF Near
    <3>9. QED  BY <3>2, <3>6, <3>7, <3>8
  <2>4. QED  BY <2>1, <2>2, <2>3 DEF Widened
<1> HIDE DEF Good
<1>4. ASSUME Missed # {} PROVE FALSE
  <2>1. PICK k \in Missed : \A m \in Missed : k <= m
    <3>1. Missed \in SUBSET Nat  OBVIOUS
    <3> HIDE DEF Missed
    <3>2. QED  BY <1>4, <3>1, LeastOf
  <2>2. k \in Nat /\ ~Good(k)  OBVIOUS
  <2>3. k # 0  BY <1>2, <2>2
  <2>4. k - 1 \in Nat /\ ~(k <= k - 1) /\ (k - 1) + 1 = k  BY <2>2, <2>3
  <2>5. Good(k - 1)  BY <2>1, <2>4
  <2>6. Good((k - 1) + 1)  BY <1>3, <2>4, <2>5
  <2>7. QED  BY <2>2, <2>4, <2>6
<1>5. QED  BY <1>4

(* The depths are the numbers of clicks.                                   *)
LEMMA ClicksAre ==
  ASSUME SearchInv, SearchOver, NEW p \in SitePages
  PROVE  depth[p] = Clicks(p)
<1> DEFINE at == {n \in 0 .. Cardinality(SitePages) : p \in Within[n]}
<1>0. GraphType /\ Ways  BY DEF SearchInv, SearchOver
<1>1. at \subseteq Nat /\ \A n \in at : p \in Within[n]
  <2>1. 0 .. Cardinality(SitePages) \subseteq Nat  BY PageCount
  <2>2. QED  BY <2>1
<1>2. \A n \in at : Reached(p) /\ depth[p] <= n
  BY <1>1, WithinIsReached
<1>3. Clicks(p) = IF at = {} THEN Unreached ELSE CHOOSE n \in at : \A m \in at : n <= m
  BY Zenon DEF Clicks
<1>4. CASE Reached(p)
  <2>1. depth[p] \in at  BY <1>0, <1>4, DepthBound, DepthIsEnough
  <2> HIDE DEF at
  <2>2. \A n \in at : (\A m \in at : n <= m) => n = depth[p]
    <3>1. ASSUME NEW n \in at, \A m \in at : n <= m PROVE n = depth[p]
      <4>1. n <= depth[p] /\ depth[p] <= n  BY <1>2, <2>1, <3>1
      <4>2. n \in Nat /\ depth[p] \in Nat  BY <1>1, <2>1
      <4>3. QED  BY <4>1, <4>2
    <3>2. QED  BY <3>1
  <2>3. (CHOOSE n \in at : \A m \in at : n <= m) = depth[p]
    BY <1>2, <2>1, <2>2
  <2>4. QED  BY <1>3, <2>1, <2>3
<1>5. CASE ~Reached(p)
  <2>1. at = {}  BY <1>2, <1>5
  <2>2. QED  BY <1>3, <1>5, <2>1 DEF Reached
<1>6. QED  BY <1>4, <1>5

(* For any graph, in whatever order the neighbours of a page are taken:    *)
(* when the search is over, the depth of every page is the least number of *)
(* clicks from the homepage, and its path is a way of that length.         *)
THEOREM DepthsAreClicks == GraphSpec => []DepthIsClicks
<1>1. SearchInv => DepthIsClicks
  <2> SUFFICES ASSUME SearchInv, SearchOver, NEW p \in SitePages
               PROVE  /\ depth[p] = Clicks(p)
                      /\ Len(path[p]) = depth[p] + 1
                      /\ depth[p] # Unreached =>
                           path[p][1] = Homepage /\ path[p][Len(path[p])] = p
                      /\ \A i \in 1 .. Len(path[p]) - 1 :
                           path[p][i + 1] \in Neighbours(path[p][i])
    BY DEF DepthIsClicks, SearchOver
  <2>1. depth[p] = Clicks(p)  BY ClicksAre
  <2>2. Ways  BY DEF SearchInv, SearchOver
  <2>3. CASE Reached(p)
    <3>1. IsWay(p, path[p])  BY <2>2, <2>3 DEF Ways
    <3>2. QED  BY <2>1, <3>1 DEF IsWay
  <2>4. CASE ~Reached(p)
    <3>1. path[p] = << >> /\ depth[p] = -1
      BY <2>2, <2>4 DEF Ways, Reached, Unreached
    <3>2. Len(path[p]) = 0  BY <3>1, EmptySeq
    <3>3. 0 = -1 + 1 /\ ~ \E i \in 1 .. 0 - 1 : TRUE  OBVIOUS
    <3>4. QED  BY <2>1, <2>4, <3>1, <3>2, <3>3 DEF Reached
  <2>5. QED  BY <2>3, <2>4
<1>2. QED  BY SearchInit, SearchStep, <1>1, PTL DEF GraphSpec

(* Every variable of the graph keeps its type; in particular no depth      *)
(* exceeds the number of pages.                                            *)
THEOREM GraphTyped == GraphSpec => []GraphTypeOK
<1>1. SearchInv => GraphTypeOK
  <2> SUFFICES ASSUME SearchInv PROVE GraphTypeOK  OBVIOUS
  <2>1. GraphType  BY DEF SearchInv
  <2>2. \A p \in SitePages : depth[p] \in {Unreached} \cup 0 .. Cardinality(SitePages)
    <3>1. ASSUME NEW p \in SitePages, Reached(p)
          PROVE  depth[p] \in 0 .. Cardinality(SitePages)
      <4>1. Ways  BY <3>1 DEF SearchInv
      <4>2. QED  BY <2>1, <3>1, <4>1, DepthBound
    <3>2. QED  BY <3>1 DEF Reached
  <2>3. QED  BY <2>1, <2>2 DEF GraphType, GraphTypeOK
<1>2. QED  BY SearchInit, SearchStep, <1>1, PTL DEF GraphSpec
-----------------------------------------------------------------------------
(* Inbound links, orphans and tiers.                                       *)

(* A product grows with either factor.                                     *)
LEMMA ProductGrows ==
  ASSUME NEW a \in Nat, NEW b \in Nat, NEW w \in Nat, a <= b
  PROVE  a * w \in Nat /\ b * w \in Nat /\ a * w <= b * w
<1>1. (b - a) * w >= 0 /\ b - a \in Nat  OBVIOUS
<1>2. (b - a) * w = b * w - a * w  OBVIOUS
<1>3. a * w \in Nat /\ b * w \in Nat  OBVIOUS
<1>4. QED  BY <1>1, <1>2, <1>3

(* What is added before the division rounds nothing up to one.             *)
LEMMA HalfIsNone == ASSUME NEW h \in Nat, h > 0 PROVE h \div (2 * h) = 0
<1> DEFINE d == 2 * h
<1>1. d \in Nat /\ d > h  OBVIOUS
<1> HIDE DEF d
<1>2. h \div d = 0  BY <1>1
<1>3. QED  BY <1>2 DEF d

(* The links of a sort into a page, and their number.                      *)
Of(p, sort) == {l \in Inbound(p) : link[l] = sort}

LEMMA Counts ==
  ASSUME GraphType, NEW p
  PROVE  /\ IsFiniteSet(Inbound(p)) /\ Cardinality(Inbound(p)) \in Nat
         /\ Cardinality(Inbound(p)) = 0 <=> IsOrphaned(p)
         /\ \A sort : /\ Cardinality(Of(p, sort)) \in Nat
                      /\ Cardinality(Of(p, sort)) <= Cardinality(MayLink)
                      /\ IsOrphaned(p) => Cardinality(Of(p, sort)) = 0
<1>1. Inbound(p) \subseteq MayLink  BY DEF Inbound, Links
<1>2. IsFiniteSet(Inbound(p))  BY <1>1, PageCount, FS_Subset
<1>3. /\ Cardinality(Inbound(p)) \in Nat
      /\ Cardinality(Inbound(p)) = 0 <=> IsOrphaned(p)
  BY <1>2, FS_CardinalityType, FS_EmptySet DEF IsOrphaned
<1>4. ASSUME NEW sort
      PROVE  /\ Cardinality(Of(p, sort)) \in Nat
             /\ Cardinality(Of(p, sort)) <= Cardinality(MayLink)
             /\ IsOrphaned(p) => Cardinality(Of(p, sort)) = 0
  <2>1. Of(p, sort) \subseteq MayLink  BY <1>1 DEF Of
  <2>2. IsOrphaned(p) => Of(p, sort) = {}  BY DEF Of, IsOrphaned
  <2>3. QED  BY <2>1, <2>2, PageCount, FS_Subset, FS_CardinalityType, FS_EmptySet
<1>5. QED  BY <1>2, <1>3, <1>4

LEMMA ScoreIs ==
  ASSUME GraphType, NEW p
  PROVE  /\ RawScore(p) = Cardinality(Of(p, "followed")) * Weight["followed"]
                            + Cardinality(Of(p, "other")) * Weight["other"]
         /\ RawScore(p) \in Nat
         /\ RawScore(p) <= Cardinality(MayLink) * Weight["followed"]
                             + Cardinality(MayLink) * Weight["other"]
         /\ IsOrphaned(p) => RawScore(p) = 0
<1> DEFINE a == Cardinality(Of(p, "followed"))
           b == Cardinality(Of(p, "other"))
           n == Cardinality(MayLink)
           v == Weight["followed"]
           w == Weight["other"]
<1>1. RawScore(p) = a * v + b * w  BY DEF RawScore, Of
<1>2. v \in Nat /\ w \in Nat  BY LinkAssumption
<1>3. a \in Nat /\ b \in Nat /\ n \in Nat /\ a <= n /\ b <= n
  BY Counts, PageCount, FS_CardinalityType
<1>4. IsOrphaned(p) => a = 0 /\ b = 0  BY Counts
<1> HIDE DEF a, b, n, v, w
<1>5. /\ a * v \in Nat /\ n * v \in Nat /\ a * v <= n * v
      /\ b * w \in Nat /\ n * w \in Nat /\ b * w <= n * w
  BY <1>2, <1>3, ProductGrows
<1>6. a * v + b * w \in Nat /\ a * v + b * w <= n * v + n * w  BY <1>5
<1>7. IsOrphaned(p) => a * v + b * w = 0  BY <1>2, <1>4
<1>8. QED  BY <1>1, <1>6, <1>7 DEF a, b, n, v, w

(* There is a highest score.                                               *)
LEMMA HighestIs ==
  ASSUME GraphType
  PROVE  Highest \in Nat /\ \A p \in SitePages : RawScore(p) <= Highest
<1> DEFINE T == {RawScore(p) : p \in SitePages}
           bound == Cardinality(MayLink) * Weight["followed"]
                      + Cardinality(MayLink) * Weight["other"]
<1>1. T \in SUBSET Nat /\ T # {} /\ \A n \in T : n <= bound
  BY ScoreIs, PageCount
<1>2. bound \in Nat
  <2> DEFINE n == Cardinality(MayLink)
             v == Weight["followed"]
             w == Weight["other"]
  <2>1. n \in Nat /\ v \in Nat /\ w \in Nat
    BY PageCount, LinkAssumption, FS_CardinalityType
  <2> HIDE DEF n, v, w
  <2>2. n <= n  BY <2>1
  <2>3. n * v \in Nat /\ n * w \in Nat  BY <2>1, <2>2, ProductGrows
  <2>4. n * v + n * w \in Nat  BY <2>3
  <2>5. QED  BY <2>4 DEF n, v, w
<1>3. \E n \in T : \A m \in T : m <= n
  <2> HIDE DEF T, bound
  <2>1. QED  BY <1>1, <1>2, GreatestOf
<1>4. \E n \in T : \A p \in SitePages : RawScore(p) <= n  BY <1>3
<1>5. Highest = CHOOSE n \in T : \A p \in SitePages : RawScore(p) <= n
  BY DEF Highest
<1>6. Highest \in T /\ \A p \in SitePages : RawScore(p) <= Highest
  <2> HIDE DEF T
  <2>1. QED  BY <1>4, <1>5, Zenon
<1>7. QED  BY <1>1, <1>6

(* The scorer calls the pages without inbound links isolated and no other. *)
LEMMA IsolatedIsOrphaned ==
  ASSUME GraphType, NEW p \in SitePages
  PROVE  IsOrphaned(p) <=> TierOf(p) = "isolated"
<1> DEFINE s == Normalized(p)
           c == Cardinality(Inbound(p))
<1>1. c = 0 <=> IsOrphaned(p)  BY Counts
<1>2. TierOf(p) = Tier(s, c)  BY Zenon DEF TierOf
<1>3. CASE IsOrphaned(p)
  <2>1. RawScore(p) = 0  BY <1>3, ScoreIs
  <2>2. s = 0
    <3> DEFINE h == Highest
               r == RawScore(p)
               n == 2 * 10000 * r + h
               d == 2 * h
    <3>1. h \in Nat  BY HighestIs
    <3>2. s = IF h = 0 THEN 0 ELSE n \div d
      BY Zenon DEF Normalized
    <3>3. r = 0  BY <2>1
    <3> HIDE DEF h, r, s
    <3>4. n = h  BY <3>1, <3>3
    <3>5. h # 0 => h \div d = 0  BY <3>1, HalfIsNone
    <3> HIDE DEF n, d
    <3>6. QED  BY <3>2, <3>4, <3>5, Zenon
  <2>3. c = 0  BY <1>1, <1>3
  <2> HIDE DEF s, c
  <2>4. s < AverageAt /\ s < StrongAt /\ s < HubAt  BY <2>2, LinkAssumption
  <2>5. ~(s >= HubAt) /\ ~(StrongAt <= s) /\ ~(AverageAt <= s)
    BY <2>2, <2>4, LinkAssumption
  <2>6. Tier(s, c) = "isolated"  BY <2>2, <2>3, <2>5 DEF Tier
  <2>7. QED  BY <1>2, <1>3, <2>6
<1>4. CASE ~IsOrphaned(p)
  <2>1. c # 0  BY <1>1, <1>4
  <2> HIDE DEF s, c
  <2>2. Tier(s, c) # "isolated"  BY <2>1 DEF Tier
  <2>3. QED  BY <1>2, <1>4, <2>2
<1>5. QED  BY <1>3, <1>4

(* A page the search reached, other than the homepage, has an inbound      *)
(* link: the last one of its path.                                         *)
LEMMA ReachedHasInbound ==
  ASSUME GraphType, Ways, NEW p \in SitePages, Reached(p), p # Homepage
  PROVE  ~IsOrphaned(p)
<1> DEFINE way == path[p]
           i == Len(way) - 1
<1>1. IsWay(p, way) /\ way \in Seq(SitePages) /\ depth[p] \in Nat
  BY DEF GraphType, Ways, Reached
<1>2. Len(way) = depth[p] + 1 /\ way[1] = Homepage /\ way[Len(way)] = p
  BY <1>1 DEF IsWay
<1>3. Len(way) # 1  BY <1>2
<1>4. i \in 1 .. Len(way) - 1 /\ i + 1 = Len(way)  BY <1>1, <1>2, <1>3
<1>5. way[i + 1] \in Neighbours(way[i])  BY <1>1, <1>4 DEF IsWay
<1>6. p \in Neighbours(way[i])  BY <1>2, <1>4, <1>5
<1>7. <<way[i], p>> \in MayLink /\ link[<<way[i], p>>] = "followed"
  BY <1>6 DEF Neighbours
<1>8. <<way[i], p>> \in Inbound(p)  BY <1>7 DEF Inbound, Links
<1>9. QED  BY <1>8 DEF IsOrphaned

(* For any graph, weights and thresholds: a page is without inbound links  *)
(* exactly when the scorer calls it isolated, and the search then does not *)
(* reach it, the homepage apart.                                           *)
THEOREM OrphansAreAgreed == GraphSpec => []OrphansAgree
<1>1. SearchInv => OrphansAgree
  <2> SUFFICES ASSUME SearchInv, SearchOver, NEW p \in SitePages
               PROVE  /\ IsOrphaned(p) <=> TierOf(p) = "isolated"
                      /\ IsOrphaned(p) /\ p # Homepage => depth[p] = Unreached
    BY DEF OrphansAgree, SearchOver
  <2>1. GraphType /\ Ways  BY DEF SearchInv, SearchOver
  <2>2. IsOrphaned(p) <=> TierOf(p) = "isolated"  BY <2>1, IsolatedIsOrphaned
  <2>3. Reached(p) /\ p # Homepage => ~IsOrphaned(p)
    BY <2>1, ReachedHasInbound
  <2>4. QED  BY <2>2, <2>3 DEF Reached
<1>2. QED  BY SearchInit, SearchStep, <1>1, PTL DEF GraphSpec
-----------------------------------------------------------------------------
(* The union-find.  The sets of known URLs are disjoint, each lies within  *)
(* one component of the graph, and when the crawl has every page that a    *)
(* link leads to, a link that is done has both its ends in one of them.    *)
Counting == stage \in {"components", "components done"}
CountingOver == stage = "components done"

Whole == \A l \in Links : l[1] \in nodes /\ l[2] \in nodes

OneComponent(s) ==
  \A c \in SUBSET SitePages : ClosedBothWays(c) /\ s \cap c # {} => s \subseteq c

Apart == \A s, t \in forest : s \cap t # {} => s = t

ForestInv ==
  /\ {} \notin forest /\ Apart
  /\ nodes \subseteq Known
  /\ \A s \in forest : OneComponent(s)
  /\ todo \subseteq Links
  /\ Whole => /\ Known = nodes
              /\ \A l \in Links \ todo : \E s \in forest : l[1] \in s /\ l[2] \in s

UnionInv ==
  /\ GraphType
  /\ Counting => ForestInv
  /\ CountingOver => todo = {}

(* The set of a URL has it, and is one of the forest or the URL alone.     *)
LEMMA SetOfIs ==
  ASSUME NEW p
  PROVE  /\ p \in SetOf(p)
         /\ SetOf(p) \in forest \/ (p \notin Known /\ SetOf(p) = {p})
<1>1. CASE p \in Known
  <2>1. \E s \in forest : p \in s  BY <1>1 DEF Known
  <2>2. SetOf(p) = CHOOSE s \in forest : p \in s  BY <1>1 DEF SetOf
  <2>3. QED  BY <2>1, <2>2, Zenon
<1>2. CASE p \notin Known  BY <1>2 DEF SetOf
<1>3. QED  BY <1>1, <1>2

(* A URL alone is together, and so are two sets that a link joins.         *)
LEMMA JoinedTogether ==
  /\ \A p : OneComponent({p})
  /\ \A s, t \in SUBSET SitePages :
       /\ OneComponent(s) /\ OneComponent(t)
       /\ \E u \in s, v \in t : Joined(u, v)
       => OneComponent(s \cup t)
<1>1. \A p : OneComponent({p})  BY DEF OneComponent
<1>2. ASSUME NEW s \in SUBSET SitePages, NEW t \in SUBSET SitePages,
             OneComponent(s), OneComponent(t), NEW u \in s, NEW v \in t, Joined(u, v)
      PROVE  OneComponent(s \cup t)
  <2> SUFFICES ASSUME NEW c \in SUBSET SitePages, ClosedBothWays(c),
                      (s \cup t) \cap c # {}
               PROVE  s \cup t \subseteq c
    BY DEF OneComponent
  <2>1. Joined(v, u)  BY <1>2 DEF Joined
  <2>2. u \in SitePages /\ v \in SitePages  OBVIOUS
  <2>3. CASE s \cap c # {}
    <3>1. s \subseteq c  BY <1>2, <2>3 DEF OneComponent
    <3>2. v \in c  BY <1>2, <2>2, <3>1 DEF ClosedBothWays
    <3>3. t \cap c # {}  BY <3>2
    <3>4. t \subseteq c  BY <1>2, <3>3 DEF OneComponent
    <3>5. QED  BY <3>1, <3>4
  <2>4. CASE t \cap c # {}
    <3>1. t \subseteq c  BY <1>2, <2>4 DEF OneComponent
    <3>2. u \in c  BY <2>1, <2>2, <3>1 DEF ClosedBothWays
    <3>3. s \cap c # {}  BY <3>2
    <3>4. s \subseteq c  BY <1>2, <3>3 DEF OneComponent
    <3>5. QED  BY <3>1, <3>4
  <2>5. QED  BY <2>3, <2>4
<1>3. QED  BY <1>1, <1>2

(* At the start every page of the crawl is alone.                          *)
LEMMA ForestStart ==
  ASSUME UnionInv, StartComponents
  PROVE  ForestInv'
<1>1. /\ todo' = {l \in MayLink : link'[l] # "none"}
      /\ forest' = {{p} : p \in nodes'} /\ nodes' \in SUBSET SitePages
  BY DEF StartComponents
<1>2. {} \notin forest' /\ Apart'  BY <1>1 DEF Apart
<1>3. Known' = nodes'  BY <1>1 DEF Known
<1>4. todo' = Links'  BY <1>1 DEF Links
<1>5. \A s \in forest' : OneComponent(s)'
  <2>1. \A p : OneComponent({p})'  BY DEF OneComponent
  <2>2. QED  BY <1>1, <2>1
<1>6. QED  BY <1>2, <1>3, <1>4, <1>5 DEF ForestInv

(* A link unites the sets of its ends; it is skipped when neither is known,*)
(* which does not happen when the crawl has every page.                    *)
LEMMA ForestUnite ==
  ASSUME UnionInv, NEW l \in MayLink, Unite(l)
  PROVE  ForestInv'
<1> DEFINE a == l[1]
           b == l[2]
           sa == SetOf(a)
           sb == SetOf(b)
           both == sa \cup sb
<1>1. /\ stage = "components" /\ l \in todo /\ todo' = todo \ {l}
      /\ forest' = IF {a, b} \cap Known # {}
                   THEN (forest \ {sa, sb}) \cup {both} ELSE forest
      /\ UNCHANGED <<link, nodes>>
  BY Zenon DEF Unite
<1>2. GraphType /\ ForestInv
  BY <1>1 DEF UnionInv, Counting
<1>3. a \in SitePages /\ b \in SitePages /\ l = <<a, b>>  BY PageCount
<1>4. /\ \A s : OneComponent(s)' = OneComponent(s)
      /\ Links' = Links /\ Whole' = Whole
  BY <1>1 DEF OneComponent, ClosedBothWays, Joined, Links, Whole
<1>5. todo' \subseteq Links'  BY <1>1, <1>2, <1>4 DEF ForestInv
<1>6. l \in Links /\ Joined(a, b)  BY <1>1, <1>2, <1>3 DEF ForestInv, Joined
<1>7. CASE {a, b} \cap Known = {}
  <2>1. forest' = forest /\ Known' = Known  BY <1>1, <1>7 DEF Known
  <2>2. ~Whole  BY <1>2, <1>6, <1>7 DEF Whole, ForestInv
  <2>3. Apart'  BY <1>2, <2>1 DEF ForestInv, Apart
  <2>4. QED  BY <1>1, <1>2, <1>4, <1>5, <2>1, <2>2, <2>3 DEF ForestInv
<1>8. CASE {a, b} \cap Known # {}
  <2>1. forest' = (forest \ {sa, sb}) \cup {both}  BY <1>1, <1>8
  <2>2. /\ a \in sa /\ (sa \in forest \/ (a \notin Known /\ sa = {a}))
        /\ b \in sb /\ (sb \in forest \/ (b \notin Known /\ sb = {b}))
    BY SetOfIs
  <2>3. sa \in SUBSET SitePages /\ sb \in SUBSET SitePages
    BY <1>2, <1>3, <2>2 DEF GraphType
  <2>4. OneComponent(sa) /\ OneComponent(sb)
    BY <1>2, <2>2, JoinedTogether DEF ForestInv
  <2> HIDE DEF sa, sb, a, b
  <2>5. OneComponent(both)
    BY <1>6, <2>2, <2>3, <2>4, JoinedTogether
  <2>6. {} \notin forest'  BY <1>2, <2>1, <2>2 DEF ForestInv
  <2>7. Apart'
    <3>1. ASSUME NEW s \in forest, s \notin {sa, sb} PROVE s \cap both = {}
      <4>1. s \cap sa = {}
        BY <1>2, <2>2, <3>1 DEF ForestInv, Apart, Known
      <4>2. s \cap sb = {}
        BY <1>2, <2>2, <3>1 DEF ForestInv, Apart, Known
      <4>3. QED  BY <4>1, <4>2
    <3> HIDE DEF both
    <3>2. ASSUME NEW s \in forest', NEW t \in forest', s \cap t # {} PROVE s = t
      <4>1. CASE s = both \/ t = both  BY <2>1, <3>1, <3>2, <4>1
      <4>2. CASE s # both /\ t # both
        BY <1>2, <2>1, <3>2, <4>2 DEF ForestInv, Apart
      <4>3. QED  BY <4>1, <4>2
    <3>3. QED  BY <3>2 DEF Apart
  <2>8. Known \subseteq Known'
    <3>1. ASSUME NEW s \in forest PROVE \E t \in forest' : s \subseteq t
      BY <2>1
    <3>2. QED  BY <3>1 DEF Known
  <2>9. nodes' \subseteq Known'  BY <1>1, <1>2, <2>8 DEF ForestInv
  <2>10. \A s \in forest' : OneComponent(s)'
    BY <1>2, <1>4, <2>1, <2>5 DEF ForestInv
  <2>11. ASSUME Whole
         PROVE  /\ Known' = nodes'
                /\ \A k \in Links' \ todo' :
                     \E s \in forest' : k[1] \in s /\ k[2] \in s
    <3>1. Known = nodes /\ a \in nodes /\ b \in nodes
      BY <1>2, <1>6, <2>11 DEF ForestInv, Whole, a, b
    <3>2. sa \in forest /\ sb \in forest  BY <2>2, <3>1
    <3>3. both \subseteq Known  BY <3>2 DEF Known
    <3>4. Known' \subseteq Known  BY <2>1, <3>3 DEF Known
    <3>5. ASSUME NEW k \in Links' \ todo'
          PROVE  \E s \in forest' : k[1] \in s /\ k[2] \in s
      <4>1. CASE k = l
        <5>1. k[1] \in both /\ k[2] \in both  BY <2>2, <4>1 DEF a, b
        <5>2. QED  BY <2>1, <5>1
      <4>2. CASE k # l
        <5>1. k \in Links \ todo  BY <1>1, <1>4, <4>2
        <5>2. PICK s \in forest : k[1] \in s /\ k[2] \in s
          BY <1>2, <2>11, <5>1 DEF ForestInv
        <5>3. \E t \in forest' : s \subseteq t  BY <2>1
        <5>4. QED  BY <5>2, <5>3
      <4>3. QED  BY <4>1, <4>2
    <3>6. QED  BY <1>1, <2>8, <3>1, <3>4, <3>5
  <2>12. QED  BY <1>4, <1>5, <2>6, <2>7, <2>9, <2>10, <2>11 DEF ForestInv
<1>9. QED  BY <1>7, <1>8
(* The union-find keeps its invariant.                                     *)
LEMMA UnionStep ==
  SearchInv /\ UnionInv /\ [GraphNext]_graphVars => UnionInv'
<1> SUFFICES ASSUME SearchInv, UnionInv, [GraphNext]_graphVars PROVE UnionInv'
  OBVIOUS
<1>0. GraphType'  BY SearchStep DEF SearchInv
<1>1. CASE StartComponents
  <2>1. ForestInv' /\ stage' = "components"
    BY <1>1, ForestStart DEF StartComponents
  <2>2. ~CountingOver'  BY <2>1 DEF CountingOver
  <2>3. QED  BY <1>0, <2>1, <2>2 DEF UnionInv
<1>2. CASE \E l \in MayLink : Unite(l)
  <2>1. PICK l \in MayLink : Unite(l)  BY <1>2
  <2>2. ForestInv' /\ stage' = "components"
    BY <2>1, ForestUnite DEF Unite
  <2>3. ~CountingOver'  BY <2>2 DEF CountingOver
  <2>4. QED  BY <1>0, <2>2, <2>3 DEF UnionInv
<1>3. CASE ComponentsDone \/ UNCHANGED graphVars
  <2>1. UNCHANGED <<link, nodes, todo, forest>>
    BY <1>3 DEF ComponentsDone, graphVars
  <2>2. ForestInv => ForestInv'
    BY <2>1 DEF ForestInv, Apart, Known, OneComponent, ClosedBothWays, Joined, Links, Whole
  <2>3. Counting' => Counting
    BY <1>3 DEF ComponentsDone, graphVars, Counting
  <2>4. CountingOver' => todo = {}
    BY <1>3 DEF ComponentsDone, graphVars, UnionInv, CountingOver
  <2>5. QED  BY <1>0, <2>1, <2>2, <2>3, <2>4 DEF UnionInv
<1>4. CASE StartDepths \/ Shift \/ DepthsDone \/ \E v \in SitePages : Reach(v)
  <2>1. stage' \in {"depths", "depths done"}
    BY <1>4 DEF StartDepths, Shift, DepthsDone, Reach
  <2>2. ~Counting' /\ ~CountingOver'  BY <2>1 DEF Counting, CountingOver
  <2>3. QED  BY <1>0, <2>2 DEF UnionInv
<1>5. QED  BY <1>1, <1>2, <1>3, <1>4 DEF GraphNext

(* A set that is together lies in the component of each of its pages.      *)
LEMMA TogetherIsInside ==
  ASSUME NEW s \in SUBSET SitePages, OneComponent(s), NEW p \in s
  PROVE  s \subseteq ComponentOf(p)
<1> SUFFICES ASSUME NEW q \in s, NEW c \in SUBSET SitePages, p \in c, ClosedBothWays(c)
             PROVE  q \in c
  BY DEF ComponentOf
<1>1. s \cap c # {}  OBVIOUS
<1>2. QED  BY <1>1 DEF OneComponent

(* With every page crawled and every link done, a set of the forest is the *)
(* component of each of its pages.                                         *)
LEMMA SetIsComponent ==
  ASSUME UnionInv, CountingOver, Whole, NEW s \in forest, NEW p \in s
  PROVE  s = ComponentOf(p)
<1>1. ForestInv /\ todo = {} /\ s \in SUBSET SitePages
  BY DEF UnionInv, Counting, CountingOver, GraphType
<1>2. s \subseteq ComponentOf(p)
  BY <1>1, TogetherIsInside DEF ForestInv
<1>3. ASSUME NEW u \in s, NEW v \in SitePages, NEW l \in Links,
             l = <<u, v>> \/ l = <<v, u>>
      PROVE  v \in s
  <2>1. PICK t \in forest : l[1] \in t /\ l[2] \in t
    BY <1>1 DEF ForestInv
  <2>2. u \in t /\ v \in t
    <3>1. CASE l = <<u, v>>  BY <2>1, <3>1
    <3>2. CASE l = <<v, u>>  BY <2>1, <3>2
    <3>3. QED  BY <1>3, <3>1, <3>2
  <2>3. s = t  BY <1>1, <2>2 DEF ForestInv, Apart
  <2>4. QED  BY <2>2, <2>3
<1>4. ClosedBothWays(s)  BY <1>3 DEF ClosedBothWays, Joined
<1>5. ComponentOf(p) \subseteq s  BY <1>1, <1>4 DEF ComponentOf
<1>6. QED  BY <1>2, <1>5

(* For any graph, in whatever order the links are united: the components   *)
(* are those of the graph when the crawl has every page a link leads to,   *)
(* and otherwise no page is put together with one it is not joined to.     *)
THEOREM ComponentsAreCounted == GraphSpec => []ComponentsCounted
<1>1. UnionInv => ComponentsCounted
  <2> SUFFICES ASSUME UnionInv, CountingOver
               PROVE  IF Whole THEN Components = {ComponentOf(p) : p \in nodes}
                      ELSE \A s \in Components : \A p \in s : s \subseteq ComponentOf(p)
    BY Zenon DEF ComponentsCounted, CountingOver, Whole
  <2>1. ForestInv /\ GraphType
    BY DEF UnionInv, Counting, CountingOver
  <2>2. CASE Whole
    <3>1. Known = nodes  BY <2>1, <2>2 DEF ForestInv
    <3>2. ASSUME NEW s \in Components PROVE \E p \in nodes : s = ComponentOf(p)
      <4>1. PICK p \in s \cap nodes : TRUE  BY DEF Components
      <4>2. s \in forest  BY DEF Components
      <4>3. s = ComponentOf(p)  BY <2>2, <4>2, SetIsComponent
      <4>4. QED  BY <4>3
    <3>3. ASSUME NEW p \in nodes PROVE ComponentOf(p) \in Components
      <4>1. PICK s \in forest : p \in s  BY <3>1 DEF Known
      <4>2. s = ComponentOf(p)  BY <2>2, <4>1, SetIsComponent
      <4>3. QED  BY <4>1, <4>2 DEF Components
    <3>4. QED  BY <2>2, <3>2, <3>3
  <2>3. ASSUME NEW s \in Components, NEW p \in s PROVE s \subseteq ComponentOf(p)
    <3>1. s \in forest /\ s \in SUBSET SitePages
      BY <2>1 DEF Components, GraphType
    <3>2. OneComponent(s)  BY <2>1, <3>1 DEF ForestInv
    <3>3. QED  BY <3>1, <3>2, TogetherIsInside
  <2>4. QED  BY <2>2, <2>3
<1>2. GraphInit => UnionInv
  <2> SUFFICES ASSUME GraphInit PROVE UnionInv  OBVIOUS
  <2>1. GraphType  BY SearchInit DEF SearchInv
  <2>2. ~Counting /\ ~CountingOver  BY DEF GraphInit, Counting, CountingOver
  <2>3. QED  BY <2>1, <2>2 DEF UnionInv
<1>3. QED  BY SearchInit, SearchStep, <1>1, <1>2, UnionStep, PTL DEF GraphSpec
=============================================================================
