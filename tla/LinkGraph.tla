----------------------------- MODULE LinkGraph -----------------------------
(***************************************************************************)
(* The link graph of a site (tools/link_graph): the depth of every page by *)
(* breadth-first search, orphans, authority tiers, and the components the  *)
(* integrity check counts with a union-find.                               *)
(*                                                                         *)
(* The links come in the order of the crawl, which is any order.  A link   *)
(* counts for depth when it is a followed one in content, breadcrumb or    *)
(* sidebar; every link counts as inbound, a page's link to itself too.     *)
(***************************************************************************)
EXTENDS Integers, Sequences, FiniteSets

CONSTANTS
  SitePages, Homepage,
  MayLink,       \* the links a graph may have: pairs of URLs
  Weight,        \* AUTHORITY_WEIGHTS of the two sorts of links, times ten
  HubAt, StrongAt, AverageAt  \* tier thresholds, in hundredths (80, 60, 30)

ASSUME LinkAssumption ==
  /\ IsFiniteSet(SitePages) /\ Homepage \in SitePages
  /\ MayLink \subseteq SitePages \X SitePages
  /\ Weight \in [{"followed", "other"} -> Nat \ {0}]
  /\ {HubAt, StrongAt, AverageAt} \subseteq Nat
  /\ 0 < AverageAt /\ AverageAt < StrongAt /\ StrongAt < HubAt

Sorts == {"none", "followed", "other"}
Unreached == -1

VARIABLES
  link,    \* the crawl: the sort of every possible link
  nodes,   \* the pages that were crawled; links may lead elsewhere
  stage,   \* which analysis runs
  queue,   \* breadth-first search: the queue ...
  now,     \* ... the page that was shifted last and its neighbours to do ...
  depth, path,  \* ... and the maps it fills
  todo,    \* union-find: links to do ...
  forest   \* ... and the sets of known URLs, disjoint

graphVars == <<link, nodes, stage, queue, now, depth, path, todo, forest>>

GraphTypeOK ==
  /\ link \in [MayLink -> Sorts]
  /\ nodes \subseteq SitePages
  /\ stage \in {"crawl", "depths", "depths done", "components", "components done"}
  /\ queue \in Seq(SitePages)
  /\ now \in [url : SitePages, rest : SUBSET SitePages]
  /\ depth \in [SitePages -> {Unreached} \cup 0..Cardinality(SitePages)]
  /\ path \in [SitePages -> Seq(SitePages)]
  /\ todo \subseteq MayLink
  /\ forest \subseteq SUBSET SitePages

Links == {l \in MayLink : link[l] # "none"}
Neighbours(u) == {v \in SitePages : <<u, v>> \in MayLink /\ link[<<u, v>>] = "followed"}

GraphInit ==
  /\ link = [l \in MayLink |-> "none"] /\ nodes = {}
  /\ stage = "crawl"
  /\ queue = << >> /\ now = [url |-> Homepage, rest |-> {}]
  /\ depth = [p \in SitePages |-> Unreached] /\ path = [p \in SitePages |-> << >>]
  /\ todo = {} /\ forest = {}
----------------------------------------------------------------------------
(* calculateDepthsBFS, of a graph whose pages are all crawled: it goes by  *)
(* the links only.                                                         *)

StartDepths ==
  /\ stage = "crawl" /\ stage' = "depths"
  /\ link' \in [MayLink -> Sorts] /\ nodes' = SitePages
  /\ queue' = <<Homepage>>
  /\ depth' = [depth EXCEPT ![Homepage] = 0]
  /\ path' = [path EXCEPT ![Homepage] = <<Homepage>>]
  /\ UNCHANGED <<now, todo, forest>>

Shift ==
  /\ stage = "depths" /\ now.rest = {} /\ queue # << >>
  /\ queue' = Tail(queue)
  /\ now' = [url |-> Head(queue), rest |-> Neighbours(Head(queue))]
  /\ UNCHANGED <<link, nodes, stage, depth, path, todo, forest>>

\* the neighbour is put at the front of the queue
Reach_Stack(v) ==
  /\ stage = "depths" /\ v \in now.rest
  /\ now' = [now EXCEPT !.rest = @ \ {v}]
  /\ IF depth[v] = Unreached
     THEN /\ depth' = [depth EXCEPT ![v] = depth[now.url] + 1]
          /\ path' = [path EXCEPT ![v] = Append(path[now.url], v)]
          /\ queue' = <<v>> \o queue
     ELSE UNCHANGED <<depth, path, queue>>
  /\ UNCHANGED <<link, nodes, stage, todo, forest>>

Reach(v) ==
  /\ stage = "depths" /\ v \in now.rest
  /\ now' = [now EXCEPT !.rest = @ \ {v}]
  /\ IF depth[v] = Unreached
     THEN /\ depth' = [depth EXCEPT ![v] = depth[now.url] + 1]
          /\ path' = [path EXCEPT ![v] = Append(path[now.url], v)]
          /\ queue' = Append(queue, v)
     ELSE UNCHANGED <<depth, path, queue>>
  /\ UNCHANGED <<link, nodes, stage, todo, forest>>

DepthsDone ==
  /\ stage = "depths" /\ now.rest = {} /\ queue = << >>
  /\ stage' = "depths done"
  /\ UNCHANGED <<link, nodes, queue, now, depth, path, todo, forest>>
----------------------------------------------------------------------------
(* countDisconnectedComponents: the sort of a link does not matter.        *)

StartComponents ==
  /\ stage = "crawl" /\ stage' = "components"
  /\ link' \in [MayLink -> {"none", "followed"}] /\ nodes' \in SUBSET SitePages
  /\ todo' = {l \in MayLink : link'[l] # "none"}
  /\ forest' = {{p} : p \in nodes'}
  /\ UNCHANGED <<queue, now, depth, path>>

Known == UNION forest
SetOf(p) == IF p \in Known THEN CHOOSE s \in forest : p \in s ELSE {p}

\* one of the two roots is kept as a root
Unite_RootKept(l) ==
  /\ stage = "components" /\ l \in todo
  /\ todo' = todo \ {l}
  /\ forest' = IF {l[1], l[2]} \cap Known # {}
               THEN (forest \ {SetOf(l[1])}) \cup {SetOf(l[1]) \cup SetOf(l[2])}
               ELSE forest
  /\ UNCHANGED <<link, nodes, stage, queue, now, depth, path>>

(* A link is skipped when neither of its ends is known yet: it is not      *)
(* looked at again when a later link makes one known.                      *)
Unite(l) ==
  /\ stage = "components" /\ l \in todo
  /\ todo' = todo \ {l}
  /\ forest' = IF {l[1], l[2]} \cap Known # {}
               THEN (forest \ {SetOf(l[1]), SetOf(l[2])})
                      \cup {SetOf(l[1]) \cup SetOf(l[2])}
               ELSE forest
  /\ UNCHANGED <<link, nodes, stage, queue, now, depth, path>>

ComponentsDone ==
  /\ stage = "components" /\ todo = {}
  /\ stage' = "components done"
  /\ UNCHANGED <<link, nodes, queue, now, depth, path, todo, forest>>

Components == {s \in forest : s \cap nodes # {}}
----------------------------------------------------------------------------
(* Inbound counts, orphans (link_graph_pipeline) and authority tiers       *)
(* (authority_scorer), all from the same links.                            *)

Inbound(p) == {l \in Links : l[2] = p}

\* only the links that count for depth
IsOrphaned_Followed(p) == {l \in Inbound(p) : link[l] = "followed"} = {}

IsOrphaned(p) == Inbound(p) = {}

RawScore(p) ==
  LET of(sort) == Cardinality({l \in Inbound(p) : link[l] = sort})
  IN  of("followed") * Weight["followed"] + of("other") * Weight["other"]

Highest == CHOOSE n \in {RawScore(p) : p \in SitePages} :
             \A p \in SitePages : RawScore(p) <= n

(* Math.round of hundredths.                                               *)
Normalized(p) ==
  IF Highest = 0 THEN 0
  ELSE (2 * 10000 * RawScore(p) + Highest) \div (2 * Highest)

Tier(score, count) ==
  CASE score = 0 /\ count = 0        -> "isolated"
    [] score >= HubAt                -> "hub"
    [] StrongAt <= score /\ score < HubAt -> "strong"
    [] AverageAt <= score /\ score < StrongAt -> "average"
    [] OTHER                         -> "weak"

TierOf(p) == Tier(Normalized(p), Cardinality(Inbound(p)))
----------------------------------------------------------------------------
GraphNext ==
  \/ StartDepths \/ Shift \/ DepthsDone
  \/ StartComponents \/ ComponentsDone
  \/ \E v \in SitePages : Reach(v)
  \/ \E l \in MayLink : Unite(l)

GraphSpec == GraphInit /\ [][GraphNext]_graphVars
----------------------------------------------------------------------------
(* What the results should be.                                             *)

Within[n \in Nat] ==
  IF n = 0 THEN {Homepage}
  ELSE Within[n - 1] \cup UNION {Neighbours(u) : u \in Within[n - 1]}

Clicks(p) ==
  LET at == {n \in 0..Cardinality(SitePages) : p \in Within[n]}
  IN  IF at = {} THEN Unreached ELSE CHOOSE n \in at : \A m \in at : n <= m

(* Whatever order the links come in, the depth of a page is the least      *)
(* number of clicks from the homepage and its path is a way of that length *)
(* (link_depth_calculator.ts:54).                                          *)
DepthIsClicks ==
  stage = "depths done" =>
    \A p \in SitePages :
      /\ depth[p] = Clicks(p)
      /\ Len(path[p]) = depth[p] + 1
      /\ depth[p] # Unreached => path[p][1] = Homepage /\ path[p][Len(path[p])] = p
      /\ \A i \in 1 .. Len(path[p]) - 1 : path[p][i + 1] \in Neighbours(path[p][i])

(* Three analyses of one graph agree: a page without inbound links is the  *)
(* one the scorer calls isolated, however small the weights, and the       *)
(* search never reaches it (link_graph_pipeline.ts:158).                   *)
OrphansAgree ==
  stage = "depths done" =>
    \A p \in SitePages :
      /\ IsOrphaned(p) <=> TierOf(p) = "isolated"
      /\ IsOrphaned(p) /\ p # Homepage => depth[p] = Unreached

Joined(u, v) == <<u, v>> \in Links \/ <<v, u>> \in Links
ClosedBothWays(s) == \A u \in s, v \in SitePages : Joined(u, v) => v \in s

ComponentOf(p) ==
  {q \in SitePages : \A s \in SUBSET SitePages : p \in s /\ ClosedBothWays(s) => q \in s}

(* The components are those of the graph when the crawl has every page a   *)
(* link leads to; otherwise the count may be too high, by the order of the *)
(* links, and never too low (graph_integrity_checker.ts:205).              *)
ComponentsCounted ==
  stage = "components done" =>
    IF \A l \in Links : l[1] \in nodes /\ l[2] \in nodes
    THEN Components = {ComponentOf(p) : p \in nodes}
    ELSE \A s \in Components : \A p \in s : s \subseteq ComponentOf(p)
=============================================================================
