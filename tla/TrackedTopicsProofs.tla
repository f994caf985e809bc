------------------------- MODULE TrackedTopicsProofs -------------------------
(***************************************************************************)
(* What clearNode and publishTracked guarantee of the topics of a node,    *)
(* for any number of attributes, reports and sessions.                     *)
(*                                                                         *)
(* The invariant has three parts.  TopicsOK says what is where between the *)
(* steps of a handler; InStep says how far Run is behind the fabric; and   *)
(* Cover says which retained topics somebody is still going to clear.      *)
(***************************************************************************)
EXTENDS TrackedTopics, FiniteSetTheorems, SequenceTheorems, TLAPS

\* What each handler holds between its steps.
TopicsOK ==
  /\ fabric \in BOOLEAN
  /\ run \in {"select", "publish", "clear", "mark", "redial"}
  /\ req \in {"none", "answered", "clear", "done"}
  /\ retained \in [Topics -> {"state", "offline", Empty}]
  /\ tracked \subseteq Topics /\ runLeft \subseteq Topics /\ reqLeft \subseteq Topics
  /\ todo \subseteq Topics /\ recorded \in Topics \cup {None}
  /\ run # "publish" => todo = {} /\ recorded = None
  /\ run # "clear" => runLeft = {}
  /\ req \in {"none", "answered"} => reqLeft = {}

\* "removed" is the last event of a node.
EventsOK ==
  /\ events \in Seq(Leaves \cup {"removed"})
  /\ \A i \in 1 .. Len(events) : events[i] = "removed" <=> ~fabric /\ i = Len(events)
  /\ ~Watched => events = <<>>

\* While nobody requests a removal, a session begins with every topic of a node
\* that is there, and Run forgets them when it meets the removal, no sooner.
InStep ==
  req = "none" =>
    /\ Watched /\ (fabric \/ events # <<>>) =>
         run \in {"publish", "select"} /\ tracked \cup todo = Topics
    /\ ~fabric /\ events = <<>> => run \in {"select", "clear", "redial"} /\ tracked = {}
    /\ run = "mark" => tracked = Topics

\* Without a request every retained topic will be cleared; a request that has
\* not come to its clearNode leaves no orphan in state "state"; one that has,
\* leaves at most the topic that Run had recorded.
Stray == {t \in Orphans : retained[t] = "state"}

Cover ==
  /\ req = "none" => Orphans = {}
  /\ req \in {"none", "answered"} => /\ Stray = {}
                                     /\ recorded # None => recorded \in tracked
  /\ recorded # None /\ recorded \notin tracked => Stray \subseteq {recorded}
  /\ \E t \in Topics : Stray \subseteq {t}

TrackInv == TopicsOK /\ EventsOK /\ InStep /\ Cover

-----------------------------------------------------------------------------
(* The steps. *)

\* Only the last event has none after it.
LEMMA LastEvent ==
  ASSUME NEW S, NEW s \in Seq(S), s # <<>>
  PROVE  Head(s) = s[1] /\ (Tail(s) = <<>> <=> Len(s) = 1)
<1>1. Len(s) \in Nat /\ Tail(s) \in Seq(S) /\ Len(Tail(s)) = Len(s) - 1
  BY HeadTailProperties, EmptySeq
<1>2. Tail(s) # <<>> => Len(Tail(s)) \in Nat \ {0}
  BY <1>1, EmptySeq, Zenon
<1>3. Tail(s) = <<>> => Len(Tail(s)) = 0
  BY Len(<<>>) = 0, Zenon
<1>4. Head(s) = s[1]
  OBVIOUS
<1> QED
  BY <1>1, <1>2, <1>3, <1>4

\* Before the first session nothing is recorded, retained or reported.
LEMMA InitTracked == Init => TrackInv
<1> SUFFICES ASSUME Init PROVE TrackInv
  OBVIOUS
<1> USE TrackedTopicsAssumption DEF Init, Topics, Watched
<1>1. TopicsOK /\ EventsOK /\ InStep
  BY DEF TopicsOK, EventsOK, InStep
<1>2. Orphans = {} /\ Stray = {}
  BY DEF Orphans, Stray
<1> QED
  BY <1>1, <1>2 DEF Cover, TrackInv

\* No step mixes up what the two clears and the publication hold.
LEMMA TopicsStep == TrackInv /\ Next => TopicsOK'
<1> SUFFICES ASSUME TrackInv, Next PROVE TopicsOK'
  OBVIOUS
<1> USE TrackedTopicsAssumption DEF TrackInv, TopicsOK, Topics, world, request
<1>1. CASE Report \/ Remove
  BY <1>1 DEF Report, Remove
<1>2. CASE Dump \/ HandleAttribute
  BY <1>2 DEF Dump, HandleAttribute, RunTurn
<1>3. CASE Record
  BY <1>3 DEF Record, RunTurn
<1>4. CASE Send
  BY <1>4 DEF Send, RunTurn
<1>5. CASE Take
  BY <1>5 DEF Take, RunTurn
<1>6. CASE Clear
  BY <1>6 DEF Clear, RunTurn
<1>7. CASE SessionEnds \/ Mark
  BY <1>7 DEF SessionEnds, Mark, RunTurn
<1>8. CASE RequestFails \/ RequestTake
  BY <1>8 DEF RequestFails, RequestTake, RequestTurn
<1>9. CASE RequestClear
  BY <1>9 DEF RequestClear, RequestTurn
<1> QED
  BY <1>1, <1>2, <1>3, <1>4, <1>5, <1>6, <1>7, <1>8, <1>9 DEF Next

\* Nothing is reported of a node after its removal.
LEMMA EventsStep == TrackInv /\ Next => EventsOK'
<1> SUFFICES ASSUME TrackInv, Next PROVE EventsOK'
  OBVIOUS
<1> USE TrackedTopicsAssumption DEF TrackInv, TopicsOK, EventsOK, Watched, world, request
<1>1. CASE Report
  BY <1>1 DEF Report
<1>2. CASE Remove
  BY <1>2 DEF Remove
<1>3. CASE HandleAttribute \/ Take
  <2>1. events # <<>> /\ events' = Tail(events) /\ fabric' = fabric
          /\ run = "select" /\ run' \in {"select", "publish", "clear"}
    BY <1>3 DEF HandleAttribute, Take, RunTurn
  <2> QED
    BY <2>1
<1>4. CASE Dump \/ Record \/ Send \/ Clear
  BY <1>4 DEF Dump, Record, Send, Clear, RunTurn
<1>5. CASE SessionEnds \/ Mark
  BY <1>5 DEF SessionEnds, Mark, RunTurn
<1>6. CASE RequestFails \/ RequestTake \/ RequestClear
  BY <1>6 DEF RequestFails, RequestTake, RequestClear, RequestTurn
<1> QED
  BY <1>1, <1>2, <1>3, <1>4, <1>5, <1>6 DEF Next

\* Unless a request comes between, Run knows all topics of a node it has not
\* seen removed and none of one it has.
LEMMA InStepStep == TrackInv /\ Next => InStep'
<1> SUFFICES ASSUME TrackInv, Next PROVE InStep'
  OBVIOUS
<1> USE TrackedTopicsAssumption
    DEF TrackInv, TopicsOK, EventsOK, InStep, Watched, world, request
<1>1. CASE Report
  BY <1>1 DEF Report
<1>2. CASE Remove
  BY <1>2 DEF Remove
<1>3. CASE Dump
  BY <1>3 DEF Dump, RunTurn
<1>4. CASE HandleAttribute
  <2>1. events \in Seq(Leaves \cup {"removed"}) /\ events # <<>>
    BY <1>4 DEF HandleAttribute
  <2>2. fabric \/ Tail(events) # <<>>
    <3>1. Len(events) = 1 => events[1] = Head(events) /\ 1 \in 1 .. Len(events)
      BY <2>1, LastEvent
    <3>2. ~fabric => Len(events) # 1
      BY <1>4, <3>1 DEF HandleAttribute
    <3> QED
      BY <2>1, <3>2, LastEvent
  <2>3. req = "none" => tracked = Topics
    BY <1>4 DEF HandleAttribute
  <2>4. Head(events) \in Topics
    BY <1>4 DEF HandleAttribute, Topics
  <2> QED
    BY <1>4, <2>2, <2>3, <2>4 DEF HandleAttribute, RunTurn
<1>5. CASE Take
  <2>1. ~fabric /\ Tail(events) = <<>>
    BY <1>5 DEF Take
  <2> QED
    BY <1>5, <2>1 DEF Take, RunTurn
<1>6. CASE Record
  BY <1>6 DEF Record, RunTurn
<1>7. CASE Send \/ Clear
  BY <1>7 DEF Send, Clear, RunTurn
<1>8. CASE SessionEnds \/ Mark
  BY <1>8 DEF SessionEnds, Mark, RunTurn
<1>9. CASE RequestFails \/ RequestTake \/ RequestClear
  BY <1>9 DEF RequestFails, RequestTake, RequestClear, RequestTurn
<1> QED
  BY <1>1, <1>2, <1>3, <1>4, <1>5, <1>6, <1>7, <1>8, <1>9 DEF Next

\* A step that clears a topic empties it; one that forgets topics hands them to
\* a clear; only Run's publication can put back what a request has cleared.
LEMMA CoverStep == TrackInv /\ Next => Cover'
<1> SUFFICES ASSUME TrackInv, Next PROVE Cover'
  OBVIOUS
<1> USE TrackedTopicsAssumption
    DEF TrackInv, TopicsOK, InStep, Cover, Topics, Orphans, Stray, world, request
<1>1. CASE Report \/ Remove
  BY <1>1 DEF Report, Remove
<1>2. CASE Dump \/ HandleAttribute
  BY <1>2 DEF Dump, HandleAttribute, RunTurn
<1>3. CASE Record
  BY <1>3 DEF Record, RunTurn
<1>4. CASE Send
  BY <1>4 DEF Send, RunTurn
<1>5. CASE Take
  BY <1>5 DEF Take, RunTurn
<1>6. CASE Clear
  BY <1>6 DEF Clear, RunTurn
<1>7. CASE SessionEnds \/ Mark
  BY <1>7 DEF SessionEnds, Mark, RunTurn
<1>8. CASE RequestFails \/ RequestTake
  BY <1>8 DEF RequestFails, RequestTake, RequestTurn
<1>9. CASE RequestClear
  BY <1>9 DEF RequestClear, RequestTurn
<1> QED
  BY <1>1, <1>2, <1>3, <1>4, <1>5, <1>6, <1>7, <1>8, <1>9 DEF Next

\* The invariant holds throughout.
LEMMA SpecTracked == Spec => []TrackInv
<1>1. TrackInv /\ UNCHANGED vars => TrackInv'
  BY DEF vars, world, request, TrackInv, TopicsOK, EventsOK, InStep, Cover, Stray,
         Orphans, Watched
<1>2. TrackInv /\ Next => TrackInv'
  BY TopicsStep, EventsStep, InStepStep, CoverStep DEF TrackInv
<1> QED
  BY InitTracked, <1>1, <1>2, PTL DEF Spec

-----------------------------------------------------------------------------
(* The theorems. *)

\* However many attributes a node has and whenever it is removed, Run's own
\* clearNode leaves nothing of it on the broker, unless a request cleared the
\* node as well (bridge.go:350-360, 299-309, 789-801).
THEOREM RemovalLeavesNothing == Spec => []UnrequestedLeavesNothing
<1>1. TrackInv => UnrequestedLeavesNothing
  BY TrackedTopicsAssumption DEF TrackInv, TopicsOK, InStep, Cover, Orphans, Quiet,
     Topics, UnrequestedLeavesNothing
<1> QED
  BY <1>1, SpecTracked, PTL

\* One request that clears the node behind Run's back costs one topic at most,
\* however many the node has (bridge.go:660-664, 774-783, 789-801).
THEOREM OneOrphan == Spec => []OneOrphanAtMost
<1>1. TrackInv => OneOrphanAtMost
  <2> SUFFICES ASSUME TrackInv PROVE OneOrphanAtMost
    OBVIOUS
  <2>1. PICK t \in Topics : Stray \subseteq {t}
    BY DEF TrackInv, Cover
  <2>2. IsFiniteSet({t}) /\ Cardinality({t}) = 1
    BY FS_Singleton
  <2>3. Cardinality(Stray) <= Cardinality({t})
    BY <2>1, <2>2, FS_Subset
  <2> QED
    BY <2>2, <2>3 DEF OneOrphanAtMost, Stray
<1> QED
  BY <1>1, SpecTracked, PTL
=============================================================================
