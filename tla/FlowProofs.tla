----------------------------- MODULE FlowProofs -----------------------------
(***************************************************************************)
(* The registry follows the retained topics, and the in nodes the registry,*)
(* whatever is lost between the broker and Node-RED.                       *)
(***************************************************************************)
EXTENDS Flow, SequenceTheorems, WellFoundedInduction, TLAPS

-----------------------------------------------------------------------------
(* The inductive invariant. *)

\* The last element of M in box is m; none is in box.
LastOf(box, M, m) ==
  \E k \in 1 .. Len(box) : box[k] = m /\ \A j \in k + 1 .. Len(box) : box[j] \notin M
NoneOf(box, M) == \A k \in 1 .. Len(box) : box[k] \notin M

Topic(id, leaf) == [id : {id}, leaf : {leaf}, payload : Payloads(leaf)]
About(what) == [op : {"subscribe", "unsubscribe"}, what : {what}]
Subscribe(what) == [op |-> "subscribe", what |-> what]

\* The last word to the broker is a SUBSCRIBE, or it has none to come and heard one.
Assured(box, what) ==
  \/ LastOf(box, About(what), Subscribe(what))
  \/ NoneOf(box, About(what)) /\ what \in subs

\* What is wanted is subscribed to, or will be.
Wanted ==
  connected => /\ Assured(outbox, "meta")
               /\ \A id \in NodeIds : handlers[id] # {} => Assured(outbox, id)

Offline == ~connected => subs = {} /\ inbox = <<>> /\ outbox = <<>>

\* The client shows what is retained on a topic.
Shown(id, leaf) ==
  CASE leaf = "name" -> label[id] = retained[id]["name"]
    [] leaf = "availability" -> available[id] = retained[id]["availability"]
    [] leaf = "value" -> \A i \in InNodes : bound[i] = id => seen[i] \in {None, retained[id]["value"]}

Key(id, leaf) == IF leaf \in Meta THEN "meta" ELSE id

\* The last message on its way on a topic is what is retained there, or there is
\* none and the client shows it.
Told(id, leaf) ==
  \/ LastOf(inbox, Topic(id, leaf), Message(id, leaf, retained[id][leaf]))
  \/ NoneOf(inbox, Topic(id, leaf)) /\ Shown(id, leaf)

Heard ==
  \A id \in NodeIds, leaf \in Leaves :
    Key(id, leaf) \in subs /\ retained[id][leaf] # Empty => Told(id, leaf)

\* An in node is bound to what it finds in the registry, which knows all it names.
Resolved ==
  /\ \A i \in InNodes : bound[i] = Lookup(Device[i], known, label)
  /\ \A id \in NodeIds : label[id] # Empty => id \in ToSet(known)

\* An in node that waits has sent nothing.
Silent == \A i \in InNodes : bound[i] = None => seen[i] = None

\* A name that is not due is retained.
Published == \A id \in NodeIds \ due : retained[id]["name"] = names[id]

FlowInv == TypeOK /\ Offline /\ Wanted /\ Heard /\ Resolved /\ Silent /\ Published

-----------------------------------------------------------------------------
(* Induction along a sequence. *)

\* A set of numbers that is not empty has a least element.
LEMMA Least ==
  ASSUME NEW S \in SUBSET Nat, S # {}
  PROVE  \E k \in S : \A j \in S : k <= j
<1>1. IsWellFoundedOn(OpToRel(<, Nat), Nat)
  BY NatLessThanWellFounded
<1>2. PICK k \in S : \A j \in S : ~ (<<j, k>> \in OpToRel(<, Nat))
  BY <1>1, WFMin
<1>3. \A i, j \in Nat : <<j, i>> \in OpToRel(<, Nat) <=> j < i
  BY DEF OpToRel
<1>4. ASSUME NEW j \in S PROVE k <= j
  <2>1. ~ (j < k)
    BY <1>2, <1>3
  <2> QED
    BY <2>1
<1> QED
  BY <1>4

\* What holds of 0 and goes from each index to the next holds of all.
LEMMA Reaches ==
  ASSUME NEW n \in Nat, NEW T, 0 \in T, \A k \in 1 .. n : k - 1 \in T => k \in T
  PROVE  \A k \in 0 .. n : k \in T
<1> DEFINE R == (0 .. n) \ T
<1>1. R \in SUBSET Nat
  OBVIOUS
<1> SUFFICES ASSUME R # {} PROVE FALSE
  OBVIOUS
<1> HIDE DEF R
<1>2. PICK k \in R : \A j \in R : k <= j
  BY <1>1, Least
<1>3. k \in 1 .. n
  BY <1>2 DEF R
<1>4. k - 1 \in 0 .. n /\ k - 1 \notin R
  BY <1>2, <1>3
<1> QED
  BY <1>2, <1>3, <1>4 DEF R

\* What holds of j and goes from each index to the next holds in the end.
LEMMA ReachesEnd ==
  ASSUME NEW n \in Nat, NEW j \in 0 .. n, NEW T, j \in T,
         \A k \in j + 1 .. n : k - 1 \in T => k \in T
  PROVE  n \in T
<1> DEFINE U == {k \in 0 .. n : k >= j => k \in T}
<1>1. 0 \in U
  OBVIOUS
<1>2. \A k \in 1 .. n : k - 1 \in U => k \in U
  <2> TAKE k \in 1 .. n
  <2>1. CASE k \in j + 1 .. n
    BY <2>1
  <2>2. CASE k = j
    BY <2>2
  <2>3. CASE k < j
    BY <2>3
  <2> QED
    BY <2>1, <2>2, <2>3
<1> HIDE DEF U
<1>3. n \in U
  BY <1>1, <1>2, Reaches
<1> QED
  BY <1>3 DEF U

\* f takes the step g from base, n times.
Steps(f, n, S, base, g) ==
  f \in [0 .. n -> S] /\ f[0] = base /\ \A k \in 1 .. n : f[k] = g[f[k - 1]][k]

\* A step that is a function can be taken n times.
LEMMA StepsExist ==
  ASSUME NEW n \in Nat, NEW S, NEW base \in S,
         NEW g, \A s \in S, k \in 1 .. n : g[s][k] \in S
  PROVE  \E f : Steps(f, n, S, base, g)
<1> DEFINE Upto(m, f) == f[0] = base /\ \A k \in 1 .. m : f[k] = g[f[k - 1]][k]
           T == {m \in 0 .. n : \E f \in [0 .. m -> S] : Upto(m, f)}
<1>1. 0 \in T
  <2>1. PICK h : h = [k \in 0 .. 0 |-> base]
    OBVIOUS
  <2>2. h \in [0 .. 0 -> S] /\ h[0] = base
    BY <2>1
  <2>3. Upto(0, h)
    BY <2>2
  <2> QED
    BY <2>2, <2>3
<1>2. ASSUME NEW m \in 1 .. n, m - 1 \in T
      PROVE  m \in T
  <2>1. PICK f \in [0 .. m - 1 -> S] : Upto(m - 1, f)
    BY <1>2
  <2>2. PICK e : e = g[f[m - 1]][m] /\ e \in S
    OBVIOUS
  <2>3. PICK h : h = [k \in 0 .. m |-> IF k = m THEN e ELSE f[k]]
    OBVIOUS
  <2>4. h \in [0 .. m -> S]
    BY <2>2, <2>3
  <2>5. ASSUME NEW k \in 1 .. m
        PROVE  h[k] = g[h[k - 1]][k]
    <3>1. k - 1 \in 0 .. m - 1 /\ h[k - 1] = f[k - 1]
      BY <2>3
    <3>2. CASE k = m
      BY <2>2, <2>3, <3>1, <3>2
    <3>3. CASE k # m
      <4>1. k \in 1 .. m - 1 /\ h[k] = f[k]
        BY <2>3, <3>3
      <4> QED
        BY <2>1, <3>1, <4>1
    <3> QED
      BY <3>2, <3>3
  <2>6. h[0] = base
    BY <2>1, <2>3
  <2>7. Upto(m, h)
    BY <2>5, <2>6
  <2> HIDE DEF Upto
  <2> QED
    BY <2>4, <2>7
<1> HIDE DEF T
<1>3. \A m \in 1 .. n : m - 1 \in T => m \in T
  BY <1>2
<1>4. \A m \in 0 .. n : m \in T
  BY <1>1, <1>3, Reaches
<1>5. n \in T
  BY <1>4
<1> QED
  BY <1>5 DEF T, Steps

-----------------------------------------------------------------------------
(* Queues. *)

LEMMA AppendAt ==
  ASSUME NEW S, NEW s \in Seq(S), NEW e \in S
  PROVE  /\ Append(s, e) \in Seq(S) /\ Len(s) \in Nat /\ Len(Append(s, e)) = Len(s) + 1
         /\ Append(s, e)[Len(s) + 1] = e
         /\ \A k \in 1 .. Len(s) : Append(s, e)[k] = s[k]
  BY AppendProperties, LenProperties

\* What is appended is the last of what it belongs to, and changes nothing else.
LEMMA AppendOf ==
  ASSUME NEW S, NEW s \in Seq(S), NEW e \in S, NEW M, NEW m
  PROVE  /\ LastOf(Append(s, e), M, e)
         /\ (e = m \/ e \notin M) /\ LastOf(s, M, m) => LastOf(Append(s, e), M, m)
         /\ e \notin M /\ NoneOf(s, M) => NoneOf(Append(s, e), M)
<1>1. PICK n \in Nat, t \in Seq(S) :
        /\ n = Len(s) /\ t = Append(s, e) /\ Len(t) = n + 1 /\ t[n + 1] = e
        /\ \A k \in 1 .. n : t[k] = s[k]
  <2>1. /\ Append(s, e) \in Seq(S) /\ Len(s) \in Nat /\ Len(Append(s, e)) = Len(s) + 1
        /\ Append(s, e)[Len(s) + 1] = e
        /\ \A k \in 1 .. Len(s) : Append(s, e)[k] = s[k]
    BY AppendAt
  <2> WITNESS Len(s) \in Nat, Append(s, e) \in Seq(S)
  <2> QED
    BY <2>1
<1>2. n + 1 \in 1 .. Len(t) /\ \A j \in n + 1 + 1 .. Len(t) : FALSE
  BY <1>1
<1>3. ASSUME NEW L PROVE LastOf(t, L, e)
  BY <1>1, <1>2 DEF LastOf
<1>4. ASSUME e = m \/ e \notin M, LastOf(s, M, m)
      PROVE  LastOf(t, M, m)
  <2>1. CASE e = m
    BY <1>3, <2>1
  <2>2. CASE e \notin M
    <3>1. PICK k \in 1 .. n : s[k] = m /\ \A j \in k + 1 .. n : s[j] \notin M
      BY <1>1, <1>4 DEF LastOf
    <3>2. k \in 1 .. Len(t) /\ t[k] = m
      BY <1>1, <3>1
    <3>3. \A j \in k + 1 .. Len(t) : t[j] \notin M
      BY <1>1, <2>2, <3>1
    <3> QED
      BY <3>2, <3>3 DEF LastOf
  <2> QED
    BY <1>4, <2>1, <2>2
<1>5. ASSUME e \notin M, NoneOf(s, M) PROVE NoneOf(t, M)
  BY <1>1, <1>5 DEF NoneOf
<1> QED
  BY <1>1, <1>3, <1>4, <1>5

\* The head that is taken may have been the last of its kind.
LEMMA TailOf ==
  ASSUME NEW S, NEW s \in Seq(S), s # <<>>, NEW M, NEW m
  PROVE  /\ Tail(s) \in Seq(S) /\ Head(s) \in S
         /\ LastOf(s, M, m) => LastOf(Tail(s), M, m) \/ (Head(s) = m /\ NoneOf(Tail(s), M))
         /\ NoneOf(s, M) => Head(s) \notin M /\ NoneOf(Tail(s), M)
<1>1. PICK n \in Nat, t \in Seq(S) :
        /\ t = Tail(s) /\ Len(t) = n /\ Len(s) = n + 1 /\ Head(s) = s[1]
        /\ \A k \in 1 .. n : t[k] = s[k + 1]
  <2>1. /\ Tail(s) \in Seq(S) /\ Len(Tail(s)) = Len(s) - 1 /\ Head(s) = s[1]
        /\ \A k \in 1 .. Len(s) - 1 : Tail(s)[k] = s[k + 1]
    BY HeadTailProperties
  <2>2. Len(s) - 1 \in Nat /\ Len(s) = Len(s) - 1 + 1
    BY EmptySeq, LenProperties
  <2> WITNESS Len(s) - 1 \in Nat, Tail(s) \in Seq(S)
  <2> QED
    BY <2>1, <2>2
<1>2. Head(s) \in S
  BY <1>1
<1>3. ASSUME LastOf(s, M, m)
      PROVE  LastOf(t, M, m) \/ (Head(s) = m /\ NoneOf(t, M))
  <2>1. PICK k \in 1 .. n + 1 : s[k] = m /\ \A j \in k + 1 .. n + 1 : s[j] \notin M
    BY <1>1, <1>3 DEF LastOf
  <2>2. CASE k = 1
    BY <1>1, <2>1, <2>2 DEF NoneOf
  <2>3. CASE k # 1
    <3>1. k - 1 \in 1 .. n /\ t[k - 1] = m
      BY <1>1, <2>1, <2>3
    <3>2. \A j \in k - 1 + 1 .. n : t[j] \notin M
      BY <1>1, <2>1
    <3> QED
      BY <1>1, <3>1, <3>2 DEF LastOf
  <2> QED
    BY <2>2, <2>3
<1>4. ASSUME NoneOf(s, M) PROVE Head(s) \notin M /\ NoneOf(t, M)
  BY <1>1, <1>4 DEF NoneOf
<1> QED
  BY <1>1, <1>2, <1>3, <1>4

\* An empty queue has nothing.
LEMMA EmptyOf == \A M : NoneOf(<<>>, M) /\ \A m : ~ LastOf(<<>>, M, m)
  BY DEF NoneOf, LastOf

-----------------------------------------------------------------------------
(* Messages on their way to the client. *)

\* A publication is forwarded message by message.
LEMMA ForwardSteps ==
  ASSUME NEW msgs \in Seq(Messages), inbox \in Seq(Messages)
  PROVE  \E f \in [0 .. Len(msgs) -> Seq(Messages)] :
           /\ f[0] = inbox /\ \A k \in 1 .. Len(msgs) : f[k] = Forward(f[k - 1], msgs[k])
           /\ f[Len(msgs)] = Along(Forward, inbox, msgs)
<1>0. PICK B : B = Seq(Messages)
  OBVIOUS
<1>1. PICK n \in Nat, b \in B : n = Len(msgs) /\ b = inbox
  <2> Len(msgs) \in Nat /\ inbox \in B
    BY <1>0, LenProperties
  <2> WITNESS Len(msgs) \in Nat, inbox \in B
  <2> QED
    OBVIOUS
<1>2. \A box \in B, k \in 1 .. n : Forward(box, msgs[k]) \in B
  BY <1>0, <1>1, AppendAt DEF Forward
<1>3. PICK g : g = [box \in B |-> [k \in 1 .. n |-> Forward(box, msgs[k])]]
  OBVIOUS
<1> \A box \in B, k \in 1 .. n : g[box][k] \in B
  BY <1>2, <1>3
<1>4. PICK f : Steps(f, n, B, b, g)
  BY StepsExist
<1> f \in [0 .. n -> B] /\ f[0] = b /\ \A k \in 1 .. n : f[k] = g[f[k - 1]][k]
  BY <1>4 DEF Steps
<1>5. ASSUME NEW k \in 1 .. n PROVE k - 1 \in 0 .. n /\ f[k] = Forward(f[k - 1], msgs[k])
  <2>1. PICK c : c = f[k - 1] /\ c \in B
    OBVIOUS
  <2>2. g[c][k] = Forward(c, msgs[k])
    BY <1>3, <2>1
  <2> QED
    BY <1>4, <2>1, <2>2
<1> DEFINE IsIt(h) ==
      h = [k \in 0 .. n |-> IF k = 0 THEN inbox ELSE Forward(h[k - 1], msgs[k])]
<1>6. IsIt(f)
  BY <1>1, <1>4, <1>5
<1>7. PICK h : h = CHOOSE x : IsIt(x)
  OBVIOUS
<1>8. IsIt(h)
  BY <1>6, <1>7
<1>9. h[n] = Along(Forward, inbox, msgs)
  BY <1>1, <1>7 DEF Along
<1>10. h[0] = b /\ \A k \in 1 .. n : h[k] = Forward(h[k - 1], msgs[k])
  <2>1. h[0] = b
    BY <1>1, <1>8
  <2>2. \A k \in 1 .. n : h[k] = Forward(h[k - 1], msgs[k])
    <3> TAKE k \in 1 .. n
    <3>1. k \in 0 .. n /\ k # 0
      OBVIOUS
    <3> QED
      BY <1>8, <3>1
  <2> QED
    BY <2>1, <2>2
<1>11. \A k \in 0 .. n : h[k] \in B
  <2> DEFINE T == {k \in 0 .. n : h[k] \in B}
  <2>1. 0 \in T
    BY <1>10
  <2>2. \A k \in 1 .. n : k - 1 \in T => k \in T
    BY <1>2, <1>10
  <2> HIDE DEF T
  <2>3. \A k \in 0 .. n : k \in T
    BY <2>1, <2>2, Reaches
  <2> QED
    BY <2>3 DEF T
<1>12. h \in [0 .. n -> B]
  BY <1>8, <1>11
<1> HIDE DEF IsIt
<1> QED
  BY <1>0, <1>1, <1>9, <1>10, <1>12

\* Forwarding keeps what is on its way on other topics, and brings the last message
\* of its topic behind it.
LEMMA Forwarded ==
  ASSUME NEW msgs \in Seq(Messages), inbox \in Seq(Messages)
  PROVE  /\ Along(Forward, inbox, msgs) \in Seq(Messages)
         /\ \A M : (\A k \in 1 .. Len(msgs) : msgs[k] \notin M) =>
              /\ \A m : LastOf(inbox, M, m) => LastOf(Along(Forward, inbox, msgs), M, m)
              /\ NoneOf(inbox, M) => NoneOf(Along(Forward, inbox, msgs), M)
         /\ \A M : \A k \in 1 .. Len(msgs) :
              Subscribed(msgs[k]) /\ (\A j \in k + 1 .. Len(msgs) : msgs[j] \notin M) =>
                LastOf(Along(Forward, inbox, msgs), M, msgs[k])
         /\ (\A k \in 1 .. Len(msgs) : ~ Subscribed(msgs[k])) => Along(Forward, inbox, msgs) = inbox
<1>1. PICK n \in Nat : n = Len(msgs)
  BY LenProperties
<1>2. PICK f \in [0 .. n -> Seq(Messages)] :
        /\ f[0] = inbox /\ \A k \in 1 .. n : f[k] = Forward(f[k - 1], msgs[k])
        /\ f[n] = Along(Forward, inbox, msgs)
  BY <1>1, ForwardSteps
<1>3. ASSUME NEW k \in 1 .. n, NEW M, msgs[k] \notin M
      PROVE  /\ \A m : LastOf(f[k - 1], M, m) => LastOf(f[k], M, m)
             /\ NoneOf(f[k - 1], M) => NoneOf(f[k], M)
  <2>1. PICK s \in Seq(Messages), e \in Messages : s = f[k - 1] /\ e = msgs[k]
    BY <1>1
  <2>2. f[k] = s \/ f[k] = Append(s, e)
    BY <1>2, <2>1 DEF Forward
  <2>3. e \notin M
    BY <1>3, <2>1
  <2>4. \A m : LastOf(s, M, m) => LastOf(Append(s, e), M, m)
    BY <2>3, AppendOf
  <2>5. NoneOf(s, M) => NoneOf(Append(s, e), M)
    BY <2>3, AppendOf
  <2> QED
    BY <2>1, <2>2, <2>4, <2>5
<1>4. ASSUME NEW M, \A k \in 1 .. n : msgs[k] \notin M
      PROVE  /\ \A m : LastOf(inbox, M, m) => LastOf(f[n], M, m)
             /\ NoneOf(inbox, M) => NoneOf(f[n], M)
  <2>1. ASSUME NEW m, LastOf(inbox, M, m) PROVE LastOf(f[n], M, m)
    <3> DEFINE T == {k \in 0 .. n : LastOf(f[k], M, m)}
    <3>1. 0 \in T
      BY <1>2, <2>1
    <3>2. \A k \in 1 .. n : k - 1 \in T => k \in T
      <4> TAKE k \in 1 .. n
      <4>1. msgs[k] \notin M
        BY <1>4
      <4>2. LastOf(f[k - 1], M, m) => LastOf(f[k], M, m)
        BY <1>3, <4>1, Zenon
      <4> QED
        BY <4>2
    <3> HIDE DEF T
    <3>3. \A k \in 0 .. n : k \in T
      BY <3>1, <3>2, Reaches
    <3> QED
      BY <3>3 DEF T
  <2>2. ASSUME NoneOf(inbox, M) PROVE NoneOf(f[n], M)
    <3> DEFINE T == {k \in 0 .. n : NoneOf(f[k], M)}
    <3>1. 0 \in T
      BY <1>2, <2>2
    <3>2. \A k \in 1 .. n : k - 1 \in T => k \in T
      <4> TAKE k \in 1 .. n
      <4>1. msgs[k] \notin M
        BY <1>4
      <4>2. NoneOf(f[k - 1], M) => NoneOf(f[k], M)
        BY <1>3, <4>1, Zenon
      <4> QED
        BY <4>2
    <3> HIDE DEF T
    <3>3. \A k \in 0 .. n : k \in T
      BY <3>1, <3>2, Reaches
    <3> QED
      BY <3>3 DEF T
  <2> QED
    BY <2>1, <2>2
<1>5. ASSUME NEW M, NEW k \in 1 .. n, Subscribed(msgs[k]), \A j \in k + 1 .. n : msgs[j] \notin M
      PROVE  LastOf(f[n], M, msgs[k])
  <2> DEFINE T == {j \in 0 .. n : LastOf(f[j], M, msgs[k])}
  <2>1. k \in T
    <3>1. PICK s \in Seq(Messages), e \in Messages : s = f[k - 1] /\ e = msgs[k]
      BY <1>1
    <3>2. f[k] = Append(s, e)
      BY <1>2, <1>5, <3>1 DEF Forward
    <3>3. LastOf(Append(s, e), M, e)
      BY AppendOf
    <3>4. LastOf(f[k], M, msgs[k])
      BY <3>1, <3>2, <3>3
    <3> QED
      BY <3>4
  <2>2. \A j \in k + 1 .. n : j - 1 \in T => j \in T
    <3> TAKE j \in k + 1 .. n
    <3>1. j \in 1 .. n /\ msgs[j] \notin M
      BY <1>5
    <3>2. LastOf(f[j - 1], M, msgs[k]) => LastOf(f[j], M, msgs[k])
      BY <1>3, <3>1, Zenon
    <3> QED
      BY <3>2
  <2> HIDE DEF T
  <2>3. n \in T
    BY <2>1, <2>2, ReachesEnd
  <2> QED
    BY <2>3 DEF T
<1>6. Along(Forward, inbox, msgs) \in Seq(Messages)
  BY <1>2
<1>7. ASSUME \A k \in 1 .. n : ~ Subscribed(msgs[k]) PROVE f[n] = inbox
  <2> DEFINE T == {k \in 0 .. n : f[k] = inbox}
  <2>1. 0 \in T
    BY <1>2
  <2>2. \A k \in 1 .. n : k - 1 \in T => k \in T
    <3> TAKE k \in 1 .. n
    <3>1. f[k] = f[k - 1]
      BY <1>2, <1>7 DEF Forward
    <3> QED
      BY <3>1
  <2> HIDE DEF T
  <2>3. \A k \in 0 .. n : k \in T
    BY <2>1, <2>2, Reaches
  <2> QED
    BY <2>3 DEF T
<1> QED
  BY <1>1, <1>2, <1>4, <1>5, <1>6, <1>7, Zenon

LEMMA MessageTyped ==
  ASSUME NEW m \in Messages
  PROVE  /\ m.id \in NodeIds /\ m.leaf \in Leaves /\ m.payload \in Payloads(m.leaf)
         /\ m = Message(m.id, m.leaf, m.payload)
         /\ \A id \in NodeIds, leaf \in Leaves : m \in Topic(id, leaf) <=> m.id = id /\ m.leaf = leaf
<1>1. PICK leaf \in Leaves : m \in MessagesOn(leaf)
  BY DEF Messages, Leaves
<1>2. m \in [id : NodeIds, leaf : {leaf}, payload : Payloads(leaf)]
  BY <1>1 DEF MessagesOn
<1>3. m.id \in NodeIds /\ m.leaf = leaf /\ m.payload \in Payloads(m.leaf)
  BY <1>2
<1>4. m = Message(m.id, m.leaf, m.payload)
  BY <1>2, <1>3 DEF Message
<1> QED
  BY <1>1, <1>3, <1>4 DEF Topic, Message

LEMMA MessageOf ==
  ASSUME NEW id \in NodeIds, NEW leaf \in Leaves, NEW payload \in Payloads(leaf)
  PROVE  Message(id, leaf, payload) \in Messages
<1>1. Message(id, leaf, payload) \in MessagesOn(leaf)
  BY DEF Message, MessagesOn
<1> QED
  BY <1>1 DEF Messages, Leaves

\* What is published on topics of a node, one message a topic, is what the client
\* will have last of them.
LEMMA PublishTells ==
  ASSUME TypeOK, Heard, NEW id \in NodeIds, NEW msgs \in Seq(Messages),
         \A k \in 1 .. Len(msgs) : msgs[k].id = id,
         \A j, k \in 1 .. Len(msgs) : msgs[j].leaf = msgs[k].leaf => j = k,
         Publish(id, msgs)
  PROVE  /\ inbox' \in Seq(Messages) /\ (Offline => Offline')
         /\ DOMAIN retained' = NodeIds
         /\ \A x \in NodeIds, leaf \in Leaves :
              /\ retained'[x][leaf] \in Payloads(leaf)
              /\ x # id => retained'[x] = retained[x]
              /\ \A k \in 1 .. Len(msgs) : msgs[k].leaf = leaf => retained'[id][leaf] = msgs[k].payload
              /\ (\A k \in 1 .. Len(msgs) : msgs[k].leaf # leaf) => retained'[id][leaf] = retained[id][leaf]
         /\ Heard'
<1>1. PICK n \in Nat : n = Len(msgs) /\ DOMAIN msgs = 1 .. n /\ \A k \in 1 .. n : msgs[k] \in Messages
  BY LenProperties
<1>2. PICK new : new = [leaf \in Leaves |->
        LET of == {k \in DOMAIN msgs : msgs[k].leaf = leaf}
        IN  IF of = {} THEN retained[id][leaf] ELSE msgs[CHOOSE k \in of : TRUE].payload]
  OBVIOUS
<1>3. /\ retained' = [retained EXCEPT ![id] = new]
      /\ inbox' = Along(Forward, inbox, msgs)
      /\ UNCHANGED <<subs, hiccups, outbox, connected, registry, nodes>>
  BY <1>2 DEF Publish
<1>4. DOMAIN retained' = NodeIds /\ retained'[id] = new /\ \A x \in NodeIds : x # id => retained'[x] = retained[x]
  BY <1>3 DEF TypeOK
<1>5. ASSUME NEW leaf \in Leaves, NEW k \in 1 .. n, msgs[k].leaf = leaf
      PROVE  new[leaf] = msgs[k].payload
  <2>1. PICK of : of = {j \in DOMAIN msgs : msgs[j].leaf = leaf}
    OBVIOUS
  <2>2. of = {k}
    BY <1>1, <1>5, <2>1
  <2>3. (CHOOSE j \in of : TRUE) = k
    BY <2>2
  <2> QED
    BY <1>2, <2>1, <2>2, <2>3
<1>6. ASSUME NEW leaf \in Leaves, \A k \in 1 .. n : msgs[k].leaf # leaf
      PROVE  new[leaf] = retained[id][leaf]
  <2>1. {j \in DOMAIN msgs : msgs[j].leaf = leaf} = {}
    BY <1>1, <1>6
  <2> QED
    BY <1>2, <2>1
<1>7. ASSUME NEW x \in NodeIds, NEW leaf \in Leaves
      PROVE  retained'[x][leaf] \in Payloads(leaf)
  <2>1. CASE x # id
    BY <1>4, <2>1 DEF TypeOK
  <2>2. CASE x = id /\ \A k \in 1 .. n : msgs[k].leaf # leaf
    BY <1>4, <1>6, <2>2 DEF TypeOK
  <2>3. CASE x = id /\ \E k \in 1 .. n : msgs[k].leaf = leaf
    <3>1. PICK k \in 1 .. n : msgs[k].leaf = leaf
      BY <2>3
    <3>2. msgs[k].payload \in Payloads(leaf)
      BY <1>1, <3>1, MessageTyped
    <3> QED
      BY <1>4, <1>5, <2>3, <3>1, <3>2
  <2> QED
    BY <2>1, <2>2, <2>3
<1>8. inbox \in Seq(Messages)
  BY DEF TypeOK
<1>9. ASSUME NEW x \in NodeIds, NEW leaf \in Leaves, Key(x, leaf) \in subs, retained'[x][leaf] # Empty
      PROVE  Told(x, leaf)'
  <2>1. CASE x = id /\ \E k \in 1 .. n : msgs[k].leaf = leaf
    <3>1. PICK k \in 1 .. n : msgs[k].leaf = leaf
      BY <2>1
    <3>2. Subscribed(msgs[k])
      BY <1>1, <1>9, <2>1, <3>1 DEF Subscribed, Key
    <3>3. \A j \in k + 1 .. n : msgs[j] \notin Topic(x, leaf)
      BY <1>1, <3>1 DEF Topic
    <3>4. LastOf(inbox', Topic(x, leaf), msgs[k])
      BY <1>1, <1>3, <1>8, <3>2, <3>3, Forwarded
    <3>5. msgs[k] = Message(x, leaf, retained'[x][leaf])
      BY <1>1, <1>4, <1>5, <2>1, <3>1, MessageTyped
    <3> QED
      BY <3>4, <3>5 DEF Told
  <2>2. CASE ~ (x = id /\ \E k \in 1 .. n : msgs[k].leaf = leaf)
    <3>1. retained'[x][leaf] = retained[x][leaf]
      BY <1>4, <1>6, <2>2
    <3>2. Told(x, leaf)
      BY <1>9, <3>1 DEF Heard
    <3>3. \A k \in 1 .. n : msgs[k] \notin Topic(x, leaf)
      BY <1>1, <2>2 DEF Topic
    <3>4. /\ \A m : LastOf(inbox, Topic(x, leaf), m) => LastOf(inbox', Topic(x, leaf), m)
          /\ NoneOf(inbox, Topic(x, leaf)) => NoneOf(inbox', Topic(x, leaf))
      BY <1>1, <1>3, <1>8, <3>3, Forwarded
    <3>5. Shown(x, leaf) => Shown(x, leaf)'
      <4>1. UNCHANGED <<label, available, bound, seen>>
        BY <1>3 DEF registry, nodes
      <4>2. CASE leaf = "name"
        BY <3>1, <4>1, <4>2 DEF Shown
      <4>3. CASE leaf = "availability"
        BY <3>1, <4>1, <4>3 DEF Shown
      <4>4. CASE leaf = "value"
        BY <3>1, <4>1, <4>4 DEF Shown
      <4> QED
        BY <4>2, <4>3, <4>4 DEF Leaves
    <3> QED
      BY <3>1, <3>2, <3>4, <3>5 DEF Told
  <2> QED
    BY <2>1, <2>2
<1>10. Heard'
  BY <1>3, <1>9 DEF Heard, Key
<1>11. inbox' \in Seq(Messages)
  BY <1>3, <1>8, Forwarded
<1>12. Offline => Offline'
  <2>1. subs = {} => inbox' = inbox
    BY <1>1, <1>3, <1>8, Forwarded DEF Subscribed
  <2> QED
    BY <1>3, <2>1 DEF Offline
<1> QED
  BY <1>1, <1>4, <1>5, <1>6, <1>7, <1>10, <1>11, <1>12

-----------------------------------------------------------------------------
(* The bridge. *)

LEMMA PublishNodeTells ==
  ASSUME TypeOK, Heard, NEW id \in NodeIds, NEW availability \in Payloads("availability"),
         NEW value \in Payloads("value"), PublishNode(id, availability, value)
  PROVE  /\ inbox' \in Seq(Messages) /\ (Offline => Offline') /\ Heard'
         /\ DOMAIN retained' = NodeIds
         /\ \A x \in NodeIds, leaf \in Leaves : retained'[x][leaf] \in Payloads(leaf)
         /\ \A x \in NodeIds : x # id => retained'[x] = retained[x]
         /\ retained'[id]["name"] = names[id]
<1>1. names[id] \in Payloads("name")
  BY DEF TypeOK, Assignments, Payloads
<1>2. PICK a, b, c : /\ a = Message(id, "availability", availability)
                     /\ b = Message(id, "name", names[id]) /\ c = Message(id, "value", value)
  OBVIOUS
<1>3. a \in Messages /\ b \in Messages /\ c \in Messages
  BY <1>1, <1>2, MessageOf DEF Leaves
<1>4. PICK msgs \in Seq(Messages) : msgs = <<a, b, c>>
  <2>1. <<a, b, c>> \in Seq(Messages)
    BY <1>3
  <2> QED
    BY <2>1
<1>5. Publish(id, msgs)
  BY <1>2, <1>4 DEF PublishNode
<1>6. /\ a.id = id /\ a.leaf = "availability" /\ b.id = id /\ b.leaf = "name"
      /\ c.id = id /\ c.leaf = "value" /\ b.payload = names[id]
  BY <1>2 DEF Message
<1>7. Len(msgs) = 3 /\ msgs[1] = a /\ msgs[2] = b /\ msgs[3] = c
  BY <1>4
<1>8. \A k \in 1 .. Len(msgs) : msgs[k].id = id
  BY <1>6, <1>7
<1>9. \A j, k \in 1 .. Len(msgs) : msgs[j].leaf = msgs[k].leaf => j = k
  BY <1>6, <1>7
<1>10. /\ inbox' \in Seq(Messages) /\ (Offline => Offline') /\ Heard'
       /\ DOMAIN retained' = NodeIds
       /\ \A x \in NodeIds, leaf \in Leaves :
            /\ retained'[x][leaf] \in Payloads(leaf)
            /\ x # id => retained'[x] = retained[x]
            /\ \A k \in 1 .. Len(msgs) : msgs[k].leaf = leaf => retained'[id][leaf] = msgs[k].payload
  BY <1>5, <1>8, <1>9, PublishTells
<1>11. retained'[id]["name"] = names[id]
  BY <1>6, <1>7, <1>10 DEF Leaves
<1> QED
  BY <1>10, <1>11 DEF Leaves

\* The bridge leaves Node-RED alone.
LEMMA BridgeLeaves ==
  ASSUME FlowInv, UNCHANGED <<subs, outbox, connected, registry, nodes>>,
         names' \in Assignments, due' \subseteq NodeIds, clock' \in Nat,
         DOMAIN retained' = NodeIds, inbox' \in Seq(Messages),
         \A x \in NodeIds, leaf \in Leaves : retained'[x][leaf] \in Payloads(leaf),
         Heard', Offline', Published'
  PROVE  FlowInv'
<1>1. UNCHANGED <<known, label, available, handlers, started, bound, seen, subs, outbox, connected>>
  BY DEF registry, nodes
<1>2. TypeOK'
  BY <1>1 DEF FlowInv, TypeOK
<1>3. Wanted'
  BY <1>1 DEF FlowInv, Wanted, Assured
<1>4. Resolved' /\ Silent'
  BY <1>1 DEF FlowInv, Resolved, Silent
<1> QED
  BY <1>2, <1>3, <1>4 DEF FlowInv

LEMMA RenameKeeps == ASSUME FlowInv, Rename PROVE FlowInv'
<1>1. PICK f \in Assignments, new \in SUBSET NodeIds :
        names' = f /\ due' = new \cup {id \in NodeIds : f[id] # names[id]}
  BY DEF Rename
<1>2. UNCHANGED <<retained, subs, inbox, outbox, connected, registry, nodes>> /\ due = {}
  BY DEF Rename, Event
<1>3. UNCHANGED <<label, available, bound, seen>>
  BY <1>2 DEF registry, nodes
<1>4. clock' \in Nat /\ due' \subseteq NodeIds
  BY <1>1 DEF Rename, Event, FlowInv, TypeOK
<1>5. Heard'
  BY <1>2, <1>3 DEF FlowInv, Heard, Key, Told, Shown
<1>6. Offline'
  BY <1>2 DEF FlowInv, Offline
<1>7. Published'
  BY <1>1, <1>2 DEF FlowInv, Published
<1>8. /\ DOMAIN retained' = NodeIds /\ inbox' \in Seq(Messages)
      /\ \A x \in NodeIds, leaf \in Leaves : retained'[x][leaf] \in Payloads(leaf)
  BY <1>2 DEF FlowInv, TypeOK
<1> QED
  BY <1>1, <1>2, <1>4, <1>5, <1>6, <1>7, <1>8, BridgeLeaves

LEMMA PublishDueKeeps == ASSUME FlowInv, NEW id \in NodeIds, PublishDue(id) PROVE FlowInv'
<1>1. PICK availability \in Payloads("availability"), value \in Payloads("value") :
        PublishNode(id, availability, value)
  <2>1. CASE id \in Present
    <3>1. retained[id]["availability"] \in Payloads("availability") /\ retained[id]["value"] \in Payloads("value")
      BY DEF FlowInv, TypeOK, Leaves
    <3> QED
      BY <2>1, <3>1 DEF PublishDue
  <2>2. CASE id \notin Present
    <3>1. "online" \in Payloads("availability") /\ 0 \in Payloads("value")
      BY DEF Payloads
    <3> QED
      BY <2>2, <3>1 DEF PublishDue
  <2> QED
    BY <2>1, <2>2
<1>2. TypeOK /\ Heard /\ Offline
  BY DEF FlowInv
<1>3. /\ inbox' \in Seq(Messages) /\ Offline' /\ Heard'
      /\ DOMAIN retained' = NodeIds
      /\ \A x \in NodeIds, leaf \in Leaves : retained'[x][leaf] \in Payloads(leaf)
      /\ \A x \in NodeIds : x # id => retained'[x] = retained[x]
      /\ retained'[id]["name"] = names[id]
  BY <1>1, <1>2, PublishNodeTells
<1>4. UNCHANGED <<names, clock, subs, outbox, connected, registry, nodes>> /\ due' = due \ {id}
  BY <1>1 DEF PublishDue, PublishNode, Publish
<1>5. Published'
  BY <1>3, <1>4 DEF FlowInv, Published
<1>6. names' \in Assignments /\ due' \subseteq NodeIds /\ clock' \in Nat
  BY <1>4 DEF FlowInv, TypeOK
<1> QED
  BY <1>3, <1>4, <1>5, <1>6, BridgeLeaves

LEMMA ReportValueKeeps == ASSUME FlowInv, NEW id \in NodeIds, ReportValue(id) PROVE FlowInv'
<1>1. PICK m : m = Message(id, "value", clock + 1)
  OBVIOUS
<1>2. m \in Messages
  <2>1. clock + 1 \in Payloads("value")
    BY DEF FlowInv, TypeOK, Payloads
  <2> QED
    BY <1>1, <2>1, MessageOf DEF Leaves
<1>3. PICK msgs \in Seq(Messages) : msgs = <<m>>
  <2>1. <<m>> \in Seq(Messages)
    BY <1>2
  <2> QED
    BY <2>1
<1>4. Publish(id, msgs)
  BY <1>1, <1>3 DEF ReportValue
<1>5. Len(msgs) = 1 /\ msgs[1] = m /\ m.id = id /\ m.leaf = "value"
  BY <1>1, <1>3 DEF Message
<1>6. \A k \in 1 .. Len(msgs) : msgs[k].id = id /\ msgs[k].leaf = "value"
  BY <1>5
<1>7. \A j, k \in 1 .. Len(msgs) : msgs[j].leaf = msgs[k].leaf => j = k
  BY <1>5
<1>8. TypeOK /\ Heard /\ Offline
  BY DEF FlowInv
<1>9. /\ inbox' \in Seq(Messages) /\ Offline' /\ Heard'
      /\ DOMAIN retained' = NodeIds
      /\ \A x \in NodeIds, leaf \in Leaves :
           /\ retained'[x][leaf] \in Payloads(leaf)
           /\ x # id => retained'[x] = retained[x]
           /\ (\A k \in 1 .. Len(msgs) : msgs[k].leaf # leaf) => retained'[id][leaf] = retained[id][leaf]
  BY <1>4, <1>6, <1>7, <1>8, PublishTells
<1>10. UNCHANGED <<names, due, subs, outbox, connected, registry, nodes>> /\ due = {} /\ clock' = clock + 1
  BY <1>4 DEF ReportValue, Event, Publish, bridge
<1>11. retained'[id]["name"] = retained[id]["name"]
  BY <1>6, <1>9 DEF Leaves
<1>12. Published'
  BY <1>9, <1>10, <1>11 DEF FlowInv, Published, Leaves
<1>13. names' \in Assignments /\ due' \subseteq NodeIds /\ clock' \in Nat
  BY <1>10 DEF FlowInv, TypeOK
<1> QED
  BY <1>9, <1>10, <1>12, <1>13, BridgeLeaves

LEMMA ChangeAvailabilityKeeps ==
  ASSUME FlowInv, NEW id \in NodeIds, ChangeAvailability(id) PROVE FlowInv'
<1>1. PICK availability \in Payloads("availability"), value \in Payloads("value") :
        PublishNode(id, availability, value)
  <2>1. retained[id]["value"] \in Payloads("value")
    BY DEF FlowInv, TypeOK, Leaves
  <2>2. {"online", "offline"} \subseteq Payloads("availability")
    BY DEF Payloads
  <2> QED
    BY <2>1, <2>2 DEF ChangeAvailability
<1>2. TypeOK /\ Heard /\ Offline
  BY DEF FlowInv
<1>3. /\ inbox' \in Seq(Messages) /\ Offline' /\ Heard'
      /\ DOMAIN retained' = NodeIds
      /\ \A x \in NodeIds, leaf \in Leaves : retained'[x][leaf] \in Payloads(leaf)
      /\ \A x \in NodeIds : x # id => retained'[x] = retained[x]
      /\ retained'[id]["name"] = names[id]
  BY <1>1, <1>2, PublishNodeTells
<1>4. UNCHANGED <<names, due, subs, outbox, connected, registry, nodes>> /\ clock' = clock + 1
  BY <1>1 DEF ChangeAvailability, Event, PublishNode, Publish, bridge
<1>5. Published'
  BY <1>3, <1>4 DEF FlowInv, Published
<1>6. names' \in Assignments /\ due' \subseteq NodeIds /\ clock' \in Nat
  BY <1>4 DEF FlowInv, TypeOK
<1> QED
  BY <1>3, <1>4, <1>5, <1>6, BridgeLeaves

LEMMA RemoveDeviceKeeps == ASSUME FlowInv, NEW id \in NodeIds, RemoveDevice(id) PROVE FlowInv'
<1>1. PICK order \in ClearOrders :
        Publish(id, [k \in DOMAIN order |-> Message(id, order[k], Empty)])
  BY DEF RemoveDevice
<1>2. PICK n \in Nat : n = Len(order) /\ DOMAIN order = 1 .. n
  BY <1>1, FlowAssumption, LenProperties DEF Lists
<1>3. \A k \in 1 .. n : order[k] \in Leaves
  BY <1>2, FlowAssumption DEF Lists
<1>4. \A j, k \in 1 .. n : order[j] = order[k] => j = k
  BY <1>2, FlowAssumption DEF Lists, IsInjective
<1>5. \A leaf \in Leaves : Empty \in Payloads(leaf)
  BY DEF Payloads, Leaves
<1>6. PICK msgs : msgs = [k \in 1 .. n |-> Message(id, order[k], Empty)]
  OBVIOUS
<1>7. \A k \in 1 .. n : msgs[k] \in Messages
  BY <1>3, <1>5, <1>6, MessageOf
<1>8. msgs \in Seq(Messages) /\ Len(msgs) = n
  BY <1>6, <1>7
<1>9. \A k \in 1 .. n : msgs[k].id = id /\ msgs[k].leaf = order[k] /\ msgs[k].payload = Empty
  BY <1>6 DEF Message
<1>10. Publish(id, msgs)
  BY <1>1, <1>2, <1>6
<1>11. TypeOK /\ Heard /\ Offline
  BY DEF FlowInv
<1>12. /\ inbox' \in Seq(Messages) /\ Offline' /\ Heard'
       /\ DOMAIN retained' = NodeIds
       /\ \A x \in NodeIds, leaf \in Leaves :
            /\ retained'[x][leaf] \in Payloads(leaf)
            /\ x # id => retained'[x] = retained[x]
            /\ \A k \in 1 .. Len(msgs) : msgs[k].leaf = leaf => retained'[id][leaf] = msgs[k].payload
  <2>1. \A k \in 1 .. Len(msgs) : msgs[k].id = id
    BY <1>8, <1>9
  <2>2. \A j, k \in 1 .. Len(msgs) : msgs[j].leaf = msgs[k].leaf => j = k
    BY <1>4, <1>8, <1>9
  <2>3. msgs \in Seq(Messages)
    BY <1>8
  <2> QED
    BY <1>10, <1>11, <2>1, <2>2, <2>3, PublishTells
<1>13. PICK k \in 1 .. n : order[k] = "name"
  <2>1. {order[k] : k \in DOMAIN order} = Leaves
    BY <1>1, FlowAssumption DEF Lists, ToSet
  <2> QED
    BY <1>2, <2>1 DEF Leaves
<1>14. retained'[id]["name"] = Empty
  BY <1>8, <1>9, <1>12, <1>13 DEF Leaves
<1>15. /\ UNCHANGED <<due, subs, outbox, connected, registry, nodes>>
       /\ clock' = clock + 1 /\ names' = [names EXCEPT ![id] = Empty]
  BY <1>10 DEF RemoveDevice, Event, Publish
<1>16. Published'
  BY <1>12, <1>14, <1>15 DEF FlowInv, Published, Leaves, TypeOK, Assignments
<1>17. names' \in Assignments
  <2>1. names \in Assignments
    BY DEF FlowInv, TypeOK
  <2>2. PICK f : f = [names EXCEPT ![id] = Empty]
    OBVIOUS
  <2>3. f \in [NodeIds -> Names \cup {Empty}] /\ f[id] = Empty /\ \A a \in NodeIds : a # id => f[a] = names[a]
    BY <2>1, <2>2 DEF Assignments
  <2>4. \A a, b \in NodeIds : a # b /\ f[a] # Empty /\ f[b] # Empty => Lower[f[a]] # Lower[f[b]]
    BY <2>1, <2>3 DEF Assignments
  <2> QED
    BY <1>15, <2>2, <2>3, <2>4 DEF Assignments
<1>18. due' \subseteq NodeIds /\ clock' \in Nat
  BY <1>15 DEF FlowInv, TypeOK
<1> QED
  BY <1>12, <1>15, <1>16, <1>17, <1>18, BridgeLeaves

-----------------------------------------------------------------------------
(* The broker. *)

\* What is retained on a topic comes behind what is on its way, and changes no
\* other topic.
LEMMA ReplayOf ==
  ASSUME TypeOK, NEW box \in Seq(Messages), NEW id \in NodeIds, NEW leaf \in Leaves
  PROVE  /\ Replay(box, id, leaf) \in Seq(Messages)
         /\ retained[id][leaf] # Empty => \A M :
              LastOf(Replay(box, id, leaf), M, Message(id, leaf, retained[id][leaf]))
         /\ \A x \in NodeIds, l \in Leaves : ~ (x = id /\ l = leaf) =>
              /\ \A m : LastOf(box, Topic(x, l), m) => LastOf(Replay(box, id, leaf), Topic(x, l), m)
              /\ NoneOf(box, Topic(x, l)) => NoneOf(Replay(box, id, leaf), Topic(x, l))
<1>1. PICK e : e = Message(id, leaf, retained[id][leaf])
  OBVIOUS
<1>2. e \in Messages /\ e.id = id /\ e.leaf = leaf
  <2>1. retained[id][leaf] \in Payloads(leaf)
    BY DEF TypeOK
  <2> QED
    BY <1>1, <2>1, MessageOf DEF Message
<1>3. Replay(box, id, leaf) = IF retained[id][leaf] = Empty THEN box ELSE Append(box, e)
  BY <1>1 DEF Replay
<1>4. Append(box, e) \in Seq(Messages)
  BY <1>2
<1>5. \A M : LastOf(Append(box, e), M, e)
  BY <1>2, AppendOf, Zenon
<1>6. ASSUME NEW x \in NodeIds, NEW l \in Leaves, ~ (x = id /\ l = leaf)
      PROVE  /\ \A m : LastOf(box, Topic(x, l), m) => LastOf(Append(box, e), Topic(x, l), m)
             /\ NoneOf(box, Topic(x, l)) => NoneOf(Append(box, e), Topic(x, l))
  <2>1. e \notin Topic(x, l)
    BY <1>2, <1>6, MessageTyped
  <2> QED
    BY <1>2, <2>1, AppendOf, Zenon
<1> QED
  BY <1>1, <1>3, <1>4, <1>5, <1>6, Zenon

LEMMA ReplayMetaOf ==
  ASSUME TypeOK, NEW box \in Seq(Messages), NEW id \in NodeIds
  PROVE  /\ ReplayMeta(box, id) \in Seq(Messages)
         /\ \A leaf \in Meta : retained[id][leaf] # Empty =>
              LastOf(ReplayMeta(box, id), Topic(id, leaf), Message(id, leaf, retained[id][leaf]))
         /\ \A x \in NodeIds, l \in Leaves : ~ (x = id /\ l \in Meta) =>
              /\ \A m : LastOf(box, Topic(x, l), m) => LastOf(ReplayMeta(box, id), Topic(x, l), m)
              /\ NoneOf(box, Topic(x, l)) => NoneOf(ReplayMeta(box, id), Topic(x, l))
<1>1. PICK mid : mid = Replay(box, id, "availability")
  OBVIOUS
<1>2. ReplayMeta(box, id) = Replay(mid, id, "name")
  BY <1>1 DEF ReplayMeta
<1>3. "availability" \in Leaves /\ "name" \in Leaves /\ Meta = {"availability", "name"}
  BY DEF Leaves, Meta
<1>4. /\ mid \in Seq(Messages)
      /\ retained[id]["availability"] # Empty => \A M :
              LastOf(mid, M, Message(id, "availability", retained[id]["availability"]))
      /\ \A x \in NodeIds, l \in Leaves : ~ (x = id /\ l = "availability") =>
              /\ \A m : LastOf(box, Topic(x, l), m) => LastOf(mid, Topic(x, l), m)
              /\ NoneOf(box, Topic(x, l)) => NoneOf(mid, Topic(x, l))
  BY <1>1, <1>3, ReplayOf, Zenon
<1>5. /\ Replay(mid, id, "name") \in Seq(Messages)
      /\ retained[id]["name"] # Empty => \A M :
              LastOf(Replay(mid, id, "name"), M, Message(id, "name", retained[id]["name"]))
      /\ \A x \in NodeIds, l \in Leaves : ~ (x = id /\ l = "name") =>
              /\ \A m : LastOf(mid, Topic(x, l), m) => LastOf(Replay(mid, id, "name"), Topic(x, l), m)
              /\ NoneOf(mid, Topic(x, l)) => NoneOf(Replay(mid, id, "name"), Topic(x, l))
  BY <1>3, <1>4, ReplayOf, Zenon
<1> QED
  BY <1>2, <1>3, <1>4, <1>5, Zenon

\* The retained metadata of all nodes comes, and nothing else.
LEMMA ReplaySteps ==
  ASSUME TypeOK, NEW order \in Seq(NodeIds)
  PROVE  \E f \in [0 .. Len(order) -> Seq(Messages)] :
           /\ f[0] = inbox /\ \A k \in 1 .. Len(order) : f[k] = ReplayMeta(f[k - 1], order[k])
           /\ f[Len(order)] = Along(ReplayMeta, inbox, order)
<1>0. PICK B : B = Seq(Messages)
  OBVIOUS
<1>1. PICK n \in Nat, b \in B : n = Len(order) /\ b = inbox
  <2> Len(order) \in Nat /\ inbox \in B
    BY <1>0, LenProperties DEF TypeOK
  <2> WITNESS Len(order) \in Nat, inbox \in B
  <2> QED
    OBVIOUS
<1>2. \A box \in B, k \in 1 .. n : ReplayMeta(box, order[k]) \in B
  <2>1. \A k \in 1 .. n : order[k] \in NodeIds
    BY <1>1
  <2> QED
    BY <1>0, <2>1, ReplayMetaOf
<1>3. PICK g : g = [box \in B |-> [k \in 1 .. n |-> ReplayMeta(box, order[k])]]
  OBVIOUS
<1> \A box \in B, k \in 1 .. n : g[box][k] \in B
  BY <1>2, <1>3
<1>4. PICK f : Steps(f, n, B, b, g)
  BY StepsExist
<1> f \in [0 .. n -> B] /\ f[0] = b /\ \A k \in 1 .. n : f[k] = g[f[k - 1]][k]
  BY <1>4 DEF Steps
<1>5. ASSUME NEW k \in 1 .. n PROVE k - 1 \in 0 .. n /\ f[k] = ReplayMeta(f[k - 1], order[k])
  <2>1. PICK c : c = f[k - 1] /\ c \in B
    OBVIOUS
  <2>2. g[c][k] = ReplayMeta(c, order[k])
    BY <1>3, <2>1
  <2> QED
    BY <1>4, <2>1, <2>2
<1> DEFINE IsIt(h) ==
      h = [k \in 0 .. n |-> IF k = 0 THEN inbox ELSE ReplayMeta(h[k - 1], order[k])]
<1>6. IsIt(f)
  BY <1>1, <1>4, <1>5
<1>7. PICK h : h = CHOOSE x : IsIt(x)
  OBVIOUS
<1>8. IsIt(h)
  BY <1>6, <1>7
<1>9. h[n] = Along(ReplayMeta, inbox, order)
  BY <1>1, <1>7 DEF Along
<1>10. h[0] = b /\ \A k \in 1 .. n : h[k] = ReplayMeta(h[k - 1], order[k])
  <2>1. h[0] = b
    BY <1>1, <1>8
  <2>2. \A k \in 1 .. n : h[k] = ReplayMeta(h[k - 1], order[k])
    <3> TAKE k \in 1 .. n
    <3>1. k \in 0 .. n /\ k # 0
      OBVIOUS
    <3> QED
      BY <1>8, <3>1
  <2> QED
    BY <2>1, <2>2
<1>11. \A k \in 0 .. n : h[k] \in B
  <2> DEFINE T == {k \in 0 .. n : h[k] \in B}
  <2>1. 0 \in T
    BY <1>10
  <2>2. \A k \in 1 .. n : k - 1 \in T => k \in T
    BY <1>2, <1>10
  <2> HIDE DEF T
  <2>3. \A k \in 0 .. n : k \in T
    BY <2>1, <2>2, Reaches
  <2> QED
    BY <2>3 DEF T
<1>12. h \in [0 .. n -> B]
  BY <1>8, <1>11
<1> HIDE DEF IsIt
<1> QED
  BY <1>0, <1>1, <1>9, <1>10, <1>12

LEMMA Replayed ==
  ASSUME TypeOK, NEW order, Lists(order, NodeIds)
  PROVE  /\ Along(ReplayMeta, inbox, order) \in Seq(Messages)
         /\ \A x \in NodeIds, leaf \in Meta : retained[x][leaf] # Empty =>
              LastOf(Along(ReplayMeta, inbox, order), Topic(x, leaf), Message(x, leaf, retained[x][leaf]))
         /\ \A x \in NodeIds, l \in Leaves \ Meta :
              /\ \A m : LastOf(inbox, Topic(x, l), m) => LastOf(Along(ReplayMeta, inbox, order), Topic(x, l), m)
              /\ NoneOf(inbox, Topic(x, l)) => NoneOf(Along(ReplayMeta, inbox, order), Topic(x, l))
<1>1. PICK n \in Nat : n = Len(order) /\ DOMAIN order = 1 .. n
  BY LenProperties DEF Lists
<1>2. /\ order \in Seq(NodeIds) /\ \A k \in 1 .. n : order[k] \in NodeIds
      /\ \A j, k \in 1 .. n : order[j] = order[k] => j = k
      /\ \A x \in NodeIds : \E k \in 1 .. n : order[k] = x
  BY <1>1 DEF Lists, IsInjective, ToSet
<1>3. PICK f \in [0 .. n -> Seq(Messages)] :
        /\ f[0] = inbox /\ \A k \in 1 .. n : f[k] = ReplayMeta(f[k - 1], order[k])
        /\ f[n] = Along(ReplayMeta, inbox, order)
  BY <1>1, <1>2, ReplaySteps
<1>4. ASSUME NEW k \in 1 .. n
      PROVE  /\ \A leaf \in Meta : retained[order[k]][leaf] # Empty =>
                  LastOf(f[k], Topic(order[k], leaf), Message(order[k], leaf, retained[order[k]][leaf]))
             /\ \A x \in NodeIds, l \in Leaves : ~ (x = order[k] /\ l \in Meta) =>
                  /\ \A m : LastOf(f[k - 1], Topic(x, l), m) => LastOf(f[k], Topic(x, l), m)
                  /\ NoneOf(f[k - 1], Topic(x, l)) => NoneOf(f[k], Topic(x, l))
  <2>1. PICK box \in Seq(Messages), id \in NodeIds : box = f[k - 1] /\ id = order[k]
    BY <1>2
  <2>2. f[k] = ReplayMeta(box, id)
    BY <1>3, <2>1
  <2> QED
    BY <2>1, <2>2, ReplayMetaOf, Zenon
<1>5. ASSUME NEW x \in NodeIds, NEW leaf \in Meta, retained[x][leaf] # Empty
      PROVE  LastOf(f[n], Topic(x, leaf), Message(x, leaf, retained[x][leaf]))
  <2>1. PICK m : m = Message(x, leaf, retained[x][leaf])
    OBVIOUS
  <2>2. PICK k \in 1 .. n : order[k] = x
    BY <1>2
  <2> DEFINE T == {j \in 0 .. n : LastOf(f[j], Topic(x, leaf), m)}
  <2>3. k \in T
    <3>1. LastOf(f[k], Topic(x, leaf), m)
      BY <1>4, <1>5, <2>1, <2>2, Zenon
    <3> QED
      BY <3>1
  <2>4. \A j \in k + 1 .. n : j - 1 \in T => j \in T
    <3> TAKE j \in k + 1 .. n
    <3>1. j \in 1 .. n /\ order[j] # x /\ leaf \in Leaves
      BY <1>2, <2>2 DEF Meta, Leaves
    <3>2. LastOf(f[j - 1], Topic(x, leaf), m) => LastOf(f[j], Topic(x, leaf), m)
      BY <1>4, <3>1, Zenon
    <3> QED
      BY <3>2
  <2> HIDE DEF T
  <2>5. n \in T
    BY <2>3, <2>4, ReachesEnd
  <2> QED
    BY <2>1, <2>5 DEF T
<1>6. ASSUME NEW x \in NodeIds, NEW l \in Leaves \ Meta
      PROVE  /\ \A m : LastOf(inbox, Topic(x, l), m) => LastOf(f[n], Topic(x, l), m)
             /\ NoneOf(inbox, Topic(x, l)) => NoneOf(f[n], Topic(x, l))
  <2>1. ASSUME NEW m, LastOf(inbox, Topic(x, l), m) PROVE LastOf(f[n], Topic(x, l), m)
    <3> DEFINE T == {k \in 0 .. n : LastOf(f[k], Topic(x, l), m)}
    <3>1. 0 \in T
      BY <1>3, <2>1
    <3>2. \A k \in 1 .. n : k - 1 \in T => k \in T
      <4> TAKE k \in 1 .. n
      <4>1. LastOf(f[k - 1], Topic(x, l), m) => LastOf(f[k], Topic(x, l), m)
        BY <1>4, Zenon
      <4> QED
        BY <4>1
    <3> HIDE DEF T
    <3>3. \A k \in 0 .. n : k \in T
      BY <3>1, <3>2, Reaches
    <3> QED
      BY <3>3 DEF T
  <2>2. ASSUME NoneOf(inbox, Topic(x, l)) PROVE NoneOf(f[n], Topic(x, l))
    <3> DEFINE T == {k \in 0 .. n : NoneOf(f[k], Topic(x, l))}
    <3>1. 0 \in T
      BY <1>3, <2>2
    <3>2. \A k \in 1 .. n : k - 1 \in T => k \in T
      <4> TAKE k \in 1 .. n
      <4>1. NoneOf(f[k - 1], Topic(x, l)) => NoneOf(f[k], Topic(x, l))
        BY <1>4, Zenon
      <4> QED
        BY <4>1
    <3> HIDE DEF T
    <3>3. \A k \in 0 .. n : k \in T
      BY <3>1, <3>2, Reaches
    <3> QED
      BY <3>3 DEF T
  <2> QED
    BY <2>1, <2>2
<1>7. Along(ReplayMeta, inbox, order) \in Seq(Messages)
  BY <1>3
<1> QED
  BY <1>3, <1>5, <1>6, <1>7, Zenon

\* A SUBSCRIBE is answered with the retained message of each topic it is for.
LEMMA BrokerSubscribesTells ==
  ASSUME TypeOK, Heard, NEW what \in {"meta"} \cup NodeIds, BrokerSubscribes(what),
         UNCHANGED <<retained, label, available, bound, seen>>
  PROVE  inbox' \in Seq(Messages) /\ Heard'
<1>1. inbox' \in Seq(Messages) /\
      \A id \in NodeIds, leaf \in Leaves :
        IF Key(id, leaf) = what
          THEN retained[id][leaf] # Empty =>
                 LastOf(inbox', Topic(id, leaf), Message(id, leaf, retained[id][leaf]))
          ELSE /\ \A m : LastOf(inbox, Topic(id, leaf), m) => LastOf(inbox', Topic(id, leaf), m)
               /\ NoneOf(inbox, Topic(id, leaf)) => NoneOf(inbox', Topic(id, leaf))
  <2>1. CASE what = "meta"
    <3>1. PICK order \in NodeOrders : inbox' = Along(ReplayMeta, inbox, order)
      BY <2>1 DEF BrokerSubscribes
    <3>2. Lists(order, NodeIds)
      BY FlowAssumption
    <3>3. \A id \in NodeIds, leaf \in Leaves : Key(id, leaf) = what <=> leaf \in Meta
      BY <2>1, FlowAssumption DEF Key
    <3>4. Meta \subseteq Leaves
      BY DEF Meta, Leaves
    <3>5. /\ Along(ReplayMeta, inbox, order) \in Seq(Messages)
          /\ \A x \in NodeIds, leaf \in Meta : retained[x][leaf] # Empty =>
               LastOf(Along(ReplayMeta, inbox, order), Topic(x, leaf), Message(x, leaf, retained[x][leaf]))
          /\ \A x \in NodeIds, l \in Leaves \ Meta :
              /\ \A m : LastOf(inbox, Topic(x, l), m) => LastOf(Along(ReplayMeta, inbox, order), Topic(x, l), m)
              /\ NoneOf(inbox, Topic(x, l)) => NoneOf(Along(ReplayMeta, inbox, order), Topic(x, l))
      BY <3>2, Replayed, Zenon
    <3> QED
      BY <3>1, <3>3, <3>4, <3>5, Zenon
  <2>2. CASE what # "meta"
    <3>1. what \in NodeIds /\ inbox' = Replay(inbox, what, "value")
      BY <2>2 DEF BrokerSubscribes
    <3>2. \A id \in NodeIds, leaf \in Leaves : Key(id, leaf) = what <=> id = what /\ leaf = "value"
      BY <2>2 DEF Key, Meta, Leaves
    <3>3. inbox \in Seq(Messages) /\ "value" \in Leaves
      BY DEF TypeOK, Leaves
    <3>4. /\ Replay(inbox, what, "value") \in Seq(Messages)
          /\ retained[what]["value"] # Empty => \A M :
               LastOf(Replay(inbox, what, "value"), M, Message(what, "value", retained[what]["value"]))
          /\ \A x \in NodeIds, l \in Leaves : ~ (x = what /\ l = "value") =>
              /\ \A m : LastOf(inbox, Topic(x, l), m) => LastOf(Replay(inbox, what, "value"), Topic(x, l), m)
              /\ NoneOf(inbox, Topic(x, l)) => NoneOf(Replay(inbox, what, "value"), Topic(x, l))
      BY <3>1, <3>3, ReplayOf, Zenon
    <3> QED
      BY <3>1, <3>2, <3>4, Zenon
  <2> QED
    BY <2>1, <2>2
<1>2. ASSUME NEW id \in NodeIds, NEW leaf \in Leaves, Key(id, leaf) \in subs', retained'[id][leaf] # Empty
      PROVE  Told(id, leaf)'
  <2>1. retained' = retained /\ subs' = subs \cup {what}
    BY DEF BrokerSubscribes
  <2>2. CASE Key(id, leaf) = what
    <3>1. LastOf(inbox', Topic(id, leaf), Message(id, leaf, retained'[id][leaf]))
      BY <1>1, <1>2, <2>1, <2>2
    <3> QED
      BY <3>1 DEF Told
  <2>3. CASE Key(id, leaf) # what
    <3>1. Told(id, leaf)
      BY <1>2, <2>1, <2>3 DEF Heard
    <3>2. Shown(id, leaf) => Shown(id, leaf)'
      BY DEF Shown
    <3>3. /\ \A m : LastOf(inbox, Topic(id, leaf), m) => LastOf(inbox', Topic(id, leaf), m)
          /\ NoneOf(inbox, Topic(id, leaf)) => NoneOf(inbox', Topic(id, leaf))
      BY <1>1, <2>3
    <3> QED
      BY <2>1, <3>1, <3>2, <3>3 DEF Told
  <2> QED
    BY <2>2, <2>3
<1>3. Heard'
  BY <1>2 DEF Heard, Key
<1> QED
  BY <1>1, <1>3

\* What the broker takes off the queue, it has done.
LEMMA TakesAssures ==
  ASSUME NEW what \in {"meta"} \cup NodeIds, Assured(outbox, what), outbox \in Seq(Packets), outbox # <<>>,
         outbox' = Tail(outbox),
         \/ Head(outbox).op = "subscribe" /\ subs' = subs \cup {Head(outbox).what}
         \/ Head(outbox).op = "unsubscribe" /\ subs' = subs \ {Head(outbox).what}
  PROVE  Assured(outbox, what)'
<1>1. PICK M, m : M = About(what) /\ m = Subscribe(what)
  OBVIOUS
<1>2. PICK p \in Packets : p = Head(outbox)
  BY TailOf
<1>3. LastOf(outbox, M, m) => LastOf(outbox', M, m) \/ (p = m /\ NoneOf(outbox', M))
  BY <1>2, TailOf
<1>4. NoneOf(outbox, M) => p \notin M /\ NoneOf(outbox', M)
  BY <1>2, TailOf
<1>5. CASE LastOf(outbox, M, m)
  <2>1. CASE LastOf(outbox', M, m)
    BY <1>1, <2>1 DEF Assured
  <2>2. CASE p = m /\ NoneOf(outbox', M)
    <3>1. p.op = "subscribe" /\ p.what = what
      BY <1>1, <2>2 DEF Subscribe
    <3>2. what \in subs'
      BY <1>2, <3>1
    <3> QED
      BY <1>1, <2>2, <3>2 DEF Assured
  <2> QED
    BY <1>3, <1>5, <2>1, <2>2
<1>6. CASE NoneOf(outbox, M) /\ what \in subs
  <2>1. p.what # what
    BY <1>1, <1>2, <1>4, <1>6 DEF About, Packets
  <2>2. what \in subs'
    BY <1>2, <1>6, <2>1
  <2> QED
    BY <1>1, <1>4, <1>6, <2>2 DEF Assured
<1> QED
  BY <1>1, <1>5, <1>6 DEF Assured

LEMMA BrokerTakesKeeps == ASSUME FlowInv, BrokerTakes PROVE FlowInv'
<1>1. /\ connected /\ outbox # <<>> /\ outbox' = Tail(outbox) /\ outbox \in Seq(Packets)
      /\ UNCHANGED <<bridge, retained, counters, connected, registry, nodes>>
      /\ TypeOK /\ Heard
  BY DEF BrokerTakes, FlowInv, TypeOK
<1>2. PICK p \in Packets : p = Head(outbox)
  BY <1>1, TailOf
<1>3. p.what \in {"meta"} \cup NodeIds
  BY DEF Packets
<1>4. UNCHANGED <<names, due, clock, known, label, available, handlers, started, bound, seen>>
  BY <1>1 DEF bridge, counters, registry, nodes
<1>5. \/ p.op = "subscribe" /\ BrokerSubscribes(p.what)
      \/ p.op = "unsubscribe" /\ subs' = subs \ {p.what} /\ UNCHANGED inbox
  BY <1>2 DEF BrokerTakes
<1>6. inbox' \in Seq(Messages) /\ Heard'
  <2>1. CASE BrokerSubscribes(p.what)
    BY <1>1, <1>3, <1>4, <2>1, BrokerSubscribesTells
  <2>2. CASE subs' = subs \ {p.what} /\ UNCHANGED inbox
    BY <1>1, <1>4, <2>2 DEF Heard, TypeOK, Key, Told, Shown
  <2> QED
    BY <1>5, <2>1, <2>2
<1>7. \A what \in {"meta"} \cup NodeIds : Assured(outbox, what) => Assured(outbox, what)'
  BY <1>1, <1>2, <1>5, TakesAssures DEF BrokerSubscribes
<1>8. Wanted'
  BY <1>1, <1>4, <1>7 DEF FlowInv, Wanted
<1>9. TypeOK'
  <2>1. outbox' \in Seq(Packets)
    BY <1>1, TailOf
  <2>2. subs' \subseteq {"meta"} \cup NodeIds
    BY <1>3, <1>5 DEF FlowInv, TypeOK, BrokerSubscribes
  <2> QED
    BY <1>1, <1>4, <1>6, <2>1, <2>2 DEF TypeOK
<1>10. Offline' /\ Resolved' /\ Silent' /\ Published'
  BY <1>1, <1>4 DEF FlowInv, Offline, Resolved, Silent, Published
<1> QED
  BY <1>6, <1>8, <1>9, <1>10 DEF FlowInv

-----------------------------------------------------------------------------
(* The connection. *)

LEMMA WantedOf ==
  /\ <<Subscribe("meta")>> \in Seq(Packets)
  /\ \A box \in Seq(Packets), id \in NodeIds :
       /\ SubscribeWanted(box, id) \in Seq(Packets)
       /\ handlers[id] # {} => LastOf(SubscribeWanted(box, id), About(id), Subscribe(id))
       /\ \A what : what # id /\ LastOf(box, About(what), Subscribe(what)) =>
            LastOf(SubscribeWanted(box, id), About(what), Subscribe(what))
<1>1. \A what \in {"meta"} \cup NodeIds : Subscribe(what) \in Packets
  BY DEF Subscribe, Packets
<1>2. ASSUME NEW box \in Seq(Packets), NEW id \in NodeIds
      PROVE  /\ SubscribeWanted(box, id) \in Seq(Packets)
             /\ handlers[id] # {} => LastOf(SubscribeWanted(box, id), About(id), Subscribe(id))
             /\ \A what : what # id /\ LastOf(box, About(what), Subscribe(what)) =>
                  LastOf(SubscribeWanted(box, id), About(what), Subscribe(what))
  <2>1. PICK e \in Packets : e = Subscribe(id)
    BY <1>1
  <2>2. SubscribeWanted(box, id) = IF handlers[id] = {} THEN box ELSE Append(box, e)
    BY <2>1 DEF SubscribeWanted, Subscribe
  <2>3. LastOf(Append(box, e), About(id), e)
    BY AppendOf
  <2>4. ASSUME NEW what, what # id, LastOf(box, About(what), Subscribe(what))
        PROVE  LastOf(Append(box, e), About(what), Subscribe(what))
    <3>1. e \notin About(what)
      BY <2>1, <2>4 DEF About, Subscribe
    <3> QED
      BY <2>4, <3>1, AppendOf
  <2>5. Append(box, e) \in Seq(Packets)
    OBVIOUS
  <2> QED
    BY <2>1, <2>2, <2>3, <2>4, <2>5, Zenon
<1>3. <<Subscribe("meta")>> \in Seq(Packets)
  BY <1>1
<1> QED
  BY <1>2, <1>3, Zenon

LEMMA SubscribeSteps ==
  ASSUME NEW order \in Seq(NodeIds)
  PROVE  \E f \in [0 .. Len(order) -> Seq(Packets)] :
           /\ f[0] = <<Subscribe("meta")>>
           /\ \A k \in 1 .. Len(order) : f[k] = SubscribeWanted(f[k - 1], order[k])
           /\ f[Len(order)] = Resubscribe(order)
<1>0. PICK B : B = Seq(Packets)
  OBVIOUS
<1>1. PICK n \in Nat, b \in B : n = Len(order) /\ b = <<Subscribe("meta")>>
  <2> Len(order) \in Nat /\ <<Subscribe("meta")>> \in B
    BY <1>0, LenProperties, WantedOf
  <2> WITNESS Len(order) \in Nat, <<Subscribe("meta")>> \in B
  <2> QED
    OBVIOUS
<1>2. \A box \in B, k \in 1 .. n : SubscribeWanted(box, order[k]) \in B
  <2>1. \A k \in 1 .. n : order[k] \in NodeIds
    BY <1>1
  <2> QED
    BY <1>0, <2>1, WantedOf
<1>3. PICK g : g = [box \in B |-> [k \in 1 .. n |-> SubscribeWanted(box, order[k])]]
  OBVIOUS
<1> \A box \in B, k \in 1 .. n : g[box][k] \in B
  BY <1>2, <1>3
<1>4. PICK f : Steps(f, n, B, b, g)
  BY StepsExist
<1> f \in [0 .. n -> B] /\ f[0] = b /\ \A k \in 1 .. n : f[k] = g[f[k - 1]][k]
  BY <1>4 DEF Steps
<1>5. ASSUME NEW k \in 1 .. n PROVE k - 1 \in 0 .. n /\ f[k] = SubscribeWanted(f[k - 1], order[k])
  <2>1. PICK c : c = f[k - 1] /\ c \in B
    OBVIOUS
  <2>2. g[c][k] = SubscribeWanted(c, order[k])
    BY <1>3, <2>1
  <2> QED
    BY <1>4, <2>1, <2>2
<1> DEFINE IsIt(h) ==
      h = [k \in 0 .. n |-> IF k = 0 THEN <<Subscribe("meta")>> ELSE SubscribeWanted(h[k - 1], order[k])]
<1>6. IsIt(f)
  BY <1>1, <1>4, <1>5
<1>7. PICK h : h = CHOOSE x : IsIt(x)
  OBVIOUS
<1>8. IsIt(h)
  BY <1>6, <1>7
<1>9. h[n] = Resubscribe(order)
  BY <1>1, <1>7 DEF Along, Resubscribe, Subscribe
<1>10. h[0] = b /\ \A k \in 1 .. n : h[k] = SubscribeWanted(h[k - 1], order[k])
  <2>1. h[0] = b
    BY <1>1, <1>8
  <2>2. \A k \in 1 .. n : h[k] = SubscribeWanted(h[k - 1], order[k])
    <3> TAKE k \in 1 .. n
    <3>1. k \in 0 .. n /\ k # 0
      OBVIOUS
    <3> QED
      BY <1>8, <3>1
  <2> QED
    BY <2>1, <2>2
<1>11. \A k \in 0 .. n : h[k] \in B
  <2> DEFINE T == {k \in 0 .. n : h[k] \in B}
  <2>1. 0 \in T
    BY <1>10
  <2>2. \A k \in 1 .. n : k - 1 \in T => k \in T
    BY <1>2, <1>10
  <2> HIDE DEF T
  <2>3. \A k \in 0 .. n : k \in T
    BY <2>1, <2>2, Reaches
  <2> QED
    BY <2>3 DEF T
<1>12. h \in [0 .. n -> B]
  BY <1>8, <1>11
<1> HIDE DEF IsIt
<1> QED
  BY <1>0, <1>1, <1>9, <1>10, <1>12

\* All that is wanted is subscribed to again.
LEMMA Resubscribed ==
  ASSUME NEW order, Lists(order, NodeIds)
  PROVE  /\ Resubscribe(order) \in Seq(Packets)
         /\ LastOf(Resubscribe(order), About("meta"), Subscribe("meta"))
         /\ \A id \in NodeIds : handlers[id] # {} => LastOf(Resubscribe(order), About(id), Subscribe(id))
<1>1. PICK n \in Nat : n = Len(order) /\ DOMAIN order = 1 .. n
  BY LenProperties DEF Lists
<1>2. /\ order \in Seq(NodeIds) /\ \A k \in 1 .. n : order[k] \in NodeIds
      /\ \A j, k \in 1 .. n : order[j] = order[k] => j = k
      /\ \A x \in NodeIds : \E k \in 1 .. n : order[k] = x
  BY <1>1 DEF Lists, IsInjective, ToSet
<1>3. PICK f \in [0 .. n -> Seq(Packets)] :
        /\ f[0] = <<Subscribe("meta")>>
        /\ \A k \in 1 .. n : f[k] = SubscribeWanted(f[k - 1], order[k])
        /\ f[n] = Resubscribe(order)
  BY <1>1, <1>2, SubscribeSteps
<1>4. ASSUME NEW k \in 1 .. n
      PROVE  /\ handlers[order[k]] # {} => LastOf(f[k], About(order[k]), Subscribe(order[k]))
             /\ \A what : what # order[k] /\ LastOf(f[k - 1], About(what), Subscribe(what)) =>
                  LastOf(f[k], About(what), Subscribe(what))
  <2>1. PICK box \in Seq(Packets), id \in NodeIds : box = f[k - 1] /\ id = order[k]
    BY <1>2
  <2>2. f[k] = SubscribeWanted(box, id)
    BY <1>3, <2>1
  <2> QED
    BY <2>1, <2>2, WantedOf, Zenon
<1>5. ASSUME NEW what, NEW j \in 0 .. n, LastOf(f[j], About(what), Subscribe(what)),
             \A k \in j + 1 .. n : order[k] # what
      PROVE  LastOf(f[n], About(what), Subscribe(what))
  <2> DEFINE T == {k \in 0 .. n : LastOf(f[k], About(what), Subscribe(what))}
  <2>1. j \in T
    BY <1>5
  <2>2. \A k \in j + 1 .. n : k - 1 \in T => k \in T
    <3> TAKE k \in j + 1 .. n
    <3>1. k \in 1 .. n /\ order[k] # what
      BY <1>5
    <3>2. LastOf(f[k - 1], About(what), Subscribe(what)) => LastOf(f[k], About(what), Subscribe(what))
      BY <1>4, <3>1, Zenon
    <3> QED
      BY <3>2
  <2> HIDE DEF T
  <2>3. n \in T
    BY <2>1, <2>2, ReachesEnd
  <2> QED
    BY <2>3 DEF T
<1>6. LastOf(f[n], About("meta"), Subscribe("meta"))
  <2>1. LastOf(f[0], About("meta"), Subscribe("meta"))
    <3>1. PICK box : box = <<Subscribe("meta")>>
      OBVIOUS
    <3>2. Len(box) = 1 /\ box[1] = Subscribe("meta")
      BY <3>1
    <3> QED
      BY <1>3, <3>1, <3>2 DEF LastOf
  <2>2. \A k \in 0 + 1 .. n : order[k] # "meta"
    <3>1. "meta" \notin NodeIds
      BY FlowAssumption
    <3> QED
      BY <1>2, <3>1
  <2>3. 0 \in 0 .. n
    OBVIOUS
  <2> QED
    BY <1>5, <2>1, <2>2, <2>3
<1>7. ASSUME NEW id \in NodeIds, handlers[id] # {}
      PROVE  LastOf(f[n], About(id), Subscribe(id))
  <2>1. PICK k \in 1 .. n : order[k] = id
    BY <1>2
  <2>2. LastOf(f[k], About(id), Subscribe(id))
    BY <1>4, <1>7, <2>1
  <2>3. k \in 0 .. n /\ \A j \in k + 1 .. n : order[j] # id
    BY <1>2, <2>1
  <2> QED
    BY <1>5, <2>2, <2>3
<1>8. Resubscribe(order) \in Seq(Packets)
  BY <1>3
<1> QED
  BY <1>3, <1>6, <1>7, <1>8, Zenon

LEMMA ConnectKeeps == ASSUME FlowInv, Connect PROVE FlowInv'
<1>1. PICK order \in NodeOrders : outbox' = Resubscribe(order)
  BY DEF Connect
<1>2. Lists(order, NodeIds)
  BY FlowAssumption
<1>3. /\ outbox' \in Seq(Packets) /\ LastOf(outbox', About("meta"), Subscribe("meta"))
      /\ \A id \in NodeIds : handlers[id] # {} => LastOf(outbox', About(id), Subscribe(id))
  BY <1>1, <1>2, Resubscribed
<1>4. /\ ~ connected /\ connected' = TRUE
      /\ UNCHANGED <<names, due, retained, subs, clock, inbox, known, label, available,
                     handlers, started, bound, seen>>
  BY DEF Connect, bridge, counters, registry, nodes
<1>5. TypeOK'
  BY <1>3, <1>4 DEF FlowInv, TypeOK
<1>6. Wanted'
  BY <1>3, <1>4 DEF Wanted, Assured
<1>7. Heard' /\ Offline'
  BY <1>4 DEF FlowInv, Heard, Offline, Key, Told, Shown
<1>8. Resolved' /\ Silent' /\ Published'
  BY <1>4 DEF FlowInv, Resolved, Silent, Published
<1> QED
  BY <1>5, <1>6, <1>7, <1>8 DEF FlowInv

LEMMA DisconnectKeeps == ASSUME FlowInv, Disconnect PROVE FlowInv'
<1>1. /\ connected' = FALSE /\ inbox' = <<>> /\ outbox' = <<>> /\ subs' = {}
      /\ UNCHANGED <<names, due, retained, clock, known, label, available,
                     handlers, started, bound, seen>>
  BY DEF Disconnect, bridge, registry, nodes
<1>2. inbox' \in Seq(Messages) /\ outbox' \in Seq(Packets)
  BY <1>1, EmptySeq
<1>3. TypeOK'
  BY <1>1, <1>2 DEF FlowInv, TypeOK
<1>4. Wanted' /\ Heard' /\ Offline'
  BY <1>1 DEF Wanted, Heard, Offline
<1>5. Resolved' /\ Silent' /\ Published'
  BY <1>1 DEF FlowInv, Resolved, Silent, Published
<1> QED
  BY <1>3, <1>4, <1>5 DEF FlowInv

-----------------------------------------------------------------------------
(* Subscriptions. *)

States == [handlers : [NodeIds -> SUBSET InNodes], bound : [InNodes -> NodeIds \cup {None}],
           seen : [InNodes -> Nat \cup {Empty, None}], outbox : Seq(Packets)]

\* What a callback may have come to on its way: the handlers are those of the in
\* nodes that are bound, what they need is subscribed to or will be, and one that
\* was bound anew has seen nothing.
Good(s) ==
  /\ s \in States
  /\ s.handlers = [id \in NodeIds |-> {i \in InNodes : s.bound[i] = id}]
  /\ connected => /\ Assured(s.outbox, "meta")
                  /\ \A id \in NodeIds : s.handlers[id] # {} => Assured(s.outbox, id)
  /\ ~ connected => s.outbox = <<>>
  /\ \A i \in InNodes : s.bound[i] = None => s.seen[i] = None
  /\ \A i \in InNodes : s.seen[i] = None \/ (s.seen[i] = seen[i] /\ s.bound[i] = bound[i])

\* In node i is bound to id, or to none.
Rebound(b, i, id) == [b EXCEPT ![i] = id]

LEMMA AskOf ==
  ASSUME NEW s \in States, NEW op \in {"subscribe", "unsubscribe"}, NEW id \in NodeIds
  PROVE  /\ Ask(s, op, id) \in Seq(Packets)
         /\ ~ connected => Ask(s, op, id) = s.outbox
         /\ \A what : what # id /\ Assured(s.outbox, what) => Assured(Ask(s, op, id), what)
         /\ connected /\ op = "subscribe" => Assured(Ask(s, op, id), id)
<1>1. PICK e \in Packets, box \in Seq(Packets) : e = [op |-> op, what |-> id] /\ box = s.outbox
  <2>1. [op |-> op, what |-> id] \in Packets /\ s.outbox \in Seq(Packets)
    BY DEF Packets, States
  <2> QED
    BY <2>1
<1>2. Ask(s, op, id) = IF connected THEN Append(box, e) ELSE box
  BY <1>1 DEF Ask
<1>3. Append(box, e) \in Seq(Packets)
  OBVIOUS
<1>4. ASSUME NEW what, what # id, Assured(box, what)
      PROVE  Assured(Append(box, e), what)
  <2>1. e \notin About(what)
    BY <1>1, <1>4 DEF About
  <2>2. LastOf(box, About(what), Subscribe(what)) => LastOf(Append(box, e), About(what), Subscribe(what))
    BY <2>1, AppendOf
  <2>3. NoneOf(box, About(what)) => NoneOf(Append(box, e), About(what))
    BY <2>1, AppendOf
  <2> QED
    BY <1>4, <2>2, <2>3 DEF Assured
<1>5. ASSUME op = "subscribe"
      PROVE  Assured(Append(box, e), id)
  <2>1. e = Subscribe(id)
    BY <1>1, <1>5 DEF Subscribe
  <2>2. LastOf(Append(box, e), About(id), e)
    BY AppendOf
  <2> QED
    BY <2>1, <2>2 DEF Assured
<1> QED
  BY <1>1, <1>2, <1>3, <1>4, <1>5, Zenon

LEMMA UnsubscribeGood ==
  ASSUME NEW s, Good(s), NEW i \in InNodes
  PROVE  Good(Unsubscribe(s, i)) /\ Unsubscribe(s, i).bound = Rebound(s.bound, i, None)
<1>1. PICK id \in NodeIds \cup {None} : id = s.bound[i]
  BY DEF Good, States
<1>2. CASE id = None
  <2>1. Unsubscribe(s, i) = s
    BY <1>1, <1>2 DEF Unsubscribe
  <2>2. s.bound = Rebound(s.bound, i, None)
    BY <1>1, <1>2 DEF Good, States, Rebound
  <2> QED
    BY <2>1, <2>2
<1>3. CASE id # None
  <2>1. id \in NodeIds
    BY <1>3
  <2>2. PICK t : t = Unsubscribe(s, i)
    OBVIOUS
  <2>3. t = [handlers |-> [s.handlers EXCEPT ![id] = @ \ {i}],
             bound    |-> [s.bound EXCEPT ![i] = None],
             seen     |-> [s.seen EXCEPT ![i] = None],
             outbox   |-> IF s.handlers[id] = {i} THEN Ask(s, "unsubscribe", id) ELSE s.outbox]
    BY <1>1, <1>3, <2>2 DEF Unsubscribe
  <2>4. s \in States
    BY DEF Good
  <2>5. /\ Ask(s, "unsubscribe", id) \in Seq(Packets)
        /\ ~ connected => Ask(s, "unsubscribe", id) = s.outbox
        /\ \A what : what # id /\ Assured(s.outbox, what) => Assured(Ask(s, "unsubscribe", id), what)
    BY <2>1, <2>4, AskOf
  <2>6. t \in States
    BY <2>1, <2>3, <2>4, <2>5 DEF States
  <2>7. t.handlers = [x \in NodeIds |-> {j \in InNodes : t.bound[j] = x}]
    <3>1. \A x \in NodeIds : t.handlers[x] = {j \in InNodes : t.bound[j] = x}
      BY <1>1, <2>1, <2>3, <2>4, FlowAssumption DEF Good, States
    <3> QED
      BY <2>6, <3>1 DEF States
  <2>8. ASSUME connected
        PROVE  /\ Assured(t.outbox, "meta")
               /\ \A x \in NodeIds : t.handlers[x] # {} => Assured(t.outbox, x)
    <3>1. id # "meta"
      BY <2>1, FlowAssumption
    <3>2. Assured(t.outbox, "meta")
      BY <2>3, <2>5, <2>8, <3>1 DEF Good
    <3>3. ASSUME NEW x \in NodeIds, t.handlers[x] # {}
          PROVE  Assured(t.outbox, x)
      <4>1. CASE x = id
        <5>1. t.handlers[x] = s.handlers[id] \ {i}
          BY <2>1, <2>3, <2>4, <4>1 DEF States
        <5>2. s.handlers[id] # {i} /\ s.handlers[x] # {}
          BY <3>3, <4>1, <5>1
        <5> QED
          BY <2>3, <2>8, <5>2 DEF Good
      <4>2. CASE x # id
        <5>1. t.handlers[x] = s.handlers[x]
          BY <2>3, <2>4, <4>2 DEF States
        <5>2. Assured(s.outbox, x)
          BY <2>8, <3>3, <5>1 DEF Good
        <5> QED
          BY <2>3, <2>5, <4>2, <5>2
      <4> QED
        BY <4>1, <4>2
    <3> QED
      BY <3>2, <3>3
  <2>9. ~ connected => t.outbox = <<>>
    BY <2>3, <2>5 DEF Good
  <2>10. \A j \in InNodes : t.bound[j] = None => t.seen[j] = None
    BY <2>3, <2>4 DEF Good, States
  <2>11. \A j \in InNodes : t.seen[j] = None \/ (t.seen[j] = seen[j] /\ t.bound[j] = bound[j])
    BY <2>3, <2>4 DEF Good, States
  <2>12. t.bound = Rebound(s.bound, i, None)
    BY <2>3 DEF Rebound
  <2> QED
    BY <2>2, <2>6, <2>7, <2>8, <2>9, <2>10, <2>11, <2>12 DEF Good
<1> QED
  BY <1>2, <1>3

LEMMA SubscribeGood ==
  ASSUME NEW s, Good(s), NEW i \in InNodes, s.bound[i] = None, NEW id \in NodeIds
  PROVE  Good(SubscribeNode(s, i, id)) /\ SubscribeNode(s, i, id).bound = Rebound(s.bound, i, id)
<1>1. s \in States
  BY DEF Good
<1>2. PICK t : t = SubscribeNode(s, i, id)
  OBVIOUS
<1>3. t = [handlers |-> [s.handlers EXCEPT ![id] = @ \cup {i}],
           bound    |-> [s.bound EXCEPT ![i] = id],
           seen     |-> s.seen,
           outbox   |-> IF s.handlers[id] = {} THEN Ask(s, "subscribe", id) ELSE s.outbox]
  BY <1>1, <1>2 DEF SubscribeNode, States
<1>4. /\ Ask(s, "subscribe", id) \in Seq(Packets)
      /\ ~ connected => Ask(s, "subscribe", id) = s.outbox
      /\ \A what : what # id /\ Assured(s.outbox, what) => Assured(Ask(s, "subscribe", id), what)
      /\ connected => Assured(Ask(s, "subscribe", id), id)
  BY <1>1, AskOf
<1>5. t \in States
  BY <1>1, <1>3, <1>4 DEF States
<1>6. t.handlers = [x \in NodeIds |-> {j \in InNodes : t.bound[j] = x}]
  <2>1. \A x \in NodeIds : t.handlers[x] = {j \in InNodes : t.bound[j] = x}
    BY <1>1, <1>3, FlowAssumption DEF Good, States
  <2> QED
    BY <1>5, <2>1 DEF States
<1>7. ASSUME connected
      PROVE  /\ Assured(t.outbox, "meta")
             /\ \A x \in NodeIds : t.handlers[x] # {} => Assured(t.outbox, x)
  <2>1. id # "meta"
    BY FlowAssumption
  <2>2. Assured(t.outbox, "meta")
    BY <1>3, <1>4, <1>7, <2>1 DEF Good
  <2>3. ASSUME NEW x \in NodeIds, t.handlers[x] # {}
        PROVE  Assured(t.outbox, x)
    <3>1. CASE x = id
      BY <1>3, <1>4, <1>7, <3>1 DEF Good
    <3>2. CASE x # id
      <4>1. t.handlers[x] = s.handlers[x]
        BY <1>1, <1>3, <3>2 DEF States
      <4>2. Assured(s.outbox, x)
        BY <1>7, <2>3, <4>1 DEF Good
      <4> QED
        BY <1>3, <1>4, <3>2, <4>2
    <3> QED
      BY <3>1, <3>2
  <2> QED
    BY <2>2, <2>3
<1>8. ~ connected => t.outbox = <<>>
  BY <1>3, <1>4 DEF Good
<1>9. \A j \in InNodes : t.bound[j] = None => t.seen[j] = None
  BY <1>1, <1>3, FlowAssumption DEF Good, States
<1>10. \A j \in InNodes : t.seen[j] = None \/ (t.seen[j] = seen[j] /\ t.bound[j] = bound[j])
  BY <1>1, <1>3 DEF Good, States
<1>11. t.bound = Rebound(s.bound, i, id)
  BY <1>3 DEF Rebound
<1> QED
  BY <1>2, <1>5, <1>6, <1>7, <1>8, <1>9, <1>10, <1>11 DEF Good

LEMMA RefreshGood ==
  ASSUME NEW s, Good(s), NEW i \in InNodes, NEW id \in NodeIds \cup {None}
  PROVE  Good(Refresh(s, i, id)) /\ Refresh(s, i, id).bound = Rebound(s.bound, i, id)
<1>0. s.bound \in [InNodes -> NodeIds \cup {None}]
  BY DEF Good, States
<1>1. CASE id = s.bound[i]
  BY <1>0, <1>1 DEF Refresh, Rebound
<1>2. CASE id # s.bound[i] /\ id = None
  BY <1>2, UnsubscribeGood DEF Refresh
<1>3. CASE id # s.bound[i] /\ id # None
  <2>1. PICK t : t = Unsubscribe(s, i)
    OBVIOUS
  <2>2. Good(t) /\ t.bound = Rebound(s.bound, i, None)
    BY <2>1, UnsubscribeGood
  <2>3. t.bound[i] = None
    BY <1>0, <2>2 DEF Rebound
  <2>4. id \in NodeIds
    BY <1>3
  <2>5. Good(SubscribeNode(t, i, id)) /\ SubscribeNode(t, i, id).bound = Rebound(t.bound, i, id)
    BY <2>2, <2>3, <2>4, SubscribeGood
  <2>6. Rebound(t.bound, i, id) = Rebound(s.bound, i, id)
    BY <1>0, <2>2 DEF Rebound
  <2>7. Refresh(s, i, id) = SubscribeNode(t, i, id)
    BY <1>3, <2>1 DEF Refresh
  <2> QED
    BY <2>5, <2>6, <2>7
<1> QED
  BY <1>1, <1>2, <1>3

\* Every in node is told where its device is, in the order they were created.
LEMMA RefreshSteps ==
  ASSUME NEW found \in [InNodes -> NodeIds \cup {None}], Good(Current), started \in Seq(InNodes)
  PROVE  \E f \in [0 .. Len(started) -> {s \in States : Good(s)}] :
           /\ f[0] = Current
           /\ \A k \in 1 .. Len(started) : f[k] = Refresh(f[k - 1], started[k], found[started[k]])
           /\ f[Len(started)] = RefreshAll(found)
<1>0. PICK B : B = {s \in States : Good(s)}
  OBVIOUS
<1>1. PICK n \in Nat, b \in B : n = Len(started) /\ b = Current
  <2> Len(started) \in Nat /\ Current \in B
    BY <1>0, LenProperties DEF Good
  <2> WITNESS Len(started) \in Nat, Current \in B
  <2> QED
    OBVIOUS
<1>2. \A s \in B, k \in 1 .. n : Refresh(s, started[k], found[started[k]]) \in B
  <2> TAKE s \in B, k \in 1 .. n
  <2>1. PICK i \in InNodes : i = started[k]
    BY <1>1
  <2>2. Good(Refresh(s, i, found[i]))
    BY <1>0, RefreshGood
  <2> QED
    BY <1>0, <2>1, <2>2 DEF Good
<1>3. PICK g : g = [s \in B |-> [k \in 1 .. n |-> Refresh(s, started[k], found[started[k]])]]
  OBVIOUS
<1> \A s \in B, k \in 1 .. n : g[s][k] \in B
  BY <1>2, <1>3
<1>4. PICK f : Steps(f, n, B, b, g)
  BY StepsExist
<1> f \in [0 .. n -> B] /\ f[0] = b /\ \A k \in 1 .. n : f[k] = g[f[k - 1]][k]
  BY <1>4 DEF Steps
<1>5. ASSUME NEW k \in 1 .. n
      PROVE  k - 1 \in 0 .. n /\ f[k] = Refresh(f[k - 1], started[k], found[started[k]])
  <2>1. PICK c : c = f[k - 1] /\ c \in B
    OBVIOUS
  <2>2. g[c][k] = Refresh(c, started[k], found[started[k]])
    BY <1>3, <2>1
  <2> QED
    BY <1>4, <2>1, <2>2
<1> DEFINE IsIt(h) ==
      h = [k \in 0 .. n |-> IF k = 0 THEN Current ELSE Refresh(h[k - 1], started[k], found[started[k]])]
<1>6. IsIt(f)
  BY <1>1, <1>4, <1>5
<1>7. PICK h : h = CHOOSE x : IsIt(x)
  OBVIOUS
<1>8. IsIt(h)
  BY <1>6, <1>7
<1>9. h[n] = RefreshAll(found)
  BY <1>1, <1>7 DEF Along, RefreshAll
<1>10. h[0] = b /\ \A k \in 1 .. n : h[k] = Refresh(h[k - 1], started[k], found[started[k]])
  <2>1. h[0] = b
    BY <1>1, <1>8
  <2>2. \A k \in 1 .. n : h[k] = Refresh(h[k - 1], started[k], found[started[k]])
    <3> TAKE k \in 1 .. n
    <3>1. k \in 0 .. n /\ k # 0
      OBVIOUS
    <3> QED
      BY <1>8, <3>1
  <2> QED
    BY <2>1, <2>2
<1>11. \A k \in 0 .. n : h[k] \in B
  <2> DEFINE T == {k \in 0 .. n : h[k] \in B}
  <2>1. 0 \in T
    BY <1>10
  <2>2. \A k \in 1 .. n : k - 1 \in T => k \in T
    BY <1>2, <1>10
  <2> HIDE DEF T
  <2>3. \A k \in 0 .. n : k \in T
    BY <2>1, <2>2, Reaches
  <2> QED
    BY <2>3 DEF T
<1>12. h \in [0 .. n -> B]
  BY <1>8, <1>11
<1> HIDE DEF IsIt
<1> QED
  BY <1>0, <1>1, <1>9, <1>10, <1>12

LEMMA Refreshed ==
  ASSUME NEW found \in [InNodes -> NodeIds \cup {None}], Good(Current),
         started \in Seq(InNodes), ToSet(started) = InNodes
  PROVE  Good(RefreshAll(found)) /\ RefreshAll(found).bound = found
<1>1. PICK n \in Nat : n = Len(started) /\ DOMAIN started = 1 .. n /\ \A k \in 1 .. n : started[k] \in InNodes
  BY LenProperties
<1>2. PICK f \in [0 .. n -> {s \in States : Good(s)}] :
        /\ \A k \in 1 .. n : f[k] = Refresh(f[k - 1], started[k], found[started[k]])
        /\ f[n] = RefreshAll(found)
  BY <1>1, RefreshSteps
<1>3. \A k \in 0 .. n : Good(f[k])
  BY <1>2
<1>4. \A k \in 0 .. n : f[k].bound \in [InNodes -> NodeIds \cup {None}]
  BY <1>3 DEF Good, States
<1>5. ASSUME NEW k \in 1 .. n
      PROVE  k - 1 \in 0 .. n /\ f[k].bound = Rebound(f[k - 1].bound, started[k], found[started[k]])
  <2>1. PICK s \in States, i \in InNodes : s = f[k - 1] /\ i = started[k] /\ Good(s)
    BY <1>1, <1>3
  <2>2. f[k] = Refresh(s, i, found[i])
    BY <1>2, <2>1
  <2>3. f[k].bound = Rebound(s.bound, i, found[i])
    BY <2>1, <2>2, RefreshGood
  <2> QED
    BY <2>1, <2>3
<1> DEFINE T == {k \in 0 .. n : \A j \in 1 .. k : f[k].bound[started[j]] = found[started[j]]}
<1>6. 0 \in T
  OBVIOUS
<1>7. \A k \in 1 .. n : k - 1 \in T => k \in T
  <2> TAKE k \in 1 .. n
  <2> HAVE k - 1 \in T
  <2>1. PICK b \in [InNodes -> NodeIds \cup {None}] : b = f[k - 1].bound
    BY <1>4, <1>5
  <2>2. f[k].bound = [b EXCEPT ![started[k]] = found[started[k]]]
    BY <1>5, <2>1 DEF Rebound
  <2>3. \A j \in 1 .. k - 1 : b[started[j]] = found[started[j]]
    BY <2>1
  <2>4. \A j \in 1 .. k : f[k].bound[started[j]] = found[started[j]]
    BY <1>1, <2>2, <2>3
  <2> QED
    BY <2>4
<1> HIDE DEF T
<1>8. \A k \in 0 .. n : k \in T
  BY <1>6, <1>7, Reaches
<1>9. \A i \in InNodes : f[n].bound[i] = found[i]
  <2>1. n \in T
    BY <1>8
  <2>2. \A i \in InNodes : \E k \in 1 .. n : started[k] = i
    BY <1>1 DEF ToSet
  <2> QED
    BY <2>1, <2>2 DEF T
<1>10. n \in 0 .. n
  OBVIOUS
<1>11. f[n].bound = found
  BY <1>4, <1>9, <1>10
<1> QED
  BY <1>2, <1>3, <1>10, <1>11

\* What a callback comes from is good, and so is what it leaves.
LEMMA CurrentGood == ASSUME FlowInv PROVE Good(Current) /\ Current.bound = bound
<1>1. PICK s : s = Current
  OBVIOUS
<1>2. s.handlers = handlers /\ s.bound = bound /\ s.seen = seen /\ s.outbox = outbox
  BY <1>1 DEF Current
<1>3. s \in States
  <2>1. handlers \in [NodeIds -> SUBSET InNodes]
    BY DEF FlowInv, TypeOK
  <2> QED
    BY <1>1, <2>1 DEF Current, States, FlowInv, TypeOK
<1>4. s.handlers = [id \in NodeIds |-> {i \in InNodes : s.bound[i] = id}]
  BY <1>2 DEF FlowInv, TypeOK
<1>5. connected => /\ Assured(s.outbox, "meta")
                   /\ \A id \in NodeIds : s.handlers[id] # {} => Assured(s.outbox, id)
  BY <1>2 DEF FlowInv, Wanted
<1>6. ~ connected => s.outbox = <<>>
  BY <1>2 DEF FlowInv, Offline
<1>7. \A i \in InNodes : s.bound[i] = None => s.seen[i] = None
  BY <1>2 DEF FlowInv, Silent
<1> QED
  BY <1>1, <1>2, <1>3, <1>4, <1>5, <1>6, <1>7 DEF Good

LEMMA Assigned ==
  ASSUME NEW s, Good(s), Assign(s), UNCHANGED <<subs, connected>>
  PROVE  /\ Wanted' /\ Silent' /\ bound' = s.bound
         /\ bound' \in [InNodes -> NodeIds \cup {None}]
         /\ seen' \in [InNodes -> Nat \cup {Empty, None}]
         /\ handlers' = [id \in NodeIds |-> {i \in InNodes : bound'[i] = id}]
         /\ outbox' \in Seq(Packets) /\ (~ connected => outbox' = <<>>)
         /\ \A i \in InNodes : seen'[i] = None \/ (seen'[i] = seen[i] /\ bound'[i] = bound[i])
<1>1. handlers' = s.handlers /\ bound' = s.bound /\ seen' = s.seen /\ outbox' = s.outbox
  BY DEF Assign
<1>2. Wanted'
  BY <1>1 DEF Good, Wanted, Assured
<1>3. Silent'
  BY <1>1 DEF Good, Silent
<1>4. s \in States
  BY DEF Good
<1>5. /\ bound' \in [InNodes -> NodeIds \cup {None}]
      /\ seen' \in [InNodes -> Nat \cup {Empty, None}] /\ outbox' \in Seq(Packets)
  BY <1>1, <1>4 DEF States
<1>6. handlers' = [id \in NodeIds |-> {i \in InNodes : bound'[i] = id}]
  BY <1>1 DEF Good
<1>7. ~ connected => outbox' = <<>>
  BY <1>1 DEF Good
<1>8. \A i \in InNodes : seen'[i] = None \/ (seen'[i] = seen[i] /\ bound'[i] = bound[i])
  BY <1>1 DEF Good
<1> QED
  BY <1>1, <1>2, <1>3, <1>5, <1>6, <1>7, <1>8

-----------------------------------------------------------------------------
(* The registry. *)

LEMMA MinOf ==
  ASSUME NEW S \in SUBSET Nat, S # {}
  PROVE  Min(S) \in S
  BY Least DEF Min

\* A node id that is known is found as such; else a name that is alike is.
LEMMA LookupOf ==
  ASSUME NEW device, NEW ids \in Seq(NodeIds), NEW names_
  PROVE  \/ device \in ToSet(ids) /\ Lookup(device, ids, names_) = device
         \/ /\ device \notin ToSet(ids)
            /\ \E id \in ToSet(ids) : /\ Lookup(device, ids, names_) = id
                                      /\ SameCase(device, names_[id]) \/ AnyCase(device, names_[id])
         \/ /\ device \notin ToSet(ids) /\ Lookup(device, ids, names_) = None
            /\ \A id \in ToSet(ids) : ~ AnyCase(device, names_[id])
<1>1. PICK n \in Nat : n = Len(ids) /\ DOMAIN ids = 1 .. n /\ \A k \in 1 .. n : ids[k] \in NodeIds
  BY LenProperties
<1>2. PICK S, A : /\ S = {k \in DOMAIN ids : SameCase(device, names_[ids[k]])}
                  /\ A = {k \in DOMAIN ids : AnyCase(device, names_[ids[k]])}
  OBVIOUS
<1>3. Lookup(device, ids, names_) =
        IF device \in ToSet(ids) THEN device
        ELSE IF S # {} THEN ids[Min(S)] ELSE IF A = {} THEN None ELSE ids[Min(A)]
  BY <1>2 DEF Lookup, FirstAt
<1>4. S \in SUBSET Nat /\ A \in SUBSET Nat /\ S \subseteq 1 .. n /\ A \subseteq 1 .. n
  BY <1>1, <1>2
<1>5. (S # {} => Min(S) \in S) /\ (A # {} => Min(A) \in A)
  BY <1>4, MinOf
<1>6. \A k \in 1 .. n : ids[k] # None /\ ids[k] \in ToSet(ids)
  BY <1>1, FlowAssumption DEF ToSet
<1>7. \A id \in ToSet(ids) : \E k \in 1 .. n : ids[k] = id
  BY <1>1 DEF ToSet
<1>8. CASE device \in ToSet(ids)
  BY <1>3, <1>8
<1>9. CASE device \notin ToSet(ids) /\ S # {}
  <2>1. Min(S) \in 1 .. n /\ SameCase(device, names_[ids[Min(S)]])
    BY <1>2, <1>4, <1>5, <1>9
  <2>2. Lookup(device, ids, names_) = ids[Min(S)]
    BY <1>3, <1>6, <1>9, <2>1
  <2> QED
    BY <1>6, <1>9, <2>1, <2>2
<1>10. CASE device \notin ToSet(ids) /\ S = {} /\ A # {}
  <2>1. Min(A) \in 1 .. n /\ AnyCase(device, names_[ids[Min(A)]])
    BY <1>2, <1>4, <1>5, <1>10
  <2>2. Lookup(device, ids, names_) = ids[Min(A)]
    BY <1>3, <1>10
  <2> QED
    BY <1>6, <1>10, <2>1, <2>2
<1>11. CASE device \notin ToSet(ids) /\ S = {} /\ A = {}
  <2>1. Lookup(device, ids, names_) = None
    BY <1>3, <1>11
  <2>2. \A id \in ToSet(ids) : ~ AnyCase(device, names_[id])
    BY <1>1, <1>2, <1>7, <1>11
  <2> QED
    BY <1>11, <2>1, <2>2
<1> QED
  BY <1>8, <1>9, <1>10, <1>11

LEMMA LookupIn ==
  ASSUME NEW device, NEW ids \in Seq(NodeIds), NEW names_
  PROVE  Lookup(device, ids, names_) \in NodeIds \cup {None}
<1>1. ToSet(ids) \subseteq NodeIds
  BY LenProperties DEF ToSet
<1> QED
  BY <1>1, LookupOf

\* The registry knows a node from its first topic on, and once.
LEMMA DeviceKnown ==
  ASSUME TypeOK, NEW id \in NodeIds
  PROVE  /\ DeviceOf(id) \in Seq(NodeIds) /\ IsInjective(DeviceOf(id))
         /\ id \in ToSet(DeviceOf(id)) /\ ToSet(known) \subseteq ToSet(DeviceOf(id))
<1>1. PICK ids \in Seq(NodeIds), n \in Nat :
        ids = known /\ n = Len(ids) /\ DOMAIN ids = 1 .. n /\ IsInjective(ids)
  <2>1. known \in Seq(NodeIds) /\ Len(known) \in Nat /\ DOMAIN known = 1 .. Len(known) /\ IsInjective(known)
    BY LenProperties DEF TypeOK
  <2> QED
    BY <2>1
<1>2. CASE id \in ToSet(ids)
  BY <1>1, <1>2 DEF DeviceOf
<1>3. CASE id \notin ToSet(ids)
  <2>1. PICK t \in Seq(NodeIds) :
          /\ t = Append(ids, id) /\ Len(t) = n + 1 /\ t[n + 1] = id /\ DOMAIN t = 1 .. n + 1
          /\ \A k \in 1 .. n : t[k] = ids[k]
    <3>1. /\ Append(ids, id) \in Seq(NodeIds) /\ Len(Append(ids, id)) = n + 1 /\ Append(ids, id)[n + 1] = id
          /\ \A k \in 1 .. n : Append(ids, id)[k] = ids[k]
      BY <1>1, AppendAt
    <3>2. DOMAIN Append(ids, id) = 1 .. n + 1
      BY <3>1, LenProperties
    <3> QED
      BY <3>1, <3>2
  <2>2. \A k \in 1 .. n : ids[k] # id
    BY <1>1, <1>3 DEF ToSet
  <2>3. \A j, k \in 1 .. n + 1 : t[j] = t[k] => j = k
    BY <1>1, <2>1, <2>2 DEF IsInjective
  <2>4. IsInjective(t)
    BY <2>1, <2>3 DEF IsInjective
  <2>5. id \in ToSet(t) /\ ToSet(ids) \subseteq ToSet(t)
    BY <1>1, <2>1 DEF ToSet
  <2> QED
    BY <1>1, <1>3, <2>1, <2>4, <2>5 DEF DeviceOf
<1> QED
  BY <1>1, <1>2, <1>3

-----------------------------------------------------------------------------
(* What the client hears. *)

\* The client shows what it has taken last.
LEMMA TakeTells ==
  ASSUME FlowInv, inbox # <<>>, inbox' = Tail(inbox), UNCHANGED <<subs, retained>>,
         \A id \in NodeIds, leaf \in Leaves :
           /\ Head(inbox) = Message(id, leaf, retained[id][leaf]) /\ retained[id][leaf] # Empty
                => Shown(id, leaf)'
           /\ Head(inbox) \notin Topic(id, leaf) /\ Shown(id, leaf) => Shown(id, leaf)'
  PROVE  Heard' /\ inbox' \in Seq(Messages)
<1>1. inbox \in Seq(Messages)
  BY DEF FlowInv, TypeOK
<1>2. ASSUME NEW id \in NodeIds, NEW leaf \in Leaves, Key(id, leaf) \in subs', retained'[id][leaf] # Empty
      PROVE  Told(id, leaf)'
  <2>1. PICK M, m : M = Topic(id, leaf) /\ m = Message(id, leaf, retained[id][leaf])
    OBVIOUS
  <2>2. Told(id, leaf) /\ retained[id][leaf] # Empty
    BY <1>2 DEF FlowInv, Heard
  <2>3. /\ LastOf(inbox, M, m) => LastOf(inbox', M, m) \/ (Head(inbox) = m /\ NoneOf(inbox', M))
        /\ NoneOf(inbox, M) => Head(inbox) \notin M /\ NoneOf(inbox', M)
    BY <1>1, TailOf
  <2>4. CASE LastOf(inbox, M, m)
    <3>1. CASE LastOf(inbox', M, m)
      BY <2>1, <3>1 DEF Told
    <3>2. CASE Head(inbox) = m /\ NoneOf(inbox', M)
      <4>1. Shown(id, leaf)'
        BY <2>1, <2>2, <3>2
      <4> QED
        BY <2>1, <3>2, <4>1 DEF Told
    <3> QED
      BY <2>3, <2>4, <3>1, <3>2
  <2>5. CASE NoneOf(inbox, M) /\ Shown(id, leaf)
    <3>1. Shown(id, leaf)'
      BY <2>1, <2>3, <2>5
    <3> QED
      BY <2>1, <2>3, <2>5, <3>1 DEF Told
  <2> QED
    BY <2>1, <2>2, <2>4, <2>5 DEF Told
<1>3. inbox' \in Seq(Messages)
  BY <1>1, TailOf
<1> QED
  BY <1>2, <1>3 DEF Heard, Key

LEMMA ReceiveValueKeeps == ASSUME FlowInv, ReceiveValue PROVE FlowInv'
<1>1. PICK m \in Messages : m = Head(inbox) /\ m.leaf = "value"
  BY TailOf DEF ReceiveValue, FlowInv, TypeOK
<1>2. m.id \in NodeIds /\ m.payload \in Nat \cup {Empty}
  BY <1>1, MessageTyped DEF Payloads
<1>3. /\ inbox # <<>> /\ inbox' = Tail(inbox)
      /\ seen' = [i \in InNodes |-> OnAttribute(i, m)]
      /\ UNCHANGED <<names, due, retained, subs, clock, outbox, connected, known, label, available,
                     handlers, started, bound>>
  BY <1>1 DEF ReceiveValue, bridge, counters, registry
<1>4. \A i \in InNodes : seen'[i] = IF bound[i] = m.id THEN m.payload ELSE seen[i]
  BY <1>2, <1>3 DEF OnAttribute, FlowInv, TypeOK
<1>5. ASSUME NEW id \in NodeIds, NEW leaf \in Leaves
      PROVE  /\ m = Message(id, leaf, retained[id][leaf]) => Shown(id, leaf)'
             /\ m \notin Topic(id, leaf) /\ Shown(id, leaf) => Shown(id, leaf)'
  <2>1. CASE leaf = "value"
    <3>1. ASSUME m = Message(id, leaf, retained[id][leaf]) PROVE Shown(id, leaf)'
      <4>1. m.id = id /\ m.payload = retained[id][leaf]
        BY <3>1 DEF Message
      <4> QED
        BY <1>3, <1>4, <2>1, <4>1 DEF Shown
    <3>2. ASSUME m \notin Topic(id, leaf), Shown(id, leaf) PROVE Shown(id, leaf)'
      <4>1. m.id # id
        BY <1>1, <2>1, <3>2, MessageTyped
      <4>2. \A i \in InNodes : bound[i] = id => seen'[i] \in {None, retained[id]["value"]}
        BY <1>4, <2>1, <3>2, <4>1 DEF Shown
      <4> QED
        BY <1>3, <2>1, <4>2 DEF Shown
    <3> QED
      BY <3>1, <3>2
  <2>2. CASE leaf # "value"
    <3>1. m # Message(id, leaf, retained[id][leaf])
      BY <1>1, <2>2 DEF Message
    <3>2. Shown(id, leaf) => Shown(id, leaf)'
      BY <1>3, <2>2 DEF Shown, Leaves
    <3> QED
      BY <3>1, <3>2
  <2> QED
    BY <2>1, <2>2
<1>6. Heard' /\ inbox' \in Seq(Messages)
  BY <1>1, <1>3, <1>5, TakeTells
<1>7. seen' \in [InNodes -> Nat \cup {Empty, None}]
  <2>1. \A i \in InNodes : seen[i] \in Nat \cup {Empty, None}
    BY DEF FlowInv, TypeOK
  <2>2. \A i \in InNodes : seen'[i] \in Nat \cup {Empty, None}
    BY <1>2, <1>4, <2>1
  <2> QED
    BY <1>3, <2>2
<1>8. TypeOK'
  BY <1>3, <1>6, <1>7 DEF FlowInv, TypeOK
<1>9. Silent'
  BY <1>2, <1>3, <1>4, FlowAssumption DEF FlowInv, Silent
<1>10. Offline'
  BY <1>3 DEF FlowInv, Offline
<1>11. Wanted' /\ Resolved' /\ Published'
  BY <1>3 DEF FlowInv, Wanted, Resolved, Published, Assured
<1> QED
  BY <1>6, <1>8, <1>9, <1>10, <1>11 DEF FlowInv

LEMMA ReceiveMetaKeeps == ASSUME FlowInv, ReceiveMeta PROVE FlowInv'
<1>1. PICK m \in Messages : m = Head(inbox) /\ m.leaf \in Meta
  BY TailOf DEF ReceiveMeta, FlowInv, TypeOK
<1>2. m.id \in NodeIds /\ m.payload \in Payloads(m.leaf) /\ m.leaf \in Leaves
  BY <1>1, MessageTyped
<1>3. /\ inbox # <<>> /\ inbox' = Tail(inbox) /\ ApplyMeta(m) /\ EmitStatus
      /\ UNCHANGED <<names, due, retained, subs, clock, connected, started>>
  BY <1>1 DEF ReceiveMeta, bridge, counters
<1>4. TypeOK
  BY DEF FlowInv
<1>5. /\ known' \in Seq(NodeIds) /\ IsInjective(known')
      /\ m.id \in ToSet(known') /\ ToSet(known) \subseteq ToSet(known')
  BY <1>2, <1>3, <1>4, DeviceKnown DEF ApplyMeta
<1>6. IF m.leaf = "name"
        THEN label' = [label EXCEPT ![m.id] = m.payload] /\ available' = available
        ELSE /\ available' = [available EXCEPT ![m.id] = IF m.payload = "online" THEN "online" ELSE "offline"]
             /\ label' = label
  BY <1>3 DEF ApplyMeta
<1>7. /\ label' \in [NodeIds -> Names \cup {Empty}]
      /\ available' \in [NodeIds -> {"online", "offline", "unknown"}]
  <2>1. CASE m.leaf = "name"
    BY <1>2, <1>4, <1>6, <2>1 DEF TypeOK, Payloads
  <2>2. CASE m.leaf # "name"
    BY <1>4, <1>6, <2>2 DEF TypeOK
  <2> QED
    BY <2>1, <2>2
<1>8. PICK found : found = [i \in InNodes |-> Lookup(Device[i], known', label')]
  OBVIOUS
<1>9. found \in [InNodes -> NodeIds \cup {None}]
  BY <1>5, <1>8, LookupIn
<1>10. Assign(RefreshAll(found))
  BY <1>3, <1>8 DEF EmitStatus
<1>11. PICK s : s = RefreshAll(found) /\ Good(s) /\ s.bound = found
  BY <1>4, <1>9, CurrentGood, Refreshed DEF TypeOK
<1>12. Assign(s)
  BY <1>10, <1>11
<1>13. /\ Wanted' /\ Silent' /\ bound' = found
       /\ bound' \in [InNodes -> NodeIds \cup {None}]
       /\ seen' \in [InNodes -> Nat \cup {Empty, None}]
       /\ handlers' = [id \in NodeIds |-> {i \in InNodes : bound'[i] = id}]
       /\ outbox' \in Seq(Packets) /\ (~ connected => outbox' = <<>>)
       /\ \A i \in InNodes : seen'[i] = None \/ (seen'[i] = seen[i] /\ bound'[i] = bound[i])
  BY <1>3, <1>11, <1>12, Assigned
<1>14. ASSUME NEW id \in NodeIds, NEW leaf \in Leaves
       PROVE  /\ m = Message(id, leaf, retained[id][leaf]) /\ retained[id][leaf] # Empty => Shown(id, leaf)'
              /\ m \notin Topic(id, leaf) /\ Shown(id, leaf) => Shown(id, leaf)'
  <2>1. CASE leaf = "value"
    <3>1. m # Message(id, leaf, retained[id][leaf])
      BY <1>1, <2>1 DEF Message, Meta
    <3>2. ASSUME Shown(id, leaf) PROVE Shown(id, leaf)'
      <4>1. \A i \in InNodes : bound[i] = id => seen[i] \in {None, retained[id]["value"]}
        BY <2>1, <3>2 DEF Shown
      <4>2. \A i \in InNodes : bound'[i] = id => seen'[i] \in {None, retained'[id]["value"]}
        BY <1>3, <1>13, <4>1
      <4> QED
        BY <2>1, <4>2 DEF Shown
    <3> QED
      BY <3>1, <3>2
  <2>2. CASE leaf = "name"
    <3>1. ASSUME m = Message(id, leaf, retained[id][leaf]) PROVE Shown(id, leaf)'
      <4>1. m.id = id /\ m.payload = retained[id]["name"] /\ m.leaf = "name"
        BY <2>2, <3>1 DEF Message
      <4>2. label'[id] = retained'[id]["name"]
        BY <1>3, <1>4, <1>6, <4>1 DEF TypeOK
      <4> QED
        BY <2>2, <4>2 DEF Shown
    <3>2. ASSUME m \notin Topic(id, leaf), Shown(id, leaf) PROVE Shown(id, leaf)'
      <4>1. ~ (m.id = id /\ m.leaf = "name")
        BY <1>2, <2>2, <3>2, MessageTyped
      <4>2. label'[id] = label[id]
        BY <1>4, <1>6, <4>1 DEF TypeOK
      <4> QED
        BY <1>3, <2>2, <3>2, <4>2 DEF Shown
    <3> QED
      BY <3>1, <3>2
  <2>3. CASE leaf = "availability"
    <3>1. ASSUME m = Message(id, leaf, retained[id][leaf]), retained[id][leaf] # Empty PROVE Shown(id, leaf)'
      <4>1. m.id = id /\ m.payload = retained[id]["availability"] /\ m.leaf = "availability"
        BY <2>3, <3>1 DEF Message
      <4>2. m.payload \in {"online", "offline"}
        BY <1>2, <2>3, <3>1, <4>1 DEF Payloads
      <4>3. available'[id] = retained'[id]["availability"]
        BY <1>3, <1>4, <1>6, <4>1, <4>2 DEF TypeOK
      <4> QED
        BY <2>3, <4>3 DEF Shown
    <3>2. ASSUME m \notin Topic(id, leaf), Shown(id, leaf) PROVE Shown(id, leaf)'
      <4>1. m.id # id \/ m.leaf = "name"
        BY <1>1, <1>2, <2>3, <3>2, MessageTyped DEF Meta
      <4>2. available'[id] = available[id]
        BY <1>4, <1>6, <4>1 DEF TypeOK
      <4> QED
        BY <1>3, <2>3, <3>2, <4>2 DEF Shown
    <3> QED
      BY <3>1, <3>2
  <2> QED
    BY <2>1, <2>2, <2>3 DEF Leaves
<1>15. Heard' /\ inbox' \in Seq(Messages)
  BY <1>1, <1>3, <1>14, TakeTells
<1>16. TypeOK'
  BY <1>3, <1>4, <1>5, <1>7, <1>13, <1>15 DEF TypeOK
<1>17. Resolved'
  <2>1. \A i \in InNodes : bound'[i] = Lookup(Device[i], known', label')
    BY <1>8, <1>13
  <2>2. ASSUME NEW id \in NodeIds, label'[id] # Empty
        PROVE  id \in ToSet(known')
    <3>1. id = m.id \/ label'[id] = label[id]
      BY <1>4, <1>6 DEF TypeOK
    <3> QED
      BY <1>5, <2>2, <3>1 DEF FlowInv, Resolved
  <2> QED
    BY <2>1, <2>2 DEF Resolved
<1>18. Offline'
  BY <1>3, <1>13 DEF FlowInv, Offline
<1>19. Published'
  BY <1>3 DEF FlowInv, Published
<1> QED
  BY <1>13, <1>15, <1>16, <1>17, <1>18, <1>19 DEF FlowInv

LEMMA LastHandlerOf ==
  ASSUME TypeOK, NEW i \in InNodes, NEW k \in DOMAIN started, started[k] = i
  PROVE  LastHandler(i, k) \in Seq(InNodes) /\ ToSet(LastHandler(i, k)) = InNodes
<1>1. PICK n \in Nat : n = Len(started) /\ DOMAIN started = 1 .. n /\ \A j \in 1 .. n : started[j] \in InNodes
  BY LenProperties DEF TypeOK
<1>2. PICK t : t = LastHandler(i, k)
  OBVIOUS
<1>3. t = [j \in 1 .. n |-> IF j < k THEN started[j] ELSE IF j < n THEN started[j + 1] ELSE i]
  BY <1>1, <1>2 DEF LastHandler
<1>4. \A j \in 1 .. n : t[j] \in InNodes
  BY <1>1, <1>3
<1>5. t \in Seq(InNodes) /\ DOMAIN t = 1 .. n
  BY <1>3, <1>4
<1>6. ASSUME NEW x \in InNodes PROVE \E j \in 1 .. n : t[j] = x
  <2>1. PICK j \in 1 .. n : started[j] = x
    BY <1>1 DEF TypeOK, ToSet
  <2>2. CASE j < k
    BY <1>3, <2>1, <2>2
  <2>3. CASE j = k
    <3>1. n \in 1 .. n /\ t[n] = i
      BY <1>1, <1>3
    <3> QED
      BY <2>1, <2>3, <3>1
  <2>4. CASE j > k
    <3>1. j - 1 \in 1 .. n /\ ~ (j - 1 < k) /\ j - 1 < n /\ j - 1 + 1 = j
      BY <1>1, <2>4
    <3>2. t[j - 1] = x
      BY <1>3, <2>1, <3>1
    <3> QED
      BY <3>1, <3>2
  <2> QED
    BY <1>1, <2>2, <2>3, <2>4
<1>7. ToSet(t) = InNodes
  BY <1>4, <1>5, <1>6 DEF ToSet
<1> QED
  BY <1>2, <1>5, <1>7

LEMMA RedeployKeeps == ASSUME FlowInv, NEW i \in InNodes, Redeploy(i) PROVE FlowInv'
<1>1. PICK id \in NodeIds \cup {None} : id = Lookup(Device[i], known, label)
  BY LookupIn DEF FlowInv, TypeOK
<1>2. PICK t : t = Unsubscribe(Current, i) /\ Good(t) /\ t.bound = Rebound(bound, i, None)
  BY CurrentGood, UnsubscribeGood
<1>3. PICK s : s = Refresh(t, i, id) /\ Good(s) /\ s.bound = Rebound(t.bound, i, id)
  BY <1>2, RefreshGood
<1>4. /\ Assign(s)
      /\ \E k \in DOMAIN started : started[k] = i /\ started' = LastHandler(i, k)
      /\ UNCHANGED <<names, due, retained, subs, clock, inbox, connected, known, label, available>>
  BY <1>1, <1>2, <1>3 DEF Redeploy, bridge, registry
<1>5. /\ Wanted' /\ Silent' /\ bound' = s.bound
      /\ bound' \in [InNodes -> NodeIds \cup {None}]
      /\ seen' \in [InNodes -> Nat \cup {Empty, None}]
      /\ handlers' = [x \in NodeIds |-> {j \in InNodes : bound'[j] = x}]
      /\ outbox' \in Seq(Packets) /\ (~ connected => outbox' = <<>>)
      /\ \A j \in InNodes : seen'[j] = None \/ (seen'[j] = seen[j] /\ bound'[j] = bound[j])
  BY <1>3, <1>4, Assigned
<1>6. bound' = bound
  <2>1. bound \in [InNodes -> NodeIds \cup {None}] /\ bound[i] = id
    BY <1>1 DEF FlowInv, TypeOK, Resolved
  <2>2. bound' = [[bound EXCEPT ![i] = None] EXCEPT ![i] = id]
    BY <1>2, <1>3, <1>5 DEF Rebound
  <2> QED
    BY <2>1, <2>2
<1>7. started' \in Seq(InNodes) /\ ToSet(started') = InNodes
  BY <1>4, LastHandlerOf DEF FlowInv
<1>8. TypeOK'
  BY <1>4, <1>5, <1>7 DEF FlowInv, TypeOK
<1>9. Heard'
  <2>1. ASSUME NEW id_1 \in NodeIds, NEW leaf \in Leaves, Shown(id_1, leaf)
        PROVE  Shown(id_1, leaf)'
    <3>1. CASE leaf = "value"
      <4>1. \A j \in InNodes : bound[j] = id_1 => seen[j] \in {None, retained[id_1]["value"]}
        BY <2>1, <3>1 DEF Shown
      <4>2. \A j \in InNodes : bound'[j] = id_1 => seen'[j] \in {None, retained'[id_1]["value"]}
        BY <1>4, <1>5, <4>1
      <4> QED
        BY <3>1, <4>2 DEF Shown
    <3>2. CASE leaf # "value"
      BY <1>4, <2>1, <3>2 DEF Shown, Leaves
    <3> QED
      BY <3>1, <3>2
  <2> QED
    BY <1>4, <2>1 DEF FlowInv, Heard, Key, Told
<1>10. Resolved'
  BY <1>4, <1>6 DEF FlowInv, Resolved
<1>11. Offline' /\ Published'
  BY <1>4, <1>5 DEF FlowInv, Offline, Published
<1> QED
  BY <1>5, <1>8, <1>9, <1>10, <1>11 DEF FlowInv

-----------------------------------------------------------------------------
(* Theorems. *)

LEMMA InitInv == ASSUME Init PROVE FlowInv
<1>1. names \in Assignments /\ DOMAIN names = NodeIds /\ \A id \in NodeIds : names[id] \in Names \cup {Empty}
  BY FlowAssumption DEF Init, Assignments
<1>2. \A id \in NodeIds :
        retained[id] = IF names[id] = Empty THEN [leaf \in Leaves |-> Empty]
                       ELSE [leaf \in Leaves |-> CASE leaf = "availability" -> "online"
                                                   [] leaf = "name" -> names[id]
                                                   [] leaf = "value" -> 0]
  BY DEF Init
<1>3. \A id \in NodeIds : /\ retained[id]["availability"] \in {"online", Empty}
                          /\ retained[id]["name"] = names[id]
                          /\ retained[id]["value"] \in {0, Empty}
  <2> TAKE id \in NodeIds
  <2>1. CASE names[id] = Empty
    <3>1. retained[id] = [leaf \in Leaves |-> Empty]
      BY <1>2, <2>1
    <3> QED
      BY <2>1, <3>1 DEF Leaves
  <2>2. CASE names[id] # Empty
    <3>1. retained[id] = [leaf \in Leaves |-> CASE leaf = "availability" -> "online"
                                               [] leaf = "name" -> names[id]
                                               [] leaf = "value" -> 0]
      BY <1>2, <2>2
    <3>2. /\ retained[id]["availability"] = "online" /\ retained[id]["name"] = names[id]
          /\ retained[id]["value"] = 0
      BY <3>1 DEF Leaves
    <3> QED
      BY <3>2
  <2> QED
    BY <2>1, <2>2
<1>4. \A id \in NodeIds, leaf \in Leaves : retained[id][leaf] \in Payloads(leaf)
  BY <1>1, <1>3 DEF Leaves, Payloads
<1>5. inbox \in Seq(Messages) /\ outbox \in Seq(Packets) /\ known \in Seq(NodeIds)
  BY EmptySeq DEF Init
<1>6. IsInjective(known)
  BY DEF Init, IsInjective
<1>7. started \in Seq(InNodes) /\ ToSet(started) = InNodes
  BY FlowAssumption DEF Init, Lists
<1>8. handlers = [id \in NodeIds |-> {i \in InNodes : bound[i] = id}]
  BY FlowAssumption DEF Init
<1>9. TypeOK
  <2>1. /\ due \subseteq NodeIds /\ clock \in Nat /\ DOMAIN retained = NodeIds
        /\ subs \subseteq {"meta"} \cup NodeIds /\ connected \in BOOLEAN
        /\ label \in [NodeIds -> Names \cup {Empty}]
        /\ available \in [NodeIds -> {"online", "offline", "unknown"}]
        /\ bound \in [InNodes -> NodeIds \cup {None}]
        /\ seen \in [InNodes -> Nat \cup {Empty, None}]
    BY DEF Init
  <2> QED
    BY <1>1, <1>4, <1>5, <1>6, <1>7, <1>8, <2>1 DEF TypeOK
<1>10. Offline /\ Wanted /\ Heard /\ Silent
  BY DEF Init, Offline, Wanted, Heard, Silent
<1>11. Resolved
  <2>1. ASSUME NEW i \in InNodes PROVE Lookup(Device[i], known, label) = None
    <3>1. ToSet(known) = {}
      BY DEF Init, ToSet
    <3> QED
      BY <1>5, <3>1, LookupOf
  <2> QED
    BY <2>1 DEF Init, Resolved
<1>12. Published
  BY <1>3 DEF Published
<1> QED
  BY <1>9, <1>10, <1>11, <1>12 DEF FlowInv

LEMMA StutterInv == ASSUME FlowInv, UNCHANGED vars PROVE FlowInv'
<1>1. UNCHANGED <<names, due, retained, subs, clock, inbox, outbox, connected, known, label, available,
                  handlers, started, bound, seen>>
  BY DEF vars, bridge, counters, registry, nodes
<1>2. TypeOK'
  BY <1>1 DEF FlowInv, TypeOK
<1>3. Offline' /\ Wanted' /\ Silent' /\ Published'
  BY <1>1 DEF FlowInv, Offline, Wanted, Assured, Silent, Published
<1>4. Heard' /\ Resolved'
  BY <1>1 DEF FlowInv, Heard, Key, Told, Shown, Resolved
<1> QED
  BY <1>2, <1>3, <1>4 DEF FlowInv

LEMMA NextInv == ASSUME FlowInv, [Next]_vars PROVE FlowInv'
<1>1. CASE Rename
  BY <1>1, RenameKeeps
<1>2. CASE \E id \in NodeIds : PublishDue(id)
  BY <1>2, PublishDueKeeps
<1>3. CASE \E id \in NodeIds : ReportValue(id)
  BY <1>3, ReportValueKeeps
<1>4. CASE \E id \in NodeIds : ChangeAvailability(id)
  BY <1>4, ChangeAvailabilityKeeps
<1>5. CASE \E id \in NodeIds : RemoveDevice(id)
  BY <1>5, RemoveDeviceKeeps
<1>6. CASE BrokerTakes
  BY <1>6, BrokerTakesKeeps
<1>7. CASE Connect
  BY <1>7, ConnectKeeps
<1>8. CASE Disconnect
  BY <1>8, DisconnectKeeps
<1>9. CASE ReceiveMeta
  BY <1>9, ReceiveMetaKeeps
<1>10. CASE ReceiveValue
  BY <1>10, ReceiveValueKeeps
<1>11. CASE \E i \in InNodes : Redeploy(i)
  BY <1>11, RedeployKeeps
<1>12. CASE UNCHANGED vars
  BY <1>12, StutterInv
<1> QED
  BY <1>1, <1>2, <1>3, <1>4, <1>5, <1>6, <1>7, <1>8, <1>9, <1>10, <1>11, <1>12
  DEF Next, BridgeNext, ClientNext

LEMMA FlowInductive == Spec => []FlowInv
<1>1. Init => FlowInv
  BY InitInv
<1>2. FlowInv /\ [Next]_vars => FlowInv'
  BY NextInv
<1> QED
  BY <1>1, <1>2, PTL DEF Spec

\* Registry entries are known once, every in node is told of their changes, and
\* handlers are those of the in nodes that are bound (registry.js:25-64,
\* broker.js:129-158).
THEOREM FlowTypeCorrect == Spec => []TypeOK
<1>1. FlowInv => TypeOK
  BY DEF FlowInv
<1> QED
  BY <1>1, FlowInductive, PTL

\* When nothing is on its way, the broker has what is wanted, and the client shows
\* what it retains of that.
LEMMA QuietShown ==
  ASSUME FlowInv, Quiet
  PROVE  /\ \A id \in NodeIds, leaf \in Meta : retained[id][leaf] # Empty => Shown(id, leaf)
         /\ \A id \in NodeIds : handlers[id] # {} =>
              id \in subs /\ (retained[id]["value"] # Empty => Shown(id, "value"))
         /\ \A id \in NodeIds : retained[id]["name"] = names[id]
<1>1. connected /\ inbox = <<>> /\ outbox = <<>> /\ due = {}
  BY DEF Quiet
<1>2. \A what : Assured(outbox, what) => what \in subs
  BY <1>1, EmptyOf DEF Assured
<1>3. "meta" \in subs /\ \A id \in NodeIds : handlers[id] # {} => id \in subs
  BY <1>1, <1>2 DEF FlowInv, Wanted
<1>4. \A id \in NodeIds, leaf \in Leaves :
        Key(id, leaf) \in subs /\ retained[id][leaf] # Empty => Shown(id, leaf)
  BY <1>1, EmptyOf DEF FlowInv, Heard, Told
<1>5. \A id \in NodeIds, leaf \in Meta : leaf \in Leaves /\ Key(id, leaf) = "meta"
  BY DEF Key, Meta, Leaves
<1>6. \A id \in NodeIds : "value" \in Leaves /\ Key(id, "value") = id
  BY DEF Key, Meta, Leaves
<1>7. \A id \in NodeIds : retained[id]["name"] = names[id]
  BY <1>1 DEF FlowInv, Published
<1> QED
  BY <1>3, <1>4, <1>5, <1>6, <1>7

\* Whatever was lost between the broker and Node-RED, the registry says what the
\* retained topics say once nothing is on its way, but for names that were
\* emptied meanwhile (broker.js:48-50).
THEOREM RegistryAlwaysRefills == Spec => []RegistryRefills
<1>1. ASSUME FlowInv PROVE RegistryRefills
  <2> SUFFICES ASSUME Quiet, NEW id \in Present
               PROVE  /\ Stale(id) \/ label[id] = retained[id]["name"]
                      /\ available[id] = retained[id]["availability"]
    BY DEF RegistryRefills
  <2>1. id \in NodeIds /\ retained[id]["availability"] # Empty
    BY DEF Present
  <2>2. available[id] = retained[id]["availability"]
    BY <1>1, <2>1, QuietShown DEF Shown, Meta
  <2>3. retained[id]["name"] # Empty => label[id] = retained[id]["name"]
    BY <1>1, <2>1, QuietShown DEF Shown, Meta
  <2> QED
    BY <2>2, <2>3 DEF Stale
<1> QED
  BY <1>1, FlowInductive, PTL

\* An in node finds the device of its name, and no other, once nothing is on its
\* way and no name is stale (in.js:45-61, registry.js:73-87).
THEOREM AlwaysBoundToOwner == Spec => []BoundToOwner
<1>1. ASSUME FlowInv PROVE BoundToOwner
  <2> SUFFICES ASSUME Quiet, NoneStale, NEW i \in ByName
               PROVE  bound[i] = Owner(Device[i])
    BY DEF BoundToOwner
  <2>1. PICK d \in DOMAIN Lower : d = Device[i] /\ d \notin NodeIds /\ d # Empty
    BY FlowAssumption DEF ByName
  <2>2. i \in InNodes /\ known \in Seq(NodeIds) /\ bound[i] = Lookup(d, known, label)
    BY <1>1, <2>1 DEF ByName, FlowInv, TypeOK, Resolved
  <2>3. \A id \in NodeIds : label[id] = retained[id]["name"] /\ label[id] = names[id]
    <3> TAKE id \in NodeIds
    <3>1. retained[id]["name"] # Empty => label[id] = retained[id]["name"]
      BY <1>1, QuietShown DEF Shown, Meta
    <3>2. retained[id]["name"] = Empty => label[id] = Empty
      BY DEF NoneStale, Stale
    <3>3. retained[id]["name"] = names[id]
      BY <1>1, QuietShown
    <3> QED
      BY <3>1, <3>2, <3>3
  <2>4. PICK owners : owners = {id \in NodeIds : /\ retained[id]["name"] # Empty
                                                 /\ Lower[retained[id]["name"]] = Lower[d]}
    OBVIOUS
  <2>5. Owner(d) = IF owners = {} THEN None ELSE CHOOSE id \in owners : TRUE
    BY <2>4 DEF Owner
  <2>6. \A a, b \in owners : a = b
    BY <1>1, <2>3, <2>4 DEF FlowInv, TypeOK, Assignments
  <2>7. \A id \in owners : Owner(d) = id
    BY <2>5, <2>6
  <2>8. ToSet(known) \subseteq NodeIds
    BY <2>2, LenProperties DEF ToSet
  <2>9. ASSUME NEW id \in NodeIds, SameCase(d, label[id]) \/ AnyCase(d, label[id])
        PROVE  id \in owners
    BY <2>1, <2>3, <2>4, <2>9 DEF SameCase, AnyCase
  <2>10. ASSUME NEW id \in owners
         PROVE  id \in ToSet(known) /\ AnyCase(d, label[id])
    <3>1. id \in NodeIds /\ label[id] # Empty /\ Lower[label[id]] = Lower[d]
      BY <2>3, <2>4
    <3>2. id \in ToSet(known)
      BY <1>1, <3>1 DEF FlowInv, Resolved
    <3> QED
      BY <3>1, <3>2 DEF AnyCase
  <2>11. \/ \E id \in NodeIds : bound[i] = id /\ (SameCase(d, label[id]) \/ AnyCase(d, label[id]))
         \/ bound[i] = None /\ \A id \in ToSet(known) : ~ AnyCase(d, label[id])
    BY <2>1, <2>2, <2>8, LookupOf
  <2> QED
    BY <2>1, <2>5, <2>7, <2>9, <2>10, <2>11
<1> QED
  BY <1>1, FlowInductive, PTL

\* No in node loses the subscription it shares, however the others are bound,
\* closed or built anew and the connection comes and goes (broker.js:129-158).
THEOREM SubscriptionsAlwaysKept == Spec => []SubscriptionsKept
<1>1. ASSUME FlowInv PROVE SubscriptionsKept
  <2> SUFFICES ASSUME Quiet, NEW i \in InNodes, bound[i] # None
               PROVE  bound[i] \in subs
    BY DEF SubscriptionsKept
  <2>1. bound[i] \in NodeIds /\ i \in handlers[bound[i]]
    BY <1>1 DEF FlowInv, TypeOK
  <2> QED
    BY <1>1, <2>1, QuietShown
<1> QED
  BY <1>1, FlowInductive, PTL

\* What an in node last sent is not a value from before an outage or of another
\* device (broker.js:129-158, in.js:45-61).
THEOREM NeverAnOldValue == Spec => []NoOldValue
<1>1. ASSUME FlowInv PROVE NoOldValue
  <2> SUFFICES ASSUME Quiet, NEW i \in InNodes, bound[i] # None, seen[i] # None,
                      retained[bound[i]]["value"] # Empty
               PROVE  seen[i] = retained[bound[i]]["value"]
    BY DEF NoOldValue
  <2>1. PICK id \in NodeIds : id = bound[i] /\ i \in handlers[id]
    BY <1>1 DEF FlowInv, TypeOK
  <2>2. Shown(id, "value")
    BY <1>1, <2>1, QuietShown
  <2> QED
    BY <2>1, <2>2 DEF Shown
<1> QED
  BY <1>1, FlowInductive, PTL
=============================================================================
