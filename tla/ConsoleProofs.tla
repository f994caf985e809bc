---------------------------- MODULE ConsoleProofs ----------------------------
(***************************************************************************)
(* What a page of the console shows, for any nodes, events, losses and     *)
(* capacities of the channel.                                              *)
(*                                                                         *)
(* The invariant is about Flight, the messages that the page has yet to    *)
(* hear: those on the wire, then those in its channel, then the one that   *)
(* the Run goroutine is about to broadcast. Moving a message from one to   *)
(* the next does not change it.                                            *)
(***************************************************************************)
EXTENDS Console, SequenceTheorems, TLAPS

Message ==
  [type : {"attribute"}, id : NodeIds, value : 0 .. MaxEvents]
    \cup [type : {"node", "node_removed"}] \cup [type : {"status"}, matter : BOOLEAN]

Caching == [do : {"cache"}, nodes : Fabric]
Telling == [do : {"broadcast"}, msg : Message]
Get == [at : {"server"}] \cup [at : {"page"}, nodes : Fabric]

Subscribed == stream \in {<<"snapshot">>, <<>>}

Pending == IF todo = <<>> THEN <<>> ELSE <<todo[Len(todo)].msg>>
Flight == (wire \o ch) \o Pending

\* The cache when the event at hand is through, if no session begins.
Latest == IF Len(todo) = 2 THEN todo[1].nodes ELSE cache

Reloads(m) == m.type \in {"node", "node_removed"}
Sets(m, id) == m.type = "attribute" /\ m.id = id

-----------------------------------------------------------------------------
Typed ==
  /\ TypeOK
  /\ ch \in Seq(Message) /\ wire \in Seq(Message) /\ gets \in Seq(Get)
  /\ stream \in {NoStream, Opening, <<"snapshot">>, <<>>}
  /\ page = "live" <=> stream # NoStream
  /\ stream \in {NoStream, Opening} => ch = <<>>
  /\ stream # <<>> => wire = <<>>

\* An event is cached first and broadcast last.
Handling ==
  /\ todo \in Seq(Caching \cup Telling) /\ Len(todo) <= 3
  /\ \A i \in 1 .. Len(todo) : todo[i] \in IF i = Len(todo) THEN Telling ELSE Caching
  /\ "new_session" \notin env => Len(todo) <= 2

\* The cache goes from t to u, and m is broadcast of it.
Tells(m, t, u) ==
  \A id \in NodeIds :
    /\ Sets(m, id) => u[id] # Absent /\ u[id].value = m.value
    /\ Sets(m, id) => t[id] # Absent /\ t[id].available = u[id].available
    /\ ~Sets(m, id) /\ ~Reloads(m) => t[id] = u[id]

\* The broadcast says what is cached before it, or what the status is.
Truthful ==
  LET m == todo[Len(todo)].msg
  IN  todo # <<>> =>
        /\ m.type = "status" => m.matter = matter
        /\ "new_session" \notin env => Tells(m, cache, Latest)

\* The last status of q is s.
LastStatus(q, s) ==
  \A i \in 1 .. Len(q) :
    q[i].type = "status" /\ (\A j \in i + 1 .. Len(q) : q[j].type # "status") => q[i].matter = s

\* What the page shows of matter-server when it has heard q.
StatusTo(q, s, dot) ==
  LastStatus(q, s) /\ ((\A i \in 1 .. Len(q) : q[i].type # "status") => dot = s)

Status ==
  "overflow" \notin env =>
    /\ Subscribed => LastStatus(Flight, matter)
    /\ stream = <<>> => StatusTo(Flight, matter, shown)

\* The last value for id in q is the one of t, unless the nodes are loaded after it.
LastValue(q, t, id) ==
  \A i \in 1 .. Len(q) :
    Sets(q[i], id) /\ (\A j \in i + 1 .. Len(q) : ~Reloads(q[j]) /\ ~Sets(q[j], id)) =>
      t[id] # Absent /\ t[id].value = q[i].value

\* The node v of a page that will not load t again, but for a value that is in q.
Agrees(q, t, v, id) ==
  /\ v = Absent <=> t[id] = Absent
  /\ v # Absent => v.available = t[id].available
  /\ (\A i \in 1 .. Len(q) : ~Sets(q[i], id)) => v = t[id]

\* A page that shows v and hears q, perhaps after it has loaded the nodes again,
\* comes to show t.
LeadsTo(q, t, v, loading) ==
  \A id \in NodeIds :
    /\ LastValue(q, t, id)
    /\ ~loading /\ (\A i \in 1 .. Len(q) : ~Reloads(q[i])) => Agrees(q, t, v[id], id)

Undisturbed ==
  env = {} =>
    /\ \A k \in 1 .. Len(gets) : gets[k] = Asked
    /\ page = "loading" => Len(gets) = 1
    /\ page = "waiting" \/ stream = Opening => gets = <<>> /\ view = cache
    /\ Subscribed => LeadsTo(Flight, Latest, view, gets # <<>>)

ConsoleInv == Typed /\ Handling /\ Truthful /\ Status /\ Undisturbed

-----------------------------------------------------------------------------
(* Messages under way: w on the wire, c in the channel, p to be broadcast. *)

\* A page hears a message: what is left is the tail.
LEMMA HeardFlight ==
  ASSUME NEW S, NEW w \in Seq(S), NEW c \in Seq(S), NEW p \in Seq(S), w # <<>>
  PROVE  /\ (w \o c) \o p \in Seq(S) /\ (w \o c) \o p # <<>>
         /\ Head((w \o c) \o p) = Head(w)
         /\ (Tail(w) \o c) \o p = Tail((w \o c) \o p)
<1> DEFINE q == w \o c
<1>1. q \in Seq(S) /\ Len(q) = Len(w) + Len(c)
  BY ConcatProperties
<1>2. \A i \in 1 .. Len(q) : q[i] = IF i <= Len(w) THEN w[i] ELSE c[i - Len(w)]
  BY ConcatProperties, <1>1
<1>3. Len(w) > 0
  BY EmptySeq
<1>4. Tail(w) \in Seq(S) /\ Len(Tail(w)) = Len(w) - 1 /\ \A i \in 1 .. Len(w) - 1 : Tail(w)[i] = w[i + 1]
  BY HeadTailProperties
<1>5. Tail(w) \o c = Tail(q)
  <2>1. Tail(w) \o c \in Seq(S) /\ Len(Tail(w) \o c) = Len(w) - 1 + Len(c)
    BY <1>4, ConcatProperties
  <2>2. q # <<>>
    BY <1>1, <1>3
  <2>3. Tail(q) \in Seq(S) /\ Len(Tail(q)) = Len(q) - 1 /\ \A i \in 1 .. Len(q) - 1 : Tail(q)[i] = q[i + 1]
    BY <1>1, <2>2, HeadTailProperties
  <2>4. ASSUME NEW i \in 1 .. Len(Tail(w) \o c) PROVE (Tail(w) \o c)[i] = Tail(q)[i]
    <3>1. (Tail(w) \o c)[i] = IF i <= Len(w) - 1 THEN w[i + 1] ELSE c[i - (Len(w) - 1)]
      BY <2>1, <1>4, <1>3, ConcatProperties
    <3>2. Tail(q)[i] = q[i + 1] /\ i + 1 \in 1 .. Len(q)
      BY <2>1, <2>3, <1>1, <1>3
    <3> QED BY <3>1, <3>2, <1>2, <1>3, <2>1
  <2> QED BY <2>1, <2>3, <2>4, <1>1, SeqEqual
<1> DEFINE r == q \o p
<1>6. r \in Seq(S) /\ Len(r) = Len(q) + Len(p) /\ \A i \in 1 .. Len(q) + Len(p) :
        r[i] = IF i <= Len(q) THEN q[i] ELSE p[i - Len(q)]
  BY <1>1, ConcatProperties
<1>7. r # <<>> /\ Len(q) > 0
  BY <1>6, <1>1, <1>3
<1>8. Tail(r) \in Seq(S) /\ Len(Tail(r)) = Len(r) - 1 /\ \A i \in 1 .. Len(r) - 1 : Tail(r)[i] = r[i + 1]
  BY <1>6, <1>7, HeadTailProperties
<1>9. Tail(q) \in Seq(S) /\ Len(Tail(q)) = Len(q) - 1 /\ \A i \in 1 .. Len(q) - 1 : Tail(q)[i] = q[i + 1]
  BY <1>1, <1>7, HeadTailProperties
<1>10. Tail(q) \o p \in Seq(S) /\ Len(Tail(q) \o p) = Len(q) - 1 + Len(p) /\ \A i \in 1 .. Len(q) - 1 + Len(p) :
        (Tail(q) \o p)[i] = IF i <= Len(q) - 1 THEN Tail(q)[i] ELSE p[i - (Len(q) - 1)]
  BY <1>9, ConcatProperties
<1>11. ASSUME NEW i \in 1 .. Len(Tail(q) \o p) PROVE (Tail(q) \o p)[i] = Tail(r)[i]
  <2>1. i \in 1 .. Len(r) - 1 /\ Tail(r)[i] = r[i + 1] /\ i + 1 \in 1 .. Len(q) + Len(p)
    BY <1>10, <1>6, <1>8, <1>7, <1>1
  <2> HIDE DEF q, r
  <2> QED BY <2>1, <1>10, <1>9, <1>6, <1>1
<1>12. Tail(q) \o p = Tail(r)
  BY <1>8, <1>10, <1>11, <1>6, SeqEqual
<1>13. Head(r) = Head(w)
  BY <1>6, <1>7, <1>2, <1>3, <1>1
<1> QED BY <1>2, <1>5, <1>6, <1>7, <1>12, <1>13

\* A message goes from the channel to the wire.
LEMMA WrittenFlight ==
  ASSUME NEW S, NEW w \in Seq(S), NEW c \in Seq(S), c # <<>>
  PROVE  Append(w, Head(c)) \o Tail(c) = w \o c
<1>1. Head(c) \in S /\ Tail(c) \in Seq(S) /\ Len(Tail(c)) = Len(c) - 1 /\ \A i \in 1 .. Len(c) - 1 : Tail(c)[i] = c[i + 1]
  BY HeadTailProperties
<1> DEFINE a == Append(w, Head(c))
<1>2. a \in Seq(S) /\ Len(a) = Len(w) + 1 /\ (\A i \in 1 .. Len(w) : a[i] = w[i]) /\ a[Len(w) + 1] = c[1]
  BY <1>1, AppendProperties
<1>3. Len(c) > 0
  BY EmptySeq
<1> HIDE DEF a
<1>4. a \o Tail(c) \in Seq(S) /\ Len(a \o Tail(c)) = Len(w) + Len(c) /\ \A i \in 1 .. Len(w) + Len(c) :
        (a \o Tail(c))[i] = IF i <= Len(w) + 1 THEN a[i] ELSE Tail(c)[i - (Len(w) + 1)]
  <2>1. Tail(c) \in Seq(S) /\ a \in Seq(S)
    BY <1>1, <1>2
  <2>2. Len(a) + Len(Tail(c)) = Len(w) + Len(c)
    BY <1>1, <1>2, <1>3
  <2> HIDE <1>1, <1>2
  <2>3. /\ a \o Tail(c) \in Seq(S) /\ Len(a \o Tail(c)) = Len(a) + Len(Tail(c))
        /\ \A i \in 1 .. Len(a) + Len(Tail(c)) :
             (a \o Tail(c))[i] = IF i <= Len(a) THEN a[i] ELSE Tail(c)[i - Len(a)]
    BY <2>1, ConcatProperties
  <2> QED BY <2>2, <2>3, <1>2
<1>5. w \o c \in Seq(S) /\ Len(w \o c) = Len(w) + Len(c) /\ \A i \in 1 .. Len(w) + Len(c) :
        (w \o c)[i] = IF i <= Len(w) THEN w[i] ELSE c[i - Len(w)]
  BY ConcatProperties
<1>6. ASSUME NEW i \in 1 .. Len(w) + Len(c) PROVE (a \o Tail(c))[i] = (w \o c)[i]
  BY <1>4, <1>5, <1>1, <1>2, <1>3
<1>7. a \o Tail(c) = w \o c
  BY <1>4, <1>5, <1>6, SeqEqual
<1> QED BY <1>7 DEF a

\* A message is broadcast to the page.
LEMMA BroadcastFlight ==
  ASSUME NEW S, NEW w \in Seq(S), NEW c \in Seq(S), NEW m \in S
  PROVE  (w \o Append(c, m)) \o <<>> = (w \o c) \o <<m>>
<1>1. <<m>> \in Seq(S) /\ Append(c, m) = c \o <<m>> /\ Append(c, m) \in Seq(S)
  BY AppendIsConcat, AppendProperties
<1>2. w \o Append(c, m) \in Seq(S)
  BY <1>1, ConcatProperties
<1>3. w \o (c \o <<m>>) = (w \o c) \o <<m>>
  BY <1>1, ConcatAssociative
<1> QED BY <1>1, <1>2, <1>3, ConcatEmptySeq

\* Something happens that will be broadcast.
LEMMA HappenedFlight ==
  ASSUME NEW S, NEW q \in Seq(S), NEW m \in S
  PROVE  q \o <<m>> = Append(q \o <<>>, m)
BY AppendIsConcat, ConcatEmptySeq

-----------------------------------------------------------------------------
(* What the page will show when it has heard all of it. *)

\* Another message is broadcast; a status is the one there is.
LEMMA StatusTold ==
  ASSUME NEW q \in Seq(Message), NEW m \in Message, NEW s, NEW t, NEW dot,
         LastStatus(q, s), IF m.type = "status" THEN m.matter = t ELSE t = s
  PROVE  LastStatus(Append(q, m), t) /\ (StatusTo(q, s, dot) => StatusTo(Append(q, m), t, dot))
<1> DEFINE r == Append(q, m)
<1>1. Len(q) \in Nat /\ Len(r) = Len(q) + 1 /\ (\A i \in 1 .. Len(q) : r[i] = q[i]) /\ r[Len(q) + 1] = m
  BY AppendProperties, LenProperties
<1> HIDE DEF r
<1>2. LastStatus(r, t)
  <2> SUFFICES ASSUME NEW i \in 1 .. Len(r), r[i].type = "status",
                      \A j \in i + 1 .. Len(r) : r[j].type # "status"
               PROVE  r[i].matter = t
    BY DEF LastStatus
  <2>1. CASE i = Len(q) + 1
    BY <2>1, <1>1
  <2>2. CASE i \in 1 .. Len(q)
    <3>1. Len(q) + 1 \in i + 1 .. Len(r) /\ \A j \in i + 1 .. Len(q) : j \in i + 1 .. Len(r)
      BY <2>2, <1>1
    <3>2. m.type # "status" /\ r[i] = q[i] /\ \A j \in i + 1 .. Len(q) : j \in 1 .. Len(q) /\ q[j] = r[j]
      BY <3>1, <2>2, <1>1
    <3> QED BY <3>1, <3>2, <2>2 DEF LastStatus
  <2> QED BY <2>1, <2>2, <1>1
<1>3. ASSUME StatusTo(q, s, dot), \A i \in 1 .. Len(r) : r[i].type # "status" PROVE dot = t
  <2>1. m.type # "status"
    BY <1>1, <1>3
  <2>2. \A i \in 1 .. Len(q) : q[i].type # "status"
    BY <1>1, <1>3
  <2> QED BY <2>1, <2>2, <1>3 DEF StatusTo
<1> QED BY <1>2, <1>3 DEF StatusTo, r

\* The page hears a message.
LEMMA StatusHeard ==
  ASSUME NEW q \in Seq(Message), q # <<>>, NEW s, NEW dot, StatusTo(q, s, dot), NEW d,
         d = IF Head(q).type = "status" THEN Head(q).matter ELSE dot
  PROVE  StatusTo(Tail(q), s, d)
<1> DEFINE r == Tail(q)
<1>1. Len(q) \in Nat /\ Len(r) = Len(q) - 1 /\ (\A i \in 1 .. Len(r) : r[i] = q[i + 1]) /\ Head(q) = q[1] /\ Len(q) > 0
  BY HeadTailProperties, LenProperties, EmptySeq
<1> HIDE DEF r
<1>2. LastStatus(r, s)
  <2> SUFFICES ASSUME NEW i \in 1 .. Len(r), r[i].type = "status",
                      \A j \in i + 1 .. Len(r) : r[j].type # "status"
               PROVE  r[i].matter = s
    BY DEF LastStatus
  <2>1. i + 1 \in 1 .. Len(q) /\ q[i + 1] = r[i]
    BY <1>1
  <2>2. ASSUME NEW j \in (i + 1) + 1 .. Len(q) PROVE q[j].type # "status"
    <3>1. j - 1 \in i + 1 .. Len(r) /\ j - 1 \in 1 .. Len(r) /\ (j - 1) + 1 = j
      BY <1>1
    <3> QED BY <3>1, <1>1
  <2> QED BY <2>1, <2>2 DEF LastStatus, StatusTo
<1>3. ASSUME \A i \in 1 .. Len(r) : r[i].type # "status" PROVE d = s
  <2>1. ASSUME NEW j \in 2 .. Len(q) PROVE q[j].type # "status"
    <3>1. j - 1 \in 1 .. Len(r) /\ (j - 1) + 1 = j
      BY <1>1
    <3> QED BY <3>1, <1>1, <1>3
  <2>2. CASE q[1].type = "status"
    <3>1. 1 \in 1 .. Len(q) /\ \A j \in 1 + 1 .. Len(q) : q[j].type # "status"
      BY <2>1, <1>1
    <3> QED BY <3>1, <2>2, <1>1 DEF LastStatus, StatusTo
  <2>3. CASE q[1].type # "status"
    <3>1. \A i \in 1 .. Len(q) : q[i].type # "status"
      BY <2>1, <2>3, <1>1
    <3> QED BY <3>1, <2>3, <1>1 DEF StatusTo
  <2> QED BY <2>2, <2>3
<1> QED BY <1>2, <1>3 DEF StatusTo, r

\* The status is put before everything else.
LEMMA StatusFirst ==
  ASSUME NEW q \in Seq(Message), NEW m \in Message, NEW s, LastStatus(q, s),
         m.type = "status", m.matter = s, NEW dot
  PROVE  StatusTo(<<m>> \o q, s, dot)
<1> DEFINE r == <<m>> \o q
<1>0. <<m>> \in Seq(Message) /\ Len(<<m>>) = 1 /\ <<m>>[1] = m
  OBVIOUS
<1>1. Len(q) \in Nat /\ Len(r) = Len(q) + 1 /\ (\A i \in 1 .. Len(q) : r[i + 1] = q[i]) /\ r[1] = m
  BY <1>0, ConcatProperties, LenProperties
<1> HIDE DEF r
<1>2. LastStatus(r, s)
  <2> SUFFICES ASSUME NEW i \in 1 .. Len(r), r[i].type = "status",
                      \A j \in i + 1 .. Len(r) : r[j].type # "status"
               PROVE  r[i].matter = s
    BY DEF LastStatus
  <2>1. CASE i = 1
    BY <2>1, <1>1
  <2>2. CASE i # 1
    <3>1. i - 1 \in 1 .. Len(q) /\ (i - 1) + 1 = i /\ q[i - 1] = r[i]
      BY <2>2, <1>1
    <3>2. ASSUME NEW j \in (i - 1) + 1 .. Len(q) PROVE q[j].type # "status"
      <4>1. j + 1 \in i + 1 .. Len(r) /\ j \in 1 .. Len(q)
        BY <2>2, <1>1
      <4> QED BY <4>1, <1>1
    <3> QED BY <3>1, <3>2 DEF LastStatus
  <2> QED BY <2>1, <2>2
<1>3. 1 \in 1 .. Len(r)
  BY <1>1
<1> QED BY <1>1, <1>2, <1>3 DEF StatusTo, r

LEMMA NodesTold ==
  ASSUME NEW q \in Seq(Message), NEW m \in Message, NEW t, NEW u, NEW v, NEW loading,
         LeadsTo(q, t, v, loading), Tells(m, t, u)
  PROVE  LeadsTo(Append(q, m), u, v, loading)
<1> DEFINE r == Append(q, m)
<1>1. Len(q) \in Nat /\ Len(r) = Len(q) + 1 /\ (\A i \in 1 .. Len(q) : r[i] = q[i]) /\ r[Len(q) + 1] = m
  BY AppendProperties, LenProperties
<1> HIDE DEF r
<1> SUFFICES ASSUME NEW id \in NodeIds
             PROVE  /\ LastValue(r, u, id)
                    /\ ~loading /\ (\A i \in 1 .. Len(r) : ~Reloads(r[i])) => Agrees(r, u, v[id], id)
  BY DEF LeadsTo, r
<1>0. /\ Sets(m, id) => u[id] # Absent /\ u[id].value = m.value
      /\ Sets(m, id) => t[id] # Absent /\ t[id].available = u[id].available
      /\ ~Sets(m, id) /\ ~Reloads(m) => t[id] = u[id]
  BY DEF Tells
<1>2. LastValue(r, u, id)
  <2> SUFFICES ASSUME NEW i \in 1 .. Len(r), Sets(r[i], id),
                      \A j \in i + 1 .. Len(r) : ~Reloads(r[j]) /\ ~Sets(r[j], id)
               PROVE  u[id] # Absent /\ u[id].value = r[i].value
    BY DEF LastValue
  <2>1. CASE i = Len(q) + 1
    BY <2>1, <1>1, <1>0
  <2>2. CASE i \in 1 .. Len(q)
    <3>1. Len(q) + 1 \in i + 1 .. Len(r) /\ \A j \in i + 1 .. Len(q) : j \in i + 1 .. Len(r) /\ j \in 1 .. Len(q)
      BY <2>2, <1>1
    <3>2. t[id] = u[id]
      BY <3>1, <1>1, <1>0
    <3>3. r[i] = q[i] /\ \A j \in i + 1 .. Len(q) : ~Reloads(q[j]) /\ ~Sets(q[j], id)
      BY <3>1, <2>2, <1>1
    <3>4. LastValue(q, t, id)
      BY DEF LeadsTo
    <3> QED BY <3>2, <3>3, <3>4, <2>2 DEF LastValue
  <2> QED BY <2>1, <2>2, <1>1
<1>3. ASSUME ~loading, \A i \in 1 .. Len(r) : ~Reloads(r[i]) PROVE Agrees(r, u, v[id], id)
  <2>1. Len(q) + 1 \in 1 .. Len(r) /\ \A i \in 1 .. Len(q) : i \in 1 .. Len(r)
    BY <1>1
  <2>2. ~Reloads(m) /\ \A i \in 1 .. Len(q) : ~Reloads(q[i])
    BY <2>1, <1>1, <1>3
  <2>3. Agrees(q, t, v[id], id)
    BY <2>2, <1>3 DEF LeadsTo
  <2>4. (\A i \in 1 .. Len(r) : ~Sets(r[i], id)) => ~Sets(m, id) /\ \A i \in 1 .. Len(q) : ~Sets(q[i], id)
    BY <2>1, <1>1
  <2> QED BY <2>2, <2>3, <2>4, <1>0 DEF Agrees
<1> QED BY <1>2, <1>3

\* What applyAttribute makes of the nodes.
Applied(v, m) ==
  IF m.type = "attribute" /\ v[m.id] # Absent THEN [v EXCEPT ![m.id].value = m.value] ELSE v

LEMMA NodesHeard ==
  ASSUME NEW q \in Seq(Message), q # <<>>, NEW t \in Fabric, NEW v \in Fabric, NEW loading \in BOOLEAN,
         LeadsTo(q, t, v, loading)
  PROVE  LeadsTo(Tail(q), t, Applied(v, Head(q)), loading \/ Reloads(Head(q)))
<1> DEFINE r == Tail(q)
           m == Head(q)
           w == Applied(v, m)
<1>1. Len(q) \in Nat /\ Len(r) = Len(q) - 1 /\ (\A i \in 1 .. Len(r) : r[i] = q[i + 1]) /\ m = q[1] /\ Len(q) > 0
  BY HeadTailProperties, LenProperties, EmptySeq
<1>m. m \in Message
  BY HeadTailProperties
<1> HIDE DEF r, m
<1> SUFFICES ASSUME NEW id \in NodeIds
             PROVE  /\ LastValue(r, t, id)
                    /\ ~(loading \/ Reloads(m)) /\ (\A i \in 1 .. Len(r) : ~Reloads(r[i]))
                         => Agrees(r, t, w[id], id)
  BY DEF LeadsTo, r, m
<1>2. \A j \in 2 .. Len(q) : j - 1 \in 1 .. Len(r) /\ q[j] = r[j - 1]
  <2> SUFFICES ASSUME NEW j \in 2 .. Len(q) PROVE j - 1 \in 1 .. Len(r) /\ q[j] = r[j - 1]
    OBVIOUS
  <2>1. j - 1 \in 1 .. Len(r) /\ (j - 1) + 1 = j
    BY <1>1
  <2> QED BY <2>1, <1>1
<1>3. LastValue(r, t, id)
  <2> SUFFICES ASSUME NEW i \in 1 .. Len(r), Sets(r[i], id),
                      \A j \in i + 1 .. Len(r) : ~Reloads(r[j]) /\ ~Sets(r[j], id)
               PROVE  t[id] # Absent /\ t[id].value = r[i].value
    BY DEF LastValue
  <2>1. i + 1 \in 1 .. Len(q) /\ q[i + 1] = r[i]
    BY <1>1
  <2>2. ASSUME NEW j \in (i + 1) + 1 .. Len(q) PROVE ~Reloads(q[j]) /\ ~Sets(q[j], id)
    <3>1. j \in 2 .. Len(q) /\ j - 1 \in i + 1 .. Len(r)
      BY <1>1
    <3> QED BY <3>1, <1>2
  <2>3. LastValue(q, t, id)
    BY DEF LeadsTo
  <2> QED BY <2>1, <2>2, <2>3 DEF LastValue
<1>4. ASSUME ~loading, ~Reloads(m), \A i \in 1 .. Len(r) : ~Reloads(r[i]) PROVE Agrees(r, t, w[id], id)
  <2>0. \A i \in 1 .. Len(q) : i = 1 \/ i \in 2 .. Len(q)
    BY <1>1
  <2>1. \A i \in 1 .. Len(q) : ~Reloads(q[i])
    BY <2>0, <1>1, <1>2, <1>4
  <2>2. Agrees(q, t, v[id], id) /\ LastValue(q, t, id)
    BY <2>1, <1>4 DEF LeadsTo
  <2>3. v[id] \in Node \cup {Absent} /\ t[id] \in Node \cup {Absent} /\ DOMAIN v = NodeIds
    BY DEF Fabric
  <2>4. CASE Sets(m, id)
    <3>1. m.type = "attribute" /\ m.id = id
      BY <2>4 DEF Sets
    <3>2. CASE v[id] = Absent
      <4>1. w[id] = Absent /\ t[id] = Absent
        BY <3>1, <3>2, <2>2 DEF Agrees, Applied
      <4> QED BY <4>1, NodeAssumption DEF Agrees
    <3>3. CASE v[id] # Absent
      <4>1. w[id] = [v[id] EXCEPT !.value = m.value]
        BY <3>1, <3>3, <2>3 DEF Applied
      <4>2. v[id] \in Node /\ t[id] \in Node /\ t[id].available = v[id].available
        BY <3>3, <2>2, <2>3 DEF Agrees
      <4>3. m.value \in 0 .. MaxEvents
        BY <3>1, <1>m DEF Message
      <4>4. w[id] \in Node /\ w[id].available = t[id].available /\ w[id].value = m.value
        BY <4>1, <4>2, <4>3 DEF Node
      <4>5. ASSUME \A i \in 1 .. Len(r) : ~Sets(r[i], id) PROVE w[id] = t[id]
        <5>1. 1 \in 1 .. Len(q) /\ \A j \in 1 + 1 .. Len(q) : ~Reloads(q[j]) /\ ~Sets(q[j], id)
          BY <4>5, <1>1, <1>2, <1>4
        <5>2. t[id].value = m.value
          BY <5>1, <2>2, <2>4, <1>1 DEF LastValue
        <5> QED BY <5>2, <4>2, <4>4 DEF Node
      <4> QED BY <4>2, <4>4, <4>5, NodeAssumption DEF Agrees
    <3> QED BY <3>2, <3>3
  <2>5. CASE ~Sets(m, id)
    <3>1. w[id] = v[id]
      BY <2>5, <2>3 DEF Applied, Sets
    <3>2. (\A i \in 1 .. Len(r) : ~Sets(r[i], id)) => \A i \in 1 .. Len(q) : ~Sets(q[i], id)
      BY <2>0, <2>5, <1>1, <1>2
    <3> QED BY <3>1, <3>2, <2>2 DEF Agrees
  <2> QED BY <2>4, <2>5
<1> QED BY <1>3, <1>4

\* A status before everything else does nothing to the nodes.
LEMMA NodesAfterStatus ==
  ASSUME NEW q \in Seq(Message), NEW m \in Message, NEW t, NEW v, NEW loading,
         LeadsTo(q, t, v, loading), m.type = "status"
  PROVE  LeadsTo(<<m>> \o q, t, v, loading)
<1> DEFINE r == <<m>> \o q
<1>0. <<m>> \in Seq(Message) /\ Len(<<m>>) = 1 /\ <<m>>[1] = m
  OBVIOUS
<1>1. Len(q) \in Nat /\ Len(r) = Len(q) + 1 /\ (\A i \in 1 .. Len(q) : r[i + 1] = q[i]) /\ r[1] = m
  BY <1>0, ConcatProperties, LenProperties
<1> HIDE DEF r
<1> SUFFICES ASSUME NEW id \in NodeIds
             PROVE  /\ LastValue(r, t, id)
                    /\ ~loading /\ (\A i \in 1 .. Len(r) : ~Reloads(r[i])) => Agrees(r, t, v[id], id)
  BY DEF LeadsTo, r
<1>2. ~Sets(m, id)
  BY DEF Sets
<1>3. \A i \in 1 .. Len(q) : i + 1 \in 1 .. Len(r) /\ q[i] = r[i + 1]
  BY <1>1
<1>4. LastValue(r, t, id)
  <2> SUFFICES ASSUME NEW i \in 1 .. Len(r), Sets(r[i], id),
                      \A j \in i + 1 .. Len(r) : ~Reloads(r[j]) /\ ~Sets(r[j], id)
               PROVE  t[id] # Absent /\ t[id].value = r[i].value
    BY DEF LastValue
  <2>1. i # 1
    BY <1>1, <1>2
  <2>2. i - 1 \in 1 .. Len(q) /\ (i - 1) + 1 = i
    BY <2>1, <1>1
  <2>3. ASSUME NEW j \in (i - 1) + 1 .. Len(q) PROVE ~Reloads(q[j]) /\ ~Sets(q[j], id)
    <3>1. j + 1 \in i + 1 .. Len(r) /\ j \in 1 .. Len(q)
      BY <2>1, <1>1
    <3> QED BY <3>1, <1>3
  <2>4. LastValue(q, t, id)
    BY DEF LeadsTo
  <2>5. Sets(q[i - 1], id) /\ q[i - 1] = r[i]
    BY <2>2, <1>3
  <2> QED BY <2>2, <2>3, <2>4, <2>5 DEF LastValue
<1>5. ASSUME ~loading, \A i \in 1 .. Len(r) : ~Reloads(r[i]) PROVE Agrees(r, t, v[id], id)
  <2>1. \A i \in 1 .. Len(q) : ~Reloads(q[i])
    BY <1>3, <1>5
  <2>2. Agrees(q, t, v[id], id)
    BY <2>1, <1>5 DEF LeadsTo
  <2>3. (\A i \in 1 .. Len(r) : ~Sets(r[i], id)) => \A i \in 1 .. Len(q) : ~Sets(q[i], id)
    BY <1>3
  <2> QED BY <2>2, <2>3 DEF Agrees
<1> QED BY <1>4, <1>5

\* A page has loaded the nodes c, and hears what comes after them.
LEMMA NodesLoaded ==
  ASSUME NEW q, NEW t \in Fabric, NEW v, NEW loading, NEW c \in Fabric, NEW again,
         LeadsTo(q, t, v, loading),
         \/ c = t
         \/ \E k \in 1 .. Len(q) : Tells(q[k], c, t)
  PROVE  LeadsTo(q, t, c, again)
<1> SUFFICES ASSUME NEW id \in NodeIds, \A i \in 1 .. Len(q) : ~Reloads(q[i])
             PROVE  Agrees(q, t, c[id], id)
  BY DEF LeadsTo
<1>1. CASE c = t
  BY <1>1, NodeAssumption DEF Agrees
<1>2. ASSUME NEW k \in 1 .. Len(q), Tells(q[k], c, t) PROVE Agrees(q, t, c[id], id)
  BY <1>2 DEF Agrees, Tells
<1> QED BY <1>1, <1>2

-----------------------------------------------------------------------------
(* The types. *)

LEMMA StreamStates ==
  /\ {"none", "subscribe"} \cap ToSet(NoStream) # {} /\ {"none", "subscribe"} \cap ToSet(Opening) # {}
  /\ {"none", "subscribe"} \cap ToSet(<<"snapshot">>) = {} /\ {"none", "subscribe"} \cap ToSet(<<>>) = {}
  /\ Head(Opening) = "subscribe" /\ Tail(Opening) = <<"snapshot">>
  /\ Head(<<"snapshot">>) = "snapshot" /\ Tail(<<"snapshot">>) = <<>>
  /\ Head(NoStream) = "none"
  /\ NoStream # Opening /\ NoStream # <<"snapshot">> /\ NoStream # <<>>
  /\ Opening # <<"snapshot">> /\ Opening # <<>> /\ <<"snapshot">> # <<>>
BY DEF ToSet, NoStream, Opening

\* Requests stay requests when one of them is answered.
LEMMA GetsRemain ==
  ASSUME NEW S, NEW s \in Seq(S), NEW k \in 1 .. Len(s)
  PROVE  RemoveAt(s, k) \in Seq(S) /\ Len(RemoveAt(s, k)) = Len(s) - 1
<1>1. \A i \in 1 .. Len(s) : s[i] \in S
  BY ElementOfSeq
<1>2. Len(s) \in Nat
  BY LenProperties
<1>3. SubSeq(s, 1, k - 1) \in Seq(S) /\ Len(SubSeq(s, 1, k - 1)) = k - 1
  BY <1>1, <1>2, SubSeqProperties
<1>4. SubSeq(s, k + 1, Len(s)) \in Seq(S) /\ Len(SubSeq(s, k + 1, Len(s))) = Len(s) - k
  BY <1>1, <1>2, SubSeqProperties
<1> DEFINE a == SubSeq(s, 1, k - 1)
           b == SubSeq(s, k + 1, Len(s))
<1> HIDE DEF a, b
<1>5. a \o b \in Seq(S) /\ Len(a \o b) = Len(a) + Len(b)
  BY <1>3, <1>4, ConcatProperties DEF a, b
<1>6. RemoveAt(s, k) = a \o b
  BY DEF RemoveAt, a, b
<1>7. Len(a) = k - 1 /\ Len(b) = Len(s) - k
  BY <1>3, <1>4 DEF a, b
<1> QED BY <1>2, <1>5, <1>6, <1>7

LEMMA InitTyped == Init => Typed
<1> SUFFICES ASSUME Init PROVE Typed
  OBVIOUS
<1> USE ConsoleAssumption DEF Init
<1>1. cache \in Fabric
  BY DEF Fabric
<1>2. Nowhere \in Fabric
  BY DEF Nowhere, Fabric
<1>3. ch \in Seq(Message) /\ wire \in Seq(Message) /\ gets \in Seq(Get) /\ Len(ch) = 0
  BY EmptySeq
<1>4. TypeOK
  <2>1. clock \in 0 .. MaxEvents /\ losses \in 0 .. MaxLosses /\ Len(ch) <= ChanCap
    BY <1>3
  <2>2. env \in Environments /\ matter \in BOOLEAN /\ shown \in BOOLEAN /\ view \in Fabric
    BY <1>2
  <2> QED BY <1>1, <2>1, <2>2 DEF TypeOK
<1> QED BY <1>3, <1>4, StreamStates DEF Typed

LEMMA Mutes == Absent \notin Node /\ \A f \in Fabric, id \in NodeIds : f[id] # Absent => f[id] \in Node
BY NodeAssumption DEF Fabric

\* A fabric stays one when a node of it changes.
LEMMA FabricChanges ==
  ASSUME NEW f \in Fabric, NEW id \in NodeIds
  PROVE  /\ \A n \in Node \cup {Absent} : [f EXCEPT ![id] = n] \in Fabric
         /\ \A x \in 0 .. MaxEvents : f[id] # Absent =>
              [f EXCEPT ![id].value = x] \in Fabric /\ [f[id] EXCEPT !.value = x] \in Node
<1>1. ASSUME NEW n \in Node \cup {Absent} PROVE [f EXCEPT ![id] = n] \in Fabric
  BY DEF Fabric
<1>2. ASSUME NEW x \in 0 .. MaxEvents, f[id] # Absent
      PROVE  [f EXCEPT ![id].value = x] \in Fabric /\ [f[id] EXCEPT !.value = x] \in Node
  <2>1. [f[id] EXCEPT !.value = x] \in Node
    BY <1>2, Mutes DEF Node
  <2>2. [f EXCEPT ![id].value = x] = [f EXCEPT ![id] = [f[id] EXCEPT !.value = x]]
    BY DEF Fabric
  <2> QED BY <2>1, <2>2, <1>1
<1> QED BY <1>1, <1>2

-----------------------------------------------------------------------------
(* The Run goroutine. *)

\* The actions that begin to handle something.
Begins ==
  \/ \E id \in NodeIds : AttributeUpdated(id) \/ NodeUpdated(id) \/ NodeRemoved(id)
  \/ SessionEnds \/ SessionBegins

\* What is to be done, of an event or a session without troubles.
LEMMA Handles ==
  ASSUME NEW c \in Fabric, NEW n \in Fabric, NEW m \in Message, todo' = Handled(n, m), cache' = c,
         m.type = "status" => m.matter = matter', Tells(m, c, n)
  PROVE  /\ Handling' /\ Truthful' /\ todo' # <<>>
         /\ Len(todo') = 2 /\ todo'[1].nodes = n /\ todo'[2].msg = m
<1> DEFINE a == [do |-> "cache", nodes |-> n]
           b == [do |-> "broadcast", msg |-> m]
<1>1. a \in Caching /\ b \in Telling /\ a.nodes = n /\ b.msg = m
  BY DEF Caching, Telling
<1>2. todo' = <<a, b>>
  BY DEF Handled
<1> HIDE DEF a, b
<1>3. todo' \in Seq(Caching \cup Telling) /\ todo' # <<>> /\ Len(todo') = 2 /\ todo'[1] = a /\ todo'[2] = b
  BY <1>1, <1>2
<1>4. Handling'
  <2>1. ASSUME NEW i \in 1 .. Len(todo') PROVE todo'[i] \in IF i = Len(todo') THEN Telling ELSE Caching
    BY <1>1, <1>3
  <2> QED BY <1>3, <2>1 DEF Handling
<1>5. Latest' = n
  BY <1>1, <1>3 DEF Latest
<1>6. Truthful'
  <2>1. todo'[Len(todo')].msg = m
    BY <1>1, <1>3
  <2> QED BY <2>1, <1>5 DEF Truthful
<1> QED BY <1>1, <1>3, <1>4, <1>6

LEMMA HandlingBegins ==
  ASSUME Typed, Begins
  PROVE  /\ Handling' /\ Truthful' /\ todo' # <<>>
         /\ todo'[Len(todo')].msg.type = "status" \/ matter' = matter
<1> USE DEF Typed, TypeOK
<1>0. clock \in 0 .. MaxEvents /\ cache \in Fabric /\ MaxEvents \in Nat
  BY ConsoleAssumption
<1>1. ASSUME NEW id \in NodeIds, AttributeUpdated(id)
      PROVE  /\ Handling' /\ Truthful' /\ todo' # <<>>
             /\ todo'[Len(todo')].msg.type = "status" \/ matter' = matter
  <2> DEFINE n == [cache EXCEPT ![id].value = clock + 1]
             m == [type |-> "attribute", id |-> id, value |-> clock + 1]
  <2>1. cache[id] # Absent /\ clock + 1 \in 0 .. MaxEvents /\ cache' = cache /\ todo' = Handled(n, m)
    BY <1>0, <1>1 DEF AttributeUpdated, Happens
  <2>2. n \in Fabric /\ [cache[id] EXCEPT !.value = clock + 1] \in Node
    BY <2>1, <1>0, FabricChanges
  <2>3. m \in Message /\ m.type = "attribute" /\ m.id = id /\ m.value = clock + 1
    BY <2>1 DEF Message
  <2>4. n[id] = [cache[id] EXCEPT !.value = clock + 1] /\ \A k \in NodeIds : k # id => n[k] = cache[k]
    BY <1>0 DEF Fabric
  <2>5. n[id] # Absent /\ n[id].value = clock + 1 /\ n[id].available = cache[id].available
    BY <2>1, <2>2, <2>4, <1>0, Mutes DEF Node
  <2> HIDE DEF n, m
  <2>6. Tells(m, cache, n)
    BY <2>1, <2>3, <2>4, <2>5 DEF Tells, Sets, Reloads
  <2>7. Handling' /\ Truthful' /\ todo' # <<>>
    BY <2>1, <2>2, <2>3, <2>6, <1>0, Handles
  <2> QED BY <2>7, <1>1 DEF AttributeUpdated
<1>2. ASSUME NEW id \in NodeIds, NodeUpdated(id)
      PROVE  /\ Handling' /\ Truthful' /\ todo' # <<>>
             /\ todo'[Len(todo')].msg.type = "status" \/ matter' = matter
  <2>1. PICK a \in BOOLEAN :
          todo' = Handled([cache EXCEPT ![id] = [value |-> clock + 1, available |-> a]], [type |-> "node"])
    BY <1>2 DEF NodeUpdated
  <2>2. cache' = cache /\ [value |-> clock + 1, available |-> a] \in Node
    BY <1>0, <1>2 DEF NodeUpdated, Happens, Node
  <2>3. PICK n : n = [cache EXCEPT ![id] = [value |-> clock + 1, available |-> a]]
    OBVIOUS
  <2>4. n \in Fabric
    BY <2>2, <2>3, <1>0, FabricChanges
  <2>5. PICK m : m = [type |-> "node"]
    OBVIOUS
  <2>6. m \in Message /\ m.type = "node"
    BY <2>5 DEF Message
  <2>7. Tells(m, cache, n)
    BY <2>6 DEF Tells, Sets, Reloads
  <2>8. todo' = Handled(n, m)
    BY <2>1, <2>3, <2>5
  <2>9. Handling' /\ Truthful' /\ todo' # <<>>
    BY <2>2, <2>4, <2>6, <2>7, <2>8, <1>0, Handles
  <2> QED BY <2>9, <1>2 DEF NodeUpdated
<1>3. ASSUME NEW id \in NodeIds, NodeRemoved(id)
      PROVE  /\ Handling' /\ Truthful' /\ todo' # <<>>
             /\ todo'[Len(todo')].msg.type = "status" \/ matter' = matter
  <2>1. PICK n : n = [cache EXCEPT ![id] = Absent]
    OBVIOUS
  <2>2. n \in Fabric
    BY <2>1, <1>0, FabricChanges
  <2>3. PICK m : m = [type |-> "node_removed"]
    OBVIOUS
  <2>4. m \in Message /\ m.type = "node_removed"
    BY <2>3 DEF Message
  <2>5. Tells(m, cache, n)
    BY <2>4 DEF Tells, Sets, Reloads
  <2>6. todo' = Handled(n, m) /\ cache' = cache
    BY <2>1, <2>3, <1>3 DEF NodeRemoved
  <2>7. Handling' /\ Truthful' /\ todo' # <<>>
    BY <2>2, <2>4, <2>5, <2>6, <1>0, Handles
  <2> QED BY <2>7, <1>3 DEF NodeRemoved
<1>4. ASSUME SessionEnds
      PROVE  /\ Handling' /\ Truthful' /\ todo' # <<>>
             /\ todo'[Len(todo')].msg.type = "status" \/ matter' = matter
  <2>1. PICK m : m = [type |-> "status", matter |-> FALSE]
    OBVIOUS
  <2>2. m \in Message /\ m.type = "status" /\ m.matter = FALSE
    BY <2>1 DEF Message
  <2>3. PICK b : b = [do |-> "broadcast", msg |-> m]
    OBVIOUS
  <2>4. b \in Telling /\ b.msg = m
    BY <2>2, <2>3 DEF Telling
  <2>5. todo' = <<b>> /\ matter' = FALSE /\ cache' = cache
    BY <2>1, <2>3, <1>4 DEF SessionEnds
  <2>6. todo' \in Seq(Caching \cup Telling) /\ todo' # <<>> /\ Len(todo') = 1 /\ todo'[1] = b
    BY <2>4, <2>5
  <2>7. Handling'
    BY <2>4, <2>6 DEF Handling
  <2>8. Latest' = cache'
    BY <2>6 DEF Latest
  <2>9. Tells(m, cache', cache')
    BY <2>2 DEF Tells, Sets
  <2>10. todo'[Len(todo')].msg = m
    BY <2>4, <2>6
  <2>11. Truthful'
    BY <2>2, <2>5, <2>8, <2>9, <2>10 DEF Truthful
  <2> QED BY <2>2, <2>6, <2>7, <2>10, <2>11
<1>5. ASSUME SessionBegins
      PROVE  /\ Handling' /\ Truthful' /\ todo' # <<>>
             /\ todo'[Len(todo')].msg.type = "status" \/ matter' = matter
  <2>1. PICK m : m = [type |-> "status", matter |-> TRUE]
    OBVIOUS
  <2>2. m \in Message /\ m.type = "status" /\ m.matter = TRUE
    BY <2>1 DEF Message
  <2>3. matter' = TRUE /\ cache' = cache /\ env' = env
    BY <1>5 DEF SessionBegins, Happens
  <2>4. CASE "new_session" \notin env
    <3>1. todo' = <<>> \o Handled(cache, m)
      BY <1>5, <2>1, <2>4 DEF SessionBegins
    <3>2. todo' = Handled(cache, m)
      BY <3>1 DEF Handled
    <3>3. Tells(m, cache, cache)
      BY <2>2 DEF Tells, Sets
    <3>4. Handling' /\ Truthful' /\ todo' # <<>> /\ todo'[Len(todo')].msg = m
      BY <2>2, <2>3, <3>2, <3>3, <1>0, Handles
    <3> QED BY <3>4, <2>2
  <2>5. CASE "new_session" \in env
    <3>1. PICK n \in {cache, Nowhere} \cup {[cache EXCEPT ![id] = Absent] : id \in NodeIds} :
            todo' = <<[do |-> "cache", nodes |-> Nowhere]>> \o Handled(n, m)
      BY <1>5, <2>1, <2>5 DEF SessionBegins
    <3>2. Nowhere \in Fabric /\ n \in Fabric
      BY <3>1, <1>0, FabricChanges DEF Nowhere, Fabric
    <3>3. PICK a : a = [do |-> "cache", nodes |-> Nowhere]
      OBVIOUS
    <3>4. PICK b : b = [do |-> "cache", nodes |-> n]
      OBVIOUS
    <3>5. PICK c : c = [do |-> "broadcast", msg |-> m]
      OBVIOUS
    <3>6. a \in Caching /\ b \in Caching /\ c \in Telling /\ c.msg = m
      BY <3>2, <3>3, <3>4, <3>5, <2>2 DEF Caching, Telling
    <3>7. todo' = <<a>> \o <<b, c>>
      BY <3>1, <3>3, <3>4, <3>5 DEF Handled
    <3>8. todo' \in Seq(Caching \cup Telling) /\ todo' # <<>> /\ Len(todo') = 3 /\ todo'[1] = a /\ todo'[2] = b /\ todo'[3] = c
      BY <3>6, <3>7
    <3>9. Handling'
      <4>1. ASSUME NEW i \in 1 .. Len(todo') PROVE todo'[i] \in IF i = Len(todo') THEN Telling ELSE Caching
        BY <3>6, <3>8
      <4> QED BY <3>8, <4>1, <2>3, <2>5 DEF Handling
    <3>10. todo'[Len(todo')].msg = m
      BY <3>6, <3>8
    <3>11. Truthful'
      BY <3>10, <2>2, <2>3, <2>5 DEF Truthful
    <3> QED BY <3>8, <3>9, <3>10, <3>11, <2>2
  <2> QED BY <2>4, <2>5
<1> QED BY <1>1, <1>2, <1>3, <1>4, <1>5 DEF Begins

\* What is left to do begins with the cache, or is the broadcast.
LEMMA TodoShape ==
  ASSUME Handling, todo # <<>>
  PROVE  /\ Len(todo) \in 1 .. 3 /\ todo \in Seq(Caching \cup Telling)
         /\ Head(todo) = todo[1] /\ todo[Len(todo)] \in Telling
         /\ todo[Len(todo)].msg \in Message
         /\ Tail(todo) \in Seq(Caching \cup Telling) /\ Len(Tail(todo)) = Len(todo) - 1
         /\ \A i \in 1 .. Len(todo) - 1 : Tail(todo)[i] = todo[i + 1]
         /\ Head(todo).do = "broadcast" <=> Len(todo) = 1
         /\ Len(todo) # 1 => Tail(todo) # <<>> /\ Head(todo).nodes \in Fabric
         /\ Len(todo) = 1 => Tail(todo) = <<>>
<1> DEFINE S == Caching \cup Telling
<1>1. todo \in Seq(S) /\ Len(todo) \in Nat \ {0} /\ Len(todo) <= 3
  BY EmptySeq, LenProperties DEF Handling
<1>2. Tail(todo) \in Seq(S) /\ Len(Tail(todo)) = Len(todo) - 1 /\ Head(todo) = todo[1]
      /\ \A i \in 1 .. Len(todo) - 1 : Tail(todo)[i] = todo[i + 1]
  BY <1>1, HeadTailProperties
<1>3. \A i \in 1 .. Len(todo) : todo[i] \in IF i = Len(todo) THEN Telling ELSE Caching
  BY DEF Handling
<1>4. Len(todo) \in 1 .. Len(todo) /\ 1 \in 1 .. Len(todo)
  BY <1>1
<1>5. todo[Len(todo)] \in Telling /\ (Len(todo) # 1 => todo[1] \in Caching)
  BY <1>3, <1>4
<1>6. \A s \in Telling : s.do = "broadcast" /\ s.msg \in Message
  BY DEF Telling
<1>7. \A s \in Caching : s.do = "cache" /\ s.nodes \in Fabric
  BY DEF Caching
<1>8. Len(todo) # 1 => Tail(todo) # <<>>
  BY <1>1, <1>2, EmptySeq
<1>9. Len(todo) = 1 => Tail(todo) = <<>>
  <2>1. \A t \in Seq(S) : t # <<>> => Len(t) \in Nat \ {0}
    BY EmptySeq
  <2>2. Len(todo) = 1 => Len(Tail(todo)) = 0
    BY <1>2
  <2> QED BY <2>1, <2>2, <1>2
<1>10. todo[Len(todo)].msg \in Message
  BY <1>5, <1>6
<1>11. Head(todo).do = "broadcast" <=> Len(todo) = 1
  BY <1>2, <1>5, <1>6, <1>7
<1>12. Len(todo) # 1 => Head(todo).nodes \in Fabric
  BY <1>2, <1>5, <1>7
<1> QED BY <1>1, <1>2, <1>5, <1>8, <1>9, <1>10, <1>11, <1>12

\* The messages that follow the ones on the wire and in the channel.
LEMMA PendingIs ==
  ASSUME Handling
  PROVE  /\ Pending \in Seq(Message)
         /\ todo = <<>> => Pending = <<>>
         /\ todo # <<>> => Pending = <<todo[Len(todo)].msg>> /\ Len(Pending) = 1 /\ Pending[1] = todo[Len(todo)].msg
<1>1. CASE todo = <<>>
  BY <1>1 DEF Pending
<1>2. CASE todo # <<>>
  <2>1. PICK m \in Message : m = todo[Len(todo)].msg
    BY <1>2, TodoShape
  <2>2. Pending = <<m>>
    BY <1>2, <2>1 DEF Pending
  <2> QED BY <1>2, <2>1, <2>2
<1> QED BY <1>1, <1>2

\* Caching what was told is no news.
LEMMA HandlingCache ==
  ASSUME Typed, Handling, Truthful, Cache
  PROVE  /\ Handling' /\ Truthful' /\ todo' # <<>> /\ cache' \in Fabric
         /\ Pending' = Pending /\ ("new_session" \notin env => Latest' = Latest)
<1>1. todo # <<>> /\ Head(todo).do = "cache" /\ cache' = Head(todo).nodes /\ todo' = Tail(todo)
      /\ env' = env /\ matter' = matter
  BY DEF Cache
<1>2. Len(todo) \in 2 .. 3 /\ cache' \in Fabric /\ todo' # <<>>
  BY <1>1, TodoShape
<1>3. todo' \in Seq(Caching \cup Telling) /\ Len(todo') = Len(todo) - 1
  BY <1>1, TodoShape
<1>4. \A i \in 1 .. Len(todo) - 1 : todo'[i] = todo[i + 1]
  BY <1>1, TodoShape
<1>5. Len(todo') \in 1 .. Len(todo) - 1 /\ Len(todo') + 1 = Len(todo)
  BY <1>2, <1>3
<1>6. todo'[Len(todo')] = todo[Len(todo)]
  BY <1>4, <1>5
<1>7. Handling'
  <2>1. ASSUME NEW i \in 1 .. Len(todo') PROVE todo'[i] \in IF i = Len(todo') THEN Telling ELSE Caching
    <3>1. i + 1 \in 1 .. Len(todo) /\ todo'[i] = todo[i + 1] /\ (i + 1 = Len(todo) <=> i = Len(todo'))
      BY <1>2, <1>3, <1>4
    <3> QED BY <3>1 DEF Handling
  <2>2. "new_session" \notin env => Len(todo) = 2
    BY <1>2 DEF Handling
  <2>3. Len(todo') <= 3 /\ ("new_session" \notin env' => Len(todo') <= 2)
    BY <1>1, <1>2, <1>3, <2>2
  <2> QED BY <1>3, <2>1, <2>3 DEF Handling
<1>8. Pending' = Pending
  BY <1>1, <1>2, <1>6 DEF Pending
<1>9. "new_session" \notin env => Latest' = Latest /\ Latest = cache'
  <2>1. "new_session" \notin env => Len(todo) = 2
    BY <1>2 DEF Handling
  <2> QED BY <2>1, <1>1, <1>2, <1>3, TodoShape DEF Latest
<1>10. Truthful'
  <2>1. PICK m : m = todo[Len(todo)].msg
    OBVIOUS
  <2>2. todo'[Len(todo')].msg = m
    BY <2>1, <1>6
  <2>3. m.type = "status" => m.matter = matter
    BY <2>1, <1>1 DEF Truthful
  <2>4. ASSUME "new_session" \notin env PROVE Tells(m, cache', Latest')
    <3>1. Tells(m, cache, Latest) /\ Latest = cache' /\ Latest' = cache'
      BY <2>1, <2>4, <1>1, <1>9 DEF Truthful
    <3>2. PICK c : c = cache'
      OBVIOUS
    <3>3. Tells(m, cache, c)
      BY <3>1, <3>2
    <3>4. Tells(m, c, c)
      BY <3>3 DEF Tells
    <3> QED BY <3>1, <3>2, <3>4
  <2> QED BY <2>2, <2>3, <2>4, <1>1 DEF Truthful
<1> QED BY <1>2, <1>7, <1>8, <1>9, <1>10

\* When the message has been broadcast, the cache is the latest.
LEMMA HandlingBroadcast ==
  ASSUME Typed, Handling, Truthful, Broadcast
  PROVE  /\ Handling' /\ Truthful' /\ todo' = <<>> /\ Pending' = <<>>
         /\ Pending = <<Head(todo).msg>> /\ Head(todo).msg \in Message
         /\ Latest' = Latest /\ Latest = cache
<1>1. todo # <<>> /\ Head(todo).do = "broadcast" /\ todo' = Tail(todo) /\ cache' = cache
  BY DEF Broadcast
<1>2. Len(todo) = 1 /\ todo' = <<>> /\ Head(todo) = todo[Len(todo)] /\ Head(todo).msg \in Message
  BY <1>1, TodoShape
<1>3. Len(todo') = 0 /\ todo' \in Seq(Caching \cup Telling)
  BY <1>2, EmptySeq
<1>4. Handling'
  BY <1>3 DEF Handling
<1>5. Truthful' /\ Pending' = <<>>
  BY <1>2 DEF Truthful, Pending
<1>6. Pending = <<Head(todo).msg>>
  BY <1>1, <1>2 DEF Pending
<1>7. Latest' = Latest /\ Latest = cache
  BY <1>1, <1>2, <1>3 DEF Latest
<1> QED BY <1>2, <1>4, <1>5, <1>6, <1>7

\* Everything else leaves the Run goroutine alone.
LEMMA HandlingStays ==
  ASSUME Handling, Truthful, UNCHANGED <<env, run>>
  PROVE  Handling' /\ Truthful' /\ Pending' = Pending /\ Latest' = Latest
<1> USE DEF run
<1>1. Handling' /\ Pending' = Pending /\ Latest' = Latest
  BY DEF Handling, Pending, Latest
<1>2. Truthful'
  BY DEF Truthful, Tells, Latest
<1> QED BY <1>1, <1>2

-----------------------------------------------------------------------------
(* The types are kept. *)

LEMMA TypedEvents ==
  ASSUME Typed, Handling, Truthful, Begins \/ Cache \/ Broadcast
  PROVE  Typed'
<1> USE DEF Typed, TypeOK
<1>0. MaxEvents \in Nat /\ ChanCap \in Nat
  BY ConsoleAssumption
<1>1. CASE Begins
  <2>1. /\ UNCHANGED <<env, losses, events, client, cache>>
        /\ clock < MaxEvents /\ clock' = clock + 1 /\ matter' \in BOOLEAN
    BY <1>1 DEF Begins, AttributeUpdated, NodeUpdated, NodeRemoved, SessionEnds, SessionBegins, Happens
  <2>2. clock' \in 0 .. MaxEvents
    BY <2>1, <1>0
  <2> QED BY <2>1, <2>2 DEF events, client
<1>2. CASE Cache
  <2>1. cache' \in Fabric
    BY <1>2, HandlingCache
  <2> QED BY <2>1, <1>2 DEF Cache, events, client
<1>3. CASE Broadcast
  <2>1. Head(todo).msg \in Message
    BY <1>3, HandlingBroadcast
  <2>2. UNCHANGED <<env, cache, matter, clock, losses, stream, wire, client>>
    BY <1>3 DEF Broadcast
  <2>3. CASE {"none", "subscribe"} \cap ToSet(stream) # {}
    BY <1>3, <2>2, <2>3 DEF Broadcast, client
  <2>4. CASE {"none", "subscribe"} \cap ToSet(stream) = {}
    <3>1. Send(Head(todo).msg)
      BY <1>3, <2>4 DEF Broadcast
    <3>2. stream \notin {NoStream, Opening}
      BY <2>4, StreamStates
    <3>3. ch' \in Seq(Message) /\ Len(ch') <= ChanCap
      <4>1. CASE Len(ch) < ChanCap /\ ch' = Append(ch, Head(todo).msg)
        <5>1. ch' \in Seq(Message) /\ Len(ch') = Len(ch) + 1 /\ Len(ch) \in Nat
          BY <4>1, <2>1, AppendProperties, LenProperties
        <5> QED BY <5>1, <4>1, <1>0
      <4>2. CASE UNCHANGED ch
        BY <4>2
      <4> QED BY <3>1, <4>1, <4>2 DEF Send
    <3> QED BY <3>2, <3>3, <2>2 DEF client
  <2> QED BY <2>3, <2>4
<1> QED BY <1>1, <1>2, <1>3

LEMMA TypedStream ==
  ASSUME Typed, Subscribe \/ Snapshot \/ Write
  PROVE  Typed'
<1> USE DEF Typed, TypeOK, ServeUnchanged, run, client
<1>0. MaxEvents \in Nat /\ ChanCap \in Nat
  BY ConsoleAssumption
<1>1. CASE Subscribe
  <2>1. stream = Opening /\ stream' = <<"snapshot">> /\ UNCHANGED <<ch, wire>>
    BY <1>1, StreamStates DEF Subscribe
  <2> QED BY <2>1, <1>1, StreamStates DEF Subscribe
<1>2. CASE Snapshot
  <2>1. stream = <<"snapshot">> /\ stream' = <<>> /\ ch' = ch
    BY <1>2, StreamStates DEF Snapshot
  <2>2. [type |-> "status", matter |-> matter] \in Message
    BY DEF Message
  <2>3. wire' \in Seq(Message)
    BY <1>2, <2>2, AppendProperties DEF Snapshot
  <2> QED BY <2>1, <2>3, <1>2, StreamStates DEF Snapshot
<1>3. CASE Write
  <2>1. stream = <<>> /\ stream' = stream /\ ch # <<>>
    BY <1>3 DEF Write
  <2>2. Head(ch) \in Message /\ Tail(ch) \in Seq(Message) /\ Len(Tail(ch)) = Len(ch) - 1 /\ Len(ch) \in Nat
    BY <2>1, HeadTailProperties, LenProperties
  <2>3. wire' \in Seq(Message)
    BY <1>3, <2>2, AppendProperties DEF Write
  <2>4. ch' \in Seq(Message) /\ Len(ch') <= ChanCap
    BY <1>3, <2>2, <1>0 DEF Write
  <2> QED BY <2>1, <2>3, <2>4, <1>3, StreamStates DEF Write
<1> QED BY <1>1, <1>2, <1>3

LEMMA TypedPage ==
  ASSUME Typed, PageNext
  PROVE  Typed'
<1> USE DEF Typed, TypeOK, PageUnchanged, run, events, client
<1>0. MaxLosses \in Nat /\ ChanCap \in Nat /\ Len(<<>>) = 0
  BY ConsoleAssumption
<1>a. Asked \in Get
  BY DEF Asked, Get
<1>1. CASE Load
  <2>1. gets' \in Seq(Get)
    BY <1>1, <1>a DEF Load
  <2> QED BY <2>1, <1>1 DEF Load
<1>2. CASE ConnectEvents
  <2>1. stream = NoStream /\ stream' = Opening /\ page' = "live"
    BY <1>2 DEF ConnectEvents
  <2> QED BY <2>1, <1>2, StreamStates DEF ConnectEvents
<1>3. CASE LoseStream
  <2>1. losses' \in 0 .. MaxLosses
    BY <1>3, <1>0 DEF LoseStream
  <2>2. ch' \in Seq(Message) /\ wire' \in Seq(Message) /\ Len(ch') <= ChanCap /\ ch' = <<>> /\ wire' = <<>>
    BY <1>3, <1>0, EmptySeq DEF LoseStream
  <2> QED BY <2>1, <2>2, <1>3 DEF LoseStream
<1>4. ASSUME NEW types, Receive(types)
      PROVE  /\ Head(wire) \in Message /\ wire # <<>> /\ wire' \in Seq(Message)
             /\ stream' = stream /\ stream = <<>> /\ ch' = ch /\ page' = page
             /\ UNCHANGED <<env, run, losses>>
  <2>1. wire # <<>> /\ wire' = Tail(wire)
    BY <1>4 DEF Receive
  <2> QED BY <2>1, <1>4, HeadTailProperties DEF Receive
<1>5. CASE SetStatus
  <2>1. Receive({"status"})
    BY <1>5 DEF SetStatus
  <2>2. Head(wire).type = "status"
    BY <2>1 DEF Receive
  <2>3. shown' \in BOOLEAN
    BY <1>5, <2>1, <2>2, <1>4 DEF SetStatus, Message
  <2> QED BY <2>1, <2>3, <1>4, <1>5 DEF SetStatus
<1>6. CASE ApplyAttribute
  <2>1. Receive({"attribute"})
    BY <1>6 DEF ApplyAttribute
  <2>2. Head(wire).type = "attribute"
    BY <2>1 DEF Receive
  <2>3. Head(wire).id \in NodeIds /\ Head(wire).value \in 0 .. MaxEvents
    BY <2>1, <2>2, <1>4 DEF Message
  <2>4. view' \in Fabric
    BY <1>6, <2>3, FabricChanges DEF ApplyAttribute
  <2> QED BY <2>1, <2>4, <1>4, <1>6 DEF ApplyAttribute
<1>7. CASE Reload
  <2>1. Receive({"node", "node_removed"})
    BY <1>7 DEF Reload
  <2>2. gets' \in Seq(Get)
    BY <1>7, <1>a, AppendProperties DEF Reload
  <2> QED BY <2>1, <2>2, <1>4, <1>7 DEF Reload
<1>8. ASSUME NEW k \in DOMAIN gets, ServeNodes(k) PROVE Typed'
  <2>1. Response \in Get /\ k \in 1 .. Len(gets)
    BY LenProperties DEF Response, Get
  <2>2. gets' \in Seq(Get)
    BY <2>1, <1>8, ExceptSeq DEF ServeNodes
  <2> QED BY <2>2, <1>8 DEF ServeNodes
<1>9. ASSUME NEW k \in DOMAIN gets, LoadNodes(k) PROVE Typed'
  <2>1. k \in 1 .. Len(gets) /\ gets[k] \in Get
    BY LenProperties, ElementOfSeq
  <2>2. gets[k].at = "page" => gets[k].nodes \in Fabric
    BY <2>1 DEF Get
  <2>3. view' \in Fabric
    BY <1>9, <2>2 DEF LoadNodes
  <2>4. gets' \in Seq(Get)
    BY <2>1, <1>9, GetsRemain DEF LoadNodes
  <2>5. page' \in {"start", "loading", "waiting", "live"} /\ (page' = "live" <=> page = "live")
    BY <1>9 DEF LoadNodes
  <2> QED BY <2>3, <2>4, <2>5, <1>9 DEF LoadNodes
<1> QED BY <1>1, <1>2, <1>3, <1>5, <1>6, <1>7, <1>8, <1>9 DEF PageNext

-----------------------------------------------------------------------------
(* What is under way. *)

LEMMA FlightIs ==
  ASSUME Typed, Handling
  PROVE  /\ Flight \in Seq(Message) /\ Pending \in Seq(Message) /\ wire \in Seq(Message) /\ ch \in Seq(Message)
         /\ wire \o ch \in Seq(Message)
         /\ stream \in {NoStream, Opening} => Flight = Pending
<1>1. Pending \in Seq(Message) /\ wire \in Seq(Message) /\ ch \in Seq(Message)
  BY PendingIs DEF Typed
<1>2. wire \o ch \in Seq(Message)
  BY <1>1, ConcatProperties
<1>3. Flight \in Seq(Message)
  BY <1>1, <1>2, ConcatProperties DEF Flight
<1>4. ASSUME stream \in {NoStream, Opening} PROVE Flight = Pending
  <2>1. wire = <<>> /\ ch = <<>>
    BY <1>4, StreamStates DEF Typed
  <2>2. <<>> \o <<>> = <<>>
    OBVIOUS
  <2> QED BY <2>1, <2>2, <1>1, ConcatEmptySeq DEF Flight
<1> QED BY <1>1, <1>2, <1>3, <1>4

LEMMA FlightBegins ==
  ASSUME Typed, Handling, Begins, NEW m, m = todo'[Len(todo')].msg
  PROVE  m \in Message /\ Flight' = Append(Flight, m) /\ Latest = cache /\ cache' = cache
<1>1. todo = <<>> /\ UNCHANGED <<env, losses, events, client, cache>>
  BY DEF Begins, AttributeUpdated, NodeUpdated, NodeRemoved, SessionEnds, SessionBegins, Happens
<1>2. wire' = wire /\ ch' = ch
  BY <1>1 DEF events
<1>3. Pending = <<>> /\ Latest = cache
  BY <1>1 DEF Pending, Latest
<1>4. Flight = (wire \o ch) \o <<>>
  BY <1>3 DEF Flight
<1> QED
  <2>1. todo' # <<>> /\ Handling'
    BY HandlingBegins
  <2>2. Len(todo') \in Nat \ {0} /\ \A i \in 1 .. Len(todo') : todo'[i] \in IF i = Len(todo') THEN Telling ELSE Caching
    <3>1. todo' \in Seq(Caching \cup Telling)
      BY <2>1 DEF Handling
    <3> QED BY <3>1, <2>1, EmptySeq DEF Handling
  <2>3. Len(todo') \in 1 .. Len(todo')
    BY <2>2
  <2>4. todo'[Len(todo')] \in Telling
    BY <2>2, <2>3
  <2>5. m \in Message
    BY <2>4 DEF Telling
  <2>6. Pending' = <<m>>
    BY <2>1 DEF Pending
  <2>7. Flight' = (wire \o ch) \o <<m>>
    BY <2>6, <1>2 DEF Flight
  <2>8. (wire \o ch) \o <<m>> = Append((wire \o ch) \o <<>>, m)
    BY <2>5, FlightIs, HappenedFlight
  <2> QED BY <2>5, <2>7, <2>8, <1>1, <1>3, <1>4

\* A message that a subscriber gets, as nothing is dropped, stays under way.
LEMMA FlightBroadcast ==
  ASSUME Typed, Handling, Truthful, Broadcast, Subscribed, "overflow" \notin env
  PROVE  Flight' = Flight
<1>1. {"none", "subscribe"} \cap ToSet(stream) = {}
  BY StreamStates DEF Subscribed
<1>2. ch' = Append(ch, Head(todo).msg) /\ wire' = wire
  BY <1>1 DEF Broadcast, Send
<1>3. PICK m \in Message : m = Head(todo).msg
  BY HandlingBroadcast
<1>4. Pending = <<m>> /\ Pending' = <<>>
  BY <1>3, HandlingBroadcast
<1>5. (wire \o Append(ch, m)) \o <<>> = (wire \o ch) \o <<m>>
  BY FlightIs, BroadcastFlight
<1> QED BY <1>2, <1>3, <1>4, <1>5 DEF Flight

LEMMA FlightWrite ==
  ASSUME Typed, Handling, Truthful, Write
  PROVE  Flight' = Flight
<1>1. ch # <<>> /\ wire' = Append(wire, Head(ch)) /\ ch' = Tail(ch) /\ UNCHANGED <<env, run>>
  BY DEF Write, ServeUnchanged
<1>2. Append(wire, Head(ch)) \o Tail(ch) = wire \o ch
  BY <1>1, FlightIs, WrittenFlight
<1>3. Pending' = Pending
  BY <1>1, HandlingStays
<1> QED BY <1>1, <1>2, <1>3 DEF Flight

LEMMA FlightSnapshot ==
  ASSUME Typed, Handling, Truthful, Snapshot, NEW m, m = [type |-> "status", matter |-> matter]
  PROVE  m \in Message /\ stream = <<"snapshot">> /\ stream' = <<>> /\ Flight' = <<m>> \o Flight
<1>1. stream = <<"snapshot">> /\ stream' = <<>> /\ wire = <<>> /\ ch' = ch /\ UNCHANGED <<env, run>>
  BY StreamStates DEF Typed, Snapshot, ServeUnchanged
<1>2. m \in Message
  BY DEF Message, Typed, TypeOK
<1>3. wire' = <<m>>
  BY <1>1 DEF Snapshot
<1>4. Pending' = Pending
  BY <1>1, HandlingStays
<1>5. Flight' = (<<m>> \o ch) \o Pending
  BY <1>1, <1>3, <1>4 DEF Flight
<1>6. <<m>> \in Seq(Message)
  BY <1>2
<1>7. (<<m>> \o ch) \o Pending = <<m>> \o (ch \o Pending)
  BY <1>6, FlightIs, ConcatAssociative
<1>8. Flight = ch \o Pending
  BY <1>1, FlightIs, ConcatEmptySeq DEF Flight
<1> QED BY <1>1, <1>2, <1>5, <1>7, <1>8

LEMMA FlightReceive ==
  ASSUME Typed, Handling, Truthful, NEW types, Receive(types)
  PROVE  /\ Flight # <<>> /\ Head(Flight) = Head(wire) /\ Flight' = Tail(Flight)
         /\ stream = <<>> /\ UNCHANGED <<env, run, stream, page>> /\ Latest' = Latest
         /\ Head(wire) \in Message /\ Head(wire).type \in types
<1>1. wire # <<>> /\ wire' = Tail(wire) /\ ch' = ch /\ UNCHANGED <<env, run, stream, page>>
      /\ Head(wire).type \in types
  BY DEF Receive, PageUnchanged
<1>2. stream = <<>> /\ Head(wire) \in Message
  BY <1>1, HeadTailProperties DEF Typed
<1>3. Pending' = Pending /\ Latest' = Latest
  BY <1>1, HandlingStays
<1>4. /\ (wire \o ch) \o Pending # <<>> /\ Head((wire \o ch) \o Pending) = Head(wire)
      /\ (Tail(wire) \o ch) \o Pending = Tail((wire \o ch) \o Pending)
  <2>1. wire \in Seq(Message) /\ ch \in Seq(Message) /\ Pending \in Seq(Message)
    BY FlightIs
  <2>2. PICK w \in Seq(Message), c \in Seq(Message), p \in Seq(Message) : w = wire /\ c = ch /\ p = Pending
    BY <2>1
  <2>a. w # <<>>
    BY <1>1, <2>2
  <2> HIDE <2>2
  <2>3. /\ (w \o c) \o p \in Seq(Message) /\ (w \o c) \o p # <<>>
        /\ Head((w \o c) \o p) = Head(w)
        /\ (Tail(w) \o c) \o p = Tail((w \o c) \o p)
    BY <2>a, HeardFlight, SMTT(30)
  <2> QED BY <2>2, <2>3
<1> QED BY <1>1, <1>2, <1>3, <1>4 DEF Flight

-----------------------------------------------------------------------------
(* The dot of matter-server. *)

LEMMA StatusBegins ==
  ASSUME Typed, Handling, Status, Begins
  PROVE  Status'
<1>1. PICK m : m = todo'[Len(todo')].msg
  OBVIOUS
<1>2. m \in Message /\ Flight' = Append(Flight, m) /\ Flight \in Seq(Message)
  BY <1>1, FlightBegins, FlightIs
<1>3. todo' # <<>> /\ Truthful' /\ (m.type = "status" \/ matter' = matter)
  BY <1>1, HandlingBegins
<1>4. m.type = "status" => m.matter = matter'
  BY <1>1, <1>3 DEF Truthful
<1>5. UNCHANGED <<env, stream, shown>>
  BY DEF Begins, AttributeUpdated, NodeUpdated, NodeRemoved, SessionEnds, SessionBegins, Happens, events, client
<1>6. LastStatus(Flight, matter) =>
        LastStatus(Append(Flight, m), matter') /\ (StatusTo(Flight, matter, shown) => StatusTo(Append(Flight, m), matter', shown))
  <2>1. PICK t : t = matter'
    OBVIOUS
  <2>2. IF m.type = "status" THEN m.matter = t ELSE t = matter
    BY <1>3, <1>4, <2>1
  <2>3. LastStatus(Flight, matter) =>
          LastStatus(Append(Flight, m), t) /\ (StatusTo(Flight, matter, shown) => StatusTo(Append(Flight, m), t, shown))
    BY <1>2, <2>2, StatusTold
  <2> QED BY <2>1, <2>3
<1>7. ASSUME "overflow" \notin env, Subscribed PROVE LastStatus(Flight', matter')
  BY <1>2, <1>6, <1>7 DEF Status
<1>8. ASSUME "overflow" \notin env, stream = <<>> PROVE StatusTo(Flight', matter', shown')
  <2>1. LastStatus(Flight, matter) /\ StatusTo(Flight, matter, shown)
    BY <1>8 DEF Status, Subscribed
  <2> QED BY <2>1, <1>2, <1>5, <1>6
<1> QED BY <1>5, <1>7, <1>8 DEF Status, Subscribed

LEMMA StatusNext ==
  ASSUME Typed, Handling, Truthful, Status, Next
  PROVE  Status'
<1>1. CASE Begins
  BY <1>1, StatusBegins
<1>2. CASE Cache
  <2>1. Pending' = Pending
    BY <1>2, HandlingCache
  <2>2. UNCHANGED <<env, matter, stream, ch, wire, shown>>
    BY <1>2 DEF Cache, events, client
  <2>3. Flight' = Flight
    BY <2>1, <2>2 DEF Flight
  <2> QED BY <2>2, <2>3 DEF Status, Subscribed
<1>3. CASE Broadcast
  <2>1. UNCHANGED <<env, matter, stream, shown>>
    BY <1>3 DEF Broadcast, client
  <2>2. Subscribed /\ "overflow" \notin env => Flight' = Flight
    BY <1>3, FlightBroadcast
  <2>3. stream = <<>> => Subscribed
    BY DEF Subscribed
  <2> QED BY <2>1, <2>2, <2>3 DEF Status, Subscribed
<1>4. CASE Subscribe
  <2>1. stream = Opening /\ stream' = <<"snapshot">> /\ UNCHANGED <<env, run, ch, wire>>
    BY <1>4, StreamStates DEF Typed, Subscribe, ServeUnchanged
  <2>2. Pending' = Pending /\ matter' = matter
    BY <2>1, HandlingStays DEF run
  <2>3. Flight' = Pending
    BY <2>1, <2>2, FlightIs DEF Flight
  <2>4. LastStatus(Pending, matter)
    <3>1. PICK m : m = todo[Len(todo)].msg
      OBVIOUS
    <3>2. CASE todo = <<>>
      <4>1. Pending = <<>> /\ Len(<<>>) = 0
        BY <3>2, PendingIs
      <4> QED BY <4>1 DEF LastStatus
    <3>3. CASE todo # <<>>
      <4>1. Len(Pending) = 1 /\ Pending[1] = m
        BY <3>1, <3>3, PendingIs
      <4>2. m.type = "status" => m.matter = matter
        BY <3>1, <3>3 DEF Truthful
      <4> QED BY <4>1, <4>2 DEF LastStatus
    <3> QED BY <3>2, <3>3
  <2>5. stream' # <<>>
    BY <2>1, StreamStates
  <2> QED BY <2>1, <2>2, <2>3, <2>4, <2>5 DEF Status
<1>5. CASE Snapshot
  <2>1. PICK m : m = [type |-> "status", matter |-> matter]
    OBVIOUS
  <2>2. m \in Message /\ stream = <<"snapshot">> /\ stream' = <<>> /\ Flight' = <<m>> \o Flight
    BY <1>5, <2>1, FlightSnapshot
  <2>3. UNCHANGED <<env, matter, shown>>
    BY <1>5 DEF Snapshot, ServeUnchanged, run, client
  <2>4. ASSUME "overflow" \notin env PROVE StatusTo(Flight', matter, shown)
    <3>1. LastStatus(Flight, matter) /\ Flight \in Seq(Message)
      BY <2>2, <2>4, FlightIs DEF Status, Subscribed
    <3>2. m.type = "status" /\ m.matter = matter
      BY <2>1
    <3>3. StatusTo(<<m>> \o Flight, matter, shown)
      BY <2>2, <3>1, <3>2, StatusFirst
    <3> QED BY <3>3, <2>2
  <2> QED BY <2>3, <2>4 DEF Status, StatusTo
<1>6. CASE Write
  <2>1. UNCHANGED <<env, matter, stream, shown>> /\ Flight' = Flight
    BY <1>6, FlightWrite DEF Write, ServeUnchanged, run, client
  <2> QED BY <2>1 DEF Status, Subscribed
<1>7. ASSUME UNCHANGED <<env, run, shown, events>> PROVE Status'
  <2>1. Pending' = Pending
    BY <1>7, HandlingStays
  <2>2. Flight' = Flight
    BY <1>7, <2>1 DEF Flight, events
  <2> QED BY <2>2, <1>7 DEF Status, Subscribed, run, events
<1>8. CASE Load
  <2>1. UNCHANGED <<env, run, events>>
    BY <1>8 DEF Load, PageUnchanged
  <2>2. Pending' = Pending
    BY <2>1, HandlingStays
  <2>3. Flight' = Flight
    BY <2>1, <2>2 DEF Flight, events
  <2>4. page = "start"
    BY <1>8 DEF Load
  <2>5. stream = NoStream
    BY <2>4 DEF Typed
  <2> QED BY <2>1, <2>5, StreamStates DEF Status, Subscribed, events
<1>9. CASE ConnectEvents
  <2>1. stream' = Opening /\ env' = env
    BY <1>9 DEF ConnectEvents, PageUnchanged
  <2> QED BY <2>1, StreamStates DEF Status, Subscribed
<1>10. CASE LoseStream
  <2>1. stream' = NoStream /\ env' = env
    BY <1>10 DEF LoseStream
  <2> QED BY <2>1, StreamStates DEF Status, Subscribed
<1>11. ASSUME NEW types, Receive(types), NEW d, shown' = d,
              d = IF Head(wire).type = "status" THEN Head(wire).matter ELSE shown
       PROVE  Status'
  <2>1. /\ Flight # <<>> /\ Head(Flight) = Head(wire) /\ Flight' = Tail(Flight)
        /\ stream = <<>> /\ UNCHANGED <<env, matter, stream>>
    BY <1>11, FlightReceive DEF run
  <2>2. Flight \in Seq(Message)
    BY FlightIs
  <2>3. ASSUME "overflow" \notin env PROVE StatusTo(Tail(Flight), matter, d)
    <3>1. StatusTo(Flight, matter, shown)
      BY <2>1, <2>3 DEF Status
    <3>2. d = IF Head(Flight).type = "status" THEN Head(Flight).matter ELSE shown
      BY <1>11, <2>1
    <3> QED BY <2>1, <2>2, <3>1, <3>2, StatusHeard
  <2> QED BY <2>1, <2>3, <1>11 DEF Status, StatusTo
<1>12. CASE SetStatus
  <2>1. Receive({"status"}) /\ shown' = Head(wire).matter
    BY <1>12 DEF SetStatus
  <2>2. Head(wire).type = "status"
    BY <2>1, FlightReceive
  <2> QED BY <2>1, <2>2, <1>11
<1>13. CASE ApplyAttribute
  <2>1. Receive({"attribute"}) /\ shown' = shown
    BY <1>13 DEF ApplyAttribute
  <2>2. Head(wire).type = "attribute"
    BY <2>1, FlightReceive
  <2> QED BY <2>1, <2>2, <1>11
<1>14. CASE Reload
  <2>1. Receive({"node", "node_removed"}) /\ shown' = shown
    BY <1>14 DEF Reload
  <2>2. Head(wire).type # "status"
    BY <2>1, FlightReceive
  <2> QED BY <2>1, <2>2, <1>11
<1>15. ASSUME NEW k \in DOMAIN gets, ServeNodes(k) \/ LoadNodes(k) PROVE Status'
  BY <1>15, <1>7 DEF ServeNodes, LoadNodes, PageUnchanged
<1> QED BY <1>1, <1>2, <1>3, <1>4, <1>5, <1>6, <1>8, <1>9, <1>10, <1>12, <1>13, <1>14, <1>15
        DEF Next, RunNext, PageNext, Begins

-----------------------------------------------------------------------------
(* The nodes on a page that nothing disturbs. *)

\* The channel is the page's, or there is none yet.
LEMMA PageStates ==
  ASSUME Typed
  PROVE  /\ page = "live" <=> (stream = Opening \/ Subscribed)
         /\ ~(stream = Opening /\ Subscribed)
BY StreamStates DEF Typed, Subscribed

LEMMA UndisturbedBegins ==
  ASSUME Typed, Handling, Undisturbed, Begins
  PROVE  Undisturbed'
<1>1. PICK m : m = todo'[Len(todo')].msg
  OBVIOUS
<1>2. m \in Message /\ Flight' = Append(Flight, m) /\ Flight \in Seq(Message) /\ Latest = cache /\ cache' = cache
  BY <1>1, FlightBegins, FlightIs
<1>3. todo' # <<>> /\ Truthful'
  BY HandlingBegins
<1>4. UNCHANGED <<env, stream, page, view, gets>>
  BY DEF Begins, AttributeUpdated, NodeUpdated, NodeRemoved, SessionEnds, SessionBegins, Happens, events, client
<1>5. ASSUME env = {}, LeadsTo(Flight, Latest, view, gets # <<>>)
      PROVE  LeadsTo(Flight', Latest', view, gets # <<>>)
  <2>1. "new_session" \notin env'
    BY <1>4, <1>5
  <2>2. PICK t : t = Latest'
    OBVIOUS
  <2>3. Tells(m, cache, t)
    BY <1>1, <1>2, <1>3, <2>1, <2>2 DEF Truthful
  <2>4. LeadsTo(Append(Flight, m), t, view, gets # <<>>)
    BY <1>2, <1>5, <2>3, NodesTold
  <2> QED BY <1>2, <2>2, <2>4
<1> QED BY <1>2, <1>4, <1>5 DEF Undisturbed, Subscribed

\* The steps that neither move a message to or from the page nor change its nodes.
LEMMA UndisturbedStays ==
  ASSUME Undisturbed, UNCHANGED <<env, stream, page, view, gets>>,
         Subscribed /\ env = {} => Flight' = Flight /\ Latest' = Latest,
         env = {} /\ (page = "waiting" \/ stream = Opening) => cache' = cache
  PROVE  Undisturbed'
BY DEF Undisturbed, Subscribed

LEMMA UndisturbedRun ==
  ASSUME Typed, Handling, Truthful, Undisturbed, Begins \/ Cache \/ Broadcast
  PROVE  Undisturbed'
<1>1. CASE Begins
  BY <1>1, UndisturbedBegins
<1>2. CASE Cache
  <2>1. Pending' = Pending /\ ("new_session" \notin env => Latest' = Latest)
    BY <1>2, HandlingCache
  <2>2. UNCHANGED <<env, stream, ch, wire, page, view, gets>>
    BY <1>2 DEF Cache, events, client
  <2>3. Flight' = Flight
    BY <2>1, <2>2 DEF Flight
  <2>4. ASSUME env = {}, page = "waiting" \/ stream = Opening PROVE FALSE
    <3>1. Unheard
      <4>1. page # "start" /\ page # "loading"
        BY <2>4, PageStates
      <4>2. stream \in {NoStream, Opening}
        BY <2>4, PageStates, StreamStates DEF Typed
      <4> QED BY <4>1, <4>2, StreamStates DEF Unheard
    <3> QED BY <3>1, <2>4, <1>2 DEF Cache
  <2> QED BY <2>1, <2>2, <2>3, <2>4, UndisturbedStays
<1>3. CASE Broadcast
  <2>1. UNCHANGED <<env, cache, stream, page, view, gets>>
    BY <1>3 DEF Broadcast, client
  <2>2. Subscribed /\ "overflow" \notin env => Flight' = Flight
    BY <1>3, FlightBroadcast
  <2>3. Latest' = Latest
    BY <1>3, HandlingBroadcast
  <2> QED BY <2>1, <2>2, <2>3, UndisturbedStays
<1> QED BY <1>1, <1>2, <1>3

\* What a page without a channel has loaded is what the next message tells of.
LEMMA PendingLeads ==
  ASSUME Typed, Handling, Truthful, env = {}
  PROVE  LeadsTo(Pending, Latest, cache, FALSE)
<1>1. CASE todo = <<>>
  <2>1. Latest = cache /\ Len(Pending) = 0
    BY <1>1, PendingIs DEF Latest
  <2>2. \A i \in 1 .. Len(Pending) : FALSE
    BY <2>1
  <2> QED BY <2>1, <2>2 DEF LeadsTo, LastValue, Agrees
<1>2. CASE todo # <<>>
  <2>1. PICK m : m = todo[Len(todo)].msg
    OBVIOUS
  <2>2. Len(Pending) = 1 /\ Pending[1] = m
    BY <1>2, <2>1, PendingIs
  <2>3. Tells(m, cache, Latest)
    BY <1>2, <2>1 DEF Truthful
  <2>4. 1 \in 1 .. Len(Pending) /\ \A i \in 1 .. Len(Pending) : Pending[i] = m
    BY <2>2
  <2> SUFFICES ASSUME NEW id \in NodeIds
               PROVE  /\ LastValue(Pending, Latest, id)
                      /\ (\A i \in 1 .. Len(Pending) : ~Reloads(Pending[i])) => Agrees(Pending, Latest, cache[id], id)
    BY DEF LeadsTo
  <2>5. LastValue(Pending, Latest, id)
    BY <2>3, <2>4 DEF LastValue, Tells
  <2>6. ASSUME ~Reloads(m) PROVE Agrees(Pending, Latest, cache[id], id)
    BY <2>3, <2>4, <2>6 DEF Agrees, Tells
  <2> QED BY <2>4, <2>5, <2>6
<1> QED BY <1>1, <1>2

LEMMA UndisturbedStream ==
  ASSUME Typed, Handling, Truthful, Undisturbed, Subscribe \/ Snapshot \/ Write
  PROVE  Undisturbed'
<1>1. CASE Subscribe
  <2>1. stream = Opening /\ stream' = <<"snapshot">> /\ UNCHANGED <<env, run, ch, wire, page, view, gets>>
    BY <1>1, StreamStates DEF Typed, Subscribe, ServeUnchanged, client
  <2>2. Pending' = Pending /\ Latest' = Latest
    BY <2>1, HandlingStays
  <2>3. Flight' = Pending
    BY <2>1, <2>2, FlightIs DEF Flight
  <2>4. page = "live"
    BY <2>1, PageStates
  <2>5. ASSUME env = {}
        PROVE  gets = <<>> /\ LeadsTo(Flight', Latest', view, FALSE) /\ \A k \in 1 .. Len(gets) : gets[k] = Asked
    <3>1. gets = <<>> /\ view = cache /\ \A k \in 1 .. Len(gets) : gets[k] = Asked
      BY <2>1, <2>5 DEF Undisturbed
    <3> QED BY <2>2, <2>3, <2>5, <3>1, PendingLeads
  <2>6. (gets' # <<>>) = FALSE \/ env # {}
    BY <2>1, <2>5
  <2> QED BY <2>1, <2>4, <2>5, <2>6, StreamStates DEF Undisturbed
<1>2. CASE Snapshot
  <2>1. PICK m : m = [type |-> "status", matter |-> matter]
    OBVIOUS
  <2>2. m \in Message /\ stream = <<"snapshot">> /\ stream' = <<>> /\ Flight' = <<m>> \o Flight
    BY <1>2, <2>1, FlightSnapshot
  <2>3. UNCHANGED <<env, run, page, view, gets>>
    BY <1>2 DEF Snapshot, ServeUnchanged, client
  <2>4. Latest' = Latest
    BY <2>3, HandlingStays
  <2>5. ASSUME env = {} PROVE LeadsTo(Flight', Latest', view, gets # <<>>)
    <3>1. LeadsTo(Flight, Latest, view, gets # <<>>) /\ Flight \in Seq(Message)
      BY <2>2, <2>5, FlightIs DEF Undisturbed, Subscribed
    <3>2. m.type = "status"
      BY <2>1
    <3>3. LeadsTo(<<m>> \o Flight, Latest, view, gets # <<>>)
      BY <2>2, <3>1, <3>2, NodesAfterStatus
    <3> QED BY <3>3, <2>2, <2>4
  <2>6. page = "live"
    BY <2>2, PageStates DEF Subscribed
  <2> QED BY <2>2, <2>3, <2>5, <2>6, StreamStates DEF Undisturbed
<1>3. CASE Write
  <2>1. UNCHANGED <<env, run, stream, page, view, gets>> /\ Flight' = Flight
    BY <1>3, FlightWrite DEF Write, ServeUnchanged, client
  <2>2. Latest' = Latest
    BY <2>1, HandlingStays
  <2> QED BY <2>1, <2>2, UndisturbedStays DEF run
<1> QED BY <1>1, <1>2, <1>3

LEMMA LatestIs ==
  ASSUME Typed, Handling, Truthful, env = {}
  PROVE  /\ Latest \in Fabric
         /\ cache = Latest \/ \E k \in 1 .. Len(Flight) : Tells(Flight[k], cache, Latest)
<1>1. CASE todo = <<>>
  BY <1>1 DEF Latest, Typed, TypeOK
<1>2. CASE todo # <<>>
  <2>0. Head(todo) = todo[1] /\ (Len(todo) # 1 => Head(todo).nodes \in Fabric)
    BY <1>2, TodoShape
  <2>1. Latest \in Fabric
    <3>1. cache \in Fabric
      BY DEF Typed, TypeOK
    <3>2. Len(todo) = 2 => todo[1].nodes \in Fabric
      BY <2>0
    <3> QED BY <3>1, <3>2 DEF Latest
  <2>2. PICK m : m = todo[Len(todo)].msg
    OBVIOUS
  <2>3. Len(Pending) = 1 /\ Pending[1] = m /\ Tells(m, cache, Latest)
    BY <1>2, <2>2, PendingIs DEF Truthful
  <2>4. PICK q \in Seq(Message) : q = wire \o ch
    BY FlightIs
  <2>5. PICK p \in Seq(Message) : p = Pending
    BY FlightIs
  <2>6. Len(q \o p) = Len(q) + Len(p) /\ \A i \in 1 .. Len(q) + Len(p) :
          (q \o p)[i] = IF i <= Len(q) THEN q[i] ELSE p[i - Len(q)]
    BY ConcatProperties
  <2>7. Len(q) \in Nat /\ Len(p) = 1 /\ Flight = q \o p
    BY <2>3, <2>4, <2>5 DEF Flight
  <2>8. Len(q) + 1 \in 1 .. Len(q \o p) /\ (q \o p)[Len(q) + 1] = p[1]
    BY <2>6, <2>7
  <2>9. Len(q) + 1 \in 1 .. Len(Flight) /\ Flight[Len(q) + 1] = m
    BY <2>3, <2>5, <2>7, <2>8
  <2> QED BY <2>1, <2>3, <2>9
<1> QED BY <1>1, <1>2

\* A message is heard.
LEMMA UndisturbedHears ==
  ASSUME Typed, Handling, Truthful, Undisturbed, NEW types, Receive(types),
         view' = Applied(view, Head(wire)),
         gets' = IF Reloads(Head(wire)) THEN Append(gets, Asked) ELSE gets
  PROVE  Undisturbed'
<1>1. /\ Flight # <<>> /\ Head(Flight) = Head(wire) /\ Flight' = Tail(Flight)
      /\ stream = <<>> /\ UNCHANGED <<env, run, stream, page>> /\ Latest' = Latest
  BY FlightReceive
<1>2. page = "live" /\ stream # Opening
  BY <1>1, PageStates, StreamStates DEF Subscribed
<1>3. ASSUME env = {} PROVE LeadsTo(Flight', Latest', view', gets' # <<>>)
  <2>1. PICK loading \in BOOLEAN : loading = (gets # <<>>)
    OBVIOUS
  <2>2. LeadsTo(Flight, Latest, view, loading)
    BY <1>1, <1>3, <2>1 DEF Undisturbed, Subscribed
  <2>3. Flight \in Seq(Message) /\ Latest \in Fabric /\ view \in Fabric
    BY <1>3, FlightIs, LatestIs DEF Typed, TypeOK
  <2>4. LeadsTo(Tail(Flight), Latest, Applied(view, Head(Flight)), loading \/ Reloads(Head(Flight)))
    BY <1>1, <2>2, <2>3, NodesHeard
  <2>5. (gets' # <<>>) = (loading \/ Reloads(Head(Flight)))
    <3>1. gets \in Seq(Get) /\ Asked \in Get
      BY DEF Typed, Asked, Get
    <3>2. Append(gets, Asked) # <<>>
      BY <3>1, AppendProperties
    <3> QED BY <3>2, <2>1, <1>1 DEF Reloads
  <2> QED BY <1>1, <2>4, <2>5
<1>4. ASSUME env = {} PROVE \A k \in 1 .. Len(gets') : gets'[k] = Asked
  <2>1. gets \in Seq(Get) /\ Asked \in Get /\ \A k \in 1 .. Len(gets) : gets[k] = Asked
    BY <1>4 DEF Typed, Asked, Get, Undisturbed
  <2>2. PICK g \in Seq(Get) : g = Append(gets, Asked)
    BY <2>1, AppendProperties
  <2>3. Len(g) = Len(gets) + 1 /\ (\A k \in 1 .. Len(gets) : g[k] = gets[k]) /\ g[Len(gets) + 1] = Asked
        /\ Len(gets) \in Nat
    BY <2>1, <2>2, AppendProperties, LenProperties
  <2>4. \A k \in 1 .. Len(g) : g[k] = Asked
    BY <2>1, <2>3
  <2> QED BY <2>1, <2>2, <2>4
<1> QED BY <1>1, <1>2, <1>3, <1>4 DEF Undisturbed

LEMMA UndisturbedPage ==
  ASSUME Typed, Handling, Truthful, Undisturbed, PageNext
  PROVE  Undisturbed'
<1>1. CASE Load
  <2>1. page' = "loading" /\ gets' = <<Asked>> /\ stream' = stream /\ page = "start" /\ env' = env
    BY <1>1 DEF Load, events, PageUnchanged
  <2>2. stream' = NoStream
    BY <2>1 DEF Typed
  <2>3. Len(gets') = 1 /\ \A k \in 1 .. Len(gets') : gets'[k] = Asked
    BY <2>1
  <2> QED BY <2>1, <2>2, <2>3, StreamStates DEF Undisturbed, Subscribed
<1>2. CASE ConnectEvents
  <2>1. /\ page = "waiting" /\ page' = "live" /\ stream' = Opening
        /\ UNCHANGED <<env, view, gets, cache>>
    BY <1>2 DEF ConnectEvents, PageUnchanged, run
  <2> QED BY <2>1, StreamStates DEF Undisturbed, Subscribed
<1>3. CASE LoseStream
  BY <1>3 DEF LoseStream, Undisturbed
<1>4. CASE SetStatus
  <2>1. Receive({"status"}) /\ UNCHANGED <<view, gets>>
    BY <1>4 DEF SetStatus
  <2>2. Head(wire).type = "status"
    BY <2>1, FlightReceive
  <2> QED BY <2>1, <2>2, UndisturbedHears DEF Applied, Reloads
<1>5. CASE ApplyAttribute
  <2>1. Receive({"attribute"}) /\ gets' = gets
        /\ view' = IF view[Head(wire).id] = Absent THEN view ELSE [view EXCEPT ![Head(wire).id].value = Head(wire).value]
    BY <1>5 DEF ApplyAttribute
  <2>2. Head(wire).type = "attribute"
    BY <2>1, FlightReceive
  <2>3. view' = Applied(view, Head(wire))
    BY <2>1, <2>2 DEF Applied
  <2> QED BY <2>1, <2>2, <2>3, UndisturbedHears DEF Reloads
<1>6. CASE Reload
  <2>1. Receive({"node", "node_removed"}) /\ view' = view /\ gets' = Append(gets, Asked)
    BY <1>6 DEF Reload
  <2>2. Head(wire).type \in {"node", "node_removed"}
    BY <2>1, FlightReceive
  <2> QED BY <2>1, <2>2, UndisturbedHears DEF Applied, Reloads
<1>7. ASSUME NEW k \in DOMAIN gets, ServeNodes(k) PROVE Undisturbed'
  BY <1>7 DEF ServeNodes, PageUnchanged, Undisturbed
<1>8. ASSUME NEW k \in DOMAIN gets, LoadNodes(k) PROVE Undisturbed'
  <2>1. UNCHANGED <<env, run, events>> /\ gets' = RemoveAt(gets, k)
        /\ page' = (IF page = "loading" THEN "waiting" ELSE page)
    BY <1>8 DEF LoadNodes, PageUnchanged
  <2>2. Latest' = Latest /\ Flight' = Flight /\ stream' = stream /\ cache' = cache
    <3>1. Pending' = Pending /\ Latest' = Latest
      BY <2>1, HandlingStays
    <3> QED BY <2>1, <3>1 DEF Flight, events, run
  <2> SUFFICES ASSUME env = {} PROVE Undisturbed'
    BY <2>1 DEF Undisturbed
  <2>3. gets \in Seq(Get) /\ k \in 1 .. Len(gets) /\ \A i \in 1 .. Len(gets) : gets[i] = Asked
    BY LenProperties DEF Typed, Undisturbed
  <2>4. Len(gets) \in Nat \ {0} /\ gets # <<>>
    BY <2>3, EmptySeq
  <2>5. view' = cache
    BY <1>8, <2>3 DEF LoadNodes, Asked
  <2>6. gets \in Seq({Asked})
    BY <2>3
  <2>7. gets' \in Seq({Asked}) /\ Len(gets') = Len(gets) - 1
    BY <2>1, <2>3, <2>6, GetsRemain
  <2>8. \A i \in 1 .. Len(gets') : gets'[i] = Asked
    BY <2>7, ElementOfSeq
  <2>9. page # "waiting" /\ stream # Opening
    BY <2>4 DEF Undisturbed
  <2>10. ASSUME page = "loading" PROVE gets' = <<>> /\ page' = "waiting" /\ ~Subscribed
    <3>1. Len(gets') = 0
      BY <2>7, <2>10 DEF Undisturbed
    <3>2. \A g \in Seq({Asked}) : g # <<>> => Len(g) \in Nat \ {0}
      BY EmptySeq
    <3> QED BY <3>1, <3>2, <2>1, <2>7, <2>10, PageStates
  <2>11. Subscribed => LeadsTo(Flight, Latest, cache, gets' # <<>>)
    <3> SUFFICES ASSUME Subscribed PROVE LeadsTo(Flight, Latest, cache, gets' # <<>>)
      OBVIOUS
    <3>1. LeadsTo(Flight, Latest, view, gets # <<>>)
      BY DEF Undisturbed
    <3>2. PICK again : again = (gets' # <<>>)
      OBVIOUS
    <3>3. Latest \in Fabric /\ cache \in Fabric
      BY LatestIs DEF Typed, TypeOK
    <3>4. LeadsTo(Flight, Latest, cache, again)
      BY <3>1, <3>3, LatestIs, NodesLoaded
    <3> QED BY <3>2, <3>4
  <2>12. page # "loading" => page' = page
    BY <2>1
  <2> QED BY <2>2, <2>5, <2>8, <2>9, <2>10, <2>11, <2>12 DEF Undisturbed, Subscribed
<1> QED BY <1>1, <1>2, <1>3, <1>4, <1>5, <1>6, <1>7, <1>8 DEF PageNext

-----------------------------------------------------------------------------
LEMMA ConsoleInit == Init => ConsoleInv
<1> SUFFICES ASSUME Init PROVE ConsoleInv
  OBVIOUS
<1>1. Typed
  BY InitTyped
<1>2. todo = <<>> /\ todo \in Seq(Caching \cup Telling) /\ Len(todo) = 0 /\ stream = NoStream /\ page = "start"
      /\ gets = <<>>
  BY DEF Init
<1>3. \A i \in 1 .. Len(todo) : FALSE
  BY <1>2
<1>4. Handling /\ Truthful
  BY <1>2, <1>3 DEF Handling, Truthful
<1>5. Status /\ Undisturbed
  <2>1. \A i \in 1 .. Len(gets) : FALSE
    BY <1>2
  <2> QED BY <1>2, <2>1, StreamStates DEF Status, Undisturbed, Subscribed
<1> QED BY <1>1, <1>4, <1>5 DEF ConsoleInv

LEMMA ConsoleNext == ConsoleInv /\ [Next]_vars => ConsoleInv'
<1> SUFFICES ASSUME ConsoleInv, [Next]_vars PROVE ConsoleInv'
  OBVIOUS
<1> USE DEF ConsoleInv
<1>1. CASE Next
  <2>1. Typed'
    BY <1>1, TypedEvents, TypedStream, TypedPage DEF Next, RunNext, Begins
  <2>2. Handling' /\ Truthful'
    <3>1. CASE Begins
      BY <3>1, HandlingBegins
    <3>2. CASE Cache
      BY <3>2, HandlingCache
    <3>3. CASE Broadcast
      BY <3>3, HandlingBroadcast
    <3>4. CASE Subscribe \/ Snapshot \/ Write \/ PageNext
      <4>1. UNCHANGED <<env, run>>
        BY <3>4 DEF Subscribe, Snapshot, Write, ServeUnchanged, PageNext, Load, ConnectEvents, LoseStream,
                    SetStatus, ApplyAttribute, Reload, Receive, ServeNodes, LoadNodes, PageUnchanged
      <4> QED BY <4>1, HandlingStays
    <3> QED BY <1>1, <3>1, <3>2, <3>3, <3>4 DEF Next, RunNext, Begins
  <2>3. Status'
    BY <1>1, StatusNext
  <2>4. Undisturbed'
    BY <1>1, UndisturbedRun, UndisturbedStream, UndisturbedPage DEF Next, RunNext, Begins
  <2> QED BY <2>1, <2>2, <2>3, <2>4
<1>2. CASE UNCHANGED vars
  <2>1. UNCHANGED <<env, run, losses, events, client>>
    BY <1>2 DEF vars
  <2>2. Handling' /\ Truthful' /\ Pending' = Pending /\ Latest' = Latest
    BY <2>1, HandlingStays
  <2>3. Flight' = Flight
    BY <2>1, <2>2 DEF Flight, events
  <2>4. Typed'
    BY <2>1 DEF Typed, TypeOK, run, events, client
  <2>5. Status'
    BY <2>1, <2>3 DEF Status, Subscribed, run, events, client
  <2>6. Undisturbed'
    BY <2>1, <2>2, <2>3, UndisturbedStays DEF run, events, client
  <2> QED BY <2>2, <2>4, <2>5, <2>6
<1> QED BY <1>1, <1>2

\* The channel stays within its capacity and the page's nodes are nodes, in every
\* environment (bridge.go:117-145).
THEOREM ConsoleTypeCorrect == Spec => []TypeOK
<1>1. ConsoleInv => TypeOK
  BY DEF ConsoleInv, Typed
<1> QED BY <1>1, ConsoleInit, ConsoleNext, PTL DEF Spec

\* When everything has been told.
LEMMA FlightEmpty ==
  ASSUME ConsoleInv, CaughtUp
  PROVE  Len(Flight) = 0 /\ Latest = cache /\ Subscribed /\ (\A i \in 1 .. Len(Flight) : FALSE)
<1>1. todo = <<>> /\ wire = <<>> /\ ch = <<>> /\ stream = <<>>
  BY DEF CaughtUp
<1>2. Pending = <<>> /\ Latest = cache
  BY <1>1 DEF Pending, Latest
<1>3. (<<>> \o <<>>) \o <<>> = <<>> /\ Len(<<>>) = 0
  OBVIOUS
<1>4. Len(Flight) = 0
  BY <1>1, <1>2, <1>3 DEF Flight
<1> QED BY <1>1, <1>2, <1>4 DEF Subscribed

\* Whatever is dropped or lost of the nodes, and however often the stream breaks, a
\* page that has caught up shows whether a session is open, as long as its channel
\* does not overflow (httpserver.go:144-150).
THEOREM StatusIsLive == Spec => []StatusLive
<1>1. ConsoleInv => StatusLive
  <2> SUFFICES ASSUME ConsoleInv, OnlyMeets(Kinds \ {"overflow"}), CaughtUp PROVE shown = matter
    BY DEF StatusLive
  <2>1. "overflow" \notin env
    BY DEF OnlyMeets
  <2>2. stream = <<>>
    BY DEF CaughtUp
  <2>3. StatusTo(Flight, matter, shown)
    BY <2>1, <2>2 DEF ConsoleInv, Status
  <2> QED BY <2>3, FlightEmpty DEF StatusTo
<1> QED BY <1>1, ConsoleInit, ConsoleNext, PTL DEF Spec

\* While events are all that happens to the nodes (nothing dropped, overtaken, lost
\* or dumped), a page that has caught up shows them as the bridge has them
\* (bridge.go:329-361, index.html:684-696, 709-711).
THEOREM PageIsLive == Spec => []PageLive
<1>1. ConsoleInv => PageLive
  <2> SUFFICES ASSUME ConsoleInv, OnlyMeets({}), CaughtUp PROVE view = cache
    BY DEF PageLive
  <2>1. env = {}
    BY DEF OnlyMeets
  <2>2. gets = <<>> /\ Subscribed
    BY FlightEmpty DEF CaughtUp
  <2>3. LeadsTo(Flight, cache, view, gets # <<>>)
    BY <2>1, FlightEmpty DEF ConsoleInv, Undisturbed
  <2>4. \A id \in NodeIds : view[id] = cache[id]
    BY <2>2, <2>3, FlightEmpty DEF LeadsTo, Agrees
  <2>5. view \in Fabric /\ cache \in Fabric
    BY DEF ConsoleInv, Typed, TypeOK
  <2> QED BY <2>4, <2>5 DEF Fabric
<1> QED BY <1>1, ConsoleInit, ConsoleNext, PTL DEF Spec
=============================================================================
