------------------------- MODULE ReplicaCacheProofs -------------------------
(***************************************************************************)
(* Proofs about ReplicaCache for any tree of caches, any items and kinds,  *)
(* and any size of the channels.                                           *)
(***************************************************************************)
EXTENDS ReplicaCache, WellFoundedInduction, TLAPS

-----------------------------------------------------------------------------
(* The inductive invariant *)

\* What an item is after some events.
After(v, events, k) ==
    LET about == {i \in DOMAIN events : events[i].key = k}
    IN  IF about = {} THEN v ELSE events[CHOOSE i \in about : \A j \in about : j <= i].value

Initialized(n) == n \in initialized \cup {Backend}

\* A fan-out is initialized only by a cache that is readable and follows its
\* parent, and an event that is processed is emitted before the next one.
FanoutInv(c) ==
    /\ pc[c] \in {"loop", "emit"} => c \in initialized
    /\ pc[c] = "setInit" => c \in ok
    /\ c \in initialized => c \in ok /\ pc[c] \in {"loop", "emit", "closed"}
    /\ pc[c] = "emit" => Len(unsent[c]) = 1
    /\ pc[c] # "emit" => unsent[c] = << >>

\* The channel has events, after the init event, and a watcher of a fan-out
\* that is not initialized waits for that one.
QueueInv(c) ==
    /\ pc[c] \in {"start", "closed"} => conn[c] = "none" /\ queue[c] = << >>
    /\ pc[c] = "init" /\ queue[c] # << >> => Head(queue[c]) = OpInit /\ Tail(queue[c]) \in Seq(Events)
    /\ pc[c] # "init" => queue[c] \in Seq(Events)
    /\ conn[c] = "attached" /\ Initialized(Parent[c]) /\ pc[c] = "init" => queue[c] # << >>
    /\ conn[c] = "attached" /\ ~Initialized(Parent[c]) => pc[c] = "init" /\ queue[c] = << >>

\* Only a cache that nobody reads is applied to, and what was applied is what
\* was fetched.
ApplyInv(c) ==
    /\ pc[c] # "apply" => todo[c] = Idle
    /\ pc[c] \notin {"fetch", "apply"} => fetched[c].kinds = {}
    /\ pc[c] = "apply" =>
         /\ c \notin ok /\ c \notin reading /\ fetched[c].kinds = Kinds
         /\ \A k \in Keys : k \in todo[c].puts => Kind[k] \notin todo[c].kinds
         /\ \A k \in Keys : Kind[k] \notin todo[c].kinds /\ k \notin todo[c].puts =>
                              content[c][k] = fetched[c].items[k]

\* The events that are on the way to a cache.
Queued(c) == IF pc[c] = "init" /\ queue[c] # << >> THEN Tail(queue[c]) ELSE queue[c]
Pending(c) == Queued(c) \o unsent[Parent[c]]

\* The events that are on the way never contradict the parent, and take what a
\* cache has got from the parent to what the parent has.
SyncInv(c) ==
    conn[c] = "attached" =>
      \A k \in Keys :
        /\ After(content[Parent[c]][k], Pending(c), k) = content[Parent[c]][k]
        /\ pc[c] \in {"fetch", "apply"} /\ Kind[k] \in fetched[c].kinds =>
             After(fetched[c].items[k], Pending(c), k) = content[Parent[c]][k]
        /\ pc[c] \in {"setInit", "loop", "emit"} =>
             After(content[c][k], Pending(c), k) = content[Parent[c]][k]

\* Nor do those that a node has still to emit.
UnsentInv == \A n \in Nodes, k \in Keys : After(content[n][k], unsent[n], k) = content[n][k]

BaseInv == \A c \in Caches : FanoutInv(c) /\ QueueInv(c)
CacheInv == UnsentInv /\ \A c \in Caches : ApplyInv(c) /\ SyncInv(c)

-----------------------------------------------------------------------------
(* Events *)

\* A set of naturals that is not empty has a least element.
LEMMA Least ==
  ASSUME NEW S \in SUBSET Nat, S # {}
  PROVE  \E n \in S : \A m \in S : n <= m
  <1> DEFINE R == {ss \in Nat \X Nat : ss[1] < ss[2]}
  <1>1. OpToRel(<, Nat) = R
    BY Zenon DEF OpToRel
  <1>2. IsWellFoundedOn(R, Nat)
    BY <1>1, NatLessThanWellFounded, Zenon
  <1>3. \A x, y \in Nat : <<y, x>> \in R <=> y < x
    OBVIOUS
  <1> HIDE DEF R
  <1>4. PICK n \in S : \A m \in S : ~(<<m, n>> \in R)
    BY <1>2, WFMin
  <1>5. \A m \in S : ~(m < n)
    BY <1>3, <1>4, Zenon
  <1>6. \A m \in S : n <= m
    BY <1>5
  <1> QED BY <1>6

\* A set of indexes that is not empty has a greatest one.
LEMMA Greatest ==
  ASSUME NEW n \in Nat, NEW S \in SUBSET (1..n), S # {}
  PROVE  \E i \in S : \A j \in S : j <= i
  <1> DEFINE bounds == {m \in Nat : \A j \in S : j <= m}
  <1>1. bounds \in SUBSET Nat /\ n \in bounds
    OBVIOUS
  <1>2. PICK m \in bounds : \A b \in bounds : m <= b
    BY <1>1, Least
  <1>3. m \in S
    <2> SUFFICES ASSUME m \notin S PROVE FALSE
      OBVIOUS
    <2>1. PICK j \in S : TRUE
      OBVIOUS
    <2>2. m - 1 \in bounds
      BY <2>1
    <2> QED BY <1>2, <2>2
  <1> QED BY <1>2, <1>3

\* No event of a sequence is about an item, or one is the last of them.
NoneAbout(s, k) == \A j \in 1..Len(s) : s[j].key # k
LastAbout(s, k, i) == i \in 1..Len(s) /\ s[i].key = k /\ \A j \in 1..Len(s) : s[j].key = k => j <= i

\* The last event about an item decides what it is.
LEMMA AfterLast ==
  ASSUME NEW v, NEW s \in Seq(Events), NEW k, NEW i, LastAbout(s, k, i)
  PROVE  After(v, s, k) = s[i].value
  <1> DEFINE about == {j \in DOMAIN s : s[j].key = k}
  <1>1. i \in about /\ \A j \in about : j <= i
    BY DEF LastAbout
  <1>2. (CHOOSE h \in about : \A j \in about : j <= h) = i
    <2>1. \A h \in about : (\A j \in about : j <= h) => h = i
      BY <1>1
    <2> HIDE DEF about
    <2> QED BY <1>1, <2>1
  <1> QED BY <1>1, <1>2 DEF After

LEMMA AfterNone ==
  ASSUME NEW v, NEW s \in Seq(Events), NEW k, NoneAbout(s, k)
  PROVE  After(v, s, k) = v
  BY DEF After, NoneAbout

\* Either there is a last event about an item or there is none.
LEMMA AfterCases ==
  ASSUME NEW s \in Seq(Events), NEW k
  PROVE  NoneAbout(s, k) \/ \E i \in 1..Len(s) : LastAbout(s, k, i)
  <1> DEFINE about == {j \in 1..Len(s) : s[j].key = k}
  <1>1. CASE about = {}
    BY <1>1 DEF NoneAbout
  <1>2. CASE about # {}
    <2>1. Len(s) \in Nat /\ about \in SUBSET (1..Len(s))
      OBVIOUS
    <2>2. PICK i \in about : \A j \in about : j <= i
      BY <1>2, <2>1, Greatest
    <2> QED BY <2>2 DEF LastAbout
  <1> QED BY <1>1, <1>2

LEMMA AfterEmpty == ASSUME NEW v, NEW k PROVE After(v, << >>, k) = v
  BY DEF After

LEMMA AfterAppend ==
  ASSUME NEW v, NEW s \in Seq(Events), NEW e \in Events, NEW k
  PROVE  After(v, Append(s, e), k) = IF e.key = k THEN e.value ELSE After(v, s, k)
  <1> DEFINE t == Append(s, e)
  <1>1. /\ t \in Seq(Events) /\ Len(t) = Len(s) + 1 /\ t[Len(t)] = e
        /\ \A j \in 1..Len(s) : t[j] = s[j]
        /\ Len(s) \in Nat
    OBVIOUS
  <1> HIDE DEF t
  <1>2. CASE e.key = k
    <2>1. LastAbout(t, k, Len(t))
      BY <1>1, <1>2 DEF LastAbout
    <2>2. After(v, t, k) = t[Len(t)].value
      BY <1>1, <2>1, AfterLast
    <2> QED BY <1>1, <1>2, <2>2 DEF t
  <1>3. CASE e.key # k
    <2>1. CASE NoneAbout(s, k)
      <3>1. NoneAbout(t, k)
        BY <1>1, <1>3, <2>1 DEF NoneAbout
      <3> QED BY <1>1, <1>3, <2>1, <3>1, AfterNone DEF t
    <2>2. ASSUME NEW i \in 1..Len(s), LastAbout(s, k, i) PROVE After(v, t, k) = After(v, s, k)
      <3>1. LastAbout(t, k, i)
        BY <1>1, <1>3, <2>2 DEF LastAbout
      <3>2. After(v, t, k) = t[i].value
        BY <1>1, <3>1, AfterLast
      <3>3. After(v, s, k) = s[i].value
        BY <2>2, AfterLast
      <3> QED BY <1>1, <3>2, <3>3
    <2> QED BY <1>3, <2>1, <2>2, AfterCases DEF t
  <1> QED BY <1>2, <1>3

LEMMA AfterHead ==
  ASSUME NEW v, NEW s \in Seq(Events), s # << >>, NEW k
  PROVE  After(v, s, k) = After(IF Head(s).key = k THEN Head(s).value ELSE v, Tail(s), k)
  <1> DEFINE t == Tail(s)
             w == IF s[1].key = k THEN s[1].value ELSE v
  <1>1. /\ t \in Seq(Events) /\ Len(t) = Len(s) - 1 /\ Head(s) = s[1]
        /\ \A j \in 1..Len(t) : t[j] = s[j + 1]
        /\ Len(s) \in Nat /\ Len(s) > 0
    OBVIOUS
  <1> HIDE DEF t
  <1>2. CASE NoneAbout(t, k)
    <2>1. After(w, t, k) = w
      BY <1>1, <1>2, AfterNone
    <2>2. CASE s[1].key = k
      <3>1. LastAbout(s, k, 1)
        <4> SUFFICES ASSUME NEW j \in 1..Len(s), s[j].key = k, j > 1 PROVE FALSE
          BY <1>1, <2>2 DEF LastAbout
        <4>1. j - 1 \in 1..Len(t) /\ t[j - 1] = s[j]
          BY <1>1
        <4> QED BY <1>2, <4>1 DEF NoneAbout
      <3>2. After(v, s, k) = s[1].value
        BY <3>1, AfterLast
      <3> QED BY <1>1, <2>1, <2>2, <3>2 DEF t
    <2>3. CASE s[1].key # k
      <3>1. NoneAbout(s, k)
        <4> SUFFICES ASSUME NEW j \in 1..Len(s), s[j].key = k PROVE FALSE
          BY DEF NoneAbout
        <4>1. j - 1 \in 1..Len(t) /\ t[j - 1] = s[j]
          BY <1>1, <2>3
        <4> QED BY <1>2, <4>1 DEF NoneAbout
      <3>2. After(v, s, k) = v
        BY <3>1, AfterNone
      <3> QED BY <1>1, <2>1, <2>3, <3>2 DEF t
    <2> QED BY <2>2, <2>3
  <1>3. ASSUME NEW i \in 1..Len(t), LastAbout(t, k, i) PROVE After(v, s, k) = After(w, t, k)
    <2>1. After(w, t, k) = t[i].value
      BY <1>1, <1>3, AfterLast
    <2>2. i + 1 \in 1..Len(s) /\ s[i + 1].key = k
      BY <1>1, <1>3 DEF LastAbout
    <2>3. LastAbout(s, k, i + 1)
      <3> SUFFICES ASSUME NEW j \in 1..Len(s), s[j].key = k, j > 1 PROVE j <= i + 1
        BY <1>1, <1>3, <2>2 DEF LastAbout
      <3>1. j - 1 \in 1..Len(t) /\ t[j - 1] = s[j]
        BY <1>1
      <3> QED BY <1>3, <3>1 DEF LastAbout
    <2>4. After(v, s, k) = s[i + 1].value
      BY <2>3, AfterLast
    <2> QED BY <1>1, <2>1, <2>4
  <1> QED BY <1>1, <1>2, <1>3, AfterCases DEF t

\* Events that have led to a value lead to it from there, too.
LEMMA AfterAgain ==
  ASSUME NEW v, NEW s \in Seq(Events), NEW k
  PROVE  After(After(v, s, k), s, k) = After(v, s, k)
  <1>1. CASE NoneAbout(s, k)
    BY <1>1, AfterNone
  <1>2. ASSUME NEW i \in 1..Len(s), LastAbout(s, k, i)
        PROVE  After(After(v, s, k), s, k) = After(v, s, k)
    BY <1>2, AfterLast
  <1> QED BY <1>1, <1>2, AfterCases

LEMMA ReplayedFact ==
  ASSUME NEW items, NEW s
  PROVE  Replayed(items, s) = [k \in Keys |-> After(items[k], s, k)]
  BY DEF Replayed, After

LEMMA TailAppend ==
  ASSUME NEW S, NEW s \in Seq(S), s # << >>, NEW e \in S
  PROVE  Append(s, e) # << >> /\ Tail(Append(s, e)) = Append(Tail(s), e)
  OBVIOUS

LEMMA HeadConcat ==
  ASSUME NEW S, NEW s \in Seq(S), s # << >>, NEW t \in Seq(S)
  PROVE  s \o t # << >> /\ Head(s \o t) = Head(s) /\ Tail(s \o t) = Tail(s) \o t
  OBVIOUS

LEMMA TailOne ==
  ASSUME NEW S, NEW s \in Seq(S), Len(s) = 1
  PROVE  s # << >> /\ Tail(s) = << >>
  <1>1. s # << >>
    OBVIOUS
  <1> DEFINE t == Tail(s)
  <1>2. t \in Seq(S) /\ Len(t) = 0
    BY <1>1
  <1> HIDE DEF t
  <1>3. t = << >>
    BY <1>2
  <1> QED BY <1>1, <1>3 DEF t

LEMMA AppendConcat ==
  ASSUME NEW S, NEW s \in Seq(S), NEW t \in Seq(S), t # << >>
  PROVE  Append(s, Head(t)) \o Tail(t) = s \o t
  <1> DEFINE l == Append(s, Head(t)) \o Tail(t)
             r == s \o t
  <1>1. /\ Head(t) \in S /\ Tail(t) \in Seq(S) /\ Len(Tail(t)) = Len(t) - 1
        /\ Len(s) \in Nat /\ Len(t) \in Nat /\ Len(t) > 0 /\ Head(t) = t[1]
        /\ \A i \in 1..(Len(t) - 1) : Tail(t)[i] = t[i + 1]
    OBVIOUS
  <1>2. /\ Append(s, Head(t)) \in Seq(S) /\ Len(Append(s, Head(t))) = Len(s) + 1
        /\ \A i \in 1..(Len(s) + 1) : Append(s, Head(t))[i] = IF i <= Len(s) THEN s[i] ELSE Head(t)
    BY <1>1
  <1>3. /\ l \in Seq(S) /\ Len(l) = Len(s) + Len(t)
        /\ \A i \in 1..Len(l) : l[i] = IF i <= Len(s) + 1 THEN Append(s, Head(t))[i] ELSE Tail(t)[i - (Len(s) + 1)]
    BY <1>1, <1>2
  <1>4. /\ r \in Seq(S) /\ Len(r) = Len(s) + Len(t)
        /\ \A i \in 1..Len(r) : r[i] = IF i <= Len(s) THEN s[i] ELSE t[i - Len(s)]
    OBVIOUS
  <1> HIDE DEF l, r
  <1>5. ASSUME NEW i \in 1..(Len(s) + Len(t)) PROVE l[i] = r[i]
    <2>1. CASE i <= Len(s)
      BY <1>1, <1>2, <1>3, <1>4, <2>1
    <2>2. CASE i = Len(s) + 1
      <3>1. l[i] = Head(t)
        BY <1>1, <1>2, <1>3, <2>2
      <3>2. r[i] = t[1]
        BY <1>1, <1>4, <2>2
      <3> QED BY <1>1, <3>1, <3>2
    <2>3. CASE i > Len(s) + 1
      <3>1. i - (Len(s) + 1) \in 1..(Len(t) - 1) /\ i - (Len(s) + 1) + 1 = i - Len(s)
        BY <1>1, <2>3
      <3>2. l[i] = Tail(t)[i - (Len(s) + 1)]
        BY <1>1, <1>3, <2>3
      <3>3. Tail(t)[i - (Len(s) + 1)] = t[i - Len(s)]
        BY <1>1, <3>1
      <3>4. r[i] = t[i - Len(s)]
        BY <1>1, <1>4, <2>3
      <3> QED BY <3>2, <3>3, <3>4
    <2> QED BY <1>1, <2>1, <2>2, <2>3
  <1>6. l = r
    BY <1>3, <1>4, <1>5
  <1> QED BY <1>6 DEF l, r

-----------------------------------------------------------------------------
(* Where a read ends up *)

Readable(n) == n = Backend \/ n \in ok

\* A set of nodes that has, with a node that is not readable, the one it reads
\* from.
FallsWithin(S) == \A m \in S : m \in Nodes /\ (~Readable(m) => Parent[m] \in S)

\* The nodes that reads of n may come to.
Reaches(n, m) == \A S \in SUBSET Nodes : n \in S /\ FallsWithin(S) => m \in S

\* read() falls back until it comes to a node that is readable.
LEMMA ServingEquation ==
  Serving = [n \in Nodes |-> IF Readable(n) THEN n ELSE Serving[Parent[n]]]
  <1> DEFINE f == [n \in Nodes |-> CHOOSE m : m \in Nodes /\ Readable(m) /\ Reaches(n, m)]
  <1>1. ASSUME NEW n \in Nodes, Readable(n) PROVE f[n] = n
    <2>1. FallsWithin({n})
      BY <1>1 DEF FallsWithin
    <2>2. \A m : m \in Nodes /\ Readable(m) /\ Reaches(n, m) <=> m = n
      BY <1>1, <2>1 DEF Reaches
    <2> QED BY <2>2
  <1>2. ASSUME NEW n \in Nodes, ~Readable(n) PROVE f[n] = f[Parent[n]]
    <2>1. n \in Caches /\ Parent[n] \in Nodes
      BY <1>2, TreeAssumption DEF Readable, Nodes
    <2>2. ASSUME NEW m, Readable(m), Reaches(Parent[n], m) PROVE Reaches(n, m)
      <3> SUFFICES ASSUME NEW S \in SUBSET Nodes, n \in S, FallsWithin(S) PROVE m \in S
        BY DEF Reaches
      <3>1. Parent[n] \in S
        BY <1>2 DEF FallsWithin
      <3> QED BY <2>2, <3>1 DEF Reaches
    <2>3. ASSUME NEW m, Readable(m), Reaches(n, m) PROVE Reaches(Parent[n], m)
      <3> SUFFICES ASSUME NEW S \in SUBSET Nodes, Parent[n] \in S, FallsWithin(S) PROVE m \in S
        BY DEF Reaches
      <3>1. FallsWithin(S \cup {n}) /\ S \cup {n} \in SUBSET Nodes
        BY DEF FallsWithin
      <3>2. m \in S \cup {n}
        BY <2>3, <3>1 DEF Reaches
      <3> QED BY <1>2, <2>3, <3>2
    <2>4. \A m : m \in Nodes /\ Readable(m) /\ Reaches(n, m) <=> m \in Nodes /\ Readable(m) /\ Reaches(Parent[n], m)
      BY <2>2, <2>3
    <2>5. (CHOOSE m : m \in Nodes /\ Readable(m) /\ Reaches(n, m)) =
          (CHOOSE m : m \in Nodes /\ Readable(m) /\ Reaches(Parent[n], m))
      BY <2>4
    <2>6. f[n] = CHOOSE m : m \in Nodes /\ Readable(m) /\ Reaches(n, m)
      OBVIOUS
    <2>7. f[Parent[n]] = CHOOSE m : m \in Nodes /\ Readable(m) /\ Reaches(Parent[n], m)
      BY <2>1
    <2> HIDE DEF f
    <2> QED BY <2>5, <2>6, <2>7, Zenon
  <1> HIDE DEF f
  <1>3. f = [n \in Nodes |-> f[n]]
    BY DEF f
  <1>4. f = [n \in Nodes |-> IF n = Backend \/ n \in ok THEN n ELSE f[Parent[n]]]
    BY <1>1, <1>2, <1>3 DEF Readable
  <1> QED BY <1>4 DEF Serving, Readable

\* It comes to one, as there is no cycle.
LEMMA ServingFact ==
  ASSUME NEW n \in Nodes
  PROVE  Serving[n] \in Nodes /\ (Readable(n) => Serving[n] = n)
  <1>1. \A m \in Nodes : Readable(m) => Serving[m] = m
    BY ServingEquation
  <1>2. \A m \in Nodes : ~Readable(m) => m \in Caches /\ Serving[m] = Serving[Parent[m]]
    BY ServingEquation DEF Readable, Nodes
  <1> DEFINE lost == {c \in Caches : Serving[c] \notin Nodes}
  <1>3. lost = {}
    <2> SUFFICES ASSUME lost # {} PROVE FALSE
      OBVIOUS
    <2>1. lost \in SUBSET Caches
      OBVIOUS
    <2>2. PICK c \in lost : Parent[c] \notin lost
      BY <2>1, TreeAssumption
    <2>3. c \in Nodes /\ ~Readable(c) /\ Parent[c] \in Nodes
      BY <1>1, TreeAssumption DEF Nodes
    <2>4. Serving[Parent[c]] \in Nodes
      BY <1>1, <2>2, <2>3 DEF Nodes, Readable
    <2> QED BY <1>2, <2>3, <2>4
  <1> QED BY <1>1, <1>3 DEF Nodes, Readable

\* A cache is not its own parent.
LEMMA ParentFact ==
  ASSUME NEW c \in Caches
  PROVE  Parent[c] \in Nodes /\ Parent[c] # c /\ c \in Nodes /\ c # Backend
  <1>1. \A S \in SUBSET Caches : S # {} => \E d \in S : Parent[d] \notin S
    BY TreeAssumption
  <1>2. Parent[c] # c
    BY <1>1, {c} \in SUBSET Caches
  <1> QED BY <1>2, TreeAssumption DEF Nodes

-----------------------------------------------------------------------------
(* Types, the channels and the fan-outs *)

LEMMA EmptyTypes ==
  /\ Nothing \in Contents /\ Idle \in [kinds : SUBSET Kinds, puts : SUBSET Keys]
  /\ [kinds |-> {}, items |-> Nothing] \in [kinds : SUBSET Kinds, items : Contents]
  /\ \A k \in Keys : Kind[k] \in Kinds
  /\ << >> \in Seq(Events)
  BY DEF Nothing, Contents, Values, Idle, Kinds

\* A write or an event puts one item.
LEMMA ContentTypes ==
  ASSUME TypeOK, NEW n \in Nodes, NEW k \in Keys, NEW v \in Values
  PROVE  [content EXCEPT ![n][k] = v] \in [Nodes -> Contents]
  BY DEF TypeOK, Contents

LEMMA EmitToTypes ==
  ASSUME TypeOK, NEW n, NEW e \in Events, EmitTo(n, e)
  PROVE  /\ queue' \in [Caches -> Seq(Events \cup {OpInit})]
         /\ \A c \in Caches : Len(queue'[c]) <= QueueSize
         /\ conn' \in [Caches -> {"none", "attached", "detached", "done"}]
  <1>1. ASSUME NEW c \in Caches
        PROVE  /\ queue[c] \in Seq(Events \cup {OpInit}) /\ Append(queue[c], e) \in Seq(Events \cup {OpInit})
               /\ Len(queue[c]) \in Nat /\ Len(Append(queue[c], e)) = Len(queue[c]) + 1
    BY DEF TypeOK
  <1> QED BY <1>1, BoundAssumption DEF TypeOK, EmitTo

LEMMA CacheTypes ==
  ASSUME TypeOK, BaseInv, NEW c \in Caches, FetchAndWatch(c)
  PROVE  TypeOK'
  <1>1. CASE NewWatcher(c)
    <2> DEFINE q == IF Parent[c] \in initialized \cup {Backend} THEN <<OpInit>> ELSE << >>
    <2>0. /\ <<OpInit>> \in Seq(Events \cup {OpInit}) /\ Len(<<OpInit>>) <= QueueSize
          /\ << >> \in Seq(Events \cup {OpInit}) /\ Len(<< >>) <= QueueSize
      BY BoundAssumption
    <2>1. q \in Seq(Events \cup {OpInit}) /\ Len(q) <= QueueSize
      BY <2>0, Zenon
    <2>2. queue' = [queue EXCEPT ![c] = q]
      BY <1>1 DEF NewWatcher
    <2> HIDE DEF q
    <2>3. queue' \in [Caches -> Seq(Events \cup {OpInit})] /\ \A d \in Caches : Len(queue'[d]) <= QueueSize
      BY <2>1, <2>2 DEF TypeOK
    <2> QED BY <1>1, <2>3 DEF TypeOK, NewWatcher, Go
  <1>2. CASE ReceiveInit(c)
    <2>1. queue[c] \in Seq(Events \cup {OpInit}) /\ queue[c] # << >>
      BY <1>2 DEF TypeOK, ReceiveInit
    <2>2. Tail(queue[c]) \in Seq(Events \cup {OpInit}) /\ Len(Tail(queue[c])) <= Len(queue[c]) /\ Len(queue[c]) \in Nat
          /\ Len(Tail(queue[c])) \in Nat
      BY <2>1
    <2> QED BY <1>2, <2>2, BoundAssumption DEF TypeOK, ReceiveInit, Go
  <1>3. ASSUME NEW kind \in Kinds, Fetch(c, kind) PROVE TypeOK'
    <2>1. Serving[Parent[c]] \in Nodes
      BY ParentFact, ServingFact
    <2>2. content[Serving[Parent[c]]] \in Contents /\ fetched[c].items \in Contents /\ fetched[c].kinds \in SUBSET Kinds
      BY <2>1 DEF TypeOK
    <2> DEFINE new == [kinds |-> fetched[c].kinds \cup {kind},
                       items |-> [k \in Keys |-> IF Kind[k] = kind THEN content[Serving[Parent[c]]][k]
                                                                  ELSE fetched[c].items[k]]]
    <2>3. new \in [kinds : SUBSET Kinds, items : Contents]
      BY <2>2 DEF Contents
    <2>4. fetched' = [fetched EXCEPT ![c] = new]
      BY <1>3 DEF Fetch
    <2> QED BY <1>3, <2>3, <2>4 DEF TypeOK, Fetch
  <1>4. ASSUME NEW kind \in Kinds, ApplyErase(c, kind) PROVE TypeOK'
    <2> DEFINE erased == [k \in Keys |-> IF Kind[k] = kind THEN Absent ELSE content[c][k]]
               rest == [kinds |-> todo[c].kinds \ {kind},
                        puts |-> {k \in Keys : Kind[k] = kind /\ fetched[c].items[k] # Absent}]
    <2>1. erased \in Contents
      BY ParentFact DEF TypeOK, Contents, Values
    <2>2. rest \in [kinds : SUBSET Kinds, puts : SUBSET Keys]
      BY DEF TypeOK
    <2>3. content' = [content EXCEPT ![c] = erased] /\ todo' = [todo EXCEPT ![c] = rest]
      BY <1>4 DEF ApplyErase
    <2> QED BY <1>4, <2>1, <2>2, <2>3, ParentFact DEF TypeOK, ApplyErase
  <1>5. CASE BeginApply(c)
    BY <1>5 DEF TypeOK, BeginApply, Go
  <1>6. CASE EndApply(c)
    BY <1>6, EmptyTypes DEF TypeOK, EndApply, Go
  <1>7. CASE SetInit(c)
    <2>1. <<OpInit>> \in Seq(Events \cup {OpInit}) /\ Len(<<OpInit>>) <= QueueSize
      BY BoundAssumption
    <2>2. queue' \in [Caches -> Seq(Events \cup {OpInit})] /\ \A d \in Caches : Len(queue'[d]) <= QueueSize
      BY <1>7, <2>1 DEF TypeOK, SetInit
    <2> QED BY <1>7, <2>2 DEF TypeOK, SetInit, Go
  <1>8. ASSUME NEW k \in Keys, ApplyPut(c, k) PROVE TypeOK'
    <2>1. fetched[c].items[k] \in Values
      BY DEF TypeOK, Contents
    <2>2. content' \in [Nodes -> Contents]
      BY <1>8, <2>1, ContentTypes, ParentFact DEF ApplyPut
    <2>3. todo' \in [Caches -> [kinds : SUBSET Kinds, puts : SUBSET Keys]]
      BY <1>8 DEF TypeOK, ApplyPut
    <2> QED BY <1>8, <2>2, <2>3 DEF TypeOK, ApplyPut
  <1>9. CASE ProcessEvent(c)
    <2>1. queue[c] \in Seq(Events) /\ queue[c] # << >>
      BY <1>9 DEF ProcessEvent, BaseInv, QueueInv
    <2>2. /\ Head(queue[c]) \in Events /\ Tail(queue[c]) \in Seq(Events \cup {OpInit})
          /\ Len(Tail(queue[c])) \in Nat /\ Len(Tail(queue[c])) <= Len(queue[c]) /\ Len(queue[c]) \in Nat
      BY <2>1
    <2>3. Head(queue[c]).key \in Keys /\ Head(queue[c]).value \in Values /\ <<Head(queue[c])>> \in Seq(Events)
      BY <2>2 DEF Events
    <2>4. content' \in [Nodes -> Contents]
      BY <1>9, <2>3, ContentTypes, ParentFact DEF ProcessEvent
    <2> QED BY <1>9, <2>2, <2>3, <2>4, BoundAssumption, ParentFact DEF TypeOK, ProcessEvent, Go
  <1>10. CASE EmitCache(c)
    <2>1. Head(unsent[c]) \in Events
      BY <1>10, ParentFact DEF EmitCache, BaseInv, FanoutInv, TypeOK
    <2> QED BY <1>10, <2>1, EmitToTypes, EmptyTypes, ParentFact DEF TypeOK, EmitCache, Go
  <1>11. CASE Fail(c)
    BY <1>11, EmptyTypes, BoundAssumption DEF TypeOK, Fail, Fails, Fault, Taken, Go
  <1> QED BY <1>1, <1>2, <1>3, <1>4, <1>5, <1>6, <1>7, <1>8, <1>9, <1>10, <1>11 DEF FetchAndWatch

LEMMA NextTypes ==
  ASSUME TypeOK, BaseInv, [Next]_vars
  PROVE  TypeOK'
  <1>1. ASSUME NEW k \in Keys, NEW v \in Values, Write(k, v) PROVE TypeOK'
    <2>1. content' \in [Nodes -> Contents]
      BY <1>1, ContentTypes DEF Write, Nodes
    <2>2. [key |-> k, value |-> v] \in Events
      BY DEF Events
    <2> QED BY <1>1, <2>1, <2>2, BoundAssumption DEF TypeOK, Write, cacheState, Nodes
  <1>2. CASE EmitBackend
    <2>1. unsent[Backend] \in Seq(Events)
      BY DEF TypeOK, Nodes
    <2>2. Head(unsent[Backend]) \in Events /\ Tail(unsent[Backend]) \in Seq(Events)
      BY <1>2, <2>1 DEF EmitBackend
    <2> QED BY <1>2, <2>2, EmitToTypes DEF TypeOK, EmitBackend
  <1>3. ASSUME NEW c \in Caches,
               CloseWatcher(c) \/ Disconnect(c) \/ Close(c) \/ ReadBegin(c) \/ ReadRelease(c)
        PROVE  TypeOK'
    <2>1. CASE CloseWatcher(c) \/ Disconnect(c)
      <3>1. faults' \in 0..MaxFaults
        BY <2>1, BoundAssumption DEF TypeOK, CloseWatcher, Disconnect, Fault
      <3>2. conn' \in [Caches -> {"none", "attached", "detached", "done"}]
        BY <2>1 DEF TypeOK, CloseWatcher, Disconnect
      <3> QED BY <2>1, <3>1, <3>2 DEF TypeOK, CloseWatcher, Disconnect
    <2>2. CASE Close(c)
      BY <2>2, EmptyTypes, ParentFact, BoundAssumption DEF TypeOK, Close, Fault, Taken, Go
    <2>3. CASE ReadBegin(c) \/ ReadRelease(c)
      BY <2>3 DEF TypeOK, ReadBegin, ReadRelease, cacheState
    <2> QED BY <1>3, <2>1, <2>2, <2>3
  <1>4. CASE UNCHANGED vars
    BY <1>4 DEF TypeOK, vars, cacheState
  <1> QED BY <1>1, <1>2, <1>3, <1>4, CacheTypes DEF Next

\* What a step leaves alone of a cache and of its parent keeps its invariant.
LEMMA BaseKept ==
  ASSUME NEW d \in Caches, FanoutInv(d), QueueInv(d),
         pc'[d] = pc[d], unsent'[d] = unsent[d], queue'[d] = queue[d], conn'[d] \in {conn[d], "detached", "done"},
         pc[d] \in {"start", "closed"} => conn'[d] = conn[d],
         d \in initialized' <=> d \in initialized, d \in ok => d \in ok',
         Parent[d] \in initialized' <=> Parent[d] \in initialized
  PROVE  FanoutInv(d)' /\ QueueInv(d)'
  BY DEF FanoutInv, QueueInv, Initialized

\* Emit reaches the watchers that have had their init event, and no others.
LEMMA EmitToBase ==
  ASSUME TypeOK, BaseInv, NEW n \in Nodes, Initialized(n), NEW e \in Events, EmitTo(n, e),
         NEW d \in Caches, pc'[d] = pc[d], UNCHANGED <<initialized, ok>>
  PROVE  QueueInv(d)'
  <1>1. queue[d] \in Seq(Events \cup {OpInit}) /\ QueueInv(d)
    BY DEF TypeOK, BaseInv
  <1>2. CASE d \in Children(n) /\ conn[d] = "attached" /\ Len(queue[d]) < QueueSize
    <2>1. queue'[d] = Append(queue[d], e) /\ conn'[d] = conn[d] /\ Parent[d] = n
      BY <1>2 DEF EmitTo, Children, TypeOK
    <2>2. pc[d] = "init" => queue[d] # << >> /\ Head(queue[d]) = OpInit /\ Tail(queue[d]) \in Seq(Events)
      BY <1>1, <1>2, <2>1 DEF QueueInv
    <2>3. queue[d] # << >> => /\ Head(Append(queue[d], e)) = Head(queue[d])
                              /\ Tail(Append(queue[d], e)) = Append(Tail(queue[d]), e)
      BY <1>1
    <2>4. Append(queue[d], e) # << >> /\ (queue[d] \in Seq(Events) => Append(queue[d], e) \in Seq(Events))
      BY <1>1
    <2>5. Tail(queue[d]) \in Seq(Events) => Append(Tail(queue[d]), e) \in Seq(Events)
      OBVIOUS
    <2>6. pc[d] \notin {"start", "closed"}
      BY <1>1, <1>2 DEF QueueInv
    <2> QED BY <1>1, <1>2, <2>1, <2>2, <2>3, <2>4, <2>5, <2>6 DEF QueueInv, Initialized
  <1>3. CASE ~(d \in Children(n) /\ conn[d] = "attached" /\ Len(queue[d]) < QueueSize)
    <2>1. queue'[d] = queue[d] /\ conn'[d] \in {conn[d], "done"} /\ (conn[d] = "none" => conn'[d] = conn[d])
      BY <1>3 DEF EmitTo, TypeOK
    <2> QED BY <1>1, <2>1 DEF QueueInv, Initialized
  <1> QED BY <1>2, <1>3

LEMMA BaseCache ==
  ASSUME TypeOK, BaseInv, NEW c \in Caches, FetchAndWatch(c), NEW d \in Caches
  PROVE  FanoutInv(d)' /\ QueueInv(d)'
  <1>0. FanoutInv(c) /\ QueueInv(c) /\ FanoutInv(d) /\ QueueInv(d)
    BY DEF BaseInv
  <1>a. Parent[c] # c /\ Parent[d] # d /\ c # Backend /\ d # Backend
    BY ParentFact
  <1>b. << >> \in Seq(Events)
    BY EmptyTypes
  <1>1. CASE NewWatcher(c)
    <2>1. CASE d = c
      <3>1. /\ pc[c] = "start" /\ pc'[c] = "init" /\ UNCHANGED <<unsent, initialized, ok>>
            /\ queue'[c] = IF Initialized(Parent[c]) THEN <<OpInit>> ELSE << >>
        BY <1>1 DEF NewWatcher, Go, TypeOK, Initialized
      <3>2. <<OpInit>> # << >> /\ Head(<<OpInit>>) = OpInit /\ Tail(<<OpInit>>) = << >>
        OBVIOUS
      <3> QED BY <1>0, <1>b, <2>1, <3>1, <3>2 DEF FanoutInv, QueueInv, Initialized
    <2>2. CASE d # c
      BY <1>0, <1>1, <2>2, BaseKept DEF NewWatcher, Go, TypeOK
    <2> QED BY <2>1, <2>2
  <1>2. CASE ReceiveInit(c)
    <2>1. CASE d = c
      <3>1. /\ pc[c] = "init" /\ pc'[c] = "fetch" /\ UNCHANGED <<unsent, initialized, ok, conn>>
            /\ queue[c] # << >> /\ queue'[c] = Tail(queue[c])
        BY <1>2 DEF ReceiveInit, Go, TypeOK
      <3> QED BY <1>0, <2>1, <3>1 DEF FanoutInv, QueueInv, Initialized
    <2>2. CASE d # c
      BY <1>0, <1>2, <2>2, BaseKept DEF ReceiveInit, Go, TypeOK
    <2> QED BY <2>1, <2>2
  <1>3. ASSUME NEW kind \in Kinds, Fetch(c, kind) \/ ApplyErase(c, kind)
        PROVE  FanoutInv(d)' /\ QueueInv(d)'
    BY <1>0, <1>3, BaseKept DEF Fetch, ApplyErase
  <1>4. CASE BeginApply(c) \/ EndApply(c)
    BY <1>0, <1>4 DEF BeginApply, EndApply, Go, TypeOK, FanoutInv, QueueInv, Initialized
  <1>5. CASE SetInit(c)
    <2>1. /\ pc[c] = "setInit" /\ pc' = [pc EXCEPT ![c] = "loop"] /\ UNCHANGED <<unsent, conn, ok>>
          /\ initialized' = initialized \cup {c}
          /\ queue'[d] = IF Parent[d] = c /\ conn[d] = "attached" THEN <<OpInit>> ELSE queue[d]
      BY <1>5 DEF SetInit, Go
    <2>2. CASE Parent[d] = c /\ conn[d] = "attached"
      <3>1. pc[d] = "init" /\ pc'[d] = "init"
        BY <1>0, <1>a, <2>1, <2>2 DEF FanoutInv, QueueInv, Initialized, TypeOK
      <3>2. <<OpInit>> # << >> /\ Head(<<OpInit>>) = OpInit /\ Tail(<<OpInit>>) = << >>
        OBVIOUS
      <3> QED BY <1>0, <1>b, <2>1, <2>2, <3>1, <3>2 DEF FanoutInv, QueueInv, Initialized
    <2>3. CASE ~(Parent[d] = c /\ conn[d] = "attached")
      BY <1>0, <1>a, <2>1, <2>3 DEF FanoutInv, QueueInv, Initialized, TypeOK
    <2> QED BY <2>2, <2>3
  <1>6. ASSUME NEW k \in Keys, ApplyPut(c, k) PROVE FanoutInv(d)' /\ QueueInv(d)'
    BY <1>0, <1>6, BaseKept DEF ApplyPut
  <1>7. CASE ProcessEvent(c)
    <2>1. CASE d = c
      <3>1. /\ pc[c] = "loop" /\ pc'[c] = "emit" /\ UNCHANGED <<initialized, ok, conn>>
            /\ queue[c] # << >> /\ queue'[c] = Tail(queue[c]) /\ unsent'[c] = <<Head(queue[c])>>
        BY <1>7, ParentFact DEF ProcessEvent, Go, TypeOK
      <3>2. Tail(queue[c]) \in Seq(Events)
        BY <1>0, <3>1 DEF QueueInv
      <3> QED BY <1>0, <2>1, <3>1, <3>2 DEF FanoutInv, QueueInv, Initialized
    <2>2. CASE d # c
      BY <1>0, <1>7, <2>2, BaseKept, ParentFact DEF ProcessEvent, Go, TypeOK
    <2> QED BY <2>1, <2>2
  <1>8. CASE EmitCache(c)
    <2>1. Head(unsent[c]) \in Events /\ Initialized(c) /\ EmitTo(c, Head(unsent[c])) /\ UNCHANGED <<initialized, ok>>
      BY <1>0, <1>8, ParentFact DEF EmitCache, FanoutInv, TypeOK, Initialized
    <2>2. FanoutInv(d)'
      BY <1>0, <1>8, ParentFact DEF EmitCache, FanoutInv, Go, TypeOK
    <2>3. CASE d # c
      <3>1. pc'[d] = pc[d]
        BY <1>8, <2>3 DEF EmitCache, Go, TypeOK
      <3> QED BY <2>1, <2>2, <3>1, EmitToBase, ParentFact
    <2>4. CASE d = c
      <3>1. c \notin Children(c) /\ pc[c] = "emit" /\ pc'[c] = "loop"
        BY <1>8, <1>a DEF Children, EmitCache, Go, TypeOK
      <3>2. queue'[c] = queue[c] /\ conn'[c] = conn[c]
        BY <2>1, <3>1 DEF EmitTo
      <3> QED BY <1>0, <2>1, <2>2, <2>4, <3>1, <3>2 DEF QueueInv, Initialized
    <2> QED BY <2>3, <2>4
  <1>9. CASE Fail(c)
    <2>1. /\ pc[c] \in {"init", "fetch", "apply", "loop"} /\ pc' = [pc EXCEPT ![c] = "start"]
          /\ conn' = [IF pc[c] = "loop" THEN Taken(c) ELSE conn EXCEPT ![c] = "none"]
          /\ queue' = [queue EXCEPT ![c] = << >>] /\ UNCHANGED <<unsent, ok>>
          /\ initialized' = initialized \ {c}
      BY <1>9 DEF Fail, Fails, Go
    <2>2. CASE d = c
      <3>1. conn'[c] = "none" /\ queue'[c] = << >> /\ pc'[c] = "start"
        BY <2>1 DEF Taken, TypeOK
      <3> QED BY <1>0, <1>b, <2>1, <2>2, <3>1 DEF FanoutInv, QueueInv, Initialized
    <2>3. CASE d # c
      <3>1. /\ pc'[d] = pc[d] /\ queue'[d] = queue[d]
            /\ conn'[d] = IF pc[c] = "loop" /\ Parent[d] = c /\ conn[d] = "attached" THEN "detached" ELSE conn[d]
        BY <2>1, <2>3 DEF Taken, TypeOK
      <3>2. pc[c] # "loop" => c \notin initialized
        BY <1>0, <2>1 DEF FanoutInv
      <3> QED BY <1>0, <1>a, <2>1, <2>3, <3>1, <3>2 DEF FanoutInv, QueueInv, Initialized
    <2> QED BY <2>2, <2>3
  <1> QED BY <1>1, <1>2, <1>3, <1>4, <1>5, <1>6, <1>7, <1>8, <1>9 DEF FetchAndWatch

LEMMA BaseStep ==
  ASSUME TypeOK, BaseInv, [Next]_vars
  PROVE  BaseInv'
  <1> SUFFICES ASSUME NEW d \in Caches PROVE FanoutInv(d)' /\ QueueInv(d)'
    BY DEF BaseInv
  <1>0. FanoutInv(d) /\ QueueInv(d) /\ d # Backend /\ Parent[d] # d
    BY ParentFact DEF BaseInv
  <1>1. ASSUME NEW k \in Keys, NEW v \in Values, Write(k, v) PROVE FanoutInv(d)' /\ QueueInv(d)'
    BY <1>0, <1>1, BaseKept, ParentFact DEF Write, cacheState, TypeOK
  <1>2. CASE EmitBackend
    <2>1. unsent[Backend] \in Seq(Events) /\ Backend \in Nodes /\ Initialized(Backend)
      BY DEF TypeOK, Nodes, Initialized
    <2>2. Head(unsent[Backend]) \in Events /\ EmitTo(Backend, Head(unsent[Backend]))
          /\ UNCHANGED <<initialized, ok, pc>>
      BY <1>2, <2>1 DEF EmitBackend
    <2>3. FanoutInv(d)'
      BY <1>0, <1>2, ParentFact DEF EmitBackend, FanoutInv, TypeOK
    <2> QED BY <2>1, <2>2, <2>3, EmitToBase
  <1>3. ASSUME NEW c \in Caches,
               CloseWatcher(c) \/ Disconnect(c) \/ Close(c) \/ ReadBegin(c) \/ ReadRelease(c)
        PROVE  FanoutInv(d)' /\ QueueInv(d)'
    <2>1. CASE CloseWatcher(c) \/ Disconnect(c)
      BY <1>0, <2>1 DEF CloseWatcher, Disconnect, TypeOK, FanoutInv, QueueInv, Initialized
    <2>2. CASE Close(c)
      <3>1. /\ pc' = [pc EXCEPT ![c] = "closed"] /\ queue' = [queue EXCEPT ![c] = << >>]
            /\ unsent' = [unsent EXCEPT ![c] = << >>] /\ conn' = [Taken(c) EXCEPT ![c] = "none"]
            /\ UNCHANGED <<ok, initialized>>
        BY <2>2 DEF Close, Go
      <3>2. CASE d = c
        <4>1. conn'[c] = "none" /\ queue'[c] = << >> /\ pc'[c] = "closed" /\ unsent'[c] = << >>
          BY <3>1, ParentFact DEF Taken, TypeOK
        <4> QED BY <1>0, <3>1, <3>2, <4>1, EmptyTypes DEF FanoutInv, QueueInv, Initialized
      <3>3. CASE d # c
        <4>1. /\ conn'[d] = IF Parent[d] = c /\ conn[d] = "attached" THEN "detached" ELSE conn[d]
              /\ pc'[d] = pc[d] /\ queue'[d] = queue[d] /\ unsent'[d] = unsent[d]
          BY <3>1, <3>3, ParentFact DEF Taken, TypeOK
        <4> QED BY <1>0, <3>1, <4>1 DEF FanoutInv, QueueInv, Initialized
      <3> QED BY <3>2, <3>3
    <2>3. CASE ReadBegin(c) \/ ReadRelease(c)
      BY <1>0, <2>3, BaseKept DEF ReadBegin, ReadRelease, cacheState
    <2> QED BY <1>3, <2>1, <2>2, <2>3
  <1>4. CASE UNCHANGED vars
    BY <1>0, <1>4, BaseKept DEF vars, cacheState
  <1> QED BY <1>1, <1>2, <1>3, <1>4, BaseCache DEF Next

-----------------------------------------------------------------------------
(* apply *)

LEMMA ApplyKept ==
  ASSUME NEW d \in Caches, ApplyInv(d), pc'[d] = pc[d], todo'[d] = todo[d], fetched'[d] = fetched[d],
         content'[d] = content[d], d \in ok' <=> d \in ok, d \in reading' => d \in ok \cup reading
  PROVE  ApplyInv(d)'
  BY DEF ApplyInv, Idle

LEMMA ApplyStep ==
  ASSUME TypeOK, BaseInv, [Next]_vars, NEW d \in Caches, ApplyInv(d)
  PROVE  ApplyInv(d)'
  <1>0. /\ QueueInv(d) /\ d # Backend /\ d \in Nodes
        /\ todo[d] \in [kinds : SUBSET Kinds, puts : SUBSET Keys]
        /\ fetched[d] \in [kinds : SUBSET Kinds, items : Contents]
    BY ParentFact DEF BaseInv, TypeOK
  <1>1. ASSUME NEW k \in Keys, NEW v \in Values, Write(k, v) PROVE ApplyInv(d)'
    BY <1>0, <1>1, ApplyKept DEF Write, cacheState, TypeOK
  <1>2. CASE EmitBackend
    BY <1>0, <1>2, ApplyKept DEF EmitBackend
  <1>3. ASSUME NEW c \in Caches, c # d, Next,
               FetchAndWatch(c) \/ CloseWatcher(c) \/ Disconnect(c) \/ Close(c) \/ ReadBegin(c) \/ ReadRelease(c)
        PROVE  ApplyInv(d)'
    <2>1. CASE NewWatcher(c) \/ ReceiveInit(c) \/ EmitCache(c) \/ CloseWatcher(c) \/ Disconnect(c)
      BY <1>3, <2>1, ApplyKept DEF NewWatcher, ReceiveInit, EmitCache, CloseWatcher, Disconnect, Go, TypeOK
    <2>2. ASSUME NEW kind \in Kinds, Fetch(c, kind) \/ ApplyErase(c, kind) PROVE ApplyInv(d)'
      BY <1>0, <1>3, <2>2, ApplyKept DEF Fetch, ApplyErase, TypeOK
    <2>3. CASE BeginApply(c) \/ EndApply(c) \/ SetInit(c)
      BY <1>3, <2>3, ApplyKept DEF BeginApply, EndApply, SetInit, Go, TypeOK
    <2>4. ASSUME NEW k \in Keys, ApplyPut(c, k) PROVE ApplyInv(d)'
      BY <1>0, <1>3, <2>4, ApplyKept DEF ApplyPut, TypeOK
    <2>5. CASE ProcessEvent(c)
      BY <1>0, <1>3, <2>5, ApplyKept DEF ProcessEvent, Go, TypeOK
    <2>6. CASE Fail(c) \/ Close(c)
      BY <1>3, <2>6, ApplyKept DEF Fail, Close, Go, TypeOK
    <2>7. CASE ReadBegin(c) \/ ReadRelease(c)
      BY <1>3, <2>7, ApplyKept DEF ReadBegin, ReadRelease, cacheState
    <2> QED BY <1>3, <2>1, <2>2, <2>3, <2>4, <2>5, <2>6, <2>7 DEF FetchAndWatch
  <1>4. ASSUME FetchAndWatch(d) PROVE ApplyInv(d)'
    <2>1. CASE NewWatcher(d) \/ ReceiveInit(d) \/ EmitCache(d) \/ SetInit(d)
      BY <2>1 DEF NewWatcher, ReceiveInit, EmitCache, SetInit, Go, TypeOK, ApplyInv
    <2>2. ASSUME NEW kind \in Kinds, Fetch(d, kind) PROVE ApplyInv(d)'
      BY <2>2 DEF Fetch, ApplyInv
    <2>3. ASSUME NEW kind \in Kinds, ApplyErase(d, kind) PROVE ApplyInv(d)'
      <3>1. /\ pc[d] = "apply" /\ UNCHANGED <<pc, fetched, ok, reading>>
            /\ todo'[d].kinds = todo[d].kinds \ {kind} /\ todo[d].puts = {}
            /\ todo'[d].puts = {k \in Keys : Kind[k] = kind /\ fetched[d].items[k] # Absent}
            /\ content'[d] = [k \in Keys |-> IF Kind[k] = kind THEN Absent ELSE content[d][k]]
        BY <1>0, <2>3 DEF ApplyErase, TypeOK
      <3> QED BY <3>1 DEF ApplyInv
    <2>4. CASE BeginApply(d)
      <3>1. /\ pc'[d] = "apply" /\ fetched[d].kinds = Kinds /\ d \notin reading /\ d \notin ok'
            /\ todo'[d] = [kinds |-> Kinds, puts |-> {}] /\ UNCHANGED <<fetched, reading>>
        BY <2>4 DEF BeginApply, Go, TypeOK
      <3> QED BY <3>1, EmptyTypes DEF ApplyInv
    <2>5. CASE EndApply(d)
      BY <2>5 DEF EndApply, Go, TypeOK, ApplyInv
    <2>6. ASSUME NEW k \in Keys, ApplyPut(d, k) PROVE ApplyInv(d)'
      <3>1. pc[d] = "apply"
        BY <2>6 DEF ApplyPut, ApplyInv, Idle
      <3>2. /\ UNCHANGED <<pc, fetched, ok, reading>> /\ k \in todo[d].puts
            /\ todo'[d].kinds = todo[d].kinds /\ todo'[d].puts = todo[d].puts \ {k}
            /\ content'[d] = [content[d] EXCEPT ![k] = fetched[d].items[k]]
            /\ content[d] \in [Keys -> Values]
        BY <1>0, <2>6 DEF ApplyPut, TypeOK, Contents
      <3> QED BY <3>1, <3>2 DEF ApplyInv
    <2>7. CASE ProcessEvent(d)
      BY <2>7 DEF ProcessEvent, Go, TypeOK, ApplyInv
    <2>8. CASE Fail(d)
      BY <2>8 DEF Fail, Go, TypeOK, ApplyInv
    <2> QED BY <1>4, <2>1, <2>2, <2>3, <2>4, <2>5, <2>6, <2>7, <2>8 DEF FetchAndWatch
  <1>5. CASE CloseWatcher(d) \/ Disconnect(d)
    BY <1>5, ApplyKept DEF CloseWatcher, Disconnect
  <1>6. CASE Close(d)
    BY <1>6 DEF Close, Go, TypeOK, ApplyInv
  <1>7. CASE ReadBegin(d) \/ ReadRelease(d)
    BY <1>7 DEF ReadBegin, ReadRelease, cacheState, ApplyInv
  <1>8. CASE UNCHANGED vars
    BY <1>8, ApplyKept DEF vars, cacheState
  <1> QED BY <1>1, <1>2, <1>3, <1>4, <1>5, <1>6, <1>7, <1>8 DEF Next

-----------------------------------------------------------------------------
(* The copy of a cache and the events on the way to it *)

\* Every event in a channel, and on the way, is one.
LEMMA PendingTypes ==
  ASSUME TypeOK, BaseInv, NEW c \in Caches
  PROVE  Queued(c) \in Seq(Events) /\ unsent[Parent[c]] \in Seq(Events) /\ Pending(c) \in Seq(Events)
  <1>1. Queued(c) \in Seq(Events)
    BY EmptyTypes DEF BaseInv, QueueInv, Queued
  <1>2. unsent[Parent[c]] \in Seq(Events)
    BY ParentFact DEF TypeOK
  <1> QED BY <1>1, <1>2 DEF Pending

LEMMA SyncKept ==
  ASSUME NEW d \in Caches, SyncInv(d), conn'[d] = "attached" => conn[d] = "attached",
         pc'[d] = pc[d], queue'[d] = queue[d], fetched'[d] = fetched[d], content'[d] = content[d],
         content'[Parent[d]] = content[Parent[d]], unsent'[Parent[d]] = unsent[Parent[d]]
  PROVE  SyncInv(d)'
  <1>1. Pending(d)' = Pending(d)
    BY DEF Pending, Queued
  <1> QED BY <1>1 DEF SyncInv

\* The parent puts an item and the event goes to the end of what is on the way.
LEMMA SyncParent ==
  ASSUME TypeOK, BaseInv, NEW d \in Caches, SyncInv(d), NEW e \in Events,
         conn'[d] = conn[d], pc'[d] = pc[d], queue'[d] = queue[d], fetched'[d] = fetched[d],
         content'[d] = content[d],
         content'[Parent[d]] = [content[Parent[d]] EXCEPT ![e.key] = e.value],
         unsent'[Parent[d]] = Append(unsent[Parent[d]], e)
  PROVE  SyncInv(d)'
  <1>1. Queued(d) \in Seq(Events) /\ unsent[Parent[d]] \in Seq(Events) /\ Pending(d) \in Seq(Events)
    BY PendingTypes
  <1>2. Pending(d)' = Append(Pending(d), e)
    <2>1. Queued(d)' = Queued(d)
      BY DEF Queued
    <2>2. Queued(d) \o Append(unsent[Parent[d]], e) = Append(Queued(d) \o unsent[Parent[d]], e)
      BY <1>1
    <2> QED BY <2>1, <2>2 DEF Pending
  <1>3. content[Parent[d]] \in [Keys -> Values]
    BY ParentFact DEF TypeOK, Contents
  <1>4. ASSUME NEW k \in Keys, NEW v, After(v, Pending(d), k) = content[Parent[d]][k]
        PROVE  After(v, Pending(d)', k) = content'[Parent[d]][k]
    BY <1>1, <1>2, <1>3, <1>4, AfterAppend
  <1>5. ASSUME NEW k \in Keys, conn[d] = "attached"
        PROVE  After(content'[Parent[d]][k], Pending(d)', k) = content'[Parent[d]][k]
    <2>1. After(content[Parent[d]][k], Pending(d), k) = content[Parent[d]][k]
      BY <1>5 DEF SyncInv
    <2> QED BY <1>1, <1>2, <1>3, <2>1, AfterAppend
  <1> QED BY <1>4, <1>5 DEF SyncInv

\* The parent emits the next event.
LEMMA SyncEmit ==
  ASSUME TypeOK, BaseInv, NEW d \in Caches, SyncInv(d), NEW n \in Nodes, unsent[n] # << >>,
         Initialized(n), EmitTo(n, Head(unsent[n])), unsent' = [unsent EXCEPT ![n] = Tail(@)],
         pc'[d] = pc[d] \/ (pc[d] = "emit" /\ pc'[d] = "loop"), UNCHANGED <<content, fetched>>
  PROVE  SyncInv(d)'
  <1> SUFFICES ASSUME conn'[d] = "attached" PROVE SyncInv(d)'
    BY DEF SyncInv
  <1>1. Queued(d) \in Seq(Events) /\ unsent[Parent[d]] \in Seq(Events) /\ Pending(d) \in Seq(Events)
        /\ queue[d] \in Seq(Events \cup {OpInit})
    BY PendingTypes DEF TypeOK
  <1>2. conn[d] = "attached"
    BY DEF EmitTo, TypeOK
  <1>3. Pending(d)' = Pending(d)
    <2>1. CASE Parent[d] # n
      <3>1. queue'[d] = queue[d] /\ unsent'[Parent[d]] = unsent[Parent[d]]
        BY <2>1, ParentFact DEF EmitTo, Children, TypeOK
      <3> QED BY <3>1 DEF Pending, Queued
    <2>2. CASE Parent[d] = n
      <3> DEFINE e == Head(unsent[n])
      <3>1. queue'[d] = Append(queue[d], e) /\ unsent'[n] = Tail(unsent[n])
        BY <1>2, <2>2, ParentFact DEF EmitTo, Children, TypeOK
      <3>2. e \in Events /\ unsent[n] \in Seq(Events)
        BY <1>1, <2>2
      <3> HIDE DEF e
      <3>3. Queued(d)' = Append(Queued(d), e)
        <4>1. CASE pc[d] = "init"
          <5>1. queue[d] # << >>
            BY <1>2, <2>2, <4>1 DEF BaseInv, QueueInv
          <5>2. Append(queue[d], e) # << >> /\ Tail(Append(queue[d], e)) = Append(Tail(queue[d]), e)
            <6>1. queue[d] \in Seq(Events \cup {OpInit}) /\ e \in Events \cup {OpInit}
              BY <1>1, <3>2
            <6> QED BY <5>1, <6>1, TailAppend
          <5> QED BY <3>1, <4>1, <5>1, <5>2 DEF Queued
        <4>2. CASE pc[d] # "init"
          BY <3>1, <4>2 DEF Queued
        <4> QED BY <4>1, <4>2
      <3>4. Append(Queued(d), e) \o Tail(unsent[n]) = Queued(d) \o unsent[n]
        BY <1>1, <3>2, AppendConcat DEF e
      <3> QED BY <2>2, <3>1, <3>2, <3>3, <3>4 DEF Pending
    <2> QED BY <2>1, <2>2
  <1> QED BY <1>2, <1>3 DEF SyncInv

\* What a node emits is what it has.
LEMMA UnsentStep ==
  ASSUME TypeOK, BaseInv, CacheInv, [Next]_vars
  PROVE  UnsentInv'
  <1>0. /\ unsent \in [Nodes -> Seq(Events)] /\ content \in [Nodes -> [Keys -> Values]] /\ Backend \in Nodes
        /\ \A c \in Caches : c \in Nodes
    BY DEF TypeOK, Contents, Nodes
  <1>1. CASE UNCHANGED <<content, unsent>>
    BY <1>1 DEF CacheInv, UnsentInv
  <1>2. ASSUME NEW n \in Nodes, NEW e \in Events,
               content' = [content EXCEPT ![n][e.key] = e.value],
               unsent' = [unsent EXCEPT ![n] = Append(@, e)]
        PROVE  UnsentInv'
    <2>1. ASSUME NEW k \in Keys PROVE After(content'[n][k], unsent'[n], k) = content'[n][k]
      <3>1. /\ content'[n] = [content[n] EXCEPT ![e.key] = e.value] /\ content[n] \in [Keys -> Values]
            /\ unsent'[n] = Append(unsent[n], e) /\ unsent[n] \in Seq(Events)
            /\ After(content[n][k], unsent[n], k) = content[n][k]
        BY <1>0, <1>2 DEF CacheInv, UnsentInv
      <3> QED BY <3>1, AfterAppend
    <2> QED BY <1>0, <1>2, <2>1 DEF CacheInv, UnsentInv
  <1>3. ASSUME NEW k \in Keys, NEW v \in Values, Write(k, v) PROVE UnsentInv'
    <2>1. [key |-> k, value |-> v] \in Events
      BY DEF Events
    <2> QED BY <1>0, <1>2, <1>3, <2>1 DEF Write
  <1>4. CASE EmitBackend
    <2> DEFINE u == unsent[Backend]
    <2>1. u \in Seq(Events) /\ u # << >> /\ Tail(u) \in Seq(Events)
      BY <1>0, <1>4 DEF EmitBackend
    <2>2. content' = content /\ unsent' = [unsent EXCEPT ![Backend] = Tail(u)]
      BY <1>4 DEF EmitBackend
    <2> HIDE DEF u
    <2>3. ASSUME NEW k \in Keys PROVE After(content[Backend][k], Tail(u), k) = content[Backend][k]
      <3> DEFINE w == IF Head(u).key = k THEN Head(u).value ELSE content[Backend][k]
      <3>1. After(content[Backend][k], u, k) = content[Backend][k]
        BY <1>0 DEF CacheInv, UnsentInv, u
      <3>2. After(content[Backend][k], u, k) = After(w, Tail(u), k)
        BY <2>1, AfterHead
      <3> HIDE DEF w
      <3>3. After(After(w, Tail(u), k), Tail(u), k) = After(w, Tail(u), k)
        BY <2>1, AfterAgain
      <3> QED BY <3>1, <3>2, <3>3
    <2> QED BY <1>0, <2>2, <2>3 DEF CacheInv, UnsentInv
  <1>5. ASSUME NEW c \in Caches, unsent[c] = << >>, unsent' = unsent,
               NEW new, content' = [content EXCEPT ![c] = new]
        PROVE  UnsentInv'
    BY <1>0, <1>5, AfterEmpty DEF CacheInv, UnsentInv
  <1>6. ASSUME NEW c \in Caches, content' = content, unsent' = [unsent EXCEPT ![c] = << >>]
        PROVE  UnsentInv'
    BY <1>0, <1>6, AfterEmpty DEF CacheInv, UnsentInv
  <1>7. ASSUME NEW c \in Caches, FetchAndWatch(c) PROVE UnsentInv'
    <2>1. FanoutInv(c) /\ ApplyInv(c) /\ QueueInv(c)
      BY DEF BaseInv, CacheInv
    <2>2. CASE NewWatcher(c) \/ ReceiveInit(c) \/ BeginApply(c) \/ EndApply(c) \/ SetInit(c) \/ Fail(c)
      BY <1>1, <2>2 DEF NewWatcher, ReceiveInit, BeginApply, EndApply, SetInit, Fail
    <2>3. ASSUME NEW kind \in Kinds, Fetch(c, kind) PROVE UnsentInv'
      BY <1>1, <2>3 DEF Fetch
    <2>4. ASSUME NEW kind \in Kinds, ApplyErase(c, kind) PROVE UnsentInv'
      BY <1>5, <2>1, <2>4 DEF ApplyErase, FanoutInv
    <2>5. ASSUME NEW k \in Keys, ApplyPut(c, k) PROVE UnsentInv'
      <3>1. pc[c] = "apply"
        BY <2>1, <2>5 DEF ApplyPut, ApplyInv, Idle
      <3>2. content' = [content EXCEPT ![c] = [content[c] EXCEPT ![k] = fetched[c].items[k]]]
        BY <1>0, <2>5 DEF ApplyPut
      <3> QED BY <1>5, <2>1, <2>5, <3>1, <3>2 DEF ApplyPut, FanoutInv
    <2>6. CASE ProcessEvent(c)
      <3> DEFINE e == Head(queue[c])
      <3>1. e \in Events
        BY <2>1, <2>6 DEF ProcessEvent, QueueInv
      <3>2. unsent[c] = << >> /\ Append(<< >>, e) = <<e>>
        BY <2>1, <2>6 DEF ProcessEvent, FanoutInv
      <3>3. /\ content' = [content EXCEPT ![c][e.key] = e.value]
            /\ unsent' = [unsent EXCEPT ![c] = Append(@, e)]
        BY <1>0, <2>6, <3>2 DEF ProcessEvent
      <3> HIDE DEF e
      <3> QED BY <1>0, <1>2, <3>1, <3>3
    <2>7. CASE EmitCache(c)
      BY <1>6, <2>7 DEF EmitCache
    <2> QED BY <1>7, <2>2, <2>3, <2>4, <2>5, <2>6, <2>7 DEF FetchAndWatch
  <1>8. ASSUME NEW c \in Caches,
               CloseWatcher(c) \/ Disconnect(c) \/ Close(c) \/ ReadBegin(c) \/ ReadRelease(c)
        PROVE  UnsentInv'
    BY <1>1, <1>6, <1>8 DEF CloseWatcher, Disconnect, Close, ReadBegin, ReadRelease
  <1>9. CASE UNCHANGED vars
    BY <1>1, <1>9 DEF vars
  <1> QED BY <1>3, <1>4, <1>7, <1>8, <1>9 DEF Next

\* A watcher with nothing in its channel but perhaps the init event has only
\* what its parent has still to emit on the way.
LEMMA SyncWatcher ==
  ASSUME TypeOK, BaseInv, NEW d \in Caches, UnsentInv', pc'[d] = "init",
         queue'[d] = << >> \/ queue'[d] = <<OpInit>>, unsent'[Parent[d]] \in Seq(Events)
  PROVE  SyncInv(d)'
  <1>1. Tail(<<OpInit>>) = << >>
    OBVIOUS
  <1>2. Queued(d)' = << >>
    BY <1>1 DEF Queued
  <1>3. Pending(d)' = unsent'[Parent[d]]
    BY <1>2 DEF Pending
  <1>4. \A k \in Keys : After(content'[Parent[d]][k], unsent'[Parent[d]], k) = content'[Parent[d]][k]
    BY ParentFact DEF UnsentInv
  <1> QED BY <1>3, <1>4 DEF SyncInv

\* fetch reads from the parent, and not from where that one reads, once the
\* parent's fan-out is initialized.
LEMMA SyncFetch ==
  ASSUME TypeOK, BaseInv, NEW d \in Caches, SyncInv(d), NEW kind \in Kinds, Fetch(d, kind)
  PROVE  SyncInv(d)'
  <1> SUFFICES ASSUME conn[d] = "attached" PROVE SyncInv(d)'
    BY DEF Fetch, SyncInv
  <1>1. Initialized(Parent[d])
    BY DEF BaseInv, QueueInv, Fetch
  <1>2. Parent[d] \in Nodes /\ Readable(Parent[d])
    BY <1>1, ParentFact DEF BaseInv, FanoutInv, Initialized, Readable, Nodes
  <1>3. Serving[Parent[d]] = Parent[d]
    BY <1>2, ServingFact
  <1>4. /\ fetched'[d].kinds = fetched[d].kinds \cup {kind}
        /\ \A k \in Keys : fetched'[d].items[k] = IF Kind[k] = kind THEN content[Parent[d]][k]
                                                                   ELSE fetched[d].items[k]
    BY <1>3 DEF Fetch, TypeOK
  <1>5. Pending(d)' = Pending(d) /\ UNCHANGED <<content, pc, conn>> /\ pc[d] = "fetch"
    BY DEF Fetch, Pending, Queued
  <1> QED BY <1>4, <1>5 DEF SyncInv

\* What was applied is what was fetched.
LEMMA SyncApplied ==
  ASSUME TypeOK, BaseInv, NEW d \in Caches, SyncInv(d), ApplyInv(d), EndApply(d)
  PROVE  SyncInv(d)'
  <1>1. /\ pc[d] = "apply" /\ pc'[d] = "setInit" /\ UNCHANGED <<content, unsent, queue, conn>>
        /\ todo[d] = Idle
    BY DEF EndApply, Go, TypeOK
  <1>2. \A k \in Keys : content[d][k] = fetched[d].items[k] /\ Kind[k] \in fetched[d].kinds
    BY <1>1, EmptyTypes DEF ApplyInv, Idle
  <1>3. Pending(d)' = Pending(d)
    BY <1>1 DEF Pending, Queued
  <1> QED BY <1>1, <1>2, <1>3 DEF SyncInv

\* An event that is processed is no longer on the way.
LEMMA SyncProcess ==
  ASSUME TypeOK, BaseInv, NEW d \in Caches, SyncInv(d), ProcessEvent(d)
  PROVE  SyncInv(d)'
  <1> SUFFICES ASSUME conn[d] = "attached" PROVE SyncInv(d)'
    BY DEF ProcessEvent, SyncInv
  <1> DEFINE e == Head(queue[d])
             p == Parent[d]
             w(v, k) == IF e.key = k THEN e.value ELSE v
  <1>1. /\ queue[d] \in Seq(Events) /\ queue[d] # << >> /\ e \in Events /\ e.key \in Keys
        /\ pc[d] = "loop" /\ pc'[d] = "emit" /\ queue'[d] = Tail(queue[d]) /\ conn' = conn
    <2>1. /\ queue[d] \in Seq(Events) /\ queue[d] # << >>
          /\ pc[d] = "loop" /\ pc'[d] = "emit" /\ queue'[d] = Tail(queue[d]) /\ conn' = conn
      BY DEF ProcessEvent, BaseInv, QueueInv, Go, TypeOK
    <2>2. e \in Events
      BY <2>1
    <2>3. e.key \in Keys
      BY <2>2 DEF Events
    <2> QED BY <2>1, <2>2, <2>3
  <1>2. p # d /\ p \in Nodes /\ d \in Nodes /\ unsent[p] \in Seq(Events)
    BY ParentFact DEF TypeOK
  <1>3. /\ content'[p] = content[p] /\ unsent'[p] = unsent[p]
        /\ content'[d] = [content[d] EXCEPT ![e.key] = e.value] /\ content[d] \in [Keys -> Values]
    BY <1>2 DEF ProcessEvent, TypeOK, Contents
  <1> HIDE DEF e, p
  <1>4. Pending(d) = queue[d] \o unsent[p] /\ Pending(d)' = Tail(queue[d]) \o unsent[p]
    BY <1>1, <1>3 DEF Pending, Queued, p
  <1>5. /\ Pending(d) \in Seq(Events) /\ Pending(d) # << >> /\ Head(Pending(d)) = e
        /\ Tail(Pending(d)) = Tail(queue[d]) \o unsent[p]
    <2>1. queue[d] \o unsent[p] \in Seq(Events)
      BY <1>1, <1>2
    <2>2. /\ queue[d] \o unsent[p] # << >> /\ Head(queue[d] \o unsent[p]) = Head(queue[d])
          /\ Tail(queue[d] \o unsent[p]) = Tail(queue[d]) \o unsent[p]
      BY <1>1, <1>2, HeadConcat
    <2> QED BY <1>4, <2>1, <2>2 DEF e
  <1>6. Tail(Pending(d)) = Pending(d)' /\ Pending(d)' \in Seq(Events)
    <2>1. Tail(queue[d]) \in Seq(Events)
      BY <1>1
    <2>2. Tail(queue[d]) \o unsent[p] \in Seq(Events)
      BY <1>2, <2>1
    <2> QED BY <1>4, <1>5, <2>2
  <1>7. ASSUME NEW v, NEW k PROVE After(v, Pending(d), k) = After(w(v, k), Pending(d)', k)
    <2>1. After(v, Pending(d), k) =
            After(IF Head(Pending(d)).key = k THEN Head(Pending(d)).value ELSE v, Tail(Pending(d)), k)
      BY <1>5, AfterHead
    <2> QED BY <1>5, <1>6, <2>1, Zenon
  <1>8. ASSUME NEW k \in Keys
        PROVE  /\ After(content'[p][k], Pending(d)', k) = content'[p][k]
               /\ After(content'[d][k], Pending(d)', k) = content'[p][k]
    <2>1. After(content[p][k], Pending(d), k) = content[p][k] /\ After(content[d][k], Pending(d), k) = content[p][k]
      BY <1>1 DEF SyncInv, p
    <2>2. content'[d][k] = w(content[d][k], k)
      BY <1>1, <1>3
    <2>3. After(content'[d][k], Pending(d)', k) = content[p][k]
      BY <1>7, <2>1, <2>2
    <2>4. After(content[p][k], Pending(d)', k) = content[p][k]
      BY <1>6, <2>3, AfterAgain
    <2> QED BY <1>3, <2>3, <2>4
  <1> QED BY <1>1, <1>8 DEF SyncInv, p

LEMMA SyncStep ==
  ASSUME TypeOK, BaseInv, CacheInv, [Next]_vars, TypeOK', UnsentInv', NEW d \in Caches
  PROVE  SyncInv(d)'
  <1>0. /\ SyncInv(d) /\ ApplyInv(d) /\ FanoutInv(d) /\ QueueInv(d) /\ Parent[d] \in Nodes /\ Parent[d] # d
        /\ d \in Nodes /\ d # Backend /\ unsent'[Parent[d]] \in Seq(Events)
    BY ParentFact DEF BaseInv, CacheInv, TypeOK
  <1>1. ASSUME NEW k \in Keys, NEW v \in Values, Write(k, v) PROVE SyncInv(d)'
    <2> DEFINE e == [key |-> k, value |-> v]
    <2>1. e \in Events /\ e.key = k /\ e.value = v
      BY DEF Events
    <2>2. CASE Parent[d] = Backend
      BY <1>0, <1>1, <2>1, <2>2, SyncParent DEF Write, cacheState, TypeOK
    <2>3. CASE Parent[d] # Backend
      BY <1>0, <1>1, <2>3, SyncKept DEF Write, cacheState, TypeOK
    <2> QED BY <2>2, <2>3
  <1>2. CASE EmitBackend
    BY <1>0, <1>2, SyncEmit DEF EmitBackend, Initialized, Nodes
  <1>3. ASSUME NEW c \in Caches, EmitCache(c) PROVE SyncInv(d)'
    <2>1. unsent[c] \in Seq(Events) /\ Len(unsent[c]) = 1 /\ Initialized(c) /\ c \in Nodes
      BY <1>3, ParentFact DEF EmitCache, BaseInv, FanoutInv, TypeOK, Initialized
    <2>2. unsent[c] # << >> /\ Tail(unsent[c]) = << >>
      BY <2>1, TailOne
    <2>3. unsent' = [unsent EXCEPT ![c] = Tail(@)]
      BY <1>3, <2>2 DEF EmitCache
    <2>4. pc'[d] = pc[d] \/ (pc[d] = "emit" /\ pc'[d] = "loop")
      BY <1>3 DEF EmitCache, Go, TypeOK
    <2> QED BY <1>0, <1>3, <2>1, <2>2, <2>3, <2>4, SyncEmit DEF EmitCache
  <1>4. ASSUME FetchAndWatch(d) PROVE SyncInv(d)'
    <2>1. CASE NewWatcher(d)
      BY <1>0, <2>1, SyncWatcher DEF NewWatcher, Go, TypeOK
    <2>2. CASE ReceiveInit(d)
      <3>1. /\ pc[d] = "init" /\ pc'[d] = "fetch" /\ queue[d] # << >> /\ queue'[d] = Tail(queue[d])
            /\ UNCHANGED <<content, unsent, conn, fetched>>
        BY <2>2 DEF ReceiveInit, Go, TypeOK
      <3>2. Pending(d)' = Pending(d)
        BY <3>1 DEF Pending, Queued
      <3> QED BY <1>0, <3>1, <3>2 DEF SyncInv, ApplyInv
    <2>3. ASSUME NEW kind \in Kinds, Fetch(d, kind) PROVE SyncInv(d)'
      BY <1>0, <2>3, SyncFetch
    <2>4. ASSUME pc[d] \in {"fetch", "apply"}, pc'[d] = "apply", conn' = conn, queue' = queue, unsent' = unsent,
                 fetched' = fetched, content'[Parent[d]] = content[Parent[d]]
          PROVE  SyncInv(d)'
      <3>1. Pending(d)' = Pending(d)
        BY <2>4 DEF Pending, Queued
      <3> QED BY <1>0, <2>4, <3>1 DEF SyncInv
    <2>5. ASSUME NEW kind \in Kinds, ApplyErase(d, kind) PROVE SyncInv(d)'
      BY <1>0, <2>4, <2>5 DEF ApplyErase, TypeOK
    <2>6. ASSUME NEW k \in Keys, ApplyPut(d, k) PROVE SyncInv(d)'
      <3>1. pc[d] = "apply"
        BY <1>0, <2>6 DEF ApplyPut, ApplyInv, Idle
      <3> QED BY <1>0, <2>4, <2>6, <3>1 DEF ApplyPut, TypeOK
    <2>7. CASE BeginApply(d)
      BY <1>0, <2>4, <2>7 DEF BeginApply, Go, TypeOK
    <2>8. CASE EndApply(d)
      BY <1>0, <2>8, SyncApplied
    <2>9. CASE SetInit(d)
      <3>1. /\ pc[d] = "setInit" /\ pc'[d] = "loop" /\ queue'[d] = queue[d]
            /\ UNCHANGED <<content, unsent, conn, fetched>>
        BY <1>0, <2>9 DEF SetInit, Go, TypeOK
      <3>2. Pending(d)' = Pending(d)
        BY <3>1 DEF Pending, Queued
      <3> QED BY <1>0, <3>1, <3>2 DEF SyncInv
    <2>10. CASE ProcessEvent(d)
      BY <1>0, <2>10, SyncProcess
    <2>11. CASE Fail(d)
      BY <2>11 DEF Fail, Taken, TypeOK, SyncInv
    <2> QED BY <1>3, <1>4, <2>1, <2>2, <2>3, <2>5, <2>6, <2>7, <2>8, <2>9, <2>10, <2>11 DEF FetchAndWatch
  <1>5. ASSUME NEW c \in Caches, c # d, FetchAndWatch(c) PROVE SyncInv(d)'
    <2>0. FanoutInv(c) /\ ApplyInv(c) /\ QueueInv(c) /\ c \in Nodes /\ c # Backend
      BY ParentFact DEF BaseInv, CacheInv
    <2>1. CASE NewWatcher(c) \/ ReceiveInit(c)
      BY <1>0, <1>5, <2>1, SyncKept DEF NewWatcher, ReceiveInit, Go, TypeOK
    <2>2. ASSUME NEW kind \in Kinds, Fetch(c, kind) PROVE SyncInv(d)'
      BY <1>0, <1>5, <2>2, SyncKept DEF Fetch, TypeOK
    <2>3. CASE BeginApply(c) \/ EndApply(c)
      BY <1>0, <1>5, <2>3, SyncKept DEF BeginApply, EndApply, Go, TypeOK
    <2>4. ASSUME pc[c] = "apply", UNCHANGED <<pc, conn, queue, unsent, fetched>>,
                 NEW new, content' = [content EXCEPT ![c] = new]
          PROVE  SyncInv(d)'
      <3>1. CASE Parent[d] # c
        BY <1>0, <1>5, <2>4, <3>1, SyncKept DEF TypeOK
      <3>2. CASE Parent[d] = c /\ conn[d] # "attached"
        BY <2>4, <3>2 DEF SyncInv
      <3>3. CASE Parent[d] = c /\ conn[d] = "attached"
        <4>1. pc'[d] = "init" /\ queue'[d] = << >>
          BY <1>0, <2>0, <2>4, <3>3 DEF FanoutInv, QueueInv, Initialized
        <4> QED BY <1>0, <4>1, SyncWatcher
      <3> QED BY <3>1, <3>2, <3>3
    <2>5. ASSUME NEW kind \in Kinds, ApplyErase(c, kind) PROVE SyncInv(d)'
      BY <2>4, <2>5 DEF ApplyErase
    <2>6. ASSUME NEW k \in Keys, ApplyPut(c, k) PROVE SyncInv(d)'
      <3>1. pc[c] = "apply"
        BY <2>0, <2>6 DEF ApplyPut, ApplyInv, Idle
      <3>2. content' = [content EXCEPT ![c] = [content[c] EXCEPT ![k] = fetched[c].items[k]]]
        BY <2>0, <2>6 DEF ApplyPut, TypeOK
      <3> QED BY <2>4, <2>6, <3>1, <3>2 DEF ApplyPut
    <2>7. CASE SetInit(c)
      <3>1. CASE Parent[d] = c /\ conn[d] = "attached"
        <4>1. pc[d] = "init"
          BY <1>0, <2>0, <2>7, <3>1 DEF SetInit, FanoutInv, QueueInv, Initialized
        <4>2. pc'[d] = "init" /\ queue'[d] = <<OpInit>>
          BY <1>5, <2>7, <3>1, <4>1 DEF SetInit, Go, TypeOK
        <4> QED BY <1>0, <4>2, SyncWatcher
      <3>2. CASE ~(Parent[d] = c /\ conn[d] = "attached")
        BY <1>0, <1>5, <2>7, <3>2, SyncKept DEF SetInit, Go, TypeOK
      <3> QED BY <3>1, <3>2
    <2>8. CASE ProcessEvent(c)
      <3> DEFINE e == Head(queue[c])
      <3>1. e \in Events /\ unsent[c] = << >>
        BY <2>0, <2>8 DEF ProcessEvent, FanoutInv, QueueInv
      <3>2. <<e>> = Append(<< >>, e)
        OBVIOUS
      <3>3. /\ conn' = conn /\ pc'[d] = pc[d] /\ queue'[d] = queue[d] /\ fetched' = fetched
            /\ content'[d] = content[d] /\ unsent' = [unsent EXCEPT ![c] = <<e>>]
            /\ content' = [content EXCEPT ![c][e.key] = e.value]
        BY <1>0, <1>5, <2>8 DEF ProcessEvent, Go, TypeOK
      <3> HIDE DEF e
      <3>4. CASE Parent[d] = c
        <4>1. content'[c] = [content[c] EXCEPT ![e.key] = e.value] /\ unsent'[c] = Append(unsent[c], e)
          BY <2>0, <3>1, <3>2, <3>3 DEF TypeOK
        <4> QED BY <1>0, <3>1, <3>3, <3>4, <4>1, SyncParent
      <3>5. CASE Parent[d] # c
        <4>1. content'[Parent[d]] = content[Parent[d]] /\ unsent'[Parent[d]] = unsent[Parent[d]]
          BY <1>0, <3>3, <3>5 DEF TypeOK
        <4> QED BY <1>0, <3>3, <4>1, SyncKept
      <3> QED BY <3>4, <3>5
    <2>9. CASE Fail(c)
      <3>1. /\ conn'[d] = "attached" => conn[d] = "attached"
            /\ pc'[d] = pc[d] /\ queue'[d] = queue[d] /\ fetched'[d] = fetched[d] /\ UNCHANGED <<content, unsent>>
        BY <1>5, <2>9 DEF Fail, Taken, Go, TypeOK
      <3> QED BY <1>0, <3>1, SyncKept
    <2> QED BY <1>3, <1>5, <2>1, <2>2, <2>3, <2>5, <2>6, <2>7, <2>8, <2>9 DEF FetchAndWatch
  <1>6. ASSUME NEW c \in Caches, CloseWatcher(c) \/ Disconnect(c) PROVE SyncInv(d)'
    <2>1. conn'[d] = "attached" => conn[d] = "attached"
      BY <1>6 DEF CloseWatcher, Disconnect, TypeOK
    <2> QED BY <1>0, <1>6, <2>1, SyncKept DEF CloseWatcher, Disconnect
  <1>7. ASSUME NEW c \in Caches, Close(c) PROVE SyncInv(d)'
    <2>1. conn'[d] = "attached" => d # c /\ Parent[d] # c /\ conn[d] = "attached"
      BY <1>7 DEF Close, Taken, TypeOK
    <2>2. CASE conn'[d] = "attached"
      BY <1>0, <1>7, <2>1, <2>2, SyncKept DEF Close, Go, TypeOK
    <2>3. CASE conn'[d] # "attached"
      BY <2>3 DEF SyncInv
    <2> QED BY <2>2, <2>3
  <1>8. ASSUME NEW c \in Caches, ReadBegin(c) \/ ReadRelease(c) PROVE SyncInv(d)'
    BY <1>0, <1>8, SyncKept DEF ReadBegin, ReadRelease, cacheState
  <1>9. CASE UNCHANGED vars
    BY <1>0, <1>9, SyncKept DEF vars, cacheState
  <1> QED BY <1>1, <1>2, <1>4, <1>5, <1>6, <1>7, <1>8, <1>9 DEF Next

-----------------------------------------------------------------------------
(* The theorems *)

\* fetchAndWatch, Fanout and the readers: types, the bound of the channels
\* among them.
THEOREM CacheTypeCorrect == Spec => []TypeOK
  <1>1. Init => TypeOK /\ BaseInv
    <2> SUFFICES ASSUME Init PROVE TypeOK /\ BaseInv
      OBVIOUS
    <2>1. TypeOK
      BY EmptyTypes, BoundAssumption DEF Init, TypeOK
    <2>2. BaseInv
      BY EmptyTypes, ParentFact DEF Init, BaseInv, FanoutInv, QueueInv
    <2> QED BY <2>1, <2>2
  <1>2. TypeOK /\ BaseInv /\ [Next]_vars => TypeOK' /\ BaseInv'
    BY NextTypes, BaseStep
  <1> QED BY <1>1, <1>2, PTL DEF Spec

\* The inductive invariant: what the fan-outs, the channels and apply keep up,
\* and that a copy and the events on the way to it make up the original.
THEOREM CacheInvariant == Spec => [](TypeOK /\ BaseInv /\ CacheInv)
  <1>1. Init => TypeOK /\ BaseInv /\ CacheInv
    <2> SUFFICES ASSUME Init PROVE TypeOK /\ BaseInv /\ CacheInv
      OBVIOUS
    <2>1. TypeOK
      BY EmptyTypes, BoundAssumption DEF Init, TypeOK
    <2>2. BaseInv
      BY EmptyTypes, ParentFact DEF Init, BaseInv, FanoutInv, QueueInv
    <2>3. CacheInv
      BY AfterEmpty DEF Init, CacheInv, UnsentInv, ApplyInv, SyncInv
    <2> QED BY <2>1, <2>2, <2>3
  <1>2. TypeOK /\ BaseInv /\ CacheInv /\ [Next]_vars => (TypeOK /\ BaseInv /\ CacheInv)'
    <2> SUFFICES ASSUME TypeOK, BaseInv, CacheInv, [Next]_vars PROVE (TypeOK /\ BaseInv /\ CacheInv)'
      OBVIOUS
    <2>1. TypeOK' /\ BaseInv' /\ UnsentInv'
      BY NextTypes, BaseStep, UnsentStep
    <2>2. \A d \in Caches : ApplyInv(d)' /\ SyncInv(d)'
      BY <2>1, ApplyStep, SyncStep DEF CacheInv
    <2> QED BY <2>1, <2>2 DEF CacheInv
  <1> QED BY <1>1, <1>2, PTL DEF Spec

\* fetchAndWatch: for every tree of caches, a cache that follows its parent has
\* missed no event and has read nothing that the events do not account for.
THEOREM CacheReplicaInSync == Spec => []ReplicaInSync
  <1>1. TypeOK /\ BaseInv /\ CacheInv => ReplicaInSync
    <2> SUFFICES ASSUME TypeOK, BaseInv, CacheInv, NEW c \in Caches,
                        pc[c] \in {"loop", "emit"}, conn[c] = "attached"
                 PROVE  content[Parent[c]] = Replayed(content[c], queue[c] \o unsent[Parent[c]])
      BY DEF ReplicaInSync
    <2>1. Pending(c) = queue[c] \o unsent[Parent[c]]
      BY DEF Pending, Queued
    <2>2. \A k \in Keys : After(content[c][k], Pending(c), k) = content[Parent[c]][k]
      BY DEF CacheInv, SyncInv
    <2>3. content[Parent[c]] = [k \in Keys |-> content[Parent[c]][k]]
      BY ParentFact DEF TypeOK, Contents
    <2>4. Replayed(content[c], Pending(c)) = [k \in Keys |-> After(content[c][k], Pending(c), k)]
      BY ReplayedFact
    <2> QED BY <2>1, <2>2, <2>3, <2>4
  <1> QED BY <1>1, CacheInvariant, PTL

\* Only apply changes items before their collection is whole again, and a cache
\* becomes readable only at its end.
LEMMA TornStep ==
  ASSUME CacheInv, NoPartialReads, [Next]_vars
  PROVE  NoPartialReads'
  <1>1. ASSUME NEW c \in Caches, NEW kind \in Kinds, ApplyErase(c, kind) PROVE NoPartialReads'
    <2>1. pc[c] = "apply" /\ torn' = torn \cup {c} /\ UNCHANGED <<ok, reading>>
      BY <1>1 DEF ApplyErase
    <2>2. c \notin ok /\ c \notin reading
      BY <2>1 DEF CacheInv, ApplyInv
    <2> QED BY <2>1, <2>2 DEF NoPartialReads
  <1>2. ASSUME NEW c \in Caches, EndApply(c) PROVE NoPartialReads'
    BY <1>2 DEF EndApply, NoPartialReads
  <1>3. ASSUME NEW c \in Caches, BeginApply(c) PROVE NoPartialReads'
    BY <1>3 DEF BeginApply, NoPartialReads
  <1>4. ASSUME NEW c \in Caches, ReadBegin(c) \/ ReadRelease(c) PROVE NoPartialReads'
    BY <1>4 DEF ReadBegin, ReadRelease, NoPartialReads
  <1>5. CASE UNCHANGED <<torn, ok, reading>>
    BY <1>5 DEF NoPartialReads
  <1>6. CASE EmitBackend \/ (\E k \in Keys, v \in Values : Write(k, v)) \/ UNCHANGED vars
    BY <1>5, <1>6, Zenon DEF EmitBackend, Write, vars
  <1>7. ASSUME NEW c \in Caches, CloseWatcher(c) \/ Disconnect(c) \/ Close(c) PROVE NoPartialReads'
    BY <1>5, <1>7, Zenon DEF CloseWatcher, Disconnect, Close
  <1>8. ASSUME NEW c \in Caches, FetchAndWatch(c) PROVE NoPartialReads'
    <2>1. CASE NewWatcher(c) \/ ReceiveInit(c) \/ SetInit(c) \/ ProcessEvent(c) \/ EmitCache(c) \/ Fail(c)
      BY <1>5, <2>1, Zenon DEF NewWatcher, ReceiveInit, SetInit, ProcessEvent, EmitCache, Fail
    <2>2. CASE (\E kind \in Kinds : Fetch(c, kind)) \/ (\E k \in Keys : ApplyPut(c, k))
      BY <1>5, <2>2, Zenon DEF Fetch, ApplyPut
    <2> QED BY <1>1, <1>2, <1>3, <1>8, <2>1, <2>2, Zenon DEF FetchAndWatch
  <1> QED BY <1>4, <1>6, <1>7, <1>8, Zenon DEF Next

\* read and setReadOK: a cache with collections that are half applied has no
\* readers, while apply runs and after it has failed half way, in any tree of
\* caches.
THEOREM CacheNoPartialReads == Spec => []NoPartialReads
  <1>1. Init => NoPartialReads
    BY DEF Init, NoPartialReads
  <1>2. CacheInv /\ NoPartialReads /\ [Next]_vars => NoPartialReads'
    BY TornStep
  <1> QED BY <1>1, <1>2, CacheInvariant, PTL DEF Spec

=============================================================================
