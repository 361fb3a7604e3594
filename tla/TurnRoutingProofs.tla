------------------------- MODULE TurnRoutingProofs -------------------------
(***************************************************************************)
(* What holds of the turns of a query for any number of messages, of       *)
(* events the provider is ahead and of texts in a turn.                    *)
(*                                                                         *)
(* The turns that are open are a list the runner never holds: the events   *)
(* and the prompts under way name its members in order (Lists), and what   *)
(* the runner keeps -- a routing, a queue of routings, two retry flags --  *)
(* must agree with it (Agrees, Flagged).  TurnInv says there is such a     *)
(* list; each step says how the list changes.                              *)
(***************************************************************************)
EXTENDS TurnRouting, FiniteSetTheorems, FunctionTheorems, SequenceTheorems, TLAPS

Events == [kind : {"text", "result"}, of : Turn, body : Body]

\* open lists the turns that are not answered yet, oldest first: every event
\* of s and every prompt of f belongs to the turn at its place.
Lists(open, s, f) ==
  /\ open \in Seq(Turn) /\ Len(open) = Results(s, Len(s)) + Len(f)
  /\ \A i \in 1 .. Len(s) :
       /\ Results(s, i - 1) < Len(open)
       /\ s[i].of = open[Results(s, i - 1) + 1]
  /\ \A k \in 1 .. Len(f) : f[k] = open[Results(s, Len(s)) + k]

\* The runner's queue is as long as theirs, and names the same routings while
\* no retry went behind a follow-up.
Agrees(open) ==
  /\ answering <=> open # <<>>
  /\ answering => Len(open) = Len(pendingTurns) + 1
  /\ ~answering => pendingTurns = <<>>
  /\ ~crossed => /\ answering => open[1].r = routing
                 /\ \A k \in DOMAIN pendingTurns : open[k + 1].r = pendingTurns[k]

\* The flags know whether the turn that speaks is a retry.
Flagged(open) ==
  ~crossed =>
    /\ open # <<>> =>
         open[1].nth = IF unwrappedNudged \/ taskBlockNudged THEN 1 ELSE 0
    /\ \A k \in 2 .. Len(open) : open[k].nth = 0

\* Every open turn answers a message of its own that is taken for good.
Apart(open) ==
  /\ \A k \in DOMAIN open :
       open[k].r.to \in Ids \ (Waiting \union poller)
  /\ \A j, k \in DOMAIN open : j # k => open[j].r.to # open[k].r.to

\* Only the turn that speaks may have delivered its block, and then the
\* runner remembers it until the turn is closed.
Delivered(open) ==
  /\ \A k \in 2 .. Len(open) : got[open[k].r.to] = 0
  /\ open # <<>> /\ got[open[1].r.to] # 0 =>
       /\ open[1].r.to \in said /\ ~routing.task
       /\ settle \in {"none", "close"} /\ (streams \/ settle = "close")

\* The same for its entry in the run log.
Entered(open) ==
  ~crossed =>
    /\ \A k \in 2 .. Len(open) : logged[open[k].r.to] = 0
    /\ open # <<>> /\ logged[open[1].r.to] # 0 =>
         taskBlockNudged \/ settle \in {"block", "close"}

\* What a turn may be asked once more for, and the event it was decided on.
Settling ==
  /\ settle # "none" => stream # <<>> /\ Head(stream).kind = "result"
  /\ settle = "wrap" => ~routing.task /\ ~unwrappedNudged
  /\ settle = "block" => routing.task /\ ~taskBlockNudged
  /\ unwrappedNudged => ~routing.task
  /\ taskBlockNudged => routing.task

\* Messages nobody has answered, and those of the batch, which the poller
\* never has.
Untouched ==
  /\ \A m \in Waiting \union poller : got[m] = 0 /\ logged[m] = 0
  /\ \A m \in batch : m \notin poller /\ ack[m] # "none"

\* Outside a query there is nothing left of one.
Outside ==
  ~inQuery =>
    /\ fed = <<>> /\ stream = <<>> /\ settle = "none" /\ ~answering
    /\ ~unwrappedNudged /\ ~taskBlockNudged /\ ~crossed
    /\ poller = {} /\ batch = {}

Account(open) ==
  /\ Lists(open, stream, fed) /\ Agrees(open) /\ Flagged(open)
  /\ Apart(open) /\ Delivered(open) /\ Entered(open)

TurnInv ==
  /\ TypeOK /\ Settling /\ Untouched /\ Outside
  /\ BlockDeliveredOnce
  /\ \E open \in Seq(Turn) : Account(open)

-----------------------------------------------------------------------------
(* Counting results                                                        *)

\* The least of some of the first numbers is one of them.
LEMMA MinIsIn ==
  ASSUME NEW n \in Nat, NEW S \in SUBSET (1 .. n), S # {}
  PROVE  Min(S) \in S
<1>. DEFINE T == {1 .. k : k \in S}
<1>1. T \subseteq FiniteSubsetsOf(Nat) /\ T # {}
  <2>1. \A k \in S : 1 .. k \in SUBSET Nat
    OBVIOUS
  <2>2. \A k \in S : IsFiniteSet(1 .. k)
    BY FS_Interval
  <2>. QED BY <2>1, <2>2, Zenon DEF FiniteSubsetsOf
<1>2. IsWellFoundedOn(StrictSubsetOrdering(Nat), FiniteSubsetsOf(Nat))
  BY FS_StrictSubsetOrderingWellFounded
<1>3. PICK x \in T : \A y \in T : <<y, x>> \notin StrictSubsetOrdering(Nat)
  <2>. HIDE DEF T
  <2>. QED BY <1>1, <1>2, WFMin, Zenon
<1>4. PICK k \in S : x = 1 .. k
  OBVIOUS
<1>5. ASSUME NEW j \in S PROVE k <= j
  <2>1. SUFFICES ASSUME j < k PROVE FALSE
    OBVIOUS
  <2>2. 1 .. j \in T /\ 1 .. j \in SUBSET Nat /\ 1 .. k \in SUBSET Nat
    OBVIOUS
  <2>3. 1 .. j \subseteq 1 .. k /\ k \notin 1 .. j /\ k \in 1 .. k
    BY <2>1
  <2>4. <<1 .. j, 1 .. k>> \in StrictSubsetOrdering(Nat)
    BY <2>2, <2>3 DEF StrictSubsetOrdering
  <2>. QED BY <1>3, <1>4, <2>2, <2>4
<1>. QED BY <1>5 DEF Min

\* A count of results is a number, and no larger than what was counted.
LEMMA ResultsType ==
  ASSUME NEW s, NEW n \in Nat
  PROVE  /\ IsFiniteSet({i \in 1 .. n : s[i].kind = "result"})
         /\ Results(s, n) \in 0 .. n
<1>1. IsFiniteSet(1 .. n) /\ Cardinality(1 .. n) = n
  BY FS_Interval
<1>2. {i \in 1 .. n : s[i].kind = "result"} \subseteq 1 .. n
  OBVIOUS
<1>3. /\ IsFiniteSet({i \in 1 .. n : s[i].kind = "result"})
      /\ Cardinality({i \in 1 .. n : s[i].kind = "result"}) <= n
  BY <1>1, <1>2, FS_Subset, Zenon
<1>4. Cardinality({i \in 1 .. n : s[i].kind = "result"}) \in Nat
  BY <1>3, FS_CardinalityType
<1>. QED BY <1>3, <1>4 DEF Results

\* Among no events there is no result.
LEMMA ResultsOfNone == ASSUME NEW s PROVE Results(s, 0) = 0
  BY FS_EmptySet DEF Results

\* The count goes up at results.
LEMMA ResultsStep ==
  ASSUME NEW s, NEW n \in Nat \ {0}
  PROVE  Results(s, n) = Results(s, n - 1)
                           + (IF s[n].kind = "result" THEN 1 ELSE 0)
<1>. DEFINE R(k) == {i \in 1 .. k : s[i].kind = "result"}
<1>0. Results(s, n) = Cardinality(R(n)) /\ Results(s, n - 1) = Cardinality(R(n - 1))
  BY DEF Results
<1>1. IsFiniteSet(R(n - 1)) /\ Cardinality(R(n - 1)) \in Nat
  BY ResultsType, FS_CardinalityType, n - 1 \in Nat
<1>2. n \notin R(n - 1)
  OBVIOUS
<1>3. CASE s[n].kind = "result"
  <2>1. R(n) = R(n - 1) \cup {n}
    BY <1>3
  <2>2. Cardinality(R(n - 1) \cup {n}) = Cardinality(R(n - 1)) + 1
    <3>. HIDE DEF R
    <3>. QED BY <1>1, <1>2, FS_AddElement
  <2>. HIDE DEF R
  <2>. QED BY <1>0, <1>3, <2>1, <2>2
<1>4. CASE s[n].kind # "result"
  <2>1. R(n) = R(n - 1)
    BY <1>4
  <2>. HIDE DEF R
  <2>. QED BY <1>0, <1>1, <1>4, <2>1
<1>. QED BY <1>3, <1>4

\* A longer stretch of events holds no fewer results.
LEMMA ResultsGrow ==
  ASSUME NEW s, NEW m \in Nat, NEW n \in Nat, m <= n
  PROVE  Results(s, m) <= Results(s, n)
<1>1. {i \in 1 .. m : s[i].kind = "result"}
        \subseteq {i \in 1 .. n : s[i].kind = "result"}
  OBVIOUS
<1>2. IsFiniteSet({i \in 1 .. n : s[i].kind = "result"})
  BY ResultsType
<1>. QED BY <1>1, <1>2, FS_Subset, Zenon DEF Results

\* Counts only look at what they count.
LEMMA ResultsSame ==
  ASSUME NEW s, NEW t, NEW n \in Nat, \A i \in 1 .. n : s[i] = t[i]
  PROVE  Results(s, n) = Results(t, n)
<1>1. {i \in 1 .. n : s[i].kind = "result"} = {i \in 1 .. n : t[i].kind = "result"}
  OBVIOUS
<1>. QED BY <1>1 DEF Results

\* The first event leaves, and every count is smaller by it.
LEMMA ResultsShift ==
  ASSUME NEW s, NEW t, NEW n \in Nat, \A i \in 1 .. n : t[i] = s[i + 1]
  PROVE  Results(s, n + 1) = Results(t, n)
                               + (IF s[1].kind = "result" THEN 1 ELSE 0)
<1>. DEFINE R == {i \in 1 .. n : t[i].kind = "result"}
            Q == {i \in 2 .. n + 1 : s[i].kind = "result"}
            f == [i \in R |-> i + 1]
<1>1. IsFiniteSet(R) /\ Results(t, n) = Cardinality(R)
  BY ResultsType DEF Results
<1>2. f \in Bijection(R, Q)
  <2>1. f \in [R -> Q]
    OBVIOUS
  <2>2. \A i, j \in R : f[i] = f[j] => i = j
    OBVIOUS
  <2>3. ASSUME NEW q \in Q PROVE \E i \in R : f[i] = q
    <3>1. q - 1 \in 1 .. n /\ (q - 1) + 1 = q
      OBVIOUS
    <3>2. t[q - 1] = s[q]
      BY <3>1
    <3>3. q - 1 \in R
      BY <3>1, <3>2
    <3>. QED BY <3>1, <3>3
  <2>. HIDE DEF f, R, Q
  <2>. QED BY <2>1, <2>2, <2>3, Fun_IsBij
<1>3. IsFiniteSet(Q) /\ Cardinality(Q) = Cardinality(R)
  <2>1. ExistsBijection(R, Q)
    BY <1>2 DEF ExistsBijection
  <2>. HIDE DEF f, R, Q
  <2>. QED BY <1>1, <2>1, FS_Bijection
<1>4. 1 \notin Q /\ Cardinality(R) \in Nat
  BY <1>1, FS_CardinalityType
<1>5. CASE s[1].kind = "result"
  <2>1. {i \in 1 .. n + 1 : s[i].kind = "result"} = Q \cup {1}
    BY <1>5
  <2>2. Cardinality(Q \cup {1}) = Cardinality(Q) + 1
    <3>. HIDE DEF Q
    <3>. QED BY <1>3, <1>4, FS_AddElement
  <2>3. Results(s, n + 1) = Cardinality(Q \cup {1})
    BY <2>1 DEF Results
  <2>. HIDE DEF Q, R
  <2>. QED BY <1>1, <1>3, <1>4, <1>5, <2>2, <2>3
<1>6. CASE s[1].kind # "result"
  <2>1. {i \in 1 .. n + 1 : s[i].kind = "result"} = Q
    BY <1>6
  <2>3. Results(s, n + 1) = Cardinality(Q)
    BY <2>1 DEF Results
  <2>. HIDE DEF Q, R
  <2>. QED BY <1>1, <1>3, <1>4, <1>6, <2>3
<1>. QED BY <1>5, <1>6

-----------------------------------------------------------------------------
(* The turns not answered yet, as prompts and events come and go           *)

\* A prompt is pushed.
LEMMA ListsPrompt ==
  ASSUME NEW open, NEW s \in Seq(Events), NEW f \in Seq(Turn), NEW t \in Turn,
         Lists(open, s, f)
  PROVE  Lists(Append(open, t), s, Append(f, t))
<1>. USE DEF Lists
<1>1. /\ open \in Seq(Turn) /\ Len(open) \in Nat
      /\ Append(open, t) \in Seq(Turn) /\ Len(Append(open, t)) = Len(open) + 1
      /\ \A k \in 1 .. Len(open) : Append(open, t)[k] = open[k]
      /\ Append(open, t)[Len(open) + 1] = t
  OBVIOUS
<1>2. /\ Len(f) \in Nat /\ Len(Append(f, t)) = Len(f) + 1
      /\ \A k \in 1 .. Len(f) : Append(f, t)[k] = f[k]
      /\ Append(f, t)[Len(f) + 1] = t
  OBVIOUS
<1>3. \A i \in 0 .. Len(s) : Results(s, i) \in Nat
  <2>. TAKE i \in 0 .. Len(s)
  <2>1. i \in Nat
    OBVIOUS
  <2>2. Results(s, i) \in 0 .. i
    BY <2>1, ResultsType
  <2>. QED BY <2>1, <2>2
<1>31. Len(s) \in Nat /\ Results(s, Len(s)) \in Nat
  BY <1>3
<1>. DEFINE o == Append(open, t)
            g == Append(f, t)
<1>. HIDE DEF o, g
<1>4. o \in Seq(Turn) /\ Len(o) = Results(s, Len(s)) + Len(g)
  BY <1>1, <1>2, <1>31 DEF o, g
<1>5. \A i \in 1 .. Len(s) : /\ Results(s, i - 1) < Len(o)
                              /\ s[i].of = o[Results(s, i - 1) + 1]
  <2>. TAKE i \in 1 .. Len(s)
  <2>1. Results(s, i - 1) \in Nat
    BY <1>3
  <2>. QED BY <1>1, <2>1 DEF o
<1>6. \A k \in 1 .. Len(g) : g[k] = o[Results(s, Len(s)) + k]
  <2>. TAKE k \in 1 .. Len(g)
  <2>1. CASE k <= Len(f)
    BY <1>1, <1>2, <1>31, <2>1 DEF o, g
  <2>2. CASE k = Len(f) + 1
    <3>1. Results(s, Len(s)) + k = Len(open) + 1
      BY <1>2, <1>31, <2>2
    <3>. QED BY <1>1, <1>2, <2>2, <3>1 DEF o, g
  <2>. QED BY <1>2, <2>1, <2>2 DEF g
<1>. QED BY <1>4, <1>5, <1>6 DEF o, g

\* The provider speaks, in the middle of a turn or at its end.
LEMMA ListsEvent ==
  ASSUME NEW open, NEW s \in Seq(Events), NEW f \in Seq(Turn), f # <<>>,
         NEW e \in Events, e.of = Head(f), NEW g,
         \/ e.kind = "text" /\ g = f
         \/ e.kind = "result" /\ g = Tail(f),
         Lists(open, s, f)
  PROVE  Lists(open, Append(s, e), g)
<1>. DEFINE u == Append(s, e)
            n == Len(s)
<1>1. /\ n \in Nat /\ Len(u) = n + 1 /\ u[n + 1] = e
      /\ \A i \in 1 .. n : u[i] = s[i]
  OBVIOUS
<1>. HIDE DEF u, n
<1>2. \A i \in 0 .. n : Results(u, i) = Results(s, i) /\ Results(s, i) \in Nat
  <2>. TAKE i \in 0 .. n
  <2>1. i \in Nat /\ \A j \in 1 .. i : u[j] = s[j]
    BY <1>1
  <2>2. Results(s, i) \in 0 .. i
    BY <2>1, ResultsType
  <2>3. Results(u, i) = Results(s, i)
    BY <2>1, ResultsSame
  <2>. QED BY <2>1, <2>2, <2>3
<1>3. Results(u, n + 1) = Results(u, n) + (IF e.kind = "result" THEN 1 ELSE 0)
  <2>1. n + 1 \in Nat \ {0} /\ (n + 1) - 1 = n
    BY <1>1
  <2>. QED BY <1>1, <2>1, ResultsStep
<1>4. /\ open \in Seq(Turn) /\ Len(open) \in Nat
      /\ Len(open) = Results(s, n) + Len(f)
      /\ \A i \in 1 .. n : /\ Results(s, i - 1) < Len(open)
                           /\ s[i].of = open[Results(s, i - 1) + 1]
      /\ \A k \in 1 .. Len(f) : f[k] = open[Results(s, n) + k]
  BY DEF Lists, n
<1>5. Len(f) \in Nat \ {0} /\ Head(f) = f[1]
  OBVIOUS
<1>6. \A i \in 1 .. Len(u) : /\ Results(u, i - 1) < Len(open)
                              /\ u[i].of = open[Results(u, i - 1) + 1]
  <2>. TAKE i \in 1 .. Len(u)
  <2>1. CASE i \in 1 .. n
    <3>1. i - 1 \in 0 .. n
      BY <1>1, <2>1
    <3>. QED BY <1>1, <1>2, <1>4, <2>1, <3>1
  <2>2. CASE i = n + 1
    <3>1. i - 1 = n /\ n \in 0 .. n
      BY <1>1, <2>2
    <3>2. Results(u, i - 1) = Results(s, n) /\ Results(s, n) \in Nat
      BY <1>2, <3>1
    <3>3. 1 \in 1 .. Len(f)
      BY <1>5
    <3>4. f[1] = open[Results(s, n) + 1]
      BY <1>4, <3>3
    <3>5. u[i].of = open[Results(u, i - 1) + 1]
      BY <1>1, <1>5, <2>2, <3>2, <3>4
    <3>. QED BY <1>4, <1>5, <3>2, <3>5
  <2>. QED BY <1>1, <2>1, <2>2
<1>7. n \in 0 .. n
  BY <1>1
<1>8. CASE e.kind = "text" /\ g = f
  <2>1. Results(u, Len(u)) = Results(s, n)
    BY <1>1, <1>2, <1>3, <1>7, <1>8
  <2>. QED BY <1>4, <1>6, <1>8, <2>1 DEF Lists, u
<1>9. CASE e.kind = "result" /\ g = Tail(f)
  <2>1. Results(u, Len(u)) = Results(s, n) + 1 /\ Results(s, n) \in Nat
    BY <1>1, <1>2, <1>3, <1>7, <1>9
  <2>2. Len(g) = Len(f) - 1 /\ \A k \in 1 .. Len(g) : g[k] = f[k + 1]
    BY <1>5, <1>9
  <2>3. \A k \in 1 .. Len(g) : g[k] = open[Results(s, n) + 1 + k]
    <3>. TAKE k \in 1 .. Len(g)
    <3>1. k + 1 \in 1 .. Len(f) /\ k \in Nat
      BY <1>5, <2>2
    <3>2. f[k + 1] = open[Results(s, n) + (k + 1)]
      BY <1>4, <3>1
    <3>3. Results(s, n) + (k + 1) = Results(s, n) + 1 + k
      BY <2>1, <3>1
    <3>. QED BY <2>2, <3>2, <3>3
  <2>4. Len(open) = Results(u, Len(u)) + Len(g)
    BY <1>4, <1>5, <2>1, <2>2
  <2>. QED BY <1>4, <1>6, <2>1, <2>3, <2>4 DEF Lists, u
<1>. QED BY <1>8, <1>9

\* An event speaks of the oldest turn.
LEMMA ListsHead ==
  ASSUME NEW open, NEW s \in Seq(Events), NEW f \in Seq(Turn),
         Lists(open, s, f)
  PROVE  /\ s # <<>> => open # <<>> /\ Head(s).of = open[1]
         /\ s = <<>> => open = f
<1>1. ASSUME s # <<>> PROVE open # <<>> /\ Head(s).of = open[1]
  <2>1. 1 \in 1 .. Len(s) /\ Head(s) = s[1]
    BY <1>1
  <2>2. Results(s, 1 - 1) = 0
    BY ResultsOfNone
  <2>. QED BY <2>1, <2>2 DEF Lists
<1>2. ASSUME s = <<>> PROVE open = f
  <2>1. Len(s) = 0 /\ Results(s, Len(s)) = 0
    BY <1>2, ResultsOfNone
  <2>2. /\ open \in Seq(Turn) /\ Len(open) = Len(f)
        /\ \A k \in 1 .. Len(f) : f[k] = open[k]
    BY <2>1 DEF Lists
  <2>. QED BY <2>2
<1>. QED BY <1>1, <1>2

\* The runner is through with an event; with a result the turn is answered.
LEMMA ListsHandled ==
  ASSUME NEW open, NEW s \in Seq(Events), NEW f \in Seq(Turn), s # <<>>,
         Lists(open, s, f)
  PROVE  /\ Head(s).kind = "text" => Lists(open, Tail(s), f)
         /\ Head(s).kind = "result" => Lists(Tail(open), Tail(s), f)
<1>. DEFINE u == Tail(s)
            n == Len(u)
            d == IF s[1].kind = "result" THEN 1 ELSE 0
<1>1. /\ n \in Nat /\ Len(s) = n + 1 /\ Head(s) = s[1]
      /\ \A i \in 1 .. n : u[i] = s[i + 1]
  OBVIOUS
<1>. HIDE DEF u, n, d
<1>2. \A i \in 0 .. n : /\ Results(s, i + 1) = Results(u, i) + d
                        /\ Results(u, i) \in Nat
  <2>. TAKE i \in 0 .. n
  <2>1. i \in Nat /\ \A j \in 1 .. i : u[j] = s[j + 1]
    BY <1>1
  <2>2. Results(u, i) \in 0 .. i
    BY <2>1, ResultsType
  <2>3. Results(s, i + 1) = Results(u, i) + d
    BY <2>1, ResultsShift DEF d
  <2>. QED BY <2>1, <2>2, <2>3
<1>3. /\ open \in Seq(Turn) /\ Len(open) \in Nat
      /\ Len(open) = Results(u, n) + d + Len(f) /\ Results(u, n) \in Nat
      /\ \A k \in 1 .. Len(f) : f[k] = open[Results(u, n) + d + k]
  BY <1>1, <1>2 DEF Lists
<1>4. \A i \in 1 .. n : /\ Results(u, i - 1) + d < Len(open)
                        /\ u[i].of = open[Results(u, i - 1) + d + 1]
                        /\ Results(u, i - 1) \in Nat
  <2>. TAKE i \in 1 .. n
  <2>1. i + 1 \in 1 .. Len(s) /\ i - 1 \in 0 .. n /\ (i - 1) + 1 = (i + 1) - 1
    BY <1>1
  <2>2. Results(s, (i + 1) - 1) = Results(u, i - 1) + d
    BY <1>2, <2>1
  <2>3. /\ Results(s, (i + 1) - 1) < Len(open)
        /\ s[i + 1].of = open[Results(s, (i + 1) - 1) + 1]
    BY <2>1 DEF Lists
  <2>. QED BY <1>1, <1>2, <2>1, <2>2, <2>3
<1>5. ASSUME Head(s).kind = "text" PROVE Lists(open, u, f)
  <2>1. d = 0
    BY <1>1, <1>5 DEF d
  <2>. QED BY <1>3, <1>4, <2>1 DEF Lists, n
<1>6. ASSUME Head(s).kind = "result" PROVE Lists(Tail(open), u, f)
  <2>1. d = 1
    BY <1>1, <1>6 DEF d
  <2>2. open # <<>>
    BY ListsHead
  <2>3. /\ Tail(open) \in Seq(Turn) /\ Len(Tail(open)) = Len(open) - 1
        /\ \A k \in 1 .. Len(open) - 1 : Tail(open)[k] = open[k + 1]
    BY <1>3, <2>2
  <2>4. \A i \in 1 .. n : /\ Results(u, i - 1) < Len(Tail(open))
                          /\ u[i].of = Tail(open)[Results(u, i - 1) + 1]
    <3>. TAKE i \in 1 .. n
    <3>1. Results(u, i - 1) + 1 \in 1 .. Len(open) - 1
      BY <1>3, <1>4, <2>1
    <3>. QED BY <1>3, <1>4, <2>1, <2>3, <3>1
  <2>5. \A k \in 1 .. Len(f) : f[k] = Tail(open)[Results(u, n) + k]
    <3>. TAKE k \in 1 .. Len(f)
    <3>1. Results(u, n) + k \in 1 .. Len(open) - 1 /\ Len(f) \in Nat
      BY <1>3, <2>1
    <3>2. Results(u, n) + 1 + k = (Results(u, n) + k) + 1
      BY <1>3, <3>1
    <3>. QED BY <1>3, <2>1, <2>3, <3>1, <3>2
  <2>6. Len(Tail(open)) = Results(u, n) + Len(f)
    BY <1>3, <2>1, <2>3
  <2>. QED BY <2>3, <2>4, <2>5, <2>6 DEF Lists, n
<1>. QED BY <1>5, <1>6 DEF u

-----------------------------------------------------------------------------
(* Initial states and small facts                                          *)

\* A column of the mailbox gets a row.
LEMMA AppendedRow ==
  ASSUME NEW n \in Nat, NEW S, NEW f \in [1 .. n -> S], NEW e \in S
  PROVE  /\ Append(f, e) \in [1 .. n + 1 -> S] /\ Append(f, e)[n + 1] = e
         /\ \A m \in 1 .. n : Append(f, e)[m] = f[m]
<1>1. f \in Seq(S) /\ Len(f) = n
  OBVIOUS
<1>2. Append(f, e) \in Seq(S) /\ Len(Append(f, e)) = n + 1
  BY <1>1
<1>3. Append(f, e)[n + 1] = e /\ \A m \in 1 .. n : Append(f, e)[m] = f[m]
  BY <1>1
<1>4. Append(f, e) \in [1 .. Len(Append(f, e)) -> S]
  <2>. DEFINE g == Append(f, e)
  <2>1. g \in Seq(S)
    BY <1>2
  <2>. HIDE DEF g
  <2>2. g \in [1 .. Len(g) -> S]
    BY <2>1, LenProperties
  <2>. QED BY <2>2 DEF g
<1>. QED BY <1>2, <1>3, <1>4

\* The routing of a batch goes by one of its messages.
LEMMA RoutingOfBatch ==
  ASSUME TypeOK, NEW S \in SUBSET Ids, S # {}
  PROVE  extractRouting(S) \in Routing /\ extractRouting(S).to \in S
<1>1. Ids = 1 .. Len(msgs) /\ Len(msgs) \in Nat /\ Len(msgs) <= MaxMsgs
  BY DEF TypeOK, Ids
<1>2. Min(S) \in S
  BY <1>1, MinIsIn
<1>3. Min(S) \in 1 .. MaxMsgs
  <2>1. \A m \in Ids : m \in Nat /\ 1 <= m /\ m <= MaxMsgs
    BY <1>1, TurnAssumption
  <2>. QED BY <1>2, <2>1, TurnAssumption
<1>. QED BY <1>2, <1>3 DEF extractRouting, Routing

\* A routing of nothing in particular is one.
LEMMA NoRoutingType == NoRouting \in Routing
  BY TurnAssumption DEF NoRouting, Routing

\* No turn is open where no prompt and no event is left.
LEMMA NothingOpen == Lists(<<>>, <<>>, <<>>)
  BY ResultsOfNone DEF Lists

\* What the invariant says of the mailbox, as numbers.
LEMMA IdsAreNumbers ==
  ASSUME TypeOK
  PROVE  Ids = 1 .. Len(msgs) /\ Len(msgs) \in 0 .. MaxMsgs
  BY DEF TypeOK, Ids

\* A runner without a query has no turn open.
LEMMA Initially == Init => TurnInv
<1>. SUFFICES ASSUME Init PROVE TurnInv
  OBVIOUS
<1>. USE DEF Init
<1>1. TypeOK
  <2>1. streams \in BOOLEAN
    BY TurnAssumption
  <2>2. /\ msgs \in Seq(Kind) /\ Len(msgs) <= MaxMsgs /\ Ids = {}
        /\ fed \in Seq(Turn) /\ pendingTurns \in Seq(Routing)
        /\ stream \in Seq([kind : {"text", "result"}, of : Turn, body : Body])
    BY TurnAssumption DEF Ids
  <2>3. /\ ack \in [Ids -> {"none", "processing", "completed", "skipped"}]
        /\ got \in [Ids -> Nat] /\ logged \in [Ids -> Nat]
    BY <2>2
  <2>4. texts \in 0 .. MaxTexts
    BY TurnAssumption
  <2>. QED BY <2>1, <2>2, <2>3, <2>4, NoRoutingType DEF TypeOK
<1>2. Ids = {} /\ Waiting = {}
  BY DEF Ids, Waiting
<1>3. Settling /\ Untouched /\ Outside /\ BlockDeliveredOnce
  BY <1>2 DEF Settling, Untouched, Outside, BlockDeliveredOnce
<1>4. Account(<<>>) /\ <<>> \in Seq(Turn)
  <2>1. Lists(<<>>, stream, fed)
    BY NothingOpen
  <2>. QED BY <2>1 DEF Account, Agrees, Flagged, Apart, Delivered, Entered
<1>. QED BY <1>1, <1>3, <1>4 DEF TurnInv

-----------------------------------------------------------------------------
(* Messages and the outer loop                                             *)

\* A command in the mailbox aborts the query (poll-loop.ts:467): nothing of the
\* turns changes.
LEMMA AbortsKeeps == ASSUME TurnInv, Aborts PROVE TurnInv'
<1>. USE DEF TurnInv, Aborts, mailbox, provider, turn, ghosts
<1>1. PICK open \in Seq(Turn) : Account(open)
  OBVIOUS
<1>2. TypeOK'
  BY DEF TypeOK, Ids
<1>3. Settling' /\ Untouched' /\ Outside' /\ BlockDeliveredOnce'
  BY DEF Settling, Untouched, Waiting, Ids, Outside, BlockDeliveredOnce
<1>4. Account(open)'
  BY <1>1 DEF Account, Agrees, Flagged, Apart, Delivered, Entered, Waiting, Ids
<1>. QED BY <1>2, <1>3, <1>4

\* The poller takes follow-ups (491-513): they are not the provider's yet.
LEMMA TakesKeeps == ASSUME TurnInv, TakesFollowUps PROVE TurnInv'
<1>. USE DEF TurnInv, TakesFollowUps, mailbox, provider, turn, ghosts
<1>1. PICK open \in Seq(Turn) : Account(open)
  OBVIOUS
<1>2. /\ Ids' = Ids /\ Waiting \subseteq Ids /\ poller = {} /\ poller' = Waiting
      /\ ack' \in [Ids -> {"none", "processing", "completed", "skipped"}]
      /\ \A m \in Ids : ack'[m] = IF m \in Waiting THEN "processing" ELSE ack[m]
  BY DEF TypeOK, Ids, Waiting, Marked
<1>3. Waiting' = {}
  BY <1>2 DEF Waiting
<1>4. TypeOK'
  BY <1>2 DEF TypeOK
<1>5. Untouched'
  BY <1>2, <1>3 DEF Untouched, TypeOK, Waiting
<1>6. Settling' /\ Outside' /\ BlockDeliveredOnce'
  BY <1>2 DEF Settling, Outside, BlockDeliveredOnce
<1>7. Apart(open)'
  BY <1>1, <1>2, <1>3 DEF Account, Apart
<1>8. Account(open)'
  BY <1>1, <1>7 DEF Account, Agrees, Flagged, Delivered, Entered
<1>. QED BY <1>4, <1>5, <1>6, <1>8

\* A new row opens no turn.
LEMMA ArrivesKeeps == ASSUME TurnInv, Arrives PROVE TurnInv'
<1>. USE DEF TurnInv, Arrives
<1>1. PICK open \in Seq(Turn) : Account(open)
  OBVIOUS
<1>. DEFINE n == Len(msgs) + 1
<1>2. /\ Ids = 1 .. Len(msgs) /\ Len(msgs) \in 0 .. MaxMsgs
      /\ msgs' \in Seq(Kind) /\ Len(msgs') = n /\ n \in 1 .. MaxMsgs
      /\ Ids' = Ids \cup {n} /\ n \notin Ids
  <2>1. Ids = 1 .. Len(msgs) /\ Len(msgs) \in 0 .. MaxMsgs
    BY IdsAreNumbers
  <2>2. PICK k \in Kind : msgs' = Append(msgs, k)
    OBVIOUS
  <2>3. msgs' \in Seq(Kind) /\ Len(msgs') = n /\ DOMAIN msgs' = 1 .. n
    BY <2>2 DEF TypeOK
  <2>. QED BY <2>1, <2>3, TurnAssumption DEF Ids
<1>3. /\ ack' \in [Ids' -> {"none", "processing", "completed", "skipped"}]
      /\ ack'[n] = "none" /\ \A m \in Ids : ack'[m] = ack[m]
  <2>1. Len(msgs) \in Nat /\ Ids' = 1 .. Len(msgs) + 1
    BY <1>2
  <2>2. ack \in [1 .. Len(msgs) -> {"none", "processing", "completed", "skipped"}]
    BY <1>2 DEF TypeOK
  <2>3. ack' = Append(ack, "none")
    OBVIOUS
  <2>4. "none" \in {"none", "processing", "completed", "skipped"}
    OBVIOUS
  <2>5. /\ Append(ack, "none") \in
             [1 .. Len(msgs) + 1 -> {"none", "processing", "completed", "skipped"}]
        /\ Append(ack, "none")[Len(msgs) + 1] = "none"
        /\ \A m \in 1 .. Len(msgs) : Append(ack, "none")[m] = ack[m]
    <3>. DEFINE S == {"none", "processing", "completed", "skipped"}
    <3>. HIDE DEF S
    <3>1. ack \in [1 .. Len(msgs) -> S] /\ "none" \in S
      BY <2>2, <2>4 DEF S
    <3>2. Append(ack, "none") \in [1 .. Len(msgs) + 1 -> S]
      BY <2>1, <3>1, AppendedRow
    <3>3. Append(ack, "none")[Len(msgs) + 1] = "none"
      BY <2>1, <3>1, AppendedRow
    <3>4. \A m \in 1 .. Len(msgs) : Append(ack, "none")[m] = ack[m]
      BY <2>1, <3>1, AppendedRow
    <3>. QED BY <3>2, <3>3, <3>4 DEF S
  <2>. QED BY <1>2, <2>1, <2>3, <2>5, Zenon
<1>4. /\ got' \in [Ids' -> Nat] /\ logged' \in [Ids' -> Nat]
      /\ got'[n] = 0 /\ logged'[n] = 0
      /\ \A m \in Ids : got'[m] = got[m] /\ logged'[m] = logged[m]
  <2>1. Len(msgs) \in Nat /\ Ids' = 1 .. Len(msgs) + 1
    BY <1>2
  <2>2. got \in [1 .. Len(msgs) -> Nat] /\ logged \in [1 .. Len(msgs) -> Nat]
    BY <1>2 DEF TypeOK
  <2>3. got' = Append(got, 0) /\ logged' = Append(logged, 0) /\ 0 \in Nat
    OBVIOUS
  <2>4. ASSUME NEW f \in [1 .. Len(msgs) -> Nat]
        PROVE  /\ Append(f, 0) \in [1 .. Len(msgs) + 1 -> Nat]
               /\ Append(f, 0)[Len(msgs) + 1] = 0
               /\ \A m \in 1 .. Len(msgs) : Append(f, 0)[m] = f[m]
    <3>2. Append(f, 0) \in [1 .. Len(msgs) + 1 -> Nat]
      BY <2>1, <2>3, AppendedRow
    <3>3. Append(f, 0)[Len(msgs) + 1] = 0
      BY <2>1, <2>3, AppendedRow
    <3>4. \A m \in 1 .. Len(msgs) : Append(f, 0)[m] = f[m]
      BY <2>1, <2>3, AppendedRow
    <3>. QED BY <3>2, <3>3, <3>4
  <2>. QED BY <1>2, <2>1, <2>2, <2>3, <2>4, Zenon
<1>. HIDE DEF n
<1>5. Waiting' = Waiting \cup {n} /\ poller \subseteq Ids /\ batch \subseteq Ids
  BY <1>2, <1>3 DEF Waiting, TypeOK
<1>6. TypeOK'
  <2>1. Len(msgs') <= MaxMsgs
    BY <1>2, TurnAssumption
  <2>. QED BY <1>2, <1>3, <1>4, <1>5, <2>1 DEF TypeOK, turn, provider
<1>7. Untouched'
  <2>1. \A m \in batch : m \in Ids /\ m \notin poller /\ ack'[m] # "none"
    BY <1>3, <1>5 DEF Untouched
  <2>2. \A m \in Waiting' \union poller : got'[m] = 0 /\ logged'[m] = 0
    BY <1>4, <1>5 DEF Untouched, Waiting
  <2>. QED BY <2>1, <2>2 DEF Untouched
<1>8. Settling' /\ Outside' /\ BlockDeliveredOnce'
  BY <1>2, <1>4 DEF Settling, Outside, BlockDeliveredOnce, turn, provider
<1>9. Apart(open)' /\ \A k \in DOMAIN open : open[k].r.to \in Ids
  BY <1>1, <1>2, <1>5 DEF Account, Apart
<1>10. 1 .. Len(open) = DOMAIN open
  OBVIOUS
<1>101. \A k \in 1 .. Len(open) : /\ got'[open[k].r.to] = got[open[k].r.to]
                                  /\ logged'[open[k].r.to] = logged[open[k].r.to]
  BY <1>4, <1>9, <1>10
<1>102. open # <<>> => 1 \in 1 .. Len(open)
  OBVIOUS
<1>103. 2 .. Len(open) \subseteq 1 .. Len(open)
  OBVIOUS
<1>11. Delivered(open)' /\ Entered(open)'
  <2>1. Delivered(open)'
    BY <1>1, <1>101, <1>102, <1>103 DEF Account, Delivered, turn
  <2>2. Entered(open)'
    BY <1>1, <1>101, <1>102, <1>103 DEF Account, Entered, turn
  <2>. QED BY <2>1, <2>2
<1>12. Account(open)'
  BY <1>1, <1>9, <1>11 DEF Account, Agrees, Flagged, turn, provider
<1>. QED BY <1>6, <1>7, <1>8, <1>12

\* A query begins with one turn open, that of its first batch.
LEMMA PollKeeps == ASSUME TurnInv, runPollLoop PROVE TurnInv'
<1>. USE DEF TurnInv
<1>0. /\ ~inQuery /\ Waiting # {}
      /\ UNCHANGED <<streams, msgs, ended, texts, stream, settle, pendingTurns,
                     unwrappedNudged, taskBlockNudged, said, poller, got, logged,
                     crossed>>
  BY DEF runPollLoop, ghosts
<1>1. /\ fed = <<>> /\ stream = <<>> /\ settle = "none" /\ ~answering
      /\ ~unwrappedNudged /\ ~taskBlockNudged /\ ~crossed
      /\ poller = {} /\ batch = {}
  BY <1>0 DEF Outside
<1>2. PICK open \in Seq(Turn) : Account(open)
  OBVIOUS
<1>3. open = <<>> /\ pendingTurns = <<>>
  BY <1>1, <1>2 DEF Account, Agrees
<1>. DEFINE first == extractRouting(Waiting)
<1>4. PICK skipped \in SUBSET Tasks(Waiting) :
       LET commands == {m \in Waiting : msgs[m] = "command"}
           keep     == Waiting \ (commands \union skipped)
       IN  /\ ack' = [m \in Ids |->
                CASE m \in commands -> "completed" [] m \in skipped -> "skipped"
                  [] m \in keep -> "processing" [] OTHER -> ack[m]]
           /\ IF keep = {}
              THEN UNCHANGED <<inQuery, batch, fed, routing, answering>>
              ELSE /\ inQuery' = TRUE /\ batch' = keep
                   /\ fed' = <<[r |-> first, nth |-> 0]>>
                   /\ routing' = first /\ answering' = TRUE
  BY DEF runPollLoop
<1>. DEFINE keep == Waiting \ ({m \in Waiting : msgs[m] = "command"} \union skipped)
<1>5. /\ Ids' = Ids /\ Waiting \subseteq Ids /\ skipped \subseteq Waiting
      /\ keep \subseteq Waiting
  BY <1>0 DEF Ids, Waiting, Tasks
<1>6. /\ ack' \in [Ids -> {"none", "processing", "completed", "skipped"}]
      /\ \A m \in Waiting : ack'[m] # "none"
      /\ \A m \in Ids \ Waiting : ack'[m] = ack[m]
  <2>1. ack \in [Ids -> {"none", "processing", "completed", "skipped"}]
    BY DEF TypeOK
  <2>. QED BY <1>4, <1>5, <2>1
<1>7. first \in Routing /\ first.to \in Waiting
  BY <1>0, <1>5, RoutingOfBatch
<1>8. Waiting' = {}
  BY <1>5, <1>6 DEF Waiting
<1>. HIDE DEF first
<1>9. CASE keep = {}
  <2>0. UNCHANGED <<inQuery, batch, fed, routing, answering>>
    BY <1>4, <1>9
  <2>1. TypeOK'
    BY <1>0, <1>1, <1>5, <1>6, <2>0 DEF TypeOK
  <2>2. Settling' /\ Untouched' /\ Outside' /\ BlockDeliveredOnce'
    BY <1>0, <1>1, <1>5, <1>8, <2>0
       DEF Settling, Untouched, Outside, BlockDeliveredOnce
  <2>3. Account(open)'
    BY <1>0, <1>2, <1>3, <2>0
       DEF Account, Agrees, Flagged, Apart, Delivered, Entered
  <2>. QED BY <2>1, <2>2, <2>3
<1>10. CASE keep # {}
  <2>0. /\ inQuery' = TRUE /\ batch' = keep
        /\ fed' = <<[r |-> first, nth |-> 0]>>
        /\ routing' = first /\ answering' = TRUE
    BY <1>4, <1>10
  <2>1. PICK t \in Turn : t = [r |-> first, nth |-> 0]
    BY <1>7 DEF Turn
  <2>2. fed' = <<t>> /\ <<t>> \in Seq(Turn)
    BY <2>0, <2>1
  <2>3. TypeOK'
    BY <1>0, <1>1, <1>5, <1>6, <1>7, <2>0, <2>2 DEF TypeOK
  <2>4. \A m \in batch' : ack'[m] # "none"
    BY <1>5, <1>6, <2>0
  <2>5. Settling' /\ Untouched' /\ Outside' /\ BlockDeliveredOnce'
    BY <1>0, <1>1, <1>5, <1>8, <2>0, <2>4
       DEF Settling, Untouched, Outside, BlockDeliveredOnce
  <2>6. Lists(<<t>>, stream', fed')
    <3>1. Lists(<<>>, <<>>, <<>>)
      BY NothingOpen
    <3>2. Append(<<>>, t) = <<t>> /\ <<>> \in Seq(Turn) /\ <<>> \in Seq(Events)
      OBVIOUS
    <3>3. Lists(Append(<<>>, t), <<>>, Append(<<>>, t))
      BY <3>1, <3>2, ListsPrompt
    <3>. QED BY <1>0, <1>1, <2>2, <3>2, <3>3
  <2>7. /\ Len(<<t>>) = 1 /\ <<t>>[1] = t /\ DOMAIN <<t>> = {1} /\ <<t>> # <<>>
        /\ t.r = first /\ t.nth = 0 /\ 2 .. Len(<<t>>) = {}
    BY <2>1
  <2>. DEFINE o == <<t>>
  <2>8. o \in Seq(Turn) /\ Lists(o, stream', fed')
    BY <2>2, <2>6
  <2>9. /\ Len(o) = 1 /\ o[1] = t /\ DOMAIN o = {1} /\ o # <<>>
        /\ 2 .. Len(o) = {}
    BY <2>7
  <2>. HIDE DEF o
  <2>10. Agrees(o)' /\ Flagged(o)'
    <3>1. Len(pendingTurns') = 0 /\ DOMAIN pendingTurns' = {}
      BY <1>0, <1>3
    <3>. QED BY <1>0, <1>1, <1>3, <2>0, <2>7, <2>9, <3>1 DEF Agrees, Flagged
  <2>11. Apart(o)'
    BY <1>0, <1>1, <1>5, <1>7, <1>8, <2>7, <2>9 DEF Apart
  <2>12. got[t.r.to] = 0 /\ logged[t.r.to] = 0
    BY <1>7, <2>7 DEF Untouched
  <2>13. Delivered(o)' /\ Entered(o)'
    BY <1>0, <2>9, <2>12 DEF Delivered, Entered
  <2>14. Account(o)'
    BY <2>8, <2>10, <2>11, <2>13 DEF Account
  <2>. QED BY <2>3, <2>5, <2>8, <2>14
<1>. QED BY <1>9, <1>10

\* When a query ends, its turns end with it.
LEMMA EndsKeeps == ASSUME TurnInv, QueryEnds PROVE TurnInv'
<1>. USE DEF TurnInv, QueryEnds, Closed
<1>1. /\ Ids' = Ids /\ batch \subseteq Ids /\ batch' = {} /\ poller' = {}
      /\ ack' \in [Ids -> {"none", "processing", "completed", "skipped"}]
      /\ \A m \in Ids : ack'[m] = IF m \in batch THEN "completed" ELSE ack[m]
  BY DEF TypeOK, Ids, Marked
<1>2. Waiting' \subseteq Waiting
  BY <1>1 DEF Waiting
<1>3. TypeOK'
  <2>1. /\ fed' \in Seq(Turn) /\ pendingTurns' \in Seq(Routing)
        /\ stream' \in Seq([kind : {"text", "result"}, of : Turn, body : Body])
        /\ texts' \in 0 .. MaxTexts
    BY TurnAssumption
  <2>. QED BY <1>1, <2>1, NoRoutingType DEF TypeOK
<1>4. Untouched'
  BY <1>1, <1>2 DEF Untouched
<1>5. Settling' /\ Outside' /\ BlockDeliveredOnce'
  BY <1>1 DEF Settling, Outside, BlockDeliveredOnce
<1>6. Account(<<>>)' /\ <<>> \in Seq(Turn)
  <2>1. Lists(<<>>, stream', fed')
    BY NothingOpen
  <2>. QED BY <2>1 DEF Account, Agrees, Flagged, Apart, Delivered, Entered
<1>. QED BY <1>3, <1>4, <1>5, <1>6

-----------------------------------------------------------------------------
(* The provider                                                            *)

\* The agent's own send_message is no event of the stream.
LEMMA ToolKeeps == ASSUME TurnInv, SendsByTool PROVE TurnInv'
<1>. USE DEF TurnInv, SendsByTool, mailbox, provider, turn, ghosts
<1>1. PICK open \in Seq(Turn) : Account(open)
  OBVIOUS
<1>2. Ids' = Ids /\ Waiting' = Waiting /\ said \subseteq said'
  BY DEF Ids, Waiting
<1>3. TypeOK'
  BY <1>2, TurnAssumption DEF TypeOK
<1>4. Settling' /\ Untouched' /\ Outside' /\ BlockDeliveredOnce'
  BY <1>2 DEF Settling, Untouched, Outside, BlockDeliveredOnce
<1>5. Account(open)'
  BY <1>1, <1>2 DEF Account, Agrees, Flagged, Apart, Delivered, Entered
<1>. QED BY <1>3, <1>4, <1>5

\* A text belongs to the oldest prompt the provider holds.
LEMMA SpeaksKeeps == ASSUME TurnInv, SpeaksMidTurn PROVE TurnInv'
<1>. USE DEF TurnInv, SpeaksMidTurn, CanSpeak, mailbox, provider, turn, ghosts
<1>1. PICK open \in Seq(Turn) : Account(open)
  OBVIOUS
<1>2. Ids' = Ids /\ Waiting' = Waiting
  BY DEF Ids, Waiting
<1>3. /\ stream \in Seq(Events) /\ fed \in Seq(Turn) /\ fed # <<>>
      /\ Event("text", "block") \in Events
  BY DEF TypeOK, Events, Event, Body
<1>. DEFINE e == Event("text", "block")
<1>4. e \in Events /\ e.kind = "text" /\ e.of = Head(fed)
  BY <1>3 DEF Event
<1>5. stream' = Append(stream, e) /\ fed' = fed
  OBVIOUS
<1>. HIDE DEF e
<1>6. stream' \in Seq(Events) /\ Lists(open, stream', fed')
  BY <1>1, <1>3, <1>4, <1>5, ListsEvent DEF Account
<1>7. stream # <<>> => stream' # <<>> /\ Head(stream') = Head(stream)
  BY <1>3, <1>4, <1>5
<1>8. TypeOK'
  BY <1>2, <1>6, TurnAssumption DEF TypeOK, Events
<1>9. Settling' /\ Untouched' /\ Outside' /\ BlockDeliveredOnce'
  BY <1>2, <1>7 DEF Settling, Untouched, Outside, BlockDeliveredOnce
<1>10. Account(open)'
  BY <1>1, <1>2, <1>6 DEF Account, Agrees, Flagged, Apart, Delivered, Entered
<1>. QED BY <1>8, <1>9, <1>10

\* A result takes the oldest prompt from the provider and leaves the turn open
\* until it is handled.
LEMMA EndsTurnKeeps == ASSUME TurnInv, EndsTurn PROVE TurnInv'
<1>. USE DEF TurnInv, EndsTurn, CanSpeak, mailbox, turn, ghosts
<1>1. PICK open \in Seq(Turn) : Account(open)
  OBVIOUS
<1>2. Ids' = Ids /\ Waiting' = Waiting
  BY DEF Ids, Waiting
<1>3. PICK body \in Body : stream' = Append(stream, Event("result", body))
  OBVIOUS
<1>4. /\ stream \in Seq(Events) /\ fed \in Seq(Turn) /\ fed # <<>>
      /\ Event("result", body) \in Events
  BY DEF TypeOK, Events, Event, Body
<1>. DEFINE e == Event("result", body)
<1>5. e \in Events /\ e.kind = "result" /\ e.of = Head(fed)
  BY <1>4 DEF Event
<1>6. stream' = Append(stream, e) /\ fed' = Tail(fed) /\ Tail(fed) \in Seq(Turn)
  BY <1>3, <1>4
<1>. HIDE DEF e
<1>7. stream' \in Seq(Events) /\ Lists(open, stream', fed')
  <2>. HIDE DEF TurnInv, EndsTurn
  <2>1. Lists(open, stream, fed)
    BY <1>1 DEF Account
  <2>2. Lists(open, Append(stream, e), Tail(fed))
    BY <1>4, <1>5, <2>1, ListsEvent
  <2>3. Append(stream, e) \in Seq(Events)
    BY <1>4, <1>5
  <2>. QED BY <1>6, <2>2, <2>3
<1>8. stream # <<>> => stream' # <<>> /\ Head(stream') = Head(stream)
  <2>. HIDE DEF TurnInv, EndsTurn
  <2>1. ASSUME stream # <<>>
        PROVE  Append(stream, e) # <<>> /\ Head(Append(stream, e)) = Head(stream)
    BY <1>4, <1>5, <2>1
  <2>. QED BY <1>6, <2>1
<1>9. TypeOK'
  BY <1>2, <1>6, <1>7, TurnAssumption DEF TypeOK, Events
<1>10. Settling' /\ Untouched' /\ Outside' /\ BlockDeliveredOnce'
  BY <1>2, <1>8 DEF Settling, Untouched, Outside, BlockDeliveredOnce
<1>11. Account(open)'
  BY <1>1, <1>2, <1>7 DEF Account, Agrees, Flagged, Apart, Delivered, Entered
<1>. QED BY <1>9, <1>10, <1>11

-----------------------------------------------------------------------------
(* Follow-ups                                                              *)

\* One more turn, for a message of the poller, behind those that are open.
LEMMA ApartFromNew ==
  ASSUME NEW open \in Seq(Turn), NEW t \in Turn, Apart(open),
         t.r.to \in poller, poller \subseteq Ids, Ids' = Ids, Waiting' = Waiting,
         poller' = {}, t.r.to \notin Waiting
  PROVE  Apart(Append(open, t))'
<1>. DEFINE o == Append(open, t)
            n == Len(open)
<1>1. /\ n \in Nat /\ DOMAIN o = 1 .. n + 1 /\ DOMAIN open = 1 .. n
      /\ o[n + 1] = t /\ \A k \in 1 .. n : o[k] = open[k]
  OBVIOUS
<1>. HIDE DEF o, n
<1>2. \A k \in 1 .. n : open[k].r.to \in Ids \ (Waiting \union poller)
  BY <1>1 DEF Apart
<1>3. ASSUME NEW j \in 1 .. n + 1, NEW k \in 1 .. n + 1, j # k
      PROVE  o[j].r.to # o[k].r.to
  <2>1. CASE j = n + 1
    <3>1. k \in 1 .. n
      BY <1>1, <1>3, <2>1
    <3>. QED BY <1>1, <1>2, <2>1, <3>1
  <2>2. CASE k = n + 1
    <3>1. j \in 1 .. n
      BY <1>1, <1>3, <2>2
    <3>. QED BY <1>1, <1>2, <2>2, <3>1
  <2>3. CASE j \in 1 .. n /\ k \in 1 .. n
    BY <1>1, <1>3, <2>3 DEF Apart
  <2>. QED BY <1>1, <2>1, <2>2, <2>3
<1>4. ASSUME NEW k \in 1 .. n + 1 PROVE o[k].r.to \in Ids \ Waiting
  <2>1. CASE k = n + 1
    BY <1>1, <2>1
  <2>2. CASE k \in 1 .. n
    BY <1>1, <1>2, <2>2
  <2>. QED BY <1>1, <2>1, <2>2
<1>. QED BY <1>1, <1>3, <1>4 DEF Apart, o

\* A follow-up opens a turn behind all others: the runner adopts its routing at
\* once when it was idle, and queues it otherwise (poll-loop.ts:515-590).
LEMMA PushesKeeps == ASSUME TurnInv, Pushes PROVE TurnInv'
<1>. USE DEF TurnInv
<1>0. /\ poller # {} /\ poller' = {}
      /\ UNCHANGED <<streams, msgs, inQuery, batch, ended, texts, stream, settle,
                     said, got, logged, crossed>>
  BY DEF Pushes, ghosts
<1>1. PICK open \in Seq(Turn) : Account(open)
  OBVIOUS
<1>2. PICK skipped \in SUBSET Tasks(poller) :
       LET keep == poller \ skipped
           r    == extractRouting(keep)
       IN  /\ ack' = [m \in Ids |->
                CASE m \in skipped -> "skipped" [] m \in keep -> "completed"
                  [] OTHER -> ack[m]]
           /\ IF keep = {} THEN UNCHANGED <<fed, turn>>
              ELSE /\ fed' = Append(fed, [r |-> r, nth |-> 0])
                   /\ answering' = TRUE
                   /\ IF answering
                      THEN /\ pendingTurns' = Append(pendingTurns, r)
                           /\ UNCHANGED <<routing, unwrappedNudged,
                                          taskBlockNudged>>
                      ELSE /\ routing' = r
                           /\ unwrappedNudged' = FALSE
                           /\ taskBlockNudged' = FALSE
                           /\ UNCHANGED pendingTurns
  BY DEF Pushes
<1>. DEFINE keep == poller \ skipped
            r == extractRouting(keep)
<1>3. /\ Ids' = Ids /\ poller \subseteq Ids /\ skipped \subseteq poller
      /\ keep \subseteq poller /\ \A m \in poller : ack[m] = "processing"
  BY <1>0 DEF Ids, Tasks, TypeOK
<1>4. /\ ack' \in [Ids -> {"none", "processing", "completed", "skipped"}]
      /\ \A m \in poller : ack'[m] # "none"
      /\ \A m \in Ids \ poller : ack'[m] = ack[m]
  <2>1. ack \in [Ids -> {"none", "processing", "completed", "skipped"}]
    BY DEF TypeOK
  <2>. QED BY <1>2, <1>3, <2>1
<1>5. Waiting' = Waiting /\ \A m \in poller : m \notin Waiting
  BY <1>3, <1>4 DEF Waiting
<1>6. Untouched'
  <2>1. \A m \in batch : m \in Ids /\ ack'[m] # "none"
    BY <1>4 DEF Untouched, TypeOK
  <2>. QED BY <1>0, <1>5, <2>1 DEF Untouched
<1>7. inQuery /\ BlockDeliveredOnce'
  BY <1>0, <1>3 DEF Outside, BlockDeliveredOnce
<1>8. Outside'
  BY <1>0, <1>7 DEF Outside
<1>. HIDE DEF r
<1>9. CASE keep = {}
  <2>0. UNCHANGED <<fed, turn>>
    BY <1>2, <1>9
  <2>1. TypeOK'
    BY <1>0, <1>3, <1>4, <2>0 DEF TypeOK, turn
  <2>2. Settling'
    BY <1>0, <2>0 DEF Settling, turn
  <2>3. Account(open)'
    BY <1>0, <1>1, <1>3, <1>5, <2>0
       DEF Account, Agrees, Flagged, Apart, Delivered, Entered, turn
  <2>. QED BY <1>6, <1>7, <1>8, <2>1, <2>2, <2>3
<1>10. CASE keep # {}
  <2>1. /\ fed' = Append(fed, [r |-> r, nth |-> 0]) /\ answering' = TRUE
        /\ answering => /\ pendingTurns' = Append(pendingTurns, r)
                        /\ UNCHANGED <<routing, unwrappedNudged, taskBlockNudged>>
        /\ ~answering => /\ routing' = r /\ UNCHANGED pendingTurns
                         /\ ~unwrappedNudged' /\ ~taskBlockNudged'
                         /\ unwrappedNudged' \in BOOLEAN /\ taskBlockNudged' \in BOOLEAN
    BY <1>2, <1>10 DEF r
  <2>2. r \in Routing /\ r.to \in keep
    BY <1>3, <1>10, RoutingOfBatch DEF r
  <2>3. PICK t \in Turn : t = [r |-> r, nth |-> 0]
    BY <2>2 DEF Turn
  <2>4. t.r = r /\ t.nth = 0 /\ t.r.to \in poller /\ t.r.to \notin Waiting
    BY <1>3, <1>5, <2>2, <2>3
  <2>5. /\ fed \in Seq(Turn) /\ pendingTurns \in Seq(Routing) /\ stream \in Seq(Events)
        /\ fed' = Append(fed, t) /\ fed' \in Seq(Turn)
    BY <2>1, <2>3 DEF TypeOK, Events
  <2>6. pendingTurns' \in Seq(Routing) /\ routing' \in Routing
    <3>1. CASE answering
      <4>1. routing \in Routing /\ Append(pendingTurns, r) \in Seq(Routing)
        BY <2>2, <2>5 DEF TypeOK
      <4>. QED BY <2>1, <3>1, <4>1
    <3>2. CASE ~answering
      BY <2>1, <2>2, <2>5, <3>2
    <3>. QED BY <3>1, <3>2
  <2>7. TypeOK'
    <3>1. unwrappedNudged' \in BOOLEAN /\ taskBlockNudged' \in BOOLEAN
      BY <2>1 DEF TypeOK
    <3>. QED BY <1>0, <1>3, <1>4, <2>1, <2>5, <2>6, <3>1 DEF TypeOK
  <2>. DEFINE o == Append(open, t)
              n == Len(open)
  <2>8. /\ n \in Nat /\ o \in Seq(Turn) /\ Len(o) = n + 1 /\ o # <<>>
        /\ o[n + 1] = t /\ \A k \in 1 .. n : o[k] = open[k]
        /\ open # <<>> <=> n > 0
    OBVIOUS
  <2>9. Lists(o, stream', fed')
    BY <1>0, <1>1, <2>5, ListsPrompt DEF Account
  <2>10. Apart(o)'
    BY <1>0, <1>1, <1>3, <1>5, <2>4, ApartFromNew DEF Account
  <2>. HIDE DEF o, n
  <2>11. /\ answering <=> n > 0
         /\ answering => n = Len(pendingTurns) + 1
         /\ ~answering => pendingTurns = <<>>
    BY <1>1, <2>8 DEF Account, Agrees, n
  <2>12. settle # "none" => answering
    BY <1>1, <2>5, <2>8, <2>11, ListsHead DEF Account, Settling
  <2>13. Settling'
    <3>1. CASE answering
      BY <1>0, <2>1, <3>1 DEF Settling
    <3>2. CASE ~answering
      BY <1>0, <2>1, <2>12, <3>2 DEF Settling
    <3>. QED BY <3>1, <3>2
  <2>14. Agrees(o)' /\ Flagged(o)'
    <3>1. CASE answering
      <4>1. /\ Len(pendingTurns') = n /\ n \in Nat \ {0}
            /\ DOMAIN pendingTurns' = 1 .. n /\ DOMAIN pendingTurns = 1 .. n - 1
            /\ pendingTurns'[n] = r
            /\ \A k \in 1 .. n - 1 : pendingTurns'[k] = pendingTurns[k]
        BY <2>1, <2>2, <2>5, <2>8, <2>11, <3>1
      <4>2. o[1] = open[1]
        BY <2>8, <4>1
      <4>3. ASSUME ~crossed, NEW k \in 1 .. n PROVE o[k + 1].r = pendingTurns'[k]
        <5>1. CASE k = n
          BY <2>4, <2>8, <4>1, <5>1
        <5>2. CASE k \in 1 .. n - 1
          <6>1. k + 1 \in 1 .. n
            BY <4>1, <5>2
          <6>2. open[k + 1].r = pendingTurns[k]
            BY <1>1, <4>1, <4>3, <5>2 DEF Account, Agrees
          <6>. QED BY <2>8, <4>1, <5>2, <6>1, <6>2
        <5>. QED BY <4>1, <5>1, <5>2
      <4>4. Agrees(o)'
        BY <1>0, <1>1, <2>1, <2>8, <3>1, <4>1, <4>2, <4>3 DEF Account, Agrees
      <4>5. ASSUME ~crossed, NEW k \in 2 .. Len(o) PROVE o[k].nth = 0
        <5>1. CASE k = n + 1
          BY <2>4, <2>8, <5>1
        <5>2. CASE k \in 2 .. n
          <6>1. k \in 1 .. n
            BY <5>2, <2>8
          <6>. QED BY <1>1, <2>8, <4>5, <5>2, <6>1 DEF Account, Flagged, n
        <5>. QED BY <2>8, <5>1, <5>2
      <4>6. Flagged(o)'
        BY <1>0, <1>1, <2>1, <2>8, <2>11, <3>1, <4>2, <4>5 DEF Account, Flagged
      <4>. QED BY <4>4, <4>6
    <3>2. CASE ~answering
      <4>1. n = 0 /\ pendingTurns' = <<>> /\ o[1] = t /\ Len(o) = 1
        BY <2>1, <2>8, <2>11, <3>2
      <4>2. Len(pendingTurns') = 0 /\ DOMAIN pendingTurns' = {} /\ 2 .. Len(o) = {}
        BY <4>1
      <4>3. Agrees(o)'
        BY <2>1, <2>4, <2>8, <3>2, <4>1, <4>2 DEF Agrees
      <4>4. Flagged(o)'
        BY <2>1, <2>4, <2>8, <3>2, <4>1, <4>2 DEF Flagged
      <4>. QED BY <4>3, <4>4
    <3>. QED BY <3>1, <3>2
  <2>15. got[t.r.to] = 0 /\ logged[t.r.to] = 0
    BY <2>4 DEF Untouched
  <2>16. ASSUME NEW k \in 2 .. Len(o)
         PROVE  got[o[k].r.to] = 0 /\ (~crossed => logged[o[k].r.to] = 0)
    <3>1. CASE k = n + 1
      BY <2>8, <2>15, <3>1
    <3>2. CASE k \in 2 .. n
      <4>1. k \in 1 .. n
        BY <2>8, <3>2
      <4>. QED BY <1>1, <2>8, <3>2, <4>1 DEF Account, Delivered, Entered, n
    <3>. QED BY <2>8, <3>1, <3>2
  <2>17. Delivered(o)' /\ Entered(o)'
    <3>1. CASE answering
      <4>1. o[1] = open[1] /\ open # <<>> /\ routing' = routing
            /\ taskBlockNudged' = taskBlockNudged
        BY <2>1, <2>8, <2>11, <3>1
      <4>2. Delivered(o)'
        BY <1>0, <1>1, <2>16, <4>1 DEF Account, Delivered
      <4>3. Entered(o)'
        BY <1>0, <1>1, <2>16, <4>1 DEF Account, Entered
      <4>. QED BY <4>2, <4>3
    <3>2. CASE ~answering
      <4>1. o[1] = t
        BY <2>8, <2>11, <3>2
      <4>. QED BY <1>0, <2>15, <2>16, <4>1 DEF Delivered, Entered
    <3>. QED BY <3>1, <3>2
  <2>18. Account(o)'
    BY <2>9, <2>10, <2>14, <2>17 DEF Account
  <2>. QED BY <1>6, <1>7, <1>8, <2>7, <2>8, <2>13, <2>18
<1>. QED BY <1>9, <1>10

-----------------------------------------------------------------------------
(* The runner's event handler                                              *)

\* The event at the head speaks of the oldest open turn.
LEMMA HeadSpeaks ==
  ASSUME TurnInv, NEW open \in Seq(Turn), Account(open), stream # <<>>
  PROVE  /\ stream \in Seq(Events) /\ fed \in Seq(Turn)
         /\ Head(stream) \in Events /\ Tail(stream) \in Seq(Events)
         /\ open # <<>> /\ open[1] = Head(stream).of /\ answering
         /\ open[1].r.to \in Ids \ (Waiting \union poller)
         /\ \A k \in 2 .. Len(open) : /\ open[k].r.to # open[1].r.to
                                      /\ open[k].r.to \in Ids
<1>1. stream \in Seq(Events) /\ fed \in Seq(Turn)
  BY DEF TurnInv, TypeOK, Events
<1>2. Head(stream) \in Events /\ Tail(stream) \in Seq(Events)
  BY <1>1
<1>3. open # <<>> /\ open[1] = Head(stream).of
  BY <1>1, ListsHead DEF Account
<1>4. answering
  BY <1>3 DEF Account, Agrees
<1>5. 1 \in DOMAIN open /\ \A k \in 2 .. Len(open) : k \in DOMAIN open /\ k # 1
  BY <1>3
<1>6. /\ open[1].r.to \in Ids \ (Waiting \union poller)
      /\ \A k \in 2 .. Len(open) : /\ open[k].r.to # open[1].r.to
                                   /\ open[k].r.to \in Ids
  BY <1>5 DEF Account, Apart
<1>. QED BY <1>1, <1>2, <1>3, <1>4, <1>6

\* Blocks sent before the result go out once, under the routing of the turn that
\* speaks (deliverMidTurnBlocks).
LEMMA MidTurnKeeps == ASSUME TurnInv, deliverMidTurnBlocks PROVE TurnInv'
<1>. USE DEF TurnInv
<1>0. /\ inQuery /\ settle = "none" /\ stream # <<>> /\ Head(stream).kind = "text"
      /\ stream' = Tail(stream)
      /\ UNCHANGED <<streams, msgs, ack, inQuery, batch, ended, fed, texts, settle,
                     routing, answering, pendingTurns, unwrappedNudged,
                     taskBlockNudged, poller, logged, crossed>>
  BY DEF deliverMidTurnBlocks, mailbox, provider, turn
<1>1. PICK open \in Seq(Turn) : Account(open)
  OBVIOUS
<1>2. /\ stream \in Seq(Events) /\ fed \in Seq(Turn)
      /\ Tail(stream) \in Seq(Events)
      /\ open # <<>> /\ open[1] = Head(stream).of
      /\ open[1].r.to \in Ids \ (Waiting \union poller)
      /\ \A k \in 2 .. Len(open) : /\ open[k].r.to # open[1].r.to
                                   /\ open[k].r.to \in Ids
  BY <1>0, <1>1, HeadSpeaks
<1>. DEFINE m == open[1].r.to
<1>3. /\ Ids' = Ids /\ Waiting' = Waiting /\ got \in [Ids -> Nat]
      /\ Ids = 1 .. Len(msgs) /\ Len(msgs) \in 0 .. MaxMsgs
  BY <1>0, IdsAreNumbers DEF Ids, Waiting, TypeOK
<1>31. /\ m \in Ids /\ m \in 0 .. MaxMsgs /\ 0 \in 0 .. MaxMsgs
       /\ said \subseteq 0 .. MaxMsgs
  <2>1. m \in 1 .. Len(msgs) /\ MaxMsgs \in Nat
    BY <1>2, <1>3, TurnAssumption
  <2>2. said \subseteq 0 .. MaxMsgs
    BY DEF TypeOK
  <2>. QED BY <1>3, <2>1, <2>2
<1>4. /\ got' \in [Ids -> Nat] /\ said' \subseteq 0 .. MaxMsgs /\ said \subseteq said'
      /\ \A i \in Ids : i # m => got'[i] = got[i]
      /\ got'[m] \in {0, 1}
      /\ got'[m] # 0 => m \in said' /\ ~routing.task /\ streams
  <2>1. got[m] <= 1 /\ got[m] \in Nat
    BY <1>2, <1>3 DEF BlockDeliveredOnce
  <2>2. got[m] # 0 => m \in said /\ ~routing.task /\ streams
    BY <1>0, <1>1, <1>2 DEF Account, Delivered
  <2>3. CASE streams /\ ~routing.task /\ m \notin said
    <3>1. got' = [got EXCEPT ![m] = @ + 1] /\ said' = said \union {m}
      BY <1>0, <1>2, <2>3 DEF deliverMidTurnBlocks, Delivers
    <3>2. got[m] = 0 /\ got'[m] = 1
      BY <1>3, <1>31, <2>1, <2>2, <2>3, <3>1
    <3>3. got' \in [Ids -> Nat] /\ \A i \in Ids : i # m => got'[i] = got[i]
      <4>. HIDE DEF m
      <4>. QED BY <1>3, <1>31, <2>1, <3>1
    <3>. QED BY <1>31, <2>3, <3>1, <3>2, <3>3
  <2>4. CASE ~(streams /\ ~routing.task /\ m \notin said)
    <3>1. got' = got /\ said' = said
      BY <1>0, <1>2, <2>4 DEF deliverMidTurnBlocks
    <3>. HIDE DEF m
    <3>. QED BY <1>3, <1>31, <2>1, <2>2, <3>1
  <2>. QED BY <2>3, <2>4
<1>5. TypeOK'
  BY <1>0, <1>2, <1>3, <1>4 DEF TypeOK, Events
<1>6. BlockDeliveredOnce'
  BY <1>3, <1>4 DEF BlockDeliveredOnce
<1>7. Untouched'
  <2>1. \A i \in Waiting \union poller : i \in Ids /\ i # m
    BY <1>2 DEF Waiting, TypeOK
  <2>. QED BY <1>0, <1>3, <1>4, <2>1 DEF Untouched
<1>8. Settling' /\ Outside'
  BY <1>0 DEF Settling, Outside
<1>9. Lists(open, stream', fed')
  BY <1>0, <1>1, <1>2, ListsHandled DEF Account
<1>10. Delivered(open)' /\ Entered(open)'
  <2>1. \A k \in 2 .. Len(open) : got'[open[k].r.to] = got[open[k].r.to]
    BY <1>2, <1>4
  <2>2. Delivered(open)'
    BY <1>0, <1>1, <1>4, <2>1 DEF Account, Delivered
  <2>3. Entered(open)'
    BY <1>0, <1>1 DEF Account, Entered
  <2>. QED BY <2>2, <2>3
<1>11. Account(open)'
  BY <1>0, <1>1, <1>3, <1>9, <1>10 DEF Account, Agrees, Flagged, Apart
<1>. QED BY <1>5, <1>6, <1>7, <1>8, <1>11

\* The handler of a result sends what is left, or asks for another try.
LEMMA DispatchKeeps == ASSUME TurnInv, dispatchResultText PROVE TurnInv'
<1>. USE DEF TurnInv
<1>0. /\ inQuery /\ settle = "none" /\ stream # <<>> /\ Head(stream).kind = "result"
      /\ ack' = Marked(batch, "completed")
      /\ UNCHANGED <<streams, msgs, inQuery, batch, ended, fed, texts, stream,
                     routing, answering, pendingTurns, unwrappedNudged,
                     taskBlockNudged, poller, crossed>>
  BY DEF dispatchResultText, provider, turn
<1>1. PICK open \in Seq(Turn) : Account(open)
  OBVIOUS
<1>2. /\ open # <<>> /\ open[1] = Head(stream).of
      /\ open[1].r.to \in Ids \ (Waiting \union poller)
      /\ \A k \in 2 .. Len(open) : /\ open[k].r.to # open[1].r.to
                                   /\ open[k].r.to \in Ids
  BY <1>0, <1>1, HeadSpeaks
<1>. DEFINE m == open[1].r.to
            b == Head(stream).body
<1>3. /\ Ids' = Ids /\ got \in [Ids -> Nat] /\ logged \in [Ids -> Nat]
      /\ Ids = 1 .. Len(msgs) /\ Len(msgs) \in 0 .. MaxMsgs
      /\ poller \subseteq Ids /\ batch \subseteq Ids
  BY <1>0, IdsAreNumbers DEF Ids, TypeOK
<1>31. /\ m \in Ids /\ m \in 0 .. MaxMsgs /\ 0 \in 0 .. MaxMsgs
       /\ said \subseteq 0 .. MaxMsgs
  <2>1. m \in 1 .. Len(msgs) /\ MaxMsgs \in Nat
    BY <1>2, <1>3, TurnAssumption
  <2>2. said \subseteq 0 .. MaxMsgs
    BY DEF TypeOK
  <2>. QED BY <1>3, <2>1, <2>2
<1>4. /\ ack' \in [Ids -> {"none", "processing", "completed", "skipped"}]
      /\ \A i \in Ids : ack'[i] = IF i \in batch THEN "completed" ELSE ack[i]
  BY <1>0 DEF Marked, TypeOK
<1>5. Waiting' = Waiting
  BY <1>3, <1>4 DEF Waiting, Untouched
<1>6. \A i \in poller : ack'[i] = "processing"
  BY <1>3, <1>4 DEF Untouched, TypeOK
<1>7. got[m] # 0 => m \in said /\ ~routing.task /\ streams
  BY <1>0, <1>1, <1>2 DEF Account, Delivered
<1>8. /\ got' \in [Ids -> Nat] /\ logged' \in [Ids -> Nat]
      /\ said' \subseteq 0 .. MaxMsgs
      /\ \A i \in Ids : i # m => got'[i] = got[i] /\ logged'[i] = logged[i]
      /\ got'[m] \in {0, 1}
      /\ got'[m] # 0 => m \in said' /\ ~routing.task /\ settle' = "close"
      /\ ~routing.task => logged' = logged
      /\ settle' \in {"wrap", "block", "close"}
      /\ settle' = "wrap" => ~routing.task /\ ~unwrappedNudged
      /\ settle' = "block" => routing.task /\ ~taskBlockNudged
      /\ routing.task => settle' # "wrap"
  <2>1. got[m] <= 1 /\ got[m] \in Nat /\ logged[m] \in Nat
    BY <1>2, <1>3 DEF BlockDeliveredOnce
  <2>3. CASE routing.task
    <3>1. /\ logged' = IF HasText(b) /\ ~taskBlockNudged
                       THEN [logged EXCEPT ![m] = @ + 1] ELSE logged
          /\ settle' = IF b = "block" /\ ~taskBlockNudged
                       THEN "block" ELSE "close"
          /\ got' = got /\ said' = said
      BY <1>2, <2>3 DEF dispatchResultText
    <3>2. got[m] = 0
      BY <1>7, <2>3
    <3>3. logged' \in [Ids -> Nat] /\ \A i \in Ids : i # m => logged'[i] = logged[i]
      <4>. HIDE DEF m
      <4>. QED BY <1>3, <1>31, <2>1, <3>1
    <3>. HIDE DEF m
    <3>. QED BY <1>3, <1>31, <2>3, <3>1, <3>2, <3>3
  <2>4. CASE ~routing.task
    <3>1. /\ logged' = logged
          /\ settle' = IF HasUnwrapped(b) /\ ~unwrappedNudged
                       THEN "wrap" ELSE "close"
      BY <2>4 DEF dispatchResultText
    <3>2. CASE b = "block" /\ ~streams
      <4>1. got' = [got EXCEPT ![m] = @ + 1] /\ said' = said \union {m}
        BY <1>2, <2>4, <3>2 DEF dispatchResultText, Delivers
      <4>2. ~HasUnwrapped(b) /\ got[m] = 0
        BY <1>7, <3>2 DEF HasUnwrapped
      <4>3. got'[m] = 1
        BY <1>3, <1>31, <4>1, <4>2
      <4>4. got' \in [Ids -> Nat] /\ \A i \in Ids : i # m => got'[i] = got[i]
        <5>. HIDE DEF m
        <5>. QED BY <1>3, <1>31, <2>1, <4>1
      <4>. HIDE DEF m
      <4>. QED BY <1>3, <1>31, <2>4, <3>1, <4>1, <4>2, <4>3, <4>4
    <3>3. CASE ~(b = "block" /\ ~streams)
      <4>1. /\ got' = got
            /\ said' = IF b \in {"error", "fault"} /\ sendsFailureNotice(routing)
                       THEN said \union {0} ELSE said
        BY <2>4, <3>3 DEF dispatchResultText
      <4>2. got[m] # 0 => ~HasUnwrapped(b)
        BY <1>7, <3>3 DEF HasUnwrapped
      <4>3. got[m] \in {0, 1} /\ said \subseteq said' /\ said' \subseteq 0 .. MaxMsgs
        BY <1>31, <2>1, <4>1
      <4>. HIDE DEF m
      <4>. QED BY <1>3, <1>7, <2>4, <3>1, <4>1, <4>2, <4>3
    <3>. QED BY <3>2, <3>3
  <2>. QED BY <2>3, <2>4
<1>. HIDE DEF b
<1>9. TypeOK'
  BY <1>0, <1>3, <1>4, <1>6, <1>8 DEF TypeOK
<1>10. BlockDeliveredOnce'
  <2>1. \A i \in Ids : got[i] <= 1
    BY DEF BlockDeliveredOnce
  <2>. HIDE DEF m
  <2>. QED BY <1>3, <1>8, <2>1 DEF BlockDeliveredOnce
<1>11. Untouched'
  <2>1. \A i \in Waiting \union poller : i \in Ids /\ i # m
    BY <1>2, <1>3 DEF Waiting
  <2>2. \A i \in batch : i \notin poller /\ ack'[i] # "none"
    BY <1>3, <1>4 DEF Untouched
  <2>. QED BY <1>0, <1>5, <1>8, <2>1, <2>2 DEF Untouched
<1>12. Settling' /\ Outside'
  BY <1>0, <1>8 DEF Settling, Outside
<1>13. Delivered(open)' /\ Entered(open)'
  <2>1. \A k \in 2 .. Len(open) : /\ got'[open[k].r.to] = got[open[k].r.to]
                                  /\ logged'[open[k].r.to] = logged[open[k].r.to]
    BY <1>2, <1>8
  <2>2. Delivered(open)'
    BY <1>0, <1>1, <1>8, <2>1 DEF Account, Delivered
  <2>3. Entered(open)'
    <3>1. ASSUME ~crossed, logged'[m] # 0
          PROVE  taskBlockNudged \/ settle' \in {"block", "close"}
      <4>1. CASE routing.task
        BY <1>8, <4>1
      <4>2. CASE ~routing.task
        BY <1>0, <1>1, <1>2, <1>8, <3>1, <4>2 DEF Account, Entered, Settling
      <4>. QED BY <4>1, <4>2
    <3>. QED BY <1>0, <1>1, <2>1, <3>1 DEF Account, Entered
  <2>. QED BY <2>2, <2>3
<1>14. Account(open)'
  BY <1>0, <1>1, <1>3, <1>5, <1>13 DEF Account, Agrees, Flagged, Apart
<1>. QED BY <1>9, <1>10, <1>11, <1>12, <1>14

\* The turn that is asked again goes behind those that were open.
LEMMA RetriesKeeps == ASSUME TurnInv, Retries PROVE TurnInv'
<1>. USE DEF TurnInv
<1>0. /\ settle \in {"wrap", "block"} /\ settle' = "none"
      /\ stream' = Tail(stream) /\ said' = {}
      /\ unwrappedNudged' = (unwrappedNudged \/ settle = "wrap")
      /\ taskBlockNudged' = (taskBlockNudged \/ settle = "block")
      /\ fed' = Append(fed, [Head(stream).of EXCEPT !.nth = @ + 1])
      /\ crossed' = (crossed \/ Unanswered > 1)
      /\ UNCHANGED <<streams, msgs, ack, inQuery, batch, ended, texts, routing,
                     answering, pendingTurns, poller, got, logged>>
  BY DEF Retries, mailbox
<1>1. PICK open \in Seq(Turn) : Account(open)
  OBVIOUS
<1>2. stream # <<>> /\ Head(stream).kind = "result"
  BY <1>0 DEF Settling
<1>3. /\ stream \in Seq(Events) /\ fed \in Seq(Turn)
      /\ Head(stream) \in Events /\ Tail(stream) \in Seq(Events)
      /\ open # <<>> /\ open[1] = Head(stream).of
  BY <1>1, <1>2, HeadSpeaks
<1>4. PICK t \in Turn : t = [open[1] EXCEPT !.nth = @ + 1]
  <2>1. open[1].r \in Routing /\ open[1].nth \in Nat /\ open[1] \in Turn
    <3>1. open[1] \in Turn
      BY <1>3
    <3>. QED BY <3>1 DEF Turn
  <2>2. [open[1] EXCEPT !.nth = @ + 1] \in Turn
    BY <2>1 DEF Turn
  <2>. QED BY <2>2
<1>5. t.r = open[1].r /\ t.nth = open[1].nth + 1
  <2>1. open[1] \in Turn
    BY <1>3
  <2>. QED BY <1>4, <2>1 DEF Turn
<1>6. fed' = Append(fed, t)
  BY <1>0, <1>3, <1>4
<1>. DEFINE rest == Tail(open)
            o == Append(rest, t)
            n == Len(open)
<1>7. /\ n \in Nat \ {0} /\ rest \in Seq(Turn) /\ o \in Seq(Turn)
      /\ Len(o) = n /\ o # <<>> /\ DOMAIN o = 1 .. n /\ DOMAIN open = 1 .. n
      /\ o[n] = t /\ \A k \in 1 .. n - 1 : o[k] = open[k + 1]
  <2>1. /\ n \in Nat \ {0} /\ rest \in Seq(Turn) /\ Len(rest) = n - 1
        /\ DOMAIN open = 1 .. n /\ \A k \in 1 .. n - 1 : rest[k] = open[k + 1]
    BY <1>3
  <2>. HIDE DEF rest
  <2>2. /\ o \in Seq(Turn) /\ Len(o) = n /\ o # <<>> /\ DOMAIN o = 1 .. n
        /\ o[n] = t /\ \A k \in 1 .. n - 1 : o[k] = rest[k]
    BY <2>1
  <2>. QED BY <2>1, <2>2
<1>8. Lists(o, stream', fed')
  <2>1. Lists(rest, Tail(stream), fed)
    BY <1>1, <1>2, <1>3, ListsHandled DEF Account
  <2>. HIDE DEF rest
  <2>2. Lists(o, Tail(stream), Append(fed, t))
    BY <1>3, <1>7, <2>1, ListsPrompt
  <2>. QED BY <1>0, <1>6, <2>2
<1>. HIDE DEF o, rest
<1>9. Unanswered = n
  BY <1>1 DEF Account, Lists, Unanswered
<1>. HIDE DEF n
<1>10. \A k \in 1 .. n : open[k].r.to \in Ids \ (Waiting \union poller)
  BY <1>1, <1>7 DEF Account, Apart
<1>11. Ids' = Ids /\ Waiting' = Waiting
  BY <1>0 DEF Ids, Waiting
<1>12. TypeOK'
  <2>1. fed' \in Seq(Turn)
    BY <1>3, <1>6
  <2>2. unwrappedNudged' \in BOOLEAN /\ taskBlockNudged' \in BOOLEAN /\ crossed' \in BOOLEAN
    BY <1>0
  <2>3. said' \subseteq 0 .. MaxMsgs /\ settle' \in {"none", "wrap", "block", "close"}
    BY <1>0
  <2>. QED BY <1>0, <1>3, <1>11, <2>1, <2>2, <2>3 DEF TypeOK, Events
<1>13. Untouched' /\ BlockDeliveredOnce'
  BY <1>0, <1>11 DEF Untouched, BlockDeliveredOnce
<1>14. Settling' /\ Outside'
  BY <1>0 DEF Settling, Outside
\* which turn is at which place now
<1>15. ASSUME NEW k \in 1 .. n
       PROVE  \/ k < n /\ k + 1 \in 2 .. n /\ o[k] = open[k + 1]
              \/ k = n /\ o[k] = t
  <2>1. CASE k < n
    BY <1>7, <2>1
  <2>2. CASE k = n
    BY <1>7, <2>2
  <2>. QED BY <1>7, <2>1, <2>2
<1>16. crossed' = FALSE => n = 1 /\ ~crossed
  <2>1. crossed' = FALSE => ~crossed /\ ~(Unanswered > 1)
    BY <1>0, Zenon
  <2>. QED BY <1>7, <1>9, <2>1
<1>17. n = 1 => o[1] = t
  BY <1>15
<1>18. answering /\ n = Len(pendingTurns) + 1
  BY <1>1, <1>3 DEF Account, Agrees, n
<1>19. Agrees(o)'
  <2>1. ASSUME ~crossed'
        PROVE  /\ o[1].r = routing /\ DOMAIN pendingTurns = {}
    <3>1. crossed' = FALSE
      BY <1>0, <2>1
    <3>2. DOMAIN pendingTurns = {}
      <4>1. pendingTurns \in Seq(Routing)
        BY DEF TypeOK
      <4>. QED BY <1>16, <1>18, <3>1, <4>1
    <3>. QED BY <1>1, <1>5, <1>16, <1>17, <1>18, <3>1, <3>2 DEF Account, Agrees
  <2>. QED BY <1>0, <1>7, <1>18, <2>1 DEF Agrees
<1>20. Flagged(o)'
  <2>1. ASSUME ~crossed' PROVE o[1].nth = 1 /\ n = 1
    <3>1. crossed' = FALSE
      BY <1>0, <2>1
    <3>2. ~unwrappedNudged /\ ~taskBlockNudged
      BY <1>0 DEF Settling
    <3>3. open[1].nth = 0
      BY <1>1, <1>3, <1>16, <3>1, <3>2 DEF Account, Flagged
    <3>. QED BY <1>5, <1>16, <1>17, <3>1, <3>3
  <2>2. unwrappedNudged' \/ taskBlockNudged'
    BY <1>0
  <2>3. n = 1 => 2 .. Len(o) = {}
    BY <1>7
  <2>. QED BY <2>1, <2>2, <2>3 DEF Flagged
<1>21. Apart(o)'
  <2>1. \A k \in 1 .. n : o[k].r.to \in Ids \ (Waiting \union poller)
    <3>. TAKE k \in 1 .. n
    <3>1. 1 \in 1 .. n
      BY <1>7
    <3>2. k + 1 \in 2 .. n => k + 1 \in 1 .. n
      OBVIOUS
    <3>. QED BY <1>5, <1>10, <1>15, <3>1, <3>2
  <2>2. ASSUME NEW j \in 1 .. n, NEW k \in 1 .. n, j # k
        PROVE  o[j].r.to # o[k].r.to
    <3>1. \A i, l \in 1 .. n : i # l => open[i].r.to # open[l].r.to
      BY <1>1, <1>7 DEF Account, Apart
    <3>2. 1 \in 1 .. n /\ (k < n => k + 1 \in 1 .. n /\ k + 1 # 1)
                       /\ (j < n => j + 1 \in 1 .. n /\ j + 1 # 1)
      BY <1>7
    <3>3. CASE j = n
      <4>1. k < n
        BY <1>7, <2>2, <3>3
      <4>. QED BY <1>5, <1>15, <3>1, <3>2, <3>3, <4>1
    <3>4. CASE k = n
      <4>1. j < n
        BY <1>7, <2>2, <3>4
      <4>. QED BY <1>5, <1>15, <3>1, <3>2, <3>4, <4>1
    <3>5. CASE j < n /\ k < n
      <4>1. j + 1 # k + 1
        BY <2>2
      <4>2. o[j] = open[j + 1] /\ o[k] = open[k + 1]
        BY <1>15, <3>5
      <4>. QED BY <3>1, <3>2, <3>5, <4>1, <4>2
    <3>. QED BY <1>7, <3>3, <3>4, <3>5
  <2>. QED BY <1>0, <1>7, <1>11, <2>1, <2>2 DEF Apart
<1>22. Delivered(o)' /\ Entered(o)'
  <2>1. got[open[1].r.to] = 0
    BY <1>0, <1>1, <1>3 DEF Account, Delivered
  <2>2. \A k \in 1 .. n : got[o[k].r.to] = 0
    BY <1>1, <1>5, <1>15, <2>1 DEF Account, Delivered, n
  <2>3. 1 \in 1 .. n /\ 2 .. Len(o) \subseteq 1 .. n
    BY <1>7
  <2>4. Delivered(o)'
    BY <1>0, <2>2, <2>3 DEF Delivered
  <2>5. ASSUME ~crossed', logged[o[1].r.to] # 0 PROVE taskBlockNudged'
    <3>1. crossed' = FALSE
      BY <1>0, <2>5
    <3>2. logged[open[1].r.to] # 0
      BY <1>5, <1>16, <1>17, <2>5, <3>1
    <3>. QED BY <1>0, <1>1, <1>3, <1>16, <3>1, <3>2 DEF Account, Entered
  <2>6. ~crossed' => 2 .. Len(o) = {}
    BY <1>0, <1>7, <1>16
  <2>7. Entered(o)'
    BY <1>0, <2>5, <2>6 DEF Entered
  <2>. QED BY <2>4, <2>7
<1>23. Account(o)'
  BY <1>8, <1>19, <1>20, <1>21, <1>22 DEF Account
<1>. QED BY <1>7, <1>12, <1>13, <1>14, <1>23

\* A result that closes its turn hands the routing to the next in the queue.
LEMMA ClosesKeeps == ASSUME TurnInv, ClosesTurn PROVE TurnInv'
<1>. USE DEF TurnInv
<1>0. /\ settle = "close" /\ settle' = "none"
      /\ stream' = Tail(stream) /\ said' = {}
      /\ UNCHANGED <<streams, msgs, ack, inQuery, batch, ended, fed, texts,
                     poller, got, logged>>
      /\ pendingTurns # <<>> =>
           /\ routing' = Head(pendingTurns) /\ pendingTurns' = Tail(pendingTurns)
           /\ unwrappedNudged' = FALSE /\ taskBlockNudged' = FALSE
           /\ UNCHANGED <<answering, crossed>>
      /\ pendingTurns = <<>> =>
           /\ answering' = FALSE /\ crossed' = FALSE
           /\ UNCHANGED <<routing, pendingTurns, unwrappedNudged, taskBlockNudged>>
  BY DEF ClosesTurn, mailbox, provider
<1>1. PICK open \in Seq(Turn) : Account(open)
  OBVIOUS
<1>2. stream # <<>> /\ Head(stream).kind = "result"
  BY <1>0 DEF Settling
<1>3. /\ stream \in Seq(Events) /\ fed \in Seq(Turn)
      /\ Tail(stream) \in Seq(Events) /\ open # <<>> /\ answering
      /\ pendingTurns \in Seq(Routing)
  BY <1>1, <1>2, HeadSpeaks DEF TypeOK
<1>. DEFINE o == Tail(open)
            n == Len(open)
<1>4. /\ n \in Nat \ {0} /\ o \in Seq(Turn) /\ Len(o) = n - 1
      /\ DOMAIN o = 1 .. n - 1 /\ DOMAIN open = 1 .. n
      /\ \A k \in 1 .. n - 1 : o[k] = open[k + 1]
  BY <1>3
<1>5. Lists(o, stream', fed')
  BY <1>0, <1>1, <1>2, <1>3, ListsHandled DEF Account
<1>6. n = Len(pendingTurns) + 1
  BY <1>1, <1>3 DEF Account, Agrees
<1>. HIDE DEF o
<1>7. o # <<>> <=> n > 1
  <2>. HIDE DEF n, TurnInv
  <2>. QED BY <1>4
<1>8. Ids' = Ids /\ Waiting' = Waiting
  BY <1>0 DEF Ids, Waiting
<1>9. pendingTurns' \in Seq(Routing) /\ routing' \in Routing
  <2>1. CASE pendingTurns # <<>>
    <3>1. Head(pendingTurns) \in Routing /\ Tail(pendingTurns) \in Seq(Routing)
      BY <1>3, <2>1
    <3>. QED BY <1>0, <2>1, <3>1
  <2>2. CASE pendingTurns = <<>>
    BY <1>0, <1>3, <2>2 DEF TypeOK
  <2>. QED BY <2>1, <2>2
<1>10. TypeOK'
  <2>1. /\ answering' \in BOOLEAN /\ crossed' \in BOOLEAN
        /\ unwrappedNudged' \in BOOLEAN /\ taskBlockNudged' \in BOOLEAN
    BY <1>0 DEF TypeOK
  <2>. QED BY <1>0, <1>3, <1>8, <1>9, <2>1 DEF TypeOK, Events
<1>11. Untouched' /\ BlockDeliveredOnce'
  BY <1>0, <1>8 DEF Untouched, BlockDeliveredOnce
<1>12. Settling' /\ Outside'
  <2>1. inQuery
    BY <1>2 DEF Outside
  <2>2. CASE pendingTurns # <<>>
    BY <1>0, <2>1, <2>2 DEF Settling, Outside
  <2>3. CASE pendingTurns = <<>>
    BY <1>0, <2>1, <2>3 DEF Settling, Outside
  <2>. QED BY <2>2, <2>3
<1>13. Apart(o)'
  <2>1. \A k \in 1 .. n - 1 : k + 1 \in 1 .. n
    BY <1>4
  <2>2. \A j, k \in 1 .. n - 1 : j # k => j + 1 # k + 1
    BY <1>4
  <2>. HIDE DEF n
  <2>3. \A k \in 1 .. n - 1 : o[k].r.to \in Ids \ (Waiting \union poller)
    BY <1>1, <1>4, <2>1 DEF Account, Apart
  <2>4. \A j, k \in 1 .. n - 1 : j # k => o[j].r.to # o[k].r.to
    <3>. TAKE j, k \in 1 .. n - 1
    <3>1. /\ j + 1 \in DOMAIN open /\ k + 1 \in DOMAIN open
          /\ j # k => j + 1 # k + 1
      BY <1>4, <2>1, <2>2
    <3>2. j # k => open[j + 1].r.to # open[k + 1].r.to
      BY <1>1, <3>1 DEF Account, Apart
    <3>. QED BY <1>4, <3>2
  <2>. QED BY <1>0, <1>4, <1>8, <2>3, <2>4 DEF Apart
<1>14. \A k \in 1 .. n - 1 : /\ k + 1 \in 2 .. n
                             /\ got[o[k].r.to] = 0
                             /\ ~crossed => /\ logged[o[k].r.to] = 0
                                            /\ o[k].nth = 0
  <2>. TAKE k \in 1 .. n - 1
  <2>1. k + 1 \in 2 .. n
    BY <1>4
  <2>. QED BY <1>1, <1>4, <2>1 DEF Account, Delivered, Entered, Flagged
<1>15. 2 .. Len(o) \subseteq 1 .. n - 1 /\ (o # <<>> => 1 \in 1 .. n - 1)
  BY <1>4, <1>7
<1>. HIDE DEF n
<1>16. CASE pendingTurns # <<>>
  <2>1. /\ Len(pendingTurns') = Len(pendingTurns) - 1
        /\ Len(pendingTurns) \in Nat \ {0}
        /\ routing' = pendingTurns[1]
        /\ DOMAIN pendingTurns' = 1 .. Len(pendingTurns) - 1
        /\ \A k \in 1 .. Len(pendingTurns) - 1 :
             pendingTurns'[k] = pendingTurns[k + 1]
    <3>. DEFINE q == Tail(pendingTurns)
    <3>1. /\ Len(q) = Len(pendingTurns) - 1 /\ Len(pendingTurns) \in Nat \ {0}
          /\ Head(pendingTurns) = pendingTurns[1]
          /\ DOMAIN q = 1 .. Len(pendingTurns) - 1
          /\ \A k \in 1 .. Len(pendingTurns) - 1 : q[k] = pendingTurns[k + 1]
      BY <1>3, <1>16
    <3>2. pendingTurns' = q /\ routing' = Head(pendingTurns)
      BY <1>0, <1>16
    <3>. HIDE DEF q
    <3>. QED BY <3>1, <3>2
  <2>2. ASSUME ~crossed, NEW k \in DOMAIN pendingTurns PROVE o[k].r = pendingTurns[k]
    <3>1. k \in 1 .. n - 1
      BY <1>3, <1>6
    <3>2. open[k + 1].r = pendingTurns[k]
      BY <1>1, <2>2 DEF Account, Agrees
    <3>. QED BY <1>4, <3>1, <3>2
  <2>3. /\ 1 \in DOMAIN pendingTurns
        /\ \A k \in 1 .. Len(pendingTurns) - 1 : k + 1 \in DOMAIN pendingTurns
    BY <1>3, <2>1
  <2>4. o # <<>> /\ Len(o) = Len(pendingTurns') + 1
    BY <1>4, <1>6, <1>7, <2>1
  <2>5. Agrees(o)'
    <3>1. ASSUME ~crossed' PROVE o[1].r = routing'
      BY <1>0, <1>16, <2>1, <2>2, <2>3, <3>1
    <3>2. ASSUME ~crossed', NEW k \in DOMAIN pendingTurns'
          PROVE  o[k + 1].r = pendingTurns'[k]
      <4>1. ~crossed
        BY <1>0, <1>16, <3>2
      <4>2. k \in 1 .. Len(pendingTurns) - 1 /\ k + 1 \in DOMAIN pendingTurns
        BY <2>1, <2>3, <3>2
      <4>. QED BY <2>1, <2>2, <4>1, <4>2
    <3>3. answering'
      BY <1>0, <1>3, <1>16
    <3>. QED BY <2>4, <3>1, <3>2, <3>3 DEF Agrees
  <2>6. Flagged(o)'
    BY <1>0, <1>14, <1>15, <1>16 DEF Flagged
  <2>7. Delivered(o)' /\ Entered(o)'
    <3>1. Delivered(o)'
      BY <1>0, <1>14, <1>15 DEF Delivered
    <3>2. Entered(o)'
      BY <1>0, <1>14, <1>15, <1>16 DEF Entered
    <3>. QED BY <3>1, <3>2
  <2>8. Account(o)'
    BY <1>5, <1>13, <2>5, <2>6, <2>7 DEF Account
  <2>. QED BY <1>4, <1>10, <1>11, <1>12, <2>8
<1>17. CASE pendingTurns = <<>>
  <2>1. o = <<>> /\ Len(o) = 0
    BY <1>4, <1>6, <1>7, <1>17
  <2>2. 2 .. Len(o) = {} /\ DOMAIN pendingTurns' = {}
    BY <1>0, <1>17, <2>1
  <2>3. Agrees(o)' /\ Flagged(o)' /\ Delivered(o)' /\ Entered(o)'
    BY <1>0, <1>17, <2>1, <2>2 DEF Agrees, Flagged, Delivered, Entered
  <2>4. Account(o)'
    BY <1>5, <1>13, <2>3 DEF Account
  <2>. QED BY <1>4, <1>10, <1>11, <1>12, <2>4
<1>. QED BY <1>16, <1>17

-----------------------------------------------------------------------------
(* The invariant and what follows from it                                  *)

\* Every step keeps the turns accounted for.
LEMMA NextKeeps == TurnInv /\ [Next]_vars => TurnInv'
<1>. SUFFICES ASSUME TurnInv, [Next]_vars PROVE TurnInv'
  OBVIOUS
<1>1. CASE Next
  <2>1. \/ Arrives \/ runPollLoop \/ QueryEnds
        \/ Aborts \/ TakesFollowUps \/ Pushes
        \/ SpeaksMidTurn \/ EndsTurn \/ SendsByTool
        \/ deliverMidTurnBlocks \/ dispatchResultText \/ Retries \/ ClosesTurn
    BY <1>1, Zenon DEF Next, Handle
  <2>. QED BY <2>1, ArrivesKeeps, PollKeeps, EndsKeeps, AbortsKeeps, TakesKeeps,
              PushesKeeps, SpeaksKeeps, EndsTurnKeeps, ToolKeeps, MidTurnKeeps,
              DispatchKeeps, RetriesKeeps, ClosesKeeps, Zenon
<1>2. CASE UNCHANGED vars
  <2>. USE <1>2 DEF vars, mailbox, provider, turn, ghosts
  <2>0. PICK open \in Seq(Turn) : Account(open)
    BY DEF TurnInv
  <2>1. Ids' = Ids /\ Waiting' = Waiting
    BY DEF Ids, Waiting
  <2>2. TypeOK'
    BY <2>1 DEF TurnInv, TypeOK
  <2>3. Settling' /\ Untouched' /\ Outside' /\ BlockDeliveredOnce'
    BY <2>1 DEF TurnInv, Settling, Untouched, Outside, BlockDeliveredOnce
  <2>4. Account(open)'
    BY <2>0, <2>1 DEF Account, Agrees, Flagged, Apart, Delivered, Entered
  <2>. QED BY <2>2, <2>3, <2>4 DEF TurnInv
<1>. QED BY <1>1, <1>2

\* The runner's account of the open turns and the provider's never part:
\* the invariant is inductive (poll-loop.ts, processQuery).
THEOREM TurnsAddUp == Spec => []TurnInv
<1>. QED BY Initially, NextKeeps, PTL DEF Spec

\* Places of events and prompts among the open turns.
LEMMA Places ==
  ASSUME TurnInv, NEW open \in Seq(Turn), Account(open)
  PROVE  /\ \A i \in DOMAIN stream :
              /\ Results(stream, i - 1) + 1 \in DOMAIN open
              /\ stream[i].of = open[Results(stream, i - 1) + 1]
         /\ \A k \in DOMAIN fed :
              /\ Results(stream, Len(stream)) + k \in DOMAIN open
              /\ fed[k] = open[Results(stream, Len(stream)) + k]
         /\ Unanswered = Len(open)
<1>1. /\ stream \in Seq(Events) /\ fed \in Seq(Turn) /\ Len(stream) \in Nat
      /\ DOMAIN stream = 1 .. Len(stream) /\ DOMAIN fed = 1 .. Len(fed)
      /\ DOMAIN open = 1 .. Len(open) /\ Len(open) \in Nat /\ Len(fed) \in Nat
  BY DEF TurnInv, TypeOK, Events
<1>2. Lists(open, stream, fed)
  BY DEF Account
<1>3. Results(stream, Len(stream)) \in Nat
  <2>1. Results(stream, Len(stream)) \in 0 .. Len(stream)
    BY <1>1, ResultsType
  <2>. QED BY <2>1
<1>4. ASSUME NEW i \in DOMAIN stream
      PROVE  /\ Results(stream, i - 1) + 1 \in DOMAIN open
             /\ stream[i].of = open[Results(stream, i - 1) + 1]
  <2>1. i - 1 \in Nat /\ i \in 1 .. Len(stream)
    BY <1>1
  <2>2. Results(stream, i - 1) \in 0 .. i - 1
    BY <2>1, ResultsType
  <2>3. /\ Results(stream, i - 1) < Len(open)
        /\ stream[i].of = open[Results(stream, i - 1) + 1]
    BY <1>2, <2>1 DEF Lists
  <2>. QED BY <1>1, <2>2, <2>3
<1>5. ASSUME NEW k \in DOMAIN fed
      PROVE  /\ Results(stream, Len(stream)) + k \in DOMAIN open
             /\ fed[k] = open[Results(stream, Len(stream)) + k]
  <2>1. Len(open) = Results(stream, Len(stream)) + Len(fed)
    BY <1>2 DEF Lists
  <2>2. fed[k] = open[Results(stream, Len(stream)) + k]
    BY <1>1, <1>2 DEF Lists
  <2>. QED BY <1>1, <1>3, <2>1, <2>2
<1>. QED BY <1>2, <1>4, <1>5 DEF Lists, Unanswered

\* What the runner believes, turn by turn.
LEMMA BelievedIs ==
  ASSUME TurnInv, NEW open \in Seq(Turn), Account(open)
  PROVE  /\ Len(Believed) = Len(open) /\ DOMAIN Believed = DOMAIN open
         /\ ~crossed => \A k \in DOMAIN open : Believed[k] = open[k].r
<1>. DEFINE n == Len(pendingTurns)
<1>1. /\ pendingTurns \in Seq(Routing) /\ routing \in Routing
      /\ n \in Nat /\ DOMAIN pendingTurns = 1 .. n
      /\ DOMAIN open = 1 .. Len(open)
  BY DEF TurnInv, TypeOK
<1>2. CASE answering
  <2>1. /\ Believed = <<routing>> \o pendingTurns /\ Len(open) = n + 1
    BY <1>2 DEF Believed, Account, Agrees
  <2>2. /\ Len(Believed) = n + 1 /\ DOMAIN Believed = 1 .. n + 1
        /\ Believed[1] = routing
        /\ \A k \in 2 .. n + 1 : Believed[k] = pendingTurns[k - 1]
    <3>. DEFINE b == <<routing>> \o pendingTurns
    <3>1. /\ b \in Seq(Routing) /\ Len(b) = n + 1 /\ b[1] = routing
          /\ \A k \in 2 .. n + 1 : b[k] = pendingTurns[k - 1]
      BY <1>1
    <3>. HIDE DEF b
    <3>2. DOMAIN b = 1 .. n + 1
      BY <1>1, <3>1
    <3>. QED BY <2>1, <3>1, <3>2 DEF b
  <2>3. ASSUME ~crossed, NEW k \in 1 .. n + 1 PROVE Believed[k] = open[k].r
    <3>1. CASE k = 1
      BY <1>2, <2>2, <2>3, <3>1 DEF Account, Agrees
    <3>2. CASE k \in 2 .. n + 1
      <4>1. k - 1 \in DOMAIN pendingTurns /\ (k - 1) + 1 = k
        BY <1>1, <3>2
      <4>2. open[(k - 1) + 1].r = pendingTurns[k - 1]
        BY <2>3, <4>1 DEF Account, Agrees
      <4>. QED BY <2>2, <3>2, <4>1, <4>2
    <3>. QED BY <1>1, <3>1, <3>2
  <2>. QED BY <1>1, <2>1, <2>2, <2>3
<1>3. CASE ~answering
  <2>1. Believed = <<>> /\ open = <<>>
    BY <1>3 DEF Believed, Account, Agrees
  <2>. QED BY <2>1
<1>. QED BY <1>2, <1>3

\* The runner's count of open turns is right, and none is asked again twice
\* (poll-loop.ts:549 and 391).
THEOREM RunnerKeepsCount == Spec => []TurnInvariant
<1>1. TurnInv => TurnInvariant
  <2>. SUFFICES ASSUME TurnInv PROVE TurnInvariant
    OBVIOUS
  <2>1. PICK open \in Seq(Turn) : Account(open)
    BY DEF TurnInv
  <2>2. IdleIsKnown
    BY <2>1, Places, BelievedIs DEF IdleIsKnown
  <2>3. RetriedOnce
    <3>. SUFFICES ASSUME ~crossed PROVE \A k \in DOMAIN open : open[k].nth <= 1
      BY <2>1, Places DEF RetriedOnce
    <3>. TAKE k \in DOMAIN open
    <3>1. k \in 1 .. Len(open) /\ open # <<>>
      OBVIOUS
    <3>2. CASE k = 1
      BY <2>1, <3>1, <3>2 DEF Account, Flagged
    <3>3. CASE k \in 2 .. Len(open)
      BY <2>1, <3>3 DEF Account, Flagged
    <3>. QED BY <3>1, <3>2, <3>3
  <2>. QED BY <2>2, <2>3 DEF TurnInv, TurnInvariant
<1>. QED BY <1>1, TurnsAddUp, PTL

\* Events and prompts meet the routing of their own turn, as long as no retry
\* went behind a follow-up (poll-loop.ts:441).
THEOREM OwnRouting == Spec => []AnsweredUnderOwnRouting
<1>1. TurnInv => AnsweredUnderOwnRouting
  <2>. SUFFICES ASSUME TurnInv, ~crossed PROVE UnderOwnRouting
    BY DEF AnsweredUnderOwnRouting
  <2>1. PICK open \in Seq(Turn) : Account(open)
    BY DEF TurnInv
  <2>2. /\ DOMAIN Believed = DOMAIN open
        /\ \A k \in DOMAIN open : Believed[k] = open[k].r
    BY <2>1, BelievedIs
  <2>. QED BY <2>1, <2>2, Places DEF UnderOwnRouting
<1>. QED BY <1>1, TurnsAddUp, PTL

\* No block is written twice, not even when turns are out of step
\* (deliverMidTurnBlocks' echo guard).
THEOREM BlocksGoOutOnce == Spec => []BlockDeliveredOnce
<1>1. TurnInv => BlockDeliveredOnce
  BY DEF TurnInv
<1>. QED BY <1>1, TurnsAddUp, PTL

-----------------------------------------------------------------------------
(* What a step of the handler may never do                                 *)

\* Only the handler writes blocks and the run log, at an event of the oldest
\* open turn, whose routing it holds while the turns are in step.
LEMMA HandlerWrites ==
  ASSUME TurnInv, [Next]_vars, ~crossed
  PROVE  \A m \in Ids :
           /\ got'[m] # got[m] => ~Head(stream).of.r.task
           /\ logged'[m] # logged[m] => logged[m] = 0
<1>1. Ids = 1 .. Len(msgs) /\ got \in [Ids -> Nat] /\ logged \in [Ids -> Nat]
  BY IdsAreNumbers DEF TurnInv, TypeOK
<1>2. CASE deliverMidTurnBlocks \/ dispatchResultText
  <2>1. /\ settle = "none" /\ stream # <<>>
        /\ (got' # got => ~routing.task)
        /\ (logged' # logged =>
              /\ routing.task /\ ~taskBlockNudged
              /\ logged' = [logged EXCEPT ![Head(stream).of.r.to] = @ + 1])
    BY <1>2 DEF deliverMidTurnBlocks, dispatchResultText
  <2>2. PICK open \in Seq(Turn) : Account(open)
    BY DEF TurnInv
  <2>3. open # <<>> /\ open[1] = Head(stream).of /\ answering
    BY <2>1, <2>2, HeadSpeaks
  <2>4. Head(stream).of.r = routing
    BY <2>2, <2>3 DEF Account, Agrees
  <2>5. ~taskBlockNudged => logged[Head(stream).of.r.to] = 0
    BY <2>1, <2>2, <2>3 DEF Account, Entered
  <2>. QED BY <1>1, <2>1, <2>4, <2>5
<1>3. CASE Arrives
  <2>1. Len(msgs) \in Nat
    BY IdsAreNumbers DEF TurnInv
  <2>2. \A m \in Ids : got'[m] = got[m] /\ logged'[m] = logged[m]
    <3>1. got' = Append(got, 0) /\ logged' = Append(logged, 0)
      BY <1>3 DEF Arrives
    <3>2. \A m \in 1 .. Len(msgs) : Append(got, 0)[m] = got[m]
      BY <1>1, <2>1, AppendedRow
    <3>3. \A m \in 1 .. Len(msgs) : Append(logged, 0)[m] = logged[m]
      BY <1>1, <2>1, AppendedRow
    <3>. QED BY <1>1, <3>1, <3>2, <3>3
  <2>. QED BY <2>2
<1>4. CASE \/ runPollLoop \/ QueryEnds \/ Aborts \/ TakesFollowUps \/ Pushes
           \/ SpeaksMidTurn \/ EndsTurn \/ SendsByTool \/ Retries \/ ClosesTurn
           \/ UNCHANGED vars
  <2>1. got' = got /\ logged' = logged
    BY <1>4, Zenon DEF runPollLoop, QueryEnds, Aborts, TakesFollowUps, Pushes,
       SpeaksMidTurn, EndsTurn, SendsByTool, Retries, ClosesTurn, vars, ghosts
  <2>. QED BY <2>1
<1>. QED BY <1>2, <1>3, <1>4, Zenon DEF Next, Handle

\* The close of a chat turn that had something to say.
LEMMA CloseIsHeard ==
  ASSUME TurnInv, [Next]_vars, settle = "none", settle' = "close", ~crossed,
         ~Head(stream).of.r.task, Head(stream).body \in {"block", "prose"}
  PROVE  said' # {} \/ Head(stream).of.nth > 0
<1>1. dispatchResultText
  <2>1. CASE UNCHANGED vars
    BY <2>1 DEF vars
  <2>2. CASE \/ Arrives \/ runPollLoop \/ QueryEnds \/ Aborts \/ TakesFollowUps
             \/ Pushes \/ SpeaksMidTurn \/ EndsTurn \/ SendsByTool
             \/ deliverMidTurnBlocks \/ Retries \/ ClosesTurn
    <3>1. settle' = settle \/ settle' = "none"
      BY <2>2, Zenon DEF Arrives, runPollLoop, QueryEnds, Closed, Aborts,
         TakesFollowUps, Pushes, SpeaksMidTurn, EndsTurn, SendsByTool,
         deliverMidTurnBlocks, Retries, ClosesTurn
    <3>. QED BY <3>1
  <2>. QED BY <2>1, <2>2, Zenon DEF Next, Handle
<1>2. PICK open \in Seq(Turn) : Account(open)
  BY DEF TurnInv
<1>3. /\ open # <<>> /\ open[1] = Head(stream).of /\ answering
      /\ Head(stream).of.r = routing
  <2>1. stream # <<>>
    BY <1>1 DEF dispatchResultText
  <2>2. open # <<>> /\ open[1] = Head(stream).of /\ answering
    BY <1>2, <2>1, HeadSpeaks
  <2>. QED BY <1>2, <2>2 DEF Account, Agrees
<1>. DEFINE b == Head(stream).body
            m == Head(stream).of.r.to
<1>4. CASE b = "block" /\ ~streams
  <2>1. said' = said \union {m}
    BY <1>1, <1>3, <1>4 DEF dispatchResultText, Delivers
  <2>. QED BY <2>1
<1>5. CASE ~(b = "block" /\ ~streams)
  <2>1. /\ said \subseteq said'
        /\ settle' = IF HasUnwrapped(b) /\ ~unwrappedNudged THEN "wrap" ELSE "close"
    BY <1>1, <1>3, <1>5 DEF dispatchResultText
  <2>2. ~HasUnwrapped(b) \/ unwrappedNudged
    BY <2>1
  <2>3. CASE ~HasUnwrapped(b)
    <3>1. said # {}
      BY <1>5, <2>3 DEF HasUnwrapped
    <3>. QED BY <2>1, <3>1
  <2>4. CASE unwrappedNudged
    <3>1. open[1].nth = 1
      BY <1>2, <1>3, <2>4 DEF Account, Flagged
    <3>. QED BY <1>3, <3>1
  <2>. QED BY <2>2, <2>3, <2>4
<1>. QED BY <1>4, <1>5

\* A task's text goes to its run log, once, and a chat turn that had something
\* to say is not closed unheard (poll-loop.ts:1137, dispatchResultText).
THEOREM HeardOnce == Spec => TurnIsHeardOnce
<1>1. TurnInv /\ [Next]_vars =>
        [~crossed => \A m \in Ids :
           /\ got'[m] # got[m] => ~Head(stream).of.r.task
           /\ logged'[m] # logged[m] => logged[m] = 0]_vars
  BY HandlerWrites
<1>2. TurnInv /\ [Next]_vars =>
        [settle = "none" /\ settle' = "close" /\ ~crossed =>
           LET e == Head(stream) IN
           (~e.of.r.task /\ e.body \in {"block", "prose"})
             => said' # {} \/ e.of.nth > 0]_vars
  BY CloseIsHeard
<1>3. Spec => OneDoorForTasks
  BY <1>1, TurnsAddUp, PTL DEF Spec, OneDoorForTasks
<1>4. Spec => NothingSilentlyDropped
  BY <1>2, TurnsAddUp, PTL DEF Spec, NothingSilentlyDropped
<1>. QED BY <1>3, <1>4 DEF TurnIsHeardOnce
=============================================================================
