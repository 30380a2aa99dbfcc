------------------------ MODULE AttachmentCacheProofs ------------------------
(***************************************************************************)
(* Proofs about AttachmentCache, for any users, media, components and      *)
(* limits: the fetch slots are never lost or given twice, they are given   *)
(* in the order of arrival, and a medium is fetched twice at once only for *)
(* a user who has left and come back.  What is cached and shown belongs to *)
(* its user, and stays until an eviction takes it.                         *)
(***************************************************************************)
EXTENDS AttachmentCache, TLAPS, FiniteSetTheorems, SequenceTheorems

\* A call on its way: in the line or in a slot.
Moving == {"queued", "fetching", "delayed"}

InSlot(c) == {k \in Calls : c[k].stage \in {"fetching", "delayed"}}
InLine(c) == {k \in Calls : c[k].stage = "queued"}

Distinct(s) == \A i, j \in 1..Len(s) : s[i] = s[j] => i = j
Elements(s) == {s[i] : i \in 1..Len(s)}

\* A pool of which `owed` slots have been given up and not yet handed on.
PoolOK(p, owed) ==
  /\ p.call \in [Calls -> CallRecord]
  /\ p.waiters \in Seq(Calls) /\ Distinct(p.waiters)
  /\ Elements(p.waiters) = InLine(p.call)
  /\ p.active = Cardinality(InSlot(p.call)) + owed /\ p.active <= MaxFetches
  /\ p.waiters # <<>> => p.active = MaxFetches

\* Calls of one user for one medium.
Alike(c, j, k) == c[j].user = c[k].user /\ c[j].medium = c[k].medium

\* Who awaits a flight does nothing else, wants what it fetches, and waits for
\* that one only.
CrewOK(c) ==
  /\ \A k \in Calls : \A i \in 1..Len(c[k].crew) :
       c[c[k].crew[i]].stage = "following" /\ Alike(c, c[k].crew[i], k)
  /\ \A j, k \in Calls : \A a \in 1..Len(c[j].crew), b \in 1..Len(c[k].crew) :
       c[j].crew[a] = c[k].crew[b] => j = k /\ a = b

USE BoundsAssumption, NoneAssumption

\* The holders of slots are finitely many.
LEMMA SlotsFinite == ASSUME NEW c PROVE IsFiniteSet(InSlot(c)) /\ Cardinality(InSlot(c)) \in Nat
<1>1. IsFiniteSet(Calls)
  BY FS_Interval DEF BoundsAssumption, Calls
<1>2. InSlot(c) \in SUBSET Calls
  BY DEF InSlot
<1>3. QED
  BY <1>1, <1>2, FS_Subset, FS_CardinalityType

\* A line without repetitions has as many elements as places.
LEMMA DistinctCount ==
  ASSUME NEW S, NEW s \in Seq(S), Distinct(s)
  PROVE  IsFiniteSet(Elements(s)) /\ Cardinality(Elements(s)) = Len(s)
<1>1. s \in [1..Len(s) -> Elements(s)] /\ Len(s) \in Nat
  BY LenProperties DEF Elements
<1>2. s \in Surjection(1..Len(s), Elements(s)) /\ s \in Injection(1..Len(s), Elements(s))
  BY <1>1 DEF Surjection, Injection, IsInjective, Elements, Distinct
<1>3. ExistsBijection(1..Len(s), Elements(s))
  BY <1>2 DEF ExistsBijection, Bijection
<1>4. IsFiniteSet(1..Len(s)) /\ Cardinality(1..Len(s)) = Len(s)
  <2> DEFINE n == Len(s)
  <2>1. 1 \in Int /\ n \in Int /\ n \in Nat
    BY <1>1
  <2> HIDE DEF n
  <2>2. IsFiniteSet(1..n) /\ Cardinality(1..n) = IF 1 > n THEN 0 ELSE n - 1 + 1
    BY <2>1, FS_Interval
  <2>3. QED
    BY <2>1, <2>2 DEF n
<1>5. QED
  BY <1>3, <1>4, FS_Bijection

\* Two finite sets without a common element count together.
LEMMA DisjointCount ==
  ASSUME NEW S, NEW T, IsFiniteSet(S), IsFiniteSet(T), S \cap T = {}
  PROVE  IsFiniteSet(S \cup T) /\ Cardinality(S \cup T) = Cardinality(S) + Cardinality(T)
<1>1. /\ IsFiniteSet(S \cup T)
      /\ Cardinality(S \cup T) = Cardinality(S) + Cardinality(T) - Cardinality(S \cap T)
  BY FS_Union
<1>2. Cardinality(S \cap T) = 0 /\ Cardinality(S) \in Nat /\ Cardinality(T) \in Nat
  BY FS_EmptySet, FS_CardinalityType
<1>3. QED
  BY <1>1, <1>2

\* Two lines without a common element, one behind the other.
LEMMA ConcatParts ==
  ASSUME NEW S, NEW s \in Seq(S), NEW t \in Seq(S), Distinct(s), Distinct(t),
         Elements(s) \cap Elements(t) = {}
  PROVE  s \o t \in Seq(S) /\ Distinct(s \o t) /\ Elements(s \o t) = Elements(s) \cup Elements(t)
<1>1. Len(s) \in Nat /\ Len(t) \in Nat
  BY LenProperties
<1>2. /\ s \o t \in Seq(S) /\ Len(s \o t) = Len(s) + Len(t)
      /\ \A i \in 1..Len(s) : (s \o t)[i] = s[i]
      /\ \A i \in Len(s) + 1..Len(s) + Len(t) : (s \o t)[i] = t[i - Len(s)]
  BY <1>1, ConcatProperties
<1> DEFINE u == s \o t
<1> HIDE DEF u
<1>3. /\ Len(u) = Len(s) + Len(t)
      /\ \A i \in 1..Len(s) : u[i] = s[i]
      /\ \A i \in Len(s) + 1..Len(u) : u[i] = t[i - Len(s)] /\ i - Len(s) \in 1..Len(t)
      /\ \A i \in 1..Len(t) : u[i + Len(s)] = t[i] /\ i + Len(s) \in 1..Len(u)
      /\ \A i \in 1..Len(u) : i \in 1..Len(s) \/ i \in Len(s) + 1..Len(u)
  BY <1>1, <1>2 DEF u
<1>4. Elements(u) = Elements(s) \cup Elements(t)
  <2>1. ASSUME NEW i \in 1..Len(u) PROVE u[i] \in Elements(s) \cup Elements(t)
    BY <1>3 DEF Elements
  <2>2. ASSUME NEW i \in 1..Len(s) PROVE s[i] \in Elements(u)
    BY <1>1, <1>3 DEF Elements
  <2>3. ASSUME NEW i \in 1..Len(t) PROVE t[i] \in Elements(u)
    BY <1>1, <1>3 DEF Elements
  <2>4. QED
    BY <2>1, <2>2, <2>3 DEF Elements
<1>5. Distinct(u)
  <2> SUFFICES ASSUME NEW i \in 1..Len(u), NEW j \in 1..Len(u), u[i] = u[j] PROVE i = j
    BY DEF Distinct
  <2>1. CASE i \in 1..Len(s) /\ j \in 1..Len(s)
    BY <1>3, <2>1 DEF Distinct
  <2>2. CASE i \notin 1..Len(s) /\ j \notin 1..Len(s)
    <3>1. /\ t[i - Len(s)] = t[j - Len(s)] /\ i - Len(s) \in 1..Len(t) /\ j - Len(s) \in 1..Len(t)
      BY <1>3, <2>2
    <3>2. i - Len(s) = j - Len(s)
      BY <3>1 DEF Distinct
    <3>3. QED
      BY <1>1, <1>3, <3>2
  <2>3. CASE i \in 1..Len(s) /\ j \notin 1..Len(s)
    <3>1. u[i] \in Elements(s) /\ u[j] \in Elements(t)
      BY <1>3, <2>3 DEF Elements
    <3>2. QED
      BY <3>1
  <2>4. CASE i \notin 1..Len(s) /\ j \in 1..Len(s)
    <3>1. u[j] \in Elements(s) /\ u[i] \in Elements(t)
      BY <1>3, <2>4 DEF Elements
    <3>2. QED
      BY <3>1
  <2>5. QED
    BY <2>1, <2>2, <2>3, <2>4
<1>6. QED
  BY <1>2, <1>4, <1>5 DEF u

\* A line cut in two.
LEMMA SplitParts ==
  ASSUME NEW S, NEW s \in Seq(S), NEW n \in 0..Len(s), Distinct(s)
  PROVE  LET front == SubSeq(s, 1, n)
             back == SubSeq(s, n + 1, Len(s))
         IN  /\ front \in Seq(S) /\ Len(front) = n /\ Distinct(front)
             /\ Elements(front) = {s[i] : i \in 1..n}
             /\ back \in Seq(S) /\ Len(back) = Len(s) - n /\ Distinct(back)
             /\ Elements(back) = {s[i] : i \in n + 1..Len(s)}
             /\ Elements(front) \cap Elements(back) = {}
             /\ Elements(s) = Elements(front) \cup Elements(back)
<1> DEFINE front == SubSeq(s, 1, n)
           back == SubSeq(s, n + 1, Len(s))
<1>1. Len(s) \in Nat /\ n \in Nat /\ \A i \in 1..Len(s) : s[i] \in S
  BY LenProperties, ElementOfSeq
<1>2. front \in Seq(S) /\ Len(front) = n /\ \A i \in 1..n : front[i] = s[i]
  <2>1. /\ front \in Seq(S) /\ Len(front) = IF 1 <= n THEN n - 1 + 1 ELSE 0
        /\ \A i \in 1..n - 1 + 1 : front[i] = s[1 + i - 1]
    BY <1>1, SubSeqProperties
  <2> HIDE DEF front
  <2>2. QED
    BY <1>1, <2>1
<1>3. /\ back \in Seq(S) /\ Len(back) = Len(s) - n
      /\ \A i \in 1..Len(s) - n : back[i] = s[n + i]
  <2>1. /\ back \in Seq(S)
        /\ Len(back) = IF n + 1 <= Len(s) THEN Len(s) - (n + 1) + 1 ELSE 0
        /\ \A i \in 1..Len(s) - (n + 1) + 1 : back[i] = s[n + 1 + i - 1]
    BY <1>1, SubSeqProperties
  <2> HIDE DEF back
  <2>2. QED
    BY <1>1, <2>1
<1> HIDE DEF front, back
<1>4. Elements(front) = {s[i] : i \in 1..n}
  BY <1>2 DEF Elements
<1>5. Elements(back) = {s[i] : i \in n + 1..Len(s)}
  <2>1. ASSUME NEW i \in 1..Len(back) PROVE back[i] \in {s[j] : j \in n + 1..Len(s)}
    BY <1>1, <1>3
  <2>2. ASSUME NEW j \in n + 1..Len(s) PROVE s[j] \in Elements(back)
    <3>1. j - n \in 1..Len(back) /\ back[j - n] = s[j]
      BY <1>1, <1>3
    <3>2. QED
      BY <3>1 DEF Elements
  <2>3. QED
    BY <2>1, <2>2 DEF Elements
<1>6. Distinct(front)
  BY <1>1, <1>2 DEF Distinct
<1>7. Distinct(back)
  <2> SUFFICES ASSUME NEW i \in 1..Len(back), NEW j \in 1..Len(back), back[i] = back[j]
               PROVE  i = j
    BY DEF Distinct
  <2>1. s[n + i] = s[n + j] /\ n + i \in 1..Len(s) /\ n + j \in 1..Len(s)
    BY <1>1, <1>3
  <2>2. n + i = n + j
    BY <2>1 DEF Distinct
  <2>3. QED
    BY <1>1, <1>3, <2>2
<1>8. Elements(front) \cap Elements(back) = {}
  BY <1>1, <1>4, <1>5 DEF Distinct
<1>9. Elements(s) = Elements(front) \cup Elements(back)
  <2>1. \A i : i \in 1..Len(s) <=> i \in 1..n \/ i \in n + 1..Len(s)
    BY <1>1
  <2>2. Elements(s) = {s[i] : i \in 1..Len(s)}
    BY DEF Elements
  <2>3. QED
    BY <1>4, <1>5, <2>1, <2>2, Zenon
<1>10. QED
  BY <1>2, <1>3, <1>4, <1>5, <1>6, <1>7, <1>8, <1>9 DEF front, back

\* What giving or queueing places may do to the calls: their stages only.
OnlyStages(c, d) ==
  \A k \in Calls : /\ d[k].kind = c[k].kind /\ d[k].user = c[k].user /\ d[k].medium = c[k].medium
                   /\ d[k].crew = c[k].crew /\ d[k].retried = c[k].retried
                   /\ d[k].detached = c[k].detached

\* Calls that are not on their way ask for slots: the pool is a pool again, the
\* line only grows at its end, and while somebody waits nobody is admitted.
LEMMA AcquirePool ==
  ASSUME NEW p, NEW ks \in Seq(Calls), PoolOK(p, 0), Distinct(ks),
         \A k \in Elements(ks) : p.call[k].stage \notin Moving
  PROVE  LET q == Acquire(p, ks)
         IN  /\ PoolOK(q, 0) /\ OnlyStages(p.call, q.call)
             /\ \A k \in Elements(ks) : q.call[k].stage \in {"fetching", "queued"}
             /\ \A k \in Calls \ Elements(ks) : q.call[k] = p.call[k]
             /\ InSlot(p.call) \subseteq InSlot(q.call)
             /\ p.waiters # <<>> => InSlot(q.call) = InSlot(p.call)
             /\ \E rest \in Seq(Calls) : q.waiters = p.waiters \o rest
<1> DEFINE q == Acquire(p, ks)
           n == Admitted(p, Len(ks))
           first == {ks[i] : i \in 1..n}
           second == {ks[i] : i \in n + 1..Len(ks)}
           front == SubSeq(ks, 1, n)
           back == SubSeq(ks, n + 1, Len(ks))
<1>1. p.call \in [Calls -> CallRecord] /\ p.waiters \in Seq(Calls) /\ Distinct(p.waiters)
      /\ Elements(p.waiters) = InLine(p.call) /\ p.active = Cardinality(InSlot(p.call))
      /\ p.active \in Nat /\ p.active <= MaxFetches /\ Len(ks) \in Nat
      /\ MaxFetches \in Nat \ {0}
  BY SlotsFinite, LenProperties DEF PoolOK, BoundsAssumption
<1>2. /\ n \in 0..Len(ks) /\ p.active + n <= MaxFetches
      /\ n < Len(ks) => p.active + n = MaxFetches
      /\ p.waiters # <<>> => n = 0
  BY <1>1 DEF Admitted, PoolOK
<1>3. /\ q.active = p.active + n /\ q.waiters = p.waiters \o back
      /\ q.call = [k \in Calls |-> IF k \in first THEN [p.call[k] EXCEPT !.stage = "fetching"]
                                   ELSE IF k \in second THEN [p.call[k] EXCEPT !.stage = "queued"]
                                   ELSE p.call[k]]
  BY DEF Acquire
<1>4. /\ front \in Seq(Calls) /\ Len(front) = n /\ Distinct(front) /\ Elements(front) = first
      /\ back \in Seq(Calls) /\ Len(back) = Len(ks) - n /\ Distinct(back)
      /\ Elements(back) = second
      /\ first \cap second = {} /\ Elements(ks) = first \cup second
  <2> HIDE DEF n
  <2>1. n \in 0..Len(ks)
    BY <1>2
  <2>2. /\ front \in Seq(Calls) /\ Len(front) = n /\ Distinct(front)
        /\ Elements(front) = first
        /\ back \in Seq(Calls) /\ Len(back) = Len(ks) - n /\ Distinct(back)
        /\ Elements(back) = second
        /\ Elements(front) \cap Elements(back) = {}
        /\ Elements(ks) = Elements(front) \cup Elements(back)
    BY <2>1, SplitParts
  <2>3. QED
    BY <2>2, Zenon
<1>5. first \subseteq Calls /\ second \subseteq Calls
  <2>1. \A i \in 1..Len(ks) : ks[i] \in Calls
    BY ElementOfSeq
  <2>2. QED
    BY <1>1, <1>2, <2>1
<1> HIDE DEF q, n, first, second, front, back
<1>6. /\ q.call \in [Calls -> CallRecord] /\ OnlyStages(p.call, q.call)
      /\ \A k \in first : q.call[k].stage = "fetching"
      /\ \A k \in second : q.call[k].stage = "queued"
      /\ \A k \in Calls \ (first \cup second) : q.call[k] = p.call[k]
  <2>1. ASSUME NEW k \in Calls, NEW s \in {"fetching", "queued"}
        PROVE  LET d == [p.call[k] EXCEPT !.stage = s]
               IN  /\ d \in CallRecord /\ d.stage = s
                   /\ d.kind = p.call[k].kind /\ d.user = p.call[k].user
                   /\ d.medium = p.call[k].medium /\ d.crew = p.call[k].crew
                   /\ d.retried = p.call[k].retried /\ d.detached = p.call[k].detached
    <3>1. p.call[k] \in CallRecord
      BY <1>1
    <3>2. QED
      BY <3>1 DEF CallRecord, Stages
  <2>2. ASSUME NEW k \in Calls
        PROVE  /\ q.call[k] \in CallRecord
               /\ q.call[k].kind = p.call[k].kind /\ q.call[k].user = p.call[k].user
               /\ q.call[k].medium = p.call[k].medium /\ q.call[k].crew = p.call[k].crew
               /\ q.call[k].retried = p.call[k].retried
               /\ q.call[k].detached = p.call[k].detached
               /\ k \in first => q.call[k].stage = "fetching"
               /\ k \in second => q.call[k].stage = "queued"
               /\ k \notin first \cup second => q.call[k] = p.call[k]
    <3>1. CASE k \in first
      <4>1. q.call[k] = [p.call[k] EXCEPT !.stage = "fetching"]
        BY <1>3, <3>1
      <4>2. k \notin second
        BY <1>4, <3>1
      <4> DEFINE d == [p.call[k] EXCEPT !.stage = "fetching"]
      <4>3. /\ d \in CallRecord /\ d.stage = "fetching"
            /\ d.kind = p.call[k].kind /\ d.user = p.call[k].user
            /\ d.medium = p.call[k].medium /\ d.crew = p.call[k].crew
            /\ d.retried = p.call[k].retried /\ d.detached = p.call[k].detached
        BY <2>1
      <4>4. q.call[k] = d
        BY <4>1
      <4> HIDE DEF d
      <4>5. QED
        BY <3>1, <4>2, <4>3, <4>4
    <3>2. CASE k \in second
      <4>1. k \notin first
        BY <1>4, <3>2
      <4>2. q.call[k] = [p.call[k] EXCEPT !.stage = "queued"]
        BY <1>3, <3>2, <4>1
      <4> DEFINE d == [p.call[k] EXCEPT !.stage = "queued"]
      <4>3. /\ d \in CallRecord /\ d.stage = "queued"
            /\ d.kind = p.call[k].kind /\ d.user = p.call[k].user
            /\ d.medium = p.call[k].medium /\ d.crew = p.call[k].crew
            /\ d.retried = p.call[k].retried /\ d.detached = p.call[k].detached
        BY <2>1
      <4>4. q.call[k] = d
        BY <4>2
      <4> HIDE DEF d
      <4>5. QED
        BY <3>2, <4>1, <4>3, <4>4
    <3>3. CASE k \notin first \cup second
      BY <1>1, <1>3, <3>3
    <3>4. QED
      BY <3>1, <3>2, <3>3
  <2>3. q.call = [k \in Calls |-> q.call[k]]
    BY <1>3
  <2>4. QED
    BY <1>5, <2>2, <2>3 DEF OnlyStages
<1>7. InSlot(q.call) = InSlot(p.call) \cup first /\ InSlot(p.call) \cap first = {}
  BY <1>4, <1>5, <1>6, SMTT(30) DEF InSlot, Moving
<1>8. InLine(q.call) = InLine(p.call) \cup second /\ InLine(p.call) \cap second = {}
  BY <1>4, <1>5, <1>6, SMTT(30) DEF InLine, Moving
<1>9. q.active = Cardinality(InSlot(q.call))
  <2>1. IsFiniteSet(first) /\ Cardinality(first) = n
    BY <1>4, DistinctCount
  <2>2. IsFiniteSet(InSlot(p.call))
    BY SlotsFinite
  <2>3. Cardinality(InSlot(p.call) \cup first) = Cardinality(InSlot(p.call)) + Cardinality(first)
    BY <1>7, <2>1, <2>2, DisjointCount
  <2>4. QED
    BY <1>1, <1>3, <1>7, <2>1, <2>3
<1>10. /\ q.waiters \in Seq(Calls) /\ Distinct(q.waiters)
       /\ Elements(q.waiters) = InLine(q.call)
  <2>1. Elements(p.waiters) \cap Elements(back) = {}
    BY <1>1, <1>4, <1>8
  <2>2. /\ p.waiters \o back \in Seq(Calls) /\ Distinct(p.waiters \o back)
        /\ Elements(p.waiters \o back) = Elements(p.waiters) \cup Elements(back)
    BY <1>1, <1>4, <2>1, ConcatParts
  <2>3. QED
    BY <1>1, <1>3, <1>4, <1>8, <2>2
<1>11. q.waiters # <<>> => q.active = MaxFetches
  <2>1. CASE n < Len(ks)
    BY <1>2, <1>3, <2>1
  <2>2. CASE n = Len(ks)
    <3>1. back = <<>>
      BY <1>1, <1>4, <2>2, EmptySeq
    <3>2. q.waiters = p.waiters
      BY <1>1, <1>3, <3>1, ConcatEmptySeq
    <3>3. p.waiters # <<>> => q.active = MaxFetches
      BY <1>1, <1>2, <1>3 DEF PoolOK
    <3>4. QED
      BY <3>2, <3>3
  <2>3. QED
    BY <1>1, <1>2, <2>1, <2>2
<1>12. PoolOK(q, 0)
  BY <1>1, <1>2, <1>3, <1>6, <1>9, <1>10, <1>11, SlotsFinite DEF PoolOK
<1>13. p.waiters # <<>> => first = {}
  BY <1>2 DEF first
<1>14. QED
  BY <1>3, <1>4, <1>6, <1>7, <1>12, <1>13 DEF q

\* Pool q when one slot of calls c has been given back, with w in the line.
Released(q, w, c) ==
  /\ PoolOK(q, 0) /\ OnlyStages(c, q.call)
  /\ \A j \in Calls : q.call[j].stage = IF w # <<>> /\ j = Head(w) THEN "fetching"
                                        ELSE c[j].stage
  /\ w = <<>> => q.waiters = <<>> /\ InSlot(q.call) = InSlot(c)
  /\ w # <<>> => /\ q.waiters = Tail(w) /\ Head(w) \in InLine(c)
                 /\ InSlot(q.call) = InSlot(c) \cup {Head(w)}

\* A slot is given back: the first of the line has it, or it is free.
LEMMA ReleasePool ==
  ASSUME NEW a, NEW w, NEW c, PoolOK([active |-> a, waiters |-> w, call |-> c], 1)
  PROVE  Released(Release([active |-> a, waiters |-> w, call |-> c]), w, c)
<1> DEFINE p == [active |-> a, waiters |-> w, call |-> c]
           q == Release(p)
<1>1. /\ c \in [Calls -> CallRecord] /\ w \in Seq(Calls) /\ Distinct(w)
      /\ Elements(w) = InLine(c) /\ a = Cardinality(InSlot(c)) + 1 /\ a <= MaxFetches
      /\ w # <<>> => a = MaxFetches
      /\ Cardinality(InSlot(c)) \in Nat /\ IsFiniteSet(InSlot(c)) /\ MaxFetches \in Nat \ {0}
  BY SlotsFinite DEF PoolOK, BoundsAssumption
<1>2. CASE w = <<>>
  <2>1. q.active = a - 1 /\ q.waiters = <<>> /\ q.call = c
    BY <1>2 DEF Release
  <2> HIDE DEF q
  <2>2. PoolOK(q, 0)
    BY <1>1, <1>2, <2>1 DEF PoolOK
  <2>3. QED
    BY <1>2, <2>1, <2>2 DEF OnlyStages, q, Released
<1>3. CASE w # <<>>
  <2> DEFINE h == Head(w)
             d == [c[h] EXCEPT !.stage = "fetching"]
  <2>1. /\ h = w[1] /\ Len(w) \in Nat \ {0} /\ h \in Calls /\ h \in Elements(w)
        /\ Tail(w) \in Seq(Calls) /\ Len(Tail(w)) = Len(w) - 1
        /\ \A i \in 1..Len(Tail(w)) : Tail(w)[i] = w[i + 1]
    BY <1>1, <1>3, HeadTailProperties, EmptySeq DEF Elements
  <2>2. q.active = a /\ q.waiters = Tail(w) /\ q.call = [c EXCEPT ![h] = d]
    BY <1>1, <1>3, <2>1 DEF Release
  <2>3. /\ d \in CallRecord /\ d.stage = "fetching"
        /\ d.kind = c[h].kind /\ d.user = c[h].user /\ d.medium = c[h].medium
        /\ d.crew = c[h].crew /\ d.retried = c[h].retried /\ d.detached = c[h].detached
    <3>1. c[h] \in CallRecord
      BY <1>1, <2>1
    <3>2. QED
      BY <3>1 DEF CallRecord, Stages
  <2>4. h \in InLine(c) /\ h \notin InSlot(c)
    BY <1>1, <2>1 DEF InLine, InSlot
  <2> HIDE DEF q, h, d
  <2>5. /\ q.call \in [Calls -> CallRecord] /\ OnlyStages(c, q.call)
        /\ \A j \in Calls : q.call[j].stage = IF j = h THEN "fetching" ELSE c[j].stage
    BY <1>1, <2>1, <2>2, <2>3 DEF OnlyStages
  <2>6. InSlot(q.call) = InSlot(c) \cup {h} /\ InLine(q.call) = InLine(c) \ {h}
    BY <2>1, <2>5 DEF InSlot, InLine
  <2>7. Cardinality(InSlot(q.call)) = a
    BY <1>1, <2>4, <2>6, FS_AddElement
  <2>8. Distinct(Tail(w)) /\ Elements(Tail(w)) = Elements(w) \ {h}
    <3>1. ASSUME NEW i \in 1..Len(Tail(w)), NEW j \in 1..Len(Tail(w)), Tail(w)[i] = Tail(w)[j]
          PROVE  i = j
      <4>1. w[i + 1] = w[j + 1] /\ i + 1 \in 1..Len(w) /\ j + 1 \in 1..Len(w)
        BY <2>1, <3>1
      <4>2. i + 1 = j + 1
        BY <1>1, <4>1 DEF Distinct
      <4>3. QED
        BY <4>2
    <3>2. ASSUME NEW i \in 1..Len(Tail(w)) PROVE Tail(w)[i] \in Elements(w) \ {h}
      <4>1. i + 1 \in 1..Len(w) /\ 1 \in 1..Len(w) /\ i + 1 # 1
        BY <2>1
      <4>2. w[i + 1] # w[1]
        BY <1>1, <4>1 DEF Distinct
      <4>3. QED
        BY <2>1, <4>1, <4>2 DEF Elements
    <3>3. ASSUME NEW i \in 1..Len(w), w[i] # h PROVE w[i] \in Elements(Tail(w))
      <4>1. i - 1 \in 1..Len(Tail(w)) /\ Tail(w)[i - 1] = w[i - 1 + 1] /\ i - 1 + 1 = i
        BY <2>1, <3>3
      <4>2. QED
        BY <4>1 DEF Elements
    <3>4. QED
      BY <3>1, <3>2, <3>3 DEF Distinct, Elements
  <2>9. PoolOK(q, 0)
    <3>1. /\ q.waiters \in Seq(Calls) /\ Distinct(q.waiters)
          /\ Elements(q.waiters) = InLine(q.call)
      BY <1>1, <2>1, <2>2, <2>6, <2>8, Zenon
    <3>2. q.active = Cardinality(InSlot(q.call)) + 0 /\ q.active <= MaxFetches
          /\ q.active = MaxFetches
      BY <1>1, <1>3, <2>2, <2>7
    <3>3. QED
      BY <2>5, <3>1, <3>2, Zenon DEF PoolOK
  <2>10. QED
    BY <1>3, <2>1, <2>2, <2>4, <2>5, <2>6, <2>9 DEF q, h, Released
<1>4. QED
  BY <1>2, <1>3

\* Range, of the library, is the set of the elements.
LEMMA RangeIsElements ==
  ASSUME NEW S, NEW s \in Seq(S) PROVE Range(s) = Elements(s) /\ Range(s) \subseteq S
<1>1. DOMAIN s = 1..Len(s) /\ \A i \in 1..Len(s) : s[i] \in S
  BY LenProperties, ElementOfSeq
<1>2. QED
  BY <1>1 DEF Range, Elements

\* The pool counts by the stages of the calls, whatever else they carry.
LEMMA SamePool ==
  ASSUME NEW p, NEW q, NEW n, PoolOK(p, n), q.active = p.active, q.waiters = p.waiters,
         q.call \in [Calls -> CallRecord],
         \A k \in Calls : q.call[k].stage = p.call[k].stage
                          \/ {q.call[k].stage, p.call[k].stage} \subseteq {"fetching", "delayed"}
                          \/ {q.call[k].stage, p.call[k].stage} \cap Moving = {}
  PROVE  PoolOK(q, n) /\ InSlot(q.call) = InSlot(p.call)
<1>1. InSlot(q.call) = InSlot(p.call) /\ InLine(q.call) = InLine(p.call)
  BY DEF InSlot, InLine, Moving
<1>2. QED
  BY <1>1 DEF PoolOK

\* A pool with other calls.
LEMMA PoolFields ==
  ASSUME NEW a, NEW w, NEW x, NEW c
  PROVE  LET p == [active |-> a, waiters |-> w, call |-> c]
         IN  /\ [[active |-> a, waiters |-> w, call |-> x] EXCEPT !.call = c] = p
             /\ p.active = a /\ p.waiters = w /\ p.call = c
OBVIOUS

\* Call k ends with the calls that followed it, and its slot goes to the first
\* of the line.
LEMMA DonePool ==
  ASSUME PoolOK(Pool, 0), NEW k \in Calls, call[k].stage = "fetching",
         NEW ks \in SUBSET Calls, k \in ks, \A j \in ks \ {k} : call[j].stage = "following"
  PROVE  LET q == Done(k, ks)
         IN  /\ PoolOK(q, 0)
             /\ \A j \in Calls : /\ q.call[j].user = call[j].user
                                 /\ q.call[j].medium = call[j].medium
                                 /\ q.call[j].kind = call[j].kind
                                 /\ q.call[j].detached = call[j].detached
             /\ \A j \in ks : q.call[j].stage = "settled" /\ q.call[j].crew = <<>>
             /\ \A j \in Calls \ ks :
                  /\ q.call[j].crew = call[j].crew /\ q.call[j].retried = call[j].retried
                  /\ \/ q.call[j].stage = call[j].stage
                     \/ call[j].stage = "queued" /\ q.call[j].stage = "fetching"
             /\ waiters = <<>> => q.waiters = <<>>
             /\ waiters # <<>> => /\ q.waiters = Tail(waiters) /\ Head(waiters) \in InSlot(q.call)
                                  /\ InSlot(q.call) \subseteq InSlot(call) \cup {Head(waiters)}
<1> DEFINE c == [j \in Calls |->
                   IF j \in ks
                   THEN [call[j] EXCEPT !.stage = "settled", !.crew = <<>>, !.retried = FALSE]
                   ELSE call[j]]
           p == [active |-> active, waiters |-> waiters, call |-> c]
           q == Release(p)
<1>1. /\ call \in [Calls -> CallRecord] /\ waiters \in Seq(Calls) /\ Distinct(waiters)
      /\ Elements(waiters) = InLine(call) /\ active = Cardinality(InSlot(call))
      /\ active <= MaxFetches /\ (waiters # <<>> => active = MaxFetches)
      /\ Cardinality(InSlot(call)) \in Nat /\ IsFiniteSet(InSlot(call))
  BY SlotsFinite DEF PoolOK, Pool
<1>2. Done(k, ks) = q
  <2> HIDE DEF c
  <2>1. [Pool EXCEPT !.call = c] = p
    BY PoolFields DEF Pool
  <2>2. QED
    BY <2>1 DEF Done, c
<1>3. ASSUME NEW j \in Calls
      PROVE  /\ c[j] \in CallRecord /\ c[j].user = call[j].user /\ c[j].medium = call[j].medium
             /\ c[j].kind = call[j].kind /\ c[j].detached = call[j].detached
             /\ j \in ks => c[j].stage = "settled" /\ c[j].crew = <<>>
             /\ j \notin ks => c[j] = call[j]
  <2> DEFINE e == [call[j] EXCEPT !.stage = "settled", !.crew = <<>>, !.retried = FALSE]
  <2>1. call[j] \in CallRecord
    BY <1>1
  <2>2. /\ e \in CallRecord /\ e.user = call[j].user /\ e.medium = call[j].medium
        /\ e.kind = call[j].kind /\ e.detached = call[j].detached
        /\ e.stage = "settled" /\ e.crew = <<>>
    <3>1. <<>> \in Seq(1..MaxCalls)
      BY EmptySeq
    <3>2. QED
      BY <2>1, <3>1 DEF CallRecord, Stages
  <2>3. c[j] = IF j \in ks THEN e ELSE call[j]
    OBVIOUS
  <2> HIDE DEF c, e
  <2>4. QED
    BY <2>1, <2>2, <2>3
<1>4. c \in [Calls -> CallRecord]
  <2>1. c = [j \in Calls |-> c[j]]
    OBVIOUS
  <2> HIDE DEF c
  <2>2. QED
    BY <1>3, <2>1
<1> HIDE DEF c
<1>5. InSlot(c) = InSlot(call) \ {k} /\ k \in InSlot(call) /\ InLine(c) = InLine(call)
  BY <1>3 DEF InSlot, InLine
<1>6. Cardinality(InSlot(c)) \in Nat /\ active = Cardinality(InSlot(c)) + 1
  <2>1. Cardinality(InSlot(call) \ {k}) = Cardinality(InSlot(call)) - 1
    BY <1>1, <1>5, FS_RemoveElement
  <2>2. Cardinality(InSlot(c)) = Cardinality(InSlot(call) \ {k})
    BY <1>5, Zenon
  <2>3. Cardinality(InSlot(c)) \in Nat
    BY SlotsFinite, Zenon
  <2>4. active = Cardinality(InSlot(call)) /\ Cardinality(InSlot(call)) \in Nat
    BY <1>1, Zenon
  <2>5. QED
    BY <2>1, <2>2, <2>3, <2>4
<1>7. PoolOK(p, 1)
  <2>1. p.active = active /\ p.waiters = waiters /\ p.call = c
    BY PoolFields
  <2> HIDE DEF p
  <2>2. /\ p.call \in [Calls -> CallRecord]
        /\ p.waiters \in Seq(Calls) /\ Distinct(p.waiters)
        /\ Elements(p.waiters) = InLine(p.call)
    BY <1>1, <1>4, <1>5, <2>1, Zenon
  <2>3. /\ p.active = Cardinality(InSlot(p.call)) + 1 /\ p.active <= MaxFetches
        /\ p.waiters # <<>> => p.active = MaxFetches
    <3>1. p.active = Cardinality(InSlot(p.call)) + 1
      BY <1>6, <2>1
    <3>2. p.active <= MaxFetches /\ (p.waiters # <<>> => p.active = MaxFetches)
      BY <1>1, <2>1, Zenon
    <3>3. QED
      BY <3>1, <3>2
  <2>4. QED
    BY <2>2, <2>3, Zenon DEF PoolOK
<1>8. /\ PoolOK(q, 0) /\ OnlyStages(c, q.call)
      /\ \A j \in Calls : q.call[j].stage = IF waiters # <<>> /\ j = Head(waiters)
                                            THEN "fetching" ELSE c[j].stage
      /\ waiters = <<>> => q.waiters = <<>>
      /\ waiters # <<>> => /\ q.waiters = Tail(waiters) /\ Head(waiters) \in InLine(c)
                           /\ InSlot(q.call) = InSlot(c) \cup {Head(waiters)}
  <2>1. Released(q, waiters, c)
    BY <1>7, ReleasePool
  <2> HIDE DEF q
  <2>2. QED
    BY <2>1 DEF Released
<1> HIDE DEF q, p
<1>9. ASSUME NEW j \in ks PROVE q.call[j].stage = "settled" /\ q.call[j].crew = <<>>
  <2>1. j \in Calls /\ c[j].stage = "settled" /\ c[j].crew = <<>>
    BY <1>3
  <2>2. waiters # <<>> => j # Head(waiters)
    BY <1>8, <2>1 DEF InLine
  <2>3. QED
    BY <1>8, <2>1, <2>2 DEF OnlyStages
<1>10. ASSUME NEW j \in Calls \ ks
       PROVE  /\ q.call[j].crew = call[j].crew /\ q.call[j].retried = call[j].retried
              /\ \/ q.call[j].stage = call[j].stage
                 \/ call[j].stage = "queued" /\ q.call[j].stage = "fetching"
  <2>1. c[j] = call[j]
    BY <1>3
  <2>2. waiters # <<>> /\ j = Head(waiters) => call[j].stage = "queued"
    BY <1>8, <2>1 DEF InLine
  <2>3. QED
    BY <1>8, <2>1, <2>2 DEF OnlyStages
<1>11. \A j \in Calls : /\ q.call[j].user = call[j].user /\ q.call[j].medium = call[j].medium
                        /\ q.call[j].kind = call[j].kind
                        /\ q.call[j].detached = call[j].detached
  BY <1>3, <1>8 DEF OnlyStages
<1>12. QED
  BY <1>2, <1>5, <1>8, <1>9, <1>10, <1>11

\* Calls that are over, or waited for another's flight, fetch for themselves.
LEMMA RedirectPool ==
  ASSUME NEW p, p = [active |-> p.active, waiters |-> p.waiters, call |-> p.call],
         NEW ks \in Seq(Calls), PoolOK(p, 0), Distinct(ks),
         \A k \in Elements(ks) : p.call[k].stage \notin Moving
  PROVE  LET q == Redirect(p, ks)
         IN  /\ PoolOK(q, 0)
             /\ \A j \in Calls : /\ q.call[j].user = p.call[j].user
                                 /\ q.call[j].medium = p.call[j].medium
                                 /\ q.call[j].detached = p.call[j].detached
             /\ \A j \in Elements(ks) : /\ q.call[j].kind = "direct" /\ q.call[j].crew = <<>>
                                        /\ q.call[j].stage \in {"fetching", "queued"}
             /\ \A j \in Calls \ Elements(ks) : q.call[j] = p.call[j]
             /\ InSlot(p.call) \subseteq InSlot(q.call)
             /\ p.waiters # <<>> => InSlot(q.call) = InSlot(p.call)
             /\ \E rest \in Seq(Calls) : q.waiters = p.waiters \o rest
<1> DEFINE c == [k \in Calls |->
                   IF k \in Range(ks) THEN [p.call[k] EXCEPT !.kind = "direct", !.crew = <<>>]
                   ELSE p.call[k]]
           r == [active |-> p.active, waiters |-> p.waiters, call |-> c]
           q == Acquire(r, ks)
<1>1. Range(ks) = Elements(ks) /\ Elements(ks) \subseteq Calls
  BY RangeIsElements
<1>2. Redirect(p, ks) = q
  <2> HIDE DEF c
  <2>1. [p EXCEPT !.call = c] = r
    BY PoolFields
  <2>2. QED
    BY <2>1 DEF Redirect, c
<1>3. ASSUME NEW j \in Calls
      PROVE  /\ c[j] \in CallRecord /\ c[j].user = p.call[j].user
             /\ c[j].medium = p.call[j].medium /\ c[j].detached = p.call[j].detached
             /\ c[j].stage = p.call[j].stage
             /\ j \in Elements(ks) => c[j].kind = "direct" /\ c[j].crew = <<>>
             /\ j \notin Elements(ks) => c[j] = p.call[j]
  <2> DEFINE e == [p.call[j] EXCEPT !.kind = "direct", !.crew = <<>>]
  <2>1. p.call[j] \in CallRecord
    BY DEF PoolOK
  <2>2. /\ e \in CallRecord /\ e.user = p.call[j].user /\ e.medium = p.call[j].medium
        /\ e.detached = p.call[j].detached /\ e.stage = p.call[j].stage
        /\ e.kind = "direct" /\ e.crew = <<>>
    <3>1. <<>> \in Seq(1..MaxCalls)
      BY EmptySeq
    <3>2. QED
      BY <2>1, <3>1 DEF CallRecord, Stages
  <2>3. c[j] = IF j \in Elements(ks) THEN e ELSE p.call[j]
    BY <1>1
  <2> HIDE DEF c, e
  <2>4. QED
    BY <2>1, <2>2, <2>3
<1>4. c \in [Calls -> CallRecord]
  <2>1. c = [j \in Calls |-> c[j]]
    OBVIOUS
  <2> HIDE DEF c
  <2>2. QED
    BY <1>3, <2>1
<1> HIDE DEF c
<1>9. r.active = p.active /\ r.waiters = p.waiters /\ r.call = c
  BY PoolFields
<1> HIDE DEF r
<1>5. PoolOK(r, 0) /\ InSlot(c) = InSlot(p.call)
  <2>1. /\ PoolOK(p, 0) /\ r.active = p.active /\ r.waiters = p.waiters
        /\ r.call \in [Calls -> CallRecord]
    BY <1>4, <1>9
  <2>2. \A k \in Calls : r.call[k].stage = p.call[k].stage
    BY <1>3, <1>9
  <2>3. PoolOK(r, 0) /\ InSlot(r.call) = InSlot(p.call)
    BY <2>1, <2>2, SamePool
  <2>4. QED
    BY <1>9, <2>3
<1>6. \A k \in Elements(ks) : r.call[k].stage \notin Moving
  BY <1>1, <1>3, <1>9
<1>7. /\ PoolOK(q, 0) /\ OnlyStages(c, q.call)
      /\ \A k \in Elements(ks) : q.call[k].stage \in {"fetching", "queued"}
      /\ \A k \in Calls \ Elements(ks) : q.call[k] = c[k]
      /\ InSlot(c) \subseteq InSlot(q.call)
      /\ p.waiters # <<>> => InSlot(q.call) = InSlot(c)
      /\ \E rest \in Seq(Calls) : q.waiters = p.waiters \o rest
  <2>1. LET y == Acquire(r, ks)
         IN  /\ PoolOK(y, 0) /\ OnlyStages(r.call, y.call)
             /\ \A k \in Elements(ks) : y.call[k].stage \in {"fetching", "queued"}
             /\ \A k \in Calls \ Elements(ks) : y.call[k] = r.call[k]
             /\ InSlot(r.call) \subseteq InSlot(y.call)
             /\ r.waiters # <<>> => InSlot(y.call) = InSlot(r.call)
             /\ \E rest \in Seq(Calls) : y.waiters = r.waiters \o rest
    BY <1>5, <1>6, AcquirePool
  <2>2. QED
    BY <1>9, <2>1
<1> HIDE DEF q
<1>8. ASSUME NEW j \in Calls
      PROVE  /\ q.call[j].user = p.call[j].user /\ q.call[j].medium = p.call[j].medium
             /\ q.call[j].detached = p.call[j].detached
             /\ j \in Elements(ks) => /\ q.call[j].kind = "direct" /\ q.call[j].crew = <<>>
                                      /\ q.call[j].stage \in {"fetching", "queued"}
             /\ j \notin Elements(ks) => q.call[j] = p.call[j]
  BY <1>3, <1>7 DEF OnlyStages
<1>10. QED
  BY <1>1, <1>2, <1>5, <1>7, <1>8

-------------------------------------------------------------------------------
\* Nothing is known of a call that has not been made.
Blank(c) == \A k \in Calls : c[k].stage = "unused" => c[k] = NoCall

\* Call k has been made, by user u for medium m.
Belongs(c, k, u, m) ==
  k \in Calls /\ c[k].stage # "unused" /\ c[k].user = u /\ c[k].medium = m

\* The table of flights names calls that have been made for its user and medium.
Tabled(fl, c) ==
  \A u \in Users, m \in Media : fl[u][m] # 0 => Belongs(c, fl[u][m], u, m)

\* A flight is in the table, or a call of its user and medium lost its maps.
Covered(fl, c) ==
  \A j \in Calls : c[j].kind = "flight" /\ c[j].stage \in Moving =>
    /\ c[j].user \in Users /\ c[j].medium \in Media
    /\ \/ fl[c[j].user][c[j].medium] = j
       \/ \E i \in Calls : /\ c[i].detached /\ c[i].user = c[j].user
                           /\ c[i].medium = c[j].medium

\* The inductive invariant.
IInv ==
  /\ session \in Users \cup {NoUser} /\ scope \in Users \cup {NoUser}
  /\ inFlight \in [Users -> [Media -> Nat]]
  /\ PoolOK(Pool, 0) /\ CrewOK(call) /\ Blank(call)
  /\ Tabled(inFlight, call) /\ Covered(inFlight, call)

\* What an answer does to the calls: nobody starts a flight or is followed anew.
Carried(c, d) ==
  \A j \in Calls :
    /\ d[j].user = c[j].user /\ d[j].medium = c[j].medium /\ d[j].detached = c[j].detached
    /\ d[j].crew \in {c[j].crew, <<>>} /\ d[j].kind \in {c[j].kind, "direct"}
    /\ d[j].kind = "flight" /\ d[j].stage \in Moving
         => c[j].kind = "flight" /\ c[j].stage \in Moving
    /\ d[j].stage = "unused" <=> c[j].stage = "unused"
    /\ d[j].stage = "unused" => d[j] = c[j]

\* Nothing that has been asked is forgotten.
Remembered(c, d) ==
  \A j \in Calls : /\ c[j].stage # "unused" => d[j].stage # "unused"
                              /\ d[j].user = c[j].user /\ d[j].medium = c[j].medium
                   /\ c[j].stage # "unused" /\ d[j].kind = "download" => c[j].kind = "download"

StillFollow(d) ==
  \A j \in Calls : \A i \in 1..Len(d[j].crew) :
    d[d[j].crew[i]].stage = "following" /\ Alike(d, d[j].crew[i], j)

\* The line moves at its head, grows at its end, and nobody passes it.
InOrder(p, q) ==
  \/ /\ \E rest \in Seq(Calls) : q.waiters = p.waiters \o rest
     /\ p.waiters # <<>> => InSlot(q.call) \subseteq InSlot(p.call)
  \/ /\ p.waiters # <<>> /\ Head(p.waiters) \in InSlot(q.call)
     /\ \E rest \in Seq(Calls) : q.waiters = Tail(p.waiters) \o rest
     /\ Tail(p.waiters) # <<>> => InSlot(q.call) \subseteq InSlot(p.call) \cup {Head(p.waiters)}

\* A crew is in order when crews only shrink to nothing and who is left follows.
LEMMA CrewKept ==
  ASSUME NEW c, NEW d, CrewOK(c), StillFollow(d),
         \A j \in Calls : d[j].crew \in {c[j].crew, <<>>}
  PROVE  CrewOK(d)
<1>1. Len(<<>>) = 0
  BY EmptySeq
<1>2. \A j \in Calls : \A i \in 1..Len(d[j].crew) : d[j].crew = c[j].crew
  BY <1>1
<1>3. ASSUME NEW j \in Calls, NEW k \in Calls, NEW a \in 1..Len(d[j].crew),
             NEW b \in 1..Len(d[k].crew), d[j].crew[a] = d[k].crew[b]
      PROVE  j = k /\ a = b
  <2>1. d[j].crew = c[j].crew /\ d[k].crew = c[k].crew
    BY <1>2
  <2>2. QED
    BY <1>3, <2>1 DEF CrewOK
<1>4. QED
  BY <1>3 DEF CrewOK, StillFollow

\* An answer that carries the calls over keeps the invariant.
LEMMA AnswerKeeps ==
  ASSUME IInv, NEW k \in Calls, PoolOK(Pool, 0)', Carried(call, call'), StillFollow(call'),
         session' = session, scope' = scope,
         \/ inFlight' = inFlight
         \/ /\ Landed(k) /\ call[k].kind = "flight" /\ call[k].stage \in Moving
            /\ ~(call'[k].kind = "flight" /\ call'[k].stage \in Moving)
  PROVE  IInv'
<1>1. CrewOK(call')
  BY CrewKept DEF IInv, Carried
<1>2. Blank(call')
  BY DEF IInv, Blank, Carried
<1>3. inFlight' \in [Users -> [Media -> Nat]]
      /\ \A u \in Users, m \in Media : inFlight'[u][m] \in {0, inFlight[u][m]}
  BY DEF IInv, Landed
<1>4. Tabled(inFlight', call')
  <2> SUFFICES ASSUME NEW u \in Users, NEW m \in Media, inFlight'[u][m] # 0
               PROVE  Belongs(call', inFlight'[u][m], u, m)
    BY DEF Tabled
  <2>1. inFlight'[u][m] = inFlight[u][m] /\ Belongs(call, inFlight[u][m], u, m)
    BY <1>3 DEF IInv, Tabled
  <2>2. QED
    BY <2>1 DEF Belongs, Carried
<1>5. Covered(inFlight', call')
  <2> SUFFICES ASSUME NEW j \in Calls, call'[j].kind = "flight", call'[j].stage \in Moving
               PROVE  /\ call'[j].user \in Users /\ call'[j].medium \in Media
                      /\ \/ inFlight'[call'[j].user][call'[j].medium] = j
                         \/ \E i \in Calls : /\ call'[i].detached
                                             /\ call'[i].user = call'[j].user
                                             /\ call'[i].medium = call'[j].medium
    BY DEF Covered
  <2> DEFINE u == call[j].user
             m == call[j].medium
             Lost(d) == \E i \in Calls : d[i].detached /\ d[i].user = u /\ d[i].medium = m
  <2>1. call'[j].user = u /\ call'[j].medium = m /\ call[j].kind = "flight"
        /\ call[j].stage \in Moving
    BY DEF Carried
  <2>2. u \in Users /\ m \in Media /\ (inFlight[u][m] = j \/ Lost(call))
    BY <2>1 DEF IInv, Covered
  <2>3. Lost(call) => Lost(call')
    BY DEF Carried
  <2>4. ASSUME inFlight[u][m] = j, inFlight'[u][m] # j PROVE Lost(call)
    <3>1. /\ Landed(k) /\ call[k].kind = "flight" /\ call[k].stage \in Moving /\ j # k
          /\ call[k].user \in Users /\ call[k].medium \in Media
      BY <2>4 DEF IInv, Covered
    <3>2. call[k].user = u /\ call[k].medium = m
      BY <2>2, <2>4, <3>1 DEF IInv, Landed
    <3>3. inFlight[u][m] # k
      BY <2>4, <3>1
    <3>4. QED
      BY <3>1, <3>2, <3>3 DEF IInv, Covered
  <2>5. QED
    BY <2>1, <2>2, <2>3, <2>4
<1>6. QED
  BY <1>1, <1>2, <1>3, <1>4, <1>5 DEF IInv

\* The crew of a flight, and nobody else's crew, follows it.
LEMMA CrewCalls ==
  ASSUME IInv, NEW k \in Calls, call[k].stage = "fetching"
  PROVE  /\ Crew(k) = {k} \cup Elements(call[k].crew) /\ Crew(k) \in SUBSET Calls
         /\ call[k].crew \in Seq(Calls) /\ Distinct(call[k].crew)
         /\ \A j \in Crew(k) \ {k} : call[j].stage = "following"
         /\ k \notin Elements(call[k].crew)
         /\ \A j \in Calls \ {k} : \A i \in 1..Len(call[j].crew) :
              call[j].crew[i] \in Calls \ Crew(k)
<1>1. /\ call \in [Calls -> CallRecord]
      /\ \A j \in Calls : call[j].crew \in Seq(Calls)
  <2>1. call \in [Calls -> CallRecord]
    BY DEF IInv, PoolOK, Pool
  <2>2. QED
    BY <2>1 DEF CallRecord, Calls
<1>2. Range(call[k].crew) = Elements(call[k].crew) /\ Elements(call[k].crew) \subseteq Calls
  BY <1>1, RangeIsElements
<1>3. \A j \in Elements(call[k].crew) : call[j].stage = "following"
  BY DEF IInv, CrewOK, Elements
<1>4. Distinct(call[k].crew)
  BY DEF IInv, CrewOK, Distinct
<1>5. ASSUME NEW j \in Calls \ {k}, NEW i \in 1..Len(call[j].crew)
      PROVE  call[j].crew[i] \in Calls \ Crew(k)
  <2>1. call[j].crew[i] \in Calls
    BY <1>1, ElementOfSeq
  <2>2. call[call[j].crew[i]].stage = "following"
    BY DEF IInv, CrewOK
  <2>3. call[j].crew[i] \notin Elements(call[k].crew)
    BY DEF IInv, CrewOK, Elements
  <2>4. QED
    BY <1>2, <2>1, <2>2, <2>3 DEF Crew
<1>6. QED
  BY <1>1, <1>2, <1>3, <1>4, <1>5 DEF Crew

\* An answer that ends call k, alone or with its crew.
LEMMA DoneKeeps ==
  ASSUME IInv, NEW k \in Calls, call[k].stage = "fetching", NEW ks \in {{k}, Crew(k)}
  PROVE  LET q == Done(k, ks)
         IN  /\ PoolOK(q, 0) /\ Carried(call, q.call) /\ InOrder(Pool, q)
             /\ StillFollow(q.call)
             /\ \A j \in ks : q.call[j].stage = "settled" /\ q.call[j].crew = <<>>
             /\ \A j \in Crew(k) \ ks : q.call[j].stage = "following"
             /\ waiters = <<>> => q.waiters = <<>>
             /\ waiters # <<>> => /\ q.waiters = Tail(waiters) /\ Head(waiters) \in InSlot(q.call)
                                  /\ InSlot(q.call) \subseteq InSlot(call) \cup {Head(waiters)}
<1> DEFINE q == Done(k, ks)
<1>1. ks \in SUBSET Calls /\ k \in ks /\ \A j \in ks \ {k} : call[j].stage = "following"
  BY CrewCalls
<1>2. PoolOK(Pool, 0) /\ waiters \in Seq(Calls)
  BY DEF IInv, PoolOK, Pool
<1>3. /\ PoolOK(q, 0)
      /\ \A j \in Calls : /\ q.call[j].user = call[j].user
                          /\ q.call[j].medium = call[j].medium
                          /\ q.call[j].kind = call[j].kind
                          /\ q.call[j].detached = call[j].detached
      /\ \A j \in ks : q.call[j].stage = "settled" /\ q.call[j].crew = <<>>
      /\ \A j \in Calls \ ks :
           /\ q.call[j].crew = call[j].crew /\ q.call[j].retried = call[j].retried
           /\ \/ q.call[j].stage = call[j].stage
              \/ call[j].stage = "queued" /\ q.call[j].stage = "fetching"
      /\ waiters = <<>> => q.waiters = <<>>
      /\ waiters # <<>> => /\ q.waiters = Tail(waiters) /\ Head(waiters) \in InSlot(q.call)
                           /\ InSlot(q.call) \subseteq InSlot(call) \cup {Head(waiters)}
  BY <1>1, <1>2, DonePool
<1> HIDE DEF q
<1>4. \A j \in ks : call[j].stage # "unused"
  BY <1>1
<1>5. ASSUME NEW j \in Calls
      PROVE  /\ q.call[j].crew \in {call[j].crew, <<>>}
             /\ q.call[j].kind \in {call[j].kind, "direct"}
             /\ q.call[j].kind = "flight" /\ q.call[j].stage \in Moving
                  => call[j].kind = "flight" /\ call[j].stage \in Moving
             /\ q.call[j].stage = "unused" <=> call[j].stage = "unused"
  BY <1>3, <1>4 DEF Moving
<1>6. ASSUME NEW j \in Calls, q.call[j].stage = "unused" PROVE q.call[j] = call[j]
  <2>1. j \notin ks /\ call[j].stage = "unused"
    BY <1>3, <1>6
  <2>2. q.call[j] \in CallRecord /\ call[j] \in CallRecord
    BY <1>2, <1>3 DEF PoolOK, Pool
  <2>3. /\ q.call[j].stage = call[j].stage /\ q.call[j].kind = call[j].kind
        /\ q.call[j].user = call[j].user /\ q.call[j].medium = call[j].medium
        /\ q.call[j].crew = call[j].crew /\ q.call[j].retried = call[j].retried
        /\ q.call[j].detached = call[j].detached
    BY <1>3, <1>6, <2>1
  <2>4. QED
    BY <2>2, <2>3 DEF CallRecord
<1>7. Carried(call, q.call)
  BY <1>3, <1>5, <1>6 DEF Carried
<1>8. InOrder(Pool, q)
  <2>1. CASE waiters = <<>>
    <3>1. q.waiters = Pool.waiters \o <<>> /\ <<>> \in Seq(Calls)
      BY <1>3, <2>1, EmptySeq, ConcatEmptySeq DEF Pool
    <3>2. QED
      BY <2>1, <3>1 DEF InOrder, Pool
  <2>2. CASE waiters # <<>>
    <3>1. Tail(waiters) \in Seq(Calls) /\ <<>> \in Seq(Calls)
      BY <1>2, <2>2, HeadTailProperties, EmptySeq
    <3>2. q.waiters = Tail(Pool.waiters) \o <<>>
      BY <1>3, <2>2, <3>1, ConcatEmptySeq DEF Pool
    <3>3. QED
      BY <1>3, <2>2, <3>1, <3>2 DEF InOrder, Pool
  <2>3. QED
    BY <2>1, <2>2
<1>9. StillFollow(q.call)
  <2> SUFFICES ASSUME NEW j \in Calls, NEW i \in 1..Len(q.call[j].crew)
               PROVE  q.call[q.call[j].crew[i]].stage = "following"
                      /\ Alike(q.call, q.call[j].crew[i], j)
    BY DEF StillFollow
  <2>1. Len(<<>>) = 0
    BY EmptySeq
  <2>2. j \notin ks /\ j # k /\ q.call[j].crew = call[j].crew
    BY <1>1, <1>3, <2>1
  <2>3. /\ call[j].crew[i] \in Calls \ Crew(k) /\ call[call[j].crew[i]].stage = "following"
        /\ Alike(call, call[j].crew[i], j)
    BY <2>2, CrewCalls DEF IInv, CrewOK
  <2>4. call[j].crew[i] \in Calls \ ks
    BY <2>3 DEF Crew
  <2>5. QED
    BY <1>3, <2>2, <2>3, <2>4 DEF Alike
<1>10. \A j \in Crew(k) \ ks : q.call[j].stage = "following"
  <2>1. \A j \in Crew(k) \ ks : j \in Calls \ ks /\ call[j].stage = "following"
    BY <1>1, CrewCalls
  <2>2. QED
    BY <1>3, <2>1
<1>11. QED
  BY <1>3, <1>7, <1>8, <1>9, <1>10 DEF q

\* The pool that Release returns has no other field.
LEMMA ReleaseShape ==
  ASSUME NEW a, NEW w, NEW c
  PROVE  LET q == Release([active |-> a, waiters |-> w, call |-> c])
         IN  q = [active |-> q.active, waiters |-> q.waiters, call |-> q.call]
<1> DEFINE p == [active |-> a, waiters |-> w, call |-> c]
<1>1. CASE w = <<>>
  <2>1. Release(p) = [active |-> a - 1, waiters |-> w, call |-> c]
    BY <1>1 DEF Release
  <2>2. QED
    BY <2>1
<1>2. CASE w # <<>>
  <2>1. Release(p) = [active |-> a, waiters |-> Tail(w),
                      call |-> [c EXCEPT ![Head(w)].stage = "fetching"]]
    BY <1>2 DEF Release
  <2>2. QED
    BY <2>1
<1>3. QED
  BY <1>1, <1>2

\* An answer that ends call k and sends callers to fetch for themselves.
LEMMA RedirectKeeps ==
  ASSUME IInv, NEW k \in Calls, call[k].stage = "fetching",
         NEW ks \in {call[k].crew, <<k>> \o call[k].crew}
  PROVE  LET q == Redirect(Done(k, {k}), ks)
         IN  /\ PoolOK(q, 0) /\ Carried(call, q.call) /\ InOrder(Pool, q)
             /\ StillFollow(q.call)
             /\ ~(q.call[k].kind = "flight" /\ q.call[k].stage \in Moving)
<1> DEFINE p == Done(k, {k})
           q == Redirect(p, ks)
<1>1. /\ PoolOK(p, 0) /\ Carried(call, p.call) /\ StillFollow(p.call)
      /\ p.call[k].stage = "settled" /\ p.call[k].crew = <<>>
      /\ \A j \in Crew(k) \ {k} : p.call[j].stage = "following"
      /\ waiters = <<>> => p.waiters = <<>>
      /\ waiters # <<>> => /\ p.waiters = Tail(waiters) /\ Head(waiters) \in InSlot(p.call)
                           /\ InSlot(p.call) \subseteq InSlot(call) \cup {Head(waiters)}
  <2>1. {k} \in {{k}, Crew(k)}
    OBVIOUS
  <2>2. QED
    BY <2>1, DoneKeeps
<1>2. p = [active |-> p.active, waiters |-> p.waiters, call |-> p.call]
  <2> DEFINE c == [j \in Calls |->
                     IF j \in {k}
                     THEN [call[j] EXCEPT !.stage = "settled", !.crew = <<>>, !.retried = FALSE]
                     ELSE call[j]]
  <2> HIDE DEF c
  <2>1. [Pool EXCEPT !.call = c] = [active |-> active, waiters |-> waiters, call |-> c]
    BY PoolFields DEF Pool
  <2>2. p = Release([active |-> active, waiters |-> waiters, call |-> c])
    BY <2>1 DEF Done, c
  <2> HIDE DEF p
  <2>3. QED
    BY <2>2, ReleaseShape
<1> HIDE DEF p
<1>3. /\ Crew(k) = {k} \cup Elements(call[k].crew) /\ Crew(k) \in SUBSET Calls
      /\ call[k].crew \in Seq(Calls) /\ Distinct(call[k].crew)
      /\ k \notin Elements(call[k].crew)
      /\ \A j \in Calls \ {k} : \A i \in 1..Len(call[j].crew) :
           call[j].crew[i] \in Calls \ Crew(k)
  BY CrewCalls
<1>4. ks \in Seq(Calls) /\ Distinct(ks) /\ Elements(ks) \subseteq Crew(k)
  <2>1. CASE ks = call[k].crew
    BY <1>3, <2>1
  <2>2. CASE ks = <<k>> \o call[k].crew
    <3> DEFINE t == <<k>>
    <3>1. t \in Seq(Calls) /\ Len(t) = 1 /\ t[1] = k
      OBVIOUS
    <3>2. ks = t \o call[k].crew
      BY <2>2
    <3> HIDE DEF t
    <3>3. Distinct(t) /\ Elements(t) = {k}
      BY <3>1 DEF Distinct, Elements
    <3>4. Elements(t) \cap Elements(call[k].crew) = {}
      BY <1>3, <3>3
    <3>5. /\ t \o call[k].crew \in Seq(Calls) /\ Distinct(t \o call[k].crew)
          /\ Elements(t \o call[k].crew) = Elements(t) \cup Elements(call[k].crew)
      BY <1>3, <3>1, <3>3, <3>4, ConcatParts
    <3>6. QED
      BY <1>3, <3>2, <3>3, <3>5
  <2>3. QED
    BY <2>1, <2>2
<1>5. \A j \in Elements(ks) : p.call[j].stage \notin Moving /\ call[j].stage # "unused"
  <2>1. \A j \in Crew(k) : p.call[j].stage \in {"settled", "following"}
    BY <1>1
  <2>2. \A j \in Crew(k) : call[j].stage # "unused"
    BY CrewCalls
  <2>3. QED
    BY <1>4, <2>1, <2>2 DEF Moving
<1>6. /\ PoolOK(q, 0)
      /\ \A j \in Calls : /\ q.call[j].user = p.call[j].user
                          /\ q.call[j].medium = p.call[j].medium
                          /\ q.call[j].detached = p.call[j].detached
      /\ \A j \in Elements(ks) : /\ q.call[j].kind = "direct" /\ q.call[j].crew = <<>>
                                 /\ q.call[j].stage \in {"fetching", "queued"}
      /\ \A j \in Calls \ Elements(ks) : q.call[j] = p.call[j]
      /\ InSlot(p.call) \subseteq InSlot(q.call)
      /\ p.waiters # <<>> => InSlot(q.call) = InSlot(p.call)
      /\ \E rest \in Seq(Calls) : q.waiters = p.waiters \o rest
  <2> HIDE DEF q
  <2>1. \A j \in Elements(ks) : p.call[j].stage \notin Moving
    BY <1>5
  <2>2. ks \in Seq(Calls)
    BY <1>4
  <2>3. Distinct(ks)
    BY <1>4
  <2>4. PoolOK(p, 0)
    BY <1>1
  <2>5. QED
    BY <1>2, <2>1, <2>2, <2>3, <2>4, RedirectPool, ZenonT(60) DEF q
<1> HIDE DEF q
<1>7. Carried(call, q.call)
  <2> SUFFICES ASSUME NEW j \in Calls
               PROVE  /\ q.call[j].user = call[j].user /\ q.call[j].medium = call[j].medium
                      /\ q.call[j].detached = call[j].detached
                      /\ q.call[j].crew \in {call[j].crew, <<>>}
                      /\ q.call[j].kind \in {call[j].kind, "direct"}
                      /\ q.call[j].kind = "flight" /\ q.call[j].stage \in Moving
                           => call[j].kind = "flight" /\ call[j].stage \in Moving
                      /\ q.call[j].stage = "unused" <=> call[j].stage = "unused"
                      /\ q.call[j].stage = "unused" => q.call[j] = call[j]
    BY DEF Carried
  <2>1. CASE j \in Elements(ks)
    BY <1>1, <1>5, <1>6, <2>1 DEF Carried
  <2>2. CASE j \notin Elements(ks)
    BY <1>1, <1>6, <2>2 DEF Carried
  <2>3. QED
    BY <2>1, <2>2
<1>8. StillFollow(q.call)
  <2> SUFFICES ASSUME NEW j \in Calls, NEW i \in 1..Len(q.call[j].crew)
               PROVE  q.call[q.call[j].crew[i]].stage = "following"
                      /\ Alike(q.call, q.call[j].crew[i], j)
    BY DEF StillFollow
  <2>1. Len(<<>>) = 0
    BY EmptySeq
  <2>2. j \notin Elements(ks) /\ q.call[j].crew = p.call[j].crew
    BY <1>6, <2>1
  <2>3. j # k /\ p.call[j].crew = call[j].crew
    BY <1>1, <2>1, <2>2 DEF Carried
  <2>4. call[j].crew[i] \in Calls \ Crew(k)
    BY <1>3, <2>2, <2>3
  <2>5. p.call[p.call[j].crew[i]].stage = "following" /\ Alike(p.call, p.call[j].crew[i], j)
    BY <1>1, <2>2 DEF StillFollow
  <2> DEFINE f == call[j].crew[i]
  <2>6. q.call[j].crew[i] = f /\ p.call[j].crew[i] = f /\ f \in Calls /\ f \notin Elements(ks)
    BY <1>4, <2>2, <2>3, <2>4
  <2> HIDE DEF f
  <2>7. q.call[j] = p.call[j] /\ q.call[f] = p.call[f]
    BY <1>6, <2>2, <2>6
  <2>8. QED
    BY <2>5, <2>6, <2>7 DEF Alike
<1>9. InOrder(Pool, q)
  <2>1. PICK rest \in Seq(Calls) : q.waiters = p.waiters \o rest
    BY <1>6
  <2>2. CASE waiters = <<>>
    BY <1>1, <2>1, <2>2 DEF InOrder, Pool
  <2>3. CASE waiters # <<>>
    BY <1>1, <1>6, <2>1, <2>3 DEF InOrder, Pool
  <2>4. QED
    BY <2>2, <2>3
<1>10. ~(q.call[k].kind = "flight" /\ q.call[k].stage \in Moving)
  BY <1>1, <1>6 DEF Moving
<1>11. QED
  BY <1>6, <1>7, <1>8, <1>9, <1>10 DEF q, p

\* The variables after a step that leaves pool q behind.
LEMMA PoolAfter ==
  ASSUME NEW q, PoolIs(q), PoolOK(q, 0), Carried(call, q.call), StillFollow(q.call),
         InOrder(Pool, q)
  PROVE  /\ PoolOK(Pool, 0)' /\ Carried(call, call') /\ StillFollow(call')
         /\ InOrder(Pool, Pool')
<1>1. Pool'.active = q.active /\ Pool'.waiters = q.waiters /\ Pool'.call = q.call
      /\ call' = q.call
  BY DEF PoolIs, Pool
<1>2. PoolOK(Pool', 0)
  BY <1>1 DEF PoolOK
<1>3. InOrder(Pool, Pool')
  BY <1>1, Zenon DEF InOrder
<1>4. QED
  BY <1>1, <1>2, <1>3

\* A step in which the call keeps its place: its stage changes, nothing else.
LEMMA StayKeeps ==
  ASSUME IInv, NEW k \in Calls, NEW s \in {"fetching", "delayed"}, NEW r \in BOOLEAN,
         call[k].stage \in {"fetching", "delayed"},
         call' = [call EXCEPT ![k].stage = s, ![k].retried = r],
         UNCHANGED <<session, scope, inFlight, active, waiters>>
  PROVE  IInv' /\ InOrder(Pool, Pool') /\ Carried(call, call')
<1>1. PoolOK(Pool, 0) /\ call \in [Calls -> CallRecord] /\ waiters \in Seq(Calls)
  BY DEF IInv, PoolOK, Pool
<1>2. ASSUME NEW j \in Calls
      PROVE  /\ call'[j] \in CallRecord
             /\ call'[j].user = call[j].user /\ call'[j].medium = call[j].medium
             /\ call'[j].detached = call[j].detached /\ call'[j].crew = call[j].crew
             /\ call'[j].kind = call[j].kind
             /\ j # k => call'[j] = call[j]
             /\ j = k => call'[j].stage = s
  <2> DEFINE e == [[call[k] EXCEPT !.stage = s] EXCEPT !.retried = r]
  <2>1. call[k] \in CallRecord
    BY <1>1
  <2>2. /\ e \in CallRecord /\ e.user = call[k].user /\ e.medium = call[k].medium
        /\ e.detached = call[k].detached /\ e.crew = call[k].crew /\ e.kind = call[k].kind
        /\ e.stage = s
    BY <2>1 DEF CallRecord, Stages
  <2>3. call'[j] = IF j = k THEN e ELSE call[j]
    BY <1>1
  <2> HIDE DEF e
  <2>4. QED
    BY <1>1, <2>2, <2>3
<1>3. call' \in [Calls -> CallRecord]
  <2>1. call' = [j \in Calls |-> call'[j]]
    BY <1>1
  <2>2. QED
    BY <1>2, <2>1
<1>4. /\ Pool.active = active /\ Pool.waiters = waiters /\ Pool.call = call
      /\ Pool'.active = active /\ Pool'.waiters = waiters /\ Pool'.call = call'
  BY DEF Pool
<1>5. PoolOK(Pool', 0) /\ InSlot(call') = InSlot(call)
  <2>1. \A j \in Calls :
          \/ Pool'.call[j].stage = Pool.call[j].stage
          \/ {Pool'.call[j].stage, Pool.call[j].stage} \subseteq {"fetching", "delayed"}
          \/ {Pool'.call[j].stage, Pool.call[j].stage} \cap Moving = {}
    <3>1. \A j \in Calls : call'[j].stage = call[j].stage
                            \/ {call'[j].stage, call[j].stage} \subseteq {"fetching", "delayed"}
      BY <1>2
    <3>2. QED
      BY <1>4, <3>1, Zenon
  <2>2. /\ PoolOK(Pool, 0) /\ Pool'.active = Pool.active /\ Pool'.waiters = Pool.waiters
        /\ Pool'.call \in [Calls -> CallRecord]
    BY <1>1, <1>3, <1>4, Zenon
  <2>3. PoolOK(Pool', 0) /\ InSlot(Pool'.call) = InSlot(Pool.call)
    BY <2>1, <2>2, SamePool, Zenon
  <2>4. QED
    BY <1>4, <2>3, Zenon
<1>6. Carried(call, call')
  BY <1>2 DEF Carried, Moving
<1>7. StillFollow(call')
  <2> SUFFICES ASSUME NEW j \in Calls, NEW i \in 1..Len(call'[j].crew)
               PROVE  call'[call'[j].crew[i]].stage = "following"
                      /\ Alike(call', call'[j].crew[i], j)
    BY DEF StillFollow
  <2>1. call'[j].crew = call[j].crew
    BY <1>2
  <2>2. call[j].crew \in Seq(Calls)
    BY <1>1 DEF CallRecord, Calls
  <2> DEFINE f == call[j].crew[i]
  <2>3. f \in Calls /\ call[f].stage = "following" /\ Alike(call, f, j)
    BY <2>1, <2>2, ElementOfSeq DEF IInv, CrewOK
  <2>4. call'[j].crew[i] = f
    BY <2>1
  <2> HIDE DEF f
  <2>5. f # k /\ call'[f] = call[f]
    BY <1>2, <2>3
  <2>6. call'[j].user = call[j].user /\ call'[j].medium = call[j].medium
    BY <1>2
  <2>7. QED
    BY <2>3, <2>4, <2>5, <2>6 DEF Alike
<1>8. IInv'
  BY <1>5, <1>6, <1>7, AnswerKeeps
<1>9. InOrder(Pool, Pool')
  <2>1. Pool'.waiters = Pool.waiters \o <<>> /\ <<>> \in Seq(Calls)
    BY <1>1, <1>4, EmptySeq, ConcatEmptySeq
  <2>2. QED
    BY <1>4, <1>5, <2>1 DEF InOrder
<1>10. QED
  BY <1>6, <1>8, <1>9

\* Whatever the network and the timers do for a call.
LEMMA AnswerStep ==
  ASSUME IInv, NEW k \in Calls, Answer(k)
  PROVE  IInv' /\ InOrder(Pool, Pool') /\ Carried(call, call')
<1>1. CASE SucceedDirect(k)
  <2>1. call[k].stage = "fetching" /\ {k} \in {{k}, Crew(k)} /\ PoolIs(Done(k, {k}))
        /\ session' = session /\ scope' = scope /\ inFlight' = inFlight
    BY <1>1 DEF SucceedDirect
  <2>2. LET q == Done(k, {k})
        IN  PoolOK(q, 0) /\ Carried(call, q.call) /\ InOrder(Pool, q) /\ StillFollow(q.call)
    BY <2>1, DoneKeeps
  <2>3. PoolOK(Pool, 0)' /\ Carried(call, call') /\ StillFollow(call') /\ InOrder(Pool, Pool')
    BY <2>1, <2>2, PoolAfter
  <2>4. QED
    BY <2>1, <2>3, AnswerKeeps
<1>2. ASSUME call[k].stage = "fetching", PoolIs(Done(k, Crew(k))),
             session' = session, scope' = scope,
             IF call[k].kind = "flight" THEN Landed(k) ELSE inFlight' = inFlight
      PROVE  IInv' /\ InOrder(Pool, Pool') /\ Carried(call, call')
  <2>1. Crew(k) \in {{k}, Crew(k)} /\ k \in Crew(k)
    BY DEF Crew
  <2>2. LET q == Done(k, Crew(k))
        IN  /\ PoolOK(q, 0) /\ Carried(call, q.call) /\ InOrder(Pool, q) /\ StillFollow(q.call)
            /\ q.call[k].stage = "settled"
    BY <1>2, <2>1, DoneKeeps
  <2>3. PoolOK(Pool, 0)' /\ Carried(call, call') /\ StillFollow(call') /\ InOrder(Pool, Pool')
    BY <1>2, <2>2, PoolAfter
  <2>4. call'[k].stage = "settled"
    BY <1>2, <2>2 DEF PoolIs
  <2>5. QED
    BY <1>2, <2>3, <2>4, AnswerKeeps DEF Moving
<1>3. ASSUME call[k].stage = "fetching", call[k].kind = "flight", Landed(k),
             NEW ks \in {call[k].crew, <<k>> \o call[k].crew},
             PoolIs(Redirect(Done(k, {k}), ks)), session' = session, scope' = scope
      PROVE  IInv' /\ InOrder(Pool, Pool') /\ Carried(call, call')
  <2>1. LET q == Redirect(Done(k, {k}), ks)
        IN  /\ PoolOK(q, 0) /\ Carried(call, q.call) /\ InOrder(Pool, q) /\ StillFollow(q.call)
            /\ ~(q.call[k].kind = "flight" /\ q.call[k].stage \in Moving)
    BY <1>3, RedirectKeeps
  <2>2. PoolOK(Pool, 0)' /\ Carried(call, call') /\ StillFollow(call') /\ InOrder(Pool, Pool')
    BY <1>3, <2>1, PoolAfter
  <2>3. ~(call'[k].kind = "flight" /\ call'[k].stage \in Moving)
    BY <1>3, <2>1 DEF PoolIs
  <2>4. QED
    BY <1>3, <2>2, <2>3, AnswerKeeps DEF Moving
<1>4. CASE SucceedFlight(k)
  BY <1>2, <1>4, Zenon DEF SucceedFlight
<1>5. CASE SucceedDetached(k)
  <2> DEFINE found == Lookup(byUser[call[k].user], call[k].medium)
  <2>1. /\ call[k].stage = "fetching" /\ call[k].kind = "flight" /\ Landed(k)
        /\ session' = session /\ scope' = scope
        /\ PoolIs(IF found = {} THEN Redirect(Done(k, {k}), call[k].crew)
                  ELSE Done(k, Crew(k)))
    BY <1>5, Zenon DEF SucceedDetached
  <2> HIDE DEF found
  <2>2. CASE found = {}
    BY <1>3, <2>1, <2>2, Zenon
  <2>3. CASE found # {}
    BY <1>2, <2>1, <2>3, Zenon
  <2>4. QED
    BY <2>2, <2>3
<1>6. CASE SucceedElsewhere(k)
  BY <1>3, <1>6, Zenon DEF SucceedElsewhere
<1>7. CASE Fail(k)
  BY <1>2, <1>7, Zenon DEF Fail
<1>8. CASE Throttled(k)
  <2>1. /\ call[k].stage = "fetching" /\ "delayed" \in {"fetching", "delayed"} /\ TRUE \in BOOLEAN
        /\ call' = [call EXCEPT ![k].stage = "delayed", ![k].retried = TRUE]
        /\ UNCHANGED <<session, scope, inFlight, active, waiters>>
    BY <1>8 DEF Throttled
  <2>2. QED
    BY <2>1, StayKeeps
<1>9. CASE RetryDue(k)
  <2>1. /\ call[k].stage = "delayed" /\ call[k].retried \in BOOLEAN
        /\ call' = [call EXCEPT ![k].stage = "fetching", ![k].retried = call[k].retried]
        /\ UNCHANGED <<session, scope, inFlight, active, waiters>>
    <3>1. call \in [Calls -> CallRecord]
      BY DEF IInv, PoolOK, Pool
    <3>2. QED
      BY <1>9, <3>1 DEF RetryDue, CallRecord
  <2>2. QED
    BY <2>1, StayKeeps
<1>10. QED
  BY <1>1, <1>4, <1>5, <1>6, <1>7, <1>8, <1>9 DEF Answer

-------------------------------------------------------------------------------
\* Calls b and a table fl in which the invariant holds, every call where it is.
Base(fl, b) ==
  /\ fl \in [Users -> [Media -> Nat]] /\ b \in [Calls -> CallRecord]
  /\ CrewOK(b) /\ Blank(b) /\ Tabled(fl, b) /\ Covered(fl, b)
  /\ \A j \in Calls : b[j].stage = call[j].stage

\* What the pool rests on is part of the invariant.
LEMMA PlainBase == ASSUME IInv PROVE Base(inFlight, call)
BY DEF IInv, Base, PoolOK, Pool

\* A change of the user marks the flights of the maps it drops.
LEMMA ScopedBase ==
  ASSUME IInv, NEW u
  PROVE  /\ Base(Scoped(u).inFlight, Scoped(u).call)
         /\ Remembered(call, Scoped(u).call)
<1>1. CASE u = scope \/ scope = NoUser
  <2>1. Scoped(u).inFlight = inFlight /\ Scoped(u).call = call
    BY <1>1 DEF Scoped
  <2>2. QED
    BY <2>1, PlainBase DEF Remembered
<1>2. CASE ~(u = scope \/ scope = NoUser)
  <2> DEFINE fl == [inFlight EXCEPT ![scope] = [m \in Media |-> 0]]
             b == [k \in Calls |->
                     IF call[k].stage = "settled" THEN call[k]
                     ELSE [call[k] EXCEPT !.detached = @ \/ call[k].user = scope]]
  <2>1. Scoped(u).inFlight = fl /\ Scoped(u).call = b
    BY <1>2 DEF Scoped
  <2>2. /\ call \in [Calls -> CallRecord] /\ scope \in Users /\ scope # NoUser
        /\ inFlight \in [Users -> [Media -> Nat]]
    BY <1>2 DEF IInv, PoolOK, Pool
  <2>3. ASSUME NEW j \in Calls
        PROVE  /\ b[j] \in CallRecord
               /\ b[j].stage = call[j].stage /\ b[j].kind = call[j].kind
               /\ b[j].user = call[j].user /\ b[j].medium = call[j].medium
               /\ b[j].crew = call[j].crew /\ b[j].retried = call[j].retried
               /\ call[j].detached => b[j].detached
               /\ call[j].stage # "settled" /\ call[j].user = scope => b[j].detached
               /\ call[j].user # scope => b[j].detached = call[j].detached
    <3> DEFINE x == call[j].detached \/ call[j].user = scope
               e == [call[j] EXCEPT !.detached = x]
    <3>1. call[j] \in CallRecord
      BY <2>2
    <3>2. call[j].detached \in BOOLEAN
      BY <3>1 DEF CallRecord
    <3>3. x \in BOOLEAN /\ (call[j].detached => x) /\ (call[j].user = scope => x)
          /\ (call[j].user # scope => x = call[j].detached)
      BY <3>2, Zenon
    <3>4. b[j] = IF call[j].stage = "settled" THEN call[j] ELSE e
      BY Zenon
    <3> HIDE DEF x, b
    <3>5. /\ e \in CallRecord /\ e.stage = call[j].stage /\ e.kind = call[j].kind
          /\ e.user = call[j].user /\ e.medium = call[j].medium /\ e.crew = call[j].crew
          /\ e.retried = call[j].retried /\ e.detached = x
      BY <3>1, <3>3 DEF CallRecord
    <3> HIDE DEF e
    <3>6. CASE call[j].stage = "settled"
      BY <3>1, <3>4, <3>6, Zenon
    <3>7. CASE call[j].stage # "settled"
      BY <3>3, <3>4, <3>5, <3>7, Zenon
    <3>8. QED
      BY <3>6, <3>7
  <2>4. b \in [Calls -> CallRecord]
    <3>1. b = [j \in Calls |-> b[j]]
      OBVIOUS
    <3> HIDE DEF b
    <3>2. QED
      BY <2>3, <3>1
  <2>5. /\ fl \in [Users -> [Media -> Nat]]
        /\ \A v \in Users, m \in Media : fl[v][m] = IF v = scope THEN 0 ELSE inFlight[v][m]
    BY <2>2
  <2> HIDE DEF b, fl
  <2>6. CrewOK(b)
    <3>1. StillFollow(b)
      <4> SUFFICES ASSUME NEW j \in Calls, NEW i \in 1..Len(b[j].crew)
                   PROVE  b[b[j].crew[i]].stage = "following" /\ Alike(b, b[j].crew[i], j)
        BY DEF StillFollow
      <4>1. b[j].crew = call[j].crew /\ call[j].crew \in Seq(Calls)
        BY <2>2, <2>3 DEF CallRecord, Calls
      <4>2. /\ call[j].crew[i] \in Calls /\ call[call[j].crew[i]].stage = "following"
            /\ Alike(call, call[j].crew[i], j)
        BY <4>1, ElementOfSeq DEF IInv, CrewOK
      <4>3. QED
        BY <2>3, <4>1, <4>2 DEF Alike
    <3>2. QED
      BY <2>3, <3>1, CrewKept DEF IInv
  <2>7. Blank(b)
    <3> SUFFICES ASSUME NEW k \in Calls, b[k].stage = "unused" PROVE b[k] = NoCall
      BY DEF Blank
    <3>1. call[k] = NoCall
      BY <2>3 DEF IInv, Blank
    <3>2. call[k].user # scope
      BY <2>2, <3>1 DEF NoCall
    <3>3. b[k] \in CallRecord /\ call[k] \in CallRecord
      BY <2>2, <2>3
    <3>4. /\ b[k].stage = call[k].stage /\ b[k].kind = call[k].kind
          /\ b[k].user = call[k].user /\ b[k].medium = call[k].medium
          /\ b[k].crew = call[k].crew /\ b[k].retried = call[k].retried
          /\ b[k].detached = call[k].detached
      BY <2>3, <3>2
    <3>5. QED
      BY <3>1, <3>3, <3>4 DEF CallRecord
  <2>8. Tabled(fl, b)
    BY <2>3, <2>5 DEF IInv, Tabled, Belongs
  <2>9. Covered(fl, b)
    <3> SUFFICES ASSUME NEW j \in Calls, b[j].kind = "flight", b[j].stage \in Moving
                 PROVE  /\ b[j].user \in Users /\ b[j].medium \in Media
                        /\ \/ fl[b[j].user][b[j].medium] = j
                           \/ \E i \in Calls : /\ b[i].detached /\ b[i].user = b[j].user
                                               /\ b[i].medium = b[j].medium
      BY DEF Covered
    <3>1. /\ call[j].user \in Users /\ call[j].medium \in Media
          /\ \/ inFlight[call[j].user][call[j].medium] = j
             \/ \E i \in Calls : /\ call[i].detached /\ call[i].user = call[j].user
                                 /\ call[i].medium = call[j].medium
      BY <2>3 DEF IInv, Covered
    <3>2. CASE call[j].user = scope
      <4>1. b[j].detached
        BY <2>3, <3>2 DEF Moving
      <4>2. QED
        BY <2>3, <3>1, <4>1
    <3>3. CASE call[j].user # scope
      BY <2>3, <2>5, <3>1, <3>3
    <3>4. QED
      BY <3>2, <3>3
  <2>10. QED
    BY <2>1, <2>3, <2>4, <2>5, <2>6, <2>7, <2>8, <2>9 DEF Base, Remembered
<1>3. QED
  BY <1>1, <1>2

\* Other facts about the calls, and every call where it is: the same pool.
LEMMA SamePlaces ==
  ASSUME PoolOK(Pool, 0), NEW c \in [Calls -> CallRecord],
         \A j \in Calls : c[j].stage = call[j].stage
                          \/ {c[j].stage, call[j].stage} \cap Moving = {}
  PROVE  LET q == [active |-> active, waiters |-> waiters, call |-> c]
         IN  PoolOK(q, 0) /\ InSlot(c) = InSlot(call) /\ InOrder(Pool, q)
<1> DEFINE q == [active |-> active, waiters |-> waiters, call |-> c]
<1>1. /\ q.active = active /\ q.waiters = waiters /\ q.call = c
      /\ Pool.active = active /\ Pool.waiters = waiters /\ Pool.call = call
  BY DEF Pool
<1> HIDE DEF q
<1>2. \A j \in Calls : \/ q.call[j].stage = Pool.call[j].stage
                       \/ {q.call[j].stage, Pool.call[j].stage} \subseteq {"fetching", "delayed"}
                       \/ {q.call[j].stage, Pool.call[j].stage} \cap Moving = {}
  BY <1>1, Zenon
<1>3. PoolOK(q, 0) /\ InSlot(q.call) = InSlot(Pool.call)
  <2>1. q.active = Pool.active /\ q.waiters = Pool.waiters /\ q.call \in [Calls -> CallRecord]
    BY <1>1, Zenon
  <2>2. QED
    BY <1>2, <2>1, SamePool, Zenon
<1>4. q.waiters = Pool.waiters \o <<>> /\ <<>> \in Seq(Calls)
  BY <1>1, EmptySeq, ConcatEmptySeq DEF PoolOK
<1>5. QED
  BY <1>1, <1>3, <1>4 DEF InOrder, q

\* The pool once call k, one of c, has asked for a slot.
Begun(c, k) == Acquire([active |-> active, waiters |-> waiters, call |-> c], <<k>>)

\* If call k is a flight, table f is table fl with it.
Enters(fl, f, c, k, u, m) ==
  \/ c[k].kind # "flight" /\ f = fl
  \/ /\ c[k].kind = "flight" /\ c[k].user = u /\ c[k].medium = m /\ u \in Users
     /\ fl[u][m] = 0 /\ f = [fl EXCEPT ![u][m] = k]

\* Pool q when call k, new among calls b and otherwise as in c, is in it.
Entered(q, b, c, k, f) ==
  /\ PoolOK(q, 0) /\ InOrder(Pool, q)
  /\ f \in [Users -> [Media -> Nat]] /\ CrewOK(q.call) /\ Blank(q.call)
  /\ Tabled(f, q.call) /\ Covered(f, q.call)
  /\ q.call[k].stage # "unused" /\ q.call[k].kind = c[k].kind
  /\ q.call[k].user = c[k].user /\ q.call[k].medium = c[k].medium
  /\ \A j \in Calls \ {k} : q.call[j] = b[j]

\* A new call asks for a slot; if it is a flight, it stands in the table.
LEMMA BeginKeeps ==
  ASSUME PoolOK(Pool, 0), NEW fl, NEW b, Base(fl, b), NEW k \in Unused,
         NEW c \in [Calls -> CallRecord], \A j \in Calls \ {k} : c[j] = b[j],
         c[k].stage \notin Moving, c[k].crew = <<>>,
         NEW u, NEW m \in Media, NEW f, Enters(fl, f, c, k, u, m)
  PROVE  Entered(Begun(c, k), b, c, k, f)
<1> DEFINE p == [active |-> active, waiters |-> waiters, call |-> c]
           ks == <<k>>
           q == Acquire(p, ks)
<1>0. \/ c[k].kind # "flight" /\ f = fl
      \/ /\ c[k].kind = "flight" /\ c[k].user = u /\ c[k].medium = m /\ u \in Users
         /\ fl[u][m] = 0 /\ f = [fl EXCEPT ![u][m] = k]
  BY DEF Enters
<1>1. k \in Calls /\ call[k].stage = "unused" /\ b[k].stage = "unused" /\ b[k] = NoCall
  BY DEF Unused, Base, Blank
<1>2. /\ PoolOK(p, 0) /\ InSlot(c) = InSlot(call)
      /\ p.active = active /\ p.waiters = waiters /\ p.call = c
  <2>1. \A j \in Calls : c[j].stage = call[j].stage \/ {c[j].stage, call[j].stage} \cap Moving = {}
    BY <1>1 DEF Base, Moving
  <2>2. PoolOK(p, 0) /\ InSlot(c) = InSlot(call)
    BY <2>1, SamePlaces
  <2>3. QED
    BY <2>2
<1>3. ks \in Seq(Calls) /\ Distinct(ks) /\ Elements(ks) = {k}
  <2>1. ks \in Seq(Calls) /\ Len(ks) = 1 /\ ks[1] = k
    BY <1>1
  <2> HIDE DEF ks
  <2>2. QED
    BY <2>1 DEF Distinct, Elements
<1> HIDE DEF p, ks
<1>4. /\ PoolOK(q, 0) /\ OnlyStages(c, q.call)
      /\ q.call[k].stage \in {"fetching", "queued"}
      /\ \A j \in Calls \ {k} : q.call[j] = b[j]
      /\ waiters # <<>> => InSlot(q.call) = InSlot(call)
      /\ \E rest \in Seq(Calls) : q.waiters = waiters \o rest
  <2>1. \A j \in Elements(ks) : p.call[j].stage \notin Moving
    BY <1>2, <1>3
  <2>2. /\ PoolOK(q, 0) /\ OnlyStages(p.call, q.call)
        /\ \A j \in Elements(ks) : q.call[j].stage \in {"fetching", "queued"}
        /\ \A j \in Calls \ Elements(ks) : q.call[j] = p.call[j]
        /\ p.waiters # <<>> => InSlot(q.call) = InSlot(p.call)
        /\ \E rest \in Seq(Calls) : q.waiters = p.waiters \o rest
    BY <1>2, <1>3, <2>1, AcquirePool
  <2> HIDE DEF q
  <2>3. QED
    BY <1>2, <1>3, <2>2
<1> HIDE DEF q
<1>5. InOrder(Pool, q)
  BY <1>4 DEF InOrder, Pool
<1>6. /\ q.call[k].crew = <<>> /\ q.call[k].kind = c[k].kind /\ q.call[k].user = c[k].user
      /\ q.call[k].medium = c[k].medium
  BY <1>1, <1>4 DEF OnlyStages
<1>7. CrewOK(q.call)
  <2>1. Len(<<>>) = 0
    BY EmptySeq
  <2>2. StillFollow(q.call)
    <3> SUFFICES ASSUME NEW j \in Calls, NEW i \in 1..Len(q.call[j].crew)
                 PROVE  q.call[q.call[j].crew[i]].stage = "following"
                        /\ Alike(q.call, q.call[j].crew[i], j)
      BY DEF StillFollow
    <3>1. j # k /\ q.call[j].crew = b[j].crew /\ b[j].crew \in Seq(Calls)
      <4>1. j # k
        BY <1>6, <2>1
      <4>2. b[j] \in CallRecord
        BY DEF Base
      <4>3. QED
        BY <1>4, <4>1, <4>2 DEF CallRecord, Calls
    <3>2. /\ b[j].crew[i] \in Calls /\ b[b[j].crew[i]].stage = "following"
          /\ Alike(b, b[j].crew[i], j)
      BY <3>1, ElementOfSeq DEF Base, CrewOK
    <3>3. b[j].crew[i] # k
      BY <1>1, <3>2
    <3>4. QED
      BY <1>4, <3>1, <3>2, <3>3 DEF Alike
  <2>3. \A j \in Calls : q.call[j].crew \in {b[j].crew, <<>>}
    BY <1>4, <1>6
  <2>4. CrewOK(b)
    BY DEF Base
  <2>5. QED
    BY <2>2, <2>3, <2>4, CrewKept
<1>8. Blank(q.call)
  BY <1>4 DEF Base, Blank
<1>9. /\ f \in [Users -> [Media -> Nat]]
      /\ \A v \in Users, n \in Media : f[v][n] = fl[v][n] \/ (f[v][n] = k /\ fl[v][n] = 0)
  <2>1. fl \in [Users -> [Media -> Nat]] /\ k \in Nat
    BY <1>1 DEF Base, Calls
  <2>2. CASE f = fl
    BY <2>1, <2>2
  <2>3. CASE u \in Users /\ fl[u][m] = 0 /\ f = [fl EXCEPT ![u][m] = k]
    BY <2>1, <2>3
  <2>4. QED
    BY <1>0, <2>2, <2>3
<1>10. Tabled(f, q.call)
  <2> SUFFICES ASSUME NEW v \in Users, NEW n \in Media, f[v][n] # 0
               PROVE  Belongs(q.call, f[v][n], v, n)
    BY DEF Tabled
  <2>1. CASE f[v][n] = k
    <3>1. fl[v][n] # k
      BY <1>1 DEF Base, Tabled, Belongs, Calls
    <3>2. v = u /\ n = m /\ c[k].user = u /\ c[k].medium = m
      BY <1>0, <2>1, <3>1 DEF Base
    <3>3. QED
      BY <1>1, <1>4, <1>6, <2>1, <3>2 DEF Belongs
  <2>2. CASE f[v][n] # k
    BY <1>4, <1>9, <2>2 DEF Base, Tabled, Belongs
  <2>3. QED
    BY <2>1, <2>2
<1>11. Covered(f, q.call)
  <2> SUFFICES ASSUME NEW j \in Calls, q.call[j].kind = "flight", q.call[j].stage \in Moving
               PROVE  /\ q.call[j].user \in Users /\ q.call[j].medium \in Media
                      /\ \/ f[q.call[j].user][q.call[j].medium] = j
                         \/ \E i \in Calls : /\ q.call[i].detached
                                             /\ q.call[i].user = q.call[j].user
                                             /\ q.call[i].medium = q.call[j].medium
    BY DEF Covered
  <2>1. CASE j = k
    <3>1. /\ c[k].kind = "flight" /\ c[k].user = u /\ c[k].medium = m /\ u \in Users
          /\ f = [fl EXCEPT ![u][m] = k]
      BY <1>0, <1>6, <2>1
    <3>2. f[u][m] = k
      BY <3>1 DEF Base
    <3>3. QED
      BY <1>6, <2>1, <3>1, <3>2
  <2>2. CASE j # k
    <3>1. /\ q.call[j] = b[j] /\ b[j].user \in Users /\ b[j].medium \in Media
          /\ \/ fl[b[j].user][b[j].medium] = j
             \/ \E i \in Calls : /\ b[i].detached /\ b[i].user = b[j].user
                                 /\ b[i].medium = b[j].medium
      BY <1>4, <2>2 DEF Base, Covered
    <3>2. CASE fl[b[j].user][b[j].medium] = j
      <4>1. j # 0
        BY DEF Calls
      <4>2. QED
        BY <1>9, <3>1, <3>2, <4>1
    <3>3. ASSUME NEW i \in Calls, b[i].detached, b[i].user = b[j].user, b[i].medium = b[j].medium
          PROVE  q.call[i].detached /\ q.call[i].user = q.call[j].user
                 /\ q.call[i].medium = q.call[j].medium
      <4>1. i # k
        BY <1>1, <3>3 DEF NoCall
      <4>2. QED
        BY <1>4, <3>1, <3>3, <4>1
    <3>4. QED
      BY <3>1, <3>2, <3>3
  <2>3. QED
    BY <2>1, <2>2
<1>12. Entered(q, b, c, k, f)
  BY <1>4, <1>5, <1>6, <1>7, <1>8, <1>9, <1>10, <1>11 DEF Entered
<1>13. QED
  BY <1>12 DEF q, p, ks, Begun

\* The calls c once call k awaits call lead, and the pool with these calls.
Joining(c, lead, k) == [c EXCEPT ![lead].crew = Append(@, k)]
Among(c) == [active |-> active, waiters |-> waiters, call |-> c]

\* A new call joins the flight of the table.
LEMMA JoinKeeps ==
  ASSUME PoolOK(Pool, 0), NEW fl, NEW b, Base(fl, b), NEW k \in Unused,
         NEW c \in [Calls -> CallRecord], \A j \in Calls \ {k} : c[j] = b[j],
         c[k].stage = "following", c[k].crew = <<>>,
         NEW u \in Users, NEW m \in Media, fl[u][m] # 0, c[k].user = u, c[k].medium = m
  PROVE  LET d == Joining(c, fl[u][m], k)
             q == Among(d)
         IN  /\ PoolOK(q, 0) /\ InOrder(Pool, q)
             /\ CrewOK(d) /\ Blank(d) /\ Tabled(fl, d) /\ Covered(fl, d)
             /\ d[k] = c[k]
             /\ \A j \in Calls \ {k} : /\ d[j].stage = b[j].stage /\ d[j].kind = b[j].kind
                                       /\ d[j].user = b[j].user /\ d[j].medium = b[j].medium
<1> DEFINE lead == fl[u][m]
           e == [c[lead] EXCEPT !.crew = Append(@, k)]
           d == [c EXCEPT ![lead] = e]
           q == [active |-> active, waiters |-> waiters, call |-> d]
<1>1. k \in Calls /\ call[k].stage = "unused" /\ b[k].stage = "unused" /\ b[k] = NoCall
  BY DEF Unused, Base, Blank
<1>2. /\ lead \in Calls /\ b[lead].stage # "unused" /\ lead # k /\ c[lead] = b[lead]
      /\ b[lead].user = u /\ b[lead].medium = m
  BY <1>1 DEF Base, Tabled, Belongs
<1> HIDE DEF lead
<1>3. /\ c[lead].crew \in Seq(Calls) /\ Append(c[lead].crew, k) \in Seq(Calls)
      /\ Len(c[lead].crew) \in Nat
      /\ Len(Append(c[lead].crew, k)) = Len(c[lead].crew) + 1
      /\ \A i \in 1..Len(c[lead].crew) : Append(c[lead].crew, k)[i] = c[lead].crew[i]
      /\ Append(c[lead].crew, k)[Len(c[lead].crew) + 1] = k
  <2>1. c[lead].crew \in Seq(Calls)
    BY <1>2 DEF CallRecord, Calls
  <2>2. QED
    BY <1>1, <2>1, AppendProperties, LenProperties
<1>4. /\ e \in CallRecord /\ e.stage = c[lead].stage /\ e.kind = c[lead].kind
      /\ e.user = c[lead].user /\ e.medium = c[lead].medium /\ e.detached = c[lead].detached
      /\ e.crew = Append(c[lead].crew, k)
  <2>1. c[lead] \in CallRecord
    BY <1>2
  <2>2. QED
    BY <1>3, <2>1 DEF CallRecord, Calls
<1> HIDE DEF e
<1>5. d \in [Calls -> CallRecord] /\ d[lead] = e /\ \A j \in Calls \ {lead} : d[j] = c[j]
  BY <1>2, <1>4
<1> HIDE DEF d
<1>6. /\ d[k] = c[k] /\ \A j \in Calls \ {lead, k} : d[j] = b[j]
      /\ \A j \in Calls \ {k} : /\ d[j].stage = b[j].stage /\ d[j].kind = b[j].kind
                                /\ d[j].user = b[j].user /\ d[j].medium = b[j].medium
                                /\ d[j].detached = b[j].detached
  BY <1>1, <1>2, <1>4, <1>5
<1>7. PoolOK(q, 0) /\ InOrder(Pool, q)
  <2>1. \A j \in Calls : d[j].stage = call[j].stage \/ {d[j].stage, call[j].stage} \cap Moving = {}
    BY <1>1, <1>6 DEF Base, Moving
  <2>2. QED
    BY <1>5, <2>1, SamePlaces
\* Who is in a crew now was in that place before, or is the new call.
<1>8. ASSUME NEW j \in Calls, NEW i \in 1..Len(d[j].crew)
      PROVE  \/ j # k /\ i \in 1..Len(b[j].crew) /\ d[j].crew[i] = b[j].crew[i]
                /\ b[j].crew[i] \in Calls \ {k} /\ b[b[j].crew[i]].stage = "following"
                /\ Alike(b, b[j].crew[i], j)
             \/ j = lead /\ i = Len(b[lead].crew) + 1 /\ d[j].crew[i] = k
  <2>1. Len(<<>>) = 0
    BY EmptySeq
  <2>2. j # k
    BY <1>6, <2>1
  <2>3. \A n \in 1..Len(b[j].crew) : /\ b[j].crew[n] \in Calls
                                     /\ b[b[j].crew[n]].stage = "following"
                                     /\ Alike(b, b[j].crew[n], j)
    <3>1. b[j].crew \in Seq(Calls)
      BY DEF Base, CallRecord, Calls
    <3>2. QED
      BY <3>1, ElementOfSeq DEF Base, CrewOK
  <2>4. \A n \in 1..Len(b[j].crew) : b[j].crew[n] # k
    BY <1>1, <2>3
  <2>5. CASE j # lead
    BY <1>6, <2>2, <2>3, <2>4, <2>5
  <2>6. CASE j = lead
    BY <1>2, <1>3, <1>4, <1>5, <2>2, <2>3, <2>4, <2>6, SMTT(30)
  <2>7. QED
    BY <2>5, <2>6
<1>9. CrewOK(d)
  <2>1. ASSUME NEW j \in Calls, NEW i \in 1..Len(d[j].crew)
        PROVE  d[d[j].crew[i]].stage = "following" /\ Alike(d, d[j].crew[i], j)
    <3>1. CASE /\ j # k /\ d[j].crew[i] = b[j].crew[i] /\ b[j].crew[i] \in Calls \ {k}
               /\ b[b[j].crew[i]].stage = "following" /\ Alike(b, b[j].crew[i], j)
      BY <1>6, <3>1 DEF Alike
    <3>2. CASE j = lead /\ d[j].crew[i] = k
      BY <1>2, <1>6, <3>2 DEF Alike
    <3>3. QED
      BY <1>8, <3>1, <3>2
  <2>2. ASSUME NEW j \in Calls, NEW n \in Calls, NEW x \in 1..Len(d[j].crew),
               NEW y \in 1..Len(d[n].crew), d[j].crew[x] = d[n].crew[y]
        PROVE  j = n /\ x = y
    <3>1. CASE d[j].crew[x] = k
      <4>1. j = lead /\ x = Len(b[lead].crew) + 1
        BY <1>8, <3>1
      <4>2. d[n].crew[y] = k
        BY <2>2, <3>1
      <4>3. n = lead /\ y = Len(b[lead].crew) + 1
        BY <1>8, <4>2
      <4>4. QED
        BY <4>1, <4>3
    <3>2. CASE d[j].crew[x] # k
      <4>1. /\ x \in 1..Len(b[j].crew) /\ y \in 1..Len(b[n].crew)
            /\ b[j].crew[x] = b[n].crew[y]
        BY <1>8, <2>2, <3>2
      <4>2. QED
        BY <4>1 DEF Base, CrewOK
    <3>3. QED
      BY <3>1, <3>2
  <2>3. QED
    BY <2>1, <2>2 DEF CrewOK
<1>10. Blank(d)
  <2> SUFFICES ASSUME NEW j \in Calls, d[j].stage = "unused" PROVE d[j] = NoCall
    BY DEF Blank
  <2>1. j # k /\ j # lead
    BY <1>2, <1>6
  <2>2. QED
    BY <1>6, <2>1 DEF Base, Blank
<1>11. Tabled(fl, d)
  <2> SUFFICES ASSUME NEW v \in Users, NEW n \in Media, fl[v][n] # 0
               PROVE  Belongs(d, fl[v][n], v, n)
    BY DEF Tabled
  <2>1. Belongs(b, fl[v][n], v, n)
    BY DEF Base, Tabled
  <2>2. QED
    BY <1>1, <1>6, <2>1 DEF Belongs
<1>12. Covered(fl, d)
  <2> SUFFICES ASSUME NEW j \in Calls, d[j].kind = "flight", d[j].stage \in Moving
               PROVE  /\ d[j].user \in Users /\ d[j].medium \in Media
                      /\ \/ fl[d[j].user][d[j].medium] = j
                         \/ \E i \in Calls : /\ d[i].detached /\ d[i].user = d[j].user
                                             /\ d[i].medium = d[j].medium
    BY DEF Covered
  <2>1. j # k
    BY <1>6 DEF Moving
  <2>2. /\ b[j].user \in Users /\ b[j].medium \in Media
        /\ \/ fl[b[j].user][b[j].medium] = j
           \/ \E i \in Calls : /\ b[i].detached /\ b[i].user = b[j].user
                               /\ b[i].medium = b[j].medium
    BY <1>6, <2>1, SMTT(30) DEF Base, Covered
  <2>3. \A i \in Calls : b[i].detached => i # k
    BY <1>1 DEF NoCall
  <2>4. QED
    BY <1>6, <2>1, <2>2, <2>3
<1>13. QED
  BY <1>6, <1>7, <1>9, <1>10, <1>11, <1>12 DEF q, d, e, lead, Joining, Among

\* The variables after a step that leaves pool q, and its calls, behind.
LEMMA StepKeeps ==
  ASSUME IInv, NEW q, PoolIs(q), PoolOK(q, 0), InOrder(Pool, q),
         session' \in Users \cup {NoUser}, scope' \in Users \cup {NoUser},
         inFlight' \in [Users -> [Media -> Nat]], CrewOK(q.call), Blank(q.call),
         Tabled(inFlight', q.call), Covered(inFlight', q.call)
  PROVE  IInv' /\ InOrder(Pool, Pool')
<1>1. Pool'.active = q.active /\ Pool'.waiters = q.waiters /\ Pool'.call = q.call
      /\ call' = q.call
  BY DEF PoolIs, Pool
<1>2. PoolOK(Pool', 0)
  BY <1>1 DEF PoolOK
<1>3. InOrder(Pool, Pool')
  BY <1>1, Zenon DEF InOrder
<1>4. QED
  BY <1>1, <1>2, <1>3 DEF IInv

\* The call that a component or a download makes.
Made(s, kind, u, m) == [NoCall EXCEPT !.stage = s, !.kind = kind, !.user = u, !.medium = m]

\* A new entry of the table of calls has the fields it is made of.
LEMMA NewCall ==
  ASSUME NEW s \in {"unused", "following"}, NEW kind \in {"flight", "direct", "download"},
         NEW u \in Users \cup {NoUser}, NEW m \in Media
  PROVE  LET e == Made(s, kind, u, m)
         IN  /\ e \in CallRecord /\ e.stage = s /\ e.kind = kind /\ e.user = u
             /\ e.medium = m /\ e.crew = <<>>
<1> DEFINE e1 == [NoCall EXCEPT !.stage = s]
           e2 == [e1 EXCEPT !.kind = kind]
           e3 == [e2 EXCEPT !.user = u]
           e == [e3 EXCEPT !.medium = m]
<1>1. NoCall \in CallRecord /\ NoCall.crew = <<>>
  <2>1. <<>> \in Seq(1..MaxCalls)
    BY EmptySeq
  <2>2. QED
    BY <2>1 DEF CallRecord, Stages, NoCall
<1>2. e1 \in CallRecord /\ e1.stage = s /\ e1.crew = <<>>
  BY <1>1 DEF CallRecord, Stages
<1> HIDE DEF e1
<1>3. e2 \in CallRecord /\ e2.stage = s /\ e2.kind = kind /\ e2.crew = <<>>
  BY <1>2 DEF CallRecord
<1> HIDE DEF e2
<1>4. e3 \in CallRecord /\ e3.stage = s /\ e3.kind = kind /\ e3.user = u /\ e3.crew = <<>>
  BY <1>3 DEF CallRecord
<1> HIDE DEF e3
<1>5. /\ e \in CallRecord /\ e.stage = s /\ e.kind = kind /\ e.user = u /\ e.medium = m
      /\ e.crew = <<>>
  BY <1>4 DEF CallRecord
<1> HIDE DEF e
<1>6. QED
  BY <1>5, Zenon DEF Made, e, e3, e2, e1

\* A component mounts.
LEMMA MountStep ==
  ASSUME IInv, NEW x \in Components, NEW m \in Media, NEW k \in Unused, Mount(x, m, k)
  PROVE  /\ IInv' /\ InOrder(Pool, Pool') /\ Remembered(call, call')
         /\ session = NoUser \/ Lookup(Scoped(session).byUser[session], m) = {}
              => Belongs(call', k, session, m) /\ call'[k].kind # "download"
<1> DEFINE u == session
           fl == Scoped(session).inFlight
           b == Scoped(session).call
           c(kind) == Asks(Scoped(session), k, m, kind)
           lead == fl[u][m]
           Line(kind) == Acquire([Pool EXCEPT !.call = c(kind)], <<k>>)
           none == Lookup(Scoped(session).byUser[session], m) = {}
           Joined == [c("flight") EXCEPT ![lead].crew = Append(@, k)]
<1>1. /\ Base(fl, b) /\ b \in [Calls -> CallRecord] /\ k \in Calls
      /\ u \in Users \cup {NoUser} /\ PoolOK(Pool, 0)
  BY ScopedBase DEF Base, IInv, Unused
<1>2. session' = session /\ scope' = session
  BY DEF Mount
<1>3. \/ u = NoUser /\ PoolIs(Line("direct")) /\ inFlight' = fl
      \/ u # NoUser /\ ~none /\ PoolIs([Pool EXCEPT !.call = b]) /\ inFlight' = fl
      \/ u # NoUser /\ lead # 0 /\ PoolIs([Pool EXCEPT !.call = Joined]) /\ inFlight' = fl
      \/ /\ u # NoUser /\ lead = 0 /\ PoolIs(Line("flight"))
         /\ inFlight' = [fl EXCEPT ![u][m] = k]
  BY Zenon DEF Mount
<1>4. ASSUME NEW kind \in {"flight", "direct"}
      PROVE  /\ c(kind) \in [Calls -> CallRecord] /\ \A j \in Calls \ {k} : c(kind)[j] = b[j]
             /\ c(kind)[k].stage = "following" /\ c(kind)[k].kind = kind
             /\ c(kind)[k].user = u /\ c(kind)[k].medium = m /\ c(kind)[k].crew = <<>>
  <2> DEFINE e == Made("following", kind, u, m)
  <2>1. c(kind) = [b EXCEPT ![k] = e]
    BY DEF Asks, Made
  <2>2. /\ e \in CallRecord /\ e.stage = "following" /\ e.kind = kind /\ e.user = u
        /\ e.medium = m /\ e.crew = <<>>
    <3>1. "following" \in {"unused", "following"}
      OBVIOUS
    <3>2. kind \in {"flight", "direct", "download"}
      OBVIOUS
    <3>3. u \in Users \cup {NoUser}
      BY <1>1
    <3>4. QED
      BY <3>1, <3>2, <3>3, NewCall
  <2> HIDE DEF c, b, e
  <2>3. QED
    BY <1>1, <2>1, <2>2
<1>5. "following" \notin Moving
  BY DEF Moving
<1>12. Remembered(call, b) /\ call[k].stage = "unused"
  BY ScopedBase DEF Unused
\* The calls are remembered when those the cache had before are.
<1>13. ASSUME NEW d, \A j \in Calls \ {k} : /\ d[j].stage = b[j].stage /\ d[j].kind = b[j].kind
                                            /\ d[j].user = b[j].user /\ d[j].medium = b[j].medium
       PROVE  Remembered(call, d)
  BY <1>12, <1>13 DEF Remembered
<1> HIDE DEF fl, b, c, lead, none
<1>6. \A y : [Pool EXCEPT !.call = y] = [active |-> active, waiters |-> waiters, call |-> y]
  BY PoolFields DEF Pool
<1>7. CASE u = NoUser /\ PoolIs(Line("direct")) /\ inFlight' = fl
  <2> DEFINE y == c("direct")
             q == Begun(y, k)
  <2>1. /\ y \in [Calls -> CallRecord] /\ \A j \in Calls \ {k} : y[j] = b[j]
        /\ y[k].stage \notin Moving /\ y[k].kind # "flight" /\ y[k].crew = <<>>
    BY <1>4, <1>5
  <2>2. PoolIs(q)
    BY <1>6, <1>7 DEF Begun
  <2> HIDE DEF y
  <2>5. Enters(fl, fl, y, k, u, m)
    BY <2>1 DEF Enters
  <2>3. Entered(q, b, y, k, fl)
    BY <1>1, <2>1, <2>5, BeginKeeps
  <2>6. y[k].kind = "direct" /\ y[k].user = u /\ y[k].medium = m
    BY <1>4 DEF y
  <2> HIDE DEF q
  <2>7. call' = q.call
    BY <2>2 DEF PoolIs
  <2>8. Remembered(call, call') /\ Belongs(call', k, u, m) /\ call'[k].kind # "download"
    BY <1>1, <1>13, <2>3, <2>6, <2>7 DEF Belongs, Entered
  <2>4. QED
    BY <1>1, <1>2, <1>7, <2>2, <2>3, <2>8, StepKeeps DEF Entered
<1>8. CASE u # NoUser /\ ~none /\ PoolIs([Pool EXCEPT !.call = b]) /\ inFlight' = fl
  <2> DEFINE q == [active |-> active, waiters |-> waiters, call |-> b]
  <2>1. PoolOK(q, 0) /\ InOrder(Pool, q)
    BY <1>1, SamePlaces DEF Base
  <2>2. PoolIs(q) /\ q.call = b
    BY <1>6, <1>8
  <2> HIDE DEF q
  <2>3. IInv' /\ InOrder(Pool, Pool')
    BY <1>1, <1>2, <1>8, <2>1, <2>2, StepKeeps DEF Base
  <2>4. Remembered(call, call')
    BY <1>12, <2>2 DEF PoolIs
  <2>5. QED
    BY <1>8, <2>3, <2>4 DEF none
<1>9. CASE u # NoUser /\ lead # 0 /\ PoolIs([Pool EXCEPT !.call = Joined]) /\ inFlight' = fl
  <2> DEFINE q == [active |-> active, waiters |-> waiters, call |-> Joined]
  <2>1. /\ PoolOK(q, 0) /\ InOrder(Pool, q)
        /\ CrewOK(Joined) /\ Blank(Joined) /\ Tabled(fl, Joined) /\ Covered(fl, Joined)
        /\ Joined[k] = c("flight")[k]
        /\ \A j \in Calls \ {k} : /\ Joined[j].stage = b[j].stage /\ Joined[j].kind = b[j].kind
                                  /\ Joined[j].user = b[j].user
                                  /\ Joined[j].medium = b[j].medium
    <3>1. u \in Users /\ fl[u][m] # 0
      BY <1>1, <1>9 DEF lead
    <3> DEFINE y == c("flight")
    <3>2. /\ y \in [Calls -> CallRecord] /\ \A j \in Calls \ {k} : y[j] = b[j]
          /\ y[k].stage = "following" /\ y[k].crew = <<>> /\ y[k].user = u /\ y[k].medium = m
      BY <1>4
    <3> HIDE DEF y
    <3>3. LET d == Joining(y, fl[u][m], k)
              p == Among(d)
          IN  /\ PoolOK(p, 0) /\ InOrder(Pool, p)
              /\ CrewOK(d) /\ Blank(d) /\ Tabled(fl, d) /\ Covered(fl, d)
              /\ d[k] = y[k]
              /\ \A j \in Calls \ {k} : /\ d[j].stage = b[j].stage /\ d[j].kind = b[j].kind
                                        /\ d[j].user = b[j].user /\ d[j].medium = b[j].medium
      <4>1. PoolOK(Pool, 0) /\ Base(fl, b) /\ u \in Users /\ fl[u][m] # 0
        BY <1>1, <3>1
      <4>2. /\ y \in [Calls -> CallRecord] /\ \A j \in Calls \ {k} : y[j] = b[j]
            /\ y[k].stage = "following" /\ y[k].crew = <<>> /\ y[k].user = u
            /\ y[k].medium = m
        BY <3>2
      <4>3. QED
        BY <4>1, <4>2, JoinKeeps
    <3>4. QED
      BY <3>3, Zenon DEF lead, y, Joining, Among
  <2> HIDE DEF Joined
  <2>2. PoolIs(q) /\ q.call = Joined
    BY <1>6, <1>9
  <2> HIDE DEF q
  <2>3. /\ call' = Joined /\ Joined[k].stage = "following" /\ Joined[k].kind = "flight"
        /\ Joined[k].user = u /\ Joined[k].medium = m
    BY <1>4, <2>1, <2>2 DEF PoolIs
  <2>4. Remembered(call, call') /\ Belongs(call', k, u, m) /\ call'[k].kind # "download"
    BY <1>1, <1>13, <2>1, <2>3 DEF Belongs
  <2>5. QED
    BY <1>1, <1>2, <1>9, <2>1, <2>2, <2>4, StepKeeps DEF Base
<1>10. CASE /\ u # NoUser /\ lead = 0 /\ PoolIs(Line("flight"))
            /\ inFlight' = [fl EXCEPT ![u][m] = k]
  <2> DEFINE y == c("flight")
             q == Begun(y, k)
  <2>1. /\ y \in [Calls -> CallRecord] /\ \A j \in Calls \ {k} : y[j] = b[j]
        /\ y[k].stage \notin Moving /\ y[k].kind = "flight"
        /\ y[k].user = u /\ y[k].medium = m /\ y[k].crew = <<>>
    BY <1>4, <1>5
  <2>2. u \in Users /\ fl[u][m] = 0
    BY <1>1, <1>10 DEF lead
  <2>3. PoolIs(q)
    BY <1>6, <1>10 DEF Begun
  <2> HIDE DEF y
  <2>4. Entered(q, b, y, k, inFlight')
    <3> DEFINE f == [fl EXCEPT ![u][m] = k]
    <3>1. Enters(fl, f, y, k, u, m)
      BY <2>1, <2>2 DEF Enters
    <3>2. inFlight' = f
      BY <1>10
    <3> HIDE DEF f
    <3>3. Entered(q, b, y, k, f)
      <4>1. PoolOK(Pool, 0) /\ Base(fl, b)
        BY <1>1
      <4>2. y \in [Calls -> CallRecord] /\ y[k].stage \notin Moving /\ y[k].crew = <<>>
            /\ \A j \in Calls \ {k} : y[j] = b[j]
        BY <2>1
      <4>3. QED
        BY <3>1, <4>1, <4>2, BeginKeeps
    <3>4. QED
      BY <3>2, <3>3
  <2> HIDE DEF q
  <2>5. call' = q.call
    BY <2>3 DEF PoolIs
  <2>6. Remembered(call, call') /\ Belongs(call', k, u, m) /\ call'[k].kind # "download"
    BY <1>1, <1>13, <2>1, <2>4, <2>5 DEF Belongs, Entered
  <2>7. QED
    BY <1>1, <1>2, <2>3, <2>4, <2>6, StepKeeps DEF Entered
<1>11. QED
  BY <1>3, <1>7, <1>8, <1>9, <1>10

\* A download asks for a slot, and stands in no table.
LEMMA DownloadStep ==
  ASSUME IInv, NEW m \in Media, NEW k \in Unused, Download(m, k)
  PROVE  IInv' /\ InOrder(Pool, Pool') /\ Remembered(call, call')
<1> DEFINE e == Made("unused", "download", scope, m)
           c == [call EXCEPT ![k] = e]
           q == Begun(c, k)
<1>1. /\ k \in Calls /\ scope \in Users \cup {NoUser} /\ session \in Users \cup {NoUser}
      /\ PoolOK(Pool, 0) /\ Base(inFlight, call) /\ call \in [Calls -> CallRecord]
  BY PlainBase DEF IInv, Base, Unused
<1>2. /\ e \in CallRecord /\ e.stage = "unused" /\ e.kind = "download" /\ e.crew = <<>>
  <2>1. "unused" \in {"unused", "following"} /\ "download" \in {"flight", "direct", "download"}
    OBVIOUS
  <2>2. QED
    BY <1>1, <2>1, NewCall
<1>3. [NoCall EXCEPT !.kind = "download", !.user = scope, !.medium = m] = e
  <2> DEFINE n == [NoCall EXCEPT !.stage = "unused"]
  <2>1. NoCall \in CallRecord /\ NoCall.stage = "unused"
    <3>1. <<>> \in Seq(1..MaxCalls)
      BY EmptySeq
    <3>2. QED
      BY <3>1 DEF CallRecord, Stages, NoCall
  <2>2. /\ n \in CallRecord /\ n.stage = NoCall.stage /\ n.kind = NoCall.kind
        /\ n.user = NoCall.user /\ n.medium = NoCall.medium /\ n.crew = NoCall.crew
        /\ n.retried = NoCall.retried /\ n.detached = NoCall.detached
    BY <2>1 DEF CallRecord
  <2> HIDE DEF n
  <2>3. n = NoCall
    BY <2>1, <2>2 DEF CallRecord
  <2>4. QED
    BY <2>3, Zenon DEF Made, n
<1>4. PoolIs(q) /\ session' = session /\ scope' = scope /\ inFlight' = inFlight
  <2>1. [Pool EXCEPT !.call = c] = [active |-> active, waiters |-> waiters, call |-> c]
    <3> HIDE DEF c
    <3>1. QED
      BY PoolFields DEF Pool
  <2>2. [Pool EXCEPT !.call[k] = e] = [Pool EXCEPT !.call = c]
    <3>1. Pool.call = call
      BY DEF Pool
    <3> HIDE DEF e
    <3>2. QED
      BY <3>1
  <2> HIDE DEF e
  <2>3. PoolIs(Acquire([Pool EXCEPT !.call[k] = e], <<k>>))
    BY <1>3, Zenon DEF Download
  <2> HIDE DEF c
  <2>4. PoolIs(q)
    BY <2>1, <2>2, <2>3, Zenon DEF Begun
  <2>5. QED
    BY <2>4 DEF Download
<1> HIDE DEF e
<1>5. /\ c \in [Calls -> CallRecord] /\ \A j \in Calls \ {k} : c[j] = call[j]
      /\ c[k].stage \notin Moving /\ c[k].kind # "flight" /\ c[k].crew = <<>>
  BY <1>1, <1>2 DEF Moving
<1> HIDE DEF c
<1>6. Enters(inFlight, inFlight, c, k, scope, m)
  BY <1>5 DEF Enters
<1>7. Entered(q, call, c, k, inFlight)
  BY <1>1, <1>5, <1>6, BeginKeeps
<1> HIDE DEF q
<1>8. Remembered(call, call')
  <2>1. call' = q.call /\ call[k].stage = "unused"
    BY <1>4 DEF PoolIs, Unused
  <2>2. QED
    BY <1>7, <2>1 DEF Remembered, Entered
<1>9. QED
  BY <1>1, <1>4, <1>7, <1>8, StepKeeps DEF Entered

\* A step that moves no call.
LEMMA QuietStep ==
  ASSUME IInv, Base(inFlight', call'), active' = active, waiters' = waiters,
         session' \in Users \cup {NoUser}, scope' \in Users \cup {NoUser}
  PROVE  IInv' /\ InOrder(Pool, Pool')
<1> DEFINE q == [active |-> active, waiters |-> waiters, call |-> call']
<1>1. PoolOK(q, 0) /\ InOrder(Pool, q)
  <2>1. PoolOK(Pool, 0) /\ call' \in [Calls -> CallRecord]
        /\ \A j \in Calls : call'[j].stage = call[j].stage
    BY DEF IInv, Base
  <2>2. QED
    BY <2>1, SamePlaces
<1>2. PoolIs(q) /\ q.call = call'
  BY DEF PoolIs
<1> HIDE DEF q
<1>3. /\ inFlight' \in [Users -> [Media -> Nat]] /\ CrewOK(q.call) /\ Blank(q.call)
      /\ Tabled(inFlight', q.call) /\ Covered(inFlight', q.call)
  BY <1>2 DEF Base
<1>4. QED
  BY <1>1, <1>2, <1>3, StepKeeps

\* The auth store changes.
LEMMA ChangeStep ==
  ASSUME IInv, NEW u \in Users \cup {NoUser}, ChangeUser(u)
  PROVE  IInv' /\ InOrder(Pool, Pool') /\ Remembered(call, call')
<1> DEFINE told == \E c \in Components : shows[c].state # "off"
<1>1. /\ session' = u /\ active' = active /\ waiters' = waiters
      /\ scope' = IF told THEN u ELSE scope
      /\ inFlight' = IF told THEN Scoped(u).inFlight ELSE inFlight
      /\ call' = IF told THEN Scoped(u).call ELSE call
  BY Zenon DEF ChangeUser
<1> HIDE DEF told
<1>2. Base(inFlight', call') /\ Remembered(call, call')
  <2>1. CASE told
    BY <1>1, <2>1, ScopedBase
  <2>2. CASE ~told
    BY <1>1, <2>2, PlainBase DEF Remembered
  <2>3. QED
    BY <2>1, <2>2
<1>3. scope' \in Users \cup {NoUser}
  BY <1>1 DEF IInv
<1>4. QED
  BY <1>1, <1>2, <1>3, QuietStep

\* A step that leaves the session, the table and the calls alone.
LEMMA SameStep ==
  ASSUME IInv, UNCHANGED <<session, scope, inFlight, active, waiters, call>>
  PROVE  IInv' /\ InOrder(Pool, Pool')
<1>1. Base(inFlight', call')
  BY PlainBase
<1>2. session' \in Users \cup {NoUser} /\ scope' \in Users \cup {NoUser}
  BY DEF IInv
<1>3. QED
  BY <1>1, <1>2, QuietStep

\* Every step keeps the invariant, and nobody passes another in the line.
LEMMA EveryStep == ASSUME IInv, [Next]_vars PROVE IInv' /\ InOrder(Pool, Pool')
<1>1. CASE \E u \in Users \cup {NoUser} : ChangeUser(u)
  BY <1>1, ChangeStep
<1>2. CASE \E c \in Components, m \in Media, k \in Unused : Mount(c, m, k)
  BY <1>2, MountStep
<1>3. ASSUME NEW c \in Components, Unmount(c) PROVE IInv' /\ InOrder(Pool, Pool')
  BY <1>3, SameStep DEF Unmount
<1>4. CASE \E m \in Media, k \in Unused : Download(m, k)
  BY <1>4, DownloadStep
<1>5. CASE \E k \in Calls : Answer(k)
  BY <1>5, AnswerStep
<1>6. CASE UNCHANGED vars
  BY <1>6, SameStep DEF vars
<1>7. QED
  BY <1>1, <1>2, <1>3, <1>4, <1>5, <1>6 DEF Next

\* The invariant holds before any call.
LEMMA FirstState == ASSUME Init PROVE IInv
<1>1. \A k \in Calls : call[k] = NoCall
  BY DEF Init
<1>2. NoCall \in CallRecord /\ NoCall.stage = "unused" /\ NoCall.crew = <<>>
  <2>1. <<>> \in Seq(1..MaxCalls)
    BY EmptySeq
  <2>2. QED
    BY <2>1 DEF CallRecord, Stages, NoCall
<1>3. call \in [Calls -> CallRecord]
  BY <1>2 DEF Init
<1>4. Len(<<>>) = 0 /\ <<>> \in Seq(Calls)
  BY EmptySeq
<1>5. InSlot(call) = {} /\ InLine(call) = {}
  BY <1>1, <1>2 DEF InSlot, InLine
<1>6. Cardinality(InSlot(call)) = 0
  BY <1>5, FS_EmptySet
<1>7. Distinct(waiters) /\ Elements(waiters) = {}
  <2>1. Len(waiters) = 0
    BY <1>4 DEF Init
  <2>2. QED
    BY <2>1 DEF Distinct, Elements
<1>8. PoolOK(Pool, 0)
  <2>1. Pool.active = 0 /\ Pool.waiters = waiters /\ Pool.call = call /\ waiters = <<>>
    BY DEF Pool, Init
  <2>2. Elements(waiters) = InLine(call) /\ Distinct(waiters) /\ waiters \in Seq(Calls)
    BY <1>4, <1>5, <1>7, <2>1
  <2>3. 0 = Cardinality(InSlot(call)) + 0 /\ 0 <= MaxFetches
    BY <1>6
  <2>4. QED
    BY <1>3, <2>1, <2>2, <2>3, Zenon DEF PoolOK
<1>9. CrewOK(call)
  BY <1>1, <1>2, <1>4 DEF CrewOK
<1>10. Blank(call) /\ Covered(inFlight, call)
  BY <1>1, <1>2 DEF Blank, Covered, Moving
<1>11. inFlight \in [Users -> [Media -> Nat]] /\ Tabled(inFlight, call)
  BY DEF Init, Tabled
<1>12. QED
  BY <1>8, <1>9, <1>10, <1>11 DEF IInv, Init

\* Slots, line, crews and flights agree in every reachable state, however many
\* calls overlap (attachment-cache.ts, acquire to getAttachment).
THEOREM Invariant == Spec => []IInv
<1>1. Init => IInv
  BY FirstState
<1>2. IInv /\ [Next]_vars => IInv'
  BY EveryStep
<1>3. QED
  BY <1>1, <1>2, PTL DEF Spec

-------------------------------------------------------------------------------
\* What a component remembers.
Showing == [state : {"off", "loading", "shown", "failed"}, medium : Media \cup {NoMedia},
            owner : Users \cup {NoUser}, call : Nat, url : Nat]

\* The maps bu hold URLs that their user's fetches of their media have made.
Stocked(bu, c, urls) ==
  \A u \in Users : \A i \in 1..Len(bu[u]) :
    Belongs(c, bu[u][i].url, u, bu[u][i].medium) /\ bu[u][i].url \in urls

\* A component waits for a call, or shows the URL of one, that its own user made
\* for its own medium; the URL is there while that user is, and for good when
\* nobody was signed in, for then no map holds it.
Entitled(x, c, ses, urls) ==
  /\ x \in Showing
  /\ x.state = "loading" => /\ Belongs(c, x.call, x.owner, x.medium)
                            /\ c[x.call].kind # "download"
  /\ x.state = "shown" => /\ Belongs(c, x.url, x.owner, x.medium)
                          /\ x.owner \in {ses, NoUser} => x.url \in urls

Urls == live \cup evicted

\* The inductive invariant of what is cached and shown.
ShowInv ==
  /\ byUser \in [Users -> Seq(Entry)] /\ Stocked(byUser, call, Urls)
  /\ shows \in [Components -> Showing]
  /\ \A x \in Components : Entitled(shows[x], call, session, Urls)

\* An entry is one of those that were there, or the new one.
LEMMA InsertEntries ==
  ASSUME NEW es \in Seq(Entry), NEW m \in Media, NEW k \in Calls
  PROVE  /\ Insert(es, m, k) \in Seq(Entry)
         /\ \A i \in 1..Len(Insert(es, m, k)) :
              \/ Insert(es, m, k)[i] = [medium |-> m, url |-> k]
              \/ \E j \in 1..Len(es) : Insert(es, m, k)[i] = es[j]
<1> DEFINE n == Overflow(es)
           kept == SubSeq(es, n + 1, Len(es))
           same == {i \in 1..Len(kept) : kept[i].medium = m}
           p == CHOOSE i \in same : TRUE
           rest == IF same = {} THEN kept ELSE RemoveAt(kept, p)
           new == [medium |-> m, url |-> k]
           Old(e) == \E j \in 1..Len(es) : e = es[j]
<1>1. n \in Nat /\ n <= Len(es) /\ Len(es) \in Nat
  <2>1. Len(es) \in Nat /\ MaxEntries \in Nat /\ MaxEntries >= 1
    BY LenProperties DEF BoundsAssumption
  <2>2. QED
    BY <2>1 DEF Overflow
<1> HIDE DEF n
<1>2. kept \in Seq(Entry) /\ \A i \in 1..Len(kept) : Old(kept[i])
  <2>1. /\ kept \in Seq(Entry) /\ Len(kept) = Len(es) - n
        /\ \A i \in 1..Len(kept) : kept[i] = es[n + i]
    <3>1. \A i \in n + 1..Len(es) : i \in 1..Len(es) /\ es[i] \in Entry
      BY <1>1, ElementOfSeq
    <3>2. /\ kept \in Seq(Entry)
          /\ Len(kept) = IF n + 1 <= Len(es) THEN Len(es) - (n + 1) + 1 ELSE 0
          /\ \A i \in 1..Len(es) - (n + 1) + 1 : kept[i] = es[n + 1 + i - 1]
      BY <1>1, <3>1, SubSeqProperties
    <3> HIDE DEF kept
    <3>3. Len(kept) = Len(es) - n
      BY <1>1, <3>2
    <3>4. ASSUME NEW i \in 1..Len(kept) PROVE kept[i] = es[n + i]
      <4>1. i \in 1..Len(es) - (n + 1) + 1 /\ n + 1 + i - 1 = n + i
        BY <1>1, <3>3
      <4>2. QED
        BY <3>2, <4>1
    <3>5. QED
      BY <3>2, <3>3, <3>4
  <2> HIDE DEF kept
  <2>2. \A i \in 1..Len(kept) : n + i \in 1..Len(es)
    BY <1>1, <2>1
  <2>3. QED
    BY <2>1, <2>2
<1> HIDE DEF kept, Old
<1>3. rest \in Seq(Entry) /\ \A i \in 1..Len(rest) : Old(rest[i])
  <2>1. CASE same = {}
    BY <1>2, <2>1
  <2>2. CASE same # {}
    <3>1. p \in 1..Len(kept) /\ Len(kept) \in Nat
      BY <1>2, <2>2, LenProperties
    <3> HIDE DEF p, same
    <3> DEFINE front == SubSeq(kept, 1, p - 1)
               back == SubSeq(kept, p + 1, Len(kept))
    <3>2. front \in Seq(Entry) /\ \A i \in 1..Len(front) : Old(front[i])
      <4>1. \A i \in 1..p - 1 : i \in 1..Len(kept) /\ kept[i] \in Entry
        BY <1>2, <3>1, ElementOfSeq
      <4>2. /\ front \in Seq(Entry) /\ Len(front) = p - 1
            /\ \A i \in 1..Len(front) : front[i] = kept[i]
        BY <1>2, <3>1, <4>1, SubSeqProperties
      <4> HIDE DEF front
      <4>3. QED
        BY <1>2, <4>1, <4>2
    <3>3. back \in Seq(Entry) /\ \A i \in 1..Len(back) : Old(back[i])
      <4>1. \A i \in p + 1..Len(kept) : i \in 1..Len(kept) /\ kept[i] \in Entry
        BY <1>2, <3>1, ElementOfSeq
      <4>2. /\ back \in Seq(Entry) /\ Len(back) = Len(kept) - p
            /\ \A i \in 1..Len(back) : back[i] = kept[p + i]
        BY <1>2, <3>1, <4>1, SubSeqProperties
      <4> HIDE DEF back
      <4>3. \A i \in 1..Len(back) : p + i \in 1..Len(kept)
        BY <3>1, <4>2
      <4>4. QED
        BY <1>2, <4>2, <4>3
    <3>4. rest = front \o back
      BY <2>2 DEF RemoveAt
    <3> HIDE DEF front, back, rest
    <3>5. /\ front \o back \in Seq(Entry) /\ Len(front \o back) = Len(front) + Len(back)
          /\ Len(front) \in Nat /\ Len(back) \in Nat
          /\ \A i \in 1..Len(front) + Len(back) :
               (front \o back)[i] = IF i <= Len(front) THEN front[i] ELSE back[i - Len(front)]
      BY <3>2, <3>3, ConcatProperties, LenProperties
    <3>6. ASSUME NEW i \in 1..Len(rest) PROVE Old(rest[i])
      <4>1. CASE i <= Len(front)
        BY <3>2, <3>4, <3>5, <4>1
      <4>2. CASE i > Len(front)
        <5>1. i - Len(front) \in 1..Len(back)
          BY <3>4, <3>5, <4>2
        <5>2. rest[i] = back[i - Len(front)]
          BY <3>4, <3>5, <4>2
        <5>3. QED
          BY <3>3, <5>1, <5>2
      <4>3. QED
        BY <3>5, <4>1, <4>2
    <3>7. QED
      BY <3>4, <3>5, <3>6
  <2>3. QED
    BY <2>1, <2>2
<1>4. Insert(es, m, k) = Append(rest, new) /\ new \in Entry
  BY DEF Insert, Entry, kept, n
<1> HIDE DEF rest, new
<1>5. /\ Append(rest, new) \in Seq(Entry) /\ Len(Append(rest, new)) = Len(rest) + 1
      /\ Len(rest) \in Nat /\ Append(rest, new)[Len(rest) + 1] = new
      /\ \A i \in 1..Len(rest) : Append(rest, new)[i] = rest[i]
  BY <1>3, <1>4, AppendProperties, LenProperties
<1>6. ASSUME NEW i \in 1..Len(Append(rest, new))
      PROVE  Append(rest, new)[i] = new \/ Old(Append(rest, new)[i])
  <2>1. i \in 1..Len(rest) \/ i = Len(rest) + 1
    BY <1>5
  <2>2. QED
    BY <1>3, <1>5, <2>1
<1>7. QED
  BY <1>4, <1>5, <1>6 DEF new, Old

\* What has been asked for a component stays asked.
LEMMA StillBelongs ==
  ASSUME NEW c, NEW d, Remembered(c, d), NEW k, NEW u, NEW m, Belongs(c, k, u, m)
  PROVE  Belongs(d, k, u, m) /\ (d[k].kind = "download" => c[k].kind = "download")
BY DEF Remembered, Belongs

\* The maps stay stocked when calls are remembered and URLs are only added.
LEMMA StillStocked ==
  ASSUME NEW bu, NEW c, NEW d, NEW urls, NEW more, Stocked(bu, c, urls), Remembered(c, d),
         urls \subseteq more
  PROVE  Stocked(bu, d, more)
BY StillBelongs DEF Stocked

\* Dropping the maps of a user takes URLs of that user, and of nobody else.
LEMMA ScopedShows ==
  ASSUME IInv, ShowInv, NEW u
  PROVE  LET s == Scoped(u)
         IN  /\ s.byUser \in [Users -> Seq(Entry)]
             /\ Stocked(s.byUser, call, s.live \cup evicted)
             /\ \A j \in Urls : call[j].user \in {u, NoUser} => j \in s.live \cup evicted
<1>1. CASE u = scope \/ scope = NoUser
  <2>1. Scoped(u).byUser = byUser /\ Scoped(u).live = live
    BY <1>1 DEF Scoped
  <2>2. QED
    BY <2>1 DEF ShowInv, Urls
<1>2. CASE ~(u = scope \/ scope = NoUser)
  <2> DEFINE bu == [byUser EXCEPT ![scope] = <<>>]
             gone == {e.url : e \in Range(byUser[scope])}
  <2>1. Scoped(u).byUser = bu /\ Scoped(u).live = live \ gone
    BY <1>2 DEF Scoped
  <2>2. scope \in Users /\ scope # u /\ scope # NoUser
    BY <1>2 DEF IInv
  <2>3. byUser[scope] \in Seq(Entry) /\ \A j \in gone : call[j].user = scope
    <3>1. byUser[scope] \in Seq(Entry)
      BY <2>2 DEF ShowInv
    <3>2. Range(byUser[scope]) = Elements(byUser[scope])
      BY <3>1, RangeIsElements
    <3>3. QED
      BY <2>2, <3>1, <3>2 DEF ShowInv, Stocked, Belongs, Elements
  <2> HIDE DEF gone
  <2>4. \A j \in Urls : call[j].user # scope => j \in (live \ gone) \cup evicted
    BY <2>3 DEF Urls
  <2>5. /\ bu \in [Users -> Seq(Entry)] /\ bu[scope] = <<>>
        /\ \A v \in Users \ {scope} : bu[v] = byUser[v]
    <3>1. <<>> \in Seq(Entry)
      BY EmptySeq
    <3>2. QED
      BY <2>2, <3>1 DEF ShowInv
  <2> HIDE DEF bu
  <2>6. Stocked(bu, call, (live \ gone) \cup evicted)
    <3> SUFFICES ASSUME NEW v \in Users, NEW i \in 1..Len(bu[v])
                 PROVE  /\ Belongs(call, bu[v][i].url, v, bu[v][i].medium)
                        /\ bu[v][i].url \in (live \ gone) \cup evicted
      BY DEF Stocked
    <3>1. Len(<<>>) = 0
      BY EmptySeq
    <3>2. v # scope /\ bu[v] = byUser[v]
      BY <2>5, <3>1
    <3>3. Belongs(call, bu[v][i].url, v, bu[v][i].medium) /\ bu[v][i].url \in Urls
      BY <3>2 DEF ShowInv, Stocked
    <3>4. QED
      BY <2>4, <3>2, <3>3 DEF Belongs
  <2>7. QED
    BY <2>1, <2>2, <2>4, <2>5, <2>6
<1>3. QED
  BY <1>1, <1>2

\* A component that does not change stays entitled as long as its URL is kept.
LEMMA StillEntitled ==
  ASSUME NEW x, NEW c, NEW d, NEW ses, NEW next, NEW urls, NEW more,
         Entitled(x, c, ses, urls), Remembered(c, d), next \in {ses, NoUser},
         \A j \in urls : c[j].user \in {next, NoUser} => j \in more
  PROVE  Entitled(x, d, next, more)
<1>1. x.state = "loading" => Belongs(d, x.call, x.owner, x.medium) /\ d[x.call].kind # "download"
  BY StillBelongs DEF Entitled
<1>2. x.state = "shown" => Belongs(d, x.url, x.owner, x.medium)
  BY StillBelongs DEF Entitled
<1>3. x.state = "shown" /\ x.owner \in {next, NoUser} => x.url \in more
  BY DEF Entitled, Belongs
<1>4. QED
  BY <1>1, <1>2, <1>3 DEF Entitled

\* The auth store changes: only a signed-out page outlives it.
LEMMA ChangeShows ==
  ASSUME IInv, ShowInv, NEW u \in Users \cup {NoUser}, ChangeUser(u)
  PROVE  ShowInv'
<1> DEFINE told == \E c \in Components : shows[c].state # "off"
<1>1. /\ session' = u /\ shows' = shows /\ evicted' = evicted
      /\ byUser' = IF told THEN Scoped(u).byUser ELSE byUser
      /\ live' = IF told THEN Scoped(u).live ELSE live
      /\ u # NoUser => ~told
  BY Zenon DEF ChangeUser
<1> HIDE DEF told
<1>2. Remembered(call, call')
  BY ChangeStep
<1>3. byUser' \in [Users -> Seq(Entry)] /\ Stocked(byUser', call', Urls')
  <2>1. CASE told
    <3>1. byUser' = Scoped(u).byUser /\ Urls' = Scoped(u).live \cup evicted
      BY <1>1, <2>1 DEF Urls
    <3>2. /\ Scoped(u).byUser \in [Users -> Seq(Entry)]
          /\ Stocked(Scoped(u).byUser, call, Scoped(u).live \cup evicted)
      BY ScopedShows
    <3>3. QED
      BY <1>2, <3>1, <3>2, StillStocked
  <2>2. CASE ~told
    <3>1. byUser' = byUser /\ Urls' = Urls
      BY <1>1, <2>2 DEF Urls
    <3>2. QED
      BY <1>2, <3>1, StillStocked DEF ShowInv
  <2>3. QED
    BY <2>1, <2>2
<1>4. ASSUME NEW x \in Components PROVE Entitled(shows'[x], call', session', Urls')
  <2>1. Entitled(shows[x], call, session, Urls)
    BY DEF ShowInv
  <2>2. CASE u = NoUser
    <3>1. \A j \in Urls : call[j].user \in {u, NoUser} => j \in Urls'
      <4>1. \A j \in Urls : call[j].user \in {u, NoUser} => j \in Scoped(u).live \cup evicted
        BY ScopedShows
      <4>2. Urls' = Urls \/ Urls' = Scoped(u).live \cup evicted
        BY <1>1 DEF Urls
      <4>3. QED
        BY <4>1, <4>2
    <3>2. QED
      BY <1>1, <1>2, <2>1, <2>2, <3>1, StillEntitled
  <2>3. CASE u # NoUser
    <3>1. shows[x].state = "off"
      BY <1>1, <2>3 DEF told
    <3>2. QED
      BY <1>1, <2>1, <3>1 DEF Entitled
  <2>4. QED
    BY <2>2, <2>3
<1>5. QED
  BY <1>1, <1>3, <1>4 DEF ShowInv

\* A component mounts: it waits for its own call, or shows an entry of its user.
LEMMA MountShows ==
  ASSUME IInv, ShowInv, NEW x \in Components, NEW m \in Media, NEW k \in Unused, Mount(x, m, k)
  PROVE  ShowInv'
<1> DEFINE s == Scoped(session)
           u == session
           Loading == [state |-> "loading", medium |-> m, owner |-> u, call |-> k, url |-> 0]
           entry == Lookup(s.byUser[u], m)
           Shows(e) == [Loading EXCEPT !.state = "shown", !.call = 0, !.url = e.url]
<1>1. /\ session' = session /\ byUser' = s.byUser /\ Urls' = s.live \cup evicted
      /\ \/ /\ u = NoUser \/ entry = {}
            /\ shows' = [shows EXCEPT ![x] = Loading]
         \/ /\ u # NoUser /\ \E e \in entry : shows' = [shows EXCEPT ![x] = Shows(e)]
  <2>1. session' = session /\ byUser' = s.byUser /\ live' = s.live /\ evicted' = evicted
    BY DEF Mount
  <2>2. \/ (u = NoUser \/ entry = {}) /\ shows' = [shows EXCEPT ![x] = Loading]
        \/ u # NoUser /\ \E e \in entry : shows' = [shows EXCEPT ![x] = Shows(e)]
    BY Zenon DEF Mount
  <2>3. QED
    BY <2>1, <2>2 DEF Urls
<1>2. /\ s.byUser \in [Users -> Seq(Entry)]
      /\ Stocked(s.byUser, call, s.live \cup evicted)
      /\ \A j \in Urls : call[j].user \in {u, NoUser} => j \in s.live \cup evicted
  BY ScopedShows
<1>3. /\ Remembered(call, call')
      /\ u = NoUser \/ entry = {} => Belongs(call', k, u, m) /\ call'[k].kind # "download"
  BY MountStep
<1>4. u \in Users \cup {NoUser} /\ k \in Calls /\ k \in Nat
  BY DEF IInv, Unused, Calls
<1> HIDE DEF s, u, entry
<1>5. Stocked(byUser', call', Urls')
  BY <1>1, <1>2, <1>3, StillStocked
<1>6. ASSUME NEW y \in Components, shows'[y] = shows[y]
      PROVE  Entitled(shows'[y], call', session', Urls')
  <2>1. Entitled(shows[y], call, session, Urls)
    BY DEF ShowInv
  <2>2. session' \in {session, NoUser}
        /\ \A j \in Urls : call[j].user \in {session', NoUser} => j \in Urls'
    BY <1>1, <1>2 DEF u
  <2>3. QED
    BY <1>3, <1>6, <2>1, <2>2, StillEntitled
<1>7. CASE (u = NoUser \/ entry = {}) /\ shows' = [shows EXCEPT ![x] = Loading]
  <2>1. Loading \in Showing
    BY <1>4 DEF Showing
  <2>2. Entitled(Loading, call', session', Urls')
    BY <1>3, <1>7, <2>1 DEF Entitled
  <2> HIDE DEF Loading
  <2>3. /\ shows' \in [Components -> Showing] /\ shows'[x] = Loading
        /\ \A y \in Components \ {x} : shows'[y] = shows[y]
    BY <1>7, <2>1 DEF ShowInv
  <2>4. QED
    BY <1>1, <1>2, <1>5, <1>6, <2>2, <2>3 DEF ShowInv
<1>8. ASSUME u # NoUser, NEW e \in entry, shows' = [shows EXCEPT ![x] = Shows(e)] PROVE ShowInv'
  <2>1. u \in Users
    BY <1>4, <1>8
  <2>2. s.byUser[u] \in Seq(Entry)
    BY <1>2, <2>1
  <2>3. PICK i \in 1..Len(s.byUser[u]) : e = s.byUser[u][i]
    <3>1. Range(s.byUser[u]) = Elements(s.byUser[u])
      BY <2>2, RangeIsElements
    <3>2. QED
      BY <3>1 DEF entry, Lookup, Elements
  <2>4. e.medium = m
    BY DEF entry, Lookup
  <2>5. Belongs(call', e.url, u, m) /\ e.url \in Urls'
    BY <1>1, <1>5, <2>1, <2>3, <2>4 DEF Stocked
  <2>6. Shows(e) = [state |-> "shown", medium |-> m, owner |-> u, call |-> 0, url |-> e.url]
    <3> DEFINE n == e.url
               a == [state |-> "shown", medium |-> m, owner |-> u, call |-> k, url |-> 0]
               b == [state |-> "shown", medium |-> m, owner |-> u, call |-> 0, url |-> 0]
    <3> HIDE DEF n
    <3>1. [Loading EXCEPT !.state = "shown"] = a
      OBVIOUS
    <3>2. [a EXCEPT !.call = 0] = b
      OBVIOUS
    <3>3. [b EXCEPT !.url = n] = [state |-> "shown", medium |-> m, owner |-> u, call |-> 0,
                                  url |-> n]
      OBVIOUS
    <3> HIDE DEF a, b, Loading
    <3>4. QED
      BY <3>1, <3>2, <3>3, Zenon DEF n
  <2>7. e.url \in Nat
    BY <2>5 DEF Belongs, Calls
  <2> DEFINE r == [state |-> "shown", medium |-> m, owner |-> u, call |-> 0, url |-> e.url]
  <2>8. r \in Showing /\ r.state = "shown" /\ r.owner = u /\ r.medium = m /\ r.url = e.url
    BY <1>4, <2>7 DEF Showing
  <2>9. shows' = [shows EXCEPT ![x] = r]
    BY <1>8, <2>6
  <2> HIDE DEF r, Shows
  <2>10. Entitled(r, call', session', Urls')
    BY <2>5, <2>8 DEF Entitled
  <2>11. /\ shows' \in [Components -> Showing] /\ shows'[x] = r
         /\ \A y \in Components \ {x} : shows'[y] = shows[y]
    BY <2>8, <2>9 DEF ShowInv
  <2>12. QED
    BY <1>1, <1>2, <1>5, <1>6, <2>10, <2>11 DEF ShowInv
<1>9. QED
  BY <1>1, <1>7, <1>8

\* Component x becomes y: what it waited for has come, with this URL, or failed.
Turns(x, y, c, urls) ==
  \/ y = x
  \/ /\ x.state = "loading"
     /\ \/ y = [x EXCEPT !.state = "failed"]
        \/ \E k \in urls : Belongs(c, k, x.owner, x.medium)
                           /\ y = [x EXCEPT !.state = "shown", !.url = k]

\* An answer of which every component has its own URL, or none, is in order.
LEMMA TurnsEntitled ==
  ASSUME ShowInv, Remembered(call, call'), session' = session, Urls \subseteq Urls',
         byUser' \in [Users -> Seq(Entry)], Stocked(byUser', call', Urls'),
         NEW f, shows' = [x \in Components |-> f[x]],
         \A x \in Components : Turns(shows[x], f[x], call', Urls')
  PROVE  ShowInv'
<1>1. ASSUME NEW x \in Components PROVE Entitled(f[x], call', session', Urls')
  <2> DEFINE c == shows[x]
  <2>1. Entitled(c, call, session, Urls) /\ c \in Showing
    BY DEF ShowInv
  <2>2. Entitled(c, call', session', Urls')
    <3>1. \A j \in Urls : call[j].user \in {session', NoUser} => j \in Urls'
      OBVIOUS
    <3>2. session' \in {session, NoUser}
      OBVIOUS
    <3>3. QED
      BY <2>1, <3>1, <3>2, StillEntitled
  <2> HIDE DEF c
  <2>3. Turns(c, f[x], call', Urls')
    BY DEF c
  <2>4. ASSUME f[x] = [c EXCEPT !.state = "failed"] PROVE Entitled(f[x], call', session', Urls')
    <3>1. f[x] \in Showing /\ f[x].state = "failed"
      BY <2>1, <2>4 DEF Showing
    <3>2. QED
      BY <3>1 DEF Entitled
  <2>5. ASSUME NEW k \in Urls', Belongs(call', k, c.owner, c.medium),
               f[x] = [c EXCEPT !.state = "shown", !.url = k]
        PROVE  Entitled(f[x], call', session', Urls')
    <3>1. k \in Nat
      BY <2>5 DEF Belongs, Calls
    <3>2. /\ f[x] \in Showing /\ f[x].state = "shown" /\ f[x].url = k
          /\ f[x].owner = c.owner /\ f[x].medium = c.medium
      BY <2>1, <2>5, <3>1 DEF Showing
    <3>3. QED
      BY <2>5, <3>2 DEF Entitled
  <2>6. QED
    BY <2>2, <2>3, <2>4, <2>5 DEF Turns
<1>2. shows' \in [Components -> Showing] /\ \A x \in Components : shows'[x] = f[x]
  BY <1>1 DEF Entitled
<1>3. QED
  BY <1>1, <1>2 DEF ShowInv

\* The callers of a flight asked, for their user, for what it fetches.
LEMMA CrewAlike ==
  ASSUME IInv, NEW k \in Calls, call[k].stage = "fetching", NEW j \in Crew(k)
  PROVE  j \in Calls /\ Alike(call, j, k)
<1>1. Crew(k) = {k} \cup Elements(call[k].crew) /\ Crew(k) \in SUBSET Calls
  BY CrewCalls
<1>2. CASE j = k
  BY <1>2 DEF Alike
<1>3. CASE j \in Elements(call[k].crew)
  BY <1>1, <1>3 DEF IInv, CrewOK, Elements
<1>4. QED
  BY <1>1, <1>2, <1>3

\* Whatever the network and the timers do.
LEMMA AnswerShows ==
  ASSUME IInv, ShowInv, NEW k \in Calls, Answer(k)
  PROVE  ShowInv'
<1> DEFINE u == call[k].user
           m == call[k].medium
<1>1. Remembered(call, call')
  <2>1. Carried(call, call')
    BY AnswerStep
  <2>2. QED
    BY <2>1 DEF Carried, Remembered
<1>2. call \in [Calls -> CallRecord]
  BY DEF IInv, PoolOK, Pool
\* Who waits for the call, or for its flight, may have a URL of the user's.
<1>3. ASSUME call[k].stage = "fetching", NEW x \in Components, shows[x].state = "loading",
             shows[x].call \in Crew(k)
      PROVE  shows[x].owner = u /\ shows[x].medium = m
  <2>1. Belongs(call, shows[x].call, shows[x].owner, shows[x].medium)
    BY <1>3 DEF ShowInv, Entitled
  <2>2. Alike(call, shows[x].call, k)
    BY <1>3, CrewAlike
  <2>3. QED
    BY <2>1, <2>2 DEF Belongs, Alike
<1>4. ASSUME call[k].stage = "fetching" PROVE Belongs(call', k, u, m) /\ k \in Crew(k)
  <2>1. Belongs(call, k, u, m)
    BY <1>4 DEF Belongs
  <2>2. QED
    BY <1>1, <2>1, StillBelongs DEF Crew
<1>5. ASSUME UNCHANGED <<session, byUser, live, evicted, shows>> PROVE ShowInv'
  <2>1. Stocked(byUser', call', Urls') /\ Urls \subseteq Urls' /\ byUser' \in [Users -> Seq(Entry)]
    BY <1>1, <1>5, StillStocked DEF ShowInv, Urls
  <2>2. shows' = [x \in Components |-> shows[x]]
    BY <1>5 DEF ShowInv
  <2>3. \A x \in Components : Turns(shows[x], shows[x], call', Urls')
    BY DEF Turns
  <2>4. QED
    BY <1>1, <1>5, <2>1, <2>2, <2>3, TurnsEntitled
\* One who shows a URL of that user and medium, if it waited for the flight.
<1>6. ASSUME call[k].stage = "fetching", NEW ks, ks \subseteq Crew(k), NEW url \in Urls',
             Belongs(call', url, u, m), NEW x \in Components
      PROVE  Turns(shows[x], Show(ks, url)[x], call', Urls')
  <2>1. CASE shows[x].state = "loading" /\ shows[x].call \in ks
    <3>1. shows[x].owner = u /\ shows[x].medium = m
      BY <1>3, <1>6, <2>1
    <3>2. Show(ks, url)[x] = [shows[x] EXCEPT !.state = "shown", !.url = url]
      BY <2>1 DEF Show
    <3>3. QED
      BY <1>6, <2>1, <3>1, <3>2 DEF Turns
  <2>2. CASE ~(shows[x].state = "loading" /\ shows[x].call \in ks)
    BY <2>2 DEF Show, Turns
  <2>3. QED
    BY <2>1, <2>2
<1>7. \A ks, url : Show(ks, url) = [x \in Components |-> Show(ks, url)[x]]
  BY DEF Show
<1>8. CASE SucceedDirect(k)
  <2>1. /\ call[k].stage = "fetching" /\ session' = session /\ byUser' = byUser
        /\ shows' = Show({k}, k)
        /\ Urls' = IF call[k].kind = "direct" THEN Urls \cup {k} ELSE Urls
    <3>1. /\ call[k].stage = "fetching" /\ session' = session /\ byUser' = byUser
          /\ shows' = Show({k}, k) /\ evicted' = evicted
          /\ live' = IF call[k].kind = "direct" THEN live \cup {k} ELSE live
      BY <1>8 DEF SucceedDirect
    <3>2. QED
      BY <3>1 DEF Urls
  <2>2. Stocked(byUser', call', Urls') /\ Urls \subseteq Urls' /\ byUser' \in [Users -> Seq(Entry)]
    BY <1>1, <2>1, StillStocked DEF ShowInv
  <2>3. ASSUME NEW x \in Components PROVE Turns(shows[x], Show({k}, k)[x], call', Urls')
    <3>1. CASE shows[x].state = "loading" /\ shows[x].call = k
      <4>1. call[k].kind # "download"
        BY <3>1 DEF ShowInv, Entitled
      <4>2. call[k].kind = "direct"
        BY <1>2, <1>8, <4>1 DEF SucceedDirect, CallRecord
      <4>3. k \in Urls' /\ Belongs(call', k, u, m) /\ {k} \subseteq Crew(k)
        BY <1>4, <2>1, <4>2
      <4>4. QED
        BY <1>6, <2>1, <4>3
    <3>2. CASE ~(shows[x].state = "loading" /\ shows[x].call = k)
      BY <3>2 DEF Show, Turns
    <3>3. QED
      BY <3>1, <3>2
  <2>4. shows' = [x \in Components |-> Show({k}, k)[x]]
    BY <1>7, <2>1
  <2>5. QED
    BY <1>1, <2>1, <2>2, <2>3, <2>4, TurnsEntitled
<1>9. CASE SucceedFlight(k)
  <2> DEFINE es == Insert(byUser[u], m, k)
  <2>1. /\ call[k].stage = "fetching" /\ call[k].kind = "flight" /\ session' = session
        /\ byUser' = [byUser EXCEPT ![u] = es] /\ shows' = Show(Crew(k), k)
        /\ live' = (live \ Evicted(byUser[u])) \cup {k}
        /\ evicted' = evicted \cup Evicted(byUser[u])
    BY <1>9 DEF SucceedFlight
  <2>2. Urls \subseteq Urls' /\ k \in Urls'
    BY <2>1 DEF Urls
  <2>3. u \in Users /\ m \in Media /\ Belongs(call', k, u, m)
    BY <1>4, <2>1 DEF IInv, Covered, Moving
  <2>4. /\ byUser[u] \in Seq(Entry) /\ es \in Seq(Entry)
        /\ \A i \in 1..Len(es) : \/ es[i] = [medium |-> m, url |-> k]
                                 \/ \E j \in 1..Len(byUser[u]) : es[i] = byUser[u][j]
    <3>1. byUser[u] \in Seq(Entry)
      BY <2>3 DEF ShowInv
    <3>2. QED
      BY <2>3, <3>1, InsertEntries
  <2> HIDE DEF es
  <2>5. /\ byUser' \in [Users -> Seq(Entry)] /\ byUser'[u] = es
        /\ \A v \in Users \ {u} : byUser'[v] = byUser[v]
    BY <2>1, <2>3, <2>4 DEF ShowInv
  <2>6. Stocked(byUser, call', Urls')
    BY <1>1, <2>2, StillStocked DEF ShowInv
  <2>7. Stocked(byUser', call', Urls')
    <3> SUFFICES ASSUME NEW v \in Users, NEW i \in 1..Len(byUser'[v])
                 PROVE  /\ Belongs(call', byUser'[v][i].url, v, byUser'[v][i].medium)
                        /\ byUser'[v][i].url \in Urls'
      BY DEF Stocked
    <3>1. CASE v # u
      BY <2>5, <2>6, <3>1 DEF Stocked
    <3>2. CASE v = u /\ es[i] = [medium |-> m, url |-> k]
      <4>1. byUser'[v][i].url = k /\ byUser'[v][i].medium = m
        BY <2>5, <3>2
      <4>2. QED
        BY <2>2, <2>3, <3>2, <4>1
    <3>3. CASE v = u /\ \E j \in 1..Len(byUser[u]) : es[i] = byUser[u][j]
      BY <2>5, <2>6, <3>3 DEF Stocked
    <3>4. QED
      BY <2>4, <2>5, <3>1, <3>2, <3>3
  <2>8. \A x \in Components : Turns(shows[x], Show(Crew(k), k)[x], call', Urls')
    BY <1>6, <2>1, <2>2, <2>3
  <2>9. shows' = [x \in Components |-> Show(Crew(k), k)[x]]
    BY <1>7, <2>1
  <2>10. QED
    BY <1>1, <2>1, <2>2, <2>5, <2>7, <2>8, <2>9, TurnsEntitled
<1>10. CASE SucceedDetached(k)
  <2> DEFINE found == Lookup(byUser[u], m)
             e == CHOOSE e \in found : TRUE
             f == [x \in Components |->
                     IF shows[x].call = k \/ found = {} THEN Show({k}, k)[x]
                     ELSE Show(Crew(k), e.url)[x]]
  <2>1. /\ call[k].stage = "fetching" /\ call[k].kind = "flight" /\ session' = session
        /\ byUser' = byUser /\ shows' = f
        /\ \E gone \in {{}} \cup {{j} : j \in Stranded(u)} :
             live' = (live \ gone) \cup {k} /\ evicted' = evicted \cup gone
    BY <1>10, Zenon DEF SucceedDetached
  <2>2. Urls \subseteq Urls' /\ k \in Urls'
    BY <2>1 DEF Urls
  <2>3. u \in Users /\ m \in Media /\ Belongs(call', k, u, m)
    BY <1>4, <2>1 DEF IInv, Covered, Moving
  <2>4. Stocked(byUser', call', Urls') /\ byUser' \in [Users -> Seq(Entry)]
    BY <1>1, <2>1, <2>2, StillStocked DEF ShowInv
  <2>5. found # {} => e.url \in Urls' /\ Belongs(call', e.url, u, m)
    <3> SUFFICES ASSUME found # {} PROVE e.url \in Urls' /\ Belongs(call', e.url, u, m)
      OBVIOUS
    <3>1. e \in found
      OBVIOUS
    <3> HIDE DEF e
    <3>2. byUser[u] \in Seq(Entry)
      BY <2>3 DEF ShowInv
    <3>3. Range(byUser[u]) = Elements(byUser[u])
      BY <3>2, RangeIsElements
    <3>4. e.medium = m /\ \E i \in 1..Len(byUser[u]) : e = byUser[u][i]
      BY <3>1, <3>3 DEF Lookup, Elements
    <3>5. QED
      BY <2>1, <2>3, <2>4, <3>4 DEF Stocked
  <2> HIDE DEF found, e
  <2>6. ASSUME NEW x \in Components PROVE Turns(shows[x], f[x], call', Urls')
    <3>1. CASE shows[x].call = k \/ found = {}
      <4>1. f[x] = Show({k}, k)[x] /\ {k} \subseteq Crew(k)
        BY <3>1 DEF Crew
      <4>2. QED
        BY <1>6, <2>1, <2>2, <2>3, <4>1
    <3>2. CASE ~(shows[x].call = k \/ found = {})
      <4>1. f[x] = Show(Crew(k), e.url)[x]
        BY <3>2
      <4>2. QED
        BY <1>6, <2>1, <2>5, <3>2, <4>1
    <3>3. QED
      BY <3>1, <3>2
  <2>7. shows' = [x \in Components |-> f[x]]
    BY <2>1
  <2> HIDE DEF f
  <2>8. QED
    BY <1>1, <2>1, <2>2, <2>4, <2>6, <2>7, TurnsEntitled
<1>11. CASE SucceedElsewhere(k)
  BY <1>5, <1>11, Zenon DEF SucceedElsewhere
<1>12. CASE Fail(k)
  <2> DEFINE f == [c \in Components |->
                     IF shows[c].state = "loading" /\ shows[c].call \in Crew(k)
                     THEN [shows[c] EXCEPT !.state = "failed"] ELSE shows[c]]
  <2>1. /\ session' = session /\ byUser' = byUser /\ live' = live /\ evicted' = evicted
        /\ shows' = f
    BY <1>12, Zenon DEF Fail
  <2>2. /\ Urls \subseteq Urls' /\ Stocked(byUser', call', Urls')
        /\ byUser' \in [Users -> Seq(Entry)]
    BY <1>1, <2>1, StillStocked DEF ShowInv, Urls
  <2>3. \A x \in Components : Turns(shows[x], f[x], call', Urls')
    BY DEF Turns
  <2>4. shows' = [x \in Components |-> f[x]]
    BY <2>1
  <2> HIDE DEF f
  <2>5. QED
    BY <1>1, <2>1, <2>2, <2>3, <2>4, TurnsEntitled
<1>13. CASE Throttled(k)
  BY <1>5, <1>13, Zenon DEF Throttled
<1>14. CASE RetryDue(k)
  BY <1>5, <1>14, Zenon DEF RetryDue
<1>15. QED
  BY <1>8, <1>9, <1>10, <1>11, <1>12, <1>13, <1>14 DEF Answer

\* A step that only forgets components, or none, leaves the rest as it was.
LEMMA QuietShows ==
  ASSUME ShowInv, Remembered(call, call'), UNCHANGED <<session, byUser, live, evicted>>,
         \/ shows' = shows
         \/ \E x \in Components : shows' = [shows EXCEPT ![x] = Unmounted]
  PROVE  ShowInv'
<1>1. Urls' = Urls /\ Stocked(byUser', call', Urls') /\ byUser' \in [Users -> Seq(Entry)]
  BY StillStocked DEF ShowInv, Urls
<1>2. Unmounted \in Showing /\ Unmounted.state = "off"
  BY DEF Unmounted, Showing
<1>3. /\ shows' \in [Components -> Showing]
      /\ \A x \in Components : shows'[x] \in {shows[x], Unmounted}
  BY <1>2 DEF ShowInv
<1>4. ASSUME NEW x \in Components PROVE Entitled(shows'[x], call', session', Urls')
  <2>1. CASE shows'[x] = shows[x]
    <3>1. /\ Entitled(shows[x], call, session, Urls) /\ session' \in {session, NoUser}
          /\ \A j \in Urls : call[j].user \in {session', NoUser} => j \in Urls'
      BY <1>1 DEF ShowInv
    <3>2. QED
      BY <2>1, <3>1, StillEntitled
  <2>2. CASE shows'[x] = Unmounted
    BY <1>2, <2>2 DEF Entitled
  <2>3. QED
    BY <1>3, <2>1, <2>2
<1>5. QED
  BY <1>1, <1>3, <1>4 DEF ShowInv

\* Every step keeps what is cached and shown in order.
LEMMA EveryShow == ASSUME IInv, ShowInv, [Next]_vars PROVE ShowInv'
<1>1. CASE \E u \in Users \cup {NoUser} : ChangeUser(u)
  BY <1>1, ChangeShows
<1>2. CASE \E c \in Components, m \in Media, k \in Unused : Mount(c, m, k)
  BY <1>2, MountShows
<1>3. ASSUME NEW c \in Components, Unmount(c) PROVE ShowInv'
  <2>1. Remembered(call, call') /\ UNCHANGED <<session, byUser, live, evicted>>
        /\ shows' = [shows EXCEPT ![c] = Unmounted]
    BY <1>3 DEF Unmount, Remembered
  <2>2. QED
    BY <2>1, QuietShows
<1>4. ASSUME NEW m \in Media, NEW k \in Unused, Download(m, k) PROVE ShowInv'
  <2>1. Remembered(call, call')
    BY <1>4, DownloadStep
  <2>2. UNCHANGED <<session, byUser, live, evicted, shows>>
    BY <1>4 DEF Download
  <2>3. QED
    BY <2>1, <2>2, QuietShows
<1>5. CASE \E k \in Calls : Answer(k)
  BY <1>5, AnswerShows
<1>6. CASE UNCHANGED vars
  <2>1. Remembered(call, call') /\ UNCHANGED <<session, byUser, live, evicted, shows>>
    BY <1>6 DEF vars, Remembered
  <2>2. QED
    BY <2>1, QuietShows
<1>7. QED
  BY <1>1, <1>2, <1>3, <1>4, <1>5, <1>6 DEF Next

\* Nothing is cached or shown at first.
LEMMA FirstShow == ASSUME Init PROVE ShowInv
<1>1. Len(<<>>) = 0 /\ <<>> \in Seq(Entry)
  BY EmptySeq
<1>2. byUser \in [Users -> Seq(Entry)] /\ Stocked(byUser, call, Urls)
  BY <1>1 DEF Init, Stocked
<1>3. Unmounted \in Showing /\ Unmounted.state = "off"
  BY DEF Unmounted, Showing
<1>4. shows \in [Components -> Showing] /\ \A x \in Components : shows[x] = Unmounted
  BY <1>3 DEF Init
<1>5. QED
  BY <1>2, <1>3, <1>4 DEF ShowInv, Entitled

\* What is cached and what is shown belongs to its user in every reachable
\* state, whoever signs in while fetches are on their way (attachment-cache.ts,
\* setSessionUser, fetchAttachmentBlob and acquireAfterFlight).
THEOREM ShowInvariant == Spec => []ShowInv
<1>1. Init => ShowInv
  BY FirstShow
<1>2. IInv /\ ShowInv /\ [Next]_vars => ShowInv'
  BY EveryShow
<1>3. QED
  BY Invariant, <1>1, <1>2, PTL DEF Spec

\* No component shows another medium than its own, or one that another user's
\* call has fetched (lines 16-17 and 172-179).
THEOREM TheirsIsShown == Spec => []ShownIsTheirs
<1>1. ShowInv => ShownIsTheirs
  BY DEF ShowInv, Entitled, Belongs, ShownIsTheirs
<1>2. QED
  BY ShowInvariant, <1>1, PTL

\* The URL on the page of the present user is there, unless an eviction took it:
\* no release, no other session and no late answer does (lines 101-124, 181-190).
THEOREM EvictionOnlyKills == Spec => []OnlyEvictionKills
<1>1. ShowInv => OnlyEvictionKills
  BY DEF ShowInv, Entitled, Urls, OnlyEvictionKills
<1>2. QED
  BY ShowInvariant, <1>1, PTL

-------------------------------------------------------------------------------
\* The pool in the words of the properties.
Counted == SlotsAreCounted /\ Holders = InSlot(call)

\* The invariant speaks of the same numbers as the property.
LEMMA PoolCounts == ASSUME IInv PROVE Counted /\ waiters \in Seq(Calls)
<1>1. /\ waiters \in Seq(Calls) /\ Distinct(waiters) /\ Elements(waiters) = InLine(call)
      /\ active = Cardinality(InSlot(call)) /\ active <= MaxFetches
      /\ waiters # <<>> => active = MaxFetches
  <2>1. Pool.active = active /\ Pool.waiters = waiters /\ Pool.call = call
    BY DEF Pool
  <2>2. Cardinality(InSlot(call)) \in Nat
    BY SlotsFinite
  <2>3. QED
    BY <2>1, <2>2 DEF IInv, PoolOK
<1>2. Holders = InSlot(call) /\ {k \in Calls : call[k].stage = "queued"} = InLine(call)
  BY DEF Holders, InSlot, InLine
<1>3. Range(waiters) = Elements(waiters)
  BY <1>1, RangeIsElements
<1>4. Cardinality(Elements(waiters)) = Len(waiters)
  BY <1>1, DistinctCount
<1>5. QED
  BY <1>1, <1>2, <1>3, <1>4 DEF Counted, SlotsAreCounted

\* Every slot taken is held by one call on its way, never more than
\* MAX_CONCURRENT_FETCHES, and who waits is in the line once
\* (attachment-cache.ts, lines 62-85).
THEOREM SlotsCounted == Spec => []SlotsAreCounted
<1>1. IInv => SlotsAreCounted
  BY PoolCounts DEF Counted
<1>2. QED
  BY Invariant, <1>1, PTL

\* Two fetches of a medium for a user run at once only after a map was dropped
\* (lines 20-21 and 161-170).
THEOREM FlightsShared == Spec => []FlightsAreShared
<1>1. ASSUME IInv PROVE FlightsAreShared
  <2> SUFFICES ASSUME NEW j \in Calls, NEW k \in Calls, j # k,
                      call[j].kind = "flight", call[k].kind = "flight",
                      call[j].user = call[k].user, call[j].medium = call[k].medium,
                      {call[j].stage, call[k].stage}
                        \cap {"unused", "following", "settled"} = {}
               PROVE  \E i \in Calls : call[i].detached /\ call[i].user = call[j].user
                                       /\ call[i].medium = call[j].medium
    BY Zenon DEF FlightsAreShared
  <2>1. call \in [Calls -> CallRecord]
    BY <1>1 DEF IInv, PoolOK, Pool
  <2>2. call[j].stage \in Moving /\ call[k].stage \in Moving
    <3>1. call[j].stage \in Stages /\ call[k].stage \in Stages
      BY <2>1 DEF CallRecord
    <3>2. QED
      BY <3>1 DEF Stages, Moving
  <2>3. QED
    BY <1>1, <2>2 DEF IInv, Covered
<1>2. QED
  BY Invariant, <1>1, PTL

\* FetchPool counts as this module does.
LEMMA SameCount == ASSUME NEW S PROVE SlotPool!Cardinality(S) = Cardinality(S)
BY DEF SlotPool!Cardinality, Cardinality

\* A line with another behind it begins as before.
LEMMA PrefixKept ==
  ASSUME NEW S, NEW s \in Seq(S), NEW t \in Seq(S)
  PROVE  Len(s) <= Len(s \o t) /\ SubSeq(s \o t, 1, Len(s)) = s
<1>1. Len(s) \in Nat /\ Len(t) \in Nat /\ Len(s \o t) = Len(s) + Len(t)
  BY LenProperties, ConcatProperties
<1>2. CASE s = <<>>
  <2>1. Len(s) = 0
    BY <1>2, EmptySeq
  <2>2. SubSeq(s \o t, 1, 0) = <<>>
    BY SubSeqEmpty
  <2>3. QED
    BY <1>1, <1>2, <2>1, <2>2
<1>3. CASE s # <<>>
  <2>1. Len(s) # 0
    BY <1>3, EmptySeq
  <2>2. 1 \in 1..Len(s) /\ Len(s) \in 1..Len(s)
    BY <1>1, <2>1
  <2>3. SubSeq(s \o t, 1, Len(s)) = SubSeq(s, 1, Len(s))
    BY <2>2, SubSeqOfConcat1
  <2>4. SubSeq(s, 1, Len(s)) = s
    BY SubSeqFull
  <2>5. QED
    BY <1>1, <2>3, <2>4
<1>4. QED
  BY <1>2, <1>3

\* The fetch slots keep the promise of FetchPool: first come, first served, and
\* nobody waits while a slot is free (lines 68-85).
THEOREM PoolRefined == Spec => RefinesFetchPool
<1>1. Init => SlotPool!Init
  <2> SUFFICES ASSUME Init PROVE SlotPool!Init
    OBVIOUS
  <2>1. Holders = {}
    BY DEF Init, Holders, NoCall
  <2>2. QED
    BY <2>1 DEF Init, SlotPool!Init
<1>2. ASSUME IInv, Counted', InOrder(Pool, Pool') PROVE SlotPool!Turn
  <2>1. /\ Cardinality(Holders') <= MaxFetches
        /\ waiters' # <<>> => Cardinality(Holders') = MaxFetches
        /\ Holders' = InSlot(call')
    BY <1>2 DEF Counted, SlotsAreCounted
  <2>2. waiters \in Seq(Calls) /\ Holders = InSlot(call) /\ Len(waiters) \in Nat
    BY <1>2, PoolCounts, LenProperties DEF Counted
  <2>3. ASSUME NEW n \in 0..Len(waiters),
               {waiters[i] : i \in 1..n} \subseteq Holders',
               NEW rest \in Seq(Calls), waiters' = SubSeq(waiters, n + 1, Len(waiters)) \o rest,
               SubSeq(waiters, n + 1, Len(waiters)) # <<>>
                 => Holders' \subseteq Holders \cup {waiters[i] : i \in 1..n}
        PROVE  SlotPool!Turn
    <3> DEFINE w == SubSeq(waiters, n + 1, Len(waiters))
    <3>1. w \in Seq(Calls)
      <4>1. \A i \in n + 1..Len(waiters) : waiters[i] \in Calls
        BY <2>2, ElementOfSeq
      <4>2. QED
        BY <2>2, <4>1, SubSeqProperties
    <3>2. Len(w) <= Len(waiters') /\ SubSeq(waiters', 1, Len(w)) = w
      BY <2>3, <3>1, PrefixKept
    <3>3. QED
      BY <2>1, <2>3, <3>2, SameCount, Zenon DEF SlotPool!Turn
  <2>4. CASE /\ \E rest \in Seq(Calls) : waiters' = waiters \o rest
             /\ waiters # <<>> => InSlot(call') \subseteq InSlot(call)
    <3>1. PICK rest \in Seq(Calls) : waiters' = waiters \o rest
      BY <2>4
    <3> DEFINE n == 0
    <3>2. SubSeq(waiters, n + 1, Len(waiters)) = waiters
      BY <2>2, SubSeqFull
    <3>3. {waiters[i] : i \in 1..n} = {} /\ n \in 0..Len(waiters)
      BY <2>2
    <3> HIDE DEF n
    <3>4. QED
      BY <2>1, <2>2, <2>3, <2>4, <3>1, <3>2, <3>3
  <2>5. CASE /\ waiters # <<>> /\ Head(waiters) \in InSlot(call')
             /\ \E rest \in Seq(Calls) : waiters' = Tail(waiters) \o rest
             /\ Tail(waiters) # <<>>
                  => InSlot(call') \subseteq InSlot(call) \cup {Head(waiters)}
    <3>1. PICK rest \in Seq(Calls) : waiters' = Tail(waiters) \o rest
      BY <2>5
    <3> DEFINE n == 1
    <3>2. SubSeq(waiters, n + 1, Len(waiters)) = Tail(waiters)
      BY <2>2, <2>5, TailIsSubSeq
    <3>3. {waiters[i] : i \in 1..n} = {Head(waiters)} /\ n \in 0..Len(waiters)
      <4>1. Len(waiters) # 0
        BY <2>2, <2>5, EmptySeq
      <4>2. Head(waiters) = waiters[1]
        BY <2>2, <2>5
      <4>3. QED
        BY <2>2, <4>1, <4>2
    <3> HIDE DEF n
    <3>4. QED
      BY <2>1, <2>2, <2>3, <2>5, <3>1, <3>2, <3>3
  <2>6. /\ Pool.waiters = waiters /\ Pool.call = call
        /\ Pool'.waiters = waiters' /\ Pool'.call = call'
    BY DEF Pool
  <2>7. QED
    BY <1>2, <2>4, <2>5, <2>6 DEF InOrder
<1>3. ASSUME IInv, Counted', [Next]_vars PROVE [SlotPool!Turn]_(SlotPool!vars)
  BY <1>2, <1>3, EveryStep
<1>4. IInv => Counted
  BY PoolCounts
<1>5. QED
  BY Invariant, <1>1, <1>3, <1>4, PTL DEF Spec, RefinesFetchPool, SlotPool!Spec
==============================================================================
