--------------------------- MODULE ChatPageProofs ---------------------------
(* What holds of ChatPage for any chats, page size and bounds: no message is *)
(* twice on a page, the socket follows the chat on screen, and a message is  *)
(* missing from the newest page only if its broadcast missed it.             *)
EXTENDS ChatPage, TLAPS, FiniteSetTheorems

Longago == Len(OldRows)

\* The pages of the cache and of fetches.
AnyPage == [ids : Seq(Nat), more : BOOLEAN]
AnyFetch == [stage : {"idle", "asked", "answered"}, older : BOOLEAN, want : Nat, got : Seq(AnyPage)]
AnyHistory == [pages : Seq(AnyPage), broken : BOOLEAN, fetch : AnyFetch]

Types ==
  /\ rows \in Seq(Chats) /\ Longago <= Len(rows) /\ Len(rows) <= MaxRows
  /\ joining \in [Chats -> Nat] /\ room \subseteq Chats /\ connected \in BOOLEAN
  /\ open \in Chats \cup {NoChat}
  /\ events \in Seq(Nat)
  /\ history \in [Chats -> AnyHistory]
  /\ sending \in [stage : {"idle", "asked", "stored", "answered"}, chat : Chats \cup {NoChat}, id : Nat]

\* What is on its way to the tab was stored since the beginning.
Recent == (Longago + 1)..Len(rows)
NewsAreRecent ==
  /\ unsaid \subseteq Recent /\ Range(events) \subseteq Recent
  /\ sending.stage # "idle" => sending.chat \in Chats
  /\ sending.stage \in {"stored", "answered"} => sending.id \in Recent /\ rows[sending.id] = sending.chat
  /\ sending.stage \in {"idle", "asked"} => sending.id = 0

\* Of all messages of a chat, the recent ones on a page come first, the older
\* ones follow newest first; of these none is left out that is newer than one on
\* the page, and none at all unless the page is full.
WellOrdered(ids, all) ==
  /\ ids \in Seq(Nat) /\ Len(ids) <= PageSize
  /\ \A i \in DOMAIN ids : ids[i] \in all
  /\ \A i, j \in DOMAIN ids : i < j => ids[i] # ids[j] /\ (ids[i] <= Longago => ids[j] < ids[i])
  /\ \A x \in all : x <= Longago =>
       \/ x \in Range(ids)
       \/ Len(ids) = PageSize /\ \A i \in DOMAIN ids : ids[i] > x

\* Every recent message of the chat is on the page or excused; one whose POST was
\* answered in the chat is on the page.
Complete(ids, all, excused, owned) ==
  \A m \in all : m > Longago =>
    /\ m \in Range(ids) \cup excused
    /\ m \in owned => m \in Range(ids)

GoodPage(ids, all, excused, owned) == WellOrdered(ids, all) /\ Complete(ids, all, excused, owned)

\* So are the newest pages of what is cached and of what is being fetched.
GoodHistory(h, all, excused, owned) ==
  /\ Known(h) => GoodPage(h.pages[1].ids, all, excused, owned)
  /\ h.fetch.got # <<>> => GoodPage(h.fetch.got[1].ids, all, excused, owned)
  /\ h.fetch.stage = "answered" => h.fetch.got # <<>>

\* Excused are the messages that are not announced yet, those that are announced
\* and not handled, and those whose broadcast missed the page.
Excused == unsaid \cup Range(events) \cup missed

PagesAreGood == \A c \in Chats : GoodHistory(history[c], In(c), Excused, answered)

IInv == Types /\ NewsAreRecent /\ answered \subseteq Recent /\ PagesAreGood /\ RoomFollowsView

-----------------------------------------------------------------------------
(* The server's page. *)

\* Above how many elements of S an element stands.
Above(S, m) == {x \in S : x > m}

\* The smaller of two naturals has the more elements above it.
LEMMA RankDescends ==
  ASSUME NEW S \in SUBSET Nat, IsFiniteSet(S), NEW m \in S, NEW n \in S, m < n
  PROVE  /\ Cardinality(Above(S, n)) \in Nat /\ Cardinality(Above(S, m)) \in Nat
         /\ Cardinality(Above(S, n)) < Cardinality(Above(S, m))
<1>0. m \in Nat /\ n \in Nat /\ \A x \in S : x \in Nat
  OBVIOUS
<1>1. /\ Above(S, m) \in SUBSET S
      /\ Above(S, n) \in SUBSET Above(S, m)
      /\ n \in Above(S, m) /\ n \notin Above(S, n)
  <2>1. Above(S, m) \in SUBSET S
    BY DEF Above
  <2>2. ASSUME NEW x \in Above(S, n) PROVE x \in Above(S, m)
    BY <1>0, <2>2 DEF Above
  <2>3. n \in Above(S, m) /\ n \notin Above(S, n)
    BY <1>0 DEF Above
  <2>4. QED
    BY <2>1, <2>2, <2>3
<1>2. IsFiniteSet(Above(S, m))
  BY <1>1, FS_Subset
<1>3. IsFiniteSet(Above(S, n)) /\ Cardinality(Above(S, n)) <= Cardinality(Above(S, m))
  BY <1>1, <1>2, FS_Subset
<1>4. Cardinality(Above(S, n)) # Cardinality(Above(S, m))
  BY <1>1, <1>2, FS_Subset
<1>5. QED
  BY <1>2, <1>3, <1>4, FS_CardinalityType

\* An element of S has fewer elements above it than S has.
LEMMA RankBound ==
  ASSUME NEW S \in SUBSET Nat, IsFiniteSet(S), NEW m \in S
  PROVE  Cardinality(Above(S, m)) \in 0..(Cardinality(S) - 1)
<1>1. Above(S, m) \in SUBSET (S \ {m}) /\ m \in S
  BY DEF Above
<1>2. IsFiniteSet(S \ {m}) /\ Cardinality(S \ {m}) = Cardinality(S) - 1
  BY FS_RemoveElement
<1>3. Cardinality(Above(S, m)) <= Cardinality(S) - 1 /\ IsFiniteSet(Above(S, m))
  BY <1>1, <1>2, FS_Subset
<1>4. QED
  BY <1>3, FS_CardinalityType

\* Every place from the top is taken by an element.
LEMMA RankExists ==
  ASSUME NEW S \in SUBSET Nat, IsFiniteSet(S), NEW r \in 0..(Cardinality(S) - 1)
  PROVE  \E m \in S : Cardinality(Above(S, m)) = r
<1> DEFINE T == 0..(Cardinality(S) - 1)
           f == [m \in S |-> Cardinality(Above(S, m))]
<1>0. Cardinality(S) \in Nat
  BY FS_CardinalityType
<1>1. IsFiniteSet(T) /\ Cardinality(T) = Cardinality(S)
  BY <1>0, FS_Interval
<1>2. \A m \in S : f[m] \in T
  BY RankBound
<1>3. ASSUME NEW m \in S, NEW n \in S, f[m] = f[n] PROVE m = n
  <2>1. ~(m < n) /\ ~(n < m)
    BY <1>3, RankDescends
  <2>2. QED
    BY <2>1
<1>4. f \in Injection(S, T)
  BY <1>2, <1>3 DEF Injection, IsInjective
<1>5. f \in Surjection(S, T)
  BY <1>1, <1>4, FS_Injection
<1>6. QED
  BY <1>5 DEF Surjection

\* The bounds are numbers.
LEMMA Numbers == PageSize \in Nat /\ PageSize >= 1 /\ MaxNew \in Nat /\ MaxNew <= PageSize /\ Longago \in Nat
BY BoundsAssumption, ChatsAssumption DEF Longago

\* The messages of a chat are finitely many.
LEMMA ChatIsFinite ==
  ASSUME Types, NEW c
  PROVE  In(c) \in SUBSET Nat /\ In(c) \subseteq 1..Len(rows) /\ IsFiniteSet(In(c)) /\ Cardinality(In(c)) \in Nat
<1>1. In(c) \in SUBSET (1..Len(rows)) /\ Len(rows) \in Nat
  BY DEF Types, In
<1>2. IsFiniteSet(1..Len(rows))
  BY <1>1, FS_Interval
<1>3. IsFiniteSet(In(c))
  BY <1>1, <1>2, FS_Subset
<1>4. QED
  BY <1>1, <1>3, FS_CardinalityType

\* The messages of page k, by their places.
LEMMA PlacesOfPage ==
  ASSUME Types, NEW c, NEW k \in Nat \ {0}
  PROVE  LET page == ServerPage(c, k)
             skip == (k - 1) * PageSize
         IN  /\ page \in AnyPage /\ Len(page.ids) <= PageSize
             /\ \A i \in DOMAIN page.ids : page.ids[i] \in In(c) /\ Newer(c, page.ids[i]) = skip + i - 1
             /\ \A r \in 1..PageSize : skip + r <= Cardinality(In(c)) => r \in DOMAIN page.ids
<1> DEFINE skip == (k - 1) * PageSize
           all  == Cardinality(In(c))
           last == Least(PageSize, all - skip)
           m[i \in Int] == CHOOSE x \in In(c) : Newer(c, x) = skip + i - 1
<1>1. skip \in Nat /\ all \in Nat /\ last \in Int /\ last <= PageSize /\ last <= all - skip
      /\ (last = PageSize \/ last = all - skip)
  BY ChatIsFinite, Numbers DEF Least
<1> HIDE DEF skip, all, last
<1>2. \A i \in 1..last : m[i] \in In(c) /\ Newer(c, m[i]) = skip + i - 1
  <2> SUFFICES ASSUME NEW i \in 1..last PROVE m[i] \in In(c) /\ Newer(c, m[i]) = skip + i - 1
    OBVIOUS
  <2>1. skip + i - 1 \in 0..(Cardinality(In(c)) - 1)
    BY <1>1 DEF all
  <2>2. \E x \in In(c) : Cardinality(Above(In(c), x)) = skip + i - 1
    BY <2>1, ChatIsFinite, RankExists
  <2>3. \E x \in In(c) : Newer(c, x) = skip + i - 1
    BY <2>2 DEF Newer, Above
  <2>4. QED
    BY <2>3
<1>3. ServerPage(c, k) = [ids |-> [i \in 1..last |-> m[i]], more |-> k * PageSize < all]
  BY DEF ServerPage, skip, all, last
<1>4. PICK n \in Nat : 1..last = 1..n /\ n <= PageSize /\ (n = last \/ (n = 0 /\ last < 0))
  BY <1>1, Numbers
<1> DEFINE ids == [i \in 1..n |-> m[i]]
<1> HIDE DEF m
<1>5. ids \in Seq(Nat) /\ Len(ids) = n /\ DOMAIN ids = 1..n
  <2>1. \A i \in 1..n : m[i] \in Nat
    BY <1>2, <1>4, ChatIsFinite
  <2>2. QED
    BY <2>1
<1>6. ServerPage(c, k) = [ids |-> ids, more |-> k * PageSize < all]
  BY <1>3, <1>4
<1>7. \A r \in 1..PageSize : skip + r <= all => r \in 1..n
  BY <1>1, <1>4, Numbers
<1>8. ServerPage(c, k) \in AnyPage
  BY <1>5, <1>6 DEF AnyPage
<1>9. /\ Len(ids) <= PageSize
      /\ \A i \in DOMAIN ids : ids[i] \in In(c) /\ Newer(c, ids[i]) = skip + i - 1
      /\ \A r \in 1..PageSize : skip + r <= all => r \in DOMAIN ids
  BY <1>2, <1>4, <1>5, <1>7, Numbers
<1>10. ServerPage(c, k).ids = ids
  BY <1>6
<1> HIDE DEF ids
<1>11. QED
  BY <1>8, <1>9, <1>10 DEF skip, all

\* Of two messages of a chat the later one has the fewer newer ones; one that is
\* recent has fewer than a page of them.
LEMMA NewerDescends ==
  ASSUME Types, NEW c
  PROVE  /\ \A x \in In(c) : x \in Nat /\ Newer(c, x) \in 0..(Cardinality(In(c)) - 1)
         /\ \A x, y \in In(c) : x < y => Newer(c, y) < Newer(c, x)
         /\ \A x \in In(c) \cap Recent : Newer(c, x) < PageSize
<1>1. \A x \in In(c) : x \in Nat /\ Newer(c, x) = Cardinality(Above(In(c), x))
  BY ChatIsFinite DEF Newer, Above
<1>2. \A x \in In(c) : Newer(c, x) \in 0..(Cardinality(In(c)) - 1)
  BY <1>1, ChatIsFinite, RankBound
<1>3. ASSUME NEW x \in In(c), NEW y \in In(c), x < y PROVE Newer(c, y) < Newer(c, x)
  <2>1. Cardinality(Above(In(c), y)) < Cardinality(Above(In(c), x))
    BY <1>3, ChatIsFinite, RankDescends
  <2>2. QED
    BY <1>1, <2>1
<1>4. ASSUME NEW x \in In(c) \cap Recent PROVE Newer(c, x) < PageSize
  <2> DEFINE later == (x + 1)..Len(rows)
  <2>1. Len(rows) \in Nat /\ x \in Nat /\ x >= Longago + 1 /\ x <= Len(rows) /\ Len(rows) <= Longago + MaxNew
    <3>1. Len(rows) \in Nat /\ Len(rows) <= Longago + MaxNew
      BY DEF Types, MaxRows, Longago
    <3>2. QED
      BY <3>1, Numbers DEF Recent
  <2>2. IsFiniteSet(later) /\ Cardinality(later) = Len(rows) - x
    <3>1. x + 1 \in Int /\ Len(rows) \in Int
      BY <2>1
    <3>2. IsFiniteSet(later) /\ Cardinality(later) = IF x + 1 > Len(rows) THEN 0 ELSE Len(rows) - (x + 1) + 1
      BY <3>1, FS_Interval
    <3>3. QED
      BY <2>1, <3>2
  <2>3. Above(In(c), x) \in SUBSET later
    <3>1. ASSUME NEW y \in In(c), y > x PROVE y \in later
      <4>1. y \in 1..Len(rows)
        BY ChatIsFinite
      <4>2. QED
        BY <2>1, <3>1, <4>1
    <3>2. QED
      BY <3>1 DEF Above
  <2>4. Cardinality(Above(In(c), x)) <= Len(rows) - x
    <3> HIDE DEF later
    <3>1. Cardinality(Above(In(c), x)) <= Cardinality(later)
      BY <2>2, <2>3, FS_Subset
    <3>2. QED
      BY <2>2, <3>1
  <2>5. QED
    BY <1>1, <1>2, <2>1, <2>4, Numbers
<1>5. QED
  BY <1>1, <1>2, <1>3, <1>4

\* The newest page of a chat is well ordered, it has every recent message, and
\* what is on it has fewer than a page of newer ones.
LEMMA NewestPage ==
  ASSUME Types, NEW c
  PROVE  LET page == ServerPage(c, 1)
         IN  /\ page \in AnyPage /\ WellOrdered(page.ids, In(c))
             /\ \A m \in In(c) \cap Recent : m \in Range(page.ids)
             /\ \A m \in Range(page.ids) : m \in In(c) /\ Newer(c, m) < PageSize
<1> DEFINE page == ServerPage(c, 1)
           ids  == page.ids
           all  == Cardinality(In(c))
<1>1. /\ page \in AnyPage /\ Len(ids) <= PageSize
      /\ \A i \in DOMAIN ids : ids[i] \in In(c) /\ Newer(c, ids[i]) = i - 1
      /\ \A r \in 1..PageSize : r <= all => r \in DOMAIN ids
  <2> DEFINE skip == (1 - 1) * PageSize
  <2>1. skip = 0
    <3>1. 1 - 1 = 0 /\ \A n \in Nat : 0 * n = 0
      OBVIOUS
    <3>2. QED
      BY <3>1, Numbers
  <2> HIDE DEF skip
  <2>2. /\ page \in AnyPage /\ Len(ids) <= PageSize
        /\ \A i \in DOMAIN ids : ids[i] \in In(c) /\ Newer(c, ids[i]) = skip + i - 1
        /\ \A r \in 1..PageSize : skip + r <= all => r \in DOMAIN ids
    BY PlacesOfPage DEF skip
  <2>3. DOMAIN ids \subseteq Int
    BY <2>2 DEF AnyPage
  <2>4. QED
    BY <2>1, <2>2, <2>3, ChatIsFinite
<1>2. ids \in Seq(Nat) /\ DOMAIN ids = 1..Len(ids) /\ Len(ids) \in Nat
  BY <1>1 DEF AnyPage
<1> HIDE DEF page, ids
<1>3. ASSUME NEW i \in DOMAIN ids, NEW j \in DOMAIN ids, i < j PROVE ids[j] < ids[i]
  <2>1. Newer(c, ids[i]) < Newer(c, ids[j]) /\ ids[i] \in Nat /\ ids[j] \in Nat
    BY <1>1, <1>2, <1>3
  <2>2. ids[i] # ids[j] /\ ~(ids[i] < ids[j])
    BY <1>1, <2>1, NewerDescends
  <2>3. QED
    BY <2>1, <2>2
<1>4. ASSUME NEW x \in In(c), Newer(c, x) < PageSize PROVE x \in Range(ids)
  <2> DEFINE r == Newer(c, x) + 1
  <2>1. r \in 1..PageSize /\ r <= all
    BY <1>4, NewerDescends, ChatIsFinite, Numbers
  <2>2. r \in DOMAIN ids /\ ids[r] \in In(c) /\ Newer(c, ids[r]) = Newer(c, x)
    BY <1>1, <2>1, NewerDescends
  <2>3. ids[r] = x
    <3>1. ids[r] \in Nat /\ x \in Nat /\ Newer(c, x) \in Nat
      BY <2>2, NewerDescends
    <3>2. ~(ids[r] < x) /\ ~(x < ids[r])
      BY <2>2, <3>1, NewerDescends
    <3>3. QED
      BY <3>1, <3>2
  <2>4. QED
    BY <2>2, <2>3 DEF Range
<1>5. ASSUME NEW x \in In(c), ~(Newer(c, x) < PageSize)
      PROVE  Len(ids) = PageSize /\ \A i \in DOMAIN ids : ids[i] > x
  <2>1. PageSize < all /\ Newer(c, x) \in Nat /\ x \in Nat
    <3>1. x \in Nat /\ Newer(c, x) \in 0..(all - 1) /\ all \in Nat
      BY NewerDescends, ChatIsFinite
    <3>2. QED
      BY <1>5, <3>1, Numbers
  <2>2. PageSize \in DOMAIN ids
    BY <1>1, <2>1, ChatIsFinite, Numbers
  <2>3. Len(ids) = PageSize
    BY <1>1, <1>2, <2>2, Numbers
  <2>4. ASSUME NEW i \in DOMAIN ids PROVE ids[i] > x
    <3>1. Newer(c, ids[i]) < Newer(c, x) /\ ids[i] \in In(c) /\ ids[i] \in Nat
      BY <1>1, <1>2, <1>5, <2>1, <2>3, Numbers
    <3>2. ids[i] # x /\ ~(ids[i] < x)
      BY <2>1, <3>1, NewerDescends
    <3>3. QED
      BY <2>1, <3>1, <3>2
  <2>5. QED
    BY <2>3, <2>4
<1>6. WellOrdered(ids, In(c))
  <2>1. \A i, j \in DOMAIN ids : i < j => ids[i] # ids[j] /\ (ids[i] <= Longago => ids[j] < ids[i])
    BY <1>2, <1>3
  <2>2. QED
    BY <1>1, <1>2, <1>4, <1>5, <2>1 DEF WellOrdered
<1>7. \A m \in Range(ids) : m \in In(c) /\ Newer(c, m) < PageSize
  BY <1>1, <1>2, Numbers DEF Range
<1>8. QED
  BY <1>1, <1>4, <1>6, <1>7, NewerDescends DEF page, ids

-----------------------------------------------------------------------------
(* What an arriving message does to a page. *)

\* There are no more recent messages than a page holds, so that a full page on
\* which one is missing ends with an old one.
LEMMA FullPageEndsOld ==
  ASSUME Types, NEW c, NEW ids, WellOrdered(ids, In(c)), Len(ids) = PageSize,
         NEW m \in Recent, m \notin Range(ids)
  PROVE  ids[PageSize] <= Longago
<1>1. /\ ids \in Seq(Nat) /\ DOMAIN ids = 1..PageSize /\ PageSize \in 1..PageSize
      /\ \A i \in 1..PageSize : ids[i] \in Nat /\ ids[i] \in 1..Len(rows)
      /\ \A i, j \in 1..PageSize : i < j => ids[i] # ids[j] /\ (ids[i] <= Longago => ids[j] < ids[i])
  <2>1. ids \in Seq(Nat) /\ DOMAIN ids = 1..PageSize /\ PageSize \in 1..PageSize
    BY Numbers DEF WellOrdered
  <2>2. \A i \in 1..PageSize : ids[i] \in In(c)
    BY <2>1 DEF WellOrdered
  <2>3. \A i, j \in 1..PageSize : i < j => ids[i] # ids[j] /\ (ids[i] <= Longago => ids[j] < ids[i])
    BY <2>1 DEF WellOrdered
  <2>4. QED
    BY <2>1, <2>2, <2>3, ChatIsFinite
<1>2. SUFFICES ASSUME ids[PageSize] > Longago PROVE FALSE
  BY <1>1, Numbers
<1>3. Len(rows) \in Nat /\ Longago <= Len(rows) /\ Len(rows) <= Longago + MaxNew
  BY DEF Types, MaxRows, Longago
<1>4. \A i \in 1..PageSize : ids[i] \in Recent
  <2> SUFFICES ASSUME NEW i \in 1..PageSize PROVE ids[i] \in Recent
    OBVIOUS
  <2>1. ids[i] > Longago
    BY <1>1, <1>2, Numbers
  <2>2. QED
    BY <1>1, <1>3, <2>1, Numbers DEF Recent
<1> DEFINE S == 0..PageSize
           f == [i \in S |-> IF i = 0 THEN m ELSE ids[i]]
<1>5. \A i \in S : f[i] \in Recent
  BY <1>4
<1>6. ASSUME NEW i \in S, NEW j \in S, f[i] = f[j] PROVE i = j
  <2>1. \A k \in 1..PageSize : ids[k] # m
    BY <1>1 DEF Range
  <2>2. ~(i < j) /\ ~(j < i)
    BY <1>1, <1>6, <2>1
  <2>3. QED
    BY <2>2
<1>7. f \in Injection(S, Recent)
  BY <1>5, <1>6 DEF Injection, IsInjective
<1>8. IsFiniteSet(Recent) /\ Cardinality(Recent) = Len(rows) - Longago
  <2>1. Longago + 1 \in Int /\ Len(rows) \in Int
    BY <1>3, Numbers
  <2>2. /\ IsFiniteSet(Recent)
        /\ Cardinality(Recent) = IF Longago + 1 > Len(rows) THEN 0 ELSE Len(rows) - (Longago + 1) + 1
    BY <2>1, FS_Interval DEF Recent
  <2>3. QED
    BY <1>3, <2>2, Numbers
<1>9. Cardinality(S) = PageSize + 1
  BY FS_Interval, Numbers
<1>10. Cardinality(S) <= Cardinality(Recent)
  BY <1>7, <1>8, FS_Injection
<1>11. QED
  BY <1>3, <1>8, <1>9, <1>10, Numbers

\* What the page holds after m was put in front.
LEMMA InFront ==
  ASSUME NEW ids \in Seq(Nat), Len(ids) <= PageSize, NEW m \in Nat
  PROVE  LET new == Newest(<<m>> \o ids)
             n   == Len(new)
         IN  /\ new \in Seq(Nat) /\ n \in Nat /\ n >= 1 /\ n <= PageSize
             /\ n = Len(ids) + 1 \/ (n = PageSize /\ n = Len(ids))
             /\ \A i \in 1..n : IF i = 1 THEN new[i] = m ELSE i - 1 \in 1..Len(ids) /\ new[i] = ids[i - 1]
<1> DEFINE q == <<m>> \o ids
           n == Least(PageSize, Len(q))
<1>1. q \in Seq(Nat) /\ Len(q) = Len(ids) + 1 /\ q[1] = m /\ \A i \in 2..Len(q) : q[i] = ids[i - 1]
  OBVIOUS
<1> HIDE DEF q
<1>2. n \in 1..Len(q) /\ n <= PageSize /\ (n = Len(ids) + 1 \/ (n = PageSize /\ n = Len(ids)))
  BY <1>1, Numbers DEF Least
<1> HIDE DEF n
<1>3. /\ SubSeq(q, 1, n) \in Seq(Nat) /\ Len(SubSeq(q, 1, n)) = n
      /\ \A i \in 1..n : SubSeq(q, 1, n)[i] = q[i]
  BY <1>1, <1>2
<1>4. Newest(q) = SubSeq(q, 1, n)
  BY DEF Newest, n
<1>5. ASSUME NEW i \in 1..n
      PROVE  IF i = 1 THEN q[i] = m ELSE i - 1 \in 1..Len(ids) /\ q[i] = ids[i - 1]
  <2>1. i = 1 \/ (i \in 2..Len(q) /\ i - 1 \in 1..Len(ids))
    BY <1>1, <1>2
  <2>2. QED
    BY <1>1, <2>1
<1>6. n \in Nat /\ n >= 1
  BY <1>1, <1>2
<1>7. QED
  BY <1>2, <1>3, <1>4, <1>5, <1>6 DEF q

\* A recent message goes in front, once; what goes for it is old, and older
\* than all that is left.
LEMMA PrependedPage ==
  ASSUME Types, NEW c, NEW page \in AnyPage, WellOrdered(page.ids, In(c)), NEW m \in In(c) \cap Recent
  PROVE  LET new == Prepended(page, m)
         IN  /\ new \in AnyPage /\ WellOrdered(new.ids, In(c)) /\ m \in Range(new.ids)
             /\ \A x \in Range(page.ids) \cap Recent : x \in Range(new.ids)
<1>1. CASE m \in Range(page.ids)
  BY <1>1 DEF Prepended
<1>2. CASE m \notin Range(page.ids)
  <2> DEFINE ids == page.ids
             new == Newest(<<m>> \o ids)
             n   == Len(new)
  <2>1. Prepended(page, m) = [page EXCEPT !.ids = new]
    BY <1>2 DEF Prepended
  <2>2. m \in Nat /\ m > Longago /\ m \in In(c)
    BY ChatIsFinite, Numbers DEF Recent
  <2>3. /\ ids \in Seq(Nat) /\ Len(ids) \in Nat /\ DOMAIN ids = 1..Len(ids) /\ Len(ids) <= PageSize
        /\ \A i \in 1..Len(ids) : ids[i] \in In(c) /\ ids[i] \in Nat /\ ids[i] # m
        /\ \A i, j \in 1..Len(ids) : i < j => ids[i] # ids[j] /\ (ids[i] <= Longago => ids[j] < ids[i])
    BY <1>2, Numbers DEF WellOrdered, Range, AnyPage
  <2> HIDE DEF ids
  <2>4. /\ new \in Seq(Nat) /\ n \in Nat /\ n >= 1 /\ n <= PageSize
        /\ n = Len(ids) + 1 \/ (n = PageSize /\ n = Len(ids))
        /\ \A i \in 1..n : IF i = 1 THEN new[i] = m ELSE i - 1 \in 1..Len(ids) /\ new[i] = ids[i - 1]
    BY <2>2, <2>3, InFront
  <2>5. n = PageSize /\ n = Len(ids) => ids[PageSize] <= Longago
    BY <1>2, FullPageEndsOld DEF ids
  <2> HIDE DEF new
  <2>6. DOMAIN new = 1..n
    BY <2>4
  <2> HIDE DEF n
  <2>7. ASSUME NEW i \in 1..n PROVE new[i] \in In(c)
    <3>1. CASE i = 1
      BY <2>2, <2>4, <3>1
    <3>2. CASE i # 1
      BY <2>3, <2>4, <3>2
    <3>3. QED
      BY <3>1, <3>2
  <2>8. ASSUME NEW i \in 1..n, NEW j \in 1..n, i < j
        PROVE  new[i] # new[j] /\ (new[i] <= Longago => new[j] < new[i])
    <3>1. j \in Nat /\ i \in Nat /\ i >= 1 /\ j # 1
      BY <2>8
    <3>2. new[j] = ids[j - 1] /\ j - 1 \in 1..Len(ids)
      BY <2>4, <3>1
    <3>3. CASE i = 1
      <4>1. new[i] = m
        BY <2>4, <3>3
      <4>2. QED
        BY <2>2, <2>3, <3>2, <4>1, Numbers
    <3>4. CASE i # 1
      <4>1. new[i] = ids[i - 1] /\ i - 1 \in 1..Len(ids) /\ i - 1 < j - 1
        BY <2>4, <2>8, <3>1, <3>4
      <4>2. QED
        BY <2>3, <3>2, <4>1
    <3>5. QED
      BY <3>3, <3>4
  <2>9. ASSUME NEW k \in 1..Len(ids)
        PROVE  \/ ids[k] \in Range(new)
               \/ ids[k] <= Longago /\ n = PageSize /\ \A i \in 1..n : new[i] > ids[k]
    <3>0. k \in Nat /\ k >= 1 /\ k <= Len(ids) /\ Len(ids) \in Nat /\ n \in Nat
      <4>1. Len(ids) \in Nat
        BY <2>3
      <4>2. n \in Nat
        BY <2>4
      <4>3. QED
        BY ONLY <4>1, <4>2, k \in 1..Len(ids)
    <3>1. CASE k + 1 <= n
      <4>1. k + 1 \in 1..n /\ k + 1 # 1 /\ (k + 1) - 1 = k
        BY ONLY <3>0, <3>1
      <4>2. new[k + 1] = ids[k]
        BY <2>4, <4>1
      <4>3. QED
        BY <2>6, <4>1, <4>2 DEF Range
    <3>2. CASE ~(k + 1 <= n)
      <4>1. k = PageSize /\ n = PageSize /\ Len(ids) = PageSize
        <5>1. n < k + 1
          BY ONLY <3>0, <3>2
        <5>2. n = Len(ids) + 1 \/ (n = PageSize /\ n = Len(ids))
          BY <2>4
        <5>3. QED
          BY <3>0, <5>1, <5>2
      <4>2. ids[k] <= Longago /\ ids[k] \in Nat
        BY <2>3, <2>5, <4>1
      <4>3. ASSUME NEW i \in 1..n PROVE new[i] > ids[k]
        <5>1. CASE i = 1
          <6>1. new[i] = m
            BY <2>4, <5>1
          <6>2. QED
            BY <2>2, <4>2, <6>1, Numbers
        <5>2. CASE i # 1
          <6>1. new[i] = ids[i - 1] /\ i - 1 \in 1..Len(ids)
            BY <2>4, <5>2
          <6>2. i - 1 < k
            BY <4>1, Numbers
          <6>3. ids[i - 1] \in Nat /\ ids[i - 1] # ids[k] /\ (ids[i - 1] <= Longago => ids[k] < ids[i - 1])
            BY <2>3, <6>1, <6>2
          <6>4. QED
            BY <4>2, <6>1, <6>3, Numbers
        <5>3. QED
          BY <5>1, <5>2
      <4>4. QED
        BY <4>1, <4>2, <4>3
    <3>3. QED
      BY <3>1, <3>2
  <2>10. ASSUME NEW x \in In(c), x <= Longago
         PROVE  x \in Range(new) \/ (n = PageSize /\ \A i \in 1..n : new[i] > x)
    <3>1. x \in Range(ids) \/ (Len(ids) = PageSize /\ \A i \in DOMAIN ids : ids[i] > x)
      BY <2>10 DEF WellOrdered, ids
    <3>2. CASE x \in Range(ids)
      BY <2>3, <2>9, <3>2 DEF Range
    <3>3. CASE Len(ids) = PageSize /\ \A i \in DOMAIN ids : ids[i] > x
      <4>1. n = PageSize /\ x \in Nat
        BY <2>4, <3>3, ChatIsFinite, Numbers
      <4>2. ASSUME NEW i \in 1..n PROVE new[i] > x
        <5>1. CASE i = 1
          <6>1. new[i] = m
            BY <2>4, <5>1
          <6>2. QED
            BY <2>2, <2>10, <4>1, <6>1, Numbers
        <5>2. CASE i # 1
          BY <2>3, <2>4, <3>3, <5>2
        <5>3. QED
          BY <5>1, <5>2
      <4>3. QED
        BY <4>1, <4>2
    <3>4. QED
      BY <3>1, <3>2, <3>3
  <2>11. WellOrdered(new, In(c))
    <3>1. \A i, j \in 1..n : i < j => new[i] # new[j] /\ (new[i] <= Longago => new[j] < new[i])
      BY <2>8
    <3>2. QED
      BY <2>4, <2>6, <2>7, <2>10, <3>1 DEF WellOrdered, n
  <2>12. m \in Range(new)
    <3>1. 1 \in 1..n
      BY <2>4
    <3>2. QED
      BY <2>4, <2>6, <3>1 DEF Range
  <2>13. ASSUME NEW x \in Range(ids) \cap Recent PROVE x \in Range(new)
    <3>1. ~(x <= Longago)
      BY Numbers DEF Recent
    <3>2. QED
      BY <2>3, <2>9, <2>13, <3>1 DEF Range
  <2>14. Prepended(page, m) \in AnyPage /\ Prepended(page, m).ids = new
    BY <2>1, <2>4 DEF AnyPage
  <2>15. QED
    BY <2>11, <2>12, <2>13, <2>14 DEF ids
<1>3. QED
  BY <1>1, <1>2

-----------------------------------------------------------------------------
(* What the steps do to the queries of a chat. *)

\* x is on the newest page of what is cached and of what is being fetched.
OnPages(h, x) ==
  /\ Known(h) => x \in Range(h.pages[1].ids)
  /\ h.fetch.got # <<>> => x \in Range(h.fetch.got[1].ids)

\* A good history stays good when messages are stored that are excused, and a
\* message loses its excuse, or is answered, only if the pages have it.
LEMMA GoodStays ==
  ASSUME NEW h, NEW all, NEW excused, NEW owned, GoodHistory(h, all, excused, owned),
         NEW all2, NEW excused2, NEW owned2, all \subseteq all2,
         \A m \in all2 \ all : ~(m <= Longago) /\ m \in excused2 /\ m \notin owned2,
         \A m \in all : m \in excused \ excused2 => OnPages(h, m),
         \A m \in all : m \in owned2 \ owned => OnPages(h, m)
  PROVE  GoodHistory(h, all2, excused2, owned2)
<1>1. ASSUME NEW ids, GoodPage(ids, all, excused, owned),
             \A m \in all : m \in excused \ excused2 => m \in Range(ids),
             \A m \in all : m \in owned2 \ owned => m \in Range(ids)
      PROVE  GoodPage(ids, all2, excused2, owned2)
  <2>1. WellOrdered(ids, all2)
    BY <1>1 DEF GoodPage, WellOrdered
  <2>2. Complete(ids, all2, excused2, owned2)
    BY <1>1 DEF GoodPage, Complete
  <2>3. QED
    BY <2>1, <2>2 DEF GoodPage
<1>2. Known(h) => GoodPage(h.pages[1].ids, all2, excused2, owned2)
  BY <1>1 DEF GoodHistory, OnPages
<1>3. h.fetch.got # <<>> => GoodPage(h.fetch.got[1].ids, all2, excused2, owned2)
  BY <1>1 DEF GoodHistory, OnPages
<1>4. QED
  BY <1>2, <1>3 DEF GoodHistory

\* A refetch leaves what is cached and starts from nothing.
LEMMA AskedGood ==
  ASSUME NEW h \in AnyHistory, NEW all, NEW excused, NEW owned, GoodHistory(h, all, excused, owned)
  PROVE  Asked(h) \in AnyHistory /\ GoodHistory(Asked(h), all, excused, owned)
<1> DEFINE want == IF Known(h) THEN Len(h.pages) ELSE 1
           f    == [stage |-> "asked", older |-> FALSE, got |-> <<>>, want |-> want]
           b    == Known(h) /\ h.broken
<1>1. Asked(h) = [h EXCEPT !.fetch = f, !.broken = b]
  BY DEF Asked
<1>2. f \in AnyFetch /\ f.got = <<>> /\ f.stage = "asked"
  BY DEF AnyFetch, AnyHistory
<1>3. b \in BOOLEAN
  OBVIOUS
<1> HIDE DEF f, b
<1>4. Asked(h) \in AnyHistory /\ Asked(h).pages = h.pages /\ Asked(h).fetch = f
  BY <1>1, <1>2, <1>3 DEF AnyHistory
<1>5. QED
  BY <1>2, <1>4 DEF GoodHistory, Known

\* A query that is mounted stays good.
LEMMA MountedGood ==
  ASSUME NEW h \in AnyHistory, NEW all, NEW excused, NEW owned, GoodHistory(h, all, excused, owned)
  PROVE  Mounted(h) \in AnyHistory /\ GoodHistory(Mounted(h), all, excused, owned)
BY AskedGood DEF Mounted

\* So does one that is invalidated.
LEMMA InvalidatedGood ==
  ASSUME NEW h \in AnyHistory, NEW all, NEW excused, NEW owned, GoodHistory(h, all, excused, owned)
  PROVE  Invalidated(h) \in AnyHistory /\ GoodHistory(Invalidated(h), all, excused, owned)
BY AskedGood DEF Invalidated

\* Nothing cached and nothing fetched is good.
LEMMA NothingGood ==
  ASSUME NEW all, NEW excused, NEW owned
  PROVE  NoHistory \in AnyHistory /\ GoodHistory(NoHistory, all, excused, owned)
<1>1. NoHistory.pages = <<>> /\ NoHistory.fetch.got = <<>> /\ NoHistory.fetch.stage = "idle" /\ NoHistory \in AnyHistory
  BY DEF NoHistory, NoFetch, AnyHistory, AnyFetch
<1>2. QED
  BY <1>1 DEF GoodHistory, Known

\* A recent message that arrives is on the cached page from then on, and stays
\* excused for the one being fetched.
LEMMA WithMessageGood ==
  ASSUME Types, NEW c, NEW h \in AnyHistory, NEW m \in In(c) \cap Recent, NEW excused, NEW owned,
         GoodHistory(h, In(c), excused, owned)
  PROVE  LET h2 == WithMessage(h, m)
         IN  /\ h2 \in AnyHistory /\ h2.fetch = h.fetch /\ (Known(h2) <=> Known(h))
             /\ GoodHistory(h2, In(c), excused, owned)
             /\ Known(h) => m \in Range(h2.pages[1].ids)
<1>1. CASE ~Known(h)
  BY <1>1 DEF WithMessage
<1>2. CASE Known(h)
  <2> DEFINE page == h.pages[1]
             new  == Prepended(page, m)
             h2   == WithMessage(h, m)
  <2>1. h.pages \in Seq(AnyPage) /\ Len(h.pages) >= 1 /\ page \in AnyPage
    BY <1>2 DEF AnyHistory, Known
  <2>2. GoodPage(page.ids, In(c), excused, owned)
    BY <1>2 DEF GoodHistory
  <2>3. /\ new \in AnyPage /\ WellOrdered(new.ids, In(c)) /\ m \in Range(new.ids)
        /\ \A x \in Range(page.ids) \cap Recent : x \in Range(new.ids)
    BY <2>1, <2>2, PrependedPage DEF GoodPage
  <2>4. /\ h2 = [h EXCEPT !.pages = [h.pages EXCEPT ![1] = new], !.broken = FALSE]
        /\ h2.pages = [h.pages EXCEPT ![1] = new]
    BY <1>2 DEF WithMessage, AnyHistory
  <2>5. h2.pages \in Seq(AnyPage) /\ Len(h2.pages) >= 1 /\ h2.pages[1] = new
    BY <2>1, <2>3, <2>4
  <2>6. h2 \in AnyHistory /\ h2.fetch = h.fetch
    BY <2>4, <2>5 DEF AnyHistory
  <2>7. Known(h2)
    BY <2>5 DEF Known
  <2>8. \A x \in In(c) : x > Longago => x \in Recent
    BY ChatIsFinite, Numbers DEF Recent
  <2>9. GoodPage(new.ids, In(c), excused, owned)
    BY <2>2, <2>3, <2>8 DEF GoodPage, Complete
  <2>10. GoodHistory(h2, In(c), excused, owned)
    BY <2>5, <2>6, <2>9 DEF GoodHistory
  <2>11. QED
    BY <1>2, <2>3, <2>5, <2>6, <2>7, <2>10
<1>3. QED
  BY <1>1, <1>2

-----------------------------------------------------------------------------
(* The steps. *)

\* A step that gives one chat a good history and tells of no message.
LEMMA HistoryStep ==
  ASSUME Types, PagesAreGood, NEW c \in Chats, NEW h \in AnyHistory, GoodHistory(h, In(c), Excused, answered),
         history' = [history EXCEPT ![c] = h], UNCHANGED <<rows, unsaid, events, missed, answered>>
  PROVE  history' \in [Chats -> AnyHistory] /\ PagesAreGood'
<1>1. history' \in [Chats -> AnyHistory]
  BY DEF Types
<1>2. ASSUME NEW d \in Chats PROVE GoodHistory(history'[d], In(d), Excused, answered)
  BY DEF Types, PagesAreGood
<1>3. \A d : In(d)' = In(d)
  BY DEF In
<1>4. Excused' = Excused
  BY DEF Excused
<1>5. QED
  BY <1>1, <1>2, <1>3, <1>4 DEF PagesAreGood

\* A step that leaves the histories, and tells of no message that is not excused.
LEMMA NewsStep ==
  ASSUME Types, PagesAreGood, UNCHANGED history,
         NEW fresh,
         \A c \in Chats : In(c) \subseteq In(c)' /\ In(c)' \subseteq In(c) \cup fresh,
         \A m \in fresh : ~(m <= Longago) /\ m \in Excused' /\ m \notin answered,
         Excused \subseteq Excused', answered' = answered
  PROVE  PagesAreGood'
<1>1. ASSUME NEW c \in Chats PROVE GoodHistory(history[c], In(c)', Excused', answered)
  BY GoodStays DEF PagesAreGood
<1>2. QED
  BY <1>1 DEF PagesAreGood

\* A message that is stored is recent, and excused until it is announced.
LEMMA StoredGood ==
  ASSUME IInv, NEW c \in Chats, Stored(c), UNCHANGED <<history, events, missed, answered>>
  PROVE  /\ PagesAreGood'
         /\ rows' \in Seq(Chats) /\ Longago <= Len(rows') /\ Len(rows') <= MaxRows
         /\ Recent \subseteq Recent' /\ Len(rows) + 1 \in Recent' /\ rows'[Len(rows) + 1] = c
         /\ unsaid' \subseteq Recent' /\ \A m \in Recent : rows'[m] = rows[m]
<1> DEFINE n == Len(rows) + 1
<1>1. /\ rows' \in Seq(Chats) /\ Len(rows') = n /\ rows'[n] = c /\ \A m \in 1..Len(rows) : rows'[m] = rows[m]
      /\ Longago <= Len(rows) /\ n <= MaxRows /\ Len(rows) \in Nat /\ Len(rows') \in Nat
      /\ MaxRows \in Nat
  <2>1. MaxRows \in Nat
    BY BoundsAssumption, ChatsAssumption DEF MaxRows
  <2>2. QED
    BY <2>1 DEF IInv, Types, Stored
<1>2. Recent \subseteq Recent' /\ n \in Recent' /\ n \notin Recent /\ Recent \subseteq 1..Len(rows)
  BY <1>1, Numbers DEF Recent
<1>3. ASSUME NEW d \in Chats PROVE In(d) \subseteq In(d)' /\ In(d)' \subseteq In(d) \cup {n}
  <2>1. DOMAIN rows = 1..Len(rows) /\ DOMAIN rows' = 1..n
    BY <1>1 DEF IInv, Types
  <2>2. QED
    BY <1>1, <2>1 DEF In
<1>4. ~(n <= Longago) /\ n \in Excused' /\ n \notin answered
  BY <1>1, <1>2, Numbers DEF Excused, Stored, IInv
<1>5. Excused \subseteq Excused'
  BY DEF Excused, Stored
<1>6. PagesAreGood'
  BY <1>3, <1>4, <1>5, NewsStep DEF IInv
<1>7. Longago <= Len(rows') /\ Len(rows') <= MaxRows
  BY <1>1, Numbers
<1>8. unsaid' \subseteq Recent'
  BY <1>2 DEF IInv, NewsAreRecent, Stored
<1>9. QED
  BY <1>1, <1>2, <1>6, <1>7, <1>8

\* Nothing is cached, fetched or stored at first.
LEMMA InitGood == ASSUME Init PROVE IInv
<1>1. Types
  <2>1. Len(OldRows) <= MaxRows
    BY BoundsAssumption, ChatsAssumption DEF MaxRows
  <2>2. rows \in Seq(Chats) /\ Longago <= Len(rows) /\ Len(rows) <= MaxRows
    BY <2>1, ChatsAssumption DEF Init, Longago
  <2>3. history \in [Chats -> AnyHistory]
    <3>1. NoHistory \in AnyHistory
      BY NothingGood
    <3>2. QED
      BY <3>1 DEF Init
  <2>4. events \in Seq(Nat) /\ room \subseteq Chats /\ connected \in BOOLEAN /\ open \in Chats \cup {NoChat}
    <3>1. <<>> \in Seq(Nat)
      OBVIOUS
    <3>2. QED
      BY <3>1 DEF Init
  <2>5. joining \in [Chats -> Nat]
    BY DEF Init
  <2>6. sending \in [stage : {"idle", "asked", "stored", "answered"}, chat : Chats \cup {NoChat}, id : Nat]
    BY DEF Init, Idle
  <2>7. QED
    BY <2>2, <2>3, <2>4, <2>5, <2>6 DEF Types
<1>2. NewsAreRecent /\ answered \subseteq Recent
  BY DEF Init, NewsAreRecent, Range, Idle
<1>3. PagesAreGood
  BY NothingGood DEF PagesAreGood, Init
<1>4. RoomFollowsView
  BY DEF RoomFollowsView, Init
<1>5. QED
  BY <1>1, <1>2, <1>3, <1>4 DEF IInv

\* The user's steps.
LEMMA UserStep == ASSUME IInv, User PROVE IInv'
<1> USE DEF IInv
<1>1. ASSUME NEW c \in Chats, Show(c) PROVE IInv'
  <2>1. history' \in [Chats -> AnyHistory] /\ PagesAreGood'
    <3>1. history[c] \in AnyHistory /\ GoodHistory(history[c], In(c), Excused, answered)
      BY DEF Types, PagesAreGood
    <3>2. Mounted(history[c]) \in AnyHistory /\ GoodHistory(Mounted(history[c]), In(c), Excused, answered)
      BY <3>1, MountedGood
    <3>3. history' = [history EXCEPT ![c] = Mounted(history[c])]
      BY <1>1 DEF Show
    <3>4. QED
      BY <1>1, <3>2, <3>3, HistoryStep DEF Show, server, socket, ghosts
  <2>2. joining' \in [Chats -> Nat] /\ room' \subseteq Chats /\ RoomFollowsView'
    BY <1>1, ChatsAssumption DEF Show, MoveRoom, Types, RoomFollowsView, server
  <2>3. QED
    BY <1>1, <2>1, <2>2 DEF Show, Types, NewsAreRecent, Recent, server, ghosts
<1>2. CASE Close
  <2>1. joining' \in [Chats -> Nat] /\ room' \subseteq Chats /\ RoomFollowsView'
    BY <1>2 DEF Close, MoveRoom, Types, RoomFollowsView
  <2>2. PagesAreGood'
    BY <1>2 DEF Close, PagesAreGood, In, Excused, server, ghosts
  <2>3. QED
    BY <1>2, <2>1, <2>2 DEF Close, Types, NewsAreRecent, Recent, server, ghosts
<1>3. ASSUME NEW c \in Chats, Forget(c) PROVE IInv'
  <2>1. history' \in [Chats -> AnyHistory] /\ PagesAreGood'
    BY <1>3, NothingGood, HistoryStep DEF Forget, server, socket, ghosts
  <2>2. QED
    BY <1>3, <2>1 DEF Forget, Types, NewsAreRecent, Recent, RoomFollowsView, server, socket, ghosts
<1>4. CASE Send
  <2>1. PagesAreGood'
    BY <1>4 DEF Send, PagesAreGood, In, Excused, server, socket, ghosts
  <2>2. QED
    BY <1>4, <2>1 DEF Send, Types, NewsAreRecent, Recent, RoomFollowsView, server, socket, ghosts
<1>5. CASE FetchOlder
  <2> DEFINE h == history[open]
             f == [stage |-> "asked", older |-> TRUE, want |-> Len(h.pages) + 1, got |-> h.pages]
             h2 == [h EXCEPT !.fetch = f]
  <2>1. open \in Chats /\ h \in AnyHistory /\ Known(h) /\ GoodHistory(h, In(open), Excused, answered)
    BY <1>5 DEF FetchOlder, OnScreen, Types, PagesAreGood
  <2>2. h2 \in AnyHistory /\ GoodHistory(h2, In(open), Excused, answered)
    <3>1. h.pages \in Seq(AnyPage) /\ Len(h.pages) + 1 \in Nat
      BY <2>1 DEF AnyHistory
    <3>2. f \in AnyFetch /\ f.got = h.pages /\ f.stage = "asked"
      BY <3>1 DEF AnyFetch
    <3> HIDE DEF f, h
    <3>3. h2 \in AnyHistory /\ h2.pages = h.pages /\ h2.fetch = f
      BY <2>1, <3>2 DEF AnyHistory
    <3> HIDE DEF h2
    <3>4. Known(h2)
      BY <2>1, <3>3 DEF Known
    <3>5. GoodPage(h.pages[1].ids, In(open), Excused, answered)
      BY <2>1 DEF GoodHistory
    <3>6. QED
      BY <3>2, <3>3, <3>5 DEF GoodHistory
  <2>3. history' = [history EXCEPT ![open] = h2]
    BY <1>5 DEF FetchOlder
  <2>4. history' \in [Chats -> AnyHistory] /\ PagesAreGood'
    BY <1>5, <2>1, <2>2, <2>3, HistoryStep DEF FetchOlder, server, socket, ghosts
  <2>5. QED
    BY <1>5, <2>4 DEF FetchOlder, Types, NewsAreRecent, Recent, RoomFollowsView, server, socket, ghosts
<1>6. QED
  BY <1>1, <1>2, <1>3, <1>4, <1>5 DEF User

\* The elements of a sequence of naturals that grows.
LEMMA RangeOfAppend ==
  ASSUME NEW s \in Seq(Nat), NEW m \in Nat
  PROVE  Append(s, m) \in Seq(Nat) /\ Range(Append(s, m)) = Range(s) \cup {m}
<1>1. DOMAIN s = 1..Len(s) /\ Len(s) \in Nat
  OBVIOUS
<1>2. /\ Append(s, m) \in Seq(Nat) /\ DOMAIN Append(s, m) = 1..(Len(s) + 1)
      /\ Append(s, m)[Len(s) + 1] = m /\ \A i \in 1..Len(s) : Append(s, m)[i] = s[i]
  OBVIOUS
<1>3. 1..(Len(s) + 1) = 1..Len(s) \cup {Len(s) + 1}
  BY <1>1
<1>4. Range(Append(s, m)) = {Append(s, m)[i] : i \in 1..Len(s)} \cup {m}
  BY <1>2, <1>3 DEF Range
<1>5. QED
  BY <1>1, <1>2, <1>4 DEF Range

\* And of one that loses its head.
LEMMA RangeOfTail ==
  ASSUME NEW s \in Seq(Nat), s # <<>>
  PROVE  Tail(s) \in Seq(Nat) /\ Range(s) = Range(Tail(s)) \cup {Head(s)}
<1>1. /\ DOMAIN s = 1..Len(s) /\ Len(s) \in Nat /\ Len(s) >= 1 /\ Head(s) = s[1]
      /\ Tail(s) \in Seq(Nat) /\ DOMAIN Tail(s) = 1..(Len(s) - 1)
      /\ \A i \in 1..(Len(s) - 1) : Tail(s)[i] = s[i + 1]
  OBVIOUS
<1>2. ASSUME NEW x \in Range(s) PROVE x \in Range(Tail(s)) \cup {Head(s)}
  <2>1. PICK i \in 1..Len(s) : s[i] = x
    BY <1>1, <1>2 DEF Range
  <2>2. CASE i = 1
    BY <1>1, <2>1, <2>2
  <2>3. CASE i # 1
    <3>1. i - 1 \in 1..(Len(s) - 1) /\ (i - 1) + 1 = i
      BY <1>1, <2>3
    <3>2. i - 1 \in DOMAIN Tail(s) /\ Tail(s)[i - 1] = x
      BY <1>1, <2>1, <3>1
    <3>3. QED
      BY <3>2 DEF Range
  <2>4. QED
    BY <2>2, <2>3
<1>3. ASSUME NEW x \in Range(Tail(s)) \cup {Head(s)} PROVE x \in Range(s)
  <2>1. CASE x = Head(s)
    BY <1>1, <2>1 DEF Range
  <2>2. CASE x \in Range(Tail(s))
    <3>1. PICK i \in 1..(Len(s) - 1) : Tail(s)[i] = x
      BY <1>1, <2>2 DEF Range
    <3>2. i + 1 \in 1..Len(s)
      BY <1>1
    <3>3. QED
      BY <1>1, <3>1, <3>2 DEF Range
  <2>3. QED
    BY <1>3, <2>1, <2>2
<1>4. QED
  BY <1>1, <1>2, <1>3

\* The socket's steps.
LEMMA SocketStep == ASSUME IInv, Socket PROVE IInv'
<1> USE DEF IInv
<1>1. CASE Disconnect
  <2>1. Range(events') = {} /\ events' \in Seq(Nat)
    <3>1. <<>> \in Seq(Nat) /\ Range(<<>>) = {}
      BY DEF Range
    <3>2. QED
      BY <1>1, <3>1 DEF Disconnect
  <2>2. PagesAreGood'
    <3>1. Excused' = Excused
      BY <1>1, <2>1 DEF Disconnect, Excused, server
    <3>2. QED
      BY <1>1, <3>1 DEF Disconnect, PagesAreGood, In, server
  <2>3. joining' \in [Chats -> Nat] /\ room' \subseteq Chats /\ connected' = FALSE /\ RoomFollowsView'
    BY <1>1 DEF Disconnect, RoomFollowsView
  <2>4. QED
    BY <1>1, <2>1, <2>2, <2>3 DEF Disconnect, Types, NewsAreRecent, Recent, server
<1>2. CASE Connect
  <2>1. joining' \in [Chats -> Nat] /\ RoomFollowsView'
    BY <1>2, ChatsAssumption DEF Connect, Types, RoomFollowsView
  <2>2. PagesAreGood'
    BY <1>2 DEF Connect, PagesAreGood, In, Excused, server, ghosts
  <2>3. QED
    BY <1>2, <2>1, <2>2 DEF Connect, Types, NewsAreRecent, Recent, server, ghosts
<1>3. CASE Receive
  <2> DEFINE m == Head(events)
             c == rows[m]
             h == history[c]
             h2 == WithMessage(h, m)
             lasts == Known(h) /\ (h.fetch.got # <<>> => m \in Range(h.fetch.got[1].ids))
  <2>1. /\ events \in Seq(Nat) /\ events # <<>> /\ events' = Tail(events) /\ events' \in Seq(Nat)
        /\ Range(events) = Range(events') \cup {m} /\ m \in Recent
    <3>1. /\ events \in Seq(Nat) /\ events # <<>> /\ events' = Tail(events)
      BY <1>3 DEF Receive, Types
    <3>2. Range(events) = Range(Tail(events)) \cup {Head(events)} /\ Tail(events) \in Seq(Nat)
      BY <3>1, RangeOfTail
    <3>3. QED
      BY <3>1, <3>2 DEF NewsAreRecent
  <2>2. c \in Chats /\ m \in In(c) /\ h \in AnyHistory /\ GoodHistory(h, In(c), Excused, answered)
    <3>1. m \in 1..Len(rows) /\ rows \in Seq(Chats)
      BY <2>1, Numbers DEF Recent, Types
    <3> HIDE DEF m
    <3>2. m \in DOMAIN rows /\ c \in Chats
      BY <3>1
    <3>3. m \in In(c)
      BY <3>2 DEF In
    <3> HIDE DEF c
    <3>4. h \in AnyHistory /\ GoodHistory(h, In(c), Excused, answered)
      BY <3>2 DEF Types, PagesAreGood
    <3>5. QED
      BY <3>2, <3>3, <3>4
  <2> HIDE DEF m, c
  <2>3. /\ h2 \in AnyHistory /\ h2.fetch = h.fetch /\ GoodHistory(h2, In(c), Excused, answered)
        /\ Known(h) => m \in Range(h2.pages[1].ids)
    BY <2>1, <2>2, WithMessageGood
  <2>4. /\ history' = [history EXCEPT ![c] = h2] /\ missed' = (IF lasts THEN missed ELSE missed \cup {m})
        /\ UNCHANGED <<rows, unsaid, answered>>
    BY <1>3 DEF Receive, m, c, server
  <2>5. lasts => OnPages(h2, m)
    BY <2>3 DEF OnPages
  <2> HIDE DEF h2, lasts
  <2>6. Excused \ Excused' \subseteq {m} /\ (~lasts => Excused \subseteq Excused')
    BY <2>1, <2>4 DEF Excused
  <2>7. ASSUME NEW d \in Chats PROVE GoodHistory(history'[d], In(d), Excused', answered)
    <3>1. CASE d = c
      <4>1. history'[d] = h2
        BY <2>2, <2>4, <3>1 DEF Types
      <4>2. \A x \in In(c) : x \in Excused \ Excused' => OnPages(h2, x)
        BY <2>5, <2>6
      <4>3. GoodHistory(h2, In(c), Excused', answered)
        BY <2>3, <4>2, GoodStays
      <4>4. QED
        BY <3>1, <4>1, <4>3
    <3>2. CASE d # c
      <4>1. history'[d] = history[d] /\ GoodHistory(history[d], In(d), Excused, answered)
        BY <2>4, <3>2 DEF PagesAreGood, Types
      <4>2. \A x \in In(d) : x \notin Excused \ Excused'
        <5>1. m \notin In(d)
          BY <3>2 DEF In, c
        <5>2. QED
          BY <2>6, <5>1
      <4>3. QED
        BY <4>1, <4>2, GoodStays
    <3>3. QED
      BY <3>1, <3>2
  <2>8. PagesAreGood'
    BY <2>4, <2>7 DEF PagesAreGood, In
  <2>9. history' \in [Chats -> AnyHistory]
    BY <2>3, <2>4 DEF Types
  <2>10. UNCHANGED <<rows, unsaid, joining, room, connected, open, sending, answered>>
    BY <1>3 DEF Receive, server
  <2>11. Types' /\ NewsAreRecent' /\ answered' \subseteq Recent'
    BY <2>1, <2>9, <2>10 DEF Types, NewsAreRecent, Recent
  <2>12. RoomFollowsView'
    BY <2>10 DEF RoomFollowsView
  <2>13. QED
    BY <2>8, <2>11, <2>12
<1>4. ASSUME NEW c \in Chats, Join(c) PROVE IInv'
  <2>1. joining' \in [Chats -> Nat] /\ room' \subseteq Chats /\ RoomFollowsView'
    BY <1>4 DEF Join, Types, RoomFollowsView
  <2>2. PagesAreGood'
    BY <1>4 DEF Join, PagesAreGood, In, Excused, server, ghosts
  <2>3. QED
    BY <1>4, <2>1, <2>2 DEF Join, Types, NewsAreRecent, Recent, server, ghosts
<1>5. QED
  BY <1>1, <1>2, <1>3, <1>4 DEF Socket

\* The invalidation of the chat on screen keeps the histories good.
LEMMA OpenGood ==
  ASSUME open \in Chats \cup {NoChat}, NEW hs \in [Chats -> AnyHistory], NEW excused, NEW owned,
         \A c \in Chats : GoodHistory(hs[c], In(c), excused, owned)
  PROVE  /\ InvalidatedOpen(hs) \in [Chats -> AnyHistory]
         /\ \A c \in Chats : GoodHistory(InvalidatedOpen(hs)[c], In(c), excused, owned)
<1>1. CASE open = NoChat
  BY <1>1 DEF InvalidatedOpen
<1>2. CASE open # NoChat
  <2>1. Invalidated(hs[open]) \in AnyHistory /\ GoodHistory(Invalidated(hs[open]), In(open), excused, owned)
    BY <1>2, InvalidatedGood
  <2>2. InvalidatedOpen(hs) = [hs EXCEPT ![open] = Invalidated(hs[open])]
    BY <1>2 DEF InvalidatedOpen
  <2>3. QED
    BY <2>1, <2>2
<1>3. QED
  BY <1>1, <1>2

\* The steps of messages.
LEMMA MessagesStep == ASSUME IInv, Messages PROVE IInv'
<1> USE DEF IInv
<1>1. ASSUME NEW c \in Chats, PeerSends(c) PROVE IInv'
  <2>1. Stored(c) /\ UNCHANGED <<history, events, missed, answered, joining, room, connected, open, sending>>
    BY <1>1 DEF PeerSends, socket, ghosts
  <2>2. /\ PagesAreGood'
        /\ rows' \in Seq(Chats) /\ Longago <= Len(rows') /\ Len(rows') <= MaxRows
        /\ Recent \subseteq Recent'
        /\ unsaid' \subseteq Recent' /\ \A m \in Recent : rows'[m] = rows[m]
    BY <2>1, StoredGood
  <2>3. RoomFollowsView'
    BY <2>1 DEF RoomFollowsView
  <2>4. NewsAreRecent'
    BY <2>1, <2>2 DEF NewsAreRecent
  <2>5. Types'
    BY <2>1, <2>2 DEF Types
  <2>6. QED
    BY <2>1, <2>2, <2>3, <2>4, <2>5
<1>2. CASE Store
  <2> DEFINE c == sending.chat
  <2>1. /\ c \in Chats /\ Stored(c) /\ sending' = [sending EXCEPT !.stage = "stored", !.id = Len(rows) + 1]
        /\ UNCHANGED <<history, events, missed, answered, joining, room, connected, open>>
    BY <1>2 DEF Store, socket, ghosts, NewsAreRecent
  <2> HIDE DEF c
  <2>2. /\ PagesAreGood'
        /\ rows' \in Seq(Chats) /\ Longago <= Len(rows') /\ Len(rows') <= MaxRows
        /\ Recent \subseteq Recent' /\ Len(rows) + 1 \in Recent' /\ rows'[Len(rows) + 1] = c
        /\ unsaid' \subseteq Recent' /\ \A m \in Recent : rows'[m] = rows[m]
    BY <2>1, StoredGood
  <2>3. /\ sending' \in [stage : {"idle", "asked", "stored", "answered"}, chat : Chats \cup {NoChat}, id : Nat]
        /\ sending'.stage = "stored" /\ sending'.chat = c /\ sending'.id = Len(rows) + 1
    <3>1. Len(rows) + 1 \in Nat /\ "stored" \in {"idle", "asked", "stored", "answered"}
      BY DEF Types
    <3>2. sending \in [stage : {"idle", "asked", "stored", "answered"}, chat : Chats \cup {NoChat}, id : Nat]
      BY DEF Types
    <3>3. QED
      BY <2>1, <3>1, <3>2 DEF c
  <2>4. RoomFollowsView'
    BY <2>1 DEF RoomFollowsView
  <2>5. NewsAreRecent'
    BY <2>1, <2>2, <2>3 DEF NewsAreRecent
  <2>6. Types'
    BY <2>1, <2>2, <2>3 DEF Types
  <2>7. QED
    BY <2>1, <2>2, <2>4, <2>5, <2>6
<1>3. ASSUME NEW m \in DOMAIN rows, Broadcast(m) PROVE IInv'
  <2>1. /\ m \in unsaid /\ m \in Recent /\ m \in Nat /\ m # 0 /\ unsaid' \subseteq Recent
        /\ UNCHANGED <<rows, joining, room, connected, open, history, answered>>
    BY <1>3, Numbers DEF Broadcast, NewsAreRecent, Recent
  <2>2. events' \in Seq(Nat) /\ Range(events') \subseteq Recent /\ Excused' = Excused
    <3>1. Append(events, m) \in Seq(Nat) /\ Range(Append(events, m)) = Range(events) \cup {m}
      <4>1. events \in Seq(Nat)
        BY DEF Types
      <4>2. QED
        BY <2>1, <4>1, RangeOfAppend
    <3>2. CASE rows[m] \in room
      <4>1. events' = Append(events, m) /\ missed' = missed /\ unsaid' = unsaid \ {m}
        BY <1>3, <3>2 DEF Broadcast
      <4>2. QED
        BY <2>1, <3>1, <4>1 DEF Excused, NewsAreRecent
    <3>3. CASE rows[m] \notin room
      <4>1. events' = events /\ missed' = missed \cup {m} /\ unsaid' = unsaid \ {m}
        BY <1>3, <3>3 DEF Broadcast
      <4>2. QED
        BY <2>1, <4>1 DEF Excused, NewsAreRecent, Types
    <3>4. QED
      BY <3>2, <3>3
  <2>3. PagesAreGood'
    BY <2>1, <2>2 DEF PagesAreGood, In
  <2>4. /\ sending' \in [stage : {"idle", "asked", "stored", "answered"}, chat : Chats \cup {NoChat}, id : Nat]
        /\ sending'.chat = sending.chat /\ sending'.id = sending.id
        /\ sending'.stage # sending.stage => sending.stage \in {"stored", "answered"} /\ sending'.stage = "answered"
    <3>1. sending.id = m => sending.stage \in {"stored", "answered"}
      BY <2>1 DEF NewsAreRecent, Types
    <3>2. QED
      BY <1>3, <3>1 DEF Broadcast, Types
  <2>5. NewsAreRecent'
    BY <2>1, <2>2, <2>4 DEF NewsAreRecent, Recent
  <2>6. RoomFollowsView' /\ Types' /\ answered' \subseteq Recent'
    BY <2>1, <2>2, <2>4 DEF RoomFollowsView, Types, Recent
  <2>7. QED
    BY <2>3, <2>5, <2>6
<1>4. CASE SendAnswered
  <2> DEFINE m == sending.id
             c == sending.chat
             h == history[c]
             h2 == WithMessage(h, m)
             hs == [history EXCEPT ![c] = h2]
  <2>1. /\ c \in Chats /\ m \in Recent /\ m \in In(c) /\ h \in AnyHistory
        /\ GoodHistory(h, In(c), Excused, answered)
    <3>1. c \in Chats /\ m \in Recent /\ rows[m] = c
      BY <1>4 DEF SendAnswered, NewsAreRecent
    <3>2. m \in 1..Len(rows)
      BY <3>1, Numbers DEF Recent, Types
    <3>3. QED
      BY <3>1, <3>2 DEF In, Types, PagesAreGood
  <2>2. /\ sending' = Idle /\ history' = InvalidatedOpen(hs)
        /\ answered' = (IF OnScreen(open, history) /\ open = c THEN answered \cup {m} ELSE answered)
        /\ UNCHANGED <<rows, unsaid, joining, room, connected, events, open, missed>>
    BY <1>4 DEF SendAnswered, server, socket
  <2> HIDE DEF m, c
  <2>3. /\ h2 \in AnyHistory /\ GoodHistory(h2, In(c), Excused, answered) /\ (Known(h2) <=> Known(h))
        /\ Known(h) => m \in Range(h2.pages[1].ids)
    BY <2>1, WithMessageGood
  <2> HIDE DEF h2
  <2>4. hs \in [Chats -> AnyHistory] /\ hs[c] = h2
        /\ \A d \in Chats : GoodHistory(hs[d], In(d), Excused, answered)
    <3>1. hs \in [Chats -> AnyHistory] /\ hs[c] = h2 /\ \A d \in Chats : d # c => hs[d] = history[d]
      BY <2>1, <2>3 DEF Types
    <3>2. QED
      BY <2>3, <3>1 DEF PagesAreGood
  <2> HIDE DEF hs
  <2>5. /\ InvalidatedOpen(hs) \in [Chats -> AnyHistory]
        /\ \A d \in Chats : GoodHistory(InvalidatedOpen(hs)[d], In(d), Excused, answered)
    BY <2>4, OpenGood DEF Types
  <2>6. ASSUME m \in answered' \ answered PROVE OnPages(InvalidatedOpen(hs)[c], m)
    <3>1. OnScreen(open, history) /\ open = c /\ open # NoChat
      BY <2>2, <2>6 DEF OnScreen
    <3>2. Known(h) /\ Known(h2) /\ m \in Range(h2.pages[1].ids)
      BY <2>3, <3>1 DEF OnScreen
    <3>3. InvalidatedOpen(hs)[c] = Asked(h2)
      BY <2>1, <2>4, <3>1, <3>2 DEF InvalidatedOpen, Invalidated
    <3>4. Asked(h2).pages = h2.pages /\ Asked(h2).fetch.got = <<>>
      BY <2>3 DEF Asked, AnyHistory, AnyFetch
    <3>5. QED
      BY <3>2, <3>3, <3>4 DEF OnPages
  <2>7. Excused' = Excused /\ \A d : In(d)' = In(d)
    BY <2>2 DEF Excused, In
  <2>8. ASSUME NEW d \in Chats PROVE GoodHistory(InvalidatedOpen(hs)[d], In(d), Excused, answered')
    <3>1. GoodHistory(InvalidatedOpen(hs)[d], In(d), Excused, answered)
      BY <2>5
    <3>2. \A x \in In(d) : x \in answered' \ answered => OnPages(InvalidatedOpen(hs)[d], x)
      <4>1. ASSUME NEW x \in In(d), x \in answered' \ answered PROVE OnPages(InvalidatedOpen(hs)[d], x)
        <5>1. x = m
          BY <2>2, <4>1
        <5>2. d = c
          BY <2>1, <5>1, <4>1 DEF In
        <5>3. QED
          BY <2>6, <4>1, <5>1, <5>2
      <4>2. QED
        BY <4>1
    <3>3. QED
      BY <3>1, <3>2, GoodStays
  <2>9. PagesAreGood'
    BY <2>2, <2>7, <2>8 DEF PagesAreGood
  <2>10. NewsAreRecent' /\ answered' \subseteq Recent'
    BY <2>1, <2>2 DEF NewsAreRecent, Recent, Idle
  <2>11. RoomFollowsView'
    BY <2>2 DEF RoomFollowsView
  <2>12. Idle \in [stage : {"idle", "asked", "stored", "answered"}, chat : Chats \cup {NoChat}, id : Nat]
    BY DEF Idle
  <2>13. Types'
    BY <2>2, <2>5, <2>12 DEF Types
  <2>14. QED
    BY <2>9, <2>10, <2>11, <2>13
<1>5. CASE LoseSend
  <2>1. PagesAreGood'
    BY <1>5 DEF LoseSend, PagesAreGood, In, Excused, server, socket, ghosts
  <2>2. Idle \in [stage : {"idle", "asked", "stored", "answered"}, chat : Chats \cup {NoChat}, id : Nat]
    BY DEF Idle
  <2>3. NewsAreRecent' /\ answered' \subseteq Recent'
    BY <1>5 DEF LoseSend, NewsAreRecent, Recent, Idle, server, socket, ghosts
  <2>4. Types' /\ RoomFollowsView'
    BY <1>5, <2>2 DEF LoseSend, Types, RoomFollowsView, server, socket, ghosts
  <2>5. QED
    BY <2>1, <2>3, <2>4
<1>6. QED
  BY <1>1, <1>2, <1>3, <1>4, <1>5 DEF Messages

\* The first page of a fetch that loads the next one.
LEMMA LoadedGood ==
  ASSUME Types, NEW c \in Chats, NEW got \in Seq(AnyPage), NEW excused, NEW owned,
         got # <<>> => GoodPage(got[1].ids, In(c), excused, owned)
  PROVE  LET more == Append(got, ServerPage(c, Len(got) + 1)) IN
         /\ more \in Seq(AnyPage) /\ more # <<>>
         /\ GoodPage(more[1].ids, In(c), excused, owned)
<1> DEFINE page == ServerPage(c, Len(got) + 1)
           more == Append(got, page)
<1>1. page \in AnyPage
  <2>1. Len(got) + 1 \in Nat \ {0}
    OBVIOUS
  <2>2. QED
    BY <2>1, PlacesOfPage
<1>2. CASE got = <<>>
  <2>1. page = ServerPage(c, 1)
    BY <1>2
  <2>2. WellOrdered(page.ids, In(c)) /\ \A m \in In(c) \cap Recent : m \in Range(page.ids)
    BY <2>1, NewestPage
  <2>3. \A m \in In(c) : m > Longago => m \in Recent
    BY ChatIsFinite, Numbers DEF Recent
  <2>4. GoodPage(page.ids, In(c), excused, owned)
    BY <2>2, <2>3 DEF GoodPage, Complete
  <2> HIDE DEF page
  <2>5. more[1] = page /\ more \in Seq(AnyPage) /\ more # <<>>
    BY <1>1, <1>2
  <2>6. QED
    BY <2>4, <2>5 DEF page
<1>3. CASE got # <<>>
  <2> HIDE DEF page
  <2>1. more[1] = got[1] /\ more \in Seq(AnyPage) /\ more # <<>>
    BY <1>1, <1>3
  <2>2. QED
    BY <1>3, <2>1 DEF page
<1>4. QED
  BY <1>2, <1>3

\* The steps of fetches.
LEMMA FetchesStep == ASSUME IInv, Fetches PROVE IInv'
<1> USE DEF IInv
<1>1. ASSUME NEW c \in Chats, NEW h2 \in AnyHistory, GoodHistory(h2, In(c), Excused, answered),
             history' = [history EXCEPT ![c] = h2],
             UNCHANGED <<server, socket, open, sending, ghosts>>
      PROVE  IInv'
  <2>1. history' \in [Chats -> AnyHistory] /\ PagesAreGood'
    BY <1>1, HistoryStep DEF server, socket, ghosts
  <2>2. QED
    BY <1>1, <2>1 DEF Types, NewsAreRecent, Recent, RoomFollowsView, server, socket, ghosts
<1>2. ASSUME NEW c \in Chats
      PROVE  /\ history[c] \in AnyHistory /\ GoodHistory(history[c], In(c), Excused, answered)
             /\ history[c].fetch \in AnyFetch /\ history[c].fetch.got \in Seq(AnyPage)
  BY DEF Types, PagesAreGood, AnyHistory, AnyFetch
<1>3. ASSUME NEW c \in Chats, LoadPage(c) PROVE IInv'
  <2> DEFINE h == history[c]
             got == h.fetch.got
             more == Append(got, ServerPage(c, Len(got) + 1))
             f == [h.fetch EXCEPT !.stage = "answered", !.got = more]
             h2 == [h EXCEPT !.fetch = f]
  <2>1. history' = [history EXCEPT ![c] = h2] /\ UNCHANGED <<server, socket, open, sending, ghosts>>
    BY <1>3 DEF LoadPage
  <2>2. got \in Seq(AnyPage) /\ h \in AnyHistory /\ h.fetch \in AnyFetch /\ GoodHistory(h, In(c), Excused, answered)
    BY <1>2
  <2>3. more \in Seq(AnyPage) /\ more # <<>> /\ GoodPage(more[1].ids, In(c), Excused, answered)
    BY <2>2, LoadedGood DEF GoodHistory
  <2> HIDE DEF more
  <2>4. f \in AnyFetch /\ f.got = more
    BY <2>2, <2>3 DEF AnyFetch
  <2> HIDE DEF f, h
  <2>5. h2 \in AnyHistory /\ h2.fetch = f /\ h2.pages = h.pages
    BY <2>2, <2>4 DEF AnyHistory
  <2> HIDE DEF h2
  <2>6. GoodHistory(h2, In(c), Excused, answered)
    BY <2>2, <2>3, <2>4, <2>5 DEF GoodHistory, Known
  <2>7. QED
    BY <1>1, <2>1, <2>5, <2>6
<1>4. ASSUME NEW c \in Chats, DeliverPage(c) PROVE IInv'
  <2> DEFINE h == history[c]
  <2>1. UNCHANGED <<server, socket, open, sending, ghosts>>
    BY <1>4 DEF DeliverPage
  <2>2. h \in AnyHistory /\ h.fetch \in AnyFetch /\ h.fetch.got \in Seq(AnyPage) /\ GoodHistory(h, In(c), Excused, answered)
    BY <1>2
  <2>3. h.fetch.got # <<>>
    BY <1>4, <2>2 DEF DeliverPage, GoodHistory
  <2>4. CASE GoesOn(h.fetch)
    <3> DEFINE f == [h.fetch EXCEPT !.stage = "asked"]
               h2 == [h EXCEPT !.fetch = f]
    <3>1. history' = [history EXCEPT ![c] = h2]
      BY <1>4, <2>4 DEF DeliverPage
    <3>2. f \in AnyFetch /\ f.got = h.fetch.got /\ f.stage = "asked"
      BY <2>2 DEF AnyFetch
    <3> HIDE DEF f, h
    <3>3. h2 \in AnyHistory /\ h2.fetch = f /\ h2.pages = h.pages
      BY <2>2, <3>2 DEF AnyHistory
    <3> HIDE DEF h2
    <3>4. GoodHistory(h2, In(c), Excused, answered)
      BY <2>2, <3>2, <3>3 DEF GoodHistory, Known
    <3>5. QED
      BY <1>1, <2>1, <3>1, <3>3, <3>4
  <2>5. CASE ~GoesOn(h.fetch)
    <3> DEFINE h2 == [NoHistory EXCEPT !.pages = h.fetch.got]
    <3>1. history' = [history EXCEPT ![c] = h2]
      BY <1>4, <2>5 DEF DeliverPage
    <3>2. NoHistory \in AnyHistory /\ NoHistory.fetch.got = <<>> /\ NoHistory.fetch.stage = "idle"
      BY NothingGood DEF NoHistory, NoFetch
    <3> HIDE DEF h
    <3>3. h2 \in AnyHistory /\ h2.pages = h.fetch.got /\ h2.fetch = NoHistory.fetch
      BY <2>2, <3>2 DEF AnyHistory
    <3> HIDE DEF h2
    <3>4. GoodHistory(h2, In(c), Excused, answered)
      BY <2>2, <2>3, <3>2, <3>3 DEF GoodHistory, Known
    <3>5. QED
      BY <1>1, <2>1, <3>1, <3>3, <3>4
  <2>6. QED
    BY <2>4, <2>5
<1>5. ASSUME NEW c \in Chats, FailPage(c) PROVE IInv'
  <2> DEFINE h == history[c]
             h2 == [h EXCEPT !.fetch = NoFetch, !.broken = TRUE]
  <2>1. UNCHANGED <<server, socket, open, sending, ghosts>>
    BY <1>5 DEF FailPage
  <2>2. h \in AnyHistory /\ GoodHistory(h, In(c), Excused, answered)
    BY <1>2
  <2>3. history' = [history EXCEPT ![c] = h2]
    BY <1>5 DEF FailPage
  <2>4. NoFetch \in AnyFetch /\ NoFetch.got = <<>> /\ NoFetch.stage = "idle"
    BY DEF NoFetch, AnyFetch
  <2> HIDE DEF h
  <2>5. h2 \in AnyHistory /\ h2.pages = h.pages /\ h2.fetch = NoFetch
    BY <2>2, <2>4 DEF AnyHistory
  <2> HIDE DEF h2
  <2>6. GoodHistory(h2, In(c), Excused, answered)
    BY <2>2, <2>4, <2>5 DEF GoodHistory, Known
  <2>7. QED
    BY <1>1, <2>1, <2>3, <2>5, <2>6
<1>6. ASSUME NEW c \in Chats, MarkAnswered(c) PROVE IInv'
  <2>1. history' = InvalidatedOpen(history) /\ UNCHANGED <<server, socket, open, sending, ghosts>>
    BY <1>6 DEF MarkAnswered
  <2>2. /\ history' \in [Chats -> AnyHistory]
        /\ \A d \in Chats : GoodHistory(history'[d], In(d), Excused, answered)
    BY <2>1, OpenGood DEF Types, PagesAreGood
  <2>3. PagesAreGood'
    BY <2>1, <2>2 DEF PagesAreGood, In, Excused, server, socket, ghosts
  <2>4. QED
    BY <2>1, <2>2, <2>3 DEF Types, NewsAreRecent, Recent, RoomFollowsView, server, socket, ghosts
<1>7. ASSUME NEW c \in Chats, FailMark(c) PROVE IInv'
  <2>1. PagesAreGood'
    BY <1>7 DEF FailMark, PagesAreGood, In, Excused, server, socket, ghosts
  <2>2. QED
    BY <1>7, <2>1 DEF FailMark, Types, NewsAreRecent, Recent, RoomFollowsView, server, socket, ghosts
<1>8. QED
  BY <1>3, <1>4, <1>5, <1>6, <1>7 DEF Fetches

\* A step that changes nothing.
LEMMA StutterStep == ASSUME IInv, UNCHANGED vars PROVE IInv'
BY DEF IInv, vars, server, socket, budget, ghosts, Types, NewsAreRecent, Recent, PagesAreGood, In, Excused,
       RoomFollowsView

-----------------------------------------------------------------------------
(* The theorems. *)

\* What is cached, fetched, announced and answered agrees, whatever the order of
\* answers, events and refetches.
THEOREM PagesFollowRows == Spec => []IInv
<1>1. Init => IInv
  BY InitGood
<1>2. IInv /\ [Next]_vars => IInv'
  BY UserStep, SocketStep, MessagesStep, FetchesStep, StutterStep DEF Next
<1>3. QED
  BY <1>1, <1>2, PTL DEF Spec

\* No message is twice on the first page of a chat (prependMessageToHistory).
THEOREM NoMessageTwice == Spec => []NoDuplicates
<1>1. IInv => NoDuplicates
  <2> SUFFICES ASSUME IInv, NEW c \in Chats, Known(history[c]) PROVE IsInjective(history[c].pages[1].ids)
    BY DEF NoDuplicates
  <2> DEFINE ids == history[c].pages[1].ids
  <2>1. WellOrdered(ids, In(c))
    BY DEF IInv, PagesAreGood, GoodHistory, GoodPage
  <2> HIDE DEF ids
  <2>2. ASSUME NEW i \in DOMAIN ids, NEW j \in DOMAIN ids, ids[i] = ids[j] PROVE i = j
    <3>1. i \in Nat /\ j \in Nat /\ ~(i < j) /\ ~(j < i)
      BY <2>1, <2>2 DEF WellOrdered
    <3>2. QED
      BY <3>1
  <2>3. IsInjective(ids)
    BY <2>2 DEF IsInjective
  <2>4. QED
    BY <2>3 DEF ids
<1>2. QED
  BY <1>1, PagesFollowRows, PTL

\* Once its joins are handled, a connected tab is in the room of the chat it shows
\* (useChatSocket).
THEOREM RoomIsJoined == Spec => []RoomFollowsView
<1>1. IInv => RoomFollowsView
  BY DEF IInv
<1>2. QED
  BY <1>1, PagesFollowRows, PTL

\* A message of the newest page that is not on the cached one was missed by its
\* broadcast, and is none whose POST was answered in the chat
\* (applyIncomingMessage, use-chat-mutations).
THEOREM RoadsLoseNothing == Spec => []NothingElseIsLost
<1>1. IInv => NothingElseIsLost
  <2> SUFFICES ASSUME IInv, NEW c \in Chats, Known(history[c]), Heard(c),
                      NEW m \in Range(ServerPage(c, 1).ids) \ unsaid
               PROVE  m \in Range(history[c].pages[1].ids) \/ (m \in missed /\ m \notin answered)
    BY DEF NothingElseIsLost
  <2> DEFINE ids == history[c].pages[1].ids
  <2>1. Types /\ GoodPage(ids, In(c), Excused, answered)
    BY DEF IInv, PagesAreGood, GoodHistory
  <2> HIDE DEF ids
  <2>2. m \in In(c) /\ m \in Nat /\ Newer(c, m) < PageSize
    BY <2>1, NewestPage, ChatIsFinite
  <2>3. CASE m > Longago
    <3>1. m \in Range(ids) \cup Excused /\ (m \in answered => m \in Range(ids))
      BY <2>1, <2>2, <2>3 DEF GoodPage, Complete
    <3>2. m \notin Range(events)
      BY <2>2 DEF Heard, In, Range
    <3>3. QED
      BY <3>1, <3>2 DEF Excused, ids
  <2>4. CASE ~(m > Longago)
    <3>1. ASSUME Len(ids) = PageSize, \A i \in DOMAIN ids : ids[i] > m PROVE FALSE
      <4> DEFINE places == 1..PageSize
                 later  == Above(In(c), m)
      <4>1. /\ ids \in Seq(Nat) /\ DOMAIN ids = places
            /\ \A i \in places : ids[i] \in In(c) /\ ids[i] > m
            /\ \A i, j \in places : i < j => ids[i] # ids[j]
        <5>1. WellOrdered(ids, In(c))
          BY <2>1 DEF GoodPage
        <5>2. ids \in Seq(Nat) /\ DOMAIN ids = places
          BY <3>1, <5>1 DEF WellOrdered
        <5>3. QED
          BY <3>1, <5>1, <5>2 DEF WellOrdered
      <4>2. \A i \in places : ids[i] \in later
        BY <4>1 DEF Above
      <4>3. ASSUME NEW i \in places, NEW j \in places, ids[i] = ids[j] PROVE i = j
        <5>1. ~(i < j) /\ ~(j < i)
          BY <4>1, <4>3
        <5>2. QED
          BY <5>1, Numbers
      <4>4. ids = [i \in places |-> ids[i]]
        BY <4>1
      <4> HIDE DEF places, later
      <4>5. ids \in [places -> later]
        BY <4>2, <4>4
      <4>6. ids \in Injection(places, later)
        BY <4>3, <4>5, <4>1 DEF Injection, IsInjective
      <4>7. IsFiniteSet(later)
        <5>1. later \in SUBSET In(c)
          BY DEF later, Above
        <5>2. QED
          BY <2>1, <5>1, ChatIsFinite, FS_Subset
      <4>8. Cardinality(places) <= Cardinality(later)
        BY <4>6, <4>7, FS_Injection
      <4>9. Cardinality(places) = PageSize
        <5>1. Cardinality(1..PageSize) = IF 1 > PageSize THEN 0 ELSE PageSize - 1 + 1
          BY Numbers, FS_Interval
        <5>2. QED
          BY <5>1, Numbers DEF places
      <4>10. Cardinality(later) = Newer(c, m)
        BY DEF later, Above, Newer
      <4>11. Newer(c, m) \in Nat
        BY <2>1, <2>2, NewerDescends
      <4>12. QED
        BY <2>2, <4>8, <4>9, <4>10, <4>11, Numbers
    <3>2. m \in Range(ids)
      <4>1. m <= Longago
        BY <2>2, <2>4, Numbers
      <4>2. QED
        BY <2>1, <2>2, <3>1, <4>1 DEF GoodPage, WellOrdered
    <3>3. QED
      BY <3>2 DEF ids
  <2>5. QED
    BY <2>3, <2>4
<1>2. QED
  BY <1>1, PagesFollowRows, PTL

=============================================================================
