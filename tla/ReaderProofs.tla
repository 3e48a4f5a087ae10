----------------------------- MODULE ReaderProofs -----------------------------
(***************************************************************************)
(* Proofs about reading page by page, for any number of concurrent         *)
(* requests, any page limits and any sequence of polls.                    *)
(***************************************************************************)
EXTENDS ReaderInvariant, HandlersProofs, SequenceTheorems, FiniteSetTheorems

(***************************************************************************)
(* Sorting.  The rank of an element is the number of those below it, and   *)
(* counting shows that the ranks are 1..n: no induction is needed.         *)
(***************************************************************************)
LEMMA RankIsOneToOne ==
    ASSUME NEW S, IsFiniteSet(S), NEW ord \in [S -> Nat],
           \A i, j \in S : ord[i] = ord[j] => i = j
    PROVE  \E rank \in Bijection(S, 1..Cardinality(S)) :
              \A i, j \in S : ord[i] < ord[j] => rank[i] < rank[j]
<1> DEFINE n == Cardinality(S)
           Below(i) == {j \in S : ord[j] < ord[i]}
           rank == [i \in S |-> Cardinality(Below(i)) + 1]
<1>1. n \in Nat /\ IsFiniteSet(1..n) /\ Cardinality(1..n) = n
  BY FS_CardinalityType, FS_Interval
<1>2. ASSUME NEW i \in S
      PROVE  /\ IsFiniteSet(Below(i)) /\ Cardinality(Below(i)) \in Nat
             /\ Cardinality(Below(i)) < n
  <2>1. Below(i) \in SUBSET S /\ i \notin Below(i)
    OBVIOUS
  <2>2. IsFiniteSet(Below(i)) /\ Cardinality(Below(i)) <= n /\ Cardinality(Below(i)) # n
    BY <2>1, FS_Subset
  <2> QED
    BY <1>1, <2>2, FS_CardinalityType
<1>3. ASSUME NEW i \in S, NEW j \in S, ord[i] < ord[j]
      PROVE  Cardinality(Below(i)) < Cardinality(Below(j))
  <2>1. Below(i) \in SUBSET Below(j) /\ i \in Below(j) /\ i \notin Below(i)
    BY <1>3
  <2>2. /\ Cardinality(Below(i)) <= Cardinality(Below(j))
        /\ Cardinality(Below(i)) # Cardinality(Below(j))
    BY <1>2, <2>1, FS_Subset
  <2>3. Cardinality(Below(i)) \in Nat /\ Cardinality(Below(j)) \in Nat
    BY <1>2
  <2> HIDE DEF Below
  <2> QED
    BY <2>2, <2>3
<1> HIDE DEF Below
<1>4. rank \in [S -> 1..n]
  BY <1>1, <1>2
<1>5. ASSUME NEW i \in S, NEW j \in S, ord[i] < ord[j]
      PROVE  rank[i] < rank[j]
  BY <1>2, <1>3, <1>5
<1> HIDE DEF rank
<1>6. ASSUME NEW i \in S, NEW j \in S, rank[i] = rank[j]
      PROVE  i = j
  <2>1. ord[i] \in Nat /\ ord[j] \in Nat /\ rank[i] \in 1..n
    BY <1>4
  <2>2. ~(ord[i] < ord[j]) /\ ~(ord[j] < ord[i])
    BY <1>1, <1>5, <1>6, <2>1
  <2> QED
    BY <2>1, <2>2
<1>7. rank \in Injection(S, 1..n)
  BY <1>4, <1>6 DEF Injection, IsInjective
<1>8. rank \in Surjection(S, 1..n)
  BY <1>1, <1>7, FS_Injection
<1> QED
  BY <1>5, <1>7, <1>8 DEF Bijection

LEMMA SortedExists ==
    ASSUME NEW S, IsFiniteSet(S), NEW ord \in [S -> Nat],
           \A i, j \in S : ord[i] = ord[j] => i = j
    PROVE  \E s \in Bijection(1..Cardinality(S), S) :
              \A a, b \in 1..Cardinality(S) : a < b => ord[s[a]] < ord[s[b]]
<1> DEFINE n == Cardinality(S)
<1>1. PICK rank \in Bijection(S, 1..n) :
         \A i, j \in S : ord[i] < ord[j] => rank[i] < rank[j]
  BY RankIsOneToOne
<1>2. /\ rank \in [S -> 1..n]
      /\ \A i, j \in S : rank[i] = rank[j] => i = j
      /\ \A k \in 1..n : \E i \in S : rank[i] = k
  BY <1>1 DEF Bijection, Injection, Surjection, IsInjective
<1> DEFINE s == [k \in 1..n |-> CHOOSE i \in S : rank[i] = k]
<1>3. \A k \in 1..n : s[k] \in S /\ rank[s[k]] = k
  BY <1>2
<1>4. s \in [1..n -> S]
  BY <1>3
<1> HIDE DEF s
<1>5. \A i \in S : s[rank[i]] = i
  BY <1>2, <1>3
<1>6. s \in Bijection(1..n, S)
  BY <1>2, <1>3, <1>4, <1>5 DEF Bijection, Injection, Surjection, IsInjective
<1>7. ASSUME NEW a \in 1..n, NEW b \in 1..n, a < b
      PROVE  ord[s[a]] < ord[s[b]]
  <2>1. ord[s[a]] \in Nat /\ ord[s[b]] \in Nat /\ s[a] \in S /\ s[b] \in S
    BY <1>3
  <2>2. ord[s[a]] # ord[s[b]]
    BY <1>3, <1>7, <2>1
  <2>3. ~(ord[s[b]] < ord[s[a]])
    BY <1>1, <1>3, <1>7, <2>1
  <2> QED
    BY <2>1, <2>2, <2>3
<1> QED
  BY <1>6, <1>7

\* memory.rs, sort_by_key: the result is ascending and has each element once.
LEMMA SortedByOrder ==
    ASSUME NEW S, IsFiniteSet(S), \A i \in S : messages[i].order \in Nat,
           \A i, j \in S : messages[i].order = messages[j].order => i = j
    PROVE  /\ Ascending(S) \in [1..Cardinality(S) -> S]
           /\ \A i \in S : \E a \in 1..Cardinality(S) : Ascending(S)[a] = i
           /\ \A a, b \in 1..Cardinality(S) :
                 a < b => ByOrder(Ascending(S)[a], Ascending(S)[b])
<1> DEFINE n == Cardinality(S)
           ord == [i \in S |-> messages[i].order]
           Sorted(s) == \A a, b \in DOMAIN s : a < b => ByOrder(s[a], s[b])
<1>1. n \in Nat /\ IsFiniteSet(1..n) /\ Cardinality(1..n) = n
  BY FS_CardinalityType, FS_Interval
<1>2. \E s \in [1..n -> S] : Sorted(s)
  <2>1. ord \in [S -> Nat] /\ \A i, j \in S : ord[i] = ord[j] => i = j
    OBVIOUS
  <2>2. PICK s \in Bijection(1..n, S) : \A a, b \in 1..n : a < b => ord[s[a]] < ord[s[b]]
    BY <2>1, SortedExists
  <2>3. s \in [1..n -> S]
    BY <2>2 DEF Bijection, Surjection
  <2> QED
    BY <2>2, <2>3 DEF ByOrder
<1> DEFINE s == Ascending(S)
<1>3. s \in [1..n -> S] /\ Sorted(s)
  BY <1>2 DEF Ascending
<1> HIDE DEF s
<1>4. \A a, b \in 1..n : s[a] = s[b] => a = b
  <2> SUFFICES ASSUME NEW a \in 1..n, NEW b \in 1..n, s[a] = s[b], a < b
               PROVE  FALSE
    BY <1>1
  <2>1. messages[s[a]].order < messages[s[b]].order /\ messages[s[a]].order \in Nat
    BY <1>3 DEF ByOrder
  <2> QED
    BY <2>1
<1>5. s \in Injection(1..n, S)
  BY <1>3, <1>4 DEF Injection, IsInjective
<1>6. s \in Surjection(1..n, S)
  BY <1>1, <1>5, FS_Injection
<1> QED
  BY <1>3, <1>6 DEF Surjection, s

(***************************************************************************)
(* What a page contains.                                                   *)
(***************************************************************************)
LEMMA Beginning ==
    ASSUME NEW S, NEW s \in Seq(S), NEW limit \in Nat
    PROVE  /\ FirstOf(s, limit) \in Seq(S)
           /\ Len(FirstOf(s, limit)) = IF Len(s) < limit THEN Len(s) ELSE limit
           /\ \A a \in 1..Len(FirstOf(s, limit)) : FirstOf(s, limit)[a] = s[a]
<1> DEFINE m == IF Len(s) < limit THEN Len(s) ELSE limit
<1>1. m \in Nat /\ m <= Len(s)
  BY LenProperties
<1>2. FirstOf(s, limit) = SubSeq(s, 1, m)
  BY DEF FirstOf
<1>3. \A a \in 1..m : s[a] \in S
  BY <1>1, ElementOfSeq
<1> HIDE DEF m
<1>4. /\ SubSeq(s, 1, m) \in Seq(S)
      /\ Len(SubSeq(s, 1, m)) = m
      /\ \A a \in 1..m : SubSeq(s, 1, m)[a] = s[a]
  BY <1>1, <1>3, SubSeqProperties
<1> QED
  BY <1>2, <1>4 DEF m

\* memory.rs, next_order: within a group the messages can be told apart by order.
LEMMA OrdersOfGroup ==
    ASSUME HandlersInv, NEW g \in Groups
    PROVE  /\ IsFiniteSet(InGroup(g))
           /\ \A i \in InGroup(g) : i \in Stored /\ messages[i].order \in Nat
           /\ \A i, j \in InGroup(g) : messages[i].order = messages[j].order => i = j
<1>1. InGroup(g) \in SUBSET MessageIds /\ \A i \in InGroup(g) : i \in Stored
  BY DEF InGroup, Stored
<1>2. IsFiniteSet(InGroup(g))
  BY <1>1, FS_Subset, PagingAssumption
<1>3. \A i \in InGroup(g) : messages[i].order \in Nat
  BY <1>1, StoredMessage DEF HandlersInv, Message
<1>4. \A i, j \in InGroup(g) : messages[i].order = messages[j].order => i = j
  BY <1>1 DEF HandlersInv, ClientInv, OrdersUnique, InGroup
<1> QED
  BY <1>1, <1>2, <1>3, <1>4

\* handlers.rs, get_messages: the page is ascending, what it leaves out is above
\* all it has, and has_next tells whether anything was left out.
LEMMA PageContents ==
    ASSUME HandlersInv, NEW g \in Groups, NEW after, NEW limit \in Nat \cup {None}
    PROVE  LET page == get_messages(g, after, None, limit)
               found == Matching(g, after, None)
           IN  /\ page.messages \in Seq(found)
               /\ \A a, b \in DOMAIN page.messages :
                     a < b => ByOrder(page.messages[a], page.messages[b])
               /\ \A i \in found \ ToSet(page.messages) :
                     \A a \in DOMAIN page.messages : ByOrder(page.messages[a], i)
               /\ page.has_next \in BOOLEAN
               /\ page.has_next <=> \E i \in found : i \notin ToSet(page.messages)
<1> DEFINE found == Matching(g, after, None)
           n == Cardinality(found)
           s == Ascending(found)
           l == PageLimit(limit)
           fetched == FirstOf(s, l + 1)
           page == FirstOf(fetched, l)
           size == IF n < l THEN n ELSE l
           m == IF n < l + 1 THEN n ELSE l + 1
<1>1. l \in Nat
  BY PagingAssumption DEF PageLimit
<1>2. found \in SUBSET InGroup(g)
  BY DEF Matching
<1>3. IsFiniteSet(found) /\ n \in Nat
  BY <1>2, OrdersOfGroup, FS_Subset, FS_CardinalityType
<1>4. /\ \A i \in found : messages[i].order \in Nat
      /\ \A i, j \in found : messages[i].order = messages[j].order => i = j
  BY <1>2, OrdersOfGroup
<1>5. get_messages(g, after, None, limit) = [messages |-> page, has_next |-> Len(fetched) > l]
  BY DEF get_messages, get_messages_by_group
<1> HIDE DEF found, l
<1>6. /\ s \in [1..n -> found]
      /\ \A i \in found : \E a \in 1..n : s[a] = i
      /\ \A a, b \in 1..n : a < b => ByOrder(s[a], s[b])
  BY <1>3, <1>4, SortedByOrder
<1> HIDE DEF n, s
<1>7. s \in Seq(found) /\ Len(s) = n
  BY <1>3, <1>6
<1> HIDE DEF fetched, page
<1>8. /\ fetched \in Seq(found) /\ Len(fetched) = m
      /\ \A a \in 1..m : fetched[a] = s[a]
  BY <1>1, <1>7, Beginning DEF fetched
<1>9. /\ page \in Seq(found) /\ Len(page) = size
      /\ \A a \in 1..size : page[a] = s[a]
  <2>1. size = IF m < l THEN m ELSE l
    BY <1>1, <1>3
  <2>2. \A a \in 1..size : a \in 1..m
    BY <1>1, <1>3
  <2> HIDE DEF m, size
  <2>3. /\ page \in Seq(found) /\ Len(page) = size
        /\ \A a \in 1..size : page[a] = fetched[a]
    BY <1>1, <1>8, <2>1, Beginning DEF page
  <2> QED
    BY <1>8, <2>2, <2>3
<1>10. \A a \in 1..size : a \in 1..n
  BY <1>1, <1>3
<1>11. ToSet(page) = {s[a] : a \in 1..size}
  BY <1>9 DEF ToSet
<1>12. ASSUME NEW i \in found, i \notin ToSet(page)
       PROVE  /\ \A a \in 1..size : ByOrder(page[a], i)
              /\ n > l
  <2>1. PICK b \in 1..n : s[b] = i
    BY <1>6
  <2>2. b \notin 1..size
    BY <1>11, <1>12, <2>1
  <2>3. b > size /\ n > l
    BY <1>1, <1>3, <2>2
  <2> QED
    BY <1>6, <1>9, <1>10, <2>1, <2>3
<1>13. ASSUME n > l
       PROVE  \E i \in found : i \notin ToSet(page)
  <2>1. size = l /\ l + 1 \in 1..n
    BY <1>1, <1>3, <1>13
  <2>2. \A a \in 1..size : ByOrder(s[a], s[l + 1])
    BY <1>1, <1>6, <1>10, <2>1
  <2>3. s[l + 1] \in found
    BY <1>6, <2>1
  <2>4. \A a \in 1..size : s[a] # s[l + 1]
    BY <1>4, <2>2, <2>3 DEF ByOrder
  <2> QED
    BY <1>11, <2>3, <2>4
<1>14. Len(fetched) > l <=> n > l
  BY <1>1, <1>3, <1>8
<1>15. \A a, b \in 1..size : a < b => ByOrder(page[a], page[b])
  BY <1>6, <1>9, <1>10
<1> DEFINE answer == get_messages(g, after, None, limit)
<1>16. answer.messages = page /\ answer.has_next = (Len(fetched) > l)
  BY <1>5
<1> HIDE DEF answer
<1>17. answer.has_next \in BOOLEAN
  BY <1>16
<1>18. answer.has_next <=> \E i \in found : i \notin ToSet(page)
  BY <1>12, <1>13, <1>14, <1>16
<1>19. \A i \in found \ ToSet(page) : \A a \in DOMAIN page : ByOrder(page[a], i)
  BY <1>9, <1>12
<1> QED
  BY <1>9, <1>15, <1>16, <1>17, <1>18, <1>19 DEF found, answer

(***************************************************************************)
(* The position of the reader.                                             *)
(***************************************************************************)
\* The last message received is the highest of them.
LEMMA PositionIsHighest ==
    ASSUME HandlersInv, ReceivedOfGroup, ReceivedInOrder, NEW g \in Groups,
           received[g] \in Seq(MessageIds)
    PROVE  /\ received[g] = <<>> => Position(g) = None
           /\ received[g] # <<>> =>
                 /\ Position(g) # None /\ Position(g) \in Nat
                 /\ Last(received[g]) \in InGroup(g)
                 /\ \A a \in DOMAIN received[g] :
                       /\ messages[received[g][a]].order \in Nat
                       /\ messages[received[g][a]].order <= Position(g)
<1> DEFINE r == received[g]
<1>1. r = <<>> => Position(g) = None
  BY DEF Position
<1>2. ASSUME r # <<>>
      PROVE  /\ Position(g) # None /\ Position(g) \in Nat
             /\ Last(r) \in InGroup(g)
             /\ \A a \in DOMAIN r : messages[r[a]].order \in Nat
                                    /\ messages[r[a]].order <= Position(g)
  <2>1. Len(r) \in DOMAIN r /\ DOMAIN r = 1..Len(r) /\ Len(r) \in Nat
    BY <1>2, EmptySeq, LenProperties
  <2>2. Position(g) = messages[r[Len(r)]].order
    BY <1>2 DEF Position, Last
  <2>3. \A a \in DOMAIN r : r[a] \in InGroup(g) /\ messages[r[a]].order \in Nat
    BY OrdersOfGroup DEF ReceivedOfGroup
  <2>4. \A a \in DOMAIN r : a < Len(r) => messages[r[a]].order < Position(g)
    BY <2>1, <2>2 DEF ReceivedInOrder, ByOrder
  <2>5. \A a \in DOMAIN r : messages[r[a]].order <= Position(g)
    BY <2>1, <2>2, <2>3, <2>4
  <2>6. Last(r) \in InGroup(g)
    BY <2>1, <2>3 DEF Last
  <2> QED
    BY <2>1, <2>2, <2>3, <2>5, <2>6, PagingAssumption
<1> QED
  BY <1>1, <1>2

\* What a poll of group g adds: everything in the page is above the position,
\* and what the page leaves out is above that again.
Answered(g, page) ==
    /\ received' = [received EXCEPT ![g] = received[g] \o page]
    /\ more'[g] \in BOOLEAN /\ more' = [more EXCEPT ![g] = more'[g]]
    /\ \A a \in DOMAIN page :
          /\ page[a] \in InGroup(g)
          /\ Position(g) # None => messages[page[a]].order > Position(g)
    /\ \A a, b \in DOMAIN page : a < b => ByOrder(page[a], page[b])
    /\ \A i \in InGroup(g) \ ToSet(page) :
          \/ Position(g) # None /\ messages[i].order <= Position(g)
          \/ \A a \in DOMAIN page : ByOrder(page[a], i)
    /\ more'[g] <=> \E i \in InGroup(g) \ ToSet(page) :
          Position(g) # None => messages[i].order > Position(g)

LEMMA PolledPage ==
    ASSUME IInv, NEW g \in Groups, NEW limit \in Limits, Poll(g, limit)
    PROVE  \E page \in Seq(MessageIds) : Answered(g, page)
<1> DEFINE answer == get_messages(g, Position(g), None, limit)
           found == Matching(g, Position(g), None)
           page == answer.messages
<1>1. limit \in Nat \cup {None}
  BY ReaderAssumption
<1>2. /\ page \in Seq(found)
      /\ \A a, b \in DOMAIN page : a < b => ByOrder(page[a], page[b])
      /\ \A i \in found \ ToSet(page) : \A a \in DOMAIN page : ByOrder(page[a], i)
      /\ answer.has_next \in BOOLEAN
      /\ answer.has_next <=> \E i \in found : i \notin ToSet(page)
  BY <1>1, PageContents DEF IInv
<1>3. /\ received' = [received EXCEPT ![g] = received[g] \o page]
      /\ more' = [more EXCEPT ![g] = answer.has_next]
  BY DEF Poll
<1>4. more'[g] = answer.has_next
  BY <1>3 DEF IInv, TypeOK
<1>5. \A i : i \in found <=>
         i \in InGroup(g) /\ (Position(g) # None => messages[i].order > Position(g))
  BY DEF Matching
<1>6. \A i \in InGroup(g) : i \in MessageIds /\ messages[i].order \in Nat
  BY OrdersOfGroup DEF IInv, InGroup, Stored
<1>7. Position(g) # None => Position(g) \in Nat
  BY PositionIsHighest DEF IInv, TypeOK
<1> HIDE DEF answer, found
<1>8. \A a \in DOMAIN page : page[a] \in found
  BY <1>2, ElementOfSeq, LenProperties
<1>9. page \in Seq(MessageIds)
  <2>1. found \subseteq MessageIds
    BY <1>5, <1>6
  <2> QED
    BY <1>2, <2>1
<1>10. \A i \in InGroup(g) \ ToSet(page) :
          \/ Position(g) # None /\ messages[i].order <= Position(g)
          \/ \A a \in DOMAIN page : ByOrder(page[a], i)
  BY <1>2, <1>5, <1>6, <1>7
<1>11. more'[g] <=> \E i \in InGroup(g) \ ToSet(page) :
          Position(g) # None => messages[i].order > Position(g)
  BY <1>2, <1>4, <1>5
<1> QED
  BY <1>2, <1>3, <1>4, <1>5, <1>8, <1>9, <1>10, <1>11 DEF Answered

\* Putting a page behind what was received.
LEMMA Appended ==
    ASSUME NEW S, NEW r \in Seq(S), NEW page \in Seq(S)
    PROVE  LET q == r \o page
           IN  /\ q \in Seq(S) /\ Len(q) = Len(r) + Len(page)
               /\ \A a \in DOMAIN q : \/ a \in DOMAIN r /\ q[a] = r[a]
                                      \/ /\ a > Len(r) /\ a - Len(r) \in DOMAIN page
                                         /\ q[a] = page[a - Len(r)]
               /\ ToSet(q) = ToSet(r) \cup ToSet(page)
               /\ page = <<>> => q = r
               /\ page # <<>> => q # <<>> /\ Last(q) = Last(page)
<1> DEFINE q == r \o page
<1>1. /\ q \in Seq(S) /\ Len(q) = Len(r) + Len(page)
      /\ \A a \in 1..Len(r) + Len(page) :
            q[a] = IF a <= Len(r) THEN r[a] ELSE page[a - Len(r)]
  BY ConcatProperties
<1>2. page = <<>> => q = r
  BY ConcatEmptySeq
<1>3. /\ Len(r) \in Nat /\ DOMAIN r = 1..Len(r)
      /\ Len(page) \in Nat /\ DOMAIN page = 1..Len(page)
      /\ page # <<>> => Len(page) # 0
  BY LenProperties, EmptySeq
<1> HIDE DEF q
<1>4. DOMAIN q = 1..Len(r) + Len(page)
  BY <1>1, LenProperties
<1>5. \A a \in DOMAIN q : \/ a \in DOMAIN r /\ q[a] = r[a]
                          \/ /\ a > Len(r) /\ a - Len(r) \in DOMAIN page
                             /\ q[a] = page[a - Len(r)]
  BY <1>1, <1>3, <1>4
<1>6. ToSet(q) \subseteq ToSet(r) \cup ToSet(page)
  BY <1>5 DEF ToSet
<1>7. ToSet(r) \subseteq ToSet(q)
  <2>1. \A a \in DOMAIN r : a \in DOMAIN q /\ q[a] = r[a]
    BY <1>1, <1>3, <1>4
  <2> QED
    BY <2>1 DEF ToSet
<1>8. ToSet(page) \subseteq ToSet(q)
  <2>1. \A a \in DOMAIN page : Len(r) + a \in DOMAIN q /\ q[Len(r) + a] = page[a]
    BY <1>1, <1>3, <1>4
  <2> QED
    BY <2>1 DEF ToSet
<1>9. page # <<>> => q # <<>> /\ Last(q) = Last(page)
  <2> SUFFICES ASSUME page # <<>> PROVE q # <<>> /\ Last(q) = Last(page)
    OBVIOUS
  <2>1. Len(q) # 0 /\ q[Len(q)] = page[Len(page)]
    BY <1>1, <1>3
  <2> QED
    BY <1>1, <2>1, EmptySeq DEF Last
<1> QED
  BY <1>1, <1>2, <1>5, <1>6, <1>7, <1>8, <1>9 DEF q

\* A poll changes nothing of the storage.
LEMMA PollFrame ==
    ASSUME NEW g \in Groups, NEW limit, Poll(g, limit)
    PROVE  /\ UNCHANGED <<appVars, handlerVars>> /\ messages' = messages /\ late' = late
           /\ Stored' = Stored
           /\ \A h : InGroup(h)' = InGroup(h)
           /\ \A i, j : ByOrder(i, j)' <=> ByOrder(i, j)
           /\ \A i : contains_key(i)' <=> contains_key(i)
<1>1. UNCHANGED <<appVars, handlerVars>> /\ messages' = messages /\ late' = late
  BY DEF Poll, appVars, storageVars
<1> QED
  BY <1>1 DEF Stored, InGroup, ByOrder, contains_key

\* handlers.rs, get_messages: a page goes on where the last one ended.
LEMMA PollKeepsInv ==
    ASSUME IInv, NEW g \in Groups, NEW limit \in Limits, Poll(g, limit)
    PROVE  IInv'
<1> DEFINE r == received[g]
<1>0. PICK page \in Seq(MessageIds) : Answered(g, page)
  BY PolledPage
<1>1. /\ received' = [received EXCEPT ![g] = r \o page]
      /\ more'[g] \in BOOLEAN /\ more' = [more EXCEPT ![g] = more'[g]]
      /\ \A a \in DOMAIN page :
            /\ page[a] \in InGroup(g)
            /\ Position(g) # None => messages[page[a]].order > Position(g)
      /\ \A a, b \in DOMAIN page : a < b => ByOrder(page[a], page[b])
      /\ \A i \in InGroup(g) \ ToSet(page) :
            \/ Position(g) # None /\ messages[i].order <= Position(g)
            \/ \A a \in DOMAIN page : ByOrder(page[a], i)
  BY <1>0 DEF Answered
<1> DEFINE q == r \o page
<1>2. r \in Seq(MessageIds) /\ DOMAIN r = 1..Len(r) /\ Len(r) \in Nat
      /\ DOMAIN page = 1..Len(page) /\ Len(page) \in Nat
  BY LenProperties DEF IInv, TypeOK
<1>3. /\ q \in Seq(MessageIds)
      /\ \A a \in DOMAIN q : \/ a \in DOMAIN r /\ q[a] = r[a]
                             \/ /\ a > Len(r) /\ a - Len(r) \in DOMAIN page
                                /\ q[a] = page[a - Len(r)]
      /\ ToSet(q) = ToSet(r) \cup ToSet(page)
      /\ page = <<>> => q = r
      /\ page # <<>> => q # <<>> /\ Last(q) = Last(page)
  BY <1>2, Appended
<1>4. received'[g] = q /\ \A h \in Groups \ {g} : received'[h] = received[h]
  BY <1>1 DEF IInv, TypeOK
<1>5. DOMAIN q = 1..Len(q) /\ Len(q) \in Nat
  BY <1>3, LenProperties
<1> HIDE DEF q
<1>6. /\ HandlersInv' /\ messages' = messages /\ late' = late
      /\ \A h : InGroup(h)' = InGroup(h)
      /\ \A i, j : ByOrder(i, j)' <=> ByOrder(i, j)
      /\ \A i : contains_key(i)' <=> contains_key(i)
  BY PollFrame, HandlersFrame DEF IInv
<1>7. /\ r = <<>> => Position(g) = None
      /\ r # <<>> =>
            /\ Position(g) # None /\ Position(g) \in Nat
            /\ \A a \in DOMAIN r : messages[r[a]].order \in Nat
                                   /\ messages[r[a]].order <= Position(g)
  BY <1>2, PositionIsHighest DEF IInv
<1>8. \A i \in InGroup(g) : messages[i].order \in Nat
  BY OrdersOfGroup DEF IInv
<1>9. TypeOK'
  BY <1>1, <1>3, <1>4, <1>6 DEF IInv, TypeOK, HandlersInv
<1>10. ReceivedOfGroup'
  BY <1>1, <1>3, <1>4, <1>6 DEF IInv, ReceivedOfGroup
<1>11. ReceivedInOrder'
  <2>1. ASSUME NEW a \in DOMAIN q, NEW b \in DOMAIN q, a < b
        PROVE  ByOrder(q[a], q[b])
    <3>1. CASE b \in DOMAIN r /\ q[b] = r[b]
      <4>1. a \in DOMAIN r /\ q[a] = r[a]
        BY <1>2, <1>3, <1>5, <2>1, <3>1
      <4> QED
        BY <2>1, <3>1, <4>1 DEF IInv, ReceivedInOrder
    <3>2. CASE b - Len(r) \in DOMAIN page /\ q[b] = page[b - Len(r)] /\ a \in DOMAIN r
               /\ q[a] = r[a]
      <4>1. r # <<>>
        BY <3>2
      <4> QED
        BY <1>1, <1>7, <1>8, <3>2, <4>1 DEF ByOrder
    <3>3. CASE /\ b - Len(r) \in DOMAIN page /\ q[b] = page[b - Len(r)]
               /\ a - Len(r) \in DOMAIN page /\ q[a] = page[a - Len(r)]
      <4>1. a - Len(r) < b - Len(r)
        BY <1>2, <1>5, <2>1
      <4> QED
        BY <1>1, <3>3, <4>1
    <3> QED
      BY <1>3, <3>1, <3>2, <3>3
  <2> QED
    BY <1>4, <1>6, <2>1 DEF IInv, ReceivedInOrder
\* The new position is that of the page's last message, or the old one.
<1>12. /\ page = <<>> => Position(g)' = Position(g)
       /\ page # <<>> =>
             /\ Len(page) \in DOMAIN page
             /\ Position(g)' = messages[page[Len(page)]].order
       /\ \A h \in Groups \ {g} : Position(h)' = Position(h)
  <2>1. page # <<>> => Len(page) \in DOMAIN page
    BY <1>2, EmptySeq
  <2> QED
    BY <1>3, <1>4, <1>6, <2>1 DEF Position, Last
<1>13. \A n : Passed(g, n) /\ n \in Nat => Passed(g, n)'
  <2> SUFFICES ASSUME NEW n \in Nat, Passed(g, n) PROVE Passed(g, n)'
    OBVIOUS
  <2>1. Position(g) # None /\ n <= Position(g) /\ Position(g) \in Nat
    BY <1>7 DEF Passed
  <2>2. page # <<>> => Position(g)' \in Nat /\ Position(g)' > Position(g)
    BY <1>1, <1>8, <1>12, <2>1
  <2> QED
    BY <1>12, <2>1, <2>2, PagingAssumption DEF Passed
<1>14. \A h \in Groups \ {g} : \A n : Passed(h, n)' <=> Passed(h, n)
  BY <1>12 DEF Passed
<1>15. NothingSkipped'
  <2>1. ASSUME NEW i \in InGroup(g) \ late, Passed(g, messages[i].order)'
        PROVE  i \in ToSet(q)
    <3>1. CASE Position(g) # None /\ messages[i].order <= Position(g)
      BY <1>3, <2>1, <3>1 DEF IInv, NothingSkipped, Passed
    <3>2. CASE ~(Position(g) # None /\ messages[i].order <= Position(g))
      <4>1. page # <<>>
        BY <1>6, <1>12, <2>1, <3>2 DEF Passed
      <4>2. messages[i].order <= messages[page[Len(page)]].order
        BY <1>6, <1>12, <2>1, <4>1 DEF Passed
      <4>3. ~ByOrder(page[Len(page)], i)
        BY <1>1, <1>8, <1>12, <2>1, <4>1, <4>2 DEF ByOrder
      <4> QED
        BY <1>1, <1>3, <1>12, <2>1, <3>2, <4>1, <4>3
    <3> QED
      BY <3>1, <3>2
  <2>2. ASSUME NEW h \in Groups \ {g}, NEW i \in InGroup(h) \ late,
               Passed(h, messages[i].order)'
        PROVE  i \in ToSet(received[h])
    BY <1>6, <1>14, <2>2 DEF IInv, NothingSkipped
  <2>3. \A h : ToSet(received[h])' = ToSet(received'[h])
    BY DEF ToSet
  <2> QED
    BY <1>4, <1>6, <2>1, <2>2, <2>3 DEF NothingSkipped
<1>16. LateArePassed'
  <2> SUFFICES ASSUME NEW i \in late
               PROVE  contains_key(i) /\ Passed(messages[i].group_id, messages[i].order)'
    BY <1>6 DEF LateArePassed
  <2>1. contains_key(i) /\ i \in Stored /\ Passed(messages[i].group_id, messages[i].order)
    BY DEF IInv, LateArePassed, TypeOK, Stored
  <2>2. messages[i].group_id \in Groups /\ messages[i].order \in Nat
    BY <2>1, StoredMessage DEF IInv, HandlersInv, Message
  <2> QED
    BY <1>6, <1>13, <1>14, <2>1, <2>2
<1> QED
  BY <1>6, <1>9, <1>10, <1>11, <1>15, <1>16 DEF IInv

\* handlers.rs: what runs beside the reader keeps the order and the group of
\* every message, and what it inserts below the reader's position is late.
LEMMA WriteKeepsInv ==
    ASSUME IInv, Write
    PROVE  IInv'
<1>1. PICK t \in Tasks : HandlerStep(t)
  BY DEF Write, Requests
<1>2. /\ HandlersInv' /\ received' = received /\ more' = more
      /\ late' = late \cup {i \in MessageIds \ Stored :
            contains_key(i)' /\ Passed(messages'[i].group_id, messages'[i].order)}
  BY <1>1, HandlersKeepInv DEF IInv, Write
<1>3. ASSUME NEW i \in Stored
      PROVE  /\ i \in Stored' /\ contains_key(i)'
             /\ messages'[i].order = messages[i].order
             /\ messages'[i].group_id = messages[i].group_id
  <2>1. contains_key(i)' /\ SameIdentity(i) /\ i \in MessageIds
    BY <1>1, HandlersKeepIdentity DEF IInv, HandlersInv, Stored
  <2> QED
    BY <2>1 DEF SameIdentity, Stored
<1>4. ASSUME NEW g \in Groups
      PROVE  /\ InGroup(g) \subseteq InGroup(g)'
             /\ InGroup(g)' \cap Stored = InGroup(g)
             /\ InGroup(g)' \subseteq Stored'
  BY <1>3 DEF InGroup
<1>5. ASSUME NEW g \in Groups
      PROVE  Position(g)' = Position(g)
  <2>1. received[g] # <<>> => Last(received[g]) \in Stored
    BY PositionIsHighest, OrdersOfGroup DEF IInv, TypeOK
  <2> QED
    BY <1>2, <1>3, <2>1 DEF Position
<1>6. \A g \in Groups : \A n : Passed(g, n)' <=> Passed(g, n)
  BY <1>5 DEF Passed
<1>7. TypeOK'
  BY <1>2 DEF IInv, TypeOK, HandlersInv
<1>8. ReceivedOfGroup'
  BY <1>2, <1>4 DEF IInv, ReceivedOfGroup
<1>9. ReceivedInOrder'
  <2>1. \A g \in Groups : \A a \in DOMAIN received[g] : received[g][a] \in Stored
    BY OrdersOfGroup DEF IInv, ReceivedOfGroup
  <2> QED
    BY <1>2, <1>3, <2>1 DEF IInv, ReceivedInOrder, ByOrder
<1>10. NothingSkipped'
  <2> SUFFICES ASSUME NEW g \in Groups, NEW i \in InGroup(g)', i \notin late',
                      Passed(g, messages[i].order)'
               PROVE  i \in ToSet(received[g])
    BY <1>2 DEF NothingSkipped, ToSet
  <2>1. CASE i \in Stored
    BY <1>2, <1>3, <1>4, <1>6, <2>1 DEF IInv, NothingSkipped
  <2>2. CASE i \notin Stored
    <3>1. i \in MessageIds /\ contains_key(i)' /\ messages'[i].group_id = g
      BY DEF InGroup, Stored
    <3> QED
      BY <1>2, <1>6, <2>2, <3>1
  <2> QED
    BY <2>1, <2>2
<1>11. LateArePassed'
  <2> SUFFICES ASSUME NEW i \in late'
               PROVE  contains_key(i)' /\ Passed(messages[i].group_id, messages[i].order)'
    BY DEF LateArePassed
  <2>1. CASE i \in late
    <3>1. i \in Stored /\ Passed(messages[i].group_id, messages[i].order)
      BY <2>1 DEF IInv, LateArePassed, TypeOK, Stored
    <3>2. messages[i].group_id \in Groups
      BY <3>1, StoredMessage DEF IInv, HandlersInv, Message
    <3> QED
      BY <1>3, <1>6, <3>1, <3>2
  <2>2. CASE /\ i \in MessageIds /\ contains_key(i)'
             /\ Passed(messages'[i].group_id, messages'[i].order)
    <3>1. messages'[i] \in Message
      BY <1>2, <2>2, NoneIsNoMessage
      DEF contains_key, HandlersInv, HandlersTypeInv, AppTypeOK, StorageTypeOK
    <3>2. messages'[i].group_id \in Groups
      BY <3>1 DEF Message
    <3> QED
      BY <1>6, <2>2, <3>2
  <2> QED
    BY <1>2, <2>1, <2>2
<1> QED
  BY <1>2, <1>7, <1>8, <1>9, <1>10, <1>11 DEF IInv

LEMMA StutterKeepsInv ==
    ASSUME IInv, UNCHANGED vars
    PROVE  IInv'
<1>1. /\ UNCHANGED <<appVars, handlerVars>> /\ messages' = messages
      /\ received' = received /\ more' = more /\ late' = late
  BY DEF vars, readerVars, appVars, storageVars
<1>2. HandlersInv'
  BY <1>1, HandlersFrame DEF IInv
<1>3. /\ Stored' = Stored /\ \A g : InGroup(g)' = InGroup(g)
      /\ \A i, j : ByOrder(i, j)' <=> ByOrder(i, j)
      /\ \A i : contains_key(i)' <=> contains_key(i)
      /\ \A g, n : Passed(g, n)' <=> Passed(g, n)
      /\ \A g : ToSet(received[g])' = ToSet(received[g])
  BY <1>1 DEF Stored, InGroup, ByOrder, contains_key, Passed, Position, ToSet, Last
<1>4. TypeOK' /\ ReceivedOfGroup' /\ ReceivedInOrder'
  BY <1>1, <1>2, <1>3 DEF IInv, HandlersInv, TypeOK, ReceivedOfGroup, ReceivedInOrder
<1>5. NothingSkipped' /\ LateArePassed'
  BY <1>1, <1>3 DEF IInv, NothingSkipped, LateArePassed
<1> QED
  BY <1>2, <1>4, <1>5 DEF IInv

LEMMA InitIInv == Init => IInv
<1> SUFFICES ASSUME Init PROVE IInv
  OBVIOUS
<1>1. HandlersInv
  BY NoRequestsInv DEF Init
<1>2. \A g \in Groups : received[g] = <<>> /\ Position(g) = None
  BY DEF Init, Position
<1>3. TypeOK
  BY <1>1 DEF Init, TypeOK, HandlersInv
<1>4. ReceivedOfGroup /\ ReceivedInOrder /\ NothingSkipped /\ LateArePassed
  BY <1>2 DEF Init, ReceivedOfGroup, ReceivedInOrder, NothingSkipped, LateArePassed, Passed
<1> QED
  BY <1>1, <1>3, <1>4 DEF IInv

LEMMA NextIInv == IInv /\ [Next]_vars => IInv'
BY PollKeepsInv, WriteKeepsInv, StutterKeepsInv DEF Next

(***************************************************************************)
(* The theorems.                                                           *)
(***************************************************************************)
\* The inductive invariant holds in every reachable state.
THEOREM Invariant == Spec => []IInv
<1> QED
  BY InitIInv, NextIInv, PTL DEF Spec

\* handlers.rs: tasks, storage and what the reader got have their types.
THEOREM TypeCorrect == Spec => []TypeOK
<1>1. IInv => TypeOK
  BY DEF IInv
<1> QED
  BY <1>1, Invariant, PTL

\* memory.rs, create_message and update_message: the nonce set is exact also
\* while pages are read.
THEOREM NoncesAreExact == Spec => []NoncesExact
<1>1. IInv => NoncesExact
  BY DEF IInv, HandlersInv, ClientInv
<1> QED
  BY <1>1, Invariant, PTL

\* memory.rs, next_order: no order is given twice.
THEOREM OrdersAreUnique == Spec => []OrdersUnique
<1>1. IInv => OrdersUnique
  BY DEF IInv, HandlersInv, ClientInv
<1> QED
  BY <1>1, Invariant, PTL

\* handlers.rs, update_message and delete_message: the ownership check on a copy
\* holds when the write happens.
THEOREM WritersAreOwners == Spec => []WriterOwnsMessage
<1>1. IInv => WriterOwnsMessage
  BY DEF IInv, HandlersInv, ClientInv
<1> QED
  BY <1>1, Invariant, PTL

\* memory.rs, get_messages_by_group: whatever is written between two pages,
\* nothing is received twice or out of order.
THEOREM PagesInOrder == Spec => []ReceivedInOrder
<1>1. IInv => ReceivedInOrder
  BY DEF IInv
<1> QED
  BY <1>1, Invariant, PTL

\* memory.rs, get_messages_by_group: cut off at its end, a page leaves no hole;
\* only what is inserted below the reader's position is missed.
THEOREM PagesLeaveNoHole == Spec => []NothingSkipped
<1>1. IInv => NothingSkipped
  BY DEF IInv
<1> QED
  BY <1>1, Invariant, PTL

\* handlers.rs, get_messages: one message more is fetched than is returned, and
\* tells exactly whether the reader has something left to get.
LEMMA PollTellsMore ==
    ASSUME IInv, NEW g \in Groups, NEW limit \in Limits, Poll(g, limit)
    PROVE  more'[g] <=> \E i \in InGroup(g) \ late : i \notin ToSet(received'[g])
<1>1. PICK page \in Seq(MessageIds) : Answered(g, page)
  BY PolledPage
<1>2. received[g] \in Seq(MessageIds)
  BY DEF IInv, TypeOK
<1>3. ToSet(received'[g]) = ToSet(received[g]) \cup ToSet(page)
  <2>1. received'[g] = received[g] \o page
    BY <1>1 DEF Answered, IInv, TypeOK
  <2> QED
    BY <1>2, <2>1, Appended
<1>4. \A i \in InGroup(g) : messages[i].order \in Nat /\ messages[i].group_id = g
  BY OrdersOfGroup DEF IInv, InGroup
<1>5. /\ Position(g) # None => Position(g) \in Nat
      /\ \A i \in ToSet(received[g]) :
            Position(g) # None /\ messages[i].order <= Position(g)
  <2>1. ToSet(received[g]) # {} => received[g] # <<>>
    BY DEF ToSet
  <2> QED
    BY <1>2, <2>1, PositionIsHighest DEF IInv, ToSet
<1>6. ASSUME NEW i \in InGroup(g) \ late, i \notin ToSet(received'[g])
      PROVE  Position(g) # None => messages[i].order > Position(g)
  BY <1>3, <1>4, <1>5, <1>6 DEF IInv, NothingSkipped, Passed
<1>7. ASSUME NEW i \in InGroup(g) \ ToSet(page),
             Position(g) # None => messages[i].order > Position(g)
      PROVE  i \notin late /\ i \notin ToSet(received'[g])
  <2>1. i \notin ToSet(received[g])
    BY <1>4, <1>5, <1>7
  <2>2. i \notin late
    BY <1>4, <1>5, <1>7 DEF IInv, LateArePassed, Passed
  <2> QED
    BY <1>3, <2>1, <2>2
<1>8. more'[g] <=> \E i \in InGroup(g) \ ToSet(page) :
         Position(g) # None => messages[i].order > Position(g)
  BY <1>1 DEF Answered
<1> QED
  BY <1>3, <1>6, <1>7, <1>8

\* handlers.rs, get_messages: has_next is exact.
THEOREM HasNextTellsMore == Spec => HasNextIsExact
<1> DEFINE Exact == \A g \in Groups, limit \in Limits : Poll(g, limit) =>
              (more'[g] <=> \E i \in InGroup(g) \ late : i \notin ToSet(received'[g]))
<1>1. IInv => Exact
  BY PollTellsMore
<1>2. IInv => [Exact]_vars
  BY <1>1
<1> QED
  BY <1>2, Invariant, PTL DEF HasNextIsExact
=============================================================================
